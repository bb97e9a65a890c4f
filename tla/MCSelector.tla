----------------------------- MODULE MCSelector -----------------------------
(* Configurations of one to three cores and nodes of every type.  Of the     *)
(* options and of hysteria2's file at most one part differs from a base, of  *)
(* the description every part that the type of the node has.                 *)
EXTENDS Selector

XrayCore == [type |-> "xray", name |-> "", dns |-> "none", files |-> "fine"]
SingCore == [type |-> "sing", name |-> "", dns |-> "none", files |-> "fine"]
HyCore == [type |-> "hysteria2", name |-> "", dns |-> "none", files |-> "fine"]
DnsCore == [XrayCore EXCEPT !.dns = "fine"]
Named(c, n) == [c EXCEPT !.name = n]

Setups ==
    {<<XrayCore>>, <<SingCore>>, <<HyCore>>, <<SingCore, XrayCore>>,
     <<DnsCore, SingCore, HyCore>>, <<Named(DnsCore, "a"), Named(XrayCore, "b")>>,
     <<Named(SingCore, "a"), Named(HyCore, "a"), XrayCore>>,
     <<[XrayCore EXCEPT !.type = "Xray"], SingCore>>, <<[XrayCore EXCEPT !.type = "Xray"]>>,
     <<[XrayCore EXCEPT !.dns = "undecoded"], SingCore>>, <<[XrayCore EXCEPT !.dns = "missing"], SingCore>>,
     <<[XrayCore EXCEPT !.dns = "refused"]>>,
     <<[SingCore EXCEPT !.files = "bad"], XrayCore>>, <<SingCore, [XrayCore EXCEPT !.files = "bad"]>>}

Variants(base, field, values) == {[base EXCEPT ![field] = v] : v \in values}

Option == [core |-> "", made |-> {}, raw |-> FALSE, written |-> "absent", coreName |-> "",
           listen |-> "ip", cert |-> "pair", fallback |-> "off"]

Options ==
    LET bases == Variants(Option, "written", {"absent", "odd", "xray", "sing", "hysteria2"})
    IN UNION {UNION {Variants(b, "cert", {"nil", "none", "pair", "noPair"}),
                     Variants(b, "listen", {"other"}), Variants(b, "coreName", {"a", "none"}),
                     Variants(b, "fallback", {"missing", "noDest", "fine"})} : b \in bases}

Info(t) == [type |-> t, tls |-> "tls", network |-> "ws", settings |-> "fine", encryption |-> "",
            obfs |-> "", password |-> FALSE, up |-> 100, dns |-> "none"]

DnsInfos(i) == Variants(i, "dns", {"servers", "badServer", "main", "badMain"})

V2rayInfos(t) ==
    {[Info(t) EXCEPT !.tls = x[1], !.network = x[2], !.settings = x[3], !.encryption = x[4]] :
        x \in {"none", "tls", "reality"} \X {"", "tcp", "ws", "grpc", "httpupgrade", "xhttp", "other"}
              \X {"absent", "fine", "broken", "http", "httpNoPath"}
              \X (IF t = "vless" THEN {"", "mlkem", "other"} ELSE {""})}

TrojanInfos ==
    {[Info("trojan") EXCEPT !.network = x[1], !.settings = x[2]] :
        x \in {"", "tcp", "ws", "grpc", "other"} \X {"absent", "fine", "broken", "http"}}

InfosOf(t) ==
    DnsInfos(Info(t)) \cup
    CASE t \in V2ray -> V2rayInfos(t)
      [] t = "trojan" -> TrojanInfos
      [] t = "hysteria2" ->
            {[Info(t) EXCEPT !.obfs = x[1], !.password = x[2]] :
                x \in {"", "salamander", "Salamander", "plain", "other"} \X BOOLEAN}
      [] OTHER -> {Info(t)}

Direct == [name |-> "out", type |-> "direct", mode |-> "", ip |-> "", device |-> "", addr |-> ""]

Outbounds ==
    {Direct, [Direct EXCEPT !.name = ""], [Direct EXCEPT !.type = "other"],
     [Direct EXCEPT !.mode = "5"], [Direct EXCEPT !.mode = "64"], [Direct EXCEPT !.ip = "bad"],
     [Direct EXCEPT !.ip = "ip", !.device = "eth"], [Direct EXCEPT !.device = "eth"],
     [Direct EXCEPT !.type = "socks5"], [Direct EXCEPT !.type = "http", !.addr = "url"]}

File == [read |-> "fine", initStream |-> 0, maxStream |-> 0, initConn |-> 0, maxConn |-> 0,
         idle |-> 0, streams |-> 0, ports |-> "off", outbounds |-> <<>>, acl |-> "none",
         resolver |-> [type |-> "", addr |-> ""],
         masq |-> [type |-> "", arg |-> "", status |-> 0, http |-> "", https |-> ""], udpIdle |-> 0]

Files ==
    UNION {UNION {Variants(File, w, {0, 1, MinWindow - 1, MinWindow, 40000000}) : w \in Windows},
           Variants(File, "read", {"unread"}), Variants(File, "idle", {3, 4, 120, 121}),
           Variants(File, "streams", {7, 8}), Variants(File, "udpIdle", {1, 2, 600, 601}),
           Variants(File, "ports", {"fine", "bad"}),
           Variants(File, "acl", {"file", "inline", "both", "unknown"}),
           Variants(File, "outbounds", {<<e>> : e \in Outbounds} \cup {<<Direct, e>> : e \in Outbounds}),
           Variants(File, "resolver", [type : {"", "tcp", "https", "other"}, addr : {"", "dns"}]),
           Variants(File, "masq", [type : {"", "file", "proxy", "string", "other"},
                                   arg : {"", "bad", "text"}, status : {0, 199, 233, 404},
                                   http : {"", ":80"}, https : {"", ":443"}])}

MCScenarios ==
    {[setup |-> s, options |-> o, file |-> File, info |-> i] :
        s \in Setups, o \in {Option},
        i \in UNION {InfosOf(t) : t \in {"vless", "vmess", "trojan", "shadowsocks", "anytls", "tuic"}}}
    \cup
    {[setup |-> s, options |-> o, file |-> File, info |-> i] :
        s \in Setups, o \in Options,
        i \in UNION {{Info(t)} : t \in {"vless", "trojan", "shadowsocks", "hysteria2"}}
              \cup {[Info("vless") EXCEPT !.encryption = "mlkem"], [Info("vmess") EXCEPT !.settings = "absent"]}}
    \cup
    {[setup |-> s, options |-> o, file |-> f, info |-> i] :
        s \in {<<HyCore>>, <<DnsCore, SingCore, HyCore>>}, o \in Variants(Option, "written", {"absent", "hysteria2"}),
        f \in Files, i \in InfosOf("hysteria2")}

MCEdits(i) == {i, [i EXCEPT !.up = 200], [i EXCEPT !.tls = "none"], [i EXCEPT !.network = "xhttp"]}
=============================================================================
