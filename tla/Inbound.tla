------------------------------ MODULE Inbound ------------------------------
(* What the cores xray and sing make of a node: the panel's description of   *)
(* it (api/panel/node.go) and the options of the configuration file become   *)
(* an inbound (core/xray/inbound.go, core/sing/node.go), an error, or a      *)
(* crash of the process.                                                     *)
EXTENDS Integers, Sequences, FiniteSetsExt

(* A description i is a record of                                            *)
(*   type        "vmess", "vless", "trojan", "shadowsocks", "hysteria2", ... *)
(*   tls         the panel's field tls                                       *)
(*   network     "", "tcp", "ws", "grpc", "httpupgrade", "xhttp", "other"    *)
(*   settings    NetworkSettings: "absent", "fine", "broken" (not decoded),  *)
(*               "http" (a tcp header of that type), "httpNoPath"            *)
(*   encryption  of vless: "", "mlkem" (mlkem768x25519plus), "other"         *)
(*   obfs        ObfsType of hysteria2: "", "salamander", "Salamander" (in   *)
(*               another case), "plain", "other"                             *)
(*   password    whether ObfsPassword is written                             *)
(*   up          UpMbps of hysteria2                                         *)
(*   dns         the panel's dns routes: "none", "servers", "badServer",     *)
(*               "main", "badMain"                                           *)
(* and the options o of                                                      *)
(*   made        which of XrayOptions and SingOptions exist                  *)
(*   listen      ListenIP: "ip" or "other"                                   *)
(*   cert        CertConfig: "nil", "none", "pair", "noPair" (not loaded)    *)
(*   fallback    of XrayOptions: "off", "missing", "noDest", "fine"          *)

CONSTANT Speeds  \* the values of UpMbps

V2ray == {"vmess", "vless"}
QuicTypes == {"tuic", "hysteria", "hysteria2"}

Infos == [type : V2ray \cup QuicTypes \cup {"trojan", "shadowsocks", "anytls"},
          tls : {"none", "tls", "reality"},
          network : {"", "tcp", "ws", "grpc", "httpupgrade", "xhttp", "other"},
          settings : {"absent", "fine", "broken", "http", "httpNoPath"},
          encryption : {"", "mlkem", "other"},
          obfs : {"", "salamander", "Salamander", "plain", "other"}, password : BOOLEAN,
          up : Speeds,
          dns : {"none", "servers", "badServer", "main", "badMain"}]

Failed == [kind |-> "error"]
Crashed == [kind |-> "crash"]

RefuseIf(condition) == [bad |-> condition, result |-> Failed]
CrashIf(condition) == [bad |-> condition, result |-> Crashed]

\* The result of the first check that hits, in the order of the code.
FirstHit(checks, otherwise) ==
    LET hits == {k \in DOMAIN checks : checks[k].bad}
    IN IF hits = {} THEN otherwise ELSE checks[Min(hits)].result

\* GetNodeInfo: what the node's Security is depends on its type.
SecurityOf(i) ==
    CASE i.type \in V2ray -> i.tls
      [] i.type = "shadowsocks" -> "none"
      [] OTHER -> "tls"

\* The security of the inbound built; CertMode none switches TLS off.
Secured(i, o) ==
    IF SecurityOf(i) = "tls" /\ o.cert = "none" THEN "none" ELSE SecurityOf(i)

-----------------------------------------------------------------------------
(* xray.                                                                     *)

\* updateDNSConfig; path is XRAY_DNS_PATH: "", "missing" (a file that cannot be
\* read) or "file".  In the branch of "servers" the error of saveDnsConfig goes
\* to a shadowed variable.
DnsFails(i, path) == \/ i.dns \in {"badServer", "badMain"}
                     \/ i.dns = "main" /\ path # "file"

FallbackFails(i, o) == i.type \in {"vless", "trojan"} /\ o.fallback \in {"missing", "noDest"}

\* buildV2ray: without NetworkSettings it returns before StreamSetting is made.
V2rayFails(i) ==
    /\ i.type \in V2ray /\ i.settings # "absent"
    /\ \/ i.network \notin {"tcp", "ws", "grpc", "httpupgrade", "xhttp"}
       \/ i.settings = "broken"

\* buildTrojan: absent settings are not JSON.
TrojanFails(i) ==
    /\ i.type = "trojan"
    /\ \/ i.network \notin {"", "tcp", "ws", "grpc"}
       \/ i.settings \in {"absent", "broken"}

HttpHeader == {"http", "httpNoPath"}

XrayTransport(i) ==
    IF i.type = "shadowsocks" THEN "tcp"
    ELSE IF i.network \notin {"", "tcp"} THEN i.network
    ELSE IF i.settings \in HttpHeader THEN "tcp with header" ELSE "tcp"

\* The fallbacks of vless come without its encryption.
XrayEncrypts(i, o) == i.type = "vless" /\ o.fallback = "off" /\ i.encryption = "mlkem"

\* in.Build(): xray-core has REALITY over tcp, grpc and xhttp only.
BuildFails(i) == SecurityOf(i) = "reality" /\ i.network \in {"ws", "httpupgrade"}

XrayBuilt(i, o) ==
    [kind |-> "built", type |-> i.type, transport |-> XrayTransport(i),
     security |-> Secured(i, o), encrypted |-> XrayEncrypts(i, o)]

XrayInbound(i, o) ==
    FirstHit(<<RefuseIf(i.type \notin V2ray \cup {"trojan", "shadowsocks"}),
               CrashIf(i.type # "vmess" /\ "xray" \notin o.made),
               RefuseIf(FallbackFails(i, o)),
               RefuseIf(i.type = "vless" /\ o.fallback = "off" /\ i.encryption = "other"),
               RefuseIf(V2rayFails(i) \/ TrojanFails(i)),
               CrashIf("xray" \notin o.made \/ (i.type \in V2ray /\ i.settings = "absent")),
               RefuseIf(SecurityOf(i) = "tls" /\ o.cert \in {"nil", "noPair"}),
               RefuseIf(o.listen # "ip" \/ BuildFails(i))>>,
             XrayBuilt(i, o))

-----------------------------------------------------------------------------
(* sing.                                                                     *)

\* getInboundOptions decodes the settings of the networks it knows.
SingDecodes(i) ==
    /\ i.settings # "absent"
    /\ \/ i.type \in V2ray /\ i.network \in {"tcp", "ws", "grpc", "httpupgrade"}
       \/ i.type = "trojan" /\ i.network \in {"ws", "grpc"}

\* An unknown network of a trojan node is tcp, and that of another one is
\* left to sing-box, which knows no such transport.
SingTransport(i) ==
    IF i.type \in QuicTypes THEN "quic"
    ELSE IF i.type \in V2ray /\ i.network = "tcp" /\ i.settings \in HttpHeader THEN "http"
    ELSE IF \/ i.network = "" \/ i.type \in {"shadowsocks", "anytls"}
            \/ i.type = "trojan" /\ i.network \notin {"ws", "grpc"} THEN "tcp"
    ELSE i.network

\* A type without a password: it is the password of salamander, whatever it
\* says.
SingObfs(i) ==
    IF i.type # "hysteria2" \/ i.obfs = "" THEN "none"
    ELSE IF i.password THEN "the password" ELSE "the type"

\* With a password, sing-box knows the type in exactly this form.
SingObfsFails(i) ==
    i.type = "hysteria2" /\ i.password /\ i.obfs \notin {"", "salamander"}

\* Faulty variant of SingSecured, for a mutant.
SingSecuredAlways(i, o) == SecurityOf(i)

SingSecured(i, o) == Secured(i, o)

SingBuilt(i, o) ==
    [kind |-> "built", type |-> i.type, transport |-> SingTransport(i),
     security |-> SingSecured(i, o), encrypted |-> FALSE, obfs |-> SingObfs(i), up |-> i.up]

\* The checks of AddNode, then those of sing-box's Create.
SingInbound(i, o) ==
    FirstHit(<<RefuseIf(o.listen # "ip"),
               CrashIf("sing" \notin o.made),
               RefuseIf(SecurityOf(i) = "tls" /\ o.cert = "nil"),
               RefuseIf(SingDecodes(i) /\ i.settings = "broken"),
               CrashIf(SingDecodes(i) /\ i.network = "tcp" /\ i.settings = "httpNoPath"),
               RefuseIf(SecurityOf(i) = "tls" /\ o.cert = "noPair"),
               RefuseIf(i.type \in V2ray /\ SingTransport(i) \in {"xhttp", "other"}),
               RefuseIf(i.type \in QuicTypes \cup {"anytls"} /\ Secured(i, o) = "none"),
               RefuseIf(SingObfsFails(i))>>,
             SingBuilt(i, o))
=============================================================================
