------------------------------ MODULE Selector ------------------------------
(* core/core.go and core/selector.go: which of the configured cores serves a *)
(* node, and what that core makes of it.  One node, from the start of the    *)
(* server over reloads (node/task.go) to its end; conf/node.go decodes its   *)
(* options, the rest of them when the core is known.                         *)
EXTENDS HyConfig

CONSTANTS
    Scenarios,   \* [setup, options, file, info]: the configuration and the node
    Edits(_),    \* the descriptions a panel may change one into
    MaxReloads,  \* bound on the reloads
    Nil

Types == {"xray", "sing", "hysteria2"}

CoreConfigs == [type : STRING, name : STRING,
                dns : {"none", "fine", "missing", "undecoded", "refused"}, files : {"fine", "bad"}]

\* core, "" or one of Types, is what Decode makes of written, the Core in the
\* file, and coreName the CoreName; raw and made are explained below.
NodeOptions == [core : Types \cup {""}, made : SUBSET {"xray", "sing"}, raw : BOOLEAN,
                written : Types \cup {"absent", "odd"}, coreName : STRING,
                listen : {"ip", "other"}, cert : {"nil", "none", "pair", "noPair"},
                fallback : {"off", "missing", "noDest", "fine"}]

\* Nothing is decoded yet; and the type of a node is that of the configuration
\* file, which the client asks the panel about (api/panel/panel.go).
ASSUME SelectorAssumption ==
    /\ MaxReloads \in Nat /\ Nil \notin Nat \cup Types
    /\ \A s \in Scenarios :
          /\ s.setup \in Seq(CoreConfigs) /\ s.setup # <<>>
          /\ s.options \in NodeOptions /\ s.options.core = "" /\ s.options.made = {}
          /\ s.info \in Infos
    /\ \A i \in Infos : \A j \in Edits(i) : j \in Infos /\ j.type = i.type

VARIABLES
    setup,     \* the cores of the configuration, [type, name, dns, files], where
               \* dns is the file at DnsConfigPath, and files those of routes,
               \* inbounds and outbounds
    option,    \* the options of the node, those of its core once they are decoded
    file,      \* the file at Hysteria2ConfigPath
    info,      \* the panel's description of the node
    dnsPath,   \* XRAY_DNS_PATH: "", "missing" (no file can be read there), "file"
    entry,     \* Selector.nodes: the core stored for the node's tag
    holds,     \* per core: the node's inbound, or NoInbound
    portTaken, \* the node's UDP port is bound by hysteria2
    masqs,     \* what servers of masquerades listen on
    conflict,  \* one of them was started on an address that is taken
    stage,     \* "new", "cored", "serving", "gone" (deleted, to be reloaded), "ended"
    fate,      \* how it ended: "running", "closed", "refused", "panic", "crash"
    reloads,
    first      \* history: the type of the core that served the node first

given == <<setup, file>>
node == <<option, info, dnsPath>>
core == <<entry, holds, portTaken, masqs, conflict>>
vars == <<given, node, core, stage, fate, reloads, first>>

NoInbound == [kind |-> "none"]

\* strings.ToLower, as far as core types are concerned.
Lower(t) == IF t = "Xray" THEN "xray" ELSE t

Protocols(t) ==
    CASE t = "xray" -> {"vmess", "vless", "shadowsocks", "trojan"}
      [] t = "sing" -> {"vmess", "vless", "shadowsocks", "trojan"} \cup QuicTypes \cup {"anytls"}
      [] t = "hysteria2" -> {"hysteria2"}

TypeOK ==
    /\ setup \in Seq(CoreConfigs) /\ setup # <<>>
    /\ option \in NodeOptions /\ info \in Infos /\ dnsPath \in {"", "missing", "file"}
    /\ entry \in DOMAIN setup \cup {Nil} /\ DOMAIN holds = DOMAIN setup
    /\ conflict \in BOOLEAN
    /\ stage \in {"new", "cored", "serving", "gone", "ended"}
    /\ fate \in {"running", "closed", "refused", "panic", "crash"}
    /\ stage # "ended" => fate = "running"
    /\ reloads \in 0 .. MaxReloads

Multi == Len(setup) > 1
TypeOf(k) == Lower(setup[k].type)

\* Options.UnmarshalJSON, over options that may have a Core already: a Core in
\* the file, even an empty or unknown one, replaces it.
Decode(o) ==
    LET c == IF o.written = "absent" THEN o.core ELSE o.written
    IN [o EXCEPT !.core = IF c \in Types THEN c ELSE "",
                 !.made = @ \cup ({c} \cap {"xray", "sing"}),
                 !.raw = @ \/ c \notin {"xray", "sing"}]

Init ==
    \E s \in Scenarios :
        /\ setup = s.setup /\ file = s.file /\ info = s.info
        /\ option = Decode(s.options)
        /\ dnsPath = "" /\ entry = Nil /\ holds = [k \in DOMAIN s.setup |-> NoInbound]
        /\ portTaken = FALSE /\ masqs = {} /\ conflict = FALSE
        /\ stage = "new" /\ fate = "running" /\ reloads = 0 /\ first = Nil

-----------------------------------------------------------------------------
End(why) == stage' = "ended" /\ fate' = why

KeyOf(k) == IF setup[k].name = "" THEN setup[k].type ELSE setup[k].name

\* The cores in the selector's map: the last one of each key.
Live == {k \in DOMAIN setup : \A j \in DOMAIN setup : j > k => KeyOf(j) # KeyOf(k)}

\* getCore panics over a file of routes, inbounds or outbounds that it cannot
\* read or understand, and over a DNS file that xray refuses; one that cannot
\* be read or decoded it only logs.
XrayCheck(c) == CrashIf(c.files = "bad" \/ c.dns = "refused")

\* New of the other two: a configuration file, a log level.
SingCheck(c) == RefuseIf(c.files = "bad")
Hy2Check(c) == RefuseIf(c.files = "bad")

\* NewCore makes a single core of exactly its type; NewSelector ignores the
\* case of a type, but CoreConfig.UnmarshalJSON has made no configuration for
\* one it does not know.
CoreCheck(k) ==
    LET t == IF Multi THEN TypeOf(k) ELSE setup[k].type
    IN IF t \notin Types THEN RefuseIf(TRUE)
       ELSE IF t # setup[k].type THEN CrashIf(TRUE)
       ELSE CASE t = "xray" -> XrayCheck(setup[k])
              [] t = "sing" -> SingCheck(setup[k])
              [] t = "hysteria2" -> Hy2Check(setup[k])

\* The environment variable is the whole process's: the last xray core's.
DnsPathSet ==
    LET xrays == {k \in DOMAIN setup : TypeOf(k) = "xray"}
        dns == IF xrays = {} THEN "none" ELSE setup[Max(xrays)].dns
    IN CASE dns = "none" -> ""
         [] dns = "missing" -> "missing"
         [] OTHER -> "file"

NewCore ==
    /\ stage = "new"
    /\ LET made == FirstHit([k \in DOMAIN setup |-> CoreCheck(k)], [kind |-> "built"])
       IN CASE made.kind = "built" -> /\ stage' = "cored" /\ UNCHANGED fate
                                      /\ dnsPath' = DnsPathSet
            [] made.kind = "error" -> End("refused") /\ UNCHANGED dnsPath
            [] made.kind = "crash" -> End("crash") /\ UNCHANGED dnsPath
    /\ UNCHANGED <<given, option, info, core, reloads, first>>

-----------------------------------------------------------------------------
\* The cores AddNode may take: by name, by type, or any that supports the
\* node, of which the last one the map's random order comes to.
Candidates ==
    CASE ~ Multi -> {1}
      [] Multi /\ option.coreName # "" -> {k \in Live : KeyOf(k) = option.coreName}
      [] Multi /\ option.coreName = "" /\ option.core = "" ->
            {k \in Live : info.type \in Protocols(TypeOf(k))}
      [] OTHER -> {k \in Live : TypeOf(k) = option.core}

Decodes == Multi /\ option.core = ""

\* Faulty variant of OptionsFor, for a mutant: the core's type is not kept.
OptionsForOnce(k) ==
    IF Decodes
    THEN [Decode([option EXCEPT !.core = TypeOf(k)]) EXCEPT !.core = "", !.raw = TRUE]
    ELSE option

\* The options as core k gets them: the selector fills in its type and decodes
\* what the file says again.
OptionsFor(k) ==
    IF Decodes THEN [Decode([option EXCEPT !.core = TypeOf(k)]) EXCEPT !.raw = FALSE]
    ELSE option

HyResult(k) == HyAddNode(info, OptionsFor(k), file, portTaken)

\* AddNode of core k, the port being free or taken.
ResultWith(k, taken) ==
    CASE TypeOf(k) = "xray" -> IF DnsFails(info, dnsPath) THEN Failed
                               ELSE XrayInbound(info, OptionsFor(k))
      [] TypeOf(k) = "sing" -> SingInbound(info, OptionsFor(k))
      [] TypeOf(k) = "hysteria2" -> HyAddNode(info, OptionsFor(k), file, taken).result

ResultAt(k) == ResultWith(k, portTaken)

\* Start refuses to start when AddNode fails; the monitor panics.
GiveUp == End(IF stage = "cored" THEN "refused" ELSE "panic")

\* No core supports the node, or nothing is left to decode the options from.
AddNodeFails ==
    /\ stage \in {"cored", "gone"}
    /\ Candidates = {} \/ (Decodes /\ ~ option.raw)
    /\ GiveUp
    /\ UNCHANGED <<given, node, core, reloads, first>>

Serve(k) ==
    /\ stage' = "serving" /\ UNCHANGED fate
    /\ holds' = [holds EXCEPT ![k] = ResultAt(k)]
    /\ entry' = IF Multi THEN k ELSE Nil
    /\ first' = IF first = Nil THEN TypeOf(k) ELSE first

AddNode(k) ==
    /\ stage \in {"cored", "gone"} /\ k \in Candidates /\ ~ (Decodes /\ ~ option.raw)
    /\ option' = OptionsFor(k)
    /\ CASE ResultAt(k).kind = "built" -> Serve(k)
         [] ResultAt(k).kind = "error" -> GiveUp /\ UNCHANGED <<holds, entry, first>>
         [] ResultAt(k).kind = "crash" -> End("crash") /\ UNCHANGED <<holds, entry, first>>
    /\ IF TypeOf(k) = "hysteria2"
       THEN /\ portTaken' = HyResult(k).bound
            /\ masqs' = masqs \cup HyResult(k).masq
            /\ conflict' = (masqs \cap HyResult(k).masq # {})
       ELSE UNCHANGED <<portTaken, masqs, conflict>>
    /\ UNCHANGED <<given, info, dnsPath, reloads>>

\* runMasqTCPServer: a listener that fails is Fatal.
MasqFatal ==
    /\ conflict /\ stage # "ended"
    /\ End("crash")
    /\ UNCHANGED <<given, node, core, reloads, first>>

Holder == IF Multi THEN entry ELSE 1

\* Faulty variant of DelNode, for a mutant.
DelNodeKeepsEntry ==
    /\ holds' = [holds EXCEPT ![Holder] = NoInbound]
    /\ portTaken' = FALSE
    /\ UNCHANGED <<entry, masqs, conflict>>

\* Faulty variant of DelNode, for a mutant.
DelNodeLeavesPort ==
    /\ holds' = [holds EXCEPT ![Holder] = NoInbound]
    /\ entry' = Nil
    /\ UNCHANGED <<portTaken, masqs, conflict>>

\* DelNode goes to the core stored for the tag; hysteria2 closes its server
\* and with it the port.
DelNode ==
    /\ holds' = [holds EXCEPT ![Holder] = NoInbound]
    /\ entry' = Nil
    /\ portTaken' = FALSE
    /\ UNCHANGED <<masqs, conflict>>

\* The monitor finds another description: it deletes the node, to add it anew.
Reload ==
    /\ stage = "serving" /\ reloads < MaxReloads
    /\ info' \in Edits(info)
    /\ DelNode
    /\ stage' = "gone" /\ reloads' = reloads + 1
    /\ UNCHANGED <<given, option, dnsPath, fate, first>>

Close ==
    /\ stage = "serving" /\ ~ conflict
    /\ DelNode
    /\ End("closed")
    /\ UNCHANGED <<given, node, reloads, first>>

Over == stage = "ended" /\ UNCHANGED vars

Next ==
    \/ NewCore \/ AddNodeFails \/ MasqFatal \/ Reload \/ Close \/ Over
    \/ \E k \in DOMAIN setup : AddNode(k)

Spec == Init /\ [][Next]_vars

-----------------------------------------------------------------------------
(* Properties.                                                               *)

\* The entry of the tag is the one core that has the node (selector.go:104-
\* 114): what goes to the node by its tag, its users and its traffic, finds
\* it, and no other core is left with an inbound of it.
RoutedToHolder ==
    /\ stage = "serving" =>
          /\ {k \in DOMAIN setup : holds[k] # NoInbound} = {Holder}
          /\ Multi => entry \in Live
    /\ stage = "gone" => entry = Nil /\ \A k \in DOMAIN setup : holds[k] = NoInbound

\* A node stays with the type of core that served it first (selector.go:93):
\* the random choice is made once, not again at every reload.
StaysWithItsType == stage = "serving" => TypeOf(Holder) = first

\* Options written as they should be: core types in their exact form, a Core
\* that is absent where there is a choice or names the core that is meant, and
\* files that are what they should be, but for xray's DNS.
WellWritten ==
    /\ \A k \in DOMAIN setup :
          setup[k].type \in Types /\ setup[k].files = "fine" /\ setup[k].dns # "refused"
    /\ option.written \in Types \cup {"absent"}
    /\ ~ Multi => option.written = setup[1].type
    /\ option.coreName # "" /\ option.written # "absent" =>
          \A k \in Live : KeyOf(k) = option.coreName => TypeOf(k) = option.written
    /\ option.written = "hysteria2" => info.type = "hysteria2"
    /\ option.coreName # "" =>
          \A k \in Live : KeyOf(k) = option.coreName => info.type \in Protocols(TypeOf(k))
    /\ file.read = "fine"

\* Descriptions the cores take for granted: settings of the transport
\* (inbound.go:212, 69) and a path in an http header (sing/node.go:149).
WellDescribed == info.settings \notin {"absent", "httpNoPath"}

\* A well written configuration and a well described node never crash the
\* process, but for a masquerade server, which a reload starts a second time
\* (config.go:377, 440); and a reload ends in a panic (task.go:138) only over
\* a description that no start would accept: nothing the node was before, its
\* port or its decoded options, stands in its way.
OnlyBadInputEnds ==
    /\ fate = "crash" => ~ WellWritten \/ ~ WellDescribed \/ conflict
    /\ fate = "panic" => ~ WellWritten \/ \E k \in Candidates : ResultWith(k, FALSE).kind = "error"

\* hysteria2 takes the file, whatever the node.
FileFits ==
    HyAddNode([info EXCEPT !.obfs = ""], [option EXCEPT !.cert = "pair", !.listen = "ip"],
              file, FALSE).result.kind = "built"

\* What xray and sing, and what sing and hysteria2, understand alike.  They do
\* not: REALITY over ws and httpupgrade, which xray-core refuses (inbound.go:151)
\* and sing builds; an ObfsType "plain" or in another case, which hysteria2 knows
\* (config.go:140), and one without a password, of which sing makes the password
\* (sing/node.go:382).
Shared ==
    /\ info.dns = "none"
    /\ CASE info.type \in V2ray ->
              /\ info.settings \in {"fine", "broken"}
              /\ info.network \in {"tcp", "ws", "grpc", "httpupgrade"} /\ info.encryption = ""
              /\ info.tls = "reality" => info.network \in {"tcp", "grpc"}
         [] info.type = "trojan" ->
              \/ info.network \in {"ws", "grpc"} /\ info.settings \in {"fine", "broken"}
              \/ info.network = "tcp" /\ info.settings = "fine"
         [] info.type = "hysteria2" ->
              /\ FileFits
              /\ info.obfs = "" \/ (info.obfs \in {"salamander", "other"} /\ info.password)
         [] OTHER -> TRUE
    /\ option.written = "absent" /\ option.fallback \in {"off", "fine"}

\* Whichever core the random order picks for a node without a Core
\* (selector.go:78), it makes the same inbound of what both understand, or
\* refuses it as the other does.
SameWhicheverCore ==
    stage = "cored" /\ Shared /\ option.coreName = "" =>
        \A k, l \in Candidates :
            LET a == ResultAt(k)
                b == ResultAt(l)
            IN \A f \in DOMAIN a \cap DOMAIN b : a[f] = b[f]

-----------------------------------------------------------------------------
(* What makes these so, layer by layer.                                      *)

Made == stage \in {"cored", "serving", "gone"}

\* The cores that were made are of types there are, and what a node's options
\* were decoded for is what they say; a Core in the file stands for itself.
CoresInv == Made => \A k \in DOMAIN setup : TypeOf(k) \in Types

OptionInv ==
    /\ option.written \in Types => option.core = option.written
    /\ option.core \in {"xray", "sing"} => option.core \in option.made
    /\ stage \in {"new", "cored"} /\ option.written = "absent" =>
          option.core = "" /\ option.made = {}
    /\ ~ Multi /\ option.written = "absent" => option.core = ""
    /\ Multi /\ option.written = "absent" /\ option.core # "" =>
          IF option.coreName = "" THEN info.type \in Protocols(option.core)
          ELSE \A k \in Live : KeyOf(k) = option.coreName => TypeOf(k) = option.core

HoldInv ==
    /\ RoutedToHolder
    /\ stage \in {"new", "cored"} => entry = Nil /\ \A k \in DOMAIN setup : holds[k] = NoInbound
    /\ stage \in {"new", "cored", "gone"} => portTaken = FALSE

\* Once served, a node has one type of core to go to, and goes there, or its
\* options are used up.
Spent == option.core = "" /\ ~ option.raw
Known(k) == k \in Live /\ IF option.coreName = "" THEN TypeOf(k) = option.core
                          ELSE KeyOf(k) = option.coreName

StayInv ==
    /\ stage \in {"new", "cored"} => first = Nil
    /\ stage \in {"serving", "gone"} =>
          /\ first \in Types
          /\ ~ Multi => first = TypeOf(1)
          /\ Multi /\ (option.coreName # "" \/ ~ Spent) =>
                (\E k \in Live : Known(k)) /\ \A k \in Live : Known(k) => TypeOf(k) = first
          /\ Multi /\ option.core = "" => option.written = "odd" /\ Spent
    /\ StaysWithItsType
=============================================================================
