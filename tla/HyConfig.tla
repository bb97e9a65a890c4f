------------------------------ MODULE HyConfig ------------------------------
(* What the core hysteria2 makes of a node (core/hy2/config.go,              *)
(* core/hy2/serverConfig.go): the panel's description i and the options o of *)
(* module Inbound, and the file at Hysteria2ConfigPath.                      *)
EXTENDS Inbound

(* A file c is a record of                                                   *)
(*   read        "fine", or "unread" when it cannot be read or decoded       *)
(*   initStream, maxStream, initConn, maxConn, idle, streams                 *)
(*               numbers of quic, 0 when absent; idle in seconds             *)
(*   ports       sniff: "off", "fine" or "bad" TCP or UDP ports              *)
(*   outbounds   a sequence of [name, type, mode, ip, device, addr]          *)
(*   acl         "none", "file", "inline", "both", "unknown" (names an       *)
(*               outbound there is not, or does not parse)                   *)
(*   resolver    [type, addr]                                                *)
(*   masq        [type, arg, status, http, https]: arg is the directory, URL *)
(*               or content; http and https the addresses of its own server  *)
(*   udpIdle     in seconds, 0 when absent                                   *)

MinWindow == 16384

\* getTLSConfig wants a pair, whatever the panel says of the security.
TlsFails(o) == o.cert # "pair"

Windows == {"initStream", "maxStream", "initConn", "maxConn"}

\* getQUICConfig; 0 is replaced by a default.
QuicFails(c) ==
    \/ \E w \in Windows : c[w] \in 1..(MinWindow - 1)
    \/ c.idle # 0 /\ c.idle \notin 4..120
    \/ c.streams \in 1..7

\* getConn: a listening socket, then the obfuscation, by its name in lower case;
\* "plain" is none, and salamander wants four bytes of a password.
HyObfs(i) == IF i.obfs \in {"", "plain"} THEN "none" ELSE "the password"

ObfsFails(i) ==
    \/ i.obfs = "other"
    \/ i.obfs \in {"salamander", "Salamander"} /\ ~ i.password

\* getRequestHook.
SniffFails(c) == c.ports = "bad"

\* serverConfigOutboundDirectToOutbound and its like for the other types.
OutboundFails(e) ==
    \/ e.name = "" \/ e.type \notin {"direct", "socks5", "http"}
    \/ /\ e.type = "direct"
       /\ \/ e.mode \notin {"", "auto", "64", "46", "6", "4"}
          \/ e.ip # "" /\ e.device # ""
          \/ e.ip = "bad"
    \/ e.type \in {"socks5", "http"} /\ e.addr = ""

\* Without outbounds there is a direct one.
EgressFails(c) ==
    \/ \E k \in DOMAIN c.outbounds : OutboundFails(c.outbounds[k])
    \/ c.acl \in {"both", "unknown"}
    \/ c.resolver.type \notin {"", "system", "tcp", "udp", "tls", "tcp-tls", "https", "http"}
    \/ c.resolver.type \notin {"", "system"} /\ c.resolver.addr = ""

StatusFails(status) == status # 0 /\ (status \notin 200..599 \/ status = 233)

\* getMasqHandler, to the start of the masquerade's own server.
MasqFails(c) ==
    LET m == c.masq
    IN \/ m.type \notin {"", "404", "file", "proxy", "string"}
       \/ m.type \in {"file", "proxy", "string"} /\ m.arg = ""
       \/ m.type = "proxy" /\ m.arg = "bad"
       \/ m.type = "string" /\ StatusFails(m.status)
       \/ m.http # "" /\ m.https = ""

MasqListens(c) == {a \in {c.masq.http, c.masq.https} : a # ""}

\* NewServer refuses this when all else is done.
ServerFails(c) == c.udpIdle # 0 /\ c.udpIdle \notin 2..600

HyBuilt(i) ==
    [kind |-> "built", type |-> "hysteria2", transport |-> "quic", security |-> "tls",
     encrypted |-> FALSE, obfs |-> HyObfs(i), up |-> i.up]

\* AddNode, with the addresses that are taken.  Beside the result: whether it
\* leaves the node's port bound, and what the masquerade's server listens on,
\* which nothing ever closes.  A file that cannot be read is Fatal; a node of
\* another type has no description Hysteria2.
HyAddNode(i, o, c, portTaken) ==
    LET early == FirstHit(<<CrashIf(c.read # "fine"),
                            RefuseIf(TlsFails(o) \/ QuicFails(c)),
                            RefuseIf(o.listen # "ip" \/ portTaken)>>, [kind |-> "bound"])
        late == FirstHit(<<CrashIf(i.type # "hysteria2"),
                           RefuseIf(ObfsFails(i) \/ SniffFails(c) \/ EgressFails(c)),
                           RefuseIf(MasqFails(c))>>, [kind |-> "listening"])
    IN IF early.kind # "bound" THEN [result |-> early, bound |-> portTaken, masq |-> {}]
       ELSE IF late.kind # "listening" THEN [result |-> late, bound |-> TRUE, masq |-> {}]
       ELSE [result |-> IF ServerFails(c) THEN Failed ELSE HyBuilt(i),
             bound |-> TRUE, masq |-> MasqListens(c)]
=============================================================================
