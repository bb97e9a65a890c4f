--------------------------- MODULE Selector_proofs ---------------------------
(***************************************************************************)
(* Proofs about Selector, for any configurations, nodes and edits: the     *)
(* node is where its tag leads, stays with the type of core it had, serves *)
(* as it is described and as any other core would, and ends the process    *)
(* only over bad input.                                                    *)
(***************************************************************************)
EXTENDS Selector, WellFoundedInduction, TLAPS

(* A set of natural numbers that is not empty has a least one.              *)
LEMMA Least == ASSUME NEW T, T \subseteq Nat, T # {} PROVE \E x \in T : \A y \in T : x <= y
<1> DEFINE R == {ss \in Nat \X Nat : ss[1] < ss[2]}
<1>1. R = OpToRel(<, Nat)
  BY DEF OpToRel
<1>2. IsWellFoundedOn(R, Nat)
  BY <1>1, NatLessThanWellFounded
<1>3. PICK x \in T : \A y \in T : ~ (<<y, x>> \in R)
  <2> HIDE DEF R
  <2> QED BY <1>2, WFMin
<1>4. \A y \in T : ~ (y < x)
  BY <1>3
<1> QED BY <1>4

(* Either no check hits, or the result is that of one that does.            *)
LEMMA FirstHitIs ==
    ASSUME NEW checks, DOMAIN checks \subseteq Nat, NEW otherwise
    PROVE  \/ /\ \A k \in DOMAIN checks : ~ checks[k].bad
              /\ FirstHit(checks, otherwise) = otherwise
           \/ \E k \in DOMAIN checks :
                 checks[k].bad /\ FirstHit(checks, otherwise) = checks[k].result
<1> DEFINE hits == {k \in DOMAIN checks : checks[k].bad}
<1>1. CASE hits = {}
  <2>1. \A k \in DOMAIN checks : ~ checks[k].bad
    BY <1>1
  <2>2. FirstHit(checks, otherwise) = otherwise
    BY <1>1 DEF FirstHit
  <2> QED BY <2>1, <2>2
<1>2. CASE hits # {}
  <2>1. hits \subseteq DOMAIN checks /\ hits \subseteq Nat
    OBVIOUS
  <2>2. Min(hits) \in hits
    <3> HIDE DEF hits
    <3>1. \E x \in hits : \A y \in hits : x <= y
      BY <1>2, <2>1, Least
    <3> QED BY <3>1 DEF Min
  <2>3. FirstHit(checks, otherwise) = checks[Min(hits)].result
    BY <1>2 DEF FirstHit
  <2>4. checks[Min(hits)].bad
    BY <2>2
  <2> HIDE DEF hits
  <2> QED BY <2>1, <2>2, <2>3, <2>4
<1> QED BY <1>1, <1>2

(* What makes xray refuse a node, and what makes it crash over one.         *)
XrayRefuses(i, o) ==
    \/ i.type \notin V2ray \cup {"trojan", "shadowsocks"}
    \/ FallbackFails(i, o)
    \/ i.type = "vless" /\ o.fallback = "off" /\ i.encryption = "other"
    \/ V2rayFails(i) \/ TrojanFails(i)
    \/ SecurityOf(i) = "tls" /\ o.cert \in {"nil", "noPair"}
    \/ o.listen # "ip" \/ BuildFails(i)

XrayCrashes(i, o) == "xray" \notin o.made \/ (i.type \in V2ray /\ i.settings = "absent")

(* An inbound of xray is built when nothing stands against it, and a refusal*)
(* or a crash has a reason (core/xray/inbound.go).                          *)
LEMMA XrayResult ==
    ASSUME NEW i, NEW o
    PROVE  \/ XrayInbound(i, o) = XrayBuilt(i, o) /\ ~ XrayRefuses(i, o) /\ ~ XrayCrashes(i, o)
           \/ XrayInbound(i, o) = Failed /\ XrayRefuses(i, o)
           \/ XrayInbound(i, o) = Crashed /\ XrayCrashes(i, o)
<1> DEFINE c1 == i.type \notin V2ray \cup {"trojan", "shadowsocks"}
           c2 == i.type # "vmess" /\ "xray" \notin o.made
           c3 == FallbackFails(i, o)
           c4 == i.type = "vless" /\ o.fallback = "off" /\ i.encryption = "other"
           c5 == V2rayFails(i) \/ TrojanFails(i)
           c6 == "xray" \notin o.made \/ (i.type \in V2ray /\ i.settings = "absent")
           c7 == SecurityOf(i) = "tls" /\ o.cert \in {"nil", "noPair"}
           c8 == o.listen # "ip" \/ BuildFails(i)
           checks == <<RefuseIf(c1), CrashIf(c2), RefuseIf(c3), RefuseIf(c4), RefuseIf(c5),
                       CrashIf(c6), RefuseIf(c7), RefuseIf(c8)>>
<1>1. XrayInbound(i, o) = FirstHit(checks, XrayBuilt(i, o))
  BY DEF XrayInbound
<1>2. XrayRefuses(i, o) <=> c1 \/ c3 \/ c4 \/ c5 \/ c7 \/ c8
  BY DEF XrayRefuses
<1>3. XrayCrashes(i, o) <=> c2 \/ c6
  BY DEF XrayCrashes
<1> HIDE DEF c1, c2, c3, c4, c5, c6, c7, c8
<1>4. DOMAIN checks = {1, 2, 3, 4, 5, 6, 7, 8}
  OBVIOUS
<1>5. /\ (checks[1].bad <=> c1) /\ checks[1].result = Failed
      /\ (checks[2].bad <=> c2) /\ checks[2].result = Crashed
      /\ (checks[3].bad <=> c3) /\ checks[3].result = Failed
      /\ (checks[4].bad <=> c4) /\ checks[4].result = Failed
      /\ (checks[5].bad <=> c5) /\ checks[5].result = Failed
      /\ (checks[6].bad <=> c6) /\ checks[6].result = Crashed
      /\ (checks[7].bad <=> c7) /\ checks[7].result = Failed
      /\ (checks[8].bad <=> c8) /\ checks[8].result = Failed
  BY DEF RefuseIf, CrashIf
<1> HIDE DEF checks
<1>6. \/ /\ \A k \in DOMAIN checks : ~ checks[k].bad
         /\ XrayInbound(i, o) = XrayBuilt(i, o)
      \/ \E k \in DOMAIN checks : checks[k].bad /\ XrayInbound(i, o) = checks[k].result
  <2>1. DOMAIN checks \subseteq Nat
    BY <1>4
  <2> QED BY <1>1, <2>1, FirstHitIs
<1> QED BY <1>2, <1>3, <1>4, <1>5, <1>6

(* The same for sing.                                                       *)
SingRefuses(i, o) ==
    \/ o.listen # "ip"
    \/ SecurityOf(i) = "tls" /\ o.cert \in {"nil", "noPair"}
    \/ SingDecodes(i) /\ i.settings = "broken"
    \/ i.type \in V2ray /\ SingTransport(i) \in {"xhttp", "other"}
    \/ i.type \in QuicTypes \cup {"anytls"} /\ Secured(i, o) = "none"
    \/ SingObfsFails(i)

SingCrashes(i, o) ==
    "sing" \notin o.made \/ (SingDecodes(i) /\ i.network = "tcp" /\ i.settings = "httpNoPath")

(* So is one of sing (core/sing/node.go).                                   *)
LEMMA SingResult ==
    ASSUME NEW i, NEW o
    PROVE  \/ SingInbound(i, o) = SingBuilt(i, o) /\ ~ SingRefuses(i, o) /\ ~ SingCrashes(i, o)
           \/ SingInbound(i, o) = Failed /\ SingRefuses(i, o)
           \/ SingInbound(i, o) = Crashed /\ SingCrashes(i, o)
<1> DEFINE c1 == o.listen # "ip"
           c2 == "sing" \notin o.made
           c3 == SecurityOf(i) = "tls" /\ o.cert = "nil"
           c4 == SingDecodes(i) /\ i.settings = "broken"
           c5 == SingDecodes(i) /\ i.network = "tcp" /\ i.settings = "httpNoPath"
           c6 == SecurityOf(i) = "tls" /\ o.cert = "noPair"
           c7 == i.type \in V2ray /\ SingTransport(i) \in {"xhttp", "other"}
           c8 == i.type \in QuicTypes \cup {"anytls"} /\ Secured(i, o) = "none"
           c9 == SingObfsFails(i)
           checks == <<RefuseIf(c1), CrashIf(c2), RefuseIf(c3), RefuseIf(c4), CrashIf(c5),
                       RefuseIf(c6), RefuseIf(c7), RefuseIf(c8), RefuseIf(c9)>>
<1>1. SingInbound(i, o) = FirstHit(checks, SingBuilt(i, o))
  BY DEF SingInbound
<1>2. SingRefuses(i, o) <=> c1 \/ c3 \/ c4 \/ c6 \/ c7 \/ c8 \/ c9
  BY DEF SingRefuses
<1>3. SingCrashes(i, o) <=> c2 \/ c5
  BY DEF SingCrashes
<1> HIDE DEF c1, c2, c3, c4, c5, c6, c7, c8, c9
<1>4. DOMAIN checks = {1, 2, 3, 4, 5, 6, 7, 8, 9}
  OBVIOUS
<1>5. /\ (checks[1].bad <=> c1) /\ checks[1].result = Failed
      /\ (checks[2].bad <=> c2) /\ checks[2].result = Crashed
      /\ (checks[3].bad <=> c3) /\ checks[3].result = Failed
      /\ (checks[4].bad <=> c4) /\ checks[4].result = Failed
      /\ (checks[5].bad <=> c5) /\ checks[5].result = Crashed
      /\ (checks[6].bad <=> c6) /\ checks[6].result = Failed
      /\ (checks[7].bad <=> c7) /\ checks[7].result = Failed
      /\ (checks[8].bad <=> c8) /\ checks[8].result = Failed
      /\ (checks[9].bad <=> c9) /\ checks[9].result = Failed
  BY DEF RefuseIf, CrashIf
<1> HIDE DEF checks
<1>6. \/ /\ \A k \in DOMAIN checks : ~ checks[k].bad
         /\ SingInbound(i, o) = SingBuilt(i, o)
      \/ \E k \in DOMAIN checks : checks[k].bad /\ SingInbound(i, o) = checks[k].result
  <2>1. DOMAIN checks \subseteq Nat
    BY <1>4
  <2> QED BY <1>1, <2>1, FirstHitIs
<1> QED BY <1>2, <1>3, <1>4, <1>5, <1>6

(* Three checks in a row, as hysteria2 makes them twice.                    *)
LEMMA ThreeChecks ==
    ASSUME NEW a, NEW b, NEW c, NEW otherwise, NEW r,
           r = FirstHit(<<a, b, c>>, otherwise)
    PROVE  \/ ~ a.bad /\ ~ b.bad /\ ~ c.bad /\ r = otherwise
           \/ a.bad /\ r = a.result
           \/ b.bad /\ r = b.result
           \/ c.bad /\ r = c.result
<1> DEFINE checks == <<a, b, c>>
<1>1. DOMAIN checks = {1, 2, 3} /\ checks[1] = a /\ checks[2] = b /\ checks[3] = c
  OBVIOUS
<1>2. r = FirstHit(checks, otherwise)
  OBVIOUS
<1> HIDE DEF checks
<1>3. DOMAIN checks \subseteq Nat
  BY <1>1
<1> QED BY <1>1, <1>2, <1>3, FirstHitIs

(* And for hysteria2, the port being free or taken.                         *)
HyRefuses(i, o, c, taken) ==
    \/ TlsFails(o) \/ QuicFails(c)
    \/ o.listen # "ip" \/ taken
    \/ ObfsFails(i) \/ SniffFails(c) \/ EgressFails(c)
    \/ MasqFails(c)
    \/ ServerFails(c)

HyCrashes(i, c) == c.read # "fine" \/ i.type # "hysteria2"

(* And a server of hysteria2, whichever of its checks comes first.          *)
LEMMA HyAddNodeResult ==
    ASSUME NEW i, NEW o, NEW c, NEW taken
    PROVE  LET r == HyAddNode(i, o, c, taken).result
           IN  \/ r = HyBuilt(i) /\ ~ HyRefuses(i, o, c, taken) /\ ~ HyCrashes(i, c)
               \/ r = Failed /\ HyRefuses(i, o, c, taken)
               \/ r = Crashed /\ HyCrashes(i, c)
<1> DEFINE r == HyAddNode(i, o, c, taken).result
           c1 == c.read # "fine"
           c2 == TlsFails(o) \/ QuicFails(c)
           c3 == o.listen # "ip" \/ taken
           c4 == i.type # "hysteria2"
           c5 == ObfsFails(i) \/ SniffFails(c) \/ EgressFails(c)
           c6 == MasqFails(c)
           early == FirstHit(<<CrashIf(c1), RefuseIf(c2), RefuseIf(c3)>>, [kind |-> "bound"])
           late == FirstHit(<<CrashIf(c4), RefuseIf(c5), RefuseIf(c6)>>, [kind |-> "listening"])
<1>1. r = IF early.kind # "bound" THEN early
          ELSE IF late.kind # "listening" THEN late
          ELSE IF ServerFails(c) THEN Failed ELSE HyBuilt(i)
  BY DEF HyAddNode
<1>2. HyRefuses(i, o, c, taken) <=> c2 \/ c3 \/ c5 \/ c6 \/ ServerFails(c)
  BY DEF HyRefuses
<1>3. HyCrashes(i, c) <=> c1 \/ c4
  BY DEF HyCrashes
<1> HIDE DEF c1, c2, c3, c4, c5, c6
<1>4. /\ \A x : (RefuseIf(x).bad <=> x) /\ RefuseIf(x).result = Failed
      /\ \A x : (CrashIf(x).bad <=> x) /\ CrashIf(x).result = Crashed
  BY DEF RefuseIf, CrashIf
<1>5. \/ ~ c1 /\ ~ c2 /\ ~ c3 /\ early = [kind |-> "bound"]
      \/ (c2 \/ c3) /\ early = Failed
      \/ c1 /\ early = Crashed
  BY <1>4, ThreeChecks
<1>6. \/ ~ c4 /\ ~ c5 /\ ~ c6 /\ late = [kind |-> "listening"]
      \/ (c5 \/ c6) /\ late = Failed
      \/ c4 /\ late = Crashed
  BY <1>4, ThreeChecks
<1> HIDE DEF early, late, r
<1>7. \/ r = HyBuilt(i) /\ ~ HyRefuses(i, o, c, taken) /\ ~ HyCrashes(i, c)
      \/ r = Failed /\ HyRefuses(i, o, c, taken)
      \/ r = Crashed /\ HyCrashes(i, c)
  BY <1>1, <1>2, <1>3, <1>5, <1>6 DEF Failed, Crashed
<1> QED BY <1>7 DEF r

-----------------------------------------------------------------------------
(* What Options.UnmarshalJSON makes of options, and what the selector does. *)
LEMMA DecodeIs ==
    ASSUME NEW o \in NodeOptions
    PROVE  /\ Decode(o) \in NodeOptions
           /\ Decode(o).core = CASE o.written = "absent" -> o.core
                                 [] o.written = "odd" -> ""
                                 [] OTHER -> o.written
           /\ Decode(o).made = o.made \cup ({Decode(o).core} \cap {"xray", "sing"})
           /\ \A f \in {"written", "coreName", "listen", "cert", "fallback"} : Decode(o)[f] = o[f]
<1> DEFINE c == IF o.written = "absent" THEN o.core ELSE o.written
           kind == IF c \in Types THEN c ELSE ""
           made == o.made \cup ({c} \cap {"xray", "sing"})
           raw == o.raw \/ c \notin {"xray", "sing"}
<1>1. Decode(o) = [o EXCEPT !.core = kind, !.made = made, !.raw = raw]
  BY DEF Decode
<1>2. kind \in Types \cup {""} /\ made \in SUBSET {"xray", "sing"} /\ raw \in BOOLEAN
  BY DEF NodeOptions
<1>3. kind = CASE o.written = "absent" -> o.core
               [] o.written = "odd" -> ""
               [] OTHER -> o.written
  BY DEF NodeOptions, Types
<1>4. made = o.made \cup ({kind} \cap {"xray", "sing"})
  BY DEF NodeOptions, Types
<1> HIDE DEF c, kind, made, raw
<1>5. Decode(o) \in NodeOptions
  BY <1>1, <1>2 DEF NodeOptions
<1>6. /\ Decode(o).core = kind /\ Decode(o).made = made
      /\ \A f \in {"written", "coreName", "listen", "cert", "fallback"} : Decode(o)[f] = o[f]
  BY <1>1 DEF NodeOptions
<1> QED BY <1>3, <1>4, <1>5, <1>6

(* The options as the core gets them: those of the node when they were       *)
(* decoded, and else decoded anew for the type of the core.                  *)
LEMMA OptionsForIs ==
    ASSUME option \in NodeOptions, NEW k, TypeOf(k) \in Types
    PROVE  /\ OptionsFor(k) \in NodeOptions
           /\ \A f \in {"written", "coreName", "listen", "cert", "fallback"} :
                 OptionsFor(k)[f] = option[f]
           /\ ~ Decodes => OptionsFor(k) = option
           /\ Decodes =>
                 /\ OptionsFor(k).core = CASE option.written = "absent" -> TypeOf(k)
                                           [] option.written = "odd" -> ""
                                           [] OTHER -> option.written
                 /\ OptionsFor(k).made =
                       option.made \cup ({OptionsFor(k).core} \cap {"xray", "sing"})
                 /\ OptionsFor(k).raw = FALSE
<1> DEFINE o == [option EXCEPT !.core = TypeOf(k)]
           d == Decode(o)
<1>1. /\ o \in NodeOptions /\ o.core = TypeOf(k) /\ o.made = option.made
      /\ \A f \in {"written", "coreName", "listen", "cert", "fallback"} : o[f] = option[f]
  BY DEF NodeOptions
<1>2. OptionsFor(k) = IF Decodes THEN [d EXCEPT !.raw = FALSE] ELSE option
  BY DEF OptionsFor
<1> HIDE DEF o
<1>3. /\ d \in NodeOptions
      /\ d.core = CASE o.written = "absent" -> o.core
                    [] o.written = "odd" -> ""
                    [] OTHER -> o.written
      /\ d.made = o.made \cup ({d.core} \cap {"xray", "sing"})
      /\ \A f \in {"written", "coreName", "listen", "cert", "fallback"} : d[f] = o[f]
  BY <1>1, DecodeIs
<1> HIDE DEF d
<1>4. LET e == [d EXCEPT !.raw = FALSE]
      IN  /\ e \in NodeOptions /\ e.raw = FALSE /\ e.core = d.core /\ e.made = d.made
          /\ \A f \in {"written", "coreName", "listen", "cert", "fallback"} : e[f] = d[f]
  BY <1>3 DEF NodeOptions
<1> QED BY <1>1, <1>2, <1>3, <1>4

(* Which cores NewCore refuses: a core that is made has a type there is, and*)
(* nothing stands against one of its exact type with files that are fine.   *)
LEMMA CoreCheckIs ==
    ASSUME setup \in Seq(CoreConfigs), NEW k \in DOMAIN setup
    PROVE  /\ CoreCheck(k).result \in {Failed, Crashed}
           /\ ~ CoreCheck(k).bad => TypeOf(k) \in Types
           /\ setup[k].type \in Types /\ setup[k].files = "fine" /\ setup[k].dns # "refused"
              => ~ CoreCheck(k).bad
<1> DEFINE t == IF Multi THEN TypeOf(k) ELSE setup[k].type
<1>1. /\ \A x : (RefuseIf(x).bad <=> x) /\ RefuseIf(x).result = Failed
      /\ \A x : (CrashIf(x).bad <=> x) /\ CrashIf(x).result = Crashed
  BY DEF RefuseIf, CrashIf
<1>2. CoreCheck(k) = IF t \notin Types THEN RefuseIf(TRUE)
                     ELSE IF t # setup[k].type THEN CrashIf(TRUE)
                     ELSE CASE t = "xray" -> XrayCheck(setup[k])
                            [] t = "sing" -> SingCheck(setup[k])
                            [] t = "hysteria2" -> Hy2Check(setup[k])
  BY DEF CoreCheck
<1>3. t \in Types /\ t = setup[k].type => TypeOf(k) = t
  BY DEF TypeOf, Lower, Types
<1>4. setup[k].type \in Types => t = setup[k].type
  BY DEF TypeOf, Lower, Types
<1> HIDE DEF t
<1>5. CASE t \notin Types
  BY <1>1, <1>2, <1>4, <1>5
<1>6. CASE t \in Types /\ t # setup[k].type
  BY <1>1, <1>2, <1>4, <1>6
<1>7. CASE t \in Types /\ t = setup[k].type
  <2>1. CASE t = "xray"
    BY <1>1, <1>2, <1>3, <1>7, <2>1 DEF XrayCheck
  <2>2. CASE t = "sing"
    BY <1>1, <1>2, <1>3, <1>7, <2>2 DEF SingCheck
  <2>3. CASE t = "hysteria2"
    BY <1>1, <1>2, <1>3, <1>7, <2>3 DEF Hy2Check
  <2> QED BY <1>7, <2>1, <2>2, <2>3 DEF Types
<1> QED BY <1>5, <1>6, <1>7

-----------------------------------------------------------------------------
(* What AddNode of a core comes to, and why.                                *)
Refuses(k, taken) ==
    LET o == OptionsFor(k)
    IN  \/ TypeOf(k) = "xray" /\ (DnsFails(info, dnsPath) \/ XrayRefuses(info, o))
        \/ TypeOf(k) = "sing" /\ SingRefuses(info, o)
        \/ TypeOf(k) = "hysteria2" /\ HyRefuses(info, o, file, taken)

Crashes(k) ==
    LET o == OptionsFor(k)
    IN  \/ TypeOf(k) = "xray" /\ XrayCrashes(info, o)
        \/ TypeOf(k) = "sing" /\ SingCrashes(info, o)
        \/ TypeOf(k) = "hysteria2" /\ HyCrashes(info, file)

Built(k) == IF TypeOf(k) = "xray" THEN XrayBuilt(info, OptionsFor(k))
            ELSE IF TypeOf(k) = "sing" THEN SingBuilt(info, OptionsFor(k))
            ELSE HyBuilt(info)

(* Whatever the core, its AddNode builds, refuses or crashes for a reason.  *)
LEMMA ResultIs ==
    ASSUME NEW k, TypeOf(k) \in Types, NEW taken
    PROVE  \/ ResultWith(k, taken) = Built(k) /\ ~ Refuses(k, taken) /\ ~ Crashes(k)
           \/ ResultWith(k, taken) = Failed /\ Refuses(k, taken)
           \/ ResultWith(k, taken) = Crashed /\ Crashes(k)
<1> DEFINE o == OptionsFor(k)
<1>1. CASE TypeOf(k) = "xray"
  <2>1. ResultWith(k, taken) = IF DnsFails(info, dnsPath) THEN Failed ELSE XrayInbound(info, o)
    BY <1>1 DEF ResultWith
  <2>2. /\ Refuses(k, taken) <=> DnsFails(info, dnsPath) \/ XrayRefuses(info, o)
        /\ Crashes(k) <=> XrayCrashes(info, o)
        /\ Built(k) = XrayBuilt(info, o)
    BY <1>1 DEF Refuses, Crashes, Built
  <2> QED BY <2>1, <2>2, XrayResult
<1>2. CASE TypeOf(k) = "sing"
  <2>1. ResultWith(k, taken) = SingInbound(info, o)
    BY <1>2 DEF ResultWith
  <2>2. /\ Refuses(k, taken) <=> SingRefuses(info, o)
        /\ Crashes(k) <=> SingCrashes(info, o)
        /\ Built(k) = SingBuilt(info, o)
    BY <1>2 DEF Refuses, Crashes, Built
  <2> QED BY <2>1, <2>2, SingResult
<1>3. CASE TypeOf(k) = "hysteria2"
  <2>1. ResultWith(k, taken) = HyAddNode(info, o, file, taken).result
    BY <1>3 DEF ResultWith
  <2>2. /\ Refuses(k, taken) <=> HyRefuses(info, o, file, taken)
        /\ Crashes(k) <=> HyCrashes(info, file)
        /\ Built(k) = HyBuilt(info)
    BY <1>3 DEF Refuses, Crashes, Built
  <2> QED BY <2>1, <2>2, HyAddNodeResult
<1> QED BY <1>1, <1>2, <1>3 DEF Types

(* What is built is an inbound.                                             *)
LEMMA BuiltKind == ASSUME NEW k PROVE Built(k).kind = "built" /\ Built(k) # NoInbound
<1>1. Built(k).kind = "built"
  BY DEF Built, XrayBuilt, SingBuilt, HyBuilt
<1> QED BY <1>1 DEF NoInbound

(* AddNode, taken apart: it serves, or the process ends.                    *)
LEMMA AddNodeCases ==
    ASSUME NEW k, TypeOf(k) \in Types, AddNode(k)
    PROVE  /\ stage \in {"cored", "gone"} /\ k \in Candidates /\ ~ (Decodes /\ ~ option.raw)
           /\ option' = OptionsFor(k)
           /\ UNCHANGED <<setup, file, info, dnsPath, reloads>>
           /\ conflict' \in {conflict, TRUE, FALSE}
           /\ \/ /\ ResultAt(k) = Built(k) /\ ~ Refuses(k, portTaken) /\ ~ Crashes(k)
                 /\ Serve(k)
              \/ /\ ResultAt(k) = Failed /\ Refuses(k, portTaken)
                 /\ GiveUp /\ UNCHANGED <<holds, entry, first>>
              \/ /\ ResultAt(k) = Crashed /\ Crashes(k)
                 /\ End("crash") /\ UNCHANGED <<holds, entry, first>>
<1>1. ResultAt(k) = ResultWith(k, portTaken)
  BY DEF ResultAt
<1>2. conflict' \in {conflict, TRUE, FALSE}
  BY DEF AddNode
<1>3. CASE ResultAt(k) = Built(k) /\ ~ Refuses(k, portTaken) /\ ~ Crashes(k)
  <2>1. ResultAt(k).kind = "built"
    BY <1>3, BuiltKind
  <2> QED BY <1>2, <1>3, <2>1 DEF AddNode, given
<1>4. CASE ResultAt(k) = Failed /\ Refuses(k, portTaken)
  <2>1. ResultAt(k).kind = "error"
    BY <1>4 DEF Failed
  <2> QED BY <1>2, <1>4, <2>1 DEF AddNode, given
<1>5. CASE ResultAt(k) = Crashed /\ Crashes(k)
  <2>1. ResultAt(k).kind = "crash"
    BY <1>5 DEF Crashed
  <2> QED BY <1>2, <1>5, <2>1 DEF AddNode, given
<1> QED BY <1>1, <1>3, <1>4, <1>5, ResultIs

(* The cores AddNode may take are cores there are.                          *)
LEMMA CandidatesAre ==
    ASSUME setup \in Seq(CoreConfigs), setup # <<>>
    PROVE  Candidates \subseteq DOMAIN setup /\ (Multi => Candidates \subseteq Live)
<1>1. 1 \in DOMAIN setup
  OBVIOUS
<1> QED BY <1>1 DEF Candidates, Live

-----------------------------------------------------------------------------
(* NewCore goes on only when no core stood against it.                      *)
LEMMA NewCoreCases ==
    ASSUME setup \in Seq(CoreConfigs), NewCore
    PROVE  /\ stage = "new"
           /\ UNCHANGED <<given, option, info, core, reloads, first>>
           /\ \/ /\ \A k \in DOMAIN setup : ~ CoreCheck(k).bad
                 /\ stage' = "cored" /\ UNCHANGED fate /\ dnsPath' = DnsPathSet
              \/ /\ \E k \in DOMAIN setup : CoreCheck(k).bad
                 /\ End("refused") \/ End("crash")
                 /\ UNCHANGED dnsPath
<1> DEFINE checks == [k \in DOMAIN setup |-> CoreCheck(k)]
           otherwise == [kind |-> "built"]
           made == FirstHit(checks, otherwise)
<1>1. DOMAIN checks = DOMAIN setup /\ \A k \in DOMAIN setup : checks[k] = CoreCheck(k)
  OBVIOUS
<1>2. DOMAIN setup \subseteq Nat
  OBVIOUS
<1>3. (CASE made.kind = "built" -> /\ stage' = "cored" /\ UNCHANGED fate
                                   /\ dnsPath' = DnsPathSet
         [] made.kind = "error" -> End("refused") /\ UNCHANGED dnsPath
         [] made.kind = "crash" -> End("crash") /\ UNCHANGED dnsPath)
  BY DEF NewCore
<1> HIDE DEF checks
<1>4. \/ /\ \A k \in DOMAIN setup : ~ CoreCheck(k).bad
         /\ made = otherwise
      \/ \E k \in DOMAIN setup : CoreCheck(k).bad /\ made \in {Failed, Crashed}
  <2>1. \/ (\A k \in DOMAIN checks : ~ checks[k].bad) /\ made = otherwise
        \/ \E k \in DOMAIN checks : checks[k].bad /\ made = checks[k].result
    BY <1>1, <1>2, FirstHitIs
  <2> QED BY <1>1, <2>1, CoreCheckIs
<1> HIDE DEF made
<1>5. CASE made = otherwise /\ \A k \in DOMAIN setup : ~ CoreCheck(k).bad
  <2>1. made.kind = "built"
    BY <1>5
  <2> QED BY <1>3, <1>5, <2>1 DEF NewCore
<1>6. CASE made \in {Failed, Crashed} /\ \E k \in DOMAIN setup : CoreCheck(k).bad
  <2>1. made.kind = "error" \/ made.kind = "crash"
    BY <1>6 DEF Failed, Crashed
  <2> QED BY <1>3, <1>6, <2>1 DEF NewCore
<1> QED BY <1>4, <1>5, <1>6

(* Another description of the panel is one of the same type.                *)
LEMMA EditsAre ==
    ASSUME NEW i \in Infos, NEW j \in Edits(i) PROVE j \in Infos /\ j.type = i.type
  BY SelectorAssumption

(* A reload below the bound is within it.                                   *)
LEMMA OneMore ==
    /\ 0 \in 0 .. MaxReloads
    /\ \A r \in 0 .. MaxReloads : r < MaxReloads => r + 1 \in 0 .. MaxReloads
<1>1. MaxReloads \in Nat
  BY SelectorAssumption
<1> QED BY <1>1

(* Nothing is served by a core that is not there, and the options stay      *)
(* options (core/selector.go, conf/node.go).                                *)
THEOREM TypeCorrect == Spec => [](TypeOK /\ CoresInv)
<1> USE DEF TypeOK, given, node, core
<1>1. Init => TypeOK /\ CoresInv
  <2> SUFFICES ASSUME Init PROVE TypeOK /\ CoresInv
    OBVIOUS
  <2>1. PICK s \in Scenarios :
           /\ setup = s.setup /\ file = s.file /\ info = s.info /\ option = Decode(s.options)
           /\ dnsPath = "" /\ entry = Nil /\ holds = [k \in DOMAIN s.setup |-> NoInbound]
           /\ portTaken = FALSE /\ masqs = {} /\ conflict = FALSE
           /\ stage = "new" /\ fate = "running" /\ reloads = 0 /\ first = Nil
    BY DEF Init
  <2>2. /\ s.setup \in Seq(CoreConfigs) /\ s.setup # <<>>
        /\ s.options \in NodeOptions /\ s.info \in Infos
    BY SelectorAssumption
  <2>3. option \in NodeOptions
    BY <2>1, <2>2, DecodeIs
  <2>4. setup \in Seq(CoreConfigs) /\ setup # <<>> /\ info \in Infos /\ DOMAIN holds = DOMAIN setup
    BY <2>1, <2>2
  <2>5. reloads = 0 /\ reloads \in 0 .. MaxReloads
    <3>1. reloads = 0
      BY <2>1
    <3> QED BY <3>1, OneMore
  <2>6. /\ dnsPath = "" /\ entry = Nil /\ conflict = FALSE /\ stage = "new" /\ fate = "running"
    BY <2>1
  <2>7. TypeOK
    BY <2>3, <2>4, <2>5, <2>6
  <2> QED BY <2>6, <2>7 DEF CoresInv, Made
<1>2. TypeOK /\ CoresInv /\ [Next]_vars => TypeOK' /\ CoresInv'
  <2> SUFFICES ASSUME TypeOK, CoresInv, [Next]_vars PROVE TypeOK' /\ CoresInv'
    OBVIOUS
  <2>0. ASSUME setup' = setup, Made' => Made PROVE CoresInv'
    BY <2>0 DEF CoresInv, TypeOf
  <2>1. CASE UNCHANGED vars
    BY <2>0, <2>1 DEF vars, Made
  <2>2. CASE NewCore
    <3>1. TypeOK'
      BY <2>2, NewCoreCases DEF End, DnsPathSet
    <3>2. \A k \in DOMAIN setup : ~ CoreCheck(k).bad => TypeOf(k) \in Types
      BY CoreCheckIs
    <3>3. CoresInv'
      BY <2>2, <3>2, NewCoreCases DEF CoresInv, Made, TypeOf, End
    <3> QED BY <3>1, <3>3
  <2>3. CASE AddNodeFails
    BY <2>0, <2>3 DEF AddNodeFails, GiveUp, End, Made
  <2>4. ASSUME NEW k \in DOMAIN setup, AddNode(k) PROVE TypeOK' /\ CoresInv'
    <3>1. stage \in {"cored", "gone"}
      BY <2>4 DEF AddNode
    <3>2. TypeOf(k) \in Types
      BY <3>1 DEF CoresInv, Made
    <3>3. option' \in NodeOptions
      <4>1. option' = OptionsFor(k)
        BY <2>4, <3>2, AddNodeCases
      <4>2. OptionsFor(k) \in NodeOptions
        BY <3>2, OptionsForIs
      <4> QED BY <4>1, <4>2
    <3>4. /\ UNCHANGED <<setup, file, info, dnsPath, reloads>> /\ conflict' \in BOOLEAN
          /\ Serve(k) \/ (GiveUp /\ UNCHANGED <<holds, entry, first>>)
             \/ (End("crash") /\ UNCHANGED <<holds, entry, first>>)
      BY <2>4, <3>2, AddNodeCases
    <3>5. TypeOK'
      BY <3>1, <3>3, <3>4 DEF Serve, GiveUp, End
    <3> QED BY <2>0, <3>1, <3>4, <3>5 DEF Made
  <2>5. CASE MasqFatal
    BY <2>0, <2>5 DEF MasqFatal, End, Made
  <2>6. CASE Reload
    <3>1. info' \in Infos
      <4>1. info \in Infos /\ info' \in Edits(info)
        BY <2>6 DEF Reload
      <4> QED BY <4>1, EditsAre
    <3>2. reloads' \in 0 .. MaxReloads
      <4>1. reloads \in 0 .. MaxReloads /\ reloads < MaxReloads /\ reloads' = reloads + 1
        BY <2>6 DEF Reload
      <4> QED BY <4>1, OneMore
    <3> QED BY <2>0, <2>6, <3>1, <3>2 DEF Reload, DelNode, Made
  <2>7. CASE Close
    BY <2>0, <2>7 DEF Close, DelNode, End, Made
  <2>8. CASE Over
    BY <2>0, <2>8 DEF Over, vars, Made
  <2> QED BY <2>1, <2>2, <2>3, <2>4, <2>5, <2>6, <2>7, <2>8 DEF Next
<1> QED BY <1>1, <1>2, PTL DEF Spec

(* What AddNode and DelNode do to the inbounds (core/selector.go:66-114): a *)
(* tag leads to the one core that has the node, and a node that is deleted  *)
(* leaves no inbound and no port behind it.                                 *)
THEOREM HoldInvHolds == Spec => []HoldInv
<1> USE DEF given, node, core
<1>1. Init => HoldInv
  BY DEF Init, HoldInv, RoutedToHolder
<1>2. TypeOK /\ CoresInv /\ HoldInv /\ [Next]_vars => HoldInv'
  <2> SUFFICES ASSUME TypeOK, CoresInv, HoldInv, [Next]_vars PROVE HoldInv'
    OBVIOUS
  <2>0. ASSUME stage' = "ended" PROVE HoldInv'
    BY <2>0 DEF HoldInv, RoutedToHolder
  <2>1. CASE UNCHANGED vars
    BY <2>1 DEF vars, HoldInv, RoutedToHolder, Holder, Multi, Live, KeyOf
  <2>2. CASE NewCore
    <3>1. /\ stage = "new" /\ stage' \in {"cored", "ended"}
          /\ UNCHANGED <<setup, entry, holds, portTaken>>
      BY <2>2, NewCoreCases DEF End, TypeOK
    <3> QED BY <3>1 DEF HoldInv, RoutedToHolder
  <2>3. CASE AddNodeFails
    BY <2>0, <2>3 DEF AddNodeFails, GiveUp, End
  <2>4. ASSUME NEW k \in DOMAIN setup, AddNode(k) PROVE HoldInv'
    <3>1. stage \in {"cored", "gone"} /\ k \in Candidates /\ setup' = setup
      BY <2>4 DEF AddNode
    <3>2. TypeOf(k) \in Types
      BY <3>1 DEF CoresInv, Made
    <3>3. stage' = "ended" \/ (Serve(k) /\ ResultAt(k) = Built(k))
      BY <2>4, <3>2, AddNodeCases DEF GiveUp, End
    <3>4. CASE Serve(k) /\ ResultAt(k) = Built(k)
      <4>1. holds' = [holds EXCEPT ![k] = Built(k)] /\ entry' = IF Multi THEN k ELSE Nil
        BY <3>4 DEF Serve
      <4>2. \A j \in DOMAIN setup : holds[j] = NoInbound
        BY <3>1 DEF HoldInv, RoutedToHolder
      <4>3. Built(k) # NoInbound /\ DOMAIN holds = DOMAIN setup
        BY BuiltKind DEF TypeOK
      <4>4. {j \in DOMAIN setup : holds'[j] # NoInbound} = {k}
        BY <4>1, <4>2, <4>3
      <4>5. Multi => k \in Live
        BY <3>1, CandidatesAre DEF TypeOK
      <4>6. ~ Multi => k = 1
        BY <3>1 DEF Candidates
      <4>7. Multi' = Multi /\ Live' = Live
        BY <3>1 DEF Multi, Live, KeyOf
      <4>8. Holder' = k
        BY <4>1, <4>6, <4>7 DEF Holder
      <4>9. stage' = "serving"
        BY <3>4 DEF Serve
      <4> QED BY <3>1, <4>1, <4>4, <4>5, <4>7, <4>8, <4>9 DEF HoldInv, RoutedToHolder
    <3> QED BY <2>0, <3>3, <3>4
  <2>5. CASE MasqFatal
    BY <2>0, <2>5 DEF MasqFatal, End
  <2>6. CASE Reload
    <3>1. /\ stage = "serving" /\ stage' = "gone" /\ setup' = setup
          /\ holds' = [holds EXCEPT ![Holder] = NoInbound] /\ entry' = Nil /\ portTaken' = FALSE
      BY <2>6 DEF Reload, DelNode
    <3>2. DOMAIN holds = DOMAIN setup
      BY DEF TypeOK
    <3>3. \A k \in DOMAIN setup : holds'[k] = NoInbound
      BY <3>1, <3>2 DEF HoldInv, RoutedToHolder
    <3> QED BY <3>1, <3>3 DEF HoldInv, RoutedToHolder
  <2>7. CASE Close
    BY <2>0, <2>7 DEF Close, End
  <2>8. CASE Over
    BY <2>0, <2>8 DEF Over, vars, HoldInv, RoutedToHolder
  <2> QED BY <2>1, <2>2, <2>3, <2>4, <2>5, <2>6, <2>7, <2>8 DEF Next
<1> QED BY <1>1, <1>2, TypeCorrect, PTL DEF Spec

(* Users and traffic of a node go by its tag to the core that has it, and to*)
(* no other (core/selector.go:104-141).                                     *)
THEOREM RoutedToHolderHolds == Spec => []RoutedToHolder
<1>1. HoldInv => RoutedToHolder
  BY DEF HoldInv
<1> QED BY <1>1, HoldInvHolds, PTL

-----------------------------------------------------------------------------
(* No two cores of the selector's map have a key in common.                 *)
LEMMA LiveKeys ==
    ASSUME setup \in Seq(CoreConfigs), NEW k \in Live, NEW l \in Live, KeyOf(k) = KeyOf(l)
    PROVE  k = l
<1>1. k \in DOMAIN setup /\ l \in DOMAIN setup /\ k \in Nat /\ l \in Nat
  BY DEF Live
<1>2. ~ (k > l) /\ ~ (l > k)
  BY <1>1 DEF Live
<1> QED BY <1>1, <1>2

(* What the options of a node are decoded for is what the file or the       *)
(* selector says (conf/node.go, core/selector.go:77-95).                    *)
THEOREM OptionInvHolds == Spec => []OptionInv
<1> USE DEF given, node, core
<1>1. Init => OptionInv
  <2> SUFFICES ASSUME Init PROVE OptionInv
    OBVIOUS
  <2>1. PICK s \in Scenarios : option = Decode(s.options)
    BY DEF Init
  <2>2. s.options \in NodeOptions /\ s.options.core = "" /\ s.options.made = {}
    BY SelectorAssumption
  <2> DEFINE o == s.options
  <2>3. /\ option \in NodeOptions
        /\ option.core = CASE o.written = "absent" -> "" [] o.written = "odd" -> ""
                           [] OTHER -> o.written
        /\ option.made = {option.core} \cap {"xray", "sing"}
        /\ option.written = o.written
    BY <2>1, <2>2, DecodeIs
  <2> QED BY <2>3 DEF OptionInv, Types
<1>2. TypeOK /\ CoresInv /\ OptionInv /\ [Next]_vars => OptionInv'
  <2> SUFFICES ASSUME TypeOK, CoresInv, OptionInv, [Next]_vars PROVE OptionInv'
    OBVIOUS
  <2>0. ASSUME UNCHANGED <<setup, option>>, info'.type = info.type,
               stage' \in {"new", "cored"} => stage \in {"new", "cored"}
        PROVE  OptionInv'
    BY <2>0 DEF OptionInv, Multi, Live, KeyOf, TypeOf
  <2>1. CASE UNCHANGED vars
    BY <2>0, <2>1 DEF vars
  <2>2. CASE NewCore
    BY <2>0, <2>2 DEF NewCore
  <2>3. CASE AddNodeFails
    BY <2>0, <2>3 DEF AddNodeFails, GiveUp, End
  <2>4. ASSUME NEW k \in DOMAIN setup, AddNode(k) PROVE OptionInv'
    <3>1. stage \in {"cored", "gone"} /\ k \in Candidates
      BY <2>4 DEF AddNode
    <3>2. TypeOf(k) \in Types
      BY <3>1 DEF CoresInv, Made
    <3>3. /\ option' = OptionsFor(k) /\ setup' = setup /\ info' = info
          /\ stage' \in {"serving", "ended"}
      BY <2>4, <3>2, AddNodeCases DEF Serve, GiveUp, End
    <3>4. CASE ~ Decodes
      <4>1. option' = option
        BY <3>2, <3>3, <3>4, OptionsForIs DEF TypeOK
      <4> QED BY <2>0, <3>3, <4>1
    <3>5. CASE Decodes
      <4>1. Multi /\ option.core = ""
        BY <3>5 DEF Decodes
      <4>2. /\ option'.written = option.written /\ option'.coreName = option.coreName
            /\ option'.core = CASE option.written = "absent" -> TypeOf(k)
                                [] option.written = "odd" -> ""
                                [] OTHER -> option.written
            /\ option'.made = option.made \cup ({option'.core} \cap {"xray", "sing"})
        BY <3>2, <3>3, <3>5, OptionsForIs DEF TypeOK
      <4>3. option.written \in Types \cup {"absent", "odd"}
        BY DEF TypeOK, NodeOptions
      <4>4. Multi' = Multi /\ Live' = Live /\ \A j : KeyOf(j)' = KeyOf(j) /\ TypeOf(j)' = TypeOf(j)
        BY <3>3 DEF Multi, Live, KeyOf, TypeOf
      <4>5. option.written = "absent" => option'.core = TypeOf(k)
        BY <4>2
      <4>6. option.coreName = "" => info.type \in Protocols(TypeOf(k))
        BY <3>1, <4>1 DEF Candidates
      <4>7. option.coreName # "" => \A j \in Live : KeyOf(j) = option.coreName => j = k
        <5> SUFFICES ASSUME option.coreName # "", NEW j \in Live, KeyOf(j) = option.coreName
                     PROVE  j = k
          OBVIOUS
        <5>1. k \in Live /\ KeyOf(k) = option.coreName
          BY <3>1, <4>1 DEF Candidates
        <5> QED BY <5>1, LiveKeys DEF TypeOK
      <4>8. /\ option'.written \in Types => option'.core = option'.written
            /\ option'.core \in {"xray", "sing"} => option'.core \in option'.made
        BY <4>2, <4>3 DEF Types
      <4>9. option'.written = "absent" =>
                IF option'.coreName = "" THEN info.type \in Protocols(option'.core)
                ELSE \A j \in Live : KeyOf(j) = option'.coreName => TypeOf(j) = option'.core
        BY <4>2, <4>5, <4>6, <4>7
      <4> QED BY <3>3, <4>1, <4>4, <4>8, <4>9 DEF OptionInv
    <3> QED BY <3>4, <3>5
  <2>5. CASE MasqFatal
    BY <2>0, <2>5 DEF MasqFatal, End
  <2>6. CASE Reload
    <3>1. info'.type = info.type
      <4>1. info \in Infos /\ info' \in Edits(info)
        BY <2>6 DEF Reload, TypeOK
      <4> QED BY <4>1, EditsAre
    <3> QED BY <2>0, <2>6, <3>1 DEF Reload
  <2>7. CASE Close
    BY <2>0, <2>7 DEF Close, End
  <2>8. CASE Over
    BY <2>0, <2>8 DEF Over, vars
  <2> QED BY <2>1, <2>2, <2>3, <2>4, <2>5, <2>6, <2>7, <2>8 DEF Next
<1> QED BY <1>1, <1>2, TypeCorrect, PTL DEF Spec

(* The type of core that served a node first is the only one it can go to   *)
(* when it is added anew (core/selector.go:66-101).                         *)
THEOREM StayInvHolds == Spec => []StayInv
<1> USE DEF given, node, core
<1>1. Init => StayInv
  BY DEF Init, StayInv, StaysWithItsType
<1>2. TypeOK /\ CoresInv /\ OptionInv /\ HoldInv /\ StayInv /\ [Next]_vars => StayInv'
  <2> SUFFICES ASSUME TypeOK, CoresInv, OptionInv, HoldInv, StayInv, [Next]_vars PROVE StayInv'
    OBVIOUS
  <2>0. ASSUME stage' = "ended" PROVE StayInv'
    BY <2>0 DEF StayInv, StaysWithItsType
  <2>1. ASSUME UNCHANGED <<setup, option, first, entry>>, stage' = stage PROVE StayInv'
    BY <2>1 DEF StayInv, StaysWithItsType, Holder, Multi, TypeOf, Live, KeyOf, Known, Spent
  <2>2. CASE UNCHANGED vars
    BY <2>1, <2>2 DEF vars
  <2>3. CASE NewCore
    <3>1. stage = "new" /\ stage' \in {"cored", "ended"} /\ first' = first
      BY <2>3, NewCoreCases DEF End, TypeOK
    <3> QED BY <3>1 DEF StayInv, StaysWithItsType
  <2>4. CASE AddNodeFails
    BY <2>0, <2>4 DEF AddNodeFails, GiveUp, End
  <2>5. ASSUME NEW k \in DOMAIN setup, AddNode(k) PROVE StayInv'
    <3>1. /\ stage \in {"cored", "gone"} /\ k \in Candidates /\ setup' = setup
          /\ option' = OptionsFor(k) /\ ~ (Decodes /\ ~ option.raw)
      BY <2>5 DEF AddNode
    <3>2. TypeOf(k) \in Types
      BY <3>1 DEF CoresInv, Made
    <3>3. stage' = "ended" \/ Serve(k)
      BY <2>5, <3>2, AddNodeCases DEF GiveUp, End
    <3> SUFFICES ASSUME Serve(k) PROVE StayInv'
      BY <2>0, <3>3
    <3>4. /\ stage' = "serving" /\ entry' = IF Multi THEN k ELSE Nil
          /\ first' = IF first = Nil THEN TypeOf(k) ELSE first
      BY DEF Serve
    <3>5. /\ Multi' = Multi /\ Live' = Live
          /\ \A j : KeyOf(j)' = KeyOf(j) /\ TypeOf(j)' = TypeOf(j)
      BY <3>1 DEF Multi, Live, KeyOf, TypeOf
    <3>6. ~ Multi => k = 1
      BY <3>1 DEF Candidates
    <3>7. Holder' = k
      BY <3>4, <3>5, <3>6 DEF Holder
    <3>8. /\ option'.coreName = option.coreName /\ option'.written = option.written
          /\ ~ Decodes => option' = option
          /\ Decodes =>
                /\ option'.core = CASE option.written = "absent" -> TypeOf(k)
                                    [] option.written = "odd" -> ""
                                    [] OTHER -> option.written
                /\ option'.raw = FALSE
      BY <3>1, <3>2, OptionsForIs DEF TypeOK
    <3>9. option.written \in Types \cup {"absent", "odd"}
      BY DEF TypeOK, NodeOptions
    <3>10. Multi /\ option'.core = "" => option'.written = "odd" /\ Spent'
      <4> SUFFICES ASSUME Multi, option'.core = "" PROVE option'.written = "odd" /\ Spent'
        OBVIOUS
      <4>1. Decodes
        BY <3>8 DEF Decodes
      <4>2. option'.raw = FALSE /\ option'.written = option.written
        BY <3>8, <4>1
      <4>3. option.written = "odd"
        BY <3>2, <3>8, <3>9, <4>1 DEF Types
      <4> QED BY <4>2, <4>3 DEF Spent
    (* The core taken now is one it may go to, of the type it had.          *)
    <3>11. Multi /\ (option'.coreName # "" \/ ~ Spent') =>
             k \in Live /\ Known(k)' /\ \A j \in Live : Known(j)' => TypeOf(j) = TypeOf(k)
      <4> SUFFICES ASSUME Multi, option'.coreName # "" \/ ~ Spent'
                   PROVE  /\ k \in Live /\ Known(k)'
                          /\ \A j \in Live : Known(j)' => TypeOf(j) = TypeOf(k)
        OBVIOUS
      <4>1. k \in Live
        BY <3>1, CandidatesAre DEF TypeOK
      <4>2. CASE option.coreName # ""
        <5>1. KeyOf(k) = option.coreName
          BY <3>1, <4>2 DEF Candidates
        <5>2. \A j \in Live : Known(j)' <=> KeyOf(j) = option.coreName
          BY <3>5, <3>8, <4>2 DEF Known
        <5>3. \A j \in Live : KeyOf(j) = KeyOf(k) => j = k
          BY <4>1, LiveKeys DEF TypeOK
        <5> QED BY <4>1, <5>1, <5>2, <5>3
      <4>3. CASE option.coreName = ""
        <5>1. \A j \in Live : Known(j)' <=> TypeOf(j) = option'.core
          BY <3>5, <3>8, <4>3 DEF Known
        <5>2. TypeOf(k) = option'.core
          <6>1. CASE Decodes
            <7>1. option.core = ""
              BY <6>1 DEF Decodes
            <7>2. option.written \notin Types
              BY <7>1 DEF OptionInv, Types
            <7>3. option.written # "odd"
              BY <3>8, <4>3, <6>1 DEF Spent
            <7> QED BY <3>8, <3>9, <6>1, <7>2, <7>3
          <6>2. CASE ~ Decodes
            <7>1. option.core # "" /\ option' = option
              BY <3>8, <6>2 DEF Decodes
            <7>2. TypeOf(k) = option.core
              BY <3>1, <4>3, <7>1 DEF Candidates
            <7> QED BY <7>1, <7>2
          <6> QED BY <6>1, <6>2
        <5> QED BY <4>1, <5>1, <5>2
      <4> QED BY <4>2, <4>3
    <3>12. first' = TypeOf(k)
      <4>1. CASE stage = "cored"
        BY <3>4, <4>1 DEF StayInv
      <4>2. CASE stage = "gone"
        <5>1. first \in Types /\ first # Nil
          BY <4>2, SelectorAssumption DEF StayInv
        <5>2. CASE ~ Multi
          BY <3>4, <3>6, <4>2, <5>1, <5>2 DEF StayInv
        <5>3. CASE Multi
          <6>1. option.coreName # "" \/ ~ Spent
            BY <3>1, <5>3 DEF Decodes, Spent
          <6>2. \A j \in Live : Known(j) => TypeOf(j) = first
            BY <4>2, <5>3, <6>1 DEF StayInv
          <6>3. k \in Live
            BY <3>1, <5>3, CandidatesAre DEF TypeOK
          <6>4. option.coreName = "" => option.core # ""
            BY <4>2, <5>3, <6>1 DEF StayInv
          <6>5. Known(k)
            BY <3>1, <5>3, <6>3, <6>4 DEF Known, Candidates
          <6> QED BY <3>4, <5>1, <6>2, <6>3, <6>5
        <5> QED BY <5>2, <5>3
      <4> QED BY <3>1, <4>1, <4>2
    <3> QED BY <3>2, <3>4, <3>5, <3>6, <3>7, <3>10, <3>11, <3>12 DEF StayInv, StaysWithItsType
  <2>6. CASE MasqFatal
    BY <2>0, <2>6 DEF MasqFatal, End
  <2>7. CASE Reload
    <3>1. stage = "serving" /\ stage' = "gone" /\ UNCHANGED <<setup, option, first>>
      BY <2>7 DEF Reload
    <3> QED BY <3>1 DEF StayInv, StaysWithItsType, Multi, TypeOf, Live, KeyOf, Known, Spent
  <2>8. CASE Close
    BY <2>0, <2>8 DEF Close, End
  <2>9. CASE Over
    BY <2>1, <2>9 DEF Over, vars
  <2> QED BY <2>2, <2>3, <2>4, <2>5, <2>6, <2>7, <2>8, <2>9 DEF Next
<1> QED BY <1>1, <1>2, TypeCorrect, OptionInvHolds, HoldInvHolds, PTL DEF Spec

(* The random choice of a core is made once, not anew at every reload       *)
(* (core/selector.go:77-95: it sets the Core of the node's options).        *)
THEOREM StaysWithItsTypeHolds == Spec => []StaysWithItsType
<1>1. StayInv => StaysWithItsType
  BY DEF StayInv
<1> QED BY <1>1, StayInvHolds, PTL

-----------------------------------------------------------------------------
(* Of a well written configuration, xray and sing find the options that the *)
(* file or the selector decoded for them, and hysteria2 a node of its type. *)
LEMMA OptionsFit ==
    ASSUME TypeOK, OptionInv, WellWritten, NEW k \in Candidates, TypeOf(k) \in Types
    PROVE  /\ TypeOf(k) \in {"xray", "sing"} => TypeOf(k) \in OptionsFor(k).made
           /\ TypeOf(k) = "hysteria2" => info.type = "hysteria2"
<1>1. option.written \in Types \cup {"absent"}
  BY DEF WellWritten
<1>2. Protocols("hysteria2") = {"hysteria2"}
  BY DEF Protocols
<1>3. CASE ~ Multi
  <2>1. k = 1 /\ option.written = setup[1].type /\ setup[1].type \in Types
    <3>1. k \in DOMAIN setup
      BY CandidatesAre DEF TypeOK
    <3>2. k = 1
      BY <1>3 DEF Candidates
    <3> QED BY <1>3, <3>1, <3>2 DEF WellWritten
  <2>2. TypeOf(k) = option.written /\ option.core = option.written
    BY <2>1 DEF TypeOf, Lower, Types, OptionInv
  <2>3. OptionsFor(k) = option
    BY <1>3 DEF OptionsFor, Decodes
  <2> QED BY <2>1, <2>2, <2>3 DEF OptionInv, WellWritten
<1>4. CASE Multi /\ Decodes
  <2>1. option.core = "" /\ option.written = "absent"
    BY <1>1, <1>4 DEF Decodes, OptionInv, Types
  <2>2. TypeOf(k) \in {"xray", "sing"} => TypeOf(k) \in OptionsFor(k).made
    BY <1>4, <2>1, OptionsForIs DEF TypeOK
  <2>3. info.type \in Protocols(TypeOf(k))
    <3>1. option.coreName = "" => info.type \in Protocols(TypeOf(k))
      BY <1>4, <2>1 DEF Candidates
    <3>2. option.coreName # "" => k \in Live /\ KeyOf(k) = option.coreName
      BY <1>4 DEF Candidates
    <3> QED BY <3>1, <3>2 DEF WellWritten
  <2> QED BY <1>2, <2>2, <2>3
<1>5. CASE Multi /\ ~ Decodes
  <2>1. option.core # "" /\ OptionsFor(k) = option
    BY <1>5 DEF Decodes, OptionsFor
  <2>2. option.coreName = "" => TypeOf(k) = option.core
    BY <1>5, <2>1 DEF Candidates
  <2>3. option.coreName # "" => k \in Live /\ KeyOf(k) = option.coreName
    BY <1>5 DEF Candidates
  <2>4. TypeOf(k) = option.core
    <3>1. CASE option.coreName = ""
      BY <2>2, <3>1
    <3>2. CASE option.coreName # "" /\ option.written = "absent"
      BY <1>5, <2>1, <2>3, <3>2 DEF OptionInv
    <3>3. CASE option.coreName # "" /\ option.written \in Types
      <4>1. option.written # "absent"
        BY <3>3 DEF Types
      <4>2. TypeOf(k) = option.written
        BY <2>3, <3>3, <4>1 DEF WellWritten
      <4> QED BY <3>3, <4>2 DEF OptionInv
    <3> QED BY <1>1, <3>1, <3>2, <3>3
  <2>5. TypeOf(k) = "hysteria2" => info.type = "hysteria2"
    <3> SUFFICES ASSUME TypeOf(k) = "hysteria2" PROVE info.type = "hysteria2"
      OBVIOUS
    <3>1. CASE option.written \in Types
      BY <2>4, <3>1 DEF OptionInv, WellWritten
    <3>2. CASE option.written = "absent" /\ option.coreName = ""
      BY <1>2, <1>5, <2>1, <2>4, <3>2 DEF OptionInv
    <3>3. CASE option.coreName # ""
      BY <1>2, <2>3, <3>3 DEF WellWritten
    <3> QED BY <1>1, <3>1, <3>2, <3>3
  <2> QED BY <2>1, <2>4, <2>5 DEF OptionInv
<1> QED BY <1>3, <1>4, <1>5

(* So no core crashes over it and a well described node.                    *)
LEMMA NoCrash ==
    ASSUME TypeOK, OptionInv, WellWritten, WellDescribed, NEW k \in Candidates, TypeOf(k) \in Types
    PROVE  ~ Crashes(k)
<1>1. info.settings \notin {"absent", "httpNoPath"}
  BY DEF WellDescribed
<1>2. CASE TypeOf(k) = "xray"
  BY <1>1, <1>2, OptionsFit DEF Crashes, XrayCrashes
<1>3. CASE TypeOf(k) = "sing"
  BY <1>1, <1>3, OptionsFit DEF Crashes, SingCrashes
<1>4. CASE TypeOf(k) = "hysteria2"
  BY <1>4, OptionsFit DEF Crashes, HyCrashes, WellWritten
<1> QED BY <1>2, <1>3, <1>4 DEF Types

(* And where a node was before, there is a core for it again, which gets the*)
(* options it had.                                                          *)
LEMMA BackAgain ==
    ASSUME TypeOK, WellWritten, StayInv, stage = "gone"
    PROVE  Candidates # {} /\ ~ Decodes
<1>1. option.written # "odd"
  BY DEF WellWritten, Types
<1>2. CASE ~ Multi
  BY <1>2 DEF Candidates, Decodes
<1>3. CASE Multi
  <2>1. option.core # "" /\ ~ Decodes
    BY <1>1, <1>3 DEF StayInv, Decodes
  <2>2. PICK k \in Live : Known(k)
    BY <1>3, <2>1 DEF StayInv, Spent
  <2>3. k \in Candidates
    BY <1>3, <2>1, <2>2 DEF Candidates, Known
  <2> QED BY <2>1, <2>3
<1> QED BY <1>2, <1>3

(* What a step that leaves the configuration alone leaves alone with it.    *)
LEMMA WellStays ==
    ASSUME UNCHANGED <<setup, file, info>>,
           option'.written = option.written, option'.coreName = option.coreName
    PROVE  (WellWritten' <=> WellWritten) /\ (WellDescribed' <=> WellDescribed)
  BY DEF WellWritten, WellDescribed, Multi, Live, KeyOf, TypeOf

(* Nor does such a step change which cores there are for the node and what  *)
(* they make of it.                                                         *)
LEMMA ResultStays ==
    ASSUME UNCHANGED <<setup, file, info, option, dnsPath>>
    PROVE  Candidates' = Candidates /\ \A k : ResultWith(k, FALSE)' = ResultWith(k, FALSE)
  BY DEF Candidates, ResultWith, OptionsFor, Decodes, Multi, Live, KeyOf, TypeOf

(* A well written configuration and a well described node never crash the   *)
(* process but for a masquerade server, and a reload never ends in a panic  *)
(* over what the node was before (node/task.go:107-140).                    *)
THEOREM OnlyBadInputEndsHolds == Spec => []OnlyBadInputEnds
<1> USE DEF given, node, core
<1>1. Init => OnlyBadInputEnds
  BY DEF Init, OnlyBadInputEnds
<1>2. TypeOK /\ CoresInv /\ OptionInv /\ HoldInv /\ StayInv /\ OnlyBadInputEnds /\ [Next]_vars
         => OnlyBadInputEnds'
  <2> SUFFICES ASSUME TypeOK, CoresInv, OptionInv, HoldInv, StayInv, OnlyBadInputEnds, [Next]_vars
               PROVE  OnlyBadInputEnds'
    OBVIOUS
  <2>0. ASSUME fate' \notin {"crash", "panic"} PROVE OnlyBadInputEnds'
    BY <2>0 DEF OnlyBadInputEnds
  <2>1. CASE UNCHANGED vars
    <3>1. UNCHANGED <<setup, file, info, option, dnsPath, fate, conflict>>
      BY <2>1 DEF vars
    <3> QED BY <3>1, WellStays, ResultStays DEF OnlyBadInputEnds
  <2>2. CASE NewCore
    <3>1. /\ stage = "new" /\ UNCHANGED <<setup, file, option, info>>
          /\ \/ fate' = fate
             \/ /\ fate' \in {"refused", "crash"}
                /\ \E k \in DOMAIN setup : CoreCheck(k).bad
      BY <2>2, NewCoreCases DEF End, TypeOK
    <3>2. fate = "running"
      BY <3>1 DEF TypeOK
    <3>3. ASSUME NEW k \in DOMAIN setup, CoreCheck(k).bad PROVE ~ WellWritten
      BY <3>3, CoreCheckIs DEF TypeOK, WellWritten
    <3>4. WellWritten' <=> WellWritten
      BY <3>1, WellStays
    <3> QED BY <3>1, <3>2, <3>3, <3>4 DEF OnlyBadInputEnds
  <2>3. CASE AddNodeFails
    <3>1. /\ stage \in {"cored", "gone"} /\ (Candidates = {} \/ Decodes)
          /\ fate' = (IF stage = "cored" THEN "refused" ELSE "panic")
          /\ UNCHANGED <<setup, file, option, info>>
      BY <2>3 DEF AddNodeFails, GiveUp, End
    <3>2. stage = "gone" => ~ WellWritten
      BY <3>1, BackAgain
    <3>3. WellWritten' <=> WellWritten
      BY <3>1, WellStays
    <3> QED BY <3>1, <3>2, <3>3 DEF OnlyBadInputEnds
  <2>4. ASSUME NEW k \in DOMAIN setup, AddNode(k) PROVE OnlyBadInputEnds'
    <3>1. /\ stage \in {"cored", "gone"} /\ k \in Candidates
          /\ UNCHANGED <<setup, file, info, dnsPath>> /\ option' = OptionsFor(k)
      BY <2>4 DEF AddNode
    <3>2. TypeOf(k) \in Types /\ fate = "running"
      BY <3>1 DEF CoresInv, Made, TypeOK
    <3>3. option'.written = option.written /\ option'.coreName = option.coreName
      BY <3>1, <3>2, OptionsForIs DEF TypeOK
    <3>4. (WellWritten' <=> WellWritten) /\ (WellDescribed' <=> WellDescribed)
      BY <3>1, <3>3, WellStays
    <3>5. CASE Serve(k)
      BY <2>0, <3>2, <3>5 DEF Serve
    <3>6. CASE Crashes(k) /\ End("crash")
      <4>1. ~ WellWritten \/ ~ WellDescribed
        BY <3>1, <3>2, <3>6, NoCrash
      <4>2. fate' = "crash"
        BY <3>6 DEF End
      <4> QED BY <3>4, <4>1, <4>2 DEF OnlyBadInputEnds
    <3>7. CASE ResultAt(k) = Failed /\ GiveUp
      <4>1. CASE stage = "cored"
        BY <2>0, <3>7, <4>1 DEF GiveUp, End
      <4>2. CASE stage = "gone" /\ ~ WellWritten
        BY <3>4, <3>7, <4>2 DEF GiveUp, End, OnlyBadInputEnds
      <4>3. CASE stage = "gone" /\ WellWritten
        <5>1. option' = option
          BY <3>1, <4>3, BackAgain DEF OptionsFor
        <5>2. portTaken = FALSE
          BY <4>3 DEF HoldInv
        <5>3. ResultWith(k, FALSE).kind = "error"
          <6>1. ResultAt(k) = ResultWith(k, FALSE)
            BY <5>2, Zenon DEF ResultAt
          <6>2. Failed.kind = "error"
            BY DEF Failed
          <6> QED BY <3>7, <6>1, <6>2, Zenon
        <5>4. k \in Candidates' /\ ResultWith(k, FALSE)'.kind = "error"
          BY <3>1, <5>1, <5>3, ResultStays
        <5>5. fate' = "panic"
          BY <3>7, <4>3 DEF GiveUp, End
        <5> QED BY <5>4, <5>5 DEF OnlyBadInputEnds
      <4> QED BY <3>1, <4>1, <4>2, <4>3
    <3> QED BY <2>4, <3>2, <3>5, <3>6, <3>7, AddNodeCases
  <2>5. CASE MasqFatal
    <3>1. fate' = "crash" /\ conflict' = conflict /\ conflict
      BY <2>5 DEF MasqFatal, End
    <3> QED BY <3>1 DEF OnlyBadInputEnds
  <2>6. CASE Reload
    BY <2>0, <2>6 DEF Reload, TypeOK
  <2>7. CASE Close
    BY <2>0, <2>7 DEF Close, End
  <2>8. CASE Over
    BY <2>1, <2>8 DEF Over
  <2> QED BY <2>1, <2>2, <2>3, <2>4, <2>5, <2>6, <2>7, <2>8 DEF Next
<1> QED BY <1>1, <1>2, TypeCorrect, OptionInvHolds, HoldInvHolds, StayInvHolds, PTL DEF Spec

-----------------------------------------------------------------------------
(* Of what both of them understand xray and sing make the same inbound,      *)
(* or refuse it alike (core/xray/inbound.go, core/sing/node.go).             *)
Agree(a, b) == \A f \in DOMAIN a \cap DOMAIN b : a[f] = b[f]

V2rayShared(i) ==
    /\ i.type \in V2ray => /\ i.settings \in {"fine", "broken"} /\ i.encryption = ""
                           /\ i.tls = "reality" => i.network \in {"tcp", "grpc"}
                           /\ i.network \in {"tcp", "ws", "grpc", "httpupgrade"}
    /\ i.type = "trojan" => \/ i.network \in {"ws", "grpc"} /\ i.settings \in {"fine", "broken"}
                            \/ i.network = "tcp" /\ i.settings = "fine"

(* They refuse the same nodes.                                              *)
LEMMA XraySingRefuseAlike ==
    ASSUME NEW i, NEW o, NEW p, i.type \in V2ray \cup {"trojan", "shadowsocks"}, V2rayShared(i),
           o.fallback \in {"off", "fine"}, p.cert = o.cert, p.listen = o.listen
    PROVE  XrayRefuses(i, o) <=> SingRefuses(i, p)
<1>1. ~ FallbackFails(i, o)
  BY DEF FallbackFails
<1>2. ~ (i.type = "vless" /\ o.fallback = "off" /\ i.encryption = "other")
  BY DEF V2rayShared, V2ray
<1>3. ~ (i.type \in V2ray /\ SingTransport(i) \in {"xhttp", "other"})
  BY DEF V2rayShared, V2ray, SingTransport, QuicTypes, HttpHeader
<1>4. ~ (i.type \in QuicTypes \cup {"anytls"}) /\ i.type # "hysteria2"
  BY DEF V2ray, QuicTypes
<1>5. V2rayFails(i) \/ TrojanFails(i) <=> SingDecodes(i) /\ i.settings = "broken"
  BY DEF V2rayFails, TrojanFails, SingDecodes, V2rayShared, V2ray
<1>6. ~ BuildFails(i) /\ ~ SingObfsFails(i)
  BY <1>4 DEF BuildFails, SingObfsFails, SecurityOf, V2rayShared
<1> QED BY <1>1, <1>2, <1>3, <1>4, <1>5, <1>6 DEF XrayRefuses, SingRefuses

(* What they build differs only in what one of them does not have.          *)
LEMMA XraySingBuildAlike ==
    ASSUME NEW i, NEW o, NEW p, i.type \in V2ray \cup {"trojan", "shadowsocks"}, V2rayShared(i),
           p.cert = o.cert
    PROVE  /\ Agree(XrayBuilt(i, o), SingBuilt(i, p))
           /\ Agree(SingBuilt(i, p), XrayBuilt(i, o))
<1>1. XrayTransport(i) = SingTransport(i)
  BY DEF V2rayShared, V2ray, XrayTransport, SingTransport, QuicTypes, HttpHeader
<1>2. Secured(i, o) = SingSecured(i, p)
  BY DEF Secured, SingSecured
<1>3. XrayEncrypts(i, o) = FALSE
  BY DEF XrayEncrypts, V2rayShared, V2ray
<1> DEFINE a == XrayBuilt(i, o)
           b == SingBuilt(i, p)
<1>4. DOMAIN a = {"kind", "type", "transport", "security", "encrypted"}
  BY DEF XrayBuilt
<1>5. a.kind = b.kind /\ a.type = b.type /\ a.transport = b.transport
  BY <1>1 DEF XrayBuilt, SingBuilt
<1>6. a.security = b.security
  BY <1>2 DEF XrayBuilt, SingBuilt
<1>7. a.encrypted = FALSE /\ b.encrypted = FALSE
  BY <1>3 DEF XrayBuilt, SingBuilt
<1> HIDE DEF a, b
<1>8. \A f \in DOMAIN a : a[f] = b[f]
  BY <1>4, <1>5, <1>6, <1>7
<1>9. Agree(a, b) /\ Agree(b, a)
  BY <1>8 DEF Agree
<1> QED BY <1>9 DEF a, b

(* An obfuscation that sing and hysteria2 know alike.                       *)
ObfsShared(i) == i.obfs = "" \/ (i.obfs \in {"salamander", "other"} /\ i.password)

(* And so do sing and hysteria2, of a file that hysteria2 takes.            *)
LEMMA SingHyRefuseAlike ==
    ASSUME NEW i \in Infos, NEW o \in NodeOptions, NEW p \in NodeOptions, NEW c,
           i.type = "hysteria2", ObfsShared(i),
           ~ QuicFails(c), ~ SniffFails(c), ~ EgressFails(c), ~ MasqFails(c), ~ ServerFails(c),
           p.cert = o.cert, p.listen = o.listen
    PROVE  SingRefuses(i, o) <=> HyRefuses(i, p, c, FALSE)
<1>1. SecurityOf(i) = "tls" /\ i.type \in QuicTypes /\ ~ SingDecodes(i) /\ i.type \notin V2ray
  BY DEF SecurityOf, QuicTypes, SingDecodes, V2ray
<1>2. ObfsFails(i) <=> SingObfsFails(i)
  BY DEF ObfsFails, SingObfsFails, ObfsShared
<1>3. o.cert \in {"nil", "none", "pair", "noPair"}
  BY DEF NodeOptions
<1>4. Secured(i, o) = "none" <=> o.cert = "none"
  BY <1>1 DEF Secured
<1>5. TlsFails(p) <=> o.cert # "pair"
  BY DEF TlsFails
<1> QED BY <1>1, <1>2, <1>3, <1>4, <1>5 DEF SingRefuses, HyRefuses

(* What these build differs as little.                                      *)
LEMMA SingHyBuildAlike ==
    ASSUME NEW i, NEW o, i.type = "hysteria2", ObfsShared(i), ~ SingRefuses(i, o)
    PROVE  /\ Agree(SingBuilt(i, o), HyBuilt(i))
           /\ Agree(HyBuilt(i), SingBuilt(i, o))
<1>1. SecurityOf(i) = "tls" /\ i.type \in QuicTypes
  BY DEF SecurityOf, QuicTypes, V2ray
<1>2. SingSecured(i, o) = "tls"
  BY <1>1 DEF SingRefuses, SingSecured, Secured
<1>3. SingTransport(i) = "quic"
  BY <1>1 DEF SingTransport
<1>4. SingObfs(i) = HyObfs(i)
  <2>1. i.obfs # "other"
    BY DEF ObfsShared, SingRefuses, SingObfsFails
  <2> QED BY <2>1 DEF SingObfs, HyObfs, ObfsShared
<1> DEFINE a == SingBuilt(i, o)
           b == HyBuilt(i)
<1>5. DOMAIN a = {"kind", "type", "transport", "security", "encrypted", "obfs", "up"}
  BY DEF SingBuilt
<1>6. a.kind = b.kind /\ a.type = b.type /\ a.transport = b.transport /\ a.up = b.up
  BY <1>3 DEF SingBuilt, HyBuilt
<1>7. a.security = b.security /\ a.obfs = b.obfs
  BY <1>2, <1>4 DEF SingBuilt, HyBuilt
<1>8. a.encrypted = FALSE /\ b.encrypted = FALSE
  BY DEF SingBuilt, HyBuilt
<1> HIDE DEF a, b
<1>9. \A f \in DOMAIN a : a[f] = b[f]
  BY <1>5, <1>6, <1>7, <1>8
<1>10. Agree(a, b) /\ Agree(b, a)
  BY <1>9 DEF Agree
<1> QED BY <1>10 DEF a, b

(* A file that fits is one hysteria2 has nothing against.                   *)
LEMMA FileFitsIs ==
    ASSUME FileFits
    PROVE  /\ file.read = "fine"
           /\ ~ QuicFails(file) /\ ~ SniffFails(file) /\ ~ EgressFails(file) /\ ~ MasqFails(file)
           /\ ~ ServerFails(file)
<1> DEFINE i == [info EXCEPT !.obfs = ""]
           o == [option EXCEPT !.cert = "pair", !.listen = "ip"]
           r == HyAddNode(i, o, file, FALSE).result
<1>1. r.kind = "built"
  BY DEF FileFits
<1>2. Failed.kind # "built" /\ Crashed.kind # "built"
  BY DEF Failed, Crashed
<1>3. \/ r = HyBuilt(i) /\ ~ HyRefuses(i, o, file, FALSE) /\ ~ HyCrashes(i, file)
      \/ r = Failed \/ r = Crashed
  <2> HIDE DEF i, o
  <2> QED BY HyAddNodeResult
<1> HIDE DEF i, o, r
<1>4. ~ HyRefuses(i, o, file, FALSE) /\ ~ HyCrashes(i, file)
  BY <1>1, <1>2, <1>3
<1> QED BY <1>4 DEF HyRefuses, HyCrashes

(* A core among which the order of the map chooses at random.               *)
LEMMA ChoiceIs ==
    ASSUME TypeOK, CoresInv, OptionInv, stage = "cored", Shared, option.coreName = "", Multi,
           NEW k \in Candidates
    PROVE  /\ TypeOf(k) \in Types /\ info.type \in Protocols(TypeOf(k))
           /\ OptionsFor(k) \in NodeOptions
           /\ \A f \in {"cert", "listen", "fallback"} : OptionsFor(k)[f] = option[f]
           /\ ~ Crashes(k)
<1>1. TypeOf(k) \in Types
  <2>1. k \in DOMAIN setup
    BY CandidatesAre DEF TypeOK
  <2> QED BY <2>1 DEF CoresInv, Made
<1>2. option.written = "absent" /\ option.core = "" /\ Decodes
  BY DEF Shared, OptionInv, Decodes
<1>3. info.type \in Protocols(TypeOf(k))
  BY <1>2 DEF Candidates
<1>4. /\ OptionsFor(k) \in NodeOptions
      /\ \A f \in {"cert", "listen", "fallback"} : OptionsFor(k)[f] = option[f]
  BY <1>1, <1>2, OptionsForIs DEF TypeOK
<1>5. TypeOf(k) \in {"xray", "sing"} => TypeOf(k) \in OptionsFor(k).made
  BY <1>1, <1>2, OptionsForIs DEF TypeOK
<1>6. V2rayShared(info) /\ (info.type = "hysteria2" => FileFits)
  BY DEF Shared, V2rayShared, V2ray
<1>7. CASE TypeOf(k) = "xray"
  <2>1. ~ XrayCrashes(info, OptionsFor(k))
    BY <1>5, <1>6, <1>7 DEF XrayCrashes, V2rayShared
  <2> QED BY <1>3, <1>4, <1>7, <2>1 DEF Crashes, Types
<1>8. CASE TypeOf(k) = "sing"
  <2>1. ~ SingCrashes(info, OptionsFor(k))
    BY <1>5, <1>6, <1>8 DEF SingCrashes, SingDecodes, V2rayShared
  <2> QED BY <1>3, <1>4, <1>8, <2>1 DEF Crashes, Types
<1>9. CASE TypeOf(k) = "hysteria2"
  <2>1. info.type = "hysteria2"
    BY <1>3, <1>9 DEF Protocols
  <2>2. ~ HyCrashes(info, file)
    BY <1>6, <2>1, FileFitsIs DEF HyCrashes
  <2> QED BY <1>3, <1>4, <1>9, <2>2 DEF Crashes, Types
<1> QED BY <1>1, <1>7, <1>8, <1>9 DEF Types

(* For a node without a Core, the cores the random order may pick agree on  *)
(* what both understand (core/selector.go:78).                              *)
THEOREM SameWhicheverCoreHolds == Spec => []SameWhicheverCore
<1>1. TypeOK /\ CoresInv /\ OptionInv /\ HoldInv => SameWhicheverCore
  <2> SUFFICES ASSUME TypeOK, CoresInv, OptionInv, HoldInv,
                      stage = "cored", Shared, option.coreName = "",
                      NEW k \in Candidates, NEW l \in Candidates
               PROVE  Agree(ResultAt(k), ResultAt(l))
    BY DEF SameWhicheverCore, Agree
  <2>1. CASE k = l
    BY <2>1 DEF Agree
  <2>2. ~ Multi => k = l
    BY DEF Candidates
  <2> SUFFICES ASSUME Multi PROVE Agree(ResultAt(k), ResultAt(l))
    BY <2>1, <2>2
  <2>3. portTaken = FALSE
    BY DEF HoldInv
  <2> DEFINE Good(c) == /\ TypeOf(c) \in Types /\ info.type \in Protocols(TypeOf(c))
                        /\ OptionsFor(c) \in NodeOptions
                        /\ \A f \in {"cert", "listen", "fallback"} : OptionsFor(c)[f] = option[f]
                        /\ \/ ResultAt(c) = Built(c) /\ ~ Refuses(c, FALSE)
                           \/ ResultAt(c) = Failed /\ Refuses(c, FALSE)
  <2>4. \A c \in Candidates : Good(c)
    <3> SUFFICES ASSUME NEW c \in Candidates PROVE Good(c)
      OBVIOUS
    <3>1. ResultAt(c) = ResultWith(c, FALSE)
      BY <2>3, Zenon DEF ResultAt
    <3>2. TypeOf(c) \in Types /\ ~ Crashes(c)
      BY ChoiceIs
    <3>3. \/ ResultWith(c, FALSE) = Built(c) /\ ~ Refuses(c, FALSE)
          \/ ResultWith(c, FALSE) = Failed /\ Refuses(c, FALSE)
      BY <3>2, ResultIs
    <3> QED BY <3>1, <3>3, ChoiceIs
  <2>5. Good(k) /\ Good(l)
    BY <2>4
  <2> HIDE DEF Good
  <2>6. Agree(Failed, Failed)
    BY DEF Agree
  (* Two candidates that refuse alike and build alike agree.                *)
  <2>7. ASSUME NEW a, NEW b, Good(a), Good(b), Refuses(a, FALSE) <=> Refuses(b, FALSE),
               ~ Refuses(a, FALSE) => Agree(Built(a), Built(b)) /\ Agree(Built(b), Built(a))
        PROVE  Agree(ResultAt(a), ResultAt(b)) /\ Agree(ResultAt(b), ResultAt(a))
    BY <2>6, <2>7 DEF Good
  <2>8. ~ DnsFails(info, dnsPath) /\ option.fallback \in {"off", "fine"}
    BY DEF Shared, DnsFails
  <2>9. CASE TypeOf(k) = TypeOf(l)
    <3>1. ResultAt(k) = ResultAt(l)
      BY <2>9 DEF ResultAt, ResultWith, OptionsFor
    <3> QED BY <3>1 DEF Agree
  <2>10. ASSUME NEW a, NEW b, Good(a), Good(b), TypeOf(a) = "xray", TypeOf(b) = "sing"
         PROVE  Agree(ResultAt(a), ResultAt(b)) /\ Agree(ResultAt(b), ResultAt(a))
    <3>1. info.type \in V2ray \cup {"trojan", "shadowsocks"}
      BY <2>10 DEF Good, Protocols, V2ray
    <3>2. V2rayShared(info)
      BY DEF Shared, V2rayShared, V2ray
    <3>3. /\ OptionsFor(a).fallback \in {"off", "fine"}
          /\ OptionsFor(b).cert = OptionsFor(a).cert /\ OptionsFor(b).listen = OptionsFor(a).listen
      BY <2>8, <2>10 DEF Good
    <3>4. XrayRefuses(info, OptionsFor(a)) <=> SingRefuses(info, OptionsFor(b))
      BY <3>1, <3>2, <3>3, XraySingRefuseAlike
    <3>5. Refuses(a, FALSE) <=> Refuses(b, FALSE)
      BY <2>8, <2>10, <3>4 DEF Refuses
    <3>6. Built(a) = XrayBuilt(info, OptionsFor(a)) /\ Built(b) = SingBuilt(info, OptionsFor(b))
      BY <2>10 DEF Built
    <3>7. Agree(Built(a), Built(b)) /\ Agree(Built(b), Built(a))
      BY <3>1, <3>2, <3>3, <3>6, XraySingBuildAlike
    <3> QED BY <2>7, <2>10, <3>5, <3>7
  <2>11. ASSUME NEW a, NEW b, Good(a), Good(b), TypeOf(a) = "sing", TypeOf(b) = "hysteria2"
         PROVE  Agree(ResultAt(a), ResultAt(b)) /\ Agree(ResultAt(b), ResultAt(a))
    <3>1. info.type = "hysteria2"
      BY <2>11 DEF Good, Protocols
    <3>2. ObfsShared(info) /\ FileFits
      BY <3>1 DEF Shared, V2ray, ObfsShared
    <3>3. info \in Infos
      BY DEF TypeOK
    <3>4. /\ OptionsFor(a) \in NodeOptions /\ OptionsFor(b) \in NodeOptions
          /\ OptionsFor(b).cert = OptionsFor(a).cert /\ OptionsFor(b).listen = OptionsFor(a).listen
      BY <2>11 DEF Good
    <3>5. SingRefuses(info, OptionsFor(a)) <=> HyRefuses(info, OptionsFor(b), file, FALSE)
      BY <3>1, <3>2, <3>3, <3>4, FileFitsIs, SingHyRefuseAlike
    <3>6. /\ Refuses(a, FALSE) <=> SingRefuses(info, OptionsFor(a))
          /\ Refuses(b, FALSE) <=> HyRefuses(info, OptionsFor(b), file, FALSE)
      BY <2>11 DEF Refuses
    <3>7. Built(a) = SingBuilt(info, OptionsFor(a)) /\ Built(b) = HyBuilt(info)
      BY <2>11 DEF Built
    <3>8. ~ Refuses(a, FALSE) => Agree(Built(a), Built(b)) /\ Agree(Built(b), Built(a))
      BY <3>1, <3>2, <3>6, <3>7, SingHyBuildAlike
    <3> QED BY <2>7, <2>11, <3>5, <3>6, <3>8
  <2>12. ASSUME NEW a, NEW b, Good(a), Good(b), TypeOf(a) = "xray" PROVE TypeOf(b) # "hysteria2"
    BY <2>12 DEF Good, Protocols
  <2> QED BY <2>5, <2>9, <2>10, <2>11, <2>12 DEF Good, Types
<1> QED BY <1>1, TypeCorrect, OptionInvHolds, HoldInvHolds, PTL
=============================================================================
