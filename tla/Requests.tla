------------------------------ MODULE Requests -------------------------------
(***************************************************************************)
(* Reading a `start`: the JSON a client sent becomes a StartRequest        *)
(* (`start` in src/src/stdio.rs, src/src/codec.rs, src/build.rs), and that *)
(* a request of the engine's (`scan`, `request`, `evasion`, `settings` and *)
(* the first lines of `ports`, `sweep` and `watch` in src/src/start.rs).   *)
(* It is refused at the first thing wrong with it.                         *)
(*                                                                         *)
(* A request is the keys it has, each with a value; nested documents are   *)
(* laid flat, a list is its one element and the keys that are only handed  *)
(* on are one, `redact`.  Room for the scan, resolving what it names and   *)
(* the policy are in Gate.  The widths are small: what fits in one and not *)
(* in the next narrower is all that counts.                                *)
(***************************************************************************)
EXTENDS Integers, Sequences, FiniteSets, Functions, Convert

CONSTANTS MaxU8, MaxU16, MaxU32     \* the greatest number of each width

ASSUME WidthsAssumption ==
    /\ MaxU8 \in Nat /\ MaxU16 \in Nat /\ MaxU32 \in Nat
    /\ 0 < MaxU8 /\ MaxU8 < MaxU16 /\ MaxU16 < MaxU32

\* JSON values.  A text is good if what reads it later can.
Text(t)   == [is |-> "text", text |-> t, number |-> 0]
Number(n) == [is |-> "number", text |-> "", number |-> n]
Switch    == [is |-> "switch", text |-> "", number |-> 0]
Null      == [is |-> "null", text |-> "", number |-> 0]

Refused(code) == [is |-> "refused", text |-> code, number |-> 0]

Lists  == {"targets", "links", "ip_protocols", "decoys", "send_source"}
Texts  == {"targets", "links", "decoys", "send_source", "ports", "spoof_mac"}
Wides  == {"ip_protocols", "source_port", "ttl", "fragment_mtu", "padding", "flags",
           "max_probe_rate", "min_probe_rate", "max_attempts", "host_timeout",
           "listen_for_seconds"}
Keys   == DOMAIN Levels \cup Texts \cup Wides \cup {"timeout_scale", "redact"}

\* A key the schema has not, a misspelt one say.
Unknown == "exclud"

VARIABLES
    wire,       \* the request as it was sent: its keys and their values
    stage,      \* what reads it next, or how it came out
    message,    \* the StartRequest
    asked,      \* the engine's request, as far as it is read
    refusal     \* the code of the refusal

vars == <<wire, stage, message, asked, refusal>>

-----------------------------------------------------------------------------
(* What may be sent.                                                       *)

Wrong(k) == IF k \in Texts \cup DOMAIN Levels THEN Number(1) ELSE Text("good")

Tries(k) ==
    IF k \in DOMAIN Levels THEN {Text(n) : n \in DOMAIN Levels[k].schema \cup {"PARANOID"}}
    ELSE IF k \in Texts THEN {Text("good"), Text("bad")}
    ELSE IF k = "redact" THEN {Switch}
    ELSE {Number(n) : n \in {-1, 0, MaxU8, MaxU8 + 1, MaxU16, MaxU16 + 1,
                             MaxU32, MaxU32 + 1}}

Probes(k) == IF k = Unknown THEN {Text("good")} ELSE {Null, Wrong(k)} \cup Tries(k)

Unread ==
    /\ stage = "sent"
    /\ message = <<>> /\ asked = <<>>
    /\ refusal = "none"

\* A request that says where to scan, where to listen, both or neither, and
\* any two things more.
Init ==
    /\ \E k, l \in Keys \cup {Unknown}, some \in SUBSET {"targets", "links"} :
          \E v \in Probes(k), w \in Probes(l) :
             wire = [key \in {k, l} \cup some |->
                       IF key = k THEN v ELSE IF key = l THEN w ELSE Text("good")]
    /\ Unread

-----------------------------------------------------------------------------
(* Reading it.                                                             *)

Refuse(code) ==
    /\ stage' = "refused"
    /\ refusal' = code
    /\ UNCHANGED <<wire, message, asked>>

\* What serde takes for a key: a level by its name, a number that is a u32, a
\* null for what is optional, and anything at all for a key it does not know.
Readable(k, v) ==
    \/ k \notin Keys
    \/ v = Null /\ k \notin Lists \cup {"kind"}
    \/ k \in DOMAIN Levels /\ v.is = "text" /\ v.text \in DOMAIN Levels[k].schema
    \/ k \in Texts /\ v.is = "text"
    \/ k \in Wides /\ v.is = "number" /\ v.number \in 0..MaxU32
    \/ k = "timeout_scale" /\ v.is = "number"
    \/ k = "redact" /\ v.is = "switch"

\* What the StartRequest has for a key: a level by its number, and nothing for
\* what was left out, which of a kind is 0.
Held(k) ==
    LET v == IF k \in DOMAIN wire THEN wire[k] ELSE Null
    IN  IF k = "kind" /\ v = Null THEN Number(0)
        ELSE IF k \in DOMAIN Levels /\ v # Null THEN Number(NumberOf(k, v.text))
        ELSE v

Parse ==
    /\ stage = "sent"
    /\ IF \E k \in DOMAIN wire : ~Readable(k, wire[k])
       THEN Refuse("rpc.malformed")
       ELSE /\ message' = [k \in Keys |-> Held(k)]
            /\ stage' = "kind"
            /\ UNCHANGED <<wire, asked, refusal>>

\* The engine's value of a level, or nothing for its default.
Level(k) ==
    LET name == NameOf(k, message[k].number)
    IN  IF message[k] = Null \/ name \notin DOMAIN Levels[k].of THEN Null
        ELSE Text(Levels[k].of[name])

\* A kind nobody named is a port scan.
ReadKind ==
    /\ stage = "kind"
    /\ asked' = [kind |-> IF Level("kind") = Null THEN Text("PortScan") ELSE Level("kind")]
    /\ stage' = "request"
    /\ UNCHANGED <<wire, message, refusal>>

\* Mutation: a number too wide keeps the bits there is room for.
NarrowCut(v, max, code) ==
    IF v = Null THEN v ELSE Number(v.number % (max + 1))

Narrow(v, max, code) ==
    IF v = Null \/ v.number <= max THEN v ELSE Refused(code)

\* A rate, or a count of attempts once it is narrow, is no number at zero.
Positive(v) ==
    IF v.is = "number" /\ v.number = 0 THEN Refused("request.out_of_range") ELSE v

Attempts(v) == Positive(Narrow(v, MaxU8, "request.out_of_range"))

Scale(v) ==
    IF v # Null /\ v.number <= 0 THEN Refused("request.out_of_range") ELSE v

Address(v, code) == IF v.text = "bad" THEN Refused(code) ELSE v

\* Mutation: what is not a ceiling is left out.
CeilingUnasked == Level("detection")

\* The class that is not a ceiling is refused, not taken for none.
Ceiling ==
    IF message["detection"] # Null /\ ~is_a_ceiling(NameOf("detection", message["detection"].number))
    THEN Refused("request.not_a_ceiling")
    ELSE Level("detection")

\* The engine's value for a key, or its refusal.
Given(k) ==
    LET v == message[k]
    IN  CASE k = "detection" -> Ceiling
          [] k \in DOMAIN Levels \ {"detection"} -> Level(k)
          [] k = "ip_protocols" -> Narrow(v, MaxU8, "request.bad_ip_protocol")
          [] k = "decoys" -> Address(v, "request.bad_decoy")
          [] k = "spoof_mac" -> Address(v, "request.bad_spoof_mac")
          [] k = "send_source" -> Address(v, "request.bad_send_source")
          [] k \in {"ttl", "flags"} -> Narrow(v, MaxU8, "request.out_of_range")
          [] k \in {"source_port", "fragment_mtu", "padding"} ->
                Narrow(v, MaxU16, "request.out_of_range")
          [] k \in {"max_probe_rate", "min_probe_rate"} -> Positive(v)
          [] k = "max_attempts" -> Attempts(v)
          [] k = "timeout_scale" -> Scale(v)
          [] OTHER -> v

\* The keys of one document are read in their order, up to the first refusal.
Through(order, next) ==
    LET bad == {i \in 1..Len(order) : Given(order[i]).is = "refused"}
    IN  \/ \E i \in bad : (\A j \in bad : i <= j) /\ Refuse(Given(order[i]).text)
        \/ /\ bad = {}
           /\ asked' = [k \in DOMAIN asked \cup Range(order) |->
                          IF k \in Range(order) THEN Given(k) ELSE asked[k]]
           /\ stage' = next
           /\ UNCHANGED <<wire, message, refusal>>

ReadRequest ==
    /\ stage = "request"
    /\ Through(<<"targets", "links", "ports", "listen_for_seconds", "service_detection",
                 "os_detection", "detection", "ip_protocols">>, "evasion")

ReadEvasion ==
    /\ stage = "evasion"
    /\ Through(<<"decoys", "spoof_mac", "source_port", "ttl", "fragment_mtu", "padding",
                 "flags">>, "settings")

ReadSettings ==
    /\ stage = "settings"
    /\ Through(<<"effort", "tcp_technique", "sctp_technique", "send_mode", "host_timeout",
                 "max_probe_rate", "min_probe_rate", "max_attempts", "redact",
                 "timeout_scale">>, "sources")

ReadSources ==
    /\ stage = "sources"
    /\ Through(<<"send_source">>, "read")

Accept ==
    /\ stage' = "accepted"
    /\ UNCHANGED <<wire, message, asked, refusal>>

\* A port scan reads its targets and its ports.
Ports ==
    /\ stage = "read" /\ asked.kind = Text("PortScan")
    /\ IF asked.targets = Null THEN Refuse("request.no_targets")
       ELSE IF asked.ports = Text("bad") \/ asked.targets = Text("bad") THEN Refuse("engine")
       ELSE Accept

\* Mutation: a sweep is asked for its ports too.
SweepPorts ==
    /\ stage = "read" /\ asked.kind = Text("Discovery")
    /\ IF asked.targets = Null THEN Refuse("request.no_targets")
       ELSE IF asked.ports = Text("bad") \/ asked.targets = Text("bad") THEN Refuse("engine")
       ELSE Accept

\* A sweep reads its targets.
Sweep ==
    /\ stage = "read" /\ asked.kind = Text("Discovery")
    /\ IF asked.targets = Null THEN Refuse("request.no_targets")
       ELSE IF asked.targets = Text("bad") THEN Refuse("engine")
       ELSE Accept

\* A listen reads its links.
Watch ==
    /\ stage = "read" /\ asked.kind = Text("Listen")
    /\ IF asked.links = Null THEN Refuse("request.no_links")
       ELSE IF asked.links = Text("bad") THEN Refuse("request.unknown_link")
       ELSE Accept

Next ==
    \/ Parse \/ ReadKind
    \/ ReadRequest \/ ReadEvasion \/ ReadSettings \/ ReadSources
    \/ Ports \/ Sweep \/ Watch

Spec == Init /\ [][Next]_vars

-----------------------------------------------------------------------------
(* Properties.                                                             *)

Said(k) == IF k \in DOMAIN wire THEN wire[k] ELSE Null

\* What the client said of a level, with nothing and UNSPECIFIED as one.
SaidOf(k) == IF Said(k) = Text("UNSPECIFIED") THEN Null ELSE Said(k)

\* What the engine was asked, in the schema's words.
Asked(k) == IF asked[k] = Null THEN Null ELSE Text(Levels[k].as[asked[k].text])

\* An accepted request asks the engine for what the client said, key for key:
\* no level is taken for another or for none, no number is cut down to the
\* width there is room for, and nothing is left out on the way.  (convert's
\* hand-written tables, in both directions, and narrow refusing.)
AskedIsWhatRuns ==
    stage = "accepted" =>
        /\ \A k \in Keys : IF k \in DOMAIN Levels \ {"kind"} THEN Asked(k) = SaidOf(k)
                           ELSE k # "kind" => asked[k] = Said(k)
        /\ Asked("kind") = IF SaidOf("kind") = Null THEN Text("PORT_SCAN") ELSE Said("kind")

KindSaid == IF SaidOf("kind") = Null THEN "PORT_SCAN" ELSE Said("kind").text

\* What is wrong with a request: the codes it could be refused with.
Faults ==
    LET above(k, max) == Said(k).is = "number" /\ Said(k).number > max
        zero(k)       == Said(k) = Number(0)
        bad(k)        == Said(k) = Text("bad")
        listens       == KindSaid = "LISTEN"
    IN  {code \in {"rpc.malformed", "request.not_a_ceiling", "request.bad_ip_protocol",
                   "request.bad_decoy", "request.bad_spoof_mac", "request.out_of_range",
                   "request.bad_send_source", "request.no_targets", "request.no_links",
                   "request.unknown_link", "engine"} :
            CASE code = "rpc.malformed" -> \E k \in DOMAIN wire : ~Readable(k, wire[k])
              [] code = "request.not_a_ceiling" -> Said("detection") = Text("DERIVED")
              [] code = "request.bad_ip_protocol" -> above("ip_protocols", MaxU8)
              [] code = "request.bad_decoy" -> bad("decoys")
              [] code = "request.bad_spoof_mac" -> bad("spoof_mac")
              [] code = "request.out_of_range" ->
                    \/ \E k \in {"ttl", "flags", "max_attempts"} : above(k, MaxU8)
                    \/ \E k \in {"source_port", "fragment_mtu", "padding"} : above(k, MaxU16)
                    \/ \E k \in {"max_probe_rate", "min_probe_rate", "max_attempts"} : zero(k)
                    \/ Said("timeout_scale").is = "number" /\ Said("timeout_scale").number <= 0
              [] code = "request.bad_send_source" -> bad("send_source")
              [] code = "request.no_targets" -> ~listens /\ Said("targets") = Null
              [] code = "request.no_links" -> listens /\ Said("links") = Null
              [] code = "request.unknown_link" -> listens /\ bad("links")
              [] code = "engine" -> \/ ~listens /\ bad("targets")
                                    \/ KindSaid = "PORT_SCAN" /\ bad("ports")}

\* A request is refused for something that is wrong with it, and accepted if
\* nothing its kind reads is: never for a key of another kind's, and never let
\* through for the order its keys are read in.  (request, evasion, settings,
\* and the three readers of a kind.)
RefusedForCause ==
    /\ stage = "refused" => refusal \in Faults
    /\ stage = "accepted" => Faults = {}

\* scan.proto, of StartRequest: "The engine's reader refuses an unknown key
\* rather than warning about it, and so does this."
UnknownKeysAreRefused == stage = "accepted" => DOMAIN wire \subseteq Keys

=============================================================================
