---------------------------- MODULE RequestsProofs ----------------------------
(***************************************************************************)
(* Proofs about Requests and Convert, for any request at all: any keys,    *)
(* any number of them, any JSON values, and any widths.                    *)
(***************************************************************************)
EXTENDS Requests, TLAPS

-----------------------------------------------------------------------------
(* The tables of Convert.                                                  *)

LevelKeys == {"kind", "service_detection", "os_detection", "detection", "effort",
              "tcp_technique", "sctp_technique", "send_mode"}

\* The keys that name a level.
LEMMA LevelKeysAre == DOMAIN Levels = LevelKeys
  BY DEF Levels, LevelKeys

\* No two names of an enum have one number.
Apart(schema) == \A a, b \in DOMAIN schema : schema[a] = schema[b] => a = b

\* No enum of the schema gives two names one number.
LEMMA SchemasApart == \A k \in LevelKeys : Apart(Levels[k].schema)
  <1>1. Apart(Kinds) /\ Apart(Service) /\ Apart(Os)
    BY DEF Apart, Kinds, Service, Os
  <1>2. Apart(Classes) /\ Apart(Effort)
    BY DEF Apart, Classes, Effort
  <1>3. Apart(Tcp)
    BY DEF Apart, Tcp
  <1>4. Apart(Sctp) /\ Apart(Modes)
    BY DEF Apart, Sctp, Modes
  <1> QED BY <1>1, <1>2, <1>3, <1>4 DEF LevelKeys, Levels

\* The name read back from a number is the name that was sent.
LEMMA NameOfNumber ==
    ASSUME NEW k \in LevelKeys, NEW name \in DOMAIN Levels[k].schema
    PROVE  NameOf(k, NumberOf(k, name)) = name
  <1> DEFINE S == Levels[k].schema
  <1>1. Apart(S)
    BY SchemasApart
  <1> HIDE DEF S
  <1>2. \A n \in DOMAIN S : S[n] = S[name] => n = name
    BY <1>1 DEF Apart, S
  <1>3. (CHOOSE n \in DOMAIN S : S[n] = S[name]) = name
    BY <1>2 DEF S
  <1> QED BY <1>3 DEF S, NameOf, NumberOf

\* The two tables of a level undo each other, and leave out UNSPECIFIED, and
\* of the classes DERIVED.
Agree(schema, of, as, out) ==
    /\ DOMAIN of = DOMAIN schema \ out
    /\ \A n \in DOMAIN of : as[of[n]] = n

Left(k) == IF k = "detection" THEN {"UNSPECIFIED", "DERIVED"} ELSE {"UNSPECIFIED"}

\* The tables of every level undo each other, and leave out what it has no name for.
LEMMA TablesAgree ==
    \A k \in LevelKeys : Agree(Levels[k].schema, Levels[k].of, Levels[k].as, Left(k))
  <1> DEFINE none == {"UNSPECIFIED"}
  <1>1. Agree(Kinds, scan_kind_of, scan_kind, none)
    BY DEF Agree, Kinds, scan_kind_of, scan_kind
  <1>2. Agree(Service, service_detection_of, service_detection, none)
    BY DEF Agree, Service, service_detection_of, service_detection
  <1>3. Agree(Os, os_detection_of, os_detection, none)
    BY DEF Agree, Os, os_detection_of, os_detection
  <1>4. Agree(Classes, detection_class_of, detection_class, {"UNSPECIFIED", "DERIVED"})
    BY DEF Agree, Classes, detection_class_of, detection_class
  <1>5. Agree(Effort, scan_effort_of, scan_effort, none)
    BY DEF Agree, Effort, scan_effort_of, scan_effort
  <1>6. Agree(Tcp, tcp_technique_of, tcp_technique, none)
    BY DEF Agree, Tcp, tcp_technique_of, tcp_technique
  <1>7. Agree(Sctp, sctp_technique_of, sctp_technique, none)
    BY DEF Agree, Sctp, sctp_technique_of, sctp_technique
  <1>8. Agree(Modes, send_mode_of, send_mode, none)
    BY DEF Agree, Modes, send_mode_of, send_mode
  <1> DEFINE Undone(k) == Agree(Levels[k].schema, Levels[k].of, Levels[k].as, Left(k))
  <1>9. Undone("kind") /\ Undone("service_detection")
    BY <1>1, <1>2 DEF Levels, Left
  <1>10. Undone("os_detection") /\ Undone("detection")
    BY <1>3, <1>4 DEF Levels, Left
  <1>11. Undone("effort") /\ Undone("tcp_technique")
    BY <1>5, <1>6 DEF Levels, Left
  <1>12. Undone("sctp_technique") /\ Undone("send_mode")
    BY <1>7, <1>8 DEF Levels, Left
  <1> HIDE DEF Undone
  <1>13. \A k \in LevelKeys : Undone(k)
    BY <1>9, <1>10, <1>11, <1>12 DEF LevelKeys
  <1> QED BY <1>13 DEF Undone

-----------------------------------------------------------------------------
(* What was sent, and what is made of one key.                             *)

\* A text, a number, a switch or a null.
IsValue(v) ==
    \/ v = Text(v.text)
    \/ v = Number(v.number) /\ v.number \in Int
    \/ v \in {Switch, Null}

\* Any keys, known or not, with any values.
Sendable == \A k \in DOMAIN wire : IsValue(wire[k])

\* The request was taken for a StartRequest.
Parsed ==
    /\ \A k \in DOMAIN wire : Readable(k, wire[k])
    /\ message = [k \in Keys |-> Held(k)]

\* Values of different sorts are different.
LEMMA ValuesApart ==
    /\ \A t : Text(t) # Null /\ Text(t).is = "text" /\ Text(t).text = t
    /\ \A n : Number(n) # Null /\ Number(n).is = "number" /\ Number(n).number = n
    /\ \A n : Number(n).text = ""
    /\ \A c : Refused(c).is = "refused" /\ Refused(c).text = c
    /\ Null.is = "null" /\ Null.text = "" /\ Null.number = 0
  BY DEF Text, Number, Null, Refused

\* A value is what it says it is.
LEMMA ValueShape ==
    ASSUME NEW v, IsValue(v)
    PROVE  /\ v.is = "text" => v = Text(v.text)
           /\ v.is = "number" => v = Number(v.number) /\ v.number \in Int
           /\ v.is = "null" => v = Null
           /\ v.is \in {"text", "number", "switch", "null"}
  <1>1. CASE v = Text(v.text)
    BY <1>1 DEF Text
  <1>2. CASE v = Number(v.number) /\ v.number \in Int
    <2>1. PICK n \in Int : v = Number(n)
      BY <1>2
    <2>2. v.is = "number"
      BY <2>1, ValuesApart
    <2> QED BY <1>2, <2>2
  <1>3. CASE v = Switch
    BY <1>3 DEF Switch
  <1>4. CASE v = Null
    BY <1>4 DEF Null
  <1> QED BY <1>1, <1>2, <1>3, <1>4 DEF IsValue

\* What is said of a key is a value.
LEMMA SaidShape == Sendable => \A k : IsValue(Said(k))
  BY DEF Sendable, Said, IsValue

\* What is left of a key's values once the request is parsed.
LEMMA SaidParsed ==
    ASSUME Sendable, Parsed, NEW k \in Keys
    PROVE  /\ k \in LevelKeys =>
                 Said(k) = Null \/ \E n \in DOMAIN Levels[k].schema : Said(k) = Text(n)
           /\ k \in Texts => Said(k) = Null \/ Said(k).is = "text"
           /\ k \in Wides => Said(k) = Null \/ (Said(k).is = "number" /\ Said(k).number \in 0..MaxU32)
           /\ k = "timeout_scale" => Said(k) = Null \/ Said(k).is = "number"
  <1>1. CASE k \notin DOMAIN wire
    BY <1>1 DEF Said
  <1>2. CASE k \in DOMAIN wire
    <2> DEFINE v == wire[k]
    <2>1. IsValue(v) /\ Readable(k, v) /\ Said(k) = v
      BY <1>2 DEF Sendable, Parsed, Said
    <2> HIDE DEF v
    <2>2. k \in LevelKeys => v = Null \/ (v.is = "text" /\ v.text \in DOMAIN Levels[k].schema)
      BY <2>1, LevelKeysAre DEF Readable, LevelKeys, Texts, Wides
    <2>3. /\ k \in Texts => v = Null \/ v.is = "text"
          /\ k \in Wides => v = Null \/ (v.is = "number" /\ v.number \in 0..MaxU32)
          /\ k = "timeout_scale" => v = Null \/ v.is = "number"
      BY <2>1, LevelKeysAre DEF Readable, LevelKeys, Texts, Wides
    <2> QED BY <2>1, <2>2, <2>3, ValueShape
  <1> QED BY <1>1, <1>2

\* What the message has for a key that names no level is what was said.
LEMMA HeldPlain ==
    ASSUME Parsed, NEW k \in Keys \ LevelKeys
    PROVE  message[k] = Said(k)
  <1>1. k \notin DOMAIN Levels /\ k # "kind"
    BY LevelKeysAre DEF LevelKeys
  <1> QED BY <1>1 DEF Parsed, Held, Said

\* A level is what its table makes of the name that was sent, and nothing if
\* none was.
LEMMA LevelSaid ==
    ASSUME Sendable, Parsed, NEW k \in LevelKeys
    PROVE  /\ Said(k) = Null => Level(k) = Null
           /\ \A n \in DOMAIN Levels[k].schema :
                 Said(k) = Text(n) =>
                    /\ message[k] # Null /\ NameOf(k, message[k].number) = n
                    /\ Level(k) = IF n \in DOMAIN Levels[k].of THEN Text(Levels[k].of[n])
                                  ELSE Null
  <1>1. k \in Keys /\ k \in DOMAIN Levels
    BY LevelKeysAre DEF Keys
  <1>2. message[k] = Held(k)
    BY <1>1 DEF Parsed
  <1>3. ASSUME Said(k) = Null, k # "kind" PROVE Level(k) = Null
    <2>1. message[k] = Null
      BY <1>1, <1>2, <1>3 DEF Held, Said
    <2> QED BY <2>1 DEF Level
  <1>4. ASSUME Said(k) = Null, k = "kind" PROVE Level(k) = Null
    <2>1. message[k] = Number(0)
      BY <1>2, <1>4 DEF Held, Said
    <2>2. "UNSPECIFIED" \in DOMAIN Levels[k].schema /\ NumberOf(k, "UNSPECIFIED") = 0
      BY <1>4 DEF Levels, Kinds, NumberOf
    <2>3. NameOf(k, 0) = "UNSPECIFIED"
      BY <2>2, NameOfNumber
    <2>4. "UNSPECIFIED" \notin DOMAIN Levels[k].of
      BY TablesAgree DEF Agree, Left
    <2>5. NameOf(k, message[k].number) = "UNSPECIFIED"
      <3>1. Number(0).number = 0
        BY ValuesApart
      <3> QED BY <2>1, <2>3, <3>1
    <2> QED BY <2>4, <2>5 DEF Level
  <1>5. ASSUME NEW n \in DOMAIN Levels[k].schema, Said(k) = Text(n)
        PROVE  /\ message[k] # Null /\ NameOf(k, message[k].number) = n
               /\ Level(k) = IF n \in DOMAIN Levels[k].of THEN Text(Levels[k].of[n]) ELSE Null
    <2>2. Said(k) # Null /\ Said(k).text = n
      BY <1>5, ValuesApart
    <2>3. message[k] = Number(NumberOf(k, n))
      BY <1>1, <1>2, <2>2 DEF Held, Said
    <2>4. message[k] # Null /\ message[k].number = NumberOf(k, n)
      BY <2>3, ValuesApart
    <2>5. NameOf(k, message[k].number) = n
      BY <2>4, NameOfNumber
    <2> QED BY <2>4, <2>5 DEF Level
  <1> QED BY <1>3, <1>4, <1>5

\* How each key is read.
LEMMA GivenBy ==
    /\ Given("detection") = Ceiling
    /\ \A k \in LevelKeys \ {"detection"} : Given(k) = Level(k)
    /\ Given("ip_protocols") = Narrow(message["ip_protocols"], MaxU8, "request.bad_ip_protocol")
    /\ Given("decoys") = Address(message["decoys"], "request.bad_decoy")
    /\ Given("spoof_mac") = Address(message["spoof_mac"], "request.bad_spoof_mac")
    /\ Given("send_source") = Address(message["send_source"], "request.bad_send_source")
    /\ \A k \in {"ttl", "flags"} : Given(k) = Narrow(message[k], MaxU8, "request.out_of_range")
    /\ \A k \in {"source_port", "fragment_mtu", "padding"} :
          Given(k) = Narrow(message[k], MaxU16, "request.out_of_range")
    /\ \A k \in {"max_probe_rate", "min_probe_rate"} : Given(k) = Positive(message[k])
    /\ Given("max_attempts") = Attempts(message["max_attempts"])
    /\ Given("timeout_scale") = Scale(message["timeout_scale"])
    /\ \A k \in {"targets", "links", "ports", "listen_for_seconds", "host_timeout", "redact"} :
          Given(k) = message[k]
  BY LevelKeysAre DEF Given, LevelKeys

Above(k, max) == Said(k).is = "number" /\ Said(k).number > max

\* What a request can be refused for, code by code.
LEMMA FaultsAre ==
    /\ "rpc.malformed" \in Faults <=> \E k \in DOMAIN wire : ~Readable(k, wire[k])
    /\ "request.not_a_ceiling" \in Faults <=> Said("detection") = Text("DERIVED")
    /\ "request.bad_ip_protocol" \in Faults <=> Above("ip_protocols", MaxU8)
    /\ "request.bad_decoy" \in Faults <=> Said("decoys") = Text("bad")
    /\ "request.bad_spoof_mac" \in Faults <=> Said("spoof_mac") = Text("bad")
    /\ "request.out_of_range" \in Faults <=>
          \/ \E k \in {"ttl", "flags", "max_attempts"} : Above(k, MaxU8)
          \/ \E k \in {"source_port", "fragment_mtu", "padding"} : Above(k, MaxU16)
          \/ \E k \in {"max_probe_rate", "min_probe_rate", "max_attempts"} : Said(k) = Number(0)
          \/ Said("timeout_scale").is = "number" /\ Said("timeout_scale").number <= 0
    /\ "request.bad_send_source" \in Faults <=> Said("send_source") = Text("bad")
    /\ "request.no_targets" \in Faults <=> KindSaid # "LISTEN" /\ Said("targets") = Null
    /\ "request.no_links" \in Faults <=> KindSaid = "LISTEN" /\ Said("links") = Null
    /\ "request.unknown_link" \in Faults <=> KindSaid = "LISTEN" /\ Said("links") = Text("bad")
    /\ "engine" \in Faults <=>
          \/ KindSaid # "LISTEN" /\ Said("targets") = Text("bad")
          \/ KindSaid = "PORT_SCAN" /\ Said("ports") = Text("bad")
    /\ Faults \subseteq {"rpc.malformed", "request.not_a_ceiling", "request.bad_ip_protocol",
                         "request.bad_decoy", "request.bad_spoof_mac", "request.out_of_range",
                         "request.bad_send_source", "request.no_targets", "request.no_links",
                         "request.unknown_link", "engine"}
  <1>1. "rpc.malformed" \in Faults <=> \E k \in DOMAIN wire : ~Readable(k, wire[k])
    BY DEF Faults, Above
  <1>2. "request.not_a_ceiling" \in Faults <=> Said("detection") = Text("DERIVED")
    BY DEF Faults, Above
  <1>3. "request.bad_ip_protocol" \in Faults <=> Above("ip_protocols", MaxU8)
    BY DEF Faults, Above
  <1>4. "request.bad_decoy" \in Faults <=> Said("decoys") = Text("bad")
    BY DEF Faults, Above
  <1>5. "request.bad_spoof_mac" \in Faults <=> Said("spoof_mac") = Text("bad")
    BY DEF Faults, Above
  <1>6. "request.out_of_range" \in Faults <=>
            \/ \E k \in {"ttl", "flags", "max_attempts"} : Above(k, MaxU8)
            \/ \E k \in {"source_port", "fragment_mtu", "padding"} : Above(k, MaxU16)
            \/ \E k \in {"max_probe_rate", "min_probe_rate", "max_attempts"} : Said(k) = Number(0)
            \/ Said("timeout_scale").is = "number" /\ Said("timeout_scale").number <= 0
    BY DEF Faults, Above
  <1>7. "request.bad_send_source" \in Faults <=> Said("send_source") = Text("bad")
    BY DEF Faults, Above
  <1>8. "request.no_targets" \in Faults <=> KindSaid # "LISTEN" /\ Said("targets") = Null
    BY DEF Faults, Above
  <1>9. "request.no_links" \in Faults <=> KindSaid = "LISTEN" /\ Said("links") = Null
    BY DEF Faults, Above
  <1>10. "request.unknown_link" \in Faults <=> KindSaid = "LISTEN" /\ Said("links") = Text("bad")
    BY DEF Faults, Above
  <1>11. "engine" \in Faults <=>
            \/ KindSaid # "LISTEN" /\ Said("targets") = Text("bad")
            \/ KindSaid = "PORT_SCAN" /\ Said("ports") = Text("bad")
    BY DEF Faults, Above
  <1>12. Faults \subseteq {"rpc.malformed", "request.not_a_ceiling", "request.bad_ip_protocol",
                           "request.bad_decoy", "request.bad_spoof_mac", "request.out_of_range",
                           "request.bad_send_source", "request.no_targets", "request.no_links",
                           "request.unknown_link", "engine"}
    BY DEF Faults, Above
  <1> QED BY <1>1, <1>2, <1>3, <1>4, <1>5, <1>6, <1>7, <1>8, <1>9, <1>10, <1>11, <1>12

\* Nothing said of a key is a fault, whatever the kind of scan.
Sound(k) ==
    /\ k = "detection" => Said(k) # Text("DERIVED")
    /\ k \in {"decoys", "spoof_mac", "send_source"} => Said(k) # Text("bad")
    /\ k \in {"ip_protocols", "ttl", "flags", "max_attempts"} => ~Above(k, MaxU8)
    /\ k \in {"source_port", "fragment_mtu", "padding"} => ~Above(k, MaxU16)
    /\ k \in {"max_probe_rate", "min_probe_rate", "max_attempts"} => Said(k) # Number(0)
    /\ k = "timeout_scale" => ~(Said(k).is = "number" /\ Said(k).number <= 0)

\* The engine's value, in the schema's words if it is a level.
Worded(k, v) ==
    IF k \notin LevelKeys THEN v
    ELSE IF v = Null THEN Null ELSE Text(Levels[k].as[v.text])

\* The words of a level are the words that were sent.
LEMMA LevelWorded ==
    ASSUME Sendable, Parsed, NEW k \in LevelKeys,
           k = "detection" => Said(k) # Text("DERIVED")
    PROVE  Level(k).is # "refused" /\ Worded(k, Level(k)) = SaidOf(k)
  <1> DEFINE L == Levels[k]
  <1>1. k \in Keys
    BY LevelKeysAre DEF Keys
  <1>2. CASE Said(k) = Null
    <2>1. Level(k) = Null /\ SaidOf(k) = Null
      BY <1>2, LevelSaid DEF SaidOf
    <2> QED BY <2>1, ValuesApart DEF Worded
  <1>3. ASSUME NEW n \in DOMAIN L.schema, Said(k) = Text(n)
        PROVE  Level(k).is # "refused" /\ Worded(k, Level(k)) = SaidOf(k)
    <2>1. Level(k) = IF n \in DOMAIN L.of THEN Text(L.of[n]) ELSE Null
      BY <1>3, LevelSaid
    <2>2. Agree(L.schema, L.of, L.as, Left(k))
      BY TablesAgree
    <2>3. CASE n \in DOMAIN L.of
      <3>1. L.as[L.of[n]] = n /\ n # "UNSPECIFIED"
        BY <2>2, <2>3 DEF Agree, Left
      <3>2. Level(k) = Text(L.of[n])
        BY <2>1, <2>3
      <3>3. Worded(k, Level(k)) = Text(n)
        <4>1. Level(k) # Null /\ Level(k).text = L.of[n]
          BY <3>2, ValuesApart
        <4> QED BY <3>1, <4>1 DEF Worded
      <3>4. Text(n) # Text("UNSPECIFIED")
        <4>1. Text(n).text = n /\ Text("UNSPECIFIED").text = "UNSPECIFIED"
          BY ValuesApart
        <4> QED BY <3>1, <4>1
      <3>5. SaidOf(k) = Text(n)
        BY <1>3, <3>4 DEF SaidOf
      <3> QED BY <3>2, <3>3, <3>5, ValuesApart
    <2>4. CASE n \notin DOMAIN L.of
      <3>1. n = "UNSPECIFIED"
        BY <1>3, <2>2, <2>4 DEF Agree, Left
      <3>2. Level(k) = Null /\ SaidOf(k) = Null
        BY <1>3, <2>1, <2>4, <3>1 DEF SaidOf
      <3> QED BY <3>2, ValuesApart DEF Worded
    <2> QED BY <2>3, <2>4
  <1>4. Said(k) = Null \/ \E n \in DOMAIN L.schema : Said(k) = Text(n)
    BY <1>1, SaidParsed
  <1> QED BY <1>2, <1>3, <1>4

\* What was said of a key, with nothing and UNSPECIFIED as one for a level.
Meant(k) == IF k \in LevelKeys THEN SaidOf(k) ELSE Said(k)

\* A key is refused for a fault of its own, or what the engine is given for
\* it is what was said, and sound.
GivenRight(k) ==
    \/ Given(k).is = "refused" /\ Given(k).text \in Faults
    \/ Given(k).is # "refused" /\ Worded(k, Given(k)) = Meant(k) /\ Sound(k)

\* Zero is a number, and the only one with its value.
LEMMA ZeroIs ==
    ASSUME NEW v, IsValue(v)
    PROVE  v = Number(0) <=> v.is = "number" /\ v.number = 0
  <1>1. Number(0).is = "number" /\ Number(0).number = 0
    BY ValuesApart
  <1>2. v.is = "number" => v = Number(v.number)
    BY ValueShape
  <1> QED BY <1>1, <1>2

\* A number is refused if it is wider than there is room for, and kept as it
\* is if not.
LEMMA NarrowIs ==
    ASSUME NEW v, IsValue(v), v = Null \/ v.is = "number", NEW max \in Nat, NEW code
    PROVE  \/ v.is = "number" /\ v.number > max /\ Narrow(v, max, code) = Refused(code)
           \/ ~(v.is = "number" /\ v.number > max) /\ Narrow(v, max, code) = v
  <1>1. CASE v = Null
    BY <1>1, ValuesApart DEF Narrow
  <1>2. CASE v # Null /\ v.is = "number" /\ v.number \in Int
    BY <1>2 DEF Narrow
  <1> QED BY <1>1, <1>2, ValueShape

\* A refusal for a fault is right.
LEMMA RefusedRight ==
    ASSUME NEW k, NEW code \in Faults, Given(k) = Refused(code)
    PROVE  GivenRight(k)
  <1>1. Given(k).is = "refused" /\ Given(k).text = code
    BY ValuesApart
  <1> QED BY <1>1 DEF GivenRight

\* So is what was said, for a key that names no level, if it is sound.
LEMMA KeptRight ==
    ASSUME Sendable, NEW k, k \notin LevelKeys, Given(k) = Said(k), Sound(k)
    PROVE  GivenRight(k)
  <1>1. Said(k).is # "refused"
    BY SaidShape, ValueShape
  <1>2. Worded(k, Given(k)) = Given(k) /\ Meant(k) = Said(k)
    BY DEF Worded, Meant
  <1> QED BY <1>1, <1>2 DEF GivenRight

\* Reading one key, whichever it is.
LEMMA KeyRight ==
    ASSUME Sendable, Parsed, NEW k \in Keys \ {"kind"}
    PROVE  GivenRight(k)
  <1> DEFINE v == Said(k)
  <1>0. IsValue(v) /\ MaxU8 \in Nat /\ MaxU16 \in Nat
    BY SaidShape, WidthsAssumption
  <1>1. CASE k \in LevelKeys \ {"detection", "kind"}
    <2>1. Given(k) = Level(k)
      BY <1>1, GivenBy
    <2>2. Given(k).is # "refused" /\ Worded(k, Given(k)) = SaidOf(k)
      BY <1>1, <2>1, LevelWorded
    <2>3. Sound(k)
      BY <1>1 DEF Sound, LevelKeys
    <2> QED BY <1>1, <2>2, <2>3 DEF GivenRight, Meant
  <1>2. CASE k = "detection"
    <2>1. Given(k) = Ceiling /\ k \in LevelKeys
      BY <1>2, GivenBy DEF LevelKeys
    <2>2. CASE v = Text("DERIVED")
      <3>1. "DERIVED" \in DOMAIN Levels[k].schema
        BY <1>2 DEF Levels, Classes
      <3>2. message[k] # Null /\ NameOf(k, message[k].number) = "DERIVED"
        BY <2>1, <2>2, <3>1, LevelSaid
      <3>3. Given(k) = Refused("request.not_a_ceiling")
        BY <1>2, <2>1, <3>2 DEF Ceiling, is_a_ceiling
      <3>4. "request.not_a_ceiling" \in Faults
        BY <1>2, <2>2, FaultsAre
      <3> QED BY <3>3, <3>4, RefusedRight
    <2>3. CASE v # Text("DERIVED")
      <3>1. Given(k) = Level(k)
        <4>1. CASE v = Null
          <5>1. message[k] = Null
            BY <1>2, <2>1, <4>1, LevelKeysAre DEF Parsed, Held, Said
          <5> QED BY <1>2, <2>1, <5>1 DEF Ceiling
        <4>2. ASSUME NEW n \in DOMAIN Levels[k].schema, v = Text(n)
              PROVE  Given(k) = Level(k)
          <5>1. NameOf(k, message[k].number) = n /\ n # "DERIVED"
            BY <2>1, <2>3, <4>2, LevelSaid
          <5> QED BY <1>2, <2>1, <5>1 DEF Ceiling, is_a_ceiling
        <4> QED BY <2>1, <4>1, <4>2, SaidParsed
      <3>2. Given(k).is # "refused" /\ Worded(k, Given(k)) = SaidOf(k)
        BY <2>1, <2>3, <3>1, LevelWorded
      <3>3. Sound(k)
        BY <1>2, <2>3 DEF Sound
      <3> QED BY <2>1, <3>2, <3>3 DEF GivenRight, Meant
    <2> QED BY <2>2, <2>3
  <1>3. ASSUME k \notin LevelKeys PROVE message[k] = v
    BY <1>3, HeldPlain
  <1>5. CASE k \in {"targets", "links", "ports", "listen_for_seconds", "host_timeout", "redact"}
    <2>1. k \notin LevelKeys /\ Given(k) = message[k]
      BY <1>5, GivenBy DEF LevelKeys
    <2>2. Sound(k)
      BY <1>5 DEF Sound
    <2> QED BY <1>3, <2>1, <2>2, KeptRight
  <1>6. CASE k \in {"decoys", "spoof_mac", "send_source"}
    <2> DEFINE code == CASE k = "decoys" -> "request.bad_decoy"
                         [] k = "spoof_mac" -> "request.bad_spoof_mac"
                         [] k = "send_source" -> "request.bad_send_source"
    <2>1. k \notin LevelKeys /\ Given(k) = Address(v, code)
      BY <1>3, <1>6, GivenBy DEF LevelKeys
    <2>2. v = Null \/ v.is = "text"
      BY <1>6, SaidParsed DEF Texts
    <2>3. code \in Faults <=> v = Text("bad")
      BY <1>6, FaultsAre
    <2>4. v = Text("bad") <=> v.text = "bad"
      BY <1>0, <2>2, ValueShape, ValuesApart
    <2>5. v # Text("bad") => Sound(k)
      BY <1>6 DEF Sound
    <2>6. Given(k) = IF v.text = "bad" THEN Refused(code) ELSE v
      BY <2>1 DEF Address
    <2> HIDE DEF code
    <2>7. CASE v = Text("bad")
      BY <2>3, <2>4, <2>6, <2>7, RefusedRight
    <2>8. CASE v # Text("bad")
      BY <2>1, <2>4, <2>5, <2>6, <2>8, KeptRight
    <2> QED BY <2>7, <2>8
  <1>7. CASE k \in {"ip_protocols", "ttl", "flags", "source_port", "fragment_mtu", "padding"}
    <2> DEFINE max == IF k \in {"ip_protocols", "ttl", "flags"} THEN MaxU8 ELSE MaxU16
               code == IF k = "ip_protocols" THEN "request.bad_ip_protocol"
                       ELSE "request.out_of_range"
    <2>1. k \notin LevelKeys /\ Given(k) = Narrow(v, max, code)
      BY <1>3, <1>7, GivenBy DEF LevelKeys
    <2>2. v = Null \/ v.is = "number"
      BY <1>7, SaidParsed DEF Wides
    <2>3. Above(k, max) => code \in Faults
      BY <1>7, FaultsAre
    <2>4. ~Above(k, max) => Sound(k)
      BY <1>7 DEF Sound
    <2>5. max \in Nat /\ (Above(k, max) <=> v.is = "number" /\ v.number > max)
      BY <1>0 DEF Above
    <2> HIDE DEF max, code
    <2>6. \/ Above(k, max) /\ Given(k) = Refused(code)
          \/ ~Above(k, max) /\ Given(k) = v
      BY <1>0, <2>1, <2>2, <2>5, NarrowIs
    <2> QED BY <2>1, <2>3, <2>4, <2>6, RefusedRight, KeptRight
  <1>8. CASE k \in {"max_probe_rate", "min_probe_rate"}
    <2>1. k \notin LevelKeys /\ Given(k) = Positive(v)
      BY <1>3, <1>8, GivenBy DEF LevelKeys
    <2>2. v = Null \/ v.is = "number"
      BY <1>8, SaidParsed DEF Wides
    <2>3. v = Number(0) => "request.out_of_range" \in Faults
      BY <1>8, FaultsAre
    <2>4. v # Number(0) => Sound(k)
      BY <1>8 DEF Sound
    <2>5. v = Number(0) <=> v.is = "number" /\ v.number = 0
      BY <1>0, ZeroIs
    <2>6. Given(k) = IF v = Number(0) THEN Refused("request.out_of_range") ELSE v
      BY <2>1, <2>5 DEF Positive
    <2>7. CASE v = Number(0)
      BY <2>3, <2>6, <2>7, RefusedRight
    <2>8. CASE v # Number(0)
      BY <2>1, <2>4, <2>6, <2>8, KeptRight
    <2> QED BY <2>7, <2>8
  <1>9. CASE k = "max_attempts"
    <2> DEFINE u == Narrow(v, MaxU8, "request.out_of_range")
    <2>1. k \notin LevelKeys /\ Given(k) = Positive(u)
      BY <1>3, <1>9, GivenBy DEF LevelKeys, Attempts
    <2>2. v = Null \/ v.is = "number"
      BY <1>9, SaidParsed DEF Wides
    <2>3. v = Number(0) \/ Above(k, MaxU8) => "request.out_of_range" \in Faults
      BY <1>9, FaultsAre
    <2>4. v # Number(0) /\ ~Above(k, MaxU8) => Sound(k)
      BY <1>9 DEF Sound
    <2>5. v = Number(0) <=> v.is = "number" /\ v.number = 0
      BY <1>0, ZeroIs
    <2>6. \/ Above(k, MaxU8) /\ u = Refused("request.out_of_range")
          \/ ~Above(k, MaxU8) /\ u = v
      BY <1>0, <2>2, NarrowIs DEF Above
    <2>7. CASE Above(k, MaxU8)
      <3>1. u = Refused("request.out_of_range")
        BY <2>6, <2>7
      <3>2. Given(k) = u
        BY <2>1, <3>1, ValuesApart DEF Positive
      <3> QED BY <2>3, <2>7, <3>1, <3>2, RefusedRight
    <2>8. CASE ~Above(k, MaxU8)
      <3>1. Given(k) = Positive(v)
        BY <2>1, <2>6, <2>8
      <3>2. Given(k) = IF v = Number(0) THEN Refused("request.out_of_range") ELSE v
        BY <2>5, <3>1 DEF Positive
      <3>3. CASE v = Number(0)
        BY <2>3, <3>2, <3>3, RefusedRight
      <3>4. CASE v # Number(0)
        BY <2>1, <2>4, <2>8, <3>2, <3>4, KeptRight
      <3> QED BY <3>3, <3>4
    <2> QED BY <2>7, <2>8
  <1>10. CASE k = "timeout_scale"
    <2> DEFINE low == v.is = "number" /\ v.number <= 0
    <2>1. k \notin LevelKeys /\ Given(k) = Scale(v)
      BY <1>3, <1>10, GivenBy DEF LevelKeys
    <2>2. v = Null \/ (v # Null /\ v.is = "number")
      BY <1>10, SaidParsed
    <2>3. low => "request.out_of_range" \in Faults
      BY <1>10, FaultsAre
    <2>4. ~low => Sound(k)
      BY <1>10 DEF Sound
    <2>5. Given(k) = IF low THEN Refused("request.out_of_range") ELSE v
      BY <2>1, <2>2, ValuesApart DEF Scale
    <2>6. CASE low
      BY <2>3, <2>5, <2>6, RefusedRight
    <2>7. CASE ~low
      BY <2>1, <2>4, <2>5, <2>7, KeptRight
    <2> QED BY <2>6, <2>7
  <1>11. \/ k \in LevelKeys \ {"kind"}
         \/ k \in {"targets", "links", "ports", "listen_for_seconds", "host_timeout", "redact",
                   "decoys", "spoof_mac", "send_source", "ip_protocols", "ttl", "flags",
                   "source_port", "fragment_mtu", "padding", "max_probe_rate",
                   "min_probe_rate", "max_attempts", "timeout_scale"}
    BY LevelKeysAre DEF Keys, Texts, Wides
  <1> QED BY <1>1, <1>2, <1>5, <1>6, <1>7, <1>8, <1>9, <1>10, <1>11

-----------------------------------------------------------------------------
(* Reading a request key after key.                                        *)

RequestKeys == {"targets", "links", "ports", "listen_for_seconds", "service_detection",
                "os_detection", "detection", "ip_protocols"}

EvasionKeys == {"decoys", "spoof_mac", "source_port", "ttl", "fragment_mtu", "padding", "flags"}

SettingsKeys == {"effort", "tcp_technique", "sctp_technique", "send_mode", "host_timeout",
                 "max_probe_rate", "min_probe_rate", "max_attempts", "redact", "timeout_scale"}

SourceKeys == {"send_source"}

\* Every key belongs to one of the documents, or is the kind.
LEMMA KeysRead == Keys = {"kind"} \cup RequestKeys \cup EvasionKeys \cup SettingsKeys \cup SourceKeys
  BY LevelKeysAre
     DEF Keys, Texts, Wides, LevelKeys, RequestKeys, EvasionKeys, SettingsKeys, SourceKeys

\* A key that was read: the engine is asked for what was said, and it is sound.
Right(k) ==
    /\ k \in DOMAIN asked
    /\ Worded(k, asked[k]) = Meant(k)
    /\ Sound(k)

\* The kind that was read is the one that was said, or a port scan.
KindRight ==
    /\ "kind" \in DOMAIN asked
    /\ Asked("kind") = IF SaidOf("kind") = Null THEN Text("PORT_SCAN") ELSE Said("kind")
    /\ \/ asked["kind"] = Text("PortScan") /\ KindSaid = "PORT_SCAN"
       \/ asked["kind"] = Text("Discovery") /\ KindSaid = "DISCOVERY"
       \/ asked["kind"] = Text("Listen") /\ KindSaid = "LISTEN"

\* What the reader of the kind asks for is there.
Served ==
    /\ KindSaid # "LISTEN" => Said("targets") # Null /\ Said("targets") # Text("bad")
    /\ KindSaid = "PORT_SCAN" => Said("ports") # Text("bad")
    /\ KindSaid = "LISTEN" => Said("links") # Null /\ Said("links") # Text("bad")

\* What has been read so far is right, stage by stage, and a refusal had its
\* cause.  In what was sent and what is asked alone, so that a step that
\* leaves both leaves it.
ReadSoFar ==
    /\ Sendable
    /\ stage \in {"sent", "kind", "request", "evasion", "settings", "sources", "read",
                  "accepted", "refused"}
    /\ stage \notin {"sent", "refused"} => Parsed
    /\ stage \notin {"sent", "kind", "refused"} => KindRight
    /\ stage \notin {"sent", "kind", "request", "refused"} => \A k \in RequestKeys : Right(k)
    /\ stage \in {"settings", "sources", "read", "accepted"} => \A k \in EvasionKeys : Right(k)
    /\ stage \in {"sources", "read", "accepted"} => \A k \in SettingsKeys : Right(k)
    /\ stage \in {"read", "accepted"} => \A k \in SourceKeys : Right(k)
    /\ stage = "accepted" => Served
    /\ stage = "refused" => refusal \in Faults

\* Faults are in what was sent: a step that leaves it leaves them.
LEMMA WireKept ==
    ASSUME wire' = wire
    PROVE  /\ \A k : Said(k)' = Said(k) /\ SaidOf(k)' = SaidOf(k)
           /\ \A k : Meant(k)' = Meant(k) /\ Sound(k)' = Sound(k)
           /\ KindSaid' = KindSaid /\ Faults' = Faults /\ Sendable' = Sendable
           /\ Served' = Served
  <1>1. \A k : Said(k)' = Said(k)
    BY DEF Said
  <1>2. \A k : SaidOf(k)' = SaidOf(k)
    BY <1>1 DEF SaidOf
  <1>3. KindSaid' = KindSaid
    BY <1>1, <1>2 DEF KindSaid
  <1>4. \A k : Meant(k)' = Meant(k)
    BY <1>1, <1>2 DEF Meant
  <1>5. \A k : Sound(k)' = Sound(k)
    BY <1>1 DEF Sound, Above
  <1>6. Sendable' = Sendable
    BY DEF Sendable
  <1>7. Served' = Served
    BY <1>1, <1>3 DEF Served
  <1>8. Faults' = Faults
    BY <1>1, <1>3 DEF Faults
  <1> QED BY <1>1, <1>2, <1>3, <1>4, <1>5, <1>6, <1>7, <1>8

\* Parsed is kept by what keeps the message too.
LEMMA ParsedKept ==
    ASSUME UNCHANGED <<wire, message>>, Parsed
    PROVE  Parsed'
  BY DEF Parsed, Readable, Held

\* What was read right stays so.
LEMMA AskedKept ==
    ASSUME UNCHANGED <<wire, asked>>
    PROVE  (KindRight => KindRight') /\ \A k : Right(k)' <=> Right(k)
  <1>1. /\ \A k : Meant(k)' = Meant(k) /\ Sound(k)' = Sound(k)
        /\ \A k : Said(k)' = Said(k) /\ SaidOf(k)' = SaidOf(k)
        /\ KindSaid' = KindSaid
    BY WireKept
  <1>2. Asked("kind")' = Asked("kind")
    BY DEF Asked
  <1>3. KindRight => KindRight'
    BY <1>1, <1>2 DEF KindRight
  <1>4. \A k : Right(k)' <=> Right(k)
    BY <1>1 DEF Right, Worded
  <1> QED BY <1>3, <1>4

\* A document read to its end leaves its keys right, and the others as they
\* were; a refusal on the way has its cause.
LEMMA DocumentRead ==
    ASSUME Sendable, Parsed, NEW K \in SUBSET (Keys \ {"kind"}), NEW order \in Seq(K),
           Range(order) = K, NEW next, Through(order, next)
    PROVE  /\ wire' = wire /\ message' = message
           /\ \/ stage' = "refused" /\ refusal' \in Faults
              \/ /\ stage' = next
                 /\ \A k \in K : Right(k)'
                 /\ \A k : Right(k) => Right(k)'
                 /\ KindRight => KindRight'
  <1> DEFINE bad == {i \in 1..Len(order) : Given(order[i]).is = "refused"}
  <1>1. \A i \in 1..Len(order) : order[i] \in K
    OBVIOUS
  <1>2. \A k \in K : \E i \in 1..Len(order) : k = order[i]
    BY DEF Range
  <1>3. \A k \in K : GivenRight(k)
    BY KeyRight
  <1>4. \/ \E i \in bad : Refuse(Given(order[i]).text)
        \/ /\ bad = {}
           /\ asked' = [k \in DOMAIN asked \cup K |-> IF k \in K THEN Given(k) ELSE asked[k]]
           /\ stage' = next
           /\ UNCHANGED <<wire, message, refusal>>
    BY DEF Through
  <1>5. CASE \E i \in bad : Refuse(Given(order[i]).text)
    <2>1. PICK i \in bad : Refuse(Given(order[i]).text)
      BY <1>5
    <2>2. Given(order[i]).text \in Faults
      BY <1>1, <1>3 DEF GivenRight
    <2>3. wire' = wire /\ message' = message /\ stage' = "refused" /\ refusal' = Given(order[i]).text
      BY <2>1 DEF Refuse
    <2>4. Faults' = Faults
      BY <2>3, WireKept
    <2> QED BY <2>2, <2>3, <2>4
  <1>6. CASE /\ bad = {}
             /\ asked' = [k \in DOMAIN asked \cup K |-> IF k \in K THEN Given(k) ELSE asked[k]]
             /\ stage' = next
             /\ UNCHANGED <<wire, message, refusal>>
    <2>1. \A k \in K : Given(k).is # "refused"
      BY <1>2, <1>6
    <2>2. \A k \in K : Worded(k, Given(k)) = Meant(k) /\ Sound(k)
      BY <1>3, <2>1 DEF GivenRight
    <2>3. /\ \A k : Meant(k)' = Meant(k) /\ Sound(k)' = Sound(k)
          /\ \A k : Said(k)' = Said(k) /\ SaidOf(k)' = SaidOf(k)
          /\ KindSaid' = KindSaid
      BY <1>6, WireKept
    <2>4. DOMAIN asked' = DOMAIN asked \cup K
      BY <1>6
    <2>5. \A k \in K : asked'[k] = Given(k)
      BY <1>6
    <2>6. \A k \in DOMAIN asked : k \notin K => asked'[k] = asked[k]
      BY <1>6
    <2>7. \A k : Right(k)' <=> k \in DOMAIN asked' /\ Worded(k, asked'[k]) = Meant(k) /\ Sound(k)
      BY <2>3 DEF Right, Worded
    <2>8. \A k \in K : Right(k)'
      BY <2>2, <2>4, <2>5, <2>7
    <2>9. \A k : Right(k) => Right(k)'
      BY <2>4, <2>6, <2>7, <2>8 DEF Right
    <2>10. ASSUME KindRight PROVE KindRight'
      <3>1. "kind" \in DOMAIN asked' /\ asked'["kind"] = asked["kind"]
        BY <2>4, <2>6, <2>10 DEF KindRight
      <3>2. Asked("kind")' = Asked("kind")
        BY <3>1 DEF Asked
      <3> QED BY <2>3, <2>10, <3>1, <3>2 DEF KindRight
    <2> QED BY <1>6, <2>8, <2>9, <2>10
  <1> QED BY <1>4, <1>5, <1>6

-----------------------------------------------------------------------------
(* The steps.                                                              *)

\* A request that is malformed is refused; any other is a StartRequest.
LEMMA ParseStep == ReadSoFar /\ Parse => ReadSoFar'
  <1> SUFFICES ASSUME ReadSoFar, Parse PROVE ReadSoFar'
    OBVIOUS
  <1>1. CASE \E k \in DOMAIN wire : ~Readable(k, wire[k])
    <2>1. Refuse("rpc.malformed") /\ "rpc.malformed" \in Faults
      BY <1>1, FaultsAre DEF Parse
    <2>2. wire' = wire /\ stage' = "refused" /\ refusal' \in Faults
      BY <2>1 DEF Refuse
    <2> QED BY <2>2, WireKept DEF ReadSoFar
  <1>2. CASE \A k \in DOMAIN wire : Readable(k, wire[k])
    <2>1. /\ message' = [k \in Keys |-> Held(k)] /\ stage' = "kind"
          /\ UNCHANGED <<wire, asked, refusal>>
      BY <1>2 DEF Parse
    <2>2. Parsed'
      BY <1>2, <2>1 DEF Parsed, Readable, Held
    <2> QED BY <2>1, <2>2, WireKept DEF ReadSoFar
  <1> QED BY <1>1, <1>2

\* The kind is the one that was said, or a port scan.
LEMMA ReadKindStep == ReadSoFar /\ ReadKind => ReadSoFar'
  <1> SUFFICES ASSUME ReadSoFar, ReadKind PROVE ReadSoFar'
    OBVIOUS
  <1> DEFINE given == IF Level("kind") = Null THEN Text("PortScan") ELSE Level("kind")
             said  == IF SaidOf("kind") = Null THEN Text("PORT_SCAN") ELSE Said("kind")
  <1>1. /\ Sendable /\ Parsed /\ stage' = "request" /\ asked' = [kind |-> given]
        /\ UNCHANGED <<wire, message, refusal>>
    BY DEF ReadSoFar, ReadKind
  <1>2. /\ KindSaid' = KindSaid /\ Said("kind")' = Said("kind") /\ SaidOf("kind")' = SaidOf("kind")
        /\ Sendable'
    BY <1>1, WireKept
  <1>3. "kind" \in DOMAIN asked' /\ asked'["kind"] = given
    BY <1>1
  <1>4. \/ given = Text("PortScan") /\ KindSaid = "PORT_SCAN" /\ said = Text("PORT_SCAN")
        \/ given = Text("Discovery") /\ KindSaid = "DISCOVERY" /\ said = Text("DISCOVERY")
        \/ given = Text("Listen") /\ KindSaid = "LISTEN" /\ said = Text("LISTEN")
    <2>1. "kind" \in LevelKeys /\ "kind" \in Keys
      BY LevelKeysAre DEF LevelKeys, Keys
    <2>2. /\ DOMAIN Levels["kind"].schema = {"UNSPECIFIED", "DISCOVERY", "PORT_SCAN", "LISTEN"}
          /\ DOMAIN Levels["kind"].of = {"DISCOVERY", "PORT_SCAN", "LISTEN"}
          /\ Levels["kind"].of["DISCOVERY"] = "Discovery"
          /\ Levels["kind"].of["PORT_SCAN"] = "PortScan"
          /\ Levels["kind"].of["LISTEN"] = "Listen"
      BY DEF Levels, Kinds, scan_kind_of
    <2>3. CASE Said("kind") = Null
      <3>1. Level("kind") = Null /\ SaidOf("kind") = Null
        BY <1>1, <2>1, <2>3, LevelSaid DEF SaidOf
      <3> QED BY <3>1 DEF KindSaid
    <2>4. CASE Said("kind") = Text("UNSPECIFIED")
      <3>1. Level("kind") = Null /\ SaidOf("kind") = Null
        BY <1>1, <2>1, <2>2, <2>4, LevelSaid DEF SaidOf
      <3> QED BY <3>1 DEF KindSaid
    <2>5. ASSUME NEW n \in DOMAIN Levels["kind"].of, Said("kind") = Text(n)
          PROVE  given = Text(Levels["kind"].of[n]) /\ KindSaid = n /\ said = Text(n)
      <3>1. Level("kind") = Text(Levels["kind"].of[n])
        BY <1>1, <2>1, <2>2, <2>5, LevelSaid
      <3>2. Said("kind").text = n /\ Text("UNSPECIFIED").text = "UNSPECIFIED" /\ Said("kind") # Null
        BY <2>5, ValuesApart
      <3>3. SaidOf("kind") = Said("kind")
        BY <2>2, <2>5, <3>2 DEF SaidOf
      <3>4. Level("kind") # Null
        BY <3>1, ValuesApart
      <3> QED BY <2>5, <3>1, <3>2, <3>3, <3>4 DEF KindSaid
    <2>6. \/ Said("kind") = Null \/ Said("kind") = Text("UNSPECIFIED")
          \/ \E n \in DOMAIN Levels["kind"].of : Said("kind") = Text(n)
      BY <1>1, <2>1, <2>2, SaidParsed
    <2>7. ASSUME NEW n \in DOMAIN Levels["kind"].of, Said("kind") = Text(n)
          PROVE  \/ given = Text("PortScan") /\ KindSaid = "PORT_SCAN" /\ said = Text("PORT_SCAN")
                 \/ given = Text("Discovery") /\ KindSaid = "DISCOVERY" /\ said = Text("DISCOVERY")
                 \/ given = Text("Listen") /\ KindSaid = "LISTEN" /\ said = Text("LISTEN")
      BY <2>2, <2>5, <2>7
    <2> QED BY <2>3, <2>4, <2>6, <2>7
  <1>5. Levels["kind"].as = scan_kind
    BY DEF Levels
  <1>6. Asked("kind")' = said
    <2>1. Asked("kind")' = IF given = Null THEN Null ELSE Text(scan_kind[given.text])
      BY <1>3, <1>5 DEF Asked
    <2>2. given # Null
      BY <1>4, ValuesApart
    <2>3. /\ Text("PortScan").text = "PortScan" /\ Text("Discovery").text = "Discovery"
          /\ Text("Listen").text = "Listen"
      BY ValuesApart
    <2>4. /\ scan_kind["PortScan"] = "PORT_SCAN" /\ scan_kind["Discovery"] = "DISCOVERY"
          /\ scan_kind["Listen"] = "LISTEN"
      BY DEF scan_kind
    <2> QED BY <1>4, <2>1, <2>2, <2>3, <2>4
  <1>7. KindRight'
    BY <1>2, <1>3, <1>4, <1>6 DEF KindRight
  <1>8. Parsed'
    BY <1>1, ParsedKept
  <1> QED BY <1>1, <1>2, <1>7, <1>8 DEF ReadSoFar

\* Each document in its turn.
LEMMA ReadRequestStep == ReadSoFar /\ ReadRequest => ReadSoFar'
  <1> SUFFICES ASSUME ReadSoFar, ReadRequest PROVE ReadSoFar'
    OBVIOUS
  <1> DEFINE order == <<"targets", "links", "ports", "listen_for_seconds", "service_detection",
                        "os_detection", "detection", "ip_protocols">>
  <1>1. Sendable /\ Parsed /\ KindRight /\ Through(order, "evasion")
    BY DEF ReadSoFar, ReadRequest
  <1>2. order \in Seq(RequestKeys) /\ Range(order) = RequestKeys
    BY DEF RequestKeys, Range
  <1>3. RequestKeys \in SUBSET (Keys \ {"kind"})
    BY KeysRead DEF RequestKeys
  <1> HIDE DEF order
  <1>4. /\ wire' = wire /\ message' = message
        /\ \/ stage' = "refused" /\ refusal' \in Faults
           \/ /\ stage' = "evasion"
              /\ \A k \in RequestKeys : Right(k)'
              /\ \A k : Right(k) => Right(k)'
              /\ KindRight => KindRight'
    BY <1>1, <1>2, <1>3, DocumentRead
  <1>5. Sendable' /\ Faults' = Faults /\ Parsed'
    BY <1>1, <1>4, WireKept, ParsedKept
  <1> QED BY <1>1, <1>4, <1>5 DEF ReadSoFar

\* Reading the evasion keys in their order reads each of them right.
LEMMA ReadEvasionStep == ReadSoFar /\ ReadEvasion => ReadSoFar'
  <1> SUFFICES ASSUME ReadSoFar, ReadEvasion PROVE ReadSoFar'
    OBVIOUS
  <1> DEFINE order == <<"decoys", "spoof_mac", "source_port", "ttl", "fragment_mtu", "padding",
                        "flags">>
  <1>1. /\ Sendable /\ Parsed /\ KindRight /\ Through(order, "settings")
        /\ \A k \in RequestKeys : Right(k)
    BY DEF ReadSoFar, ReadEvasion
  <1>2. order \in Seq(EvasionKeys) /\ Range(order) = EvasionKeys
    BY DEF EvasionKeys, Range
  <1>3. EvasionKeys \in SUBSET (Keys \ {"kind"})
    BY KeysRead DEF EvasionKeys
  <1> HIDE DEF order
  <1>4. /\ wire' = wire /\ message' = message
        /\ \/ stage' = "refused" /\ refusal' \in Faults
           \/ /\ stage' = "settings"
              /\ \A k \in EvasionKeys : Right(k)'
              /\ \A k : Right(k) => Right(k)'
              /\ KindRight => KindRight'
    BY <1>1, <1>2, <1>3, DocumentRead
  <1>5. Sendable' /\ Faults' = Faults /\ Parsed'
    BY <1>1, <1>4, WireKept, ParsedKept
  <1> QED BY <1>1, <1>4, <1>5 DEF ReadSoFar

\* So does reading the settings.
LEMMA ReadSettingsStep == ReadSoFar /\ ReadSettings => ReadSoFar'
  <1> SUFFICES ASSUME ReadSoFar, ReadSettings PROVE ReadSoFar'
    OBVIOUS
  <1> DEFINE order == <<"effort", "tcp_technique", "sctp_technique", "send_mode", "host_timeout",
                        "max_probe_rate", "min_probe_rate", "max_attempts", "redact",
                        "timeout_scale">>
  <1>1. /\ Sendable /\ Parsed /\ KindRight /\ Through(order, "sources")
        /\ \A k \in RequestKeys : Right(k)
        /\ \A k \in EvasionKeys : Right(k)
    BY DEF ReadSoFar, ReadSettings
  <1>2. order \in Seq(SettingsKeys) /\ Range(order) = SettingsKeys
    BY DEF SettingsKeys, Range
  <1>3. SettingsKeys \in SUBSET (Keys \ {"kind"})
    BY KeysRead DEF SettingsKeys
  <1> HIDE DEF order
  <1>4. /\ wire' = wire /\ message' = message
        /\ \/ stage' = "refused" /\ refusal' \in Faults
           \/ /\ stage' = "sources"
              /\ \A k \in SettingsKeys : Right(k)'
              /\ \A k : Right(k) => Right(k)'
              /\ KindRight => KindRight'
    BY <1>1, <1>2, <1>3, DocumentRead
  <1>5. Sendable' /\ Faults' = Faults /\ Parsed'
    BY <1>1, <1>4, WireKept, ParsedKept
  <1> QED BY <1>1, <1>4, <1>5 DEF ReadSoFar

\* So does reading the sources, the last of a port scan.
LEMMA ReadSourcesStep == ReadSoFar /\ ReadSources => ReadSoFar'
  <1> SUFFICES ASSUME ReadSoFar, ReadSources PROVE ReadSoFar'
    OBVIOUS
  <1> DEFINE order == <<"send_source">>
  <1>1. /\ Sendable /\ Parsed /\ KindRight /\ Through(order, "read")
        /\ \A k \in RequestKeys : Right(k)
        /\ \A k \in EvasionKeys : Right(k)
        /\ \A k \in SettingsKeys : Right(k)
    BY DEF ReadSoFar, ReadSources
  <1>2. order \in Seq(SourceKeys) /\ Range(order) = SourceKeys
    BY DEF SourceKeys, Range
  <1>3. SourceKeys \in SUBSET (Keys \ {"kind"})
    BY KeysRead DEF SourceKeys
  <1> HIDE DEF order
  <1>4. /\ wire' = wire /\ message' = message
        /\ \/ stage' = "refused" /\ refusal' \in Faults
           \/ /\ stage' = "read"
              /\ \A k \in SourceKeys : Right(k)'
              /\ \A k : Right(k) => Right(k)'
              /\ KindRight => KindRight'
    BY <1>1, <1>2, <1>3, DocumentRead
  <1>5. Sendable' /\ Faults' = Faults /\ Parsed'
    BY <1>1, <1>4, WireKept, ParsedKept
  <1> QED BY <1>1, <1>4, <1>5 DEF ReadSoFar

\* What a document left right, the reader of the kind reads as it was said.
LEMMA ReadRight ==
    ASSUME ReadSoFar, stage = "read"
    PROVE  /\ asked["targets"] = Said("targets") /\ asked["links"] = Said("links")
           /\ asked["ports"] = Said("ports")
           /\ \/ asked["kind"] = Text("PortScan") /\ KindSaid = "PORT_SCAN"
              \/ asked["kind"] = Text("Discovery") /\ KindSaid = "DISCOVERY"
              \/ asked["kind"] = Text("Listen") /\ KindSaid = "LISTEN"
  <1>1. KindRight /\ \A k \in RequestKeys : Right(k)
    BY DEF ReadSoFar
  <1>2. \A k \in {"targets", "links", "ports"} : asked[k] = Said(k)
    <2>1. \A k \in {"targets", "links", "ports"} : k \in RequestKeys /\ k \notin LevelKeys
      BY DEF RequestKeys, LevelKeys
    <2> QED BY <1>1, <2>1 DEF Right, Worded, Meant
  <1> QED BY <1>1, <1>2 DEF KindRight

\* A refusal for a fault of the request's.
LEMMA RefuseStep ==
    ASSUME ReadSoFar, NEW code \in Faults, Refuse(code)
    PROVE  ReadSoFar'
  <1>1. wire' = wire /\ stage' = "refused" /\ refusal' \in Faults
    BY DEF Refuse
  <1> QED BY <1>1, WireKept DEF ReadSoFar

\* Taking a request that has what its kind asks for.
LEMMA AcceptStep ==
    ASSUME ReadSoFar, stage = "read", Served, Accept
    PROVE  ReadSoFar'
  <1>1. UNCHANGED <<wire, message, asked>> /\ stage' = "accepted"
    BY DEF Accept
  <1>2. Sendable' /\ Served' /\ Parsed'
    BY <1>1, WireKept, ParsedKept DEF ReadSoFar
  <1>3. KindRight' /\ \A k : Right(k)' <=> Right(k)
    BY <1>1, AskedKept DEF ReadSoFar
  <1> QED BY <1>1, <1>2, <1>3 DEF ReadSoFar

\* The kinds are three.
LEMMA KindsApart ==
    /\ Text("PortScan") # Text("Discovery")
    /\ Text("PortScan") # Text("Listen")
    /\ Text("Discovery") # Text("Listen")
  BY DEF Text

\* The three readers of a kind.
LEMMA PortsStep == ReadSoFar /\ Ports => ReadSoFar'
  <1> SUFFICES ASSUME ReadSoFar, Ports PROVE ReadSoFar'
    OBVIOUS
  <1>1. /\ asked["targets"] = Said("targets") /\ asked["ports"] = Said("ports")
        /\ stage = "read" /\ KindSaid = "PORT_SCAN"
    BY ReadRight, KindsApart DEF Ports
  <1>2. CASE Said("targets") = Null
    BY <1>1, <1>2, FaultsAre, RefuseStep DEF Ports
  <1>3. CASE Said("targets") # Null /\ (Said("ports") = Text("bad") \/ Said("targets") = Text("bad"))
    BY <1>1, <1>3, FaultsAre, RefuseStep DEF Ports
  <1>4. CASE Said("targets") # Null /\ Said("ports") # Text("bad") /\ Said("targets") # Text("bad")
    <2>1. Accept
      BY <1>1, <1>4 DEF Ports
    <2>2. Served
      BY <1>1, <1>4 DEF Served
    <2> QED BY <1>1, <2>1, <2>2, AcceptStep
  <1> QED BY <1>2, <1>3, <1>4

\* A sweep is accepted with what it was asked, and refused for what it lacks.
LEMMA SweepStep == ReadSoFar /\ Sweep => ReadSoFar'
  <1> SUFFICES ASSUME ReadSoFar, Sweep PROVE ReadSoFar'
    OBVIOUS
  <1>1. /\ asked["targets"] = Said("targets") /\ stage = "read" /\ KindSaid = "DISCOVERY"
    BY ReadRight, KindsApart DEF Sweep
  <1>2. CASE Said("targets") = Null
    BY <1>1, <1>2, FaultsAre, RefuseStep DEF Sweep
  <1>3. CASE Said("targets") # Null /\ Said("targets") = Text("bad")
    BY <1>1, <1>3, FaultsAre, RefuseStep DEF Sweep
  <1>4. CASE Said("targets") # Null /\ Said("targets") # Text("bad")
    <2>1. Accept
      BY <1>1, <1>4 DEF Sweep
    <2>2. Served
      BY <1>1, <1>4 DEF Served
    <2> QED BY <1>1, <2>1, <2>2, AcceptStep
  <1> QED BY <1>2, <1>3, <1>4

\* So is a watch of links.
LEMMA WatchStep == ReadSoFar /\ Watch => ReadSoFar'
  <1> SUFFICES ASSUME ReadSoFar, Watch PROVE ReadSoFar'
    OBVIOUS
  <1>1. /\ asked["links"] = Said("links") /\ stage = "read" /\ KindSaid = "LISTEN"
    BY ReadRight, KindsApart DEF Watch
  <1>2. CASE Said("links") = Null
    BY <1>1, <1>2, FaultsAre, RefuseStep DEF Watch
  <1>3. CASE Said("links") # Null /\ Said("links") = Text("bad")
    BY <1>1, <1>3, FaultsAre, RefuseStep DEF Watch
  <1>4. CASE Said("links") # Null /\ Said("links") # Text("bad")
    <2>1. Accept
      BY <1>1, <1>4 DEF Watch
    <2>2. Served
      BY <1>1, <1>4 DEF Served
    <2> QED BY <1>1, <2>1, <2>2, AcceptStep
  <1> QED BY <1>2, <1>3, <1>4

\* A step that changes nothing.
LEMMA NothingRead == ReadSoFar /\ UNCHANGED vars => ReadSoFar'
  <1> SUFFICES ASSUME ReadSoFar, UNCHANGED vars PROVE ReadSoFar'
    OBVIOUS
  <1>1. UNCHANGED <<wire, stage, message, asked, refusal>>
    BY DEF vars
  <1>2. /\ Sendable' = Sendable /\ Served' = Served /\ Faults' = Faults
        /\ Parsed => Parsed'
        /\ KindRight => KindRight'
        /\ \A k : Right(k)' <=> Right(k)
    BY <1>1, WireKept, ParsedKept, AskedKept
  <1> QED BY <1>1, <1>2 DEF ReadSoFar

-----------------------------------------------------------------------------
(* What it comes to.                                                       *)

\* Reading any request there can be, not only those the runs send.
AnySpec == Sendable /\ Unread /\ [][Next]_vars

\* Texts, numbers, a switch and a null are values.
LEMMA ValuesAre ==
    /\ \A t : IsValue(Text(t))
    /\ \A n \in Int : IsValue(Number(n))
    /\ IsValue(Switch) /\ IsValue(Null)
  BY ValuesApart DEF IsValue

\* What the runs send for a key is a value.
LEMMA ProbesAreValues == \A m : \A x \in Probes(m) : IsValue(x)
  <1> SUFFICES ASSUME NEW m, NEW x \in Probes(m) PROVE IsValue(x)
    OBVIOUS
  <1>1. IsValue(Text("good")) /\ IsValue(Text("bad")) /\ IsValue(Wrong(m))
    BY ValuesAre DEF Wrong
  <1>2. x \in {Text("good"), Null, Wrong(m)} \/ x \in Tries(m)
    BY DEF Probes
  <1>3. ASSUME x \in Tries(m), m \in LevelKeys PROVE IsValue(x)
    <2>1. PICK n \in DOMAIN Levels[m].schema \cup {"PARANOID"} : x = Text(n)
      BY <1>3, LevelKeysAre DEF Tries
    <2> QED BY <2>1, ValuesAre
  <1>4. ASSUME x \in Tries(m), m \notin LevelKeys PROVE IsValue(x)
    <2>1. \/ x \in {Text("good"), Text("bad"), Switch}
          \/ \E n \in {-1, 0, MaxU8, MaxU8 + 1, MaxU16, MaxU16 + 1, MaxU32, MaxU32 + 1} :
                x = Number(n)
      BY <1>4, LevelKeysAre DEF Tries
    <2>2. {-1, 0, MaxU8, MaxU8 + 1, MaxU16, MaxU16 + 1, MaxU32, MaxU32 + 1} \subseteq Int
      BY WidthsAssumption
    <2> QED BY <1>1, <2>1, <2>2, ValuesAre
  <1> QED BY <1>1, <1>2, <1>3, <1>4, ValuesAre

\* The requests of the runs are requests.
LEMMA SentIsSendable == Init => Sendable /\ Unread
  <1> SUFFICES ASSUME Init PROVE Sendable
    BY DEF Init
  <1>1. PICK k \in Keys \cup {Unknown}, l \in Keys \cup {Unknown},
             some \in SUBSET {"targets", "links"} :
           \E v \in Probes(k), w \in Probes(l) :
              wire = [key \in {k, l} \cup some |->
                        IF key = k THEN v ELSE IF key = l THEN w ELSE Text("good")]
    BY DEF Init
  <1>2. PICK v \in Probes(k), w \in Probes(l) :
           wire = [key \in {k, l} \cup some |->
                     IF key = k THEN v ELSE IF key = l THEN w ELSE Text("good")]
    BY <1>1
  <1>3. IsValue(v) /\ IsValue(w) /\ IsValue(Text("good"))
    BY ProbesAreValues, ValuesAre
  <1>4. \A key \in DOMAIN wire : IsValue(wire[key])
    BY <1>2, <1>3
  <1> QED BY <1>4 DEF Sendable

\* What has been read so far is right, whatever was sent.
THEOREM AnyReadSoFar == AnySpec => []ReadSoFar
  <1>1. Sendable /\ Unread => ReadSoFar
    BY DEF Unread, ReadSoFar
  <1>2. ReadSoFar /\ [Next]_vars => ReadSoFar'
    BY ParseStep, ReadKindStep, ReadRequestStep, ReadEvasionStep, ReadSettingsStep,
       ReadSourcesStep, PortsStep, SweepStep, WatchStep, NothingRead DEF Next
  <1> QED BY <1>1, <1>2, PTL DEF AnySpec

\* The runs' requests are among them.
THEOREM RunsAreAny == Spec => AnySpec
  BY SentIsSendable, PTL DEF Spec, AnySpec

\* An accepted request is right in every key.
LEMMA ReadIsAsked == ReadSoFar => AskedIsWhatRuns
  <1> SUFFICES ASSUME ReadSoFar, stage = "accepted"
               PROVE  /\ \A k \in Keys : IF k \in DOMAIN Levels \ {"kind"} THEN Asked(k) = SaidOf(k)
                                         ELSE k # "kind" => asked[k] = Said(k)
                      /\ Asked("kind") = IF SaidOf("kind") = Null THEN Text("PORT_SCAN")
                                         ELSE Said("kind")
    BY DEF AskedIsWhatRuns
  <1>1. \A k \in Keys \ {"kind"} : Right(k)
    BY KeysRead DEF ReadSoFar
  <1>2. ASSUME NEW k \in Keys, k \in DOMAIN Levels \ {"kind"} PROVE Asked(k) = SaidOf(k)
    <2>1. k \in LevelKeys /\ Right(k)
      BY <1>1, <1>2, LevelKeysAre
    <2> QED BY <2>1 DEF Right, Worded, Meant, Asked
  <1>3. ASSUME NEW k \in Keys, k \notin DOMAIN Levels \ {"kind"}, k # "kind"
        PROVE  asked[k] = Said(k)
    <2>1. k \notin LevelKeys /\ Right(k)
      BY <1>1, <1>3, LevelKeysAre
    <2> QED BY <2>1 DEF Right, Worded, Meant
  <1>4. KindRight
    BY DEF ReadSoFar
  <1> QED BY <1>2, <1>3, <1>4 DEF KindRight

\* A refused one had its fault, and an accepted one has none.
LEMMA ReadForCause == ReadSoFar => RefusedForCause
  <1> SUFFICES ASSUME ReadSoFar, stage = "accepted" PROVE Faults = {}
    BY DEF ReadSoFar, RefusedForCause
  <1>1. \A k \in Keys \ {"kind"} : Sound(k)
    BY KeysRead DEF ReadSoFar, Right
  <1>2. Served /\ \A k \in DOMAIN wire : Readable(k, wire[k])
    BY DEF ReadSoFar, Parsed
  <1>3. {"detection", "decoys", "spoof_mac", "send_source", "ip_protocols", "ttl", "flags",
         "max_attempts", "source_port", "fragment_mtu", "padding", "max_probe_rate",
         "min_probe_rate", "timeout_scale"} \subseteq Keys \ {"kind"}
    BY KeysRead DEF RequestKeys, EvasionKeys, SettingsKeys, SourceKeys
  <1>4. \A k \in {"detection", "decoys", "spoof_mac", "send_source", "ip_protocols", "ttl",
                  "flags", "max_attempts", "source_port", "fragment_mtu", "padding",
                  "max_probe_rate", "min_probe_rate", "timeout_scale"} : Sound(k)
    BY <1>1, <1>3
  <1>5. /\ "rpc.malformed" \notin Faults
        /\ "request.not_a_ceiling" \notin Faults
        /\ "request.bad_ip_protocol" \notin Faults
        /\ "request.bad_decoy" \notin Faults /\ "request.bad_spoof_mac" \notin Faults
        /\ "request.bad_send_source" \notin Faults
    BY <1>2, <1>4, FaultsAre DEF Sound
  <1>6. "request.out_of_range" \notin Faults
    BY <1>4, FaultsAre DEF Sound
  <1>7. /\ "request.no_targets" \notin Faults /\ "request.no_links" \notin Faults
        /\ "request.unknown_link" \notin Faults /\ "engine" \notin Faults
    BY <1>2, FaultsAre DEF Served
  <1> QED BY <1>5, <1>6, <1>7, FaultsAre

\* Whatever was sent, an accepted request asks the engine for it, key for key.
THEOREM AnyAskedIsWhatRuns == AnySpec => []AskedIsWhatRuns
  BY AnyReadSoFar, ReadIsAsked, PTL

\* The same of the requests a run sends: any two keys of the schema, or one it does
\* not know.
THEOREM SpecAskedIsWhatRuns == Spec => []AskedIsWhatRuns
  BY AnyAskedIsWhatRuns, RunsAreAny, PTL

\* Whatever was sent, it is refused for something that is wrong with it, and
\* accepted if nothing is.
THEOREM AnyRefusedForCause == AnySpec => []RefusedForCause
  BY AnyReadSoFar, ReadForCause, PTL

\* The same of the requests a run sends.
THEOREM SpecRefusedForCause == Spec => []RefusedForCause
  BY AnyRefusedForCause, RunsAreAny, PTL

=============================================================================
