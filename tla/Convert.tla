------------------------------- MODULE Convert -------------------------------
(***************************************************************************)
(* The levels and kinds a request may name, in their three forms: the name *)
(* on the wire, the number the schema gives it and the engine's own value  *)
(* (proto/zond/v1/scan.proto, src/src/codec.rs, src/src/convert.rs).  The  *)
(* code writes each direction out by hand, and so does this module.        *)
(***************************************************************************)
EXTENDS Integers, Functions

\* The schema's enums.  The class DERIVED is the last by its number and the
\* least by what it does.
Kinds   == [UNSPECIFIED |-> 0, DISCOVERY |-> 1, PORT_SCAN |-> 2, LISTEN |-> 3]
Service == [UNSPECIFIED |-> 0, OFF |-> 1, BANNER |-> 2, PROBE |-> 3, THOROUGH |-> 4]
Os      == [UNSPECIFIED |-> 0, OFF |-> 1, PASSIVE |-> 2, ACTIVE |-> 3, AGGRESSIVE |-> 4]
Classes == [UNSPECIFIED |-> 0, PASSIVE |-> 1, ACTIVE_BENIGN |-> 2, ACTIVE_MUTATING |-> 3,
            EXPLOIT |-> 4, DOS |-> 5, DERIVED |-> 6]
Effort  == [UNSPECIFIED |-> 0, SINGLE |-> 1, FAST |-> 2, BALANCED |-> 3, THOROUGH |-> 4]
Tcp     == [UNSPECIFIED |-> 0, SYN |-> 1, ACK |-> 2, FIN |-> 3, NULL |-> 4, XMAS |-> 5,
            MAIMON |-> 6, WINDOW |-> 7]
Sctp    == [UNSPECIFIED |-> 0, INIT |-> 1, COOKIE_ECHO |-> 2]
Modes   == [UNSPECIFIED |-> 0, AUTO |-> 1, ETHERNET |-> 2, RAW_SOCKET |-> 3]

\* What the engine reads a schema's name as; a name that is not here leaves
\* the engine's default standing.
scan_kind_of         == [DISCOVERY |-> "Discovery", PORT_SCAN |-> "PortScan", LISTEN |-> "Listen"]
service_detection_of == [OFF |-> "Off", BANNER |-> "Banner", PROBE |-> "Probe",
                         THOROUGH |-> "Thorough"]
os_detection_of      == [OFF |-> "Off", PASSIVE |-> "Passive", ACTIVE |-> "Active",
                         AGGRESSIVE |-> "Aggressive"]
detection_class_of   == [PASSIVE |-> "Passive", ACTIVE_BENIGN |-> "ActiveBenign",
                         ACTIVE_MUTATING |-> "ActiveMutating", EXPLOIT |-> "Exploit",
                         DOS |-> "Dos"]
scan_effort_of       == [SINGLE |-> "Single", FAST |-> "Fast", BALANCED |-> "Balanced",
                         THOROUGH |-> "Thorough"]
tcp_technique_of     == [SYN |-> "Syn", ACK |-> "Ack", FIN |-> "Fin", NULL |-> "Null",
                         XMAS |-> "Xmas", MAIMON |-> "Maimon", WINDOW |-> "Window"]
sctp_technique_of    == [INIT |-> "Init", COOKIE_ECHO |-> "CookieEcho"]
send_mode_of         == [AUTO |-> "Auto", ETHERNET |-> "Ethernet", RAW_SOCKET |-> "RawSocket"]

\* The schema's name for the engine's value.
scan_kind         == [Discovery |-> "DISCOVERY", PortScan |-> "PORT_SCAN", Listen |-> "LISTEN"]
service_detection == [Off |-> "OFF", Banner |-> "BANNER", Probe |-> "PROBE",
                      Thorough |-> "THOROUGH"]
os_detection      == [Off |-> "OFF", Passive |-> "PASSIVE", Active |-> "ACTIVE",
                      Aggressive |-> "AGGRESSIVE"]
detection_class   == [Passive |-> "PASSIVE", ActiveBenign |-> "ACTIVE_BENIGN",
                      ActiveMutating |-> "ACTIVE_MUTATING", Exploit |-> "EXPLOIT",
                      Dos |-> "DOS"]
scan_effort       == [Single |-> "SINGLE", Fast |-> "FAST", Balanced |-> "BALANCED",
                      Thorough |-> "THOROUGH"]
tcp_technique     == [Syn |-> "SYN", Ack |-> "ACK", Fin |-> "FIN", Null |-> "NULL",
                      Xmas |-> "XMAS", Maimon |-> "MAIMON", Window |-> "WINDOW"]
sctp_technique    == [Init |-> "INIT", CookieEcho |-> "COOKIE_ECHO"]
send_mode         == [Auto |-> "AUTO", Ethernet |-> "ETHERNET", RawSocket |-> "RAW_SOCKET"]

\* The keys of a request that name a level, and what they name one of.
Levels == [kind              |-> [schema |-> Kinds, of |-> scan_kind_of, as |-> scan_kind],
           service_detection |-> [schema |-> Service, of |-> service_detection_of,
                                  as |-> service_detection],
           os_detection      |-> [schema |-> Os, of |-> os_detection_of, as |-> os_detection],
           detection         |-> [schema |-> Classes, of |-> detection_class_of,
                                  as |-> detection_class],
           effort            |-> [schema |-> Effort, of |-> scan_effort_of, as |-> scan_effort],
           tcp_technique     |-> [schema |-> Tcp, of |-> tcp_technique_of, as |-> tcp_technique],
           sctp_technique    |-> [schema |-> Sctp, of |-> sctp_technique_of,
                                  as |-> sctp_technique],
           send_mode         |-> [schema |-> Modes, of |-> send_mode_of, as |-> send_mode]]

\* from_str_name, and try_from back.
NumberOf(k, name) == Levels[k].schema[name]
NameOf(k, number) == CHOOSE name \in DOMAIN Levels[k].schema : NumberOf(k, name) = number

\* Every class but DERIVED.
is_a_ceiling(name) == name # "DERIVED"

=============================================================================
