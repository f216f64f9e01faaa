----------------------------- MODULE MCScanLog -----------------------------
(***************************************************************************)
(* Small instances of ScanLog for TLC.                                     *)
(***************************************************************************)
EXTENDS ScanLog, TLC

\* Hosts are interchangeable, and so are clients.
HostSymmetry   == Permutations(Hosts)
ClientSymmetry == Permutations(Hosts) \cup Permutations(Clients)
=============================================================================
