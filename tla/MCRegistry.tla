----------------------------- MODULE MCRegistry -----------------------------
(***************************************************************************)
(* Registry for the model checker.  No action, and no property of the runs *)
(* of this module, tells one name or one sitting from another, and the     *)
(* properties are of safety alone: either set may be permuted.             *)
(***************************************************************************)
EXTENDS Registry, TLC

Alike == Permutations(Names) \cup Permutations(Sittings)

=============================================================================
