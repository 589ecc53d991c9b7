--------------------------- MODULE MCDocumentLane ---------------------------
(***************************************************************************)
(* Instances of DocumentLane for TLC.  An attempt per handler and one for  *)
(* a dead owner are all the UUIDs that can be held at once, so that Fresh  *)
(* is never empty when a handler claims.                                   *)
(***************************************************************************)
EXTENDS DocumentLane, TLC

Symmetry == Permutations(Handler) \cup Permutations(File) \cup Permutations(Attempt)

ASSUME EnoughAttempts == Cardinality(Attempt) > Cardinality(Handler)
=============================================================================
