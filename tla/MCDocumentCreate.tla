-------------------------- MODULE MCDocumentCreate --------------------------
(* Instances of DocumentCreate for TLC. *)
EXTENDS DocumentCreate, TLC

Symmetry == Permutations(Request) \cup Permutations(Key) \cup Permutations(Payload)
=============================================================================
