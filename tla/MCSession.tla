----------------------------- MODULE MCSession -----------------------------
(* Two tabs of one browser. *)
EXTENDS Session, TLC

Symmetry == Permutations(Tab) \cup Permutations(Sid) \cup Permutations(Principal)
=============================================================================
