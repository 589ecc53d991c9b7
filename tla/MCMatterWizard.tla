--------------------------- MODULE MCMatterWizard ---------------------------
(* Symmetry for the safety checks of MatterWizard. *)
EXTENDS MatterWizard, TLC

Symmetry == Permutations(Card)
=============================================================================
