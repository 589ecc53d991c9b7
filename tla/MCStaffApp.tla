----------------------------- MODULE MCStaffApp -----------------------------
(***************************************************************************)
(* The constants of StaffApp that a configuration cannot write down.       *)
(***************************************************************************)
EXTENDS StaffApp, TLC

CONSTANTS m1, m2, t1, t2, p1, p2, g1, g2, c1, r1, r2

\* Two requests, recalculations or runners differ in nothing.
Symmetry == Permutations({r1, r2})

\* Two transfers of one property; an identity with two accounts, one of them shared;
\* a text that finds the property.
matterOfTransfer   == t1 :> m1 @@ t2 :> m2
propertyOfTransfer == t1 :> p1 @@ t2 :> p1
accountsOfIdentity == g1 :> {p1, p2} @@ g2 :> {p2}
matchingText       == c1 :> {p1}

\* What migration directories hold: two files; the first changed; only the second.
Checkouts == {<<1, 1>>, <<2, 1>>, <<0, 1>>}
=============================================================================
