--------------------------- MODULE MCZerodhaClose ---------------------------
(* ZerodhaClose for TLC. *)
EXTENDS ZerodhaClose, TLC

Symmetry == Permutations(Clicks)

\* "An EXIT with no opposing broker position opens new exposure instead of
\* closing. Require enough net inventory": no close ever sells below flat.
ExitsOnlyReduce == \A l \in Legs : pos[l] >= 0
=============================================================================
