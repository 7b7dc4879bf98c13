---------------------------- MODULE MCDashboards ----------------------------
(***************************************************************************)
(* Instance of Dashboards for TLC.                                         *)
(***************************************************************************)
EXTENDS Dashboards, TLC

CONSTANTS first, second, p1, p2, p3, top, end

\* Two page loads of one article and one of another.
TwoAndOne == p1 :> first @@ p2 :> first @@ p3 :> second

\* The article with and without its first block.
TopOrNot == {<<top, end>>, <<end>>}

\* The page loads of the first article are alike.
Symmetry == Permutations({p1, p2})
=============================================================================
