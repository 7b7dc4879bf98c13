------------------------------ MODULE MCSaving ------------------------------
(***************************************************************************)
(* Instance of Saving for TLC.                                             *)
(***************************************************************************)
EXTENDS Saving, TLC

\* Tabs and contents are interchangeable.
Symmetry == Permutations(Tab) \cup Permutations(Content) \cup Permutations(Kind)
=============================================================================
