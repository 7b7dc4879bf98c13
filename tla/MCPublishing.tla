---------------------------- MODULE MCPublishing ----------------------------
(***************************************************************************)
(* Instance of Publishing for TLC: two titles, one of them that of imports *)
(* before they are given theirs.                                           *)
(***************************************************************************)
EXTENDS Publishing, TLC

CONSTANTS untitled, essay, u1, e1, e2

MCTitle == {untitled, essay}
MCSlug == {u1, e1, e2}

\* "essay" and "essay-2"; all but the first of the untitled ones are left out,
\* so that running out of suffixes happens too.
MCSlugsOf == untitled :> <<u1>> @@ essay :> <<e1, e2>>

\* Documents, requests and texts are interchangeable.
Symmetry == Permutations(Document) \cup Permutations(Writer) \cup Permutations(Text)
=============================================================================
