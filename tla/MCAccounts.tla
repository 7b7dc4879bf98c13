----------------------------- MODULE MCAccounts -----------------------------
(***************************************************************************)
(* Instance of Accounts for TLC.                                           *)
(***************************************************************************)
EXTENDS Accounts, TLC

\* Visitors, requests and tokens are interchangeable.
Symmetry == Permutations(Person) \cup Permutations(Request) \cup Permutations(Token)
=============================================================================
