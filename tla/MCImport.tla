------------------------------ MODULE MCImport ------------------------------
(***************************************************************************)
(* Import for TLC: every text of up to MaxPieces pieces, each a bracket, a *)
(* word, a whole reference or the beginning of one, and every cut of it    *)
(* into front matter and body.                                             *)
(***************************************************************************)
EXTENDS Import
=============================================================================
