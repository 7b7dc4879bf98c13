------------------------------ MODULE MCBackup ------------------------------
(***************************************************************************)
(* Instance of Backup for TLC.                                             *)
(***************************************************************************)
EXTENDS Backup, TLC

\* Disk names are interchangeable.
Symmetry == Permutations(Media)
=============================================================================
