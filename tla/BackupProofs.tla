---------------------------- MODULE BackupProofs ----------------------------
(***************************************************************************)
(* Proofs about Backup, for every number of uploads and of versions.       *)
(*                                                                         *)
(* What carries the argument: a copy of the database is never ahead of the *)
(* files beside it, on its way from the live database through a draft and  *)
(* an archive back to a live database; a schema never goes back, so that   *)
(* a manifest that names the current one cannot be too old; and no server  *)
(* runs, and so nothing is committed, from the opening of a restore to its *)
(* end.                                                                    *)
(***************************************************************************)
EXTENDS Backup, TLAPS

\* The file of m is there, and whole unless a restore replaced it.
Resolved(m) == disk[m] = "whole" \/ (disk[m] = "torn" /\ m \in overwritten)

\* The same of a copy.
ResolvedIn(copy) ==
  \A m \in copy.rows : copy.media[m] = "whole" \/ (copy.media[m] = "torn" /\ m \in overwritten)

Dated(copy) == copy.schema <= copy.version /\ copy.version <= version

\* Nothing is in flight without a server, nor while a restore runs.
Quiet ==
  /\ ~serving => \A m \in Media : uploads[m] \notin InFlight
  /\ step \in Restoring => ~serving

\* A row, in whatever copy, is that of a finished upload.
RowsAreUploaded ==
  \A m \in Live \cup draft.rows \cup archive.rows : uploads[m] = "done"

FilesAreWritten ==
  /\ \A m \in Media : uploads[m] = "recording" => disk[m] = "whole"
  /\ \A m \in Live : Resolved(m)

CopiesResolve ==
  /\ step = "inventory" => \A m \in draft.rows : Resolved(m)
  /\ step \in {"seal", "write"} => ResolvedIn(draft)
  /\ ResolvedIn(archive)
  /\ step \in {"check", "created", "media", "unlog", "swap", "restored"} => archive.sealed

\* What a restore is about to put into place.
PlacedResolves ==
  /\ step = "media" => \A m \in archive.rows : m \in todo \/ Resolved(m)
  /\ step = "media" => \A m \in todo : archive.media[m] # "absent"
  /\ step \in {"unlog", "swap"} => \A m \in archive.rows : Resolved(m)

VersionsAreMonotone ==
  /\ version <= binary
  /\ step = "snapshot" => draft.schema <= version
  /\ step \in {"inventory", "seal", "write"} => Dated(draft)
  /\ archive.sealed => Dated(archive)
  /\ step \in {"media", "unlog", "swap", "restored"} => archive.schema = version
  /\ step = "created" => archive.schema = archive.version

CommittedIsKept ==
  /\ NothingIsLost
  /\ step \in {"unlog", "swap"} => \A m \in committed : \E b \in rollbacks : m \in b

Swapped ==
  /\ step = "swap" => wal = {}
  /\ step = "restored" => Live = archive.rows

IInv ==
  /\ TypeOK
  /\ Quiet
  /\ RowsAreUploaded
  /\ FilesAreWritten
  /\ CopiesResolve
  /\ PlacedResolves
  /\ VersionsAreMonotone
  /\ CommittedIsKept
  /\ Swapped

-----------------------------------------------------------------------------
(***************************************************************************)
(* Each part of the invariant, step by step.                               *)
(***************************************************************************)

LEMMA BlankIsArchive == Blank \in Archive /\ ~Blank.sealed
  BY VersionAssumption DEF Blank, Archive, Version, Content

\* Every step keeps the types.
LEMMA TypesNext ==
  ASSUME TypeOK, [Next]_vars
  PROVE  TypeOK'
<1> USE VersionAssumption DEF vars, machineVars, liveVars, serverVars, toolVars, TypeOK,
           Archive, Content, Version, Creating, Restoring
<1>1. CASE Start
  BY <1>1 DEF Start
<1>2. CASE Stop
  BY <1>2 DEF Stop, InFlight
<1>3. CASE Checkpoint
  BY <1>3 DEF Checkpoint
<1>4. CASE Upgrade
  BY <1>4 DEF Upgrade
<1>5. CASE LoseMachine
  BY <1>5 DEF LoseMachine
<1>6. CASE BeginCreate
  BY BlankIsArchive, <1>6 DEF BeginCreate, SchemaRead, Blank
<1>7. CASE Snapshot
  BY <1>7 DEF Snapshot, Live
<1>8. CASE Inventory
  BY <1>8 DEF Inventory
<1>9. CASE BeginArchive
  BY <1>9 DEF BeginArchive, Blank
<1>10. CASE FinishArchive
  BY <1>10 DEF FinishArchive
<1>11. CASE CheckOwn
  BY <1>11 DEF CheckOwn, Verified
<1>12. CASE OpenForRestore
  BY <1>12 DEF OpenForRestore
<1>13. CASE BeginRestore
  BY <1>13 DEF BeginRestore, Verified
<1>14. CASE Preserve
  BY <1>14 DEF Preserve, RollbackRows, Live
<1>15. CASE RemoveLog
  BY <1>15 DEF RemoveLog, LogAfterRemoval
<1>16. CASE Swap
  BY <1>16 DEF Swap
<1>17. CASE Exit
  BY <1>17 DEF Exit, Blank
<1>18. ASSUME NEW m \in Media, BeginUpload(m) PROVE TypeOK'
  BY <1>18 DEF BeginUpload
<1>19. ASSUME NEW m \in Media, FinishFile(m) PROVE TypeOK'
  BY <1>19 DEF FinishFile
<1>20. ASSUME NEW m \in Media, Record(m) PROVE TypeOK'
  BY <1>20 DEF Record, Recordable
<1>21. ASSUME NEW m \in Media, FailUpload(m) PROVE TypeOK'
  BY <1>21 DEF FailUpload, InFlight
<1>22. ASSUME NEW m \in Media, RestoreFile(m) PROVE TypeOK'
  BY <1>22 DEF RestoreFile
<1>23. CASE UNCHANGED vars
  BY <1>23
<1> QED BY <1>1, <1>2, <1>3, <1>4, <1>5, <1>6, <1>7, <1>8, <1>9, <1>10, <1>11, <1>12,
           <1>13, <1>14, <1>15, <1>16, <1>17, <1>18, <1>19, <1>20, <1>21, <1>22, <1>23
           DEF Next

\* Only a server starts uploads, and it is stopped before a restore.
LEMMA QuietNext ==
  ASSUME TypeOK, Quiet, [Next]_vars
  PROVE  Quiet'
<1> USE DEF vars, machineVars, liveVars, serverVars, toolVars, Quiet, InFlight,
           Creating, Restoring, TypeOK
<1>1. CASE Start
  BY <1>1 DEF Start
<1>2. CASE Stop
  BY <1>2 DEF Stop, InFlight
<1>3. CASE Checkpoint
  BY <1>3 DEF Checkpoint
<1>4. CASE Upgrade
  BY <1>4 DEF Upgrade
<1>5. CASE LoseMachine
  BY <1>5 DEF LoseMachine
<1>6. CASE BeginCreate
  BY <1>6 DEF BeginCreate, SchemaRead, Blank
<1>7. CASE Snapshot
  BY <1>7 DEF Snapshot, Live
<1>8. CASE Inventory
  BY <1>8 DEF Inventory
<1>9. CASE BeginArchive
  BY <1>9 DEF BeginArchive, Blank
<1>10. CASE FinishArchive
  BY <1>10 DEF FinishArchive
<1>11. CASE CheckOwn
  BY <1>11 DEF CheckOwn, Verified
<1>12. CASE OpenForRestore
  BY <1>12 DEF OpenForRestore
<1>13. CASE BeginRestore
  BY <1>13 DEF BeginRestore, Verified
<1>14. CASE Preserve
  BY <1>14 DEF Preserve, RollbackRows
<1>15. CASE RemoveLog
  BY <1>15 DEF RemoveLog, LogAfterRemoval
<1>16. CASE Swap
  BY <1>16 DEF Swap
<1>17. CASE Exit
  BY <1>17 DEF Exit, Blank
<1>18. ASSUME NEW m \in Media, BeginUpload(m) PROVE Quiet'
  BY <1>18 DEF BeginUpload
<1>19. ASSUME NEW m \in Media, FinishFile(m) PROVE Quiet'
  BY <1>19 DEF FinishFile
<1>20. ASSUME NEW m \in Media, Record(m) PROVE Quiet'
  BY <1>20 DEF Record, Recordable
<1>21. ASSUME NEW m \in Media, FailUpload(m) PROVE Quiet'
  BY <1>21 DEF FailUpload, InFlight
<1>22. ASSUME NEW m \in Media, RestoreFile(m) PROVE Quiet'
  BY <1>22 DEF RestoreFile
<1>23. CASE UNCHANGED vars
  BY <1>23
<1> QED BY <1>1, <1>2, <1>3, <1>4, <1>5, <1>6, <1>7, <1>8, <1>9, <1>10, <1>11, <1>12,
           <1>13, <1>14, <1>15, <1>16, <1>17, <1>18, <1>19, <1>20, <1>21, <1>22, <1>23
           DEF Next

\* Rows are copied from the live database, and only finished uploads commit there.
LEMMA RowsNext ==
  ASSUME TypeOK, Quiet, RowsAreUploaded, [Next]_vars
  PROVE  RowsAreUploaded'
<1> USE DEF vars, machineVars, liveVars, serverVars, toolVars, RowsAreUploaded, Quiet,
           Live, InFlight, TypeOK, Archive, Content, Version, Creating, Restoring
<1>1. CASE Start
  BY <1>1 DEF Start
<1>2. CASE Stop
  BY <1>2 DEF Stop, InFlight
<1>3. CASE Checkpoint
  BY <1>3 DEF Checkpoint
<1>4. CASE Upgrade
  BY <1>4 DEF Upgrade
<1>5. CASE LoseMachine
  BY <1>5 DEF LoseMachine
<1>6. CASE BeginCreate
  BY <1>6 DEF BeginCreate, SchemaRead, Blank
<1>7. CASE Snapshot
  BY <1>7 DEF Snapshot, Live
<1>8. CASE Inventory
  BY <1>8 DEF Inventory
<1>9. CASE BeginArchive
  BY <1>9 DEF BeginArchive, Blank
<1>10. CASE FinishArchive
  BY <1>10 DEF FinishArchive
<1>11. CASE CheckOwn
  BY <1>11 DEF CheckOwn, Verified
<1>12. CASE OpenForRestore
  BY <1>12 DEF OpenForRestore
<1>13. CASE BeginRestore
  BY <1>13 DEF BeginRestore, Verified
<1>14. CASE Preserve
  BY <1>14 DEF Preserve, RollbackRows
<1>15. CASE RemoveLog
  BY <1>15 DEF RemoveLog, LogAfterRemoval
<1>16. CASE Swap
  BY <1>16 DEF Swap
<1>17. CASE Exit
  BY <1>17 DEF Exit, Blank
<1>18. ASSUME NEW m \in Media, BeginUpload(m) PROVE RowsAreUploaded'
  BY <1>18 DEF BeginUpload
<1>19. ASSUME NEW m \in Media, FinishFile(m) PROVE RowsAreUploaded'
  BY <1>19 DEF FinishFile
<1>20. ASSUME NEW m \in Media, Record(m) PROVE RowsAreUploaded'
  BY <1>20 DEF Record, Recordable
<1>21. ASSUME NEW m \in Media, FailUpload(m) PROVE RowsAreUploaded'
  BY <1>21 DEF FailUpload, InFlight
<1>22. ASSUME NEW m \in Media, RestoreFile(m) PROVE RowsAreUploaded'
  BY <1>22 DEF RestoreFile
<1>23. CASE UNCHANGED vars
  BY <1>23
<1> QED BY <1>1, <1>2, <1>3, <1>4, <1>5, <1>6, <1>7, <1>8, <1>9, <1>10, <1>11, <1>12,
           <1>13, <1>14, <1>15, <1>16, <1>17, <1>18, <1>19, <1>20, <1>21, <1>22, <1>23
           DEF Next

\* A file is replaced only by a restore, which notes what it made less of.
LEMMA FilesNext ==
  ASSUME TypeOK, Quiet, RowsAreUploaded, FilesAreWritten, PlacedResolves, [Next]_vars
  PROVE  FilesAreWritten'
<1> USE DEF vars, machineVars, liveVars, serverVars, toolVars, FilesAreWritten,
           PlacedResolves, RowsAreUploaded, Resolved, Quiet, Live, InFlight, TypeOK,
           Archive, Content, Version, Creating, Restoring
<1>1. CASE Start
  BY <1>1 DEF Start
<1>2. CASE Stop
  BY <1>2 DEF Stop, InFlight
<1>3. CASE Checkpoint
  BY <1>3 DEF Checkpoint
<1>4. CASE Upgrade
  BY <1>4 DEF Upgrade
<1>5. CASE LoseMachine
  BY <1>5 DEF LoseMachine
<1>6. CASE BeginCreate
  BY <1>6 DEF BeginCreate, SchemaRead, Blank
<1>7. CASE Snapshot
  BY <1>7 DEF Snapshot, Live
<1>8. CASE Inventory
  BY <1>8 DEF Inventory
<1>9. CASE BeginArchive
  BY <1>9 DEF BeginArchive, Blank
<1>10. CASE FinishArchive
  BY <1>10 DEF FinishArchive
<1>11. CASE CheckOwn
  BY <1>11 DEF CheckOwn, Verified
<1>12. CASE OpenForRestore
  BY <1>12 DEF OpenForRestore
<1>13. CASE BeginRestore
  BY <1>13 DEF BeginRestore, Verified
<1>14. CASE Preserve
  BY <1>14 DEF Preserve, RollbackRows
<1>15. CASE RemoveLog
  BY <1>15 DEF RemoveLog, LogAfterRemoval
<1>16. CASE Swap
  BY <1>16 DEF Swap
<1>17. CASE Exit
  BY <1>17 DEF Exit, Blank
<1>18. ASSUME NEW m \in Media, BeginUpload(m) PROVE FilesAreWritten'
  BY <1>18 DEF BeginUpload
<1>19. ASSUME NEW m \in Media, FinishFile(m) PROVE FilesAreWritten'
  BY <1>19 DEF FinishFile
<1>20. ASSUME NEW m \in Media, Record(m) PROVE FilesAreWritten'
  BY <1>20 DEF Record, Recordable
<1>21. ASSUME NEW m \in Media, FailUpload(m) PROVE FilesAreWritten'
  BY <1>21 DEF FailUpload, InFlight
<1>22. ASSUME NEW m \in Media, RestoreFile(m) PROVE FilesAreWritten'
  BY <1>22 DEF RestoreFile
<1>23. CASE UNCHANGED vars
  BY <1>23
<1> QED BY <1>1, <1>2, <1>3, <1>4, <1>5, <1>6, <1>7, <1>8, <1>9, <1>10, <1>11, <1>12,
           <1>13, <1>14, <1>15, <1>16, <1>17, <1>18, <1>19, <1>20, <1>21, <1>22, <1>23
           DEF Next

\* A draft takes its files after its rows, and an archive is a draft.
LEMMA CopiesNext ==
  ASSUME TypeOK, Quiet, RowsAreUploaded, FilesAreWritten, CopiesResolve, [Next]_vars
  PROVE  CopiesResolve'
<1> USE DEF vars, machineVars, liveVars, serverVars, toolVars, CopiesResolve,
           FilesAreWritten, RowsAreUploaded, Resolved, ResolvedIn, Quiet, Live, TypeOK,
           Archive, Content, Version, Creating, Restoring
<1>1. CASE Start
  BY <1>1 DEF Start
<1>2. CASE Stop
  BY <1>2 DEF Stop, InFlight
<1>3. CASE Checkpoint
  BY <1>3 DEF Checkpoint
<1>4. CASE Upgrade
  BY <1>4 DEF Upgrade
<1>5. CASE LoseMachine
  BY <1>5 DEF LoseMachine
<1>6. CASE BeginCreate
  BY <1>6 DEF BeginCreate, SchemaRead, Blank
<1>7. CASE Snapshot
  BY <1>7 DEF Snapshot, Live
<1>8. CASE Inventory
  BY <1>8 DEF Inventory
<1>9. CASE BeginArchive
  BY <1>9 DEF BeginArchive, Blank
<1>10. CASE FinishArchive
  BY <1>10 DEF FinishArchive
<1>11. CASE CheckOwn
  BY <1>11 DEF CheckOwn, Verified
<1>12. CASE OpenForRestore
  BY <1>12 DEF OpenForRestore
<1>13. CASE BeginRestore
  BY <1>13 DEF BeginRestore, Verified
<1>14. CASE Preserve
  BY <1>14 DEF Preserve, RollbackRows
<1>15. CASE RemoveLog
  BY <1>15 DEF RemoveLog, LogAfterRemoval
<1>16. CASE Swap
  BY <1>16 DEF Swap
<1>17. CASE Exit
  BY <1>17 DEF Exit, Blank
<1>18. ASSUME NEW m \in Media, BeginUpload(m) PROVE CopiesResolve'
  BY <1>18 DEF BeginUpload
<1>19. ASSUME NEW m \in Media, FinishFile(m) PROVE CopiesResolve'
  BY <1>19 DEF FinishFile
<1>20. ASSUME NEW m \in Media, Record(m) PROVE CopiesResolve'
  BY <1>20 DEF Record, Recordable
<1>21. ASSUME NEW m \in Media, FailUpload(m) PROVE CopiesResolve'
  BY <1>21 DEF FailUpload, InFlight
<1>22. ASSUME NEW m \in Media, RestoreFile(m) PROVE CopiesResolve'
  BY <1>22 DEF RestoreFile
<1>23. CASE UNCHANGED vars
  BY <1>23
<1> QED BY <1>1, <1>2, <1>3, <1>4, <1>5, <1>6, <1>7, <1>8, <1>9, <1>10, <1>11, <1>12,
           <1>13, <1>14, <1>15, <1>16, <1>17, <1>18, <1>19, <1>20, <1>21, <1>22, <1>23
           DEF Next

\* The files of an archive are all written before its rows are put into place.
LEMMA PlacedNext ==
  ASSUME TypeOK, Quiet, RowsAreUploaded, CopiesResolve, PlacedResolves, [Next]_vars
  PROVE  PlacedResolves'
<1> USE DEF vars, machineVars, liveVars, serverVars, toolVars, PlacedResolves,
           CopiesResolve, RowsAreUploaded, Resolved, ResolvedIn, Quiet, Live, InFlight,
           TypeOK, Archive, Content, Version, Creating, Restoring
<1>1. CASE Start
  BY <1>1 DEF Start
<1>2. CASE Stop
  BY <1>2 DEF Stop, InFlight
<1>3. CASE Checkpoint
  BY <1>3 DEF Checkpoint
<1>4. CASE Upgrade
  BY <1>4 DEF Upgrade
<1>5. CASE LoseMachine
  BY <1>5 DEF LoseMachine
<1>6. CASE BeginCreate
  BY <1>6 DEF BeginCreate, SchemaRead, Blank
<1>7. CASE Snapshot
  BY <1>7 DEF Snapshot, Live
<1>8. CASE Inventory
  BY <1>8 DEF Inventory
<1>9. CASE BeginArchive
  BY <1>9 DEF BeginArchive, Blank
<1>10. CASE FinishArchive
  BY <1>10 DEF FinishArchive
<1>11. CASE CheckOwn
  BY <1>11 DEF CheckOwn, Verified
<1>12. CASE OpenForRestore
  BY <1>12 DEF OpenForRestore
<1>13. CASE BeginRestore
  BY <1>13 DEF BeginRestore, Verified
<1>14. CASE Preserve
  BY <1>14 DEF Preserve, RollbackRows
<1>15. CASE RemoveLog
  BY <1>15 DEF RemoveLog, LogAfterRemoval
<1>16. CASE Swap
  BY <1>16 DEF Swap
<1>17. CASE Exit
  BY <1>17 DEF Exit, Blank
<1>18. ASSUME NEW m \in Media, BeginUpload(m) PROVE PlacedResolves'
  BY <1>18 DEF BeginUpload
<1>19. ASSUME NEW m \in Media, FinishFile(m) PROVE PlacedResolves'
  BY <1>19 DEF FinishFile
<1>20. ASSUME NEW m \in Media, Record(m) PROVE PlacedResolves'
  BY <1>20 DEF Record, Recordable
<1>21. ASSUME NEW m \in Media, FailUpload(m) PROVE PlacedResolves'
  BY <1>21 DEF FailUpload, InFlight
<1>22. ASSUME NEW m \in Media, RestoreFile(m) PROVE PlacedResolves'
  BY <1>22 DEF RestoreFile
<1>23. CASE UNCHANGED vars
  BY <1>23
<1> QED BY <1>1, <1>2, <1>3, <1>4, <1>5, <1>6, <1>7, <1>8, <1>9, <1>10, <1>11, <1>12,
           <1>13, <1>14, <1>15, <1>16, <1>17, <1>18, <1>19, <1>20, <1>21, <1>22, <1>23
           DEF Next

\* A migration only ever raises the schema; a restore puts back the current one.
LEMMA VersionsNext ==
  ASSUME TypeOK, Quiet, CopiesResolve, VersionsAreMonotone, [Next]_vars
  PROVE  VersionsAreMonotone'
<1> USE VersionAssumption DEF vars, machineVars, liveVars, serverVars, toolVars,
           VersionsAreMonotone, CopiesResolve, Dated, Quiet, TypeOK, Archive, Content,
           Version, Creating, Restoring
<1>1. CASE Start
  BY <1>1 DEF Start
<1>2. CASE Stop
  BY <1>2 DEF Stop, InFlight
<1>3. CASE Checkpoint
  BY <1>3 DEF Checkpoint
<1>4. CASE Upgrade
  BY <1>4 DEF Upgrade
<1>5. CASE LoseMachine
  BY <1>5 DEF LoseMachine
<1>6. CASE BeginCreate
  BY <1>6 DEF BeginCreate, SchemaRead, Blank
<1>7. CASE Snapshot
  BY <1>7 DEF Snapshot, Live
<1>8. CASE Inventory
  BY <1>8 DEF Inventory
<1>9. CASE BeginArchive
  BY <1>9 DEF BeginArchive, Blank
<1>10. CASE FinishArchive
  BY <1>10 DEF FinishArchive
<1>11. CASE CheckOwn
  BY <1>11 DEF CheckOwn, Verified
<1>12. CASE OpenForRestore
  BY <1>12 DEF OpenForRestore
<1>13. CASE BeginRestore
  BY <1>13 DEF BeginRestore, Verified
<1>14. CASE Preserve
  BY <1>14 DEF Preserve, RollbackRows
<1>15. CASE RemoveLog
  BY <1>15 DEF RemoveLog, LogAfterRemoval
<1>16. CASE Swap
  BY <1>16 DEF Swap
<1>17. CASE Exit
  BY <1>17 DEF Exit, Blank
<1>18. ASSUME NEW m \in Media, BeginUpload(m) PROVE VersionsAreMonotone'
  BY <1>18 DEF BeginUpload
<1>19. ASSUME NEW m \in Media, FinishFile(m) PROVE VersionsAreMonotone'
  BY <1>19 DEF FinishFile
<1>20. ASSUME NEW m \in Media, Record(m) PROVE VersionsAreMonotone'
  BY <1>20 DEF Record, Recordable
<1>21. ASSUME NEW m \in Media, FailUpload(m) PROVE VersionsAreMonotone'
  BY <1>21 DEF FailUpload, InFlight
<1>22. ASSUME NEW m \in Media, RestoreFile(m) PROVE VersionsAreMonotone'
  BY <1>22 DEF RestoreFile
<1>23. CASE UNCHANGED vars
  BY <1>23
<1> QED BY <1>1, <1>2, <1>3, <1>4, <1>5, <1>6, <1>7, <1>8, <1>9, <1>10, <1>11, <1>12,
           <1>13, <1>14, <1>15, <1>16, <1>17, <1>18, <1>19, <1>20, <1>21, <1>22, <1>23
           DEF Next

\* The rollback is taken before the log is removed, and nothing commits after.
LEMMA KeptNext ==
  ASSUME TypeOK, Quiet, CommittedIsKept, [Next]_vars
  PROVE  CommittedIsKept'
<1> USE DEF vars, machineVars, liveVars, serverVars, toolVars, CommittedIsKept,
           NothingIsLost, Live, Quiet, InFlight, TypeOK, Archive, Content, Version,
           Creating, Restoring
<1>1. CASE Start
  BY <1>1 DEF Start
<1>2. CASE Stop
  BY <1>2 DEF Stop, InFlight
<1>3. CASE Checkpoint
  BY <1>3 DEF Checkpoint
<1>4. CASE Upgrade
  BY <1>4 DEF Upgrade
<1>5. CASE LoseMachine
  BY <1>5 DEF LoseMachine
<1>6. CASE BeginCreate
  BY <1>6 DEF BeginCreate, SchemaRead, Blank
<1>7. CASE Snapshot
  BY <1>7 DEF Snapshot, Live
<1>8. CASE Inventory
  BY <1>8 DEF Inventory
<1>9. CASE BeginArchive
  BY <1>9 DEF BeginArchive, Blank
<1>10. CASE FinishArchive
  BY <1>10 DEF FinishArchive
<1>11. CASE CheckOwn
  BY <1>11 DEF CheckOwn, Verified
<1>12. CASE OpenForRestore
  BY <1>12 DEF OpenForRestore
<1>13. CASE BeginRestore
  BY <1>13 DEF BeginRestore, Verified
<1>14. CASE Preserve
  BY <1>14 DEF Preserve, RollbackRows
<1>15. CASE RemoveLog
  BY <1>15 DEF RemoveLog, LogAfterRemoval
<1>16. CASE Swap
  BY <1>16 DEF Swap
<1>17. CASE Exit
  BY <1>17 DEF Exit, Blank
<1>18. ASSUME NEW m \in Media, BeginUpload(m) PROVE CommittedIsKept'
  BY <1>18 DEF BeginUpload
<1>19. ASSUME NEW m \in Media, FinishFile(m) PROVE CommittedIsKept'
  BY <1>19 DEF FinishFile
<1>20. ASSUME NEW m \in Media, Record(m) PROVE CommittedIsKept'
  BY <1>20 DEF Record, Recordable
<1>21. ASSUME NEW m \in Media, FailUpload(m) PROVE CommittedIsKept'
  BY <1>21 DEF FailUpload, InFlight
<1>22. ASSUME NEW m \in Media, RestoreFile(m) PROVE CommittedIsKept'
  BY <1>22 DEF RestoreFile
<1>23. CASE UNCHANGED vars
  BY <1>23
<1> QED BY <1>1, <1>2, <1>3, <1>4, <1>5, <1>6, <1>7, <1>8, <1>9, <1>10, <1>11, <1>12,
           <1>13, <1>14, <1>15, <1>16, <1>17, <1>18, <1>19, <1>20, <1>21, <1>22, <1>23
           DEF Next

\* Between the removal of the log and the end of the restore nothing writes one.
LEMMA SwapNext ==
  ASSUME TypeOK, Quiet, Swapped, [Next]_vars
  PROVE  Swapped'
<1> USE DEF vars, machineVars, liveVars, serverVars, toolVars, Swapped, Live, Quiet,
           InFlight, TypeOK, Archive, Content, Version, Creating, Restoring
<1>1. CASE Start
  BY <1>1 DEF Start
<1>2. CASE Stop
  BY <1>2 DEF Stop, InFlight
<1>3. CASE Checkpoint
  BY <1>3 DEF Checkpoint
<1>4. CASE Upgrade
  BY <1>4 DEF Upgrade
<1>5. CASE LoseMachine
  BY <1>5 DEF LoseMachine
<1>6. CASE BeginCreate
  BY <1>6 DEF BeginCreate, SchemaRead, Blank
<1>7. CASE Snapshot
  BY <1>7 DEF Snapshot, Live
<1>8. CASE Inventory
  BY <1>8 DEF Inventory
<1>9. CASE BeginArchive
  BY <1>9 DEF BeginArchive, Blank
<1>10. CASE FinishArchive
  BY <1>10 DEF FinishArchive
<1>11. CASE CheckOwn
  BY <1>11 DEF CheckOwn, Verified
<1>12. CASE OpenForRestore
  BY <1>12 DEF OpenForRestore
<1>13. CASE BeginRestore
  BY <1>13 DEF BeginRestore, Verified
<1>14. CASE Preserve
  BY <1>14 DEF Preserve, RollbackRows
<1>15. CASE RemoveLog
  BY <1>15 DEF RemoveLog, LogAfterRemoval
<1>16. CASE Swap
  BY <1>16 DEF Swap
<1>17. CASE Exit
  BY <1>17 DEF Exit, Blank
<1>18. ASSUME NEW m \in Media, BeginUpload(m) PROVE Swapped'
  BY <1>18 DEF BeginUpload
<1>19. ASSUME NEW m \in Media, FinishFile(m) PROVE Swapped'
  BY <1>19 DEF FinishFile
<1>20. ASSUME NEW m \in Media, Record(m) PROVE Swapped'
  BY <1>20 DEF Record, Recordable
<1>21. ASSUME NEW m \in Media, FailUpload(m) PROVE Swapped'
  BY <1>21 DEF FailUpload, InFlight
<1>22. ASSUME NEW m \in Media, RestoreFile(m) PROVE Swapped'
  BY <1>22 DEF RestoreFile
<1>23. CASE UNCHANGED vars
  BY <1>23
<1> QED BY <1>1, <1>2, <1>3, <1>4, <1>5, <1>6, <1>7, <1>8, <1>9, <1>10, <1>11, <1>12,
           <1>13, <1>14, <1>15, <1>16, <1>17, <1>18, <1>19, <1>20, <1>21, <1>22, <1>23
           DEF Next

-----------------------------------------------------------------------------

LEMMA InvariantInit == Init => IInv
<1> SUFFICES ASSUME Init PROVE IInv
  OBVIOUS
<1>1. TypeOK
  BY VersionAssumption, BlankIsArchive DEF Init, TypeOK, Version, Content, Archive, Blank
<1>2. Quiet /\ RowsAreUploaded /\ FilesAreWritten /\ CopiesResolve /\ PlacedResolves
  BY BlankIsArchive DEF Init, Quiet, RowsAreUploaded, FilesAreWritten, CopiesResolve, PlacedResolves,
     ResolvedIn, Live, Blank, InFlight, Restoring
<1>3. VersionsAreMonotone /\ CommittedIsKept /\ Swapped
  BY BlankIsArchive DEF Init, VersionsAreMonotone, CommittedIsKept, NothingIsLost, Swapped
<1> QED BY <1>1, <1>2, <1>3 DEF IInv

\* The invariant that every theorem below follows from.
LEMMA Invariant == Spec => []IInv
<1>1. IInv /\ [Next]_vars => IInv'
  BY TypesNext, QuietNext, RowsNext, FilesNext, CopiesNext, PlacedNext, VersionsNext, KeptNext, SwapNext
     DEF IInv
<1> QED BY <1>1, InvariantInit, PTL DEF Spec

\* Every variable of an installation, its backups and its tools has its type.
THEOREM TypeCorrect == Spec => []TypeOK
<1>1. IInv => TypeOK
  BY DEF IInv
<1> QED BY <1>1, Invariant, PTL

\* What was committed is in the live database or in a rollback, wherever a restore
\* ends (restore, replace_database).
THEOREM CommittedSurvives == Spec => []NothingIsLost
<1>1. IInv => NothingIsLost
  BY DEF IInv, CommittedIsKept
<1> QED BY <1>1, Invariant, PTL

\* Rows name whole files, also on a machine restored from an archive that was taken
\* during uploads (media_upload, create_inner, restore).
THEOREM RowsResolve == Spec => []MediaResolves
<1>1. IInv => MediaResolves
  BY DEF IInv, FilesAreWritten, MediaResolves, Resolved
<1> QED BY <1>1, Invariant, PTL

\* A restore that reports success put the archive into place, and nothing else
\* (replace_database, verify).
THEOREM RestoreIsExact == Spec => []RestoredIsTheArchive
<1>1. IInv => RestoredIsTheArchive
  BY DEF IInv, Swapped, VersionsAreMonotone, RestoredIsTheArchive
<1> QED BY <1>1, Invariant, PTL

\* A backup that reports success is of one schema and has the files its rows name,
\* whatever was migrated and uploaded meanwhile (create_inner).
THEOREM BackupIsRestorable == Spec => []CreatedIsRestorable
<1>1. IInv => CreatedIsRestorable
  BY DEF IInv, CopiesResolve, ResolvedIn, VersionsAreMonotone, CreatedIsRestorable
<1> QED BY <1>1, Invariant, PTL
=============================================================================
