------------------------------- MODULE Backup -------------------------------
(***************************************************************************)
(* The media store, the backups of an installation and their restoration.  *)
(*                                                                         *)
(* The server writes the file of an upload, then its row.  The command     *)
(* line tool is a process of its own: it may back up while the server      *)
(* serves, and either may die at any moment.  Restoring is for a stopped   *)
(* server (README.md:316), and one tool runs at a time.                    *)
(*                                                                         *)
(* The rows of the media table stand for whatever is committed.  A row is  *)
(* in the database file or still in its write-ahead log.  A file is read   *)
(* and written by name; what matters of its contents is whether they are   *)
(* whole.                                                                  *)
(***************************************************************************)
EXTENDS Naturals

CONSTANTS
  Media,        \* disk names, a new one for each upload
  MaxVersion    \* bound: versions of the schema

ASSUME VersionAssumption == MaxVersion \in Nat \ {0}

VARIABLES
  main,         \* rows in the database file
  wal,          \* rows in its write-ahead log
  version,      \* the schema of the database
  disk,         \* the contents of the media directory
  rollbacks,    \* the rows of the files <db>.before-restore-<ts>
  binary,       \* the schema of the installed program
  serving,      \* is the server up?
  uploads,      \* the uploads
  step,         \* what the tool is about to do
  draft,        \* what a backup has collected
  todo,         \* the entries that a restore has yet to write
  archive,      \* the file that backups write and restores read
  committed,    \* history: rows that were committed on this machine
  overwritten   \* history: files whose whole contents a restore replaced by less

liveVars == <<main, wal, version>>
machineVars == <<liveVars, disk, rollbacks>>
serverVars == <<serving, uploads, committed>>
toolVars == <<step, draft, todo, archive>>
vars == <<machineVars, binary, serverVars, toolVars, overwritten>>

Version == 1..MaxVersion

Content == {"absent", "torn", "whole"}

\* BackupManifest with the snapshot and the files beside it.
Archive ==
  [sealed : BOOLEAN, schema : Version, version : Version,
   rows : SUBSET Media, media : [Media -> Content]]

\* An archive that is not there, or not finished: no tool can read it.
Blank ==
  [sealed |-> FALSE, schema |-> 1, version |-> 1,
   rows |-> {}, media |-> [m \in Media |-> "absent"]]

Creating == {"snapshot", "inventory", "seal", "write", "check"}
Restoring == {"verify", "media", "unlog", "swap", "restored"}

TypeOK ==
  /\ main \subseteq Media /\ wal \subseteq Media /\ committed \subseteq Media
  /\ version \in Version /\ binary \in Version
  /\ disk \in [Media -> Content]
  /\ rollbacks \subseteq SUBSET Media
  /\ serving \in BOOLEAN
  /\ uploads \in [Media -> {"new", "writing", "recording", "done", "failed"}]
  /\ step \in {"idle", "created"} \cup Creating \cup Restoring
  /\ draft \in Archive /\ archive \in Archive
  /\ todo \subseteq Media /\ overwritten \subseteq Media

Init ==
  /\ main = {} /\ wal = {} /\ version = 1 /\ binary = 1
  /\ disk = [m \in Media |-> "absent"]
  /\ rollbacks = {}
  /\ serving = FALSE
  /\ uploads = [m \in Media |-> "new"]
  /\ step = "idle" /\ draft = Blank /\ todo = {} /\ archive = Blank
  /\ committed = {} /\ overwritten = {}

\* What a connection reads.
Live == main \cup wal

-----------------------------------------------------------------------------
(***************************************************************************)
(* The server.                                                             *)
(***************************************************************************)

\* serve: connect and migrate.
Start ==
  /\ ~serving /\ step \notin Restoring
  /\ serving' = TRUE
  /\ version' = binary
  /\ UNCHANGED <<main, wal, disk, rollbacks, binary, uploads, committed, toolVars, overwritten>>

InFlight == {"writing", "recording"}

\* The server stops or is killed, and the uploads in flight with it.
Stop ==
  /\ serving
  /\ serving' = FALSE
  /\ uploads' = [m \in Media |-> IF uploads[m] \in InFlight THEN "failed" ELSE uploads[m]]
  /\ UNCHANGED <<machineVars, binary, committed, toolVars, overwritten>>

\* tokio::fs::write creates the file, and others see it while it grows.
BeginUpload(m) ==
  /\ serving /\ uploads[m] = "new"
  /\ uploads' = [uploads EXCEPT ![m] = "writing"]
  /\ disk' = [disk EXCEPT ![m] = "torn"]
  /\ UNCHANGED <<liveVars, rollbacks, binary, serving, committed, toolVars, overwritten>>

FinishFile(m) ==
  /\ uploads[m] = "writing"
  /\ uploads' = [uploads EXCEPT ![m] = "recording"]
  /\ disk' = [disk EXCEPT ![m] = "whole"]
  /\ UNCHANGED <<liveVars, rollbacks, binary, serving, committed, toolVars, overwritten>>

\* (mutant) The row while the file is being written.
RecordableAtOnce(m) == uploads[m] \in InFlight

Recordable(m) == uploads[m] = "recording"

\* insert_media: a commit appends to the log.
Record(m) ==
  /\ Recordable(m)
  /\ uploads' = [uploads EXCEPT ![m] = "done"]
  /\ wal' = wal \cup {m}
  /\ committed' = committed \cup {m}
  /\ UNCHANGED <<main, version, disk, rollbacks, binary, serving, toolVars, overwritten>>

\* A write or the insertion fails: the file stays as it is, and without a row.
FailUpload(m) ==
  /\ uploads[m] \in InFlight
  /\ uploads' = [uploads EXCEPT ![m] = "failed"]
  /\ UNCHANGED <<machineVars, binary, serving, committed, toolVars, overwritten>>

\* SQLite moves the log into the database file, for whoever has it open.
Checkpoint ==
  /\ serving \/ step # "idle"
  /\ main' = main \cup wal
  /\ wal' = {}
  /\ UNCHANGED <<version, disk, rollbacks, binary, serverVars, toolVars, overwritten>>

-----------------------------------------------------------------------------
(***************************************************************************)
(* BackupService::create.  Opening the repository migrates the database;   *)
(* the schema is read before the snapshot is taken.                        *)
(***************************************************************************)

SchemaRead == binary

BeginCreate ==
  /\ step = "idle"
  /\ version' = binary
  /\ step' = "snapshot"
  /\ draft' = [Blank EXCEPT !.schema = SchemaRead]
  /\ UNCHANGED <<main, wal, disk, rollbacks, binary, serverVars, todo, archive, overwritten>>

\* VACUUM INTO reads the database file and the log.
Snapshot ==
  /\ step = "snapshot"
  /\ step' = "inventory"
  /\ draft' = [draft EXCEPT !.rows = Live, !.version = version]
  /\ UNCHANGED <<machineVars, binary, serverVars, todo, archive, overwritten>>

\* read_media_dir, of whatever is there: files only grow meanwhile, so that reading
\* them one after the other finds nothing that reading them at once does not.
Inventory ==
  /\ step = "inventory"
  /\ step' = "seal"
  /\ draft' = [draft EXCEPT !.media = disk]
  /\ UNCHANGED <<machineVars, binary, serverVars, todo, archive, overwritten>>

\* File::create truncates what was there.
BeginArchive ==
  /\ step = "seal"
  /\ step' = "write"
  /\ archive' = Blank
  /\ UNCHANGED <<machineVars, binary, serverVars, draft, todo, overwritten>>

FinishArchive ==
  /\ step = "write"
  /\ step' = "check"
  /\ archive' = [draft EXCEPT !.sealed = TRUE]
  /\ UNCHANGED <<machineVars, binary, serverVars, draft, todo, overwritten>>

\* (mutant) Any archive that can be read.
Readable == archive.sealed

\* verify: what cannot be read fails; the schema is compared with that of the
\* database as it is now.
Verified == archive.sealed /\ archive.schema = version

\* A create that fails here leaves the archive where it is.
CheckOwn ==
  /\ step = "check"
  /\ step' = IF Verified THEN "created" ELSE "idle"
  /\ UNCHANGED <<machineVars, binary, serverVars, draft, todo, archive, overwritten>>

-----------------------------------------------------------------------------
(***************************************************************************)
(* BackupService::restore.  A command first migrates the database it is    *)
(* about to replace; a dry run ends after the verification.                *)
(***************************************************************************)

OpenForRestore ==
  /\ step = "idle" /\ ~serving
  /\ step' = "verify"
  /\ version' = binary
  /\ UNCHANGED <<main, wal, disk, rollbacks, binary, serverVars, draft, todo, archive, overwritten>>

BeginRestore ==
  /\ step = "verify"
  /\ IF Verified
       THEN step' = "media" /\ todo' = {m \in Media : archive.media[m] # "absent"}
       ELSE step' = "idle" /\ UNCHANGED todo
  /\ UNCHANGED <<machineVars, binary, serverVars, draft, archive, overwritten>>

\* write_media_file, by a rename: the entry's bytes for whatever had that name.
RestoreFile(m) ==
  /\ step = "media" /\ m \in todo
  /\ todo' = todo \ {m}
  /\ disk' = [disk EXCEPT ![m] = archive.media[m]]
  /\ overwritten' = IF disk[m] = "whole" /\ archive.media[m] = "torn"
                      THEN overwritten \cup {m} ELSE overwritten
  /\ UNCHANGED <<liveVars, rollbacks, binary, serverVars, step, draft, archive>>

\* (mutant) The log is not part of the rollback.
RollbackWithoutLog == main

RollbackRows == Live

Preserve ==
  /\ step = "media" /\ todo = {}
  /\ step' = "unlog"
  /\ rollbacks' = rollbacks \cup {RollbackRows}
  /\ UNCHANGED <<liveVars, disk, binary, serverVars, draft, todo, archive, overwritten>>

\* (mutant) The log of the database that is replaced.
KeptLog == wal

LogAfterRemoval == {}

\* replace_database: the log goes first.
RemoveLog ==
  /\ step = "unlog"
  /\ step' = "swap"
  /\ wal' = LogAfterRemoval
  /\ UNCHANGED <<main, version, disk, rollbacks, binary, serverVars, draft, todo, archive, overwritten>>

Swap ==
  /\ step = "swap"
  /\ step' = "restored"
  /\ main' = archive.rows
  /\ version' = archive.version
  /\ UNCHANGED <<wal, disk, rollbacks, binary, serverVars, draft, todo, archive, overwritten>>

-----------------------------------------------------------------------------

\* The tool ends, having reported, failed or been killed.
Exit ==
  /\ step # "idle"
  /\ step' = "idle"
  /\ draft' = Blank /\ todo' = {}
  /\ UNCHANGED <<machineVars, binary, serverVars, archive, overwritten>>

\* A new program is installed, which a running server does not notice.
Upgrade ==
  /\ binary < MaxVersion
  /\ binary' = binary + 1
  /\ UNCHANGED <<machineVars, serverVars, toolVars, overwritten>>

\* The machine is lost, and the archive is what is left.
LoseMachine ==
  /\ ~serving /\ step = "idle"
  /\ main' = {} /\ wal' = {} /\ version' = binary
  /\ disk' = [m \in Media |-> "absent"]
  /\ rollbacks' = {}
  /\ committed' = {}
  /\ UNCHANGED <<binary, serving, uploads, toolVars, overwritten>>

Next ==
  \/ Start \/ Stop \/ Checkpoint \/ Upgrade \/ LoseMachine
  \/ \E m \in Media : BeginUpload(m) \/ FinishFile(m) \/ Record(m) \/ FailUpload(m)
  \/ BeginCreate \/ Snapshot \/ Inventory \/ BeginArchive \/ FinishArchive \/ CheckOwn
  \/ OpenForRestore \/ BeginRestore \/ \E m \in Media : RestoreFile(m)
  \/ Preserve \/ RemoveLog \/ Swap \/ Exit

Spec == Init /\ [][Next]_vars

-----------------------------------------------------------------------------

\* Wherever a restore fails or is killed, between the removal of the log and the
\* renaming of the snapshot too: what was committed is in the live database or in
\* a rollback beside it (restore, replace_database).
NothingIsLost ==
  \A m \in committed : m \in Live \/ \E b \in rollbacks : m \in b

\* Every row of the live database names a file that is there and whole, on the
\* machine it was uploaded to and on one that was restored from an archive taken
\* while uploads were going on; those that a restore overwrote are excepted
\* (media_upload writes the file first, create the snapshot first, restore the
\* database last).
MediaResolves ==
  \A m \in Live : disk[m] = "whole" \/ m \in overwritten

\* A restore that reports success has put exactly the archive into place: no frame
\* of the replaced database's log comes back, and the schema is the one that the
\* manifest promised (replace_database, verify).
RestoredIsTheArchive ==
  step = "restored" => Live = archive.rows /\ version = archive.schema

\* A backup that reports success is one of a single schema, although a new program
\* may migrate the database between the reading of the version and the snapshot;
\* and whatever its rows name is in it (create_inner).
CreatedIsRestorable ==
  step = "created" =>
    /\ archive.sealed /\ archive.schema = archive.version
    /\ \A m \in archive.rows : archive.media[m] # "absent"
=============================================================================
