------------------------- MODULE NativeCheckpoint -------------------------
(***************************************************************************)
(* The data directory of a native Host                                     *)
(* (rust-runtime/src/native_host_storage.rs, native_persistence.rs).       *)
(*                                                                         *)
(* A state is cut into immutable pieces that are named after their         *)
(* contents, and a manifest that names them.  The pieces are written       *)
(* first; the rename of the manifest is the commit; pieces that nothing    *)
(* names any more are removed afterwards.  The application shows a change  *)
(* when it has been saved, and a start saves what it has read.  The        *)
(* process may stop between any two steps; when the power fails, names     *)
(* that have not been flushed may be lost as well.                         *)
(***************************************************************************)
EXTENDS Naturals

CONSTANTS
  States, NoState,
  Initial,      \* the empty library of a first start
  Pieces,
  PiecesOf,     \* the pieces of each state
  CurrentVersion, OldVersion

ASSUME NativeCheckpointAssumption ==
  /\ NoState \notin States
  /\ Initial \in States
  /\ PiecesOf \in [States -> SUBSET Pieces]
  /\ CurrentVersion # OldVersion

VARIABLES
  manifest,  \* host-state.json
  files,     \* host-records
  rollback,  \* the manifest of an older version that is kept: host-state.v2.backup.json
  fresh,     \* pieces whose names have not been flushed
  flushed,   \* the manifest that is left when the power fails
  phase,     \* of the process: closed, preserve, pieces, manifest, renamed, collect, ready
  saving,    \* the state that is being saved
  memory     \* AppState.data; NoState: not initialised

diskVars == <<manifest, files, rollback, fresh, flushed>>
ncVars == <<manifest, files, rollback, fresh, flushed, phase, saving, memory>>

Versions == {OldVersion, CurrentVersion}

Manifests == [state : States, version : Versions]

NoManifest == [state |-> NoState, version |-> CurrentVersion]

Phases == {"closed", "preserve", "pieces", "manifest", "renamed", "collect", "ready"}

NeededBy(m) == IF m.state = NoState THEN {} ELSE PiecesOf[m.state]

\* read_checkpoint, restore_records: every piece is there
Readable(m, dir) == m.state # NoState /\ PiecesOf[m.state] \subseteq dir

NCInit ==
  /\ manifest \in Manifests \cup {NoManifest}
  /\ files = NeededBy(manifest)
  /\ rollback = NoState
  /\ fresh = {}
  /\ flushed = manifest
  /\ phase = "closed"
  /\ saving = NoState
  /\ memory = NoState

---------------------------------------------------------------------------
(* A start                                                                 *)

\* initialize_native: what is there, or an empty library where there is none
Loaded(m) == IF m.state = NoState THEN Initial ELSE m.state

\* NativeHostStorage::open; initialize_native saves what it has loaded
Open ==
  /\ phase = "closed"
  /\ manifest = NoManifest \/ Readable(manifest, files)
  /\ saving' = Loaded(manifest)
  /\ phase' = IF manifest.version = CurrentVersion THEN "pieces" ELSE "preserve"
  /\ UNCHANGED <<diskVars, memory>>

\* preserve_checkpoint: the first manifest of an older version is kept
Preserve ==
  /\ phase = "preserve"
  /\ rollback' = IF rollback = NoState THEN manifest.state ELSE rollback
  /\ phase' = "pieces"
  /\ UNCHANGED <<manifest, files, fresh, flushed, saving, memory>>

---------------------------------------------------------------------------
(* NativeHostStorage::save                                                 *)

\* A request leaves another state; one that leaves the saved state saves nothing
Request(s) ==
  /\ phase = "ready"
  /\ s # memory
  /\ saving' = s
  /\ phase' = "pieces"
  /\ UNCHANGED <<diskVars, memory>>

\* split_records: one piece that is missing
WritePiece(c) ==
  /\ phase = "pieces"
  /\ c \in PiecesOf[saving] \ files
  /\ files' = files \cup {c}
  /\ fresh' = fresh \cup {c}
  /\ UNCHANGED <<manifest, rollback, flushed, phase, saving, memory>>

Complete == PiecesOf[saving] \subseteq files

\* split_records flushes the names of the pieces
FlushPieces ==
  /\ phase = "pieces"
  /\ Complete
  /\ fresh' = {}
  /\ phase' = "manifest"
  /\ UNCHANGED <<manifest, files, rollback, flushed, saving, memory>>

\* The commit
Rename ==
  /\ phase = "manifest"
  /\ manifest' = [state |-> saving, version |-> CurrentVersion]
  /\ phase' = "renamed"
  /\ UNCHANGED <<files, rollback, fresh, flushed, saving, memory>>

\* sync_directory, which the local file system does not refuse
Flush ==
  /\ phase = "renamed"
  /\ flushed' = manifest
  /\ phase' = "collect"
  /\ UNCHANGED <<manifest, files, rollback, fresh, saving, memory>>


\* collect_records
Retained ==
  NeededBy(manifest) \cup (IF rollback = NoState THEN {} ELSE PiecesOf[rollback])

\* Errors are ignored: any piece may stay
Collect(c) ==
  /\ phase = "collect"
  /\ c \in files \ Retained
  /\ files' = files \ {c}
  /\ UNCHANGED <<manifest, rollback, fresh, flushed, phase, saving, memory>>

\* persist_native has succeeded: the commit of AppState
Answer ==
  /\ phase = "collect"
  /\ memory' = saving
  /\ saving' = NoState
  /\ phase' = "ready"
  /\ UNCHANGED diskVars

\* A write or a rename fails: the request or the start is refused
Fail ==
  /\ phase \in {"preserve", "pieces", "manifest"}
  /\ saving' = NoState
  /\ phase' = IF memory = NoState THEN "closed" ELSE "ready"
  /\ UNCHANGED <<diskVars, memory>>

---------------------------------------------------------------------------
\* Shutdown, or the process is killed
Stop ==
  /\ phase # "closed"
  /\ phase' = "closed"
  /\ saving' = NoState
  /\ memory' = NoState
  /\ UNCHANGED diskVars

\* Names that have not been flushed may be gone
PowerFails(lost) ==
  /\ lost \subseteq fresh
  /\ files' = files \ lost
  /\ fresh' = fresh \ lost
  /\ manifest' = flushed
  /\ phase' = "closed"
  /\ saving' = NoState
  /\ memory' = NoState
  /\ UNCHANGED <<rollback, flushed>>

\* The steps of a process that has opened the directory
RunSteps ==
  \/ Preserve
  \/ \E s \in States : Request(s)
  \/ \E c \in Pieces : WritePiece(c)
  \/ FlushPieces
  \/ Rename
  \/ Flush
  \/ \E c \in Pieces : Collect(c)
  \/ Answer
  \/ Fail
  \/ Stop

NCNext == Open \/ RunSteps \/ \E lost \in SUBSET fresh : PowerFails(lost)

NCSpec == NCInit /\ [][NCNext]_ncVars

---------------------------------------------------------------------------
(* Properties                                                              *)

NCTypeOK ==
  /\ manifest \in Manifests \cup {NoManifest}
  /\ files \in SUBSET Pieces
  /\ rollback \in States \cup {NoState}
  /\ fresh \in SUBSET Pieces
  /\ flushed \in Manifests \cup {NoManifest}
  /\ phase \in Phases
  /\ saving \in States \cup {NoState}
  /\ memory \in States \cup {NoState}

\* What a start would find
Library(m) == IF m.state = NoState THEN NoState ELSE IF Readable(m, files) THEN m.state ELSE "corrupt"

Saved ==
  INSTANCE DurableState WITH
    None <- NoState, Foreign <- {}, Imports <- {},
    disk <- Library(manifest), settled <- Library(flushed)

\* The storage of the Host keeps the promise of DurableState
StorageIsDurable == Saved!DSSpec

\* The version before an upgrade can still be gone back to (collect_records)
RollbackReadable == rollback # NoState => PiecesOf[rollback] \subseteq files
=============================================================================
