-------------------------- MODULE DataDirectory --------------------------
(***************************************************************************)
(* The data directory between a starting Host and the offline import tool  *)
(* (rust-runtime/src/native_host/desktop_import_tool.rs, desktop.rs,       *)
(* native_host_storage.rs).                                                *)
(*                                                                         *)
(* The tool builds a complete directory aside, moves the old one to a      *)
(* backup and the new one into its place.  A guard file beside the         *)
(* directory says that a switch is under way; from it and from what is on  *)
(* disk a later run of the tool finds out what to do.  Locks keep a        *)
(* running Host and the tool apart, but the file of the import lock does   *)
(* not exist before the first import: a Host that has looked for it too    *)
(* early holds none.  Either process may stop between any two steps.       *)
(***************************************************************************)
EXTENDS NativeCheckpoint

CONSTANTS
  Imported,  \* the library that an import installs
  Legacy     \* the records of an older program

ASSUME DataDirectoryAssumption == Imported \in States /\ Legacy \notin States /\ Legacy # NoState

VARIABLES
  other,     \* what the directory holds besides a checkpoint
  locked,    \* the Host holds the storage lock inside the directory
  stage,     \* new-data: none, partial or complete
  saved,     \* legacy/data: the directory that was moved aside
  guard,     \* the plan of an import that has not ended
  lockFile,  \* the file of the import lock exists
  shared,    \* the Host holds the import lock
  gate,      \* how far the Host has come: out, peeked, looked, locked, clear, in
  tool,      \* how far the tool has come; it holds the import lock unless idle
  kind,      \* the format that the tool has found
  original,  \* the manifest that the tool has found
  raced      \* history: a Host was starting while the tool was at work

toolVars == <<stage, saved, guard, lockFile, tool, kind, original, raced>>
gateVars == <<other, locked, shared, gate>>
ddVars == <<ncVars, gateVars, toolVars>>

NoPlan == [had |-> FALSE, replaced |-> FALSE, pending |-> FALSE]

NoDirectory ==
  [manifest |-> NoManifest, files |-> {}, rollback |-> NoState, fresh |-> {},
   flushed |-> NoManifest, other |-> "missing", locked |-> FALSE]

Here ==
  [manifest |-> manifest, files |-> files, rollback |-> rollback, fresh |-> fresh,
   flushed |-> flushed, other |-> other, locked |-> locked]

ConvertedDirectory ==
  LET m == [state |-> Imported, version |-> CurrentVersion] IN
    [manifest |-> m, files |-> PiecesOf[Imported], rollback |-> NoState, fresh |-> {},
     flushed |-> m, other |-> "unknown", locked |-> FALSE]

\* A rename onto the data directory
Place(d) ==
  /\ manifest' = d.manifest /\ files' = d.files /\ rollback' = d.rollback
  /\ fresh' = d.fresh /\ flushed' = d.flushed
  /\ other' = d.other /\ locked' = d.locked

\* format
Format == IF manifest # NoManifest THEN "native" ELSE other

DDInit ==
  /\ NCInit
  /\ other \in IF manifest = NoManifest THEN {"missing", "empty", "legacy"} ELSE {"unknown"}
  /\ locked = FALSE
  /\ stage = "none" /\ saved = NoDirectory /\ guard = NoPlan
  /\ lockFile \in BOOLEAN
  /\ shared = FALSE /\ gate = "out"
  /\ tool = "idle" /\ kind = "missing" /\ original = NoManifest
  /\ raced = FALSE

---------------------------------------------------------------------------
(* A Host that starts                                                      *)

\* preview_root: a new directory, an empty one or one with a checkpoint
Peek ==
  /\ gate = "out"
  /\ ~guard.pending
  /\ Format \in {"missing", "empty", "native"}
  /\ other' = IF other = "missing" THEN "empty" ELSE other
  /\ gate' = "peeked"
  /\ raced' = (raced \/ tool # "idle")
  /\ UNCHANGED <<ncVars, locked, shared, stage, saved, guard, lockFile, tool, kind, original>>

\* import_lock: no file, no lock
Look ==
  /\ gate = "peeked"
  /\ ~guard.pending
  /\ lockFile => tool = "idle"
  /\ shared' = lockFile
  /\ gate' = "looked"
  /\ UNCHANGED <<ncVars, other, locked, toolVars>>

\* open_inner: the directory, and the lock inside it
Lock ==
  /\ gate = "looked"
  /\ other' = IF other \in {"missing", "empty"} THEN "unknown" ELSE other
  /\ locked' = TRUE
  /\ gate' = "locked"
  /\ UNCHANGED <<ncVars, shared, toolVars>>

Unguarded == ~guard.pending

Admit ==
  /\ gate = "locked"
  /\ Unguarded
  /\ gate' = "clear"
  /\ UNCHANGED <<ncVars, other, locked, shared, toolVars>>

Start ==
  /\ gate = "clear"
  /\ Open
  /\ gate' = "in"
  /\ UNCHANGED <<other, locked, shared, toolVars>>

\* The locks go with the process, wherever the directory is by then
Released ==
  /\ gate' = "out"
  /\ shared' = FALSE
  /\ locked' = FALSE
  /\ saved' = [saved EXCEPT !.locked = FALSE]

\* The start is refused, or the process ends
GiveUp ==
  /\ gate \notin {"out", "in"}
  /\ Released
  /\ UNCHANGED <<ncVars, other, stage, guard, lockFile, tool, kind, original, raced>>

Run ==
  /\ gate = "in"
  /\ RunSteps
  /\ IF phase' = "closed" THEN Released ELSE UNCHANGED <<gate, shared, locked, saved>>
  /\ UNCHANGED <<other, stage, guard, lockFile, tool, kind, original, raced>>

---------------------------------------------------------------------------
(* The import tool                                                         *)

\* open_validated_for_tool: a readable checkpoint that no Host has locked
Valid == Readable(manifest, files) /\ ~locked

ToolStep(from, to) == tool = from /\ tool' = to

\* install_selected takes the import lock
BeginImport ==
  /\ ToolStep("idle", IF guard.pending THEN "recovers" ELSE "began")
  /\ ~shared
  /\ lockFile' = TRUE
  /\ raced' = ((guard.pending /\ raced) \/ gate # "out")
  /\ UNCHANGED <<ncVars, gateVars, stage, saved, guard, kind, original>>

\* A checkpoint is replaced on demand only, and by a tool that gets its lock
Choose ==
  /\ ToolStep("began", "chose")
  /\ Format # "unknown"
  /\ Format = "native" => Valid
  /\ kind' = Format
  /\ original' = manifest
  /\ UNCHANGED <<ncVars, gateVars, stage, saved, guard, lockFile, raced>>

\* The guard; every import has a work directory of its own
Claim ==
  /\ ToolStep("chose", "claimed")
  /\ guard' = [had |-> kind # "missing", replaced |-> kind = "native", pending |-> TRUE]
  /\ stage' = "none"
  /\ saved' = NoDirectory
  /\ UNCHANGED <<ncVars, gateVars, lockFile, kind, original, raced>>

\* A Host that was admitted before there was a guard holds the lock
Prepare ==
  /\ ToolStep("claimed", "builds")
  /\ kind = "native" => Valid
  /\ stage' = "partial"
  /\ UNCHANGED <<ncVars, gateVars, saved, guard, lockFile, kind, original, raced>>

Build ==
  /\ ToolStep("builds", "built")
  /\ stage' = "complete"
  /\ UNCHANGED <<ncVars, gateVars, saved, guard, lockFile, kind, original, raced>>

\* Fault: what is there now is not compared with what was there
AsFound_Blindly == TRUE

\* The directory is what the tool has found at first
AsFound == Format = kind /\ (kind = "native" => manifest = original)

Check ==
  /\ ToolStep("built", "checked")
  /\ AsFound
  /\ UNCHANGED <<ncVars, gateVars, stage, saved, guard, lockFile, kind, original, raced>>

MoveAside ==
  /\ ToolStep("checked", "aside")
  /\ IF guard.had THEN saved' = Here /\ Place(NoDirectory)
     ELSE UNCHANGED <<saved, diskVars, other, locked>>
  /\ UNCHANGED <<phase, saving, memory, shared, gate, stage, guard, lockFile, kind, original, raced>>

\* A rename replaces an empty directory at most
Install ==
  /\ ToolStep("aside", "installed")
  /\ Format \in {"missing", "empty"}
  /\ Place(ConvertedDirectory)
  /\ stage' = "none"
  /\ UNCHANGED <<phase, saving, memory, shared, gate, saved, guard, lockFile, kind, original, raced>>

\* An assumption on timing: a Host that has its lock looks at the guard at once,
\* before the tool has flushed, validated and removed the guard
Prompt == gate # "locked"

\* clear_guard
Finish ==
  /\ ToolStep("installed", "idle")
  /\ Valid /\ Prompt
  /\ guard' = NoPlan
  /\ UNCHANGED <<ncVars, gateVars, stage, saved, lockFile, kind, original, raced>>

\* A step fails: before the guard nothing has happened, after it the tool recovers
ToolFails ==
  /\ tool \notin {"idle", "recovers", "restored"}
  /\ tool' = IF guard.pending THEN "recovers" ELSE "idle"
  /\ UNCHANGED <<ncVars, gateVars, stage, saved, guard, lockFile, kind, original, raced>>

ToolStops ==
  /\ tool # "idle"
  /\ tool' = "idle"
  /\ UNCHANGED <<ncVars, gateVars, stage, saved, guard, lockFile, kind, original, raced>>

---------------------------------------------------------------------------
(* recover_locked                                                          *)

Backup == saved # NoDirectory

Untouched == guard.replaced /\ Format = "native" /\ ~Backup

Installed == ~Untouched /\ Format = "native" /\ stage = "none"


\* Nothing has been moved, or everything has
NothingToDo ==
  \/ Untouched /\ Valid
  \/ Installed /\ Valid /\ (guard.had => Backup)
  \/ Format = "missing" /\ ~guard.had /\ ~Backup
  \/ Format \in {"legacy", "empty"} /\ guard.had /\ ~Backup

\* The backup is all there is
Interrupted == Format = "missing" /\ guard.had /\ Backup

RestoreBackup ==
  /\ ToolStep("recovers", "restored")
  /\ Interrupted
  /\ Place(saved)
  /\ saved' = NoDirectory
  /\ UNCHANGED <<phase, saving, memory, shared, gate, stage, guard, lockFile, kind, original, raced>>

ClearGuard ==
  /\ \/ tool = "recovers" /\ NothingToDo
     \/ tool = "restored"
  /\ Prompt
  /\ tool' = "idle"
  /\ guard' = NoPlan
  /\ UNCHANGED <<ncVars, gateVars, stage, saved, lockFile, kind, original, raced>>

HostOfDirectory == Peek \/ Look \/ Lock \/ Admit \/ Start \/ GiveUp \/ Run

ImportTool ==
  \/ BeginImport \/ Choose \/ Claim \/ Prepare \/ Build \/ Check \/ MoveAside \/ Install \/ Finish
  \/ ToolFails \/ ToolStops \/ RestoreBackup \/ ClearGuard

\* Power failures are not among the promises of the tool
PowerLoss ==
  /\ tool = "idle" /\ ~guard.pending
  /\ \E lost \in SUBSET fresh : PowerFails(lost)
  /\ Released
  /\ UNCHANGED <<other, stage, guard, lockFile, tool, kind, original, raced>>

DDNext == HostOfDirectory \/ ImportTool \/ PowerLoss

DDSpec == DDInit /\ [][DDNext]_ddVars

---------------------------------------------------------------------------
(* Properties                                                              *)

LibraryIn(d, m) ==
  IF m.state # NoState THEN IF Readable(m, d.files) THEN m.state ELSE "corrupt"
  ELSE IF d.other = "legacy" THEN Legacy ELSE NoState

\* Between the two renames the library is the one that was moved aside
Home == IF guard.pending /\ Backup /\ stage # "none" THEN saved ELSE Here

Promise ==
  INSTANCE DurableState WITH
    None <- NoState, Foreign <- {Legacy}, Imports <- {Imported},
    disk <- LibraryIn(Home, Home.manifest), settled <- LibraryIn(Home, Home.flushed)

\* With the tool at work the library is still the one that was saved last or the
\* one that was imported, and no application runs while it is exchanged.
LibraryIsDurable == Promise!DSSpec


DDTypeOK ==
  /\ NCTypeOK
  /\ other \in {"missing", "empty", "legacy", "unknown"}
  /\ manifest # NoManifest => other = "unknown"
  /\ stage \in {"none", "partial", "complete"}
  /\ guard \in [had : BOOLEAN, replaced : BOOLEAN, pending : BOOLEAN]
  /\ gate \in {"out", "peeked", "looked", "locked", "clear", "in"}
  /\ (gate = "in") = (phase # "closed")
  /\ shared => tool = "idle"

=============================================================================
