---------------------- MODULE NativeCheckpoint_proofs ----------------------
(***************************************************************************)
(* The storage of the Host keeps the promise of DurableState, whatever the *)
(* libraries and their pieces are.                                         *)
(***************************************************************************)
EXTENDS NativeCheckpoint, TLAPS

\* All pieces of a library are there for good
Settled(s) == s # NoState => PiecesOf[s] \subseteq files \ fresh

PiecesKept ==
  /\ Settled(manifest.state)
  /\ Settled(flushed.state)
  /\ Settled(rollback)

\* A start saves what it has found
Opening ==
  memory = NoState /\ phase \in {"preserve", "pieces", "manifest"} => saving = Loaded(manifest)

Saving ==
  /\ phase \in {"preserve", "pieces", "manifest", "renamed", "collect"} => saving \in States
  /\ phase \in {"manifest", "renamed", "collect"} => fresh = {} /\ PiecesOf[saving] \subseteq files
  /\ phase \in {"renamed", "collect"} => manifest.state = saving

\* Names that have not been flushed are those of a save under way, or of one that
\* was interrupted and that the next start repeats
Flushed ==
  /\ flushed.state # NoState => manifest.state # NoState
  /\ memory # NoState /\ phase # "renamed" => flushed.state = manifest.state
  /\ phase = "collect" => flushed = manifest

Running ==
  /\ phase = "closed" => memory = NoState
  /\ phase = "preserve" => memory = NoState
  /\ phase = "ready" => memory # NoState

NCInv == NCTypeOK /\ PiecesKept /\ Opening /\ Saving /\ Flushed /\ Running

LEMMA InitHolds == NCInit => NCInv
<1> SUFFICES ASSUME NCInit PROVE NCInv
  OBVIOUS
<1>1. NCTypeOK
  BY NativeCheckpointAssumption DEF NCInit, NCTypeOK, Manifests, NoManifest, NeededBy, Phases, Versions
<1>2. PiecesKept
  BY DEF NCInit, PiecesKept, Settled, NeededBy
<1>3. Opening /\ Saving /\ Flushed /\ Running
  BY DEF NCInit, Opening, Saving, Flushed, Running
<1> QED
  BY <1>1, <1>2, <1>3 DEF NCInv

LEMMA OpenHolds == NCInv /\ Open => NCInv'
<1> SUFFICES ASSUME NCInv, Open PROVE NCInv'
  OBVIOUS
<1> USE DEF NCInv, Open, diskVars
<1>1. Loaded(manifest) \in States
  BY NativeCheckpointAssumption DEF Loaded, NCTypeOK, Manifests, NoManifest
<1>2. NCTypeOK'
  BY <1>1 DEF NCTypeOK, Phases
<1>3. PiecesKept'
  BY DEF PiecesKept, Settled
<1>4. Opening' /\ Running' /\ Flushed'
  BY DEF Opening, Loaded, Running, Flushed
<1>5. Saving'
  BY <1>1 DEF Saving
<1> QED
  BY <1>2, <1>3, <1>4, <1>5

LEMMA RunHolds == NCInv /\ RunSteps => NCInv'
<1> SUFFICES ASSUME NCInv, RunSteps PROVE NCInv'
  OBVIOUS
<1> USE DEF NCInv, diskVars
<1>1. CASE Preserve
  <2>1. manifest.state \in States \cup {NoState}
    BY DEF NCTypeOK, Manifests, NoManifest
  <2>2. NCTypeOK'
    BY <1>1, <2>1 DEF Preserve, NCTypeOK, Phases
  <2>3. PiecesKept'
    BY <1>1 DEF Preserve, PiecesKept, Settled
  <2> QED
    BY <1>1, <2>2, <2>3 DEF Preserve, Opening, Saving, Flushed, Running, Loaded
<1>2. ASSUME NEW s \in States, Request(s) PROVE NCInv'
  <2>1. NCTypeOK'
    BY <1>2 DEF Request, NCTypeOK, Phases
  <2> QED
    BY <1>2, <2>1 DEF Request, PiecesKept, Settled, Opening, Saving, Flushed, Running, Loaded
<1>3. ASSUME NEW c \in Pieces, WritePiece(c) PROVE NCInv'
  <2>1. NCTypeOK'
    BY <1>3 DEF WritePiece, NCTypeOK, Phases
  <2>2. PiecesKept'
    BY <1>3 DEF WritePiece, PiecesKept, Settled
  <2> QED
    BY <1>3, <2>1, <2>2 DEF WritePiece, Opening, Saving, Flushed, Running, Loaded
<1>4. CASE FlushPieces
  <2>1. NCTypeOK'
    BY <1>4 DEF FlushPieces, NCTypeOK, Phases
  <2>2. PiecesKept'
    BY <1>4 DEF FlushPieces, PiecesKept, Settled
  <2> QED
    BY <1>4, <2>1, <2>2 DEF FlushPieces, Complete, Opening, Saving, Flushed, Running, Loaded
<1>5. CASE Rename
  <2>1. saving \in States /\ fresh = {} /\ PiecesOf[saving] \subseteq files
    BY <1>5 DEF Rename, Saving
  <2>2. manifest'.state = saving /\ manifest' \in Manifests
    BY <1>5, <2>1 DEF Rename, Manifests, Versions
  <2>3. NCTypeOK'
    BY <1>5, <2>2 DEF Rename, NCTypeOK, Phases
  <2>4. PiecesKept'
    BY <1>5, <2>1, <2>2 DEF Rename, PiecesKept, Settled
  <2> QED
    BY <1>5, <2>1, <2>2, <2>3, <2>4, NativeCheckpointAssumption
    DEF Rename, Opening, Saving, Flushed, Running
<1>6. CASE Flush
  <2>1. NCTypeOK'
    BY <1>6 DEF Flush, NCTypeOK, Phases
  <2>2. PiecesKept'
    BY <1>6 DEF Flush, PiecesKept, Settled
  <2> QED
    BY <1>6, <2>1, <2>2 DEF Flush, Opening, Saving, Flushed, Running
<1>7. ASSUME NEW c \in Pieces, Collect(c) PROVE NCInv'
  <2>1. manifest.state = saving /\ flushed = manifest /\ fresh = {} /\ saving \in States
    BY <1>7 DEF Collect, Saving, Flushed
  <2>2. c \notin PiecesOf[saving]
    BY <1>7, <2>1, NativeCheckpointAssumption DEF Collect, Retained, NeededBy
  <2>3. rollback # NoState => c \notin PiecesOf[rollback]
    BY <1>7 DEF Collect, Retained
  <2>4. NCTypeOK'
    BY <1>7 DEF Collect, NCTypeOK, Phases
  <2>5. PiecesKept'
    BY <1>7, <2>1, <2>2, <2>3 DEF Collect, PiecesKept, Settled
  <2> QED
    BY <1>7, <2>1, <2>2, <2>4, <2>5 DEF Collect, Opening, Saving, Flushed, Running
<1>8. CASE Answer
  <2>1. saving \in States /\ saving # NoState
    BY <1>8, NativeCheckpointAssumption DEF Answer, Saving
  <2>2. NCTypeOK'
    BY <1>8, <2>1 DEF Answer, NCTypeOK, Phases
  <2> QED
    BY <1>8, <2>1, <2>2 DEF Answer, PiecesKept, Settled, Opening, Saving, Flushed, Running
<1>9. CASE Fail
  <2>1. NCTypeOK'
    BY <1>9 DEF Fail, NCTypeOK, Phases
  <2> QED
    BY <1>9, <2>1 DEF Fail, PiecesKept, Settled, Opening, Saving, Flushed, Running
<1>10. CASE Stop
  <2>1. NCTypeOK'
    BY <1>10 DEF Stop, NCTypeOK, Phases
  <2> QED
    BY <1>10, <2>1 DEF Stop, PiecesKept, Settled, Opening, Saving, Flushed, Running
<1> QED
  BY <1>1, <1>2, <1>3, <1>4, <1>5, <1>6, <1>7, <1>8, <1>9, <1>10 DEF RunSteps

LEMMA PowerHolds ==
  ASSUME NCInv, NEW lost \in SUBSET fresh, PowerFails(lost)
  PROVE  NCInv'
<1> USE DEF NCInv, PowerFails
<1>1. NCTypeOK'
  BY DEF NCTypeOK, Phases
<1>2. PiecesKept'
  BY DEF PiecesKept, Settled
<1> QED
  BY <1>1, <1>2 DEF Opening, Saving, Flushed, Running

LEMMA StutterHolds == NCInv /\ UNCHANGED ncVars => NCInv'
<1> SUFFICES ASSUME NCInv, UNCHANGED ncVars PROVE NCInv'
  OBVIOUS
<1>1. /\ UNCHANGED <<manifest, files, rollback, fresh, flushed>>
      /\ UNCHANGED <<phase, saving, memory>>
  BY DEF ncVars
<1> QED
  BY <1>1 DEF NCInv, NCTypeOK, PiecesKept, Settled, Opening, Saving, Flushed, Running, Loaded

\* The invariant that all the theorems below rest on.
THEOREM CheckpointInvariant == NCSpec => []NCInv
<1>1. NCInv /\ [NCNext]_ncVars => NCInv'
  BY OpenHolds, RunHolds, PowerHolds, StutterHolds DEF NCNext
<1> QED
  BY InitHolds, <1>1, PTL DEF NCSpec

\* The library of the version before an upgrade stays complete, through every
\* save, collection, crash and power failure (preserve_checkpoint, collect_records).
THEOREM RollbackStays == NCSpec => []RollbackReadable
<1>1. NCInv => RollbackReadable
  BY DEF NCInv, PiecesKept, Settled, RollbackReadable
<1> QED
  BY CheckpointInvariant, <1>1, PTL

---------------------------------------------------------------------------
LEMMA LibraryIsThere ==
  ASSUME NCInv
  PROVE  Library(manifest) = manifest.state /\ Library(flushed) = flushed.state
BY DEF NCInv, PiecesKept, Settled, Library, Readable

LEMMA InitMaps == NCInit => Saved!DSInit
<1> SUFFICES ASSUME NCInit PROVE Saved!DSInit
  OBVIOUS
<1>1. Library(manifest) = manifest.state /\ Library(flushed) = flushed.state
  BY InitHolds, LibraryIsThere
<1>2. manifest.state \in States \cup {NoState}
  BY DEF NCInit, Manifests, NoManifest
<1> QED
  BY <1>1, <1>2 DEF NCInit, Saved!DSInit

LEMMA StepMaps ==
  ASSUME NCInv, NCInv', [NCNext]_ncVars
  PROVE  [Saved!DSNext]_Saved!dsVars
<1>1. /\ Library(manifest) = manifest.state
      /\ Library(flushed) = flushed.state
  BY LibraryIsThere
<1>2. /\ Library(manifest)' = manifest'.state
      /\ Library(flushed)' = flushed'.state
  BY DEF NCInv, PiecesKept, Settled, Library, Readable
<1> USE <1>1, <1>2 DEF Saved!dsVars
<1>3. CASE Rename
  <2>1. saving \in States /\ manifest'.state = saving
    BY <1>3 DEF Rename, NCInv, Saving
  <2>2. memory = NoState =>
          saving = IF manifest.state = NoState THEN Initial ELSE manifest.state
    BY <1>3 DEF Rename, NCInv, Opening, Loaded
  <2>3. CASE manifest.state = flushed.state
    BY <1>3, <2>1, <2>2, <2>3 DEF Rename, Saved!DSNext, Saved!Save
  <2>4. CASE manifest.state # flushed.state
    <3>1. memory = NoState
      BY <1>3, <2>4 DEF Rename, NCInv, Flushed
    <3>2. manifest.state # NoState
      BY <2>4 DEF NCInv, Flushed
    <3> QED
      BY <1>3, <2>1, <2>2, <3>1, <3>2 DEF Rename
  <2> QED
    BY <2>3, <2>4
<1>4. CASE Flush
  BY <1>4 DEF Flush, Saved!DSNext, Saved!Settle
<1>5. CASE Answer
  <2>1. manifest.state = saving /\ flushed = manifest /\ saving # NoState
    BY <1>5, NativeCheckpointAssumption DEF Answer, NCInv, Saving, Flushed
  <2> QED
    BY <1>5, <2>1 DEF Answer, diskVars, Saved!DSNext, Saved!Show
<1>6. CASE Stop
  BY <1>6 DEF Stop, diskVars, Saved!DSNext, Saved!Stop
<1>7. ASSUME NEW lost \in SUBSET fresh, PowerFails(lost)
      PROVE  [Saved!DSNext]_Saved!dsVars
  BY <1>7 DEF PowerFails, Saved!DSNext, Saved!PowerFails
<1>8. ASSUME UNCHANGED <<manifest, flushed, memory>>
      PROVE  [Saved!DSNext]_Saved!dsVars
  BY <1>8
<1>9. CASE Open \/ Preserve \/ FlushPieces \/ Fail \/ (\E s \in States : Request(s))
  BY <1>8, <1>9 DEF Open, Preserve, FlushPieces, Fail, Request, diskVars
<1>10. CASE \E c \in Pieces : WritePiece(c) \/ Collect(c)
  BY <1>8, <1>10 DEF WritePiece, Collect
<1>11. CASE UNCHANGED ncVars
  BY <1>8, <1>11 DEF ncVars
<1> QED
  BY <1>3, <1>4, <1>5, <1>6, <1>7, <1>9, <1>10, <1>11 DEF NCNext, RunSteps

\* What the application shows has been saved for good, a start finds what was saved,
\* and an interruption leaves the library before or after the change under way:
\* the storage implements DurableState (NativeHostStorage, persist_native).
THEOREM StorageImplementsDurableState == NCSpec => StorageIsDurable
<1>1. NCInv /\ NCInv' /\ [NCNext]_ncVars => [Saved!DSNext]_Saved!dsVars
  BY StepMaps
<1> QED
  BY CheckpointInvariant, InitMaps, <1>1, PTL DEF NCSpec, StorageIsDurable, Saved!DSSpec
=============================================================================
