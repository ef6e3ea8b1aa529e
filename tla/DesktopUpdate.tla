-------------------------- MODULE DesktopUpdate --------------------------
(***************************************************************************)
(* Replacing the desktop installation                                      *)
(* (rust-runtime/src/native_host/updates.rs, updates/desktop_install.rs,   *)
(* update_installer/handoff.rs, apply.rs, src-tauri/src/                   *)
(* window_lifecycle.rs, backend_process.rs).                               *)
(*                                                                         *)
(* The Host checks for a release, and a worker downloads and prepares a    *)
(* package in a workspace of its own.  When it is prepared, the shell asks *)
(* the Host to hand it over: a new process, the updater, says that it is   *)
(* ready, the Host acknowledges and only then shell and Host quit.  The    *)
(* updater waits for both, copies the package beside the installation,     *)
(* moves the old one aside and the new one in, reports and opens it.       *)
(* Timeouts race the answers they wait for, each process may stop          *)
(* anywhere, and the user may open the application by hand.                *)
(***************************************************************************)
EXTENDS Naturals

CONSTANTS
  MaxOperation,  \* bound: checks, installations and cancellations
  MaxSession     \* bound: sessions of the Host

ASSUME DesktopUpdateAssumption == MaxOperation \in Nat /\ MaxSession \in Nat \ {0}

VARIABLES
  session,    \* session_generation
  operation,  \* UpdateState.operation
  status,     \* UpdateState.status
  package,    \* UpdateState.package: a release that can be installed is known
  install,    \* UpdateState.install: the operation of the job, its session
  checks,     \* operations whose release data are being fetched
  phase,      \* Job.phase
  worker,     \* how far the worker of an operation is
  workspace,  \* operations with a workspace on disk
  asked,      \* the operation that the shell has asked for; 0: none
  launch,     \* how far its activation is
  claim,      \* ApplicationLifecycleState
  shell,      \* the shell process runs
  host,       \* the Host process runs
  stop,       \* the Host has been told to stop
  updater,    \* how far the updater is
  target,     \* the operation it was started for
  notes,      \* handoff files in the workspace
  dest,       \* the installation
  incoming,   \* the staged installation beside it
  previous,   \* the installation that was moved aside
  result,     \* last-result.txt
  reopened    \* an application has been opened after the first one

stateVars == <<session, operation, status, package, install, checks, phase>>
jobVars == <<worker, workspace>>
launchVars == <<asked, launch>>
processVars == <<claim, shell, host, stop>>
updaterVars == <<updater, target, notes, incoming, previous, dest>>
duVars == <<stateVars, jobVars, launchVars, processVars, updaterVars, result, reopened>>

Operations == 1..MaxOperation
NoJob == [op |-> 0, session |-> 0]

JobStates == {"downloading", "installing", "prepared", "restarting"}

\* UpdateState::busy
Busy == status \in JobStates \cup {"checking"}

DUInit ==
  /\ session = 1 /\ operation = 0 /\ status = "idle" /\ package = FALSE
  /\ install = NoJob /\ checks = {}
  /\ phase = [op \in Operations |-> "working"]
  /\ worker = [op \in Operations |-> "none"]
  /\ workspace = {}
  /\ asked = 0 /\ launch = "none"
  /\ claim = "running" /\ shell = TRUE /\ host = TRUE /\ stop = FALSE
  /\ updater = "none" /\ target = 0 /\ notes = {}
  /\ dest = "old" /\ incoming = "none" /\ previous = "none"
  /\ result = "none" /\ reopened = FALSE

---------------------------------------------------------------------------
(* The status in AppState; each action is one turn under its lock          *)

NextOperation ==
  /\ host
  /\ operation < MaxOperation
  /\ operation' = operation + 1

\* desktop_route: /api/app/update/check
Check ==
  /\ ~Busy
  /\ NextOperation
  /\ package' = FALSE
  /\ status' = "checking"
  /\ checks' = checks \cup {operation'}
  /\ UNCHANGED <<session, install, phase, jobVars, launchVars, processVars, updaterVars, result, reopened>>


\* What has been superseded does not touch the status
Latest(op) == operation = op

\* The second half of desktop_route
Checked(op, found) ==
  /\ host
  /\ op \in checks
  /\ checks' = checks \ {op}
  /\ IF ~stop /\ Latest(op)
     THEN status' = (IF found THEN "available" ELSE "failed") /\ package' = found
     ELSE UNCHANGED <<status, package>>
  /\ UNCHANGED <<session, operation, install, phase, jobVars, launchVars, processVars, updaterVars, result, reopened>>

\* UpdateState::expire
Expire ==
  /\ install = NoJob /\ Busy
  /\ NextOperation
  /\ status' = IF package THEN "available" ELSE "failed"
  /\ UNCHANGED <<session, package, install, checks, phase, jobVars, launchVars, processVars, updaterVars, result, reopened>>

\* start; a Host that is stopping spawns no worker
Install ==
  /\ ~Busy /\ package
  /\ NextOperation
  /\ IF stop
     THEN /\ status' = "failed"
          /\ phase' = [phase EXCEPT ![operation'] = "cancelled"]
          /\ UNCHANGED <<install, worker>>
     ELSE /\ status' = "downloading"
          /\ install' = [op |-> operation', session |-> session]
          /\ worker' = [worker EXCEPT ![operation'] = "started"]
          /\ UNCHANGED phase
  /\ UNCHANGED <<session, package, checks, workspace, launchVars, processVars, updaterVars, result, reopened>>

Cancellable == install # NoJob => phase[install.op] \notin {"activating", "committed"}

Cancel ==
  /\ Cancellable
  /\ NextOperation
  /\ phase' = IF install = NoJob THEN phase ELSE [phase EXCEPT ![install.op] = "cancelled"]
  /\ install' = NoJob
  /\ status' = "idle" /\ package' = FALSE
  /\ UNCHANGED <<session, checks, jobVars, launchVars, processVars, updaterVars, result, reopened>>

NewSession ==
  /\ host
  /\ session < MaxSession
  /\ session' = session + 1
  /\ UNCHANGED <<operation, status, package, install, checks, phase, jobVars, launchVars, processVars, updaterVars, result, reopened>>

---------------------------------------------------------------------------
(* The worker of an operation: run                                         *)

Work(op, from, to) ==
  /\ host
  /\ worker[op] = from
  /\ worker' = [worker EXCEPT ![op] = to]

CreateWorkspace(op) ==
  /\ Work(op, "started", "downloads")
  /\ workspace' = workspace \cup {op}
  /\ UNCHANGED <<stateVars, launchVars, processVars, updaterVars, result, reopened>>

\* The package has its size and its hash
Downloaded(op) ==
  /\ Work(op, "downloads", "prepares")
  /\ Latest(op)
  /\ status' = "installing"
  /\ UNCHANGED <<session, operation, package, install, checks, phase, workspace, launchVars, processVars, updaterVars, result, reopened>>

\* native::prepare; a job of an earlier session is not offered
Prepared(op) ==
  /\ Work(op, "prepares", "waits")
  /\ ~stop /\ Latest(op)
  /\ install = [op |-> op, session |-> session]
  /\ phase[op] = "working"
  /\ phase' = [phase EXCEPT ![op] = "prepared"]
  /\ status' = "prepared"
  /\ UNCHANGED <<session, operation, package, install, checks, workspace, launchVars, processVars, updaterVars, result, reopened>>


Abandons(op) == stop /\ phase[op] # "activating"

\* The worker sees a stop; it stores what it made of it in a second step
Abandon(op) ==
  /\ Work(op, "waits", "cancels")
  /\ Abandons(op) /\ phase[op] \notin {"committed", "cancelled"}
  /\ UNCHANGED <<stateVars, workspace, launchVars, processVars, updaterVars, result, reopened>>

StoreCancelled(op) ==
  /\ Work(op, "cancels", "fails")
  /\ phase' = [phase EXCEPT ![op] = "cancelled"]
  /\ UNCHANGED <<session, operation, status, package, install, checks, workspace, launchVars, processVars, updaterVars, result, reopened>>

\* An error, a cancellation, a stop or another session
Break(op) ==
  /\ \E from \in {"started", "downloads", "prepares"} : Work(op, from, "fails")
  /\ UNCHANGED <<stateVars, workspace, launchVars, processVars, updaterVars, result, reopened>>

Failed(op) ==
  /\ Work(op, "fails", "cleans")
  /\ IF ~stop /\ Latest(op)
     THEN status' = "failed" /\ install' = NoJob
     ELSE UNCHANGED <<status, install>>
  /\ UNCHANGED <<session, operation, package, checks, phase, workspace, launchVars, processVars, updaterVars, result, reopened>>

Decided(op) ==
  /\ Work(op, "waits", "cleans")
  /\ phase[op] \in {"committed", "cancelled"}
  /\ UNCHANGED <<stateVars, workspace, launchVars, processVars, updaterVars, result, reopened>>

\* The workspace of an update that was handed over belongs to the updater
Clean(op) ==
  /\ Work(op, "cleans", "done")
  /\ workspace' = IF phase[op] = "committed" THEN workspace ELSE workspace \ {op}
  /\ UNCHANGED <<stateVars, launchVars, processVars, updaterVars, result, reopened>>

---------------------------------------------------------------------------
(* Handing over                                                            *)

\* apply_desktop_update: claim_restart, once for an operation (desktop-platform.js)
Ask ==
  /\ shell /\ host
  /\ status = "prepared"
  /\ claim = "running" /\ claim' = "restarting"
  /\ asked # operation /\ asked' = operation
  /\ launch' = "asked"
  /\ UNCHANGED <<stateVars, jobVars, shell, host, stop, updaterVars, result, reopened>>

\* activate; between its look at `stop' and its store there is no other step here
Activate ==
  /\ host
  /\ launch = "asked"
  /\ ~stop /\ Latest(asked)
  /\ install = [op |-> asked, session |-> session]
  /\ phase[asked] = "prepared"
  /\ phase' = [phase EXCEPT ![asked] = "activating"]
  /\ status' = "restarting"
  /\ launch' = "begins"
  /\ UNCHANGED <<session, operation, package, install, checks, jobVars, asked, processVars, updaterVars, result, reopened>>

LaunchStep(from, to) ==
  /\ host
  /\ launch = from
  /\ launch' = to

\* The error reaches the shell: release_restart_after_preparation_failure
Released == claim' = IF shell /\ claim = "restarting" THEN "running" ELSE claim

RefuseActivation ==
  /\ LaunchStep("asked", "none")
  /\ \/ stop \/ ~Latest(asked)
     \/ install # [op |-> asked, session |-> session]
     \/ phase[asked] # "prepared"
  /\ Released
  /\ UNCHANGED <<stateVars, jobVars, asked, shell, host, stop, updaterVars, result, reopened>>

\* Handoff::begin, and a process of its own session
StartUpdater ==
  /\ LaunchStep("begins", "waits")
  /\ asked \in workspace
  /\ updater' = "starting" /\ target' = asked /\ notes' = {}
  /\ UNCHANGED <<stateVars, jobVars, asked, processVars, dest, incoming, previous, result, reopened>>

UpdaterDoesNotStart ==
  /\ LaunchStep("begins", "refuses")
  /\ UNCHANGED <<stateVars, jobVars, asked, processVars, updaterVars, result, reopened>>

\* wait_ready
SeeReady ==
  /\ LaunchStep("waits", "answers")
  /\ "ready" \in notes /\ asked \in workspace
  /\ UNCHANGED <<stateVars, jobVars, asked, processVars, updaterVars, result, reopened>>

\* An error, an updater that has ended, or START_TIMEOUT
GiveUpWaiting ==
  /\ LaunchStep("waits", "kills")
  /\ UNCHANGED <<stateVars, jobVars, asked, processVars, updaterVars, result, reopened>>

Acknowledge ==
  /\ \/ LaunchStep("answers", "acknowledged") /\ asked \in workspace /\ notes' = notes \cup {"ack"}
     \/ LaunchStep("answers", "kills") /\ UNCHANGED notes
  /\ UNCHANGED <<stateVars, jobVars, asked, processVars, updater, target, dest, incoming, previous, result, reopened>>

\* Its error is ignored
KillUpdater ==
  /\ LaunchStep("kills", "refuses")
  /\ updater' \in {updater, "gone"}
  /\ UNCHANGED <<stateVars, jobVars, asked, processVars, target, notes, dest, incoming, previous, result, reopened>>

Refuse ==
  /\ LaunchStep("refuses", "none")
  /\ IF Latest(asked)
     THEN status' = "failed" /\ install' = NoJob /\ package' = FALSE
     ELSE UNCHANGED <<status, install, package>>
  /\ phase' = [phase EXCEPT ![asked] = "cancelled"]
  /\ Released
  /\ UNCHANGED <<session, operation, checks, jobVars, asked, shell, host, stop, updaterVars, result, reopened>>

Commit ==
  /\ LaunchStep("acknowledged", "committed")
  /\ phase' = [phase EXCEPT ![asked] = "committed"]
  /\ UNCHANGED <<session, operation, status, package, install, checks, jobVars, asked, processVars, updaterVars, result, reopened>>

---------------------------------------------------------------------------
(* The two processes                                                       *)

\* The window is closed: claim_window_shutdown
CloseWindow ==
  /\ shell
  /\ claim = "running" /\ claim' = "exiting"
  /\ UNCHANGED <<stateVars, jobVars, launchVars, shell, host, stop, updaterVars, result, reopened>>

\* backend_process::shutdown, or a parent that is gone
StopHost ==
  /\ host /\ ~stop
  /\ ~shell \/ claim = "exiting" \/ launch = "committed"
  /\ stop' = TRUE
  /\ UNCHANGED <<stateVars, jobVars, launchVars, claim, shell, host, updaterVars, result, reopened>>

\* The Host has wound down, or is killed
HostEnds ==
  /\ host
  /\ host' = FALSE
  /\ UNCHANGED <<stateVars, jobVars, launchVars, claim, shell, stop, updaterVars, result, reopened>>

\* The shell leaves after the Host, or dies
ShellEnds ==
  /\ shell
  /\ shell' = FALSE
  /\ UNCHANGED <<stateVars, jobVars, launchVars, claim, host, stop, updaterVars, result, reopened>>

---------------------------------------------------------------------------
(* The updater: run_from_plan, apply_with_rename                           *)

UpdaterStep(from, to) ==
  /\ updater = from
  /\ updater' = to

\* The plan is valid, the workspace leased, the log open, the owners pinned
BeReady ==
  /\ UpdaterStep("starting", "readied")
  /\ target \in workspace
  /\ notes' = notes \cup {"ready"}
  /\ UNCHANGED <<stateVars, jobVars, launchVars, processVars, target, dest, incoming, previous, result, reopened>>

DoesNotGetReady ==
  /\ UpdaterStep("starting", "gone")
  /\ UNCHANGED <<stateVars, jobVars, launchVars, processVars, target, notes, dest, incoming, previous, result, reopened>>


Acknowledged == "ack" \in notes /\ target \in workspace

SeeAck ==
  /\ UpdaterStep("readied", "waits")
  /\ Acknowledged
  /\ UNCHANGED <<stateVars, jobVars, launchVars, processVars, target, notes, dest, incoming, previous, result, reopened>>

\* ACK_TIMEOUT is longer than START_TIMEOUT: the updater gives up after a Host
\* that could still answer it
AckOverdue == ~host \/ launch \notin {"begins", "waits", "answers", "acknowledged"}

GiveUpOnAck ==
  /\ UpdaterStep("readied", "gone")
  /\ AckOverdue /\ "ack" \notin notes
  /\ UNCHANGED <<stateVars, jobVars, launchVars, processVars, target, notes, dest, incoming, previous, result, reopened>>

\* Fault: only the Host is waited for
OwnersGone_HostOnly == ~host

OwnersGone == ~host /\ ~shell

\* wait_for_owners
OwnersExit ==
  /\ UpdaterStep("waits", "copies")
  /\ OwnersGone
  /\ UNCHANGED <<stateVars, jobVars, launchVars, processVars, target, notes, dest, incoming, previous, result, reopened>>

\* OWNER_WAIT: nothing is changed and nothing opened
OwnersStay ==
  /\ UpdaterStep("waits", "ended")
  /\ host \/ shell
  /\ result' = "owners_running"
  /\ UNCHANGED <<stateVars, jobVars, launchVars, processVars, target, notes, dest, incoming, previous, reopened>>

\* copy_tree, of the package and of the data that is kept
Copy ==
  /\ \/ UpdaterStep("copies", "copied") /\ target \in workspace /\ incoming' = "new"
     \/ UpdaterStep("copies", "failed") /\ incoming' = "partial"
  /\ UNCHANGED <<stateVars, jobVars, launchVars, processVars, target, notes, dest, previous, result, reopened>>

\* A rename is retried while the files are in use, and then fails
MoveAside ==
  /\ \/ UpdaterStep("copied", "aside") /\ previous' = dest /\ dest' = "none"
     \/ UpdaterStep("copied", "failed") /\ UNCHANGED <<previous, dest>>
  /\ UNCHANGED <<stateVars, jobVars, launchVars, processVars, target, notes, incoming, result, reopened>>

MoveIn ==
  /\ \/ UpdaterStep("aside", "installed") /\ dest' = incoming /\ incoming' = "none"
     \/ UpdaterStep("aside", "restores") /\ UNCHANGED <<dest, incoming>>
  /\ UNCHANGED <<stateVars, jobVars, launchVars, processVars, target, notes, previous, result, reopened>>

PutBack ==
  /\ \/ UpdaterStep("restores", "failed") /\ dest' = previous /\ previous' = "none"
     \/ UpdaterStep("restores", "failed") /\ UNCHANGED <<dest, previous>>
  /\ UNCHANGED <<stateVars, jobVars, launchVars, processVars, target, notes, incoming, result, reopened>>

\* Without an installation the staged package is kept for the user
Disposable == dest # "none"

\* report; the result lies with the data
Report ==
  /\ updater \in {"installed", "failed"}
  /\ result' = updater
  /\ incoming' = IF updater = "failed" /\ Disposable THEN "none" ELSE incoming
  /\ updater' = IF dest = "none" THEN "ended" ELSE "reported"
  /\ UNCHANGED <<stateVars, jobVars, launchVars, processVars, target, notes, dest, previous, reopened>>

\* An application that could not be opened leaves the result for the next start
Reopen ==
  /\ UpdaterStep("reported", "reopened")
  /\ \/ reopened' = TRUE /\ UNCHANGED result
     \/ result' = (IF previous = "none" THEN "failed" ELSE "installed") /\ UNCHANGED reopened
  /\ UNCHANGED <<stateVars, jobVars, launchVars, processVars, target, notes, dest, incoming, previous>>

\* On Unix the updater removes its own workspace
UpdaterEnds ==
  /\ UpdaterStep("reopened", "ended")
  /\ workspace' \in {workspace, workspace \ {target}}
  /\ UNCHANGED <<stateVars, worker, launchVars, processVars, target, notes, dest, incoming, previous, result, reopened>>

UpdaterDies ==
  /\ updater \notin {"none", "gone", "ended", "dead"}
  /\ updater' = "dead"
  /\ UNCHANGED <<stateVars, jobVars, launchVars, processVars, target, notes, dest, incoming, previous, result, reopened>>

---------------------------------------------------------------------------
(* The next application.  Bound: it does not update itself again           *)

OpenByHand ==
  /\ ~shell /\ ~host
  /\ dest # "none"
  /\ reopened' = TRUE
  /\ UNCHANGED <<stateVars, jobVars, launchVars, processVars, updaterVars, result>>

\* The updater holds the lease of its workspace while it runs
LeaseFree == updater \in {"gone", "ended", "dead"}

\* take_last_result, cleanup_workspace
TakeResult ==
  /\ reopened
  /\ result # "none" /\ result' = "none"
  /\ \/ LeaseFree /\ dest # "none" /\ workspace' = workspace \ {target}
     \/ UNCHANGED workspace
  /\ UNCHANGED <<stateVars, worker, launchVars, processVars, updaterVars, reopened>>

StatusSteps ==
  \/ Check \/ Expire \/ Install \/ Cancel \/ NewSession
  \/ \E op \in Operations, found \in BOOLEAN : Checked(op, found)

WorkerSteps ==
  \E op \in Operations :
    \/ CreateWorkspace(op) \/ Downloaded(op) \/ Prepared(op) \/ Abandon(op) \/ StoreCancelled(op)
    \/ Break(op) \/ Failed(op) \/ Decided(op) \/ Clean(op)

HandoverSteps ==
  \/ Ask \/ Activate \/ RefuseActivation \/ StartUpdater \/ UpdaterDoesNotStart \/ SeeReady
  \/ GiveUpWaiting \/ Acknowledge \/ KillUpdater \/ Refuse \/ Commit

ProcessSteps == CloseWindow \/ StopHost \/ HostEnds \/ ShellEnds \/ OpenByHand \/ TakeResult

UpdaterSteps ==
  \/ BeReady \/ DoesNotGetReady \/ SeeAck \/ GiveUpOnAck \/ OwnersExit \/ OwnersStay
  \/ Copy \/ MoveAside \/ MoveIn \/ PutBack \/ Report \/ Reopen \/ UpdaterEnds \/ UpdaterDies

DUNext == StatusSteps \/ WorkerSteps \/ HandoverSteps \/ ProcessSteps \/ UpdaterSteps

DUSpec == DUInit /\ [][DUNext]_duVars

---------------------------------------------------------------------------
(* Properties                                                              *)

DUTypeOK ==
  /\ session \in 1..MaxSession
  /\ operation \in 0..MaxOperation
  /\ status \in JobStates \cup {"idle", "checking", "available", "failed"}
  /\ package \in BOOLEAN
  /\ install \in [op : 0..MaxOperation, session : 0..MaxSession]
  /\ checks \subseteq Operations
  /\ phase \in [Operations -> {"working", "prepared", "activating", "committed", "cancelled"}]
  /\ workspace \subseteq Operations
  /\ asked \in 0..MaxOperation
  /\ dest \in {"old", "new", "none"}
  /\ incoming \in {"new", "partial", "none"}
  /\ previous \in {"old", "none"}




\* Files change only when the Host has acknowledged the updater and both processes of
\* the application have ended (run_from_plan, wait_for_owners).
SwappedAfterExit ==
  [][<<dest, incoming, previous>>' # <<dest, incoming, previous>>
       => "ack" \in notes /\ ~host /\ ~shell]_duVars
=============================================================================
