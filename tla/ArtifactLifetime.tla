-------------------------- MODULE ArtifactLifetime --------------------------
(***************************************************************************)
(* The lifetime of cached media on disk                                    *)
(* (rust-runtime/src/app_state/artifact_lifetime.rs), composed with the    *)
(* authority over cache attempts.                                          *)
(*                                                                         *)
(* An artifact is a directory named by the token that reserved it.  Its    *)
(* executor downloads it under .staging, asks for authority to publish,    *)
(* renames it to artifacts/ without holding any lock, registers it and     *)
(* reports Ready; the report reaches AppState later, and may reach it      *)
(* again.  The collector renames artifacts nobody uses to .retired under   *)
(* the AppState lock and deletes them after releasing it, while players    *)
(* claim them, HTTP readers hold them, and the Host closes, reopens and    *)
(* re-initialises the lifetime.                                            *)
(*                                                                         *)
(* This is the lifetime as every Host sees it; the discovery of old        *)
(* artifacts when a native Host starts is not part of it.                  *)
(***************************************************************************)
EXTENDS CacheAttempts

CONSTANTS
  Clients,   \* Host clients that mount playback programs
  Handles,   \* reader handles that may be out at the same time
  MaxOwner   \* how often the lifetime is opened

ASSUME ArtifactLifetimeAssumption == MaxOwner \in Nat

VARIABLES
  opened,             \* owner tokens drawn so far; each is fresh
  owner,              \* owner token, 0 while no root is configured
  closed,
  outstanding,        \* lifetime.attempts: reservations with an executor
  known,              \* registered artifacts
  retired,            \* "no", "waiting" for deletion or "deleting"
  programs,           \* artifact of the program of each generation, 0 if none
  claims,             \* programs mounted by clients
  retiredGenerations, \* per client, the last generation it gave up
  readers,            \* artifact held under each handle, 0 if none
  executor,           \* how far the executor of each token has come
  area,               \* where the directory of each token is on disk
  jobs                \* deletions under way outside the lock

lifetimeVars ==
  <<opened, owner, closed, outstanding, known, retired, programs, claims,
    retiredGenerations, readers>>
alVars == <<caVars, lifetimeVars, executor, area, jobs>>

Generations == 1 .. MaxGeneration
Claims == [client : Clients, generation : Generations, key : Tokens]
Jobs == [key : Tokens, owner : 1 .. MaxOwner, outcome : {"running", "deleted", "kept"}]
Areas == {"none", "staging", "artifacts", "retired"}
\* "none": no executor; "dropped": taken off the queue before it ran
Phases == {"none", "dropped", "working", "authorized", "published"} \cup TerminalEvents

ALTypeOK ==
  /\ CATypeOK
  /\ opened \in 0 .. MaxOwner
  /\ owner \in 0 .. MaxOwner
  /\ closed \in BOOLEAN
  /\ outstanding \subseteq Tokens
  /\ known \subseteq Tokens
  /\ retired \in [Tokens -> {"no", "waiting", "deleting"}]
  /\ programs \in [Generations -> 0 .. MaxToken]
  /\ claims \subseteq Claims
  /\ retiredGenerations \in [Clients -> 0 .. MaxGeneration]
  /\ readers \in [Handles -> 0 .. MaxToken]
  /\ executor \in [Tokens -> Phases]
  /\ area \in [Tokens -> Areas]
  /\ jobs \subseteq Jobs

\* artifact_protected
Protected(t) ==
  \/ \E i \in Live : committed[i] = t
  \/ t \in outstanding
  \/ \E c \in claims : c.key = t
  \/ \E h \in Handles : readers[h] = t

DrainPending ==
  \/ \E h \in Handles : readers[h] # 0
  \/ \E t \in Tokens : retired[t] # "no"
  \/ closed /\ known # {}

\* observe_artifact_program, after every request AppState executes
ObserveProgram ==
  programs' =
    IF up' /\ current' # NoItem /\ committed'[current'] # 0
      THEN [programs EXCEPT ![generation'] = committed'[current']]
      ELSE programs

ALInit ==
  /\ CAInit
  /\ opened = 0
  /\ owner = 0
  /\ closed = FALSE
  /\ outstanding = {}
  /\ known = {}
  /\ retired = [t \in Tokens |-> "no"]
  /\ programs = [g \in Generations |-> 0]
  /\ claims = {}
  /\ retiredGenerations = [c \in Clients |-> 0]
  /\ readers = [h \in Handles |-> 0]
  /\ executor = [t \in Tokens |-> "none"]
  /\ area = [t \in Tokens |-> "none"]
  /\ jobs = {}

-----------------------------------------------------------------------------
(* Requests that AppState executes. *)

\* A new lifetime starts empty; executors of the old one are still at work
InitializeApp(n, seats, cur) ==
  /\ ~DrainPending
  /\ Initialize(n, seats, cur)
  /\ owner' = 0
  /\ closed' = FALSE
  /\ outstanding' = {}
  /\ known' = {}
  /\ retired' = [t \in Tokens |-> "no"]
  /\ programs' = [g \in Generations |-> 0]
  /\ claims' = {}
  /\ retiredGenerations' = [c \in Clients |-> 0]
  /\ readers' = [h \in Handles |-> 0]
  /\ UNCHANGED <<opened, executor, area, jobs>>

ShutdownApp ==
  /\ Shutdown
  /\ closed' = TRUE
  /\ claims' = {}
  /\ UNCHANGED <<opened, owner, outstanding, known, retired, programs,
                 retiredGenerations, readers, executor, area, jobs>>

\* The mutations that concern no executor
Mutate ==
  /\ \/ \E n \in 0 .. MaxIncarnation : \E seats \in Placements(n), cur \in Items \cup {NoItem} :
          ReplaceLiveItems(n, seats, cur)
     \/ ClearPlaylist
     \/ \E i \in Items : AddItem(i) \/ RemoveItem(i)
     \/ \E next \in Items \cup {NoItem} : PlayNext(next) \/ PlayWaiting(next)
     \/ RestartProgram
     \/ \E i \in Items, e \in {"failed", "evicted", "reset"} : EndAtOnce(i, e)
  /\ ObserveProgram
  /\ UNCHANGED <<opened, owner, closed, outstanding, known, retired, claims,
                 retiredGenerations, readers, executor, area, jobs>>

\* The reservation is tracked from the moment it exists
Begin(i) ==
  /\ BeginAttempt(i)
  /\ outstanding' = outstanding \cup {issued + 1}
  /\ executor' = [executor EXCEPT ![issued + 1] = "working"]
  /\ area' = [area EXCEPT ![issued + 1] = "staging"]
  /\ ObserveProgram
  /\ UNCHANGED <<opened, owner, closed, known, retired, claims,
                 retiredGenerations, readers, jobs>>

\* project_problem, when the event of the attempt it reserved cannot be committed:
\* the reservation stays, without an executor
Strand(i) ==
  /\ BeginAttempt(i)
  /\ outstanding' = outstanding \cup {issued + 1}
  /\ ObserveProgram
  /\ UNCHANGED <<opened, owner, closed, known, retired, claims,
                 retiredGenerations, readers, executor, area, jobs>>

-----------------------------------------------------------------------------
(* Executors. *)

Advance(t, from, to, where) ==
  /\ executor[t] = from
  /\ executor' = [executor EXCEPT ![t] = to]
  /\ area' = [area EXCEPT ![t] = where]

\* The download fails or is cancelled, or a queued job is dropped
Stop(t, outcome) ==
  /\ Advance(t, "working", outcome, "none")
  /\ UNCHANGED <<caVars, lifetimeVars, jobs>>

\* authorize_cache_publication_for_runtime
Authorize(t) ==
  /\ OwnsItem(reservation[t].item, t)
  /\ terminal[reservation[t].item] = "none"
  /\ Advance(t, "working", "authorized", "staging")
  /\ UNCHANGED <<caVars, lifetimeVars, jobs>>

\* publish_directory_no_replace, long after the authority was given
Publish(t) ==
  /\ \/ Advance(t, "authorized", "published", "artifacts")
     \/ Advance(t, "authorized", "failed", "none")
  /\ UNCHANGED <<caVars, lifetimeVars, jobs>>

\* Fault: registration trusts the name and does not look at the artifact
CanRegister_ByName(t) == owner # 0

CanRegister(t) ==
  t \in outstanding /\ owner # 0 /\ retired[t] = "no" /\ area[t] = "artifacts"

\* register_runtime_publication; refused, the attempt fails and its directory
\* stays where it is
Register(t) ==
  /\ IF CanRegister(t)
       THEN known' = known \cup {t} /\ Advance(t, "published", "ready", "artifacts")
       ELSE known' = known /\ Advance(t, "published", "failed", "artifacts")
  /\ UNCHANGED <<caVars, opened, owner, closed, outstanding, retired, programs,
                 claims, retiredGenerations, readers, jobs>>

\* publish_external_artifact: an executor of the Host publishes under the lock
PublishExternal(t) ==
  /\ t \in outstanding
  /\ ~closed
  /\ OwnsItem(reservation[t].item, t)
  /\ owner # 0
  /\ Advance(t, "working", "ready", "artifacts")
  /\ known' = known \cup {t}
  /\ UNCHANGED <<caVars, opened, owner, closed, outstanding, retired, programs,
                 claims, retiredGenerations, readers, jobs>>

\* A report before the terminal one
Report(t, e) ==
  /\ executor[t] # "none"
  /\ ApplyEvent(reservation[t].item, t, e, FALSE)
  /\ ObserveProgram
  /\ UNCHANGED <<opened, owner, closed, outstanding, known, retired, claims,
                 retiredGenerations, readers, executor, area, jobs>>

\* Fault: a Ready event is applied without looking for its artifact
Deliver_Unregistered(t) ==
  /\ executor[t] \in TerminalEvents
  /\ LET i == reservation[t].item
     IN  IF Accepts(i, t, executor[t], FALSE)
           THEN ApplyEvent(i, t, executor[t], FALSE)
           ELSE UNCHANGED caVars
  /\ outstanding' = outstanding \ {t}
  /\ ObserveProgram
  /\ UNCHANGED <<opened, owner, closed, known, retired, claims,
                 retiredGenerations, readers, executor, area, jobs>>

\* The terminal event of an attempt, for the first time or again: register a
\* Ready artifact, apply the event or refuse it, settle the reservation.
Deliver(t) ==
  /\ executor[t] \in TerminalEvents
  /\ known' = IF executor[t] = "ready" /\ CanRegister(t) THEN known \cup {t} ELSE known
  /\ LET i == reservation[t].item
         registered == executor[t] = "ready" => owner = 0 \/ t \in known'
     IN  IF registered /\ Accepts(i, t, executor[t], FALSE)
           THEN ApplyEvent(i, t, executor[t], FALSE)
           ELSE UNCHANGED caVars
  /\ outstanding' = outstanding \ {t}
  /\ ObserveProgram
  /\ UNCHANGED <<opened, owner, closed, retired, claims, retiredGenerations,
                 readers, executor, area, jobs>>

\* Fault: settling a reservation also takes the song from its attempt
Settle_Forgets(t) ==
  /\ executor[t] \in TerminalEvents \cup {"dropped"}
  /\ t \in outstanding
  /\ outstanding' = outstanding \ {t}
  /\ attempt' = [i \in Items |-> IF attempt[i] = t THEN 0 ELSE attempt[i]]
  /\ UNCHANGED <<up, incarnation, current, status, committed, terminal, issued,
                 reservation, nextIncarnation, generation, opened, owner, closed,
                 known, retired, programs, claims, retiredGenerations, readers,
                 executor, area, jobs>>

\* A reservation is given up without an event: a dropped job, a drained runtime
\* (its finished jobs included, their events still queued), FinishAttempts
Settle(t) ==
  /\ executor[t] \in TerminalEvents \cup {"dropped"}
  /\ t \in outstanding
  /\ outstanding' = outstanding \ {t}
  /\ UNCHANGED <<caVars, opened, owner, closed, known, retired, programs, claims,
                 retiredGenerations, readers, executor, area, jobs>>

-----------------------------------------------------------------------------
(* Users: owners, players and readers. *)

\* Fault: the lifetime is handed over while deletions run
CanOpen_WhileDeleting ==
  owner # 0 => closed /\ \A h \in Handles : readers[h] = 0

CanOpen ==
  owner # 0 => /\ closed
               /\ \A h \in Handles : readers[h] = 0
               /\ \A t \in Tokens : retired[t] # "deleting"

Open ==
  /\ up
  /\ CanOpen
  /\ opened < MaxOwner
  /\ opened' = opened + 1
  /\ owner' = opened + 1
  /\ closed' = FALSE
  /\ UNCHANGED <<caVars, outstanding, known, retired, programs, claims,
                 retiredGenerations, readers, executor, area, jobs>>

Close ==
  /\ owner # 0
  /\ closed' = TRUE
  /\ claims' = {}
  /\ UNCHANGED <<caVars, opened, owner, outstanding, known, retired, programs,
                 retiredGenerations, readers, executor, area, jobs>>

\* What an admission asks of an artifact, for a claim and for a reader
Admissible(t) == owner # 0 /\ ~closed /\ t \in known /\ retired[t] = "no"

Claim(c, g) ==
  /\ programs[g] # 0
  /\ Admissible(programs[g])
  /\ g > retiredGenerations[c]
  /\ claims' = claims \cup {[client |-> c, generation |-> g, key |-> programs[g]]}
  /\ UNCHANGED <<caVars, opened, owner, closed, outstanding, known, retired, programs,
                 retiredGenerations, readers, executor, area, jobs>>

\* The client gives the program of a generation up, claimed or not
Retire(c, g) ==
  /\ owner # 0
  /\ ~closed
  /\ programs[g] # 0
  /\ retiredGenerations' =
       [retiredGenerations EXCEPT ![c] = IF g > @ THEN g ELSE @]
  /\ claims' = claims \ {[client |-> c, generation |-> g, key |-> programs[g]]}
  /\ UNCHANGED <<caVars, opened, owner, closed, outstanding, known, retired, programs,
                 readers, executor, area, jobs>>

AcquireReader(h, t) ==
  /\ Admissible(t)
  /\ readers[h] = 0
  /\ readers' = [readers EXCEPT ![h] = t]
  /\ UNCHANGED <<caVars, opened, owner, closed, outstanding, known, retired, programs,
                 claims, retiredGenerations, executor, area, jobs>>

ReleaseReader(h) ==
  /\ readers[h] # 0
  /\ readers' = [readers EXCEPT ![h] = 0]
  /\ UNCHANGED <<caVars, opened, owner, closed, outstanding, known, retired, programs,
                 claims, retiredGenerations, executor, area, jobs>>

-----------------------------------------------------------------------------
(* The collector. *)

Collectable == {t \in known : ~Protected(t)}

\* prepare_artifact_collection: S are the artifacts whose rename succeeds; every
\* retired artifact that nobody deletes yet becomes a job of this pass
Prepare(S) ==
  LET waiting == S \cup {t \in Tokens : retired[t] = "waiting"}
  IN  /\ owner # 0
      /\ waiting # {}
      /\ known' = known \ S
      /\ programs' = [g \in Generations |-> IF programs[g] \in S THEN 0 ELSE programs[g]]
      /\ area' = [t \in Tokens |-> IF t \in S THEN "retired" ELSE area[t]]
      /\ retired' = [t \in Tokens |-> IF t \in waiting THEN "deleting" ELSE retired[t]]
      /\ jobs' = jobs \cup {[key |-> t, owner |-> owner, outcome |-> "running"] : t \in waiting}
      /\ UNCHANGED <<caVars, opened, owner, closed, outstanding, claims,
                     retiredGenerations, readers, executor>>

\* RetiredArtifact::delete, outside the lock
Delete(j, outcome) ==
  /\ j.outcome = "running"
  /\ jobs' = (jobs \ {j}) \cup {[j EXCEPT !.outcome = outcome]}
  /\ area' = IF outcome = "deleted" THEN [area EXCEPT ![j.key] = "none"] ELSE area
  /\ UNCHANGED <<caVars, lifetimeVars, executor>>


\* finish_artifact_collection
Finish(j) ==
  /\ j.outcome # "running"
  /\ jobs' = jobs \ {j}
  /\ retired' =
       IF owner # j.owner \/ retired[j.key] = "no" THEN retired
       ELSE [retired EXCEPT ![j.key] = IF j.outcome = "deleted" THEN "no" ELSE "waiting"]
  /\ UNCHANGED <<caVars, opened, owner, closed, outstanding, known, programs, claims,
                 retiredGenerations, readers, executor, area>>

-----------------------------------------------------------------------------
Requests ==
  \/ \E n \in 0 .. MaxIncarnation : \E seats \in Placements(n), cur \in Items \cup {NoItem} :
       InitializeApp(n, seats, cur)
  \/ ShutdownApp
  \/ Mutate
  \/ \E i \in Items : Begin(i) \/ Strand(i)

Executors ==
  \E t \in 1 .. issued :
    \/ \E outcome \in {"failed", "cancelled", "dropped"} : Stop(t, outcome)
    \/ Authorize(t)
    \/ Publish(t)
    \/ Register(t)
    \/ PublishExternal(t)
    \/ \E e \in {"queued", "started", "progress"} : Report(t, e)
    \/ Deliver(t)
    \/ Settle(t)

Users ==
  \/ Open
  \/ Close
  \/ \E c \in Clients, g \in Generations : Claim(c, g) \/ Retire(c, g)
  \/ \E h \in Handles, t \in Tokens : AcquireReader(h, t)
  \/ \E h \in Handles : ReleaseReader(h)

Collector ==
  \/ \E S \in SUBSET Collectable : Prepare(S)
  \/ \E j \in jobs : Finish(j) \/ \E outcome \in {"deleted", "kept"} : Delete(j, outcome)

ALNext == Requests \/ Executors \/ Users \/ Collector

ALSpec == ALInit /\ [][ALNext]_alVars

-----------------------------------------------------------------------------
InUse(t) ==
  \/ \E i \in Live : committed[i] = t
  \/ \E c \in claims : c.key = t
  \/ \E h \in Handles : readers[h] = t

\* An artifact that a live song names, a player has mounted or a reader holds is
\* registered and on disk where its URL says, whatever the collector, late
\* executors, the end of a session and a change of owner do meanwhile.
InUseIntact ==
  \A t \in Tokens : InUse(t) => t \in known /\ area[t] = "artifacts" /\ retired[t] = "no"

\* A deletion that runs outside the lock has the lifetime's present owner behind
\* it and a directory to itself: neither a reopening nor a re-initialisation
\* passes it by, and no second pass takes the same directory.
DeletionsOwned ==
  \A j \in jobs :
    /\ j.owner = owner
    /\ retired[j.key] = "deleting"
    /\ area[j.key] \in {"retired", "none"}
    /\ \A k \in jobs : k.key = j.key => k = j

\* A player that mounted the program of a generation finds its claim under that
\* generation for as long as it holds it: no later program reuses the number.
ClaimsNamePrograms ==
  \A c \in claims : programs[c.generation] = c.key

\* What the collector has taken away never comes back, even when the Ready event
\* of its attempt is delivered again.
StaysRetired ==
  [][\A t \in Tokens : area[t] = "retired" =>
       area'[t] \in {"retired", "none"} /\ t \notin known']_alVars

\* What makes these inductive.  The tables, the disk and the executor of a token
\* agree: only a ready executor has published, and what is retired is not registered.
TokensAgree ==
  \A t \in Tokens :
    /\ t > issued => executor[t] = "none"
    /\ t \in known => executor[t] = "ready" /\ area[t] = "artifacts" /\ retired[t] = "no"
    /\ retired[t] # "no" => executor[t] = "ready" /\ area[t] \in {"retired", "none"}
    /\ area[t] = "retired" => executor[t] = "ready"

\* Without an owner nothing has been published by an attempt that holds a song.
NothingUnowned ==
  owner = 0 => \A i \in Items :
    committed[i] = 0 /\ (attempt[i] # 0 => executor[attempt[i]] # "ready")

\* No program is known of a generation to come; the one of the present generation
\* is the artifact of the current song.
ProgramsKeptUp ==
  up => \A g \in Generations : programs[g] # 0 =>
    \/ g < generation
    \/ g = generation /\ current # NoItem /\ committed[current] = programs[g]

ALInv ==
  /\ ALTypeOK /\ CAInv
  /\ TokensAgree /\ NothingUnowned /\ ProgramsKeptUp
  /\ InUseIntact /\ DeletionsOwned /\ ClaimsNamePrograms

-----------------------------------------------------------------------------
\* Executors come to an end and their attempts are settled, readers let go, every
\* Host collects again after each of these, and a deletion that is tried again and
\* again succeeds at last.  Nothing is assumed of requests, players and owners.
Fairness ==
  /\ \A t \in Tokens :
       /\ WF_alVars(\/ Stop(t, "failed") \/ Authorize(t) \/ Publish(t) \/ Register(t))
       /\ WF_alVars(executor[t] # "dropped" /\ Settle(t))
  /\ \A h \in Handles : WF_alVars(ReleaseReader(h))
  /\ WF_alVars(Prepare(Collectable))
  /\ SF_alVars(\E j \in jobs : Delete(j, "deleted"))
  /\ WF_alVars(\E j \in jobs : Finish(j))

ALFairSpec == ALSpec /\ Fairness

=============================================================================
