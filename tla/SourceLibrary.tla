---------------------------- MODULE SourceLibrary ----------------------------
(***************************************************************************)
(* The local catalog of the native Host: the uploaders and favourite       *)
(* folders it follows, the queue of additions, and the two lanes that pull *)
(* them from Bilibili (library.rs, library/source_queue.rs,                *)
(* status_service.rs, gatcha_refresh/source_tasks.rs).  A refresh of every *)
(* configured source and one single-source job may overlap; pulls of the   *)
(* same source in one round share one flight.  Users add and delete        *)
(* sources, and sign in and out, at any point of a pull.                   *)
(*                                                                         *)
(* A source is an uploader or a folder; all folders have one owner.  A job *)
(* of the queue is the set of its sources: one uploader, or folders.       *)
(***************************************************************************)
EXTENDS Integers, Sequences, FiniteSets, SequencesExt

CONSTANTS Uids, Folders,
          NoSource,
          QueueLimit,   \* length of the queue (100 in the code)
          MaxEpoch,     \* bound: credential changes
          MaxAsk        \* bound: requests of the users

Sources == Uids \cup Folders
ASSUME NoSourceIsNone == NoSource \notin Sources

VARIABLES members,   \* the sources of the list
          songs,     \* the sources whose songs are stored
          pending,   \* queue: the jobs that wait
          active,    \* queue: what is left of the job that runs, or {}
          failed,    \* queue: the jobs offered for a retry
          lane,      \* the leases "refresh" and "source" and their workers
          shared,    \* the round new pulls join, or 0
          flights,   \* per round and source: Vacant, Airborne or the epoch that fetched it
          epoch,     \* credential changes so far
          signedIn,
          intent,    \* refresh that waits for admission after a sign-in
          asks,
          deleted    \* history: sources whose last request is a deletion

vars == <<members, songs, pending, active, failed, lane, shared, flights, epoch, signedIn,
          intent, asks, deleted>>
queue == <<pending, active, failed>>

Lanes == {"refresh", "source"}
Other(l) == IF l = "refresh" THEN "source" ELSE "refresh"
Vacant == 0
Airborne == -1
Rounds == 1..2
Jobs == {{u} : u \in Uids} \cup (SUBSET Folders \ {{}})

Idle == [kind |-> "idle", epoch |-> 0, round |-> 0, wide |-> FALSE, phase |-> "none",
         todo |-> {}, at |-> NoSource, step |-> "rest", knew |-> {},
         good |-> {}, bad |-> {}, broken |-> FALSE]

On(l) == lane[l].kind # "idle"
\* RefreshControl::check: the credentials the task started with were replaced
Stopped(l) == lane[l].epoch # epoch

-----------------------------------------------------------------------------
(* Admission *)

\* reserve_for and begin_source_refresh: a single-source job
SourceFits == ~On("source") /\ (On("refresh") => lane["refresh"].wide)
\* the same for a refresh: an ordinary one and a conversion of old files run alone
RefreshFits(auto, safe) ==
  /\ ~On("refresh")
  /\ lane["source"].kind # "removal"
  /\ On("source") => auto /\ safe
RemovalFits == ~On("source") /\ ~On("refresh")

FreshRound(l) == CHOOSE r \in Rounds : On(Other(l)) => lane[Other(l)].round # r
\* attach_source_round
JoinedRound(l) == IF shared # 0 THEN shared ELSE FreshRound(l)
Start(l, kind, wide, job) ==
  /\ lane' = [lane EXCEPT ![l] = [Idle EXCEPT !.kind = kind, !.epoch = epoch, !.wide = wide,
                !.round = JoinedRound(l), !.todo = job,
                !.phase = IF l = "refresh" THEN "uids" ELSE "survey"]]
  /\ shared' = JoinedRound(l)
  /\ flights' = IF shared # 0 THEN flights
                ELSE [flights EXCEPT ![FreshRound(l)] = [s \in Sources |-> Vacant]]

Asked == asks < MaxAsk /\ asks' = asks + 1

-----------------------------------------------------------------------------
(* The queue *)

Without(s) == SelectSeq([i \in DOMAIN pending |-> pending[i] \ {s}], LAMBDA j : j # {})
RemoveFromQueue(s) ==
  /\ pending' = Without(s)
  /\ active' = active \ {s}
  /\ failed' = {j \in {[k EXCEPT !.ids = @ \ {s}] : k \in failed} : j.ids # {}}

\* Waiting selections of one owner's folders become one job.
Mergeable(job) == {i \in DOMAIN pending : job \subseteq Folders /\ pending[i] \subseteq Folders}
Enqueue(job) ==
  /\ Asked
  /\ job \subseteq Uids => signedIn
  /\ IF job = active \/ job \in Range(pending) THEN UNCHANGED pending
     ELSE \/ \E i \in Mergeable(job) : pending' = [pending EXCEPT ![i] = @ \cup job]
          \/ /\ Mergeable(job) = {} /\ Len(pending) < QueueLimit
             /\ pending' = Append(pending, job)
  /\ deleted' = deleted \ job
  /\ UNCHANGED <<members, songs, active, failed, lane, shared, flights, epoch, signedIn, intent>>

\* source_queue::run_next of the coordinator
RunNext ==
  /\ pending # <<>>
  /\ SourceFits
  /\ Start("source", "queued", FALSE, Head(pending))
  /\ pending' = Tail(pending)
  /\ active' = Head(pending)
  /\ failed' = {j \in failed : j.ids # Head(pending)}
  /\ UNCHANGED <<members, songs, epoch, signedIn, intent, asks, deleted>>

\* An addition outside the queue: its caller waits for the end.
AddDirectly(job) ==
  /\ Asked
  /\ job \subseteq Uids => signedIn
  /\ SourceFits
  /\ Start("source", "direct", FALSE, job)
  /\ deleted' = deleted \ job
  /\ UNCHANGED <<members, songs, queue, epoch, signedIn, intent>>

-----------------------------------------------------------------------------
(* Refreshes and credentials *)

Refresh(auto, safe) ==
  /\ signedIn
  /\ RefreshFits(auto, safe)
  /\ Start("refresh", "refresh", auto /\ safe, members \cap Uids)

AskRefresh ==
  /\ Asked
  /\ \E safe \in BOOLEAN : Refresh(FALSE, safe)
  /\ UNCHANGED <<members, songs, queue, epoch, signedIn, intent, deleted>>

\* refresh_after_login: admission consumes the intent, a refusal keeps it
RefreshAfterLogin ==
  /\ intent # "none"
  /\ \E safe \in BOOLEAN : Refresh(intent = "startup", safe)
  /\ intent' = "none"
  /\ UNCHANGED <<members, songs, queue, epoch, signedIn, asks, deleted>>

\* Fault: the round of the old account stays open
KeptRound_Same == shared
\* cancel_configured_refresh: no later pull joins the round of the old account
KeptRound == 0
\* invalidate_credentials: running tasks keep their leases and may write no more
Invalidate ==
  /\ epoch < MaxEpoch
  /\ epoch' = epoch + 1
  /\ shared' = KeptRound
  /\ pending' = <<>>
  /\ failed' = {}

SignIn ==
  /\ Invalidate
  /\ signedIn' = TRUE
  /\ intent' \in {"startup", "ordinary"}
  /\ UNCHANGED <<members, songs, active, lane, flights, asks, deleted>>

SignOut ==
  /\ Invalidate
  /\ signedIn
  /\ signedIn' = FALSE
  /\ intent' = "none"
  /\ UNCHANGED <<members, songs, active, lane, flights, asks, deleted>>

-----------------------------------------------------------------------------
(* Deletion *)

\* /api/gatcha/sources/edit: one step, beside any pull but a deletion
EditRemove(s) ==
  /\ Asked
  /\ s \in members
  /\ lane["source"].kind # "removal"
  /\ members' = members \ {s}
  /\ songs' = songs \ {s}
  /\ RemoveFromQueue(s)
  /\ deleted' = deleted \cup {s}
  /\ UNCHANGED <<lane, shared, flights, epoch, signedIn, intent>>

\* /api/gatcha/source/remove holds the lease, edits the files, then the queue.
RemoveAlone(s) ==
  /\ Asked
  /\ RemovalFits
  /\ Start("source", "removal", FALSE, {s})
  /\ UNCHANGED <<members, songs, queue, epoch, signedIn, intent, deleted>>

EraseFiles ==
  /\ lane["source"].kind = "removal" /\ lane["source"].phase = "survey"
  /\ members' = members \ lane["source"].todo
  /\ songs' = songs \ lane["source"].todo
  /\ lane' = [lane EXCEPT !["source"].phase = "erased"]
  /\ UNCHANGED <<queue, shared, flights, epoch, signedIn, intent, asks, deleted>>

EraseQueue ==
  /\ lane["source"].kind = "removal" /\ lane["source"].phase = "erased"
  /\ \E s \in lane["source"].todo : RemoveFromQueue(s)
  /\ lane' = [lane EXCEPT !["source"].phase = "retired", !["source"].todo = {}]
  /\ deleted' = deleted \cup lane["source"].todo
  /\ UNCHANGED <<members, songs, shared, flights, epoch, signedIn, intent, asks>>

-----------------------------------------------------------------------------
(* The pull of a lane, source by source *)

Pulls(l) == On(l) /\ lane[l].kind # "removal"
AtRest(l) == Pulls(l) /\ lane[l].step = "rest"
Owner(l, s) == lane[l].at = s /\ lane[l].step \in {"open", "fetch"}

\* A job reads which of its sources are listed before it asks the network.
Survey ==
  /\ Pulls("source") /\ lane["source"].phase = "survey" /\ ~Stopped("source")
  /\ lane' = [lane EXCEPT !["source"].knew = members, !["source"].phase = "pull"]
  /\ UNCHANGED <<members, songs, queue, shared, flights, epoch, signedIn, intent, asks, deleted>>

\* refresh_existing_favlist_with reads the folders when the uploaders are done.
FolderPhase ==
  /\ AtRest("refresh") /\ lane["refresh"].phase = "uids" /\ lane["refresh"].todo = {}
  /\ ~Stopped("refresh")
  /\ lane' = [lane EXCEPT !["refresh"].phase = "pull", !["refresh"].todo = members \cap Folders]
  /\ UNCHANGED <<members, songs, queue, shared, flights, epoch, signedIn, intent, asks, deleted>>

\* What an answer for source s means to the task (refresh_all, add_uid, refresh_favlist).
BreaksOff(l, s, answer) ==
  IF s \in Folders THEN l = "refresh" /\ answer = "cancelled" ELSE l = "source" /\ answer # "ok"
Answered(l, s, answer) ==
  LET t == lane[l] IN
  [t EXCEPT !.at = NoSource, !.step = "rest",
            !.todo = IF BreaksOff(l, s, answer) THEN {} ELSE @ \ {s},
            !.broken = BreaksOff(l, s, answer),
            !.phase = IF BreaksOff(l, s, answer) THEN "pull" ELSE @,
            !.good = IF answer = "ok" THEN @ \cup {s} ELSE @,
            !.bad = IF answer = "failed" THEN @ \cup {s} ELSE @]

Follows(l, s) == lane[l].step = "follow" /\ lane[l].at = s /\ lane[l].round = lane[Other(l)].round
\* Fault: a failed flight wakes nobody
Told_OnSuccess(l, s, answer) ==
  IF Follows(l, s) /\ answer = "ok" THEN [lane[l] EXCEPT !.step = answer] ELSE lane[l]
Told(l, s, answer) ==
  IF Follows(l, s) THEN [lane[l] EXCEPT !.step = answer] ELSE lane[l]
\* SourceTasks::run of the owner: success is kept for the round, failure is not.
Land(l, s, answer) ==
  /\ flights' = [flights EXCEPT ![lane[l].round][s] =
                   IF answer = "ok" THEN lane[l].epoch ELSE Vacant]
  /\ lane' = [k \in Lanes |-> IF k = l THEN Answered(l, s, answer) ELSE Told(k, s, answer)]

Take(l, s) ==
  /\ AtRest(l) /\ lane[l].phase # "survey" /\ s \in lane[l].todo /\ ~Stopped(l)
  /\ \/ /\ flights[lane[l].round][s] = Vacant
        /\ flights' = [flights EXCEPT ![lane[l].round][s] = Airborne]
        /\ lane' = [lane EXCEPT ![l].at = s,
                      ![l].step = IF l = "source" /\ s \in Uids THEN "open" ELSE "fetch",
                      ![l].knew = IF l = "source" /\ s \in Uids THEN members ELSE @]
     \/ /\ flights[lane[l].round][s] = Airborne
        /\ lane' = [lane EXCEPT ![l].at = s, ![l].step = "follow"]
        /\ UNCHANGED flights
     \/ /\ flights[lane[l].round][s] > 0
        /\ lane' = [lane EXCEPT ![l] = Answered(l, s, "ok")]
        /\ UNCHANGED flights
  /\ UNCHANGED <<members, songs, queue, shared, epoch, signedIn, intent, asks, deleted>>

\* The follower of a flight that has landed
Hear(l) ==
  /\ lane[l].step \in {"ok", "cancelled", "failed"} /\ ~Stopped(l)
  /\ lane' = [lane EXCEPT ![l] = Answered(l, lane[l].at, lane[l].step)]
  /\ UNCHANGED <<members, songs, queue, shared, flights, epoch, signedIn, intent, asks, deleted>>

\* add_uid_source puts the uploader on the list before its songs are fetched.
Enlist(s) ==
  /\ lane["source"].step = "open" /\ lane["source"].at = s /\ ~Stopped("source")
  /\ IF s \in lane["source"].knew \ members
     THEN Land("source", s, "cancelled") /\ UNCHANGED members
     ELSE /\ members' = members \cup {s}
          /\ lane' = [lane EXCEPT !["source"].step = "fetch"]
          /\ UNCHANGED flights
  /\ UNCHANGED <<songs, queue, shared, epoch, signedIn, intent, asks, deleted>>

\* Fault: the check at the store is missing
Removed_Never(l, s) == FALSE
\* persist_refreshed_uid and persist_favlist_source_expected
Removed(l, s) ==
  s \notin members /\ (l = "source" /\ s \in Folders => s \in lane[l].knew)
Store(l, s) ==
  /\ lane[l].step = "fetch" /\ lane[l].at = s /\ ~Stopped(l)
  /\ IF Removed(l, s) THEN Land(l, s, "cancelled") /\ UNCHANGED <<members, songs>>
     ELSE /\ songs' = songs \cup {s}
          /\ members' = IF l = "source" /\ s \in Folders THEN members \cup {s} ELSE members
          /\ Land(l, s, "ok")
  /\ UNCHANGED <<queue, shared, epoch, signedIn, intent, asks, deleted>>

\* The network fails the pull.
Fail(l, s) ==
  /\ Owner(l, s) /\ ~Stopped(l)
  /\ Land(l, s, "failed")
  /\ UNCHANGED <<members, songs, queue, shared, epoch, signedIn, intent, asks, deleted>>

\* A task whose credentials are gone ends at its next check.
Abort(l) ==
  /\ Pulls(l) /\ Stopped(l) /\ ~lane[l].broken /\ lane[l].phase # "retired"
  /\ LET t == lane[l]
         off == [t EXCEPT !.at = NoSource, !.step = "rest", !.todo = {}, !.phase = "pull",
                          !.broken = TRUE]
     IN IF Owner(l, t.at)
        THEN /\ flights' = [flights EXCEPT ![t.round][t.at] = Vacant]
             /\ lane' = [k \in Lanes |-> IF k = l THEN off ELSE Told(k, t.at, "cancelled")]
        ELSE lane' = [lane EXCEPT ![l] = off] /\ UNCHANGED flights
  /\ UNCHANGED <<members, songs, queue, shared, epoch, signedIn, intent, asks, deleted>>

-----------------------------------------------------------------------------
(* The end of a task *)

Done(l) == AtRest(l) /\ lane[l].phase = "pull" /\ lane[l].todo = {}
\* SourceQueue::finish_active: what is left of the job decides what may be retried
Leftover(l) == IF (lane[l].broken \/ lane[l].bad # {}) /\ ~Stopped(l) THEN active ELSE {}

\* run_next retires the queue's job before it gives the lease back.
RetireJob ==
  /\ Done("source") /\ lane["source"].kind = "queued"
  /\ failed' = failed \cup (IF Leftover("source") = {} THEN {}
                            ELSE {[ids |-> Leftover("source"), epoch |-> lane["source"].epoch]})
  /\ active' = {}
  /\ lane' = [lane EXCEPT !["source"].phase = "retired"]
  /\ UNCHANGED <<members, songs, pending, shared, flights, epoch, signedIn, intent, asks, deleted>>

\* SourceQueue::remember_refresh_result
Remembered(t) ==
  {j \in failed : j.ids \subseteq Uids /\ ~(j.ids \subseteq t.good)}
    \cup {[ids |-> {s}, epoch |-> t.epoch] : s \in t.bad}
Result(l) ==
  IF l = "refresh" /\ ~lane[l].broken /\ ~Stopped(l) THEN Remembered(lane[l]) ELSE failed

\* TaskLease::publish_owned
Release(l) ==
  /\ On(l)
  /\ lane[l].phase = "retired" \/ (Done(l) /\ lane[l].kind # "queued")
  /\ failed' = Result(l)
  /\ lane' = [lane EXCEPT ![l] = Idle]
  /\ shared' = IF On(Other(l)) THEN shared ELSE 0
  /\ UNCHANGED <<members, songs, pending, active, flights, epoch, signedIn, intent, asks, deleted>>

-----------------------------------------------------------------------------
SLInit ==
  /\ members \in SUBSET Sources
  /\ songs = members
  /\ pending = <<>> /\ active = {} /\ failed = {}
  /\ lane = [l \in Lanes |-> Idle]
  /\ shared = 0
  /\ flights = [r \in Rounds |-> [s \in Sources |-> Vacant]]
  /\ epoch = 1 /\ signedIn = TRUE /\ intent = "startup"
  /\ asks = 0
  /\ deleted = {}

PullStep(l) ==
  \/ \E s \in Sources : Take(l, s) \/ Store(l, s) \/ Fail(l, s)
  \/ Hear(l)
  \/ Abort(l)
  \/ Release(l)
SourceStep ==
  \/ PullStep("source") \/ Survey \/ EraseFiles \/ EraseQueue \/ RetireJob
  \/ \E s \in Sources : Enlist(s)
RefreshStep == PullStep("refresh") \/ FolderPhase

SLNext ==
  \/ SourceStep
  \/ RefreshStep
  \/ RunNext
  \/ RefreshAfterLogin
  \/ AskRefresh
  \/ SignIn
  \/ SignOut
  \/ \E job \in Jobs : Enqueue(job) \/ AddDirectly(job)
  \/ \E s \in Sources : EditRemove(s) \/ RemoveAlone(s)

SLSpec == SLInit /\ [][SLNext]_vars
\* Requests to Bilibili have timeouts and the workers and the coordinator keep running.
SLFairSpec == SLSpec /\ WF_vars(SourceStep) /\ WF_vars(RefreshStep) /\ WF_vars(RunNext)

-----------------------------------------------------------------------------
Tasks == [kind : {"idle", "refresh", "queued", "direct", "removal"}, epoch : 0..MaxEpoch,
          round : 0..2, wide : BOOLEAN,
          phase : {"none", "uids", "survey", "pull", "erased", "retired"},
          todo : SUBSET Sources, at : Sources \cup {NoSource},
          step : {"rest", "open", "fetch", "follow", "ok", "cancelled", "failed"},
          knew : SUBSET Sources, good : SUBSET Sources, bad : SUBSET Sources, broken : BOOLEAN]

\* The types; no job of the queue is empty, and the queue keeps its limit.
SLTypeOK ==
  /\ members \subseteq Sources /\ songs \subseteq Sources
  /\ pending \in Seq(Jobs) /\ Len(pending) <= QueueLimit
  /\ active \in Jobs \cup {{}}
  /\ failed \subseteq [ids : Jobs, epoch : 1..MaxEpoch]
  /\ lane \in [Lanes -> Tasks]
  /\ shared \in 0..2
  /\ flights \in [Rounds -> [Sources -> -1..MaxEpoch]]
  /\ epoch \in 1..MaxEpoch /\ signedIn \in BOOLEAN /\ intent \in {"none", "startup", "ordinary"}
  /\ asks \in 0..MaxAsk
  /\ deleted \subseteq Sources

\* A deletion with the lease, and a refresh that may not be accompanied, are
\* the only task there is: neither can restore or overwrite the other's rows.
RunsAlone ==
  On("refresh") /\ On("source") => lane["refresh"].wide /\ lane["source"].kind # "removal"

\* The job shown as running is one a worker holds the lease for.
ActiveHasWorker ==
  active # {} => lane["source"].kind = "queued" /\ lane["source"].phase # "retired"

\* A late pull stores no songs of a source that has been deleted meanwhile.
SongsOfMembers == songs \subseteq members

\* What overlapping tasks and deletions leave behind is consistent: exclusive
\* tasks ran alone, the running job has its worker (library.rs reserve_for and
\* publish_owned), and no late pull stored songs of a deleted source.
CatalogConsistent == SLTypeOK /\ RunsAlone /\ ActiveHasWorker /\ SongsOfMembers

\* A task of the current account never takes a result that another account
\* fetched: every finished flight of its round is its own account's.
OneAccountPerRound ==
  \A l \in Lanes : On(l) /\ ~Stopped(l) =>
    \A s \in Sources : flights[lane[l].round][s] \in {Vacant, Airborne, epoch}

\* Retries are offered only for failures the current account had.
FailuresOfAccount == \A j \in failed : j.epoch = epoch

\* A change of credentials in the middle of a pull keeps the accounts apart:
\* neither results (status_service.rs attach_source_round) nor failures
\* (source_queue.rs finish_active, library.rs publish_owned) cross over.
AccountsApart == OneAccountPerRound /\ FailuresOfAccount

\* Whatever waits in the queue is started (or cleared or deleted) in the end:
\* no pull, and no follower of a pull, waits for ever.
QueueDrains == (pending # <<>>) ~> (pending = <<>>)

\* "Otherwise a late failure could reintroduce a deleted retry entry"
\* (source_queue.rs:69): no retry is offered for a source whose last request
\* was its deletion.
NoDeletedRetry == \A j \in failed : j.ids \cap deleted = {}
=============================================================================
