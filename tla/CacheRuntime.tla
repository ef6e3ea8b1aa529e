---------------------------- MODULE CacheRuntime ----------------------------
(***************************************************************************)
(* The worker queue of the media cache (rust-runtime/src/cache_runtime.rs). *)
(*                                                                         *)
(* Two workers take songs from two lanes.  A job is queued under a fresh   *)
(* attempt of AppState and stays in the job table while it runs, so that a  *)
(* replacement can stand behind an executor that has been told to stop.    *)
(* What becomes of a job is an event; the pump of the Host drains the      *)
(* events and applies them to AppState.  The event queue is bounded and    *)
(* drops its oldest member, and the last terminal event of every song is   *)
(* kept beside it for recovery.                                            *)
(*                                                                         *)
(* The state behind the runtime's mutex is the record rt.  Of AppState the *)
(* module keeps what the runtime can observe: which songs are live in      *)
(* which life, and which attempt holds a song (CacheAttempts has the rest). *)
(* A job's generation and its attempt token are allocated together and     *)
(* both only grow, so the token stands for the two of them.                *)
(***************************************************************************)
EXTENDS Naturals, Sequences, FiniteSets, SequencesExt

CONSTANTS
  Items,     \* playlist item ids
  NoItem,    \* no item
  MaxToken,  \* attempts that may be reserved
  MaxLife,   \* admissions of songs
  Callers,   \* sets of commands: what the Host may ask of the runtime and of AppState
  MaxJobs,   \* MAX_CACHE_JOBS
  MaxEvents, \* MAX_EVENTS
  DrainLimit \* the events a pump takes at once

ASSUME CacheRuntimeAssumption ==
  /\ NoItem \notin Items
  /\ {MaxToken, MaxLife} \subseteq Nat
  /\ {MaxJobs, MaxEvents, DrainLimit} \subseteq Nat \ {0}
  /\ \A C \in Callers :
       C \subseteq {"playlist", "submit", "retry", "cancel", "clear", "sync", "shutdown"}

VARIABLES
  life,        \* the incarnation of each live song, 0 if not live
  lives,       \* incarnations allocated
  holder,      \* the attempt of each song that has not ended for AppState, 0 if none
  issued,      \* attempts reserved so far
  lifeOf,      \* the incarnation each attempt was reserved for
  outstanding, \* reservations AppState has not settled
  rt,          \* RuntimeState
  worker,      \* the job each worker runs
  batch,       \* drained terminal events on their way to AppState
  sync,        \* the synchronisation in progress
  draining,    \* reservations captured by Clear and Shutdown, to be settled
  commands     \* the set of Callers whose commands are issued in this behaviour

appVars == <<life, lives, holder, issued, lifeOf>>
crVars == <<life, lives, holder, issued, lifeOf, outstanding, rt, worker,
            batch, sync, draining, commands>>

Tokens == 1 .. MaxToken
Workers == {"primary", "urgent"}
TerminalKinds == {"ready", "failed", "cancelled", "evicted"}
RuntimeEvents == [item : Items, token : Tokens, kind : TerminalKinds]
\* An event before the terminal one; of those only the room they take matters here
Report == [item |-> NoItem, token |-> 0, kind |-> "report"]
NoEvent == [item |-> NoItem, token |-> 0, kind |-> "none"]
NoJob == [item |-> NoItem, token |-> 0, phase |-> "idle"]
NoSync == [phase |-> "idle", life |-> [i \in Items |-> 0], retained |-> {},
           desired |-> {}, todo |-> {}, at |-> NoItem, preempt |-> NoItem]

CRTypeOK ==
  /\ life \in [Items -> 0 .. MaxLife]
  /\ lives \in 0 .. MaxLife
  /\ holder \in [Items -> 0 .. MaxToken]
  /\ issued \in 0 .. MaxToken
  /\ lifeOf \in [Tokens -> 0 .. MaxLife]
  /\ outstanding \in SUBSET Tokens
  /\ rt.stopping \in BOOLEAN
  /\ rt.jobs \in [Items -> 0 .. MaxToken]
  /\ \A w \in Workers : \A k \in DOMAIN rt.queue[w] : rt.queue[w][k] \in Items
  /\ rt.active \in [Items -> [token : 0 .. MaxToken, cancel : BOOLEAN]]
  /\ rt.front \in [item : Items \cup {NoItem}, token : 0 .. MaxToken]
  /\ rt.completed \in [Items -> 0 .. MaxToken]
  /\ rt.terminals \in [Items -> RuntimeEvents \cup {NoEvent}]
  /\ Len(rt.events) <= MaxEvents
  /\ \A k \in DOMAIN rt.events : rt.events[k] \in RuntimeEvents \cup {Report}
  /\ worker \in [Workers -> [item : Items, token : Tokens, phase : {"running", "publishing"}]
                              \cup {NoJob}]
  /\ batch \in SUBSET RuntimeEvents
  /\ sync \in [phase : {"idle", "window", "submit"}, life : [Items -> 0 .. MaxLife],
               retained : SUBSET Items, desired : SUBSET Items, todo : SUBSET Items,
               at : Items \cup {NoItem}, preempt : Items \cup {NoItem}]
  /\ draining \in [{"clear", "stop"} -> [on : BOOLEAN, tokens : SUBSET Tokens]]
  /\ commands \in Callers

Live == {i \in Items : life[i] # 0}
Active(i) == rt.active[i].token # 0

-----------------------------------------------------------------------------
(* The steps on RuntimeState that the operations below are made of. *)

\* Fault: terminal events are kept in the queue only
Pushed_Unrecorded(s, i, t, kind) ==
  [s EXCEPT
     !.events = Append(IF Len(@) >= MaxEvents THEN Tail(@) ELSE @,
                       [item |-> i, token |-> t, kind |-> kind])]

\* push_event_locked, for an event before the terminal one
Reported(s) ==
  [s EXCEPT !.events = Append(IF Len(@) >= MaxEvents THEN Tail(@) ELSE @, Report)]

\* push_event_locked, for a terminal event
Pushed(s, i, t, kind) ==
  LET e == [item |-> i, token |-> t, kind |-> kind]
  IN  [s EXCEPT
         !.terminals[i] = e,
         !.events = Append(IF Len(@) >= MaxEvents THEN Tail(@) ELSE @, e)]

\* The same event for several songs; order lists the songs as the code's maps do
PushedAll(s, order, S, tokens, kind) ==
  FoldLeft(LAMBDA r, i : IF i \in S THEN Pushed(r, i, tokens[i], kind) ELSE r, s, order)

\* remove_queued_locked
Unqueued(s, i) ==
  [s EXCEPT !.queue = [w \in Workers |-> SelectSeq(@[w], LAMBDA j : j # i)]]

\* Fault: a song keeps its old place when it is queued again
Queued_Twice(s, i, lane) ==
  [s EXCEPT !.queue =
     CASE lane = "normal" -> [@ EXCEPT !["primary"] = Append(@, i)]
       [] lane = "front" -> [@ EXCEPT !["primary"] = <<i>> \o @]
       [] lane = "urgent" -> [@ EXCEPT !["urgent"] = Append(@, i)]]

\* queue_locked
Queued(s, i, lane) ==
  [Unqueued(s, i) EXCEPT !.queue =
     CASE lane = "normal" -> [@ EXCEPT !["primary"] = Append(@, i)]
       [] lane = "front" -> [@ EXCEPT !["primary"] = <<i>> \o @]
       [] lane = "urgent" -> [@ EXCEPT !["urgent"] = Append(@, i)]]

\* submit_locked, from where the attempt t has been reserved
Submitted(s, i, t, lane) ==
  LET replaced == [s EXCEPT !.completed[i] = 0,
                            !.active[i].cancel = s.active[i].token # 0,
                            !.terminals[i] = NoEvent,
                            !.jobs[i] = t]
  IN  Reported(Queued(replaced, i, lane))

\* submit_locked refuses before it reserves
Admits(s, i) ==
  ~s.stopping /\ (s.jobs[i] # 0 \/ Cardinality({j \in Items : s.jobs[j] # 0}) < MaxJobs)

\* What a submission that replaces nothing settles for: the queued job, the running
\* one, or the finished one as long as its files are there
Reuses(s, i, inc, intact) ==
  \/ s.jobs[i] # 0 /\ lifeOf[s.jobs[i]] = inc
  \/ /\ s.jobs[i] = 0
     /\ \/ s.active[i].token # 0 /\ lifeOf[s.active[i].token] = inc
        \/ s.completed[i] # 0 /\ lifeOf[s.completed[i]] = inc /\ intact

\* cancel_item_locked: a job behind a running executor goes without an event
CancelledItem(s, i) ==
  LET stopped == [s EXCEPT !.front = IF @.item = i THEN [item |-> NoItem, token |-> 0] ELSE @,
                           !.completed[i] = 0,
                           !.active[i].cancel = s.active[i].token # 0,
                           !.jobs[i] = 0]
  IN  IF s.jobs[i] = 0 THEN stopped
      ELSE IF s.active[i].token # 0 THEN Unqueued(stopped, i)
      ELSE Pushed(Unqueued(stopped, i), i, s.jobs[i], "cancelled")

\* Fault: a finished job is recorded although its replacement waits
Settled_Always(s, i, t, kind) ==
  LET over == [s EXCEPT !.front = IF @ = [item |-> i, token |-> t]
                                    THEN [item |-> NoItem, token |-> 0] ELSE @,
                        !.active[i] = IF @.token = t THEN [token |-> 0, cancel |-> FALSE] ELSE @,
                        !.jobs[i] = IF @ = t THEN 0 ELSE @,
                        !.completed[i] = IF kind = "ready" THEN t ELSE @]
  IN  Pushed(over, i, t, kind)

\* settle_job_locked
Settled(s, i, t, kind) ==
  LET over == [s EXCEPT !.front = IF @ = [item |-> i, token |-> t]
                                    THEN [item |-> NoItem, token |-> 0] ELSE @,
                        !.active[i] = IF @.token = t THEN [token |-> 0, cancel |-> FALSE] ELSE @,
                        !.jobs[i] = IF @ = t THEN 0 ELSE @,
                        !.completed[i] =
                          IF kind = "ready" /\ s.jobs[i] \in {0, t} THEN t ELSE @]
  IN  Pushed(over, i, t, kind)

\* resource_reservations
Reservations ==
  {t \in Tokens : \E i \in Items : t \in {rt.jobs[i], rt.active[i].token, rt.completed[i]}}

\* What Clear and Shutdown do alike: every executor is told to stop, every job dropped
Emptied(s) ==
  [s EXCEPT !.active = [i \in Items |-> [token |-> @[i].token, cancel |-> @[i].token # 0]],
            !.jobs = [i \in Items |-> 0],
            !.queue = [w \in Workers |-> <<>>],
            !.completed = [i \in Items |-> 0]]

-----------------------------------------------------------------------------
(* AppState. *)

\* Reservations for the songs of the sequence seq, one after the other
Reserve(seq) ==
  LET n == Len(seq)
      last(i) == CHOOSE k \in 1 .. n : seq[k] = i /\ \A l \in k + 1 .. n : seq[l] # i
  IN  /\ issued + n <= MaxToken
      /\ \A k \in 1 .. n : life[seq[k]] # 0
      /\ issued' = issued + n
      /\ holder' = [i \in Items |-> IF i \in ToSet(seq) THEN issued + last(i) ELSE holder[i]]
      /\ lifeOf' = [t \in Tokens |-> IF t \in issued + 1 .. issued + n
                                       THEN life[seq[t - issued]] ELSE lifeOf[t]]
      /\ UNCHANGED <<life, lives>>

NewTokens(n) == issued + 1 .. issued + n

Admit(i) ==
  /\ i \notin Live
  /\ lives < MaxLife
  /\ lives' = lives + 1
  /\ life' = [life EXCEPT ![i] = lives + 1]
  /\ UNCHANGED <<holder, issued, lifeOf, outstanding, rt, worker, batch, sync, draining, commands>>

Withdraw(i) ==
  /\ i \in Live
  /\ life' = [life EXCEPT ![i] = 0]
  /\ holder' = [holder EXCEPT ![i] = 0]
  /\ UNCHANGED <<lives, issued, lifeOf, outstanding, rt, worker, batch, sync, draining, commands>>

\* project_problem: AppState takes the song over by an attempt that ends at once
TakeOver(i) ==
  /\ i \in Live
  /\ issued < MaxToken
  /\ issued' = issued + 1
  /\ holder' = [holder EXCEPT ![i] = 0]
  /\ lifeOf' = [lifeOf EXCEPT ![issued + 1] = life[i]]
  /\ UNCHANGED <<life, lives, outstanding, rt, worker, batch, sync, draining, commands>>

-----------------------------------------------------------------------------
(* Commands of the Host. *)

\* Submit and Retry of the runtime's interface, and a retry of the Host that is not
\* forced; a job whose song is gone or has another life by now is refused by AppState
Submit(i, lane, replace, intact) ==
  /\ Admits(rt, i)
  /\ ~replace => ~Reuses(rt, i, life[i], intact)
  /\ Reserve(<<i>>)
  /\ rt' = Submitted(rt, i, issued + 1, lane)
  /\ outstanding' = outstanding \cup {issued + 1}
  /\ UNCHANGED <<worker, batch, sync, draining, commands>>

\* retry_native_host: a forced retry first resets the song by an attempt of its
\* own.  If another song occupies the primary worker, the song goes to the urgent
\* lane when it is the current one; otherwise that other song is queued again,
\* behind the forced one, and its executor told to stop.
Preempted(i) ==
  LET p == worker["primary"].item
  IN  p \notin {i, NoItem} /\ rt.jobs[p] # 0

RetryUrgent(i) ==
  /\ worker["primary"].item \notin {i, NoItem}
  /\ Admits(rt, i)
  /\ Reserve(<<i, i>>)
  /\ rt' = Submitted(rt, i, issued + 2, "urgent")
  /\ outstanding' = outstanding \cup {issued + 2}
  /\ UNCHANGED <<worker, batch, sync, draining, commands>>

RetryFront(i) ==
  /\ Admits(rt, i)
  /\ LET p == worker["primary"].item
         t == issued + (IF Preempted(i) THEN 3 ELSE 2)
         requeued == IF Preempted(i) THEN Submitted(rt, p, issued + 2, "front") ELSE rt
     IN  /\ Preempted(i) => life[p] = lifeOf[rt.jobs[p]]
         /\ Reserve(IF Preempted(i) THEN <<i, p, i>> ELSE <<i, i>>)
         /\ rt' = [Submitted(requeued, i, t, "front") EXCEPT !.front = [item |-> i, token |-> t]]
         /\ outstanding' = outstanding \cup issued + 2 .. t
  /\ UNCHANGED <<worker, batch, sync, draining, commands>>

\* The reset of a forced retry stands although no job could be queued after it
RetryOnlyResets(i) ==
  /\ i \in Live
  /\ \/ ~Admits(rt, i) /\ (rt.stopping \/ ~Preempted(i))
     \/ Preempted(i) /\ life[worker["primary"].item] # lifeOf[rt.jobs[worker["primary"].item]]
  /\ TakeOver(i)

\* The table is full: the other song has been displaced for a job that is refused
RetryDisplaces(i) ==
  /\ ~Admits(rt, i)
  /\ ~rt.stopping
  /\ Preempted(i)
  /\ LET p == worker["primary"].item
     IN  /\ life[p] = lifeOf[rt.jobs[p]]
         /\ i \in Live
         /\ issued + 2 <= MaxToken
         /\ issued' = issued + 2
         /\ holder' = [holder EXCEPT ![i] = 0, ![p] = issued + 2]
         /\ lifeOf' = [lifeOf EXCEPT ![issued + 1] = life[i], ![issued + 2] = life[p]]
         /\ rt' = Submitted(rt, p, issued + 2, "front")
  /\ outstanding' = outstanding \cup {issued + 2}
  /\ UNCHANGED <<life, lives, worker, batch, sync, draining, commands>>

CancelItem(i) ==
  /\ rt' = CancelledItem(rt, i)
  /\ UNCHANGED <<appVars, outstanding, worker, batch, sync, draining, commands>>

\* Fault: a clear settles the reservations without waiting for the executors
Clear_AtOnce(order) ==
  /\ ~draining["clear"].on
  /\ rt' = PushedAll([Emptied(rt) EXCEPT !.front = [item |-> NoItem, token |-> 0],
                                         !.terminals = [i \in Items |-> NoEvent]],
                     order, {i \in Items : rt.jobs[i] # 0 /\ ~Active(i)}, rt.jobs, "cancelled")
  /\ outstanding' = outstanding \ Reservations
  /\ UNCHANGED <<appVars, worker, batch, sync, draining, commands>>

\* cancel_all; Clear goes on to wait for the workers
Clear(order) ==
  /\ ~draining["clear"].on
  /\ rt' = PushedAll([Emptied(rt) EXCEPT !.front = [item |-> NoItem, token |-> 0],
                                         !.terminals = [i \in Items |-> NoEvent]],
                     order, {i \in Items : rt.jobs[i] # 0 /\ ~Active(i)}, rt.jobs, "cancelled")
  /\ draining' = [draining EXCEPT !["clear"] = [on |-> TRUE, tokens |-> Reservations]]
  /\ UNCHANGED <<appVars, outstanding, worker, batch, sync, commands>>

Cleared ==
  /\ draining["clear"].on
  /\ \A i \in Items : ~Active(i)
  /\ outstanding' = outstanding \ draining["clear"].tokens
  /\ draining' = [draining EXCEPT !["clear"] = [on |-> FALSE, tokens |-> {}]]
  /\ UNCHANGED <<appVars, rt, worker, batch, sync, commands>>

\* The workers do not stop before the deadline: nothing is settled
ClearBusy ==
  /\ draining["clear"].on
  /\ \E i \in Items : Active(i)
  /\ draining' = [draining EXCEPT !["clear"] = [on |-> FALSE, tokens |-> {}]]
  /\ UNCHANGED <<appVars, outstanding, rt, worker, batch, sync, commands>>

Shutdown ==
  /\ ~rt.stopping
  /\ rt' = [Emptied(rt) EXCEPT !.stopping = TRUE]
  /\ draining' = [draining EXCEPT !["stop"] = [on |-> TRUE, tokens |-> Reservations]]
  /\ UNCHANGED <<appVars, outstanding, worker, batch, sync, commands>>

\* The workers have been joined
Stopped ==
  /\ draining["stop"].on
  /\ worker = [w \in Workers |-> NoJob]
  /\ outstanding' = outstanding \ draining["stop"].tokens
  /\ draining' = [draining EXCEPT !["stop"] = [on |-> FALSE, tokens |-> {}]]
  /\ UNCHANGED <<appVars, rt, worker, batch, sync, commands>>

-----------------------------------------------------------------------------
(* Synchronisation with the cache window, one lock acquisition at a time. *)

\* The Host reads the live songs and plans the window
SyncPlan(retained, desired, preempt) ==
  /\ sync = NoSync
  /\ batch = {}
  /\ retained \subseteq Live
  /\ desired \subseteq retained
  /\ preempt \in desired \cup {NoItem}
  /\ sync' = [phase |-> "window", life |-> life, retained |-> retained,
              desired |-> desired, todo |-> desired, at |-> NoItem,
              preempt |-> preempt]
  /\ UNCHANGED <<appVars, outstanding, rt, worker, batch, draining, commands>>

\* Songs outside the window lose their jobs and, after a reservation, their
\* artifacts.  One song whose life has changed since the plan ends the whole
\* synchronisation, after the reservations made so far.
SyncWindow(order, intact) ==
  LET here == {i \in Items : sync.life[i] # 0}
      out == here \ sync.retained
      evicted == SelectSeq(order, LAMBDA i : i \in out /\ ~Active(i) /\ rt.jobs[i] = 0)
      prefix == CHOOSE n \in 0 .. Len(evicted) :
                  /\ \A k \in 1 .. n : life[evicted[k]] = sync.life[evicted[k]]
                  /\ n < Len(evicted) => life[evicted[n + 1]] # sync.life[evicted[n + 1]]
      kept == [rt EXCEPT
        !.terminals = [i \in Items |-> IF i \in here THEN @[i] ELSE NoEvent],
        !.completed = [i \in Items |->
          IF i \in here \cap intact /\ @[i] # 0 /\ lifeOf[@[i]] = sync.life[i] THEN @[i] ELSE 0]]
      dropped == {i \in Items \ (sync.desired \cup out) : rt.jobs[i] # 0 /\ ~Active(i)}
      removed == dropped \cup {i \in out : rt.jobs[i] # 0 /\ ~Active(i)}
      stopped == [kept EXCEPT
        !.jobs = [i \in Items |-> IF i \in removed THEN 0 ELSE @[i]],
        !.queue = [w \in Workers |-> SelectSeq(@[w], LAMBDA i : i \notin removed)],
        !.active = [i \in Items |->
          IF i \in sync.desired THEN @[i] ELSE [token |-> @[i].token, cancel |-> @[i].token # 0]]]
      tokens == [i \in Items |-> IF rt.jobs[i] # 0 THEN rt.jobs[i] ELSE holder'[i]]
  IN  /\ sync.phase = "window"
      /\ Reserve(SubSeq(evicted, 1, prefix))
      /\ outstanding' = outstanding \cup NewTokens(prefix)
      /\ IF prefix < Len(evicted)
           THEN sync' = NoSync /\ rt' = rt
           ELSE /\ sync' = [sync EXCEPT !.phase = "submit"]
                /\ rt' = PushedAll(PushedAll(stopped, order, dropped, tokens, "cancelled"),
                                   order, {i \in out : ~Active(i)}, tokens, "evicted")
      /\ UNCHANGED <<worker, batch, draining, commands>>

\* The manual retry at the front of its lane is not replaced by a preemption
Manual(i) ==
  rt.front = [item |-> i, token |-> rt.jobs[i]] /\ rt.jobs[i] # 0
    /\ lifeOf[rt.jobs[i]] = sync.life[i]

\* A failure is kept until somebody asks again or the song has a new life
FailedBefore(i) ==
  /\ rt.jobs[i] = 0
  /\ ~Active(i)
  /\ rt.terminals[i].kind = "failed"
  /\ lifeOf[rt.terminals[i].token] = sync.life[i]

\* The look at the finished job of the next song; one that is of no use is dropped
SyncLook(i, intact) ==
  LET present == rt.completed[i] # 0 /\ lifeOf[rt.completed[i]] = sync.life[i] /\ intact
  IN  /\ sync.phase = "submit"
      /\ sync.at = NoItem
      /\ i \in sync.todo
      /\ sync' = [sync EXCEPT !.todo = @ \ {i}, !.at = IF present THEN NoItem ELSE i]
      /\ rt' = IF present THEN rt ELSE [rt EXCEPT !.completed[i] = 0]
      /\ UNCHANGED <<appVars, outstanding, worker, batch, draining, commands>>

SyncSubmit(intact) ==
  LET i == sync.at
      replace == ~Manual(i) /\ i = sync.preempt
  IN  /\ i # NoItem
      /\ IF FailedBefore(i) \/ (~replace /\ ~rt.stopping /\ Reuses(rt, i, sync.life[i], intact))
           THEN /\ sync' = [sync EXCEPT !.at = NoItem]
                /\ UNCHANGED <<appVars, outstanding, rt>>
           ELSE IF ~Admits(rt, i) \/ life[i] # sync.life[i]
           THEN /\ sync' = NoSync
                /\ UNCHANGED <<appVars, outstanding, rt>>
           ELSE /\ Reserve(<<i>>)
                /\ sync' = [sync EXCEPT !.at = NoItem]
                /\ rt' = Submitted(rt, i, issued + 1, "normal")
                /\ outstanding' = outstanding \cup {issued + 1}
      /\ UNCHANGED <<worker, batch, draining, commands>>

\* AppState's readable artifact is still on disk: nothing to do
SyncSkip(i) ==
  /\ sync.phase = "submit"
  /\ sync.at = NoItem
  /\ i \in sync.todo
  /\ sync' = [sync EXCEPT !.todo = @ \ {i}]
  /\ UNCHANGED <<appVars, outstanding, rt, worker, batch, draining, commands>>

\* reorder: the manual retry first, the others as the plan has them
SyncReorder(order) ==
  LET lane == ToSet(rt.queue["primary"])
      front == {i \in lane : rt.front = [item |-> i, token |-> rt.jobs[i]]}
  IN  /\ sync.phase = "submit"
      /\ sync.todo = {} /\ sync.at = NoItem
      /\ sync' = NoSync
      /\ rt' = [rt EXCEPT !.queue["primary"] =
                  SelectSeq(order, LAMBDA i : i \in front)
                    \o SelectSeq(order, LAMBDA i : i \in lane \ front)]
      /\ UNCHANGED <<appVars, outstanding, worker, batch, draining, commands>>

-----------------------------------------------------------------------------
(* Workers. *)

\* A song whose executor is still at work goes to the end of the lane
Start(w) ==
  LET i == Head(rt.queue[w])
      popped == [rt EXCEPT !.queue[w] = Tail(@)]
  IN  /\ ~rt.stopping
      /\ worker[w] = NoJob
      /\ rt.queue[w] # <<>>
      /\ IF Active(i)
           THEN rt' = [popped EXCEPT !.queue[w] = Append(@, i)] /\ worker' = worker
         ELSE IF rt.jobs[i] = 0
           THEN rt' = popped /\ worker' = worker
         ELSE /\ worker' = [worker EXCEPT
                              ![w] = [item |-> i, token |-> rt.jobs[i], phase |-> "running"]]
              /\ rt' = Reported([popped EXCEPT
                                 !.active[i] = [token |-> rt.jobs[i], cancel |-> FALSE]])
      /\ UNCHANGED <<appVars, outstanding, batch, sync, draining, commands>>

\* run_job, past its last look at the cancel flag
Authorize(w) ==
  /\ worker[w].phase = "running"
  /\ LET i == worker[w].item
     IN  /\ ~rt.active[i].cancel
         /\ holder[i] = worker[w].token
  /\ worker' = [worker EXCEPT ![w].phase = "publishing"]
  /\ UNCHANGED <<appVars, outstanding, rt, batch, sync, draining, commands>>

Settle(w, kind) ==
  /\ \/ kind = "failed" /\ worker[w] # NoJob
     \/ kind = "cancelled" /\ worker[w].phase = "running" /\ rt.active[worker[w].item].cancel
     \/ kind = "ready" /\ worker[w].phase = "publishing"
  /\ rt' = Settled(rt, worker[w].item, worker[w].token, kind)
  /\ worker' = [worker EXCEPT ![w] = NoJob]
  /\ UNCHANGED <<appVars, outstanding, batch, sync, draining, commands>>

-----------------------------------------------------------------------------
(* The pump. *)

\* The song of the terminal event e still waits for it
Unapplied(e) == e.item # NoItem /\ e.token = holder[e.item]

\* process_events: the next events, and every terminal event again.  Those that
\* change nothing when they are applied now never will, and are left out.
Drain ==
  LET n == IF Len(rt.events) > DrainLimit THEN DrainLimit ELSE Len(rt.events)
  IN  /\ sync = NoSync
      /\ batch = {}
      /\ batch' = {e \in {rt.events[k] : k \in 1 .. n} \cup {rt.terminals[i] : i \in Items} :
                     Unapplied(e) \/ e.token \in outstanding}
      /\ rt' = [rt EXCEPT !.events = SubSeq(@, n + 1, Len(@))]
      /\ UNCHANGED <<appVars, outstanding, worker, sync, draining, commands>>

\* CacheApplication::apply: settle every reservation that has ended, and tell
\* AppState, which takes the end of the attempt that holds the song
Apply ==
  /\ batch # {}
  /\ batch' = {}
  /\ holder' = [i \in Items |->
                  IF \E e \in batch : e.item = i /\ Unapplied(e) THEN 0 ELSE holder[i]]
  /\ outstanding' = outstanding \ {e.token : e \in batch}
  /\ UNCHANGED <<life, lives, issued, lifeOf, rt, worker, sync, draining, commands>>

-----------------------------------------------------------------------------
Orders == SetToSeqs(Items)
NoOne == [on |-> FALSE, tokens |-> {}]

CRInit ==
  /\ life = [i \in Items |-> 1]
  /\ lives = 1
  /\ holder = [i \in Items |-> 0]
  /\ issued = 0
  /\ lifeOf = [t \in Tokens |-> 0]
  /\ outstanding = {}
  /\ rt = [stopping |-> FALSE,
           jobs |-> [i \in Items |-> 0],
           queue |-> [w \in Workers |-> <<>>],
           active |-> [i \in Items |-> [token |-> 0, cancel |-> FALSE]],
           front |-> [item |-> NoItem, token |-> 0],
           completed |-> [i \in Items |-> 0],
           terminals |-> [i \in Items |-> NoEvent],
           events |-> <<>>]
  /\ worker = [w \in Workers |-> NoJob]
  /\ batch = {}
  /\ sync = NoSync
  /\ draining = [d \in {"clear", "stop"} |-> NoOne]
  /\ commands \in Callers

Host(i) ==
  \/ "playlist" \in commands /\ (Admit(i) \/ Withdraw(i))
  \/ "submit" \in commands /\ \E lane \in {"normal", "urgent"}, replace, intact \in BOOLEAN :
       Submit(i, lane, replace, intact)
  \/ "retry" \in commands /\ (RetryUrgent(i) \/ RetryFront(i) \/ RetryOnlyResets(i) \/ RetryDisplaces(i))
  \/ "cancel" \in commands /\ (CancelItem(i) \/ TakeOver(i))

Clearing ==
  \/ "clear" \in commands /\ \E order \in Orders : Clear(order)
  \/ ClearBusy
  \/ Cleared

Stopping ==
  \/ "shutdown" \in commands /\ Shutdown
  \/ Stopped

Synchronisation ==
  \/ /\ "sync" \in commands
     /\ \E retained, desired \in SUBSET Items, preempt \in Items \cup {NoItem} :
          SyncPlan(retained, desired, preempt)
  \/ \E order \in Orders, intact \in SUBSET Items : SyncWindow(order, intact)
  \/ \E i \in Items : SyncSkip(i) \/ \E intact \in BOOLEAN : SyncLook(i, intact)
  \/ \E intact \in BOOLEAN : SyncSubmit(intact)
  \/ \E order \in Orders : SyncReorder(order)

Work(w) ==
  \/ Start(w)
  \/ Authorize(w)
  \/ \E kind \in {"failed", "cancelled", "ready"} : Settle(w, kind)

Pump == Drain \/ Apply

CRNext ==
  \/ \E i \in Items : Host(i)
  \/ Clearing
  \/ Stopping
  \/ Synchronisation
  \/ \E w \in Workers : Work(w)
  \/ Pump

CRSpec == CRInit /\ [][CRNext]_crVars

-----------------------------------------------------------------------------
Places(i) == {p \in Workers \X (1 .. Cardinality(Items) + 1) :
                p[2] \in DOMAIN rt.queue[p[1]] /\ rt.queue[p[1]][p[2]] = i}

\* No job is lost and none is run twice: a job that no worker has begun stands in
\* exactly one place of the two lanes, and nothing else does, whatever is replaced,
\* cancelled, put to the front or reordered while the workers put back songs that
\* are still being worked at.
QueuedOnce ==
  \A i \in Items :
    Cardinality(Places(i)) = IF rt.jobs[i] \notin {0, rt.active[i].token} THEN 1 ELSE 0

\* The two workers never work at the same song, and the table of active jobs knows
\* each of them by its token: a cancellation reaches the executor it is meant for.
SongRunsOnce ==
  /\ worker["primary"].item = worker["urgent"].item => worker["primary"] = NoJob
  /\ \A i \in Items, t \in Tokens :
       rt.active[i].token = t <=> \E w \in Workers : worker[w].item = i /\ worker[w].token = t

\* The scheduler's tables agree: a song has at most one job, in one place of one lane
\* or with one worker, whoever replaces, retries, preempts or puts it back
\* (submit_locked, worker_loop, retry_native_host_locked).
OneWorkPerSong == CRTypeOK /\ QueuedOnce /\ SongRunsOnce

\* A reservation that is queued or run is never settled: until its worker has come
\* to an end its artifact set stays protected from the collector.
WorkProtected ==
  \A i \in Items : {rt.jobs[i], rt.active[i].token} \ {0} \subseteq outstanding

\* A finished job counts for its song only while nothing newer is queued or runs.
CompletedIsLatest ==
  \A i \in Items : rt.completed[i] # 0 => rt.jobs[i] = 0 /\ ~Active(i)

Recorded == {rt.terminals[i] : i \in Items} \cup batch
Reachable == ToSet(rt.events) \cup Recorded
Endings == {e \in Reachable : e.kind \in TerminalKinds}

\* An attempt ends in one way: two terminal events of one attempt are the same event.
OneEnding == \A e, f \in Endings : e.token = f.token => e = f

\* Whatever order executors, cancellations and replacements settle in, the records of
\* one song agree with each other (settle_job_locked, cancel_item_locked).
EndsAgree == OneEnding /\ CompletedIsLatest

GivenUp(e) ==
  \/ draining'["clear"].on /\ ~draining["clear"].on
  \/ sync.phase = "window" /\ sync.life[e.item] = 0

\* The end of an attempt is recorded beside the queue when it is reported, and stays
\* there until AppState has it, however many events the bounded queue drops; only
\* Clear, and a synchronisation planned before the song was there, give it up.
EndStaysInReach ==
  [][/\ Endings' \subseteq Endings \cup Recorded'
     /\ \A e \in Endings \cap Recorded :
          Unapplied(e) => e \in Recorded' \/ holder'[e.item] # e.token \/ GivenUp(e)]_crVars

Fairness ==
  /\ WF_crVars(Drain)
  /\ WF_crVars(Apply)
  /\ \A w \in Workers :
       /\ WF_crVars(Start(w))
       /\ WF_crVars(\E kind \in {"failed", "cancelled", "ready"} : Settle(w, kind))

CRFairSpec == CRSpec /\ Fairness

=============================================================================
