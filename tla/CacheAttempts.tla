--------------------------- MODULE CacheAttempts ---------------------------
(***************************************************************************)
(* AppState's authority over the media cache of the live songs             *)
(* (rust-runtime/src/app_state.rs).                                        *)
(*                                                                         *)
(* A live song (the current item or a member of the playlist) is cached by *)
(* attempts.  BeginCacheAttempt hands out a reservation under a fresh      *)
(* token; the executor that holds it reports events, late, repeated, and   *)
(* concurrently with removals, re-requests and further attempts.  AppState *)
(* applies an event only if its token is the live song's active attempt    *)
(* and that attempt has not ended, and it counts up playback_generation    *)
(* whenever the program the player must mount changes.                     *)
(*                                                                         *)
(* An item id may come back after its removal; each admission gets a fresh *)
(* incarnation.  The artifact set id and the token are allocated together  *)
(* by BeginCacheAttempt and never separately, so a token also names the    *)
(* artifact set it may publish.  0 stands for "none" in all three.         *)
(***************************************************************************)
EXTENDS Naturals

CONSTANTS
  Items,          \* playlist item ids
  NoItem,         \* no current item
  MaxToken,       \* last token the allocator can issue
  MaxIncarnation, \* last incarnation the allocator can issue
  MaxGeneration   \* MAX_SAFE_JSON_INTEGER: last playback_generation

ASSUME CacheAttemptsAssumption ==
  /\ NoItem \notin Items
  /\ MaxToken \in Nat
  /\ MaxIncarnation \in Nat
  /\ MaxGeneration \in Nat \ {0}

VARIABLES
  up,              \* AppState.data is present
  incarnation,     \* item_incarnation_id of each live item, 0 if not live
  current,         \* current_item
  status,          \* cache_status of each item
  committed,       \* artifact_set_id of each item, 0 if cleared
  attempt,         \* token in active_cache_attempts, 0 if none
  terminal,        \* terminal_event of that attempt
  issued,          \* next_cache_attempt_token: the tokens handed out so far
  reservation,     \* what was reserved under each token
  nextIncarnation, \* next_item_incarnation_id
  generation       \* playback_generation

caVars == <<up, incarnation, current, status, committed, attempt, terminal,
            issued, reservation, nextIncarnation, generation>>

Tokens == 1 .. MaxToken
Statuses == {"pending", "queued", "downloading", "ready", "failed"}
TerminalEvents == {"ready", "failed", "cancelled", "evicted", "reset"}
Events == {"queued", "started", "progress"} \cup TerminalEvents
Reservations ==
  [item : Items, incarnation : 1 .. MaxIncarnation, refresh : BOOLEAN]
NoReservation == [item |-> NoItem, incarnation |-> 0, refresh |-> FALSE]

CATypeOK ==
  /\ up \in BOOLEAN
  /\ incarnation \in [Items -> 0 .. MaxIncarnation]
  /\ current \in Items \cup {NoItem}
  /\ status \in [Items -> Statuses]
  /\ committed \in [Items -> 0 .. MaxToken]
  /\ attempt \in [Items -> 0 .. MaxToken]
  /\ terminal \in [Items -> TerminalEvents \cup {"none"}]
  /\ issued \in 0 .. MaxToken
  /\ reservation \in [Tokens -> Reservations \cup {NoReservation}]
  /\ nextIncarnation \in 0 .. MaxIncarnation
  /\ generation \in 0 .. MaxGeneration

Live == {i \in Items : incarnation[i] # 0}

(***************************************************************************)
(* The commit rule shared by every mutation: the playback program is the   *)
(* current item, its incarnation and its committed artifact; a commit that *)
(* changes it, or forces a new program lifetime, takes the next            *)
(* generation and fails as a whole when there is none left.                *)
(***************************************************************************)
\* Fault: a new artifact of the current song is not a new program
ProgramChanges_Slot ==
  \/ current' # current
  \/ current # NoItem /\ incarnation'[current] # incarnation[current]

ProgramChanges ==
  \/ current' # current
  \/ /\ current # NoItem
     /\ \/ incarnation'[current] # incarnation[current]
        \/ committed'[current] # committed[current]

CommitProgram(force) ==
  /\ generation' = IF force \/ ProgramChanges THEN generation + 1 ELSE generation
  /\ generation' <= MaxGeneration

\* Where n songs of a saved state stand: 1 .. n, and 0 for the songs not in it
Placements(n) ==
  {p \in [Items -> 0 .. n] :
     \A k \in 1 .. n : \E i \in Items : \A j \in Items : (p[j] = k) <=> (j = i)}

\* The live songs become those of a saved state, each under a new incarnation
\* and without artifact; every active attempt is forgotten.
Reseed(n, place, cur) ==
  /\ place \in Placements(n)
  /\ cur # NoItem => place[cur] = 1
  /\ nextIncarnation' = nextIncarnation + n
  /\ nextIncarnation' <= MaxIncarnation
  /\ incarnation' =
       [i \in Items |-> IF place[i] = 0 THEN 0 ELSE nextIncarnation + place[i]]
  /\ current' = cur
  /\ status' = [i \in Items |-> "pending"]
  /\ committed' = [i \in Items |-> 0]
  /\ attempt' = [i \in Items |-> 0]
  /\ terminal' = [i \in Items |-> "none"]
  /\ UNCHANGED <<issued, reservation>>

\* Fault: the commit does not drop the attempts of removed songs
Forget_KeepingAttempts(S) ==
  /\ incarnation' = [i \in Items |-> IF i \in S THEN 0 ELSE incarnation[i]]
  /\ status' = [i \in Items |-> IF i \in S THEN "pending" ELSE status[i]]
  /\ committed' = [i \in Items |-> IF i \in S THEN 0 ELSE committed[i]]
  /\ UNCHANGED <<attempt, terminal>>

\* items leave the current slot and the playlist; the commit drops their attempts
Forget(S) ==
  /\ incarnation' = [i \in Items |-> IF i \in S THEN 0 ELSE incarnation[i]]
  /\ status' = [i \in Items |-> IF i \in S THEN "pending" ELSE status[i]]
  /\ committed' = [i \in Items |-> IF i \in S THEN 0 ELSE committed[i]]
  /\ attempt' = [i \in Items |-> IF i \in S THEN 0 ELSE attempt[i]]
  /\ terminal' = [i \in Items |-> IF i \in S THEN "none" ELSE terminal[i]]

CAInit ==
  /\ up = FALSE
  /\ incarnation = [i \in Items |-> 0]
  /\ current = NoItem
  /\ status = [i \in Items |-> "pending"]
  /\ committed = [i \in Items |-> 0]
  /\ attempt = [i \in Items |-> 0]
  /\ terminal = [i \in Items |-> "none"]
  /\ issued = 0
  /\ reservation = [t \in Tokens |-> NoReservation]
  /\ nextIncarnation = 0
  /\ generation = 0

\* Initialize builds new data from a seed, also over data that is present
Initialize(n, place, cur) ==
  /\ up' = TRUE
  /\ Reseed(n, place, cur)
  /\ generation' = 1

Shutdown ==
  /\ up' = FALSE
  /\ Reseed(0, [i \in Items |-> 0], NoItem)
  /\ generation' = 0

\* RestoreBackup brings saved songs back; DiscardBackup, BeginSession,
\* ResolveNativeSession and ResetRuntime leave none
ReplaceLiveItems(n, place, cur) ==
  /\ up
  /\ Reseed(n, place, cur)
  /\ UNCHANGED up
  /\ CommitProgram(FALSE)

AddItem(i) ==
  /\ up
  /\ i \notin Live
  /\ nextIncarnation < MaxIncarnation
  /\ nextIncarnation' = nextIncarnation + 1
  /\ incarnation' = [incarnation EXCEPT ![i] = nextIncarnation + 1]
  /\ current' = IF current = NoItem THEN i ELSE current
  /\ UNCHANGED <<up, status, committed, attempt, terminal, issued, reservation>>
  /\ CommitProgram(FALSE)

RemoveItem(i) ==
  /\ up
  /\ i \in Live
  /\ Forget({i})
  /\ current' = IF current = i THEN NoItem ELSE current
  /\ UNCHANGED <<up, issued, reservation, nextIncarnation>>
  /\ CommitProgram(FALSE)

ClearPlaylist ==
  /\ up
  /\ Forget(Live \ {current})
  /\ UNCHANGED <<up, current, issued, reservation, nextIncarnation, generation>>

\* AdvanceToNext, MoveToFront, SetCurrentItem: the current song is archived and
\* a waiting one, if any, takes its place
PlayNext(next) ==
  /\ up
  /\ current # NoItem
  /\ next \in (Live \ {current}) \cup {NoItem}
  /\ Forget({current})
  /\ current' = next
  /\ UNCHANGED <<up, issued, reservation, nextIncarnation>>
  /\ CommitProgram(FALSE)

\* AdvanceToNext with an empty current slot; DeferCurrentItem, which puts the
\* current song back into the queue with its incarnation and artifact
PlayWaiting(next) ==
  /\ up
  /\ next \in Live \ {current}
  /\ current' = next
  /\ UNCHANGED <<up, incarnation, status, committed, attempt, terminal, issued,
                 reservation, nextIncarnation>>
  /\ CommitProgram(FALSE)

\* RestartPlaybackProgram, ResetPlayer, and SetAudioVariant on the current item
RestartProgram ==
  /\ up
  /\ current # NoItem
  /\ UNCHANGED <<up, incarnation, current, status, committed, attempt, terminal,
                 issued, reservation, nextIncarnation>>
  /\ CommitProgram(TRUE)

Reserve(i) ==
  /\ issued < MaxToken
  /\ issued' = issued + 1
  /\ reservation' =
       [reservation EXCEPT ![issued + 1] =
          [item |-> i, incarnation |-> incarnation[i], refresh |-> committed[i] # 0]]
  /\ attempt' = [attempt EXCEPT ![i] = issued + 1]

\* The newest reservation takes the item over from any earlier attempt
BeginAttempt(i) ==
  /\ up
  /\ i \in Live
  /\ Reserve(i)
  /\ terminal' = [terminal EXCEPT ![i] = "none"]
  /\ UNCHANGED <<up, incarnation, current, status, committed, nextIncarnation,
                 generation>>

(***************************************************************************)
(* ApplyCacheEvent.  An attempt that began on an item with an artifact is a *)
(* refresh: until it ends well, the item keeps what it had.                *)
(***************************************************************************)
StatusOf ==
  [queued |-> "queued", started |-> "downloading", progress |-> "downloading",
   ready |-> "ready", failed |-> "failed", cancelled |-> "pending",
   evicted |-> "pending", reset |-> "pending"]

\* Fault: a failed refresh shows as a failed song
StatusAfter_RefreshFails(i, refresh, e) ==
  IF refresh /\ e \notin {"ready", "failed", "evicted", "reset"}
    THEN status[i]
    ELSE StatusOf[e]

StatusAfter(i, refresh, e) ==
  IF refresh /\ e \notin {"ready", "evicted", "reset"} THEN status[i] ELSE StatusOf[e]

\* Fault: starting an attempt clears the artifact, refresh or not
Clears_Refreshed(refresh, e) == e \in {"started", "cancelled", "evicted", "reset"}

Clears(refresh, e) ==
  \/ e \in {"evicted", "reset"}
  \/ e \in {"started", "cancelled"} /\ ~refresh

CommittedAfter(i, t, e) ==
  IF e = "ready" THEN t
  ELSE IF Clears(reservation[t].refresh, e) THEN 0
  ELSE committed[i]

OwnsItem(i, t) == up /\ i \in Live /\ t # 0 /\ attempt[i] = t

\* A reset may also clear the chosen audio variant, which is part of the program
Restarts(i, t, e, clears) ==
  i = current /\ (clears \/ CommittedAfter(i, t, e) # committed[i])

\* Fault: events after the terminal one are applied
Accepts_AfterTerminal(i, t, e, clears) ==
  /\ OwnsItem(i, t)
  /\ clears => e = "reset"
  /\ Restarts(i, t, e, clears) => generation < MaxGeneration

Accepts(i, t, e, clears) ==
  /\ OwnsItem(i, t)
  /\ terminal[i] = "none"
  /\ clears => e = "reset"
  /\ Restarts(i, t, e, clears) => generation < MaxGeneration

\* Everything Accepts refuses leaves the data as it was: a stale or conflicting
\* event is rejected, an identical terminal event is acknowledged as a replay.
ApplyEvent(i, t, e, clears) ==
  /\ Accepts(i, t, e, clears)
  /\ status' = [status EXCEPT ![i] = StatusAfter(i, reservation[t].refresh, e)]
  /\ committed' = [committed EXCEPT ![i] = CommittedAfter(i, t, e)]
  /\ terminal' = IF e \in TerminalEvents THEN [terminal EXCEPT ![i] = e] ELSE terminal
  /\ UNCHANGED <<up, incarnation, current, attempt, issued, reservation,
                 nextIncarnation>>
  /\ CommitProgram(clears /\ i = current)

\* A cache problem found on disk, or the first half of a forced repair: reserve
\* and report the end of the new attempt in one critical section
EndAtOnce(i, e) ==
  /\ up
  /\ i \in Live
  /\ Reserve(i)
  /\ terminal' = [terminal EXCEPT ![i] = e]
  /\ status' = [status EXCEPT ![i] = StatusAfter(i, committed[i] # 0, e)]
  /\ committed' = [committed EXCEPT ![i] = IF Clears(committed[i] # 0, e) THEN 0 ELSE @]
  /\ UNCHANGED <<up, incarnation, current, nextIncarnation>>
  /\ CommitProgram(FALSE)

CANext ==
  \/ \E n \in 0 .. MaxIncarnation : \E place \in Placements(n), cur \in Items \cup {NoItem} :
       Initialize(n, place, cur) \/ ReplaceLiveItems(n, place, cur)
  \/ Shutdown
  \/ ClearPlaylist
  \/ \E i \in Items : AddItem(i) \/ RemoveItem(i) \/ BeginAttempt(i)
  \/ \E i \in Items, e \in {"failed", "evicted", "reset"} : EndAtOnce(i, e)
  \/ \E next \in Items \cup {NoItem} : PlayNext(next) \/ PlayWaiting(next)
  \/ RestartProgram
  \/ \E i \in Items, t \in 1 .. issued, e \in Events, clears \in BOOLEAN :
       ApplyEvent(i, t, e, clears)

CASpec == CAInit /\ [][CANext]_caVars

-----------------------------------------------------------------------------
\* A live song says it is ready exactly when it has an artifact to mount,
\* whatever its attempts did: a refresh that starts, fails or is cancelled never
\* shows, and no attempt on a song without artifact leaves "ready" behind.
ReadyIffCommitted ==
  \A i \in Live : status[i] = "ready" <=> committed[i] # 0

\* The artifact a song has was reserved for that song in its present life: an id
\* that is removed and requested again never inherits an artifact, however late
\* the events of the earlier attempts arrive.
CommittedOwned ==
  \A i \in Items : committed[i] # 0 =>
    /\ reservation[committed[i]].item = i
    /\ reservation[committed[i]].incarnation = incarnation[i]

\* The inductive strengthening of the two: who holds a song, and in what order
\* tokens reach it.  A first attempt (not a refresh) that is still open has a
\* song without artifact, since Started and Cancelled would clear one.
CAInv ==
  /\ CATypeOK
  /\ ReadyIffCommitted
  /\ CommittedOwned
  /\ \A i \in Items :
       /\ incarnation[i] <= nextIncarnation
       /\ i \notin Live => status[i] = "pending" /\ attempt[i] = 0
       /\ committed[i] <= attempt[i]
       /\ attempt[i] <= issued
       /\ attempt[i] = 0 => terminal[i] = "none"
       /\ attempt[i] # 0 =>
            /\ reservation[attempt[i]] \in Reservations
            /\ reservation[attempt[i]].item = i
            /\ reservation[attempt[i]].incarnation = incarnation[i]
            /\ terminal[i] = "none" /\ ~reservation[attempt[i]].refresh
                 => committed[i] = 0
  /\ current # NoItem => current \in Live

\* docs/native-desktop.md: an automatic replacement keeps the readable artifact
\* until its validated successor is published, also when it fails.  Within one
\* life of a song the artifact only gives way to a newer one, or is taken away
\* by an eviction or a forced repair.
KeepsReadable ==
  \A i \in Live : committed[i] # 0 /\ incarnation'[i] = incarnation[i]
    => \/ committed'[i] >= committed[i]
       \/ committed'[i] = 0 /\ terminal'[i] \in {"evicted", "reset"}

ReadableUntilReplaced == [][KeepsReadable]_caVars

\* The attempt that holds a song ends once: after its terminal event nothing but
\* a new reservation, or the song leaving, can change the song's artifact.
EndIsFinal ==
  \A i \in Live : terminal[i] # "none" /\ incarnation'[i] = incarnation[i]
    => \/ attempt'[i] > attempt[i]
       \/ /\ attempt'[i] = attempt[i]
          /\ terminal'[i] = terminal[i]
          /\ committed'[i] = committed[i]

AttemptEndsOnce == [][EndIsFinal]_caVars
=============================================================================
