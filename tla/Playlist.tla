------------------------------ MODULE Playlist ------------------------------
(***************************************************************************)
(* The waiting songs of a session                                          *)
(* (rust/src/playlist_planning.rs, rust-runtime/src/app_state.rs,          *)
(* app_state/session_users.rs).                                            *)
(*                                                                         *)
(* Singers take turns in the order of their seats, starting after the      *)
(* singer of the current song.  A waiting song has a slot of the rotation  *)
(* ("cycle"), or one that somebody has chosen for it ("priority",          *)
(* "manual") and that the rotation leaves alone.  A song belongs to a      *)
(* stable singer, not to a name.  Every persisted change writes a backup   *)
(* of what is live; a Host that starts again may offer it.                 *)
(*                                                                         *)
(* data is AppStateData.  A request changes a copy of it, which Commit     *)
(* completes and publishes.                                                *)
(***************************************************************************)
EXTENDS Naturals, FiniteSets, SequencesExt

CONSTANTS
  Items,     \* requests: no id is used twice
  NoItem,
  Singers,   \* stable ids: a name that comes back gets a new one
  NoSinger

ASSUME PlaylistAssumption == NoItem \notin Items /\ NoSinger \notin Singers

VARIABLES
  data,
  seated,   \* singers who have had a seat
  asked,    \* history: the singer a song was requested for
  rotated,  \* history: the queue has been sorted since the current song started
  passed    \* history: who has sung since a singer waits for a turn

plVars == <<data, seated, asked, rotated, passed>>

Slots == {"cycle", "priority", "manual"}

NoSegments == [i \in Items |-> 0]

NoBackup == [current |-> NoItem, queue |-> <<>>, open |-> NoSegments]

\* open counts the segments of session_played that have not ended
Empty ==
  [seats |-> <<>>, current |-> NoItem, queue |-> <<>>,
   slot |-> [i \in Items |-> "cycle"], owner |-> [i \in Items |-> NoSinger],
   open |-> NoSegments, backup |-> NoBackup]

Live(d) == (Range(d.queue) \cup {d.current}) \ {NoItem}

PLInit ==
  /\ data = Empty
  /\ seated = {}
  /\ asked = [i \in Items |-> NoSinger]
  /\ rotated = TRUE
  /\ passed = [s \in Singers |-> {}]

---------------------------------------------------------------------------
(* plan_playlist_order                                                     *)

\* cycle_state: the songs that take part in the rotation
Rotates(d, i) == d.slot[i] = "cycle" /\ d.owner[i] \in Range(d.seats)

Position(s, x) == CHOOSE k \in DOMAIN s : s[k] = x

\* rotated_users: the place of a singer after the current one
Turn(d, s) ==
  LET n == Len(d.seats)
      first == IF d.current # NoItem /\ d.owner[d.current] \in Range(d.seats)
               THEN Position(d.seats, d.owner[d.current]) ELSE 0
  IN  (Position(d.seats, s) + n - first - 1) % n

\* The songs of the singer of i that rotate within s
Before(d, s, i) == SelectSeq(s, LAMBDA j : Rotates(d, j) /\ d.owner[j] = d.owner[i])

\* The key of the song i behind the songs s
Key(d, s, i) == [round |-> Len(Before(d, s, i)), turn |-> Turn(d, d.owner[i])]

KeyAt(d, k) == Key(d, SubSeq(d.queue, 1, k - 1), d.queue[k])

Earlier(a, b) == a.round < b.round \/ (a.round = b.round /\ a.turn < b.turn)

\* Fault: the songs that rotate are taken from the back
Rebuilt_Backwards(d) ==
  LET places == {k \in DOMAIN d.queue : Rotates(d, d.queue[k])}
      nth(k) == Cardinality({j \in places : j > k})
      rank(k) == Cardinality({j \in places : Earlier(KeyAt(d, j), KeyAt(d, k))})
  IN  [d EXCEPT !.queue = [k \in DOMAIN d.queue |->
         IF k \notin places THEN d.queue[k]
         ELSE d.queue[CHOOSE j \in places : rank(j) = nth(k)]]]

\* Rebuild: the songs that rotate are sorted within the places they have
Rebuilt(d) ==
  LET places == {k \in DOMAIN d.queue : Rotates(d, d.queue[k])}
      nth(k) == Cardinality({j \in places : j < k})
      rank(k) == Cardinality({j \in places : Earlier(KeyAt(d, j), KeyAt(d, k))})
  IN  [d EXCEPT !.queue = [k \in DOMAIN d.queue |->
         IF k \notin places THEN d.queue[k]
         ELSE d.queue[CHOOSE j \in places : rank(j) = nth(k)]]]

\* Fault: the new song waits behind its own round only
Inserted_ByRound(d, i) ==
  LET new == Key(d, d.queue, i)
      behind == {k \in DOMAIN d.queue :
                   ~Rotates(d, d.queue[k]) \/ KeyAt(d, k).round < new.round}
  IN  [d EXCEPT !.queue = InsertAt(d.queue, Max({0} \cup behind) + 1, i)]

\* InsertCycle: behind every chosen place and everything that is not later
Inserted(d, i) ==
  LET new == Key(d, d.queue, i)
      behind == {k \in DOMAIN d.queue :
                   ~Rotates(d, d.queue[k]) \/ ~Earlier(new, KeyAt(d, k))}
  IN  [d EXCEPT !.queue = InsertAt(d.queue, Max({0} \cup behind) + 1, i)]

---------------------------------------------------------------------------
(* The common end of a request                                             *)

\* update_backup_from_state
Saved(d) ==
  [d EXCEPT !.backup =
     IF Live(d) = {} THEN NoBackup
     ELSE [current |-> d.current, queue |-> d.queue, open |-> d.open]]

Keeping(d, kept) ==
  [d EXCEPT !.owner = [i \in Items |-> IF i \in kept THEN d.owner[i] ELSE NoSinger],
            !.slot = [i \in Items |-> IF i \in kept THEN d.slot[i] ELSE "cycle"]]

\* requester_user_ids.retain; the slot goes with the song
Owned(d) == Keeping(d, Live(d) \cup Live(d.backup))

Sings(d) == IF d.current = NoItem THEN {} ELSE {d.owner[d.current]} \cap Range(d.seats)

Waits(d) == {d.owner[i] : i \in {j \in Range(d.queue) : Rotates(d, j)}}

\* Somebody with a seat sings and every waiting song rotates
Calm(d) == Sings(d) # {} /\ \A i \in Range(d.queue) : Rotates(d, i)

\* The seats stay in their order
SameSeats(d, e) ==
  LET rest(a, b) == SelectSeq(a, LAMBDA s : s \in Range(b))
  IN  rest(d.seats, e.seats) = rest(e.seats, d.seats)

\* Nobody has chosen who sings now or where the singers sit
ByTurns(d, e) ==
  /\ Calm(d)
  /\ SameSeats(d, e)
  /\ e.current = d.current \/ (d.queue # <<>> /\ e.current = Head(d.queue))

\* History: a song that was chosen for the stage leaves the queue unsorted until a rebuild
Observe(sorted) ==
  /\ rotated' = (sorted \/ data'.queue = <<>> \/ (rotated /\ data'.current = data.current))
  /\ passed' = [s \in Singers |->
       IF s \notin Waits(data') \/ ~Calm(data') \/ ~rotated' THEN {}
       ELSE IF s \in Waits(data) /\ ByTurns(data, data') /\ rotated
               /\ (data'.current # data.current => s \notin Sings(data'))
         THEN passed[s] \cup Sings(data') ELSE Sings(data')]

\* A request that is persisted has its backup written
Commit(next, sorted) ==
  /\ data' = Owned(Saved(next))
  /\ Observe(sorted)

\* One that is not leaves the backup as the request has it
CommitOnly(next, sorted) ==
  /\ data' = Owned(next)
  /\ Observe(sorted)

---------------------------------------------------------------------------
(* The stage                                                               *)

Without(q, i) == SelectSeq(q, LAMBDA j : j # i)

\* record_session_played; the next current item
Staged(d, i) ==
  [d EXCEPT !.current = i, !.queue = Without(d.queue, i), !.open[i] = @ + 1]

\* mark_session_played_ended, by archive_current too
Ended(d) ==
  IF d.current = NoItem \/ d.open[d.current] = 0 THEN d
  ELSE [d EXCEPT !.open[d.current] = @ - 1]

Cleared(d) == [Ended(d) EXCEPT !.current = NoItem]

\* AddItem
AddItem(i, s, position) ==
  LET new == [data EXCEPT !.owner[i] = s,
                          !.slot[i] = IF position = "next" THEN "priority" ELSE "cycle"]
  IN  /\ asked[i] = NoSinger
      /\ s \in Range(data.seats)
      /\ asked' = [asked EXCEPT ![i] = s]
      /\ Commit(IF data.current = NoItem THEN Staged(new, i)
                ELSE IF position = "next" THEN [new EXCEPT !.queue = <<i>> \o @]
                ELSE Inserted(new, i), FALSE)
      /\ UNCHANGED seated

\* RemoveItem
RemoveItem(i) ==
  /\ i \in Live(data)
  /\ Commit(Rebuilt(IF i = data.current THEN Cleared(data)
                    ELSE [data EXCEPT !.queue = Without(@, i)]), TRUE)
  /\ UNCHANGED <<seated, asked>>

\* ClearPlaylist
ClearPlaylist ==
  /\ data.queue # <<>> \/ data.backup # NoBackup
  /\ CommitOnly([data EXCEPT !.queue = <<>>, !.backup = NoBackup], FALSE)
  /\ UNCHANGED <<seated, asked>>

\* AdvanceToNext, for the generation that is played
AdvanceToNext ==
  /\ Live(data) # {}
  /\ Commit(Rebuilt(IF data.queue = <<>> THEN Cleared(data)
                    ELSE Staged(Ended(data), Head(data.queue))), TRUE)
  /\ UNCHANGED <<seated, asked>>

\* Fault: the segment of the song that is put back does not end
Deferred_Playing(d, k) ==
  LET on == Staged(d, Head(d.queue))
  IN  [on EXCEPT !.queue = InsertAt(on.queue, k, d.current), !.slot[d.current] = "manual"]

Deferred(d, k) ==
  LET on == Staged(Ended(d), Head(d.queue))
  IN  [on EXCEPT !.queue = InsertAt(on.queue, k, d.current), !.slot[d.current] = "manual"]

\* DeferCurrentItem: the order somebody wants, and no rebuild
DeferCurrent(k) ==
  /\ data.current # NoItem
  /\ k \in DOMAIN data.queue
  /\ Commit(Deferred(data, k), FALSE)
  /\ UNCHANGED <<seated, asked>>

\* MoveToFront, SetCurrentItem
Play(i) ==
  /\ i \in Range(data.queue)
  /\ Commit(Rebuilt(Staged(Ended(data), i)), TRUE)
  /\ UNCHANGED <<seated, asked>>

\* SetCurrentItem without an item
LeaveStage ==
  /\ data.current # NoItem
  /\ Commit(Cleared(data), FALSE)
  /\ UNCHANGED <<seated, asked>>

---------------------------------------------------------------------------
(* The order                                                               *)

\* MoveToNext
MoveToNext(i) ==
  /\ i \in Range(data.queue)
  /\ Commit(Rebuilt([data EXCEPT !.queue = <<i>> \o Without(@, i), !.slot[i] = "priority"]), TRUE)
  /\ UNCHANGED <<seated, asked>>

\* MoveItem, MoveItemToIndex
Move(i, k) ==
  /\ i \in Range(data.queue)
  /\ k \in DOMAIN data.queue /\ data.queue[k] # i
  /\ Commit(Rebuilt([data EXCEPT !.queue = InsertAt(Without(@, i), k, i), !.slot[i] = "manual"]), TRUE)
  /\ UNCHANGED <<seated, asked>>

\* ResortPlaylistByCycle
Resort ==
  /\ Len(data.queue) > 1 \/ \E i \in Range(data.queue) : data.slot[i] # "cycle"
  /\ Commit(Rebuilt([data EXCEPT !.slot =
       [i \in Items |-> IF i \in Range(data.queue) THEN "cycle" ELSE data.slot[i]]]), TRUE)
  /\ UNCHANGED <<seated, asked>>

\* RemoveHistoryEntry
RemovePlayed(i) ==
  /\ asked[i] # NoSinger
  /\ Commit([data EXCEPT !.open[i] = 0], FALSE)
  /\ UNCHANGED <<seated, asked>>

\* SetVolume and the like: persisted, with a backup of what is live
SaveSettings ==
  /\ Commit(data, FALSE)
  /\ UNCHANGED <<seated, asked>>

\* ClearHistory: persisted, without one
ClearHistory ==
  /\ CommitOnly(data, FALSE)
  /\ UNCHANGED <<seated, asked>>

---------------------------------------------------------------------------
(* Singers                                                                 *)

\* AddSessionUser: a name that has been removed comes back as another singer
AddSessionUser(s) ==
  /\ s \notin seated
  /\ seated' = seated \cup {s}
  /\ Commit(Rebuilt([data EXCEPT !.seats = Append(@, s)]), TRUE)
  /\ UNCHANGED asked

\* RemoveSessionUser, EditSessionUsers
RemoveSessionUsers(ss) ==
  /\ ss # {} /\ ss \subseteq Range(data.seats)
  /\ Commit(Rebuilt([data EXCEPT !.seats = SelectSeq(@, LAMBDA s : s \notin ss)]), TRUE)
  /\ UNCHANGED <<seated, asked>>

\* MoveSessionUserToIndex, EditSessionUsers
Reseat(seats) ==
  /\ Range(seats) = Range(data.seats) /\ seats # data.seats
  /\ Commit(Rebuilt([data EXCEPT !.seats = seats]), TRUE)
  /\ UNCHANGED <<seated, asked>>

---------------------------------------------------------------------------
(* Sessions                                                                *)

\* RestoreBackup
RestoreBackup ==
  /\ Live(data.backup) # {}
  /\ CommitOnly(Rebuilt([data EXCEPT !.current = data.backup.current,
                                     !.queue = data.backup.queue,
                                     !.open = data.backup.open]), TRUE)
  /\ UNCHANGED <<seated, asked>>

Reset(d) == [d EXCEPT !.current = NoItem, !.queue = <<>>, !.backup = NoBackup]

\* DiscardBackup, BeginSession
NewSession ==
  /\ CommitOnly([Reset(data) EXCEPT !.open = NoSegments], FALSE)
  /\ UNCHANGED <<seated, asked>>

\* ResolveNativeSession
NewEvening ==
  /\ CommitOnly([Reset(data) EXCEPT !.open = NoSegments, !.seats = <<>>], FALSE)
  /\ UNCHANGED <<seated, asked>>

\* ResetRuntime keeps the records of the session
ResetRuntime ==
  /\ CommitOnly([Reset(data) EXCEPT !.seats = <<>>], FALSE)
  /\ UNCHANGED <<seated, asked>>

\* A Host that offers the backup of the last one starts with an empty stage
Reopen ==
  /\ data' = [data EXCEPT !.current = NoItem, !.queue = <<>>, !.open = NoSegments]
  /\ Observe(FALSE)
  /\ UNCHANGED <<seated, asked>>

Positions == 1..Cardinality(Items)

PLNext ==
  \/ \E i \in Items, s \in Singers, position \in {"tail", "next"} : AddItem(i, s, position)
  \/ \E i \in Items : RemoveItem(i)
  \/ ClearPlaylist
  \/ AdvanceToNext
  \/ \E k \in Positions : DeferCurrent(k)
  \/ \E i \in Items : Play(i)
  \/ LeaveStage
  \/ \E i \in Items : MoveToNext(i)
  \/ \E i \in Items, k \in Positions : Move(i, k)
  \/ Resort
  \/ \E i \in Items : RemovePlayed(i)
  \/ SaveSettings
  \/ ClearHistory
  \/ \E s \in Singers : AddSessionUser(s)
  \/ \E ss \in SUBSET Singers : RemoveSessionUsers(ss)
  \/ \E seats \in SetToSeqs(Range(data.seats)) : Reseat(seats)
  \/ RestoreBackup
  \/ NewSession
  \/ NewEvening
  \/ ResetRuntime
  \/ Reopen

PLSpec == PLInit /\ [][PLNext]_plVars

---------------------------------------------------------------------------
(* Properties                                                              *)

PLTypeOK ==
  /\ data.seats \in SeqOf(Singers, Cardinality(Singers)) /\ IsInjective(data.seats)
  /\ data.current \in Items \cup {NoItem}
  /\ data.slot \in [Items -> Slots]
  /\ data.owner \in [Items -> Singers \cup {NoSinger}]
  /\ data.open \in [Items -> 0..1]
  /\ seated \subseteq Singers
  /\ asked \in [Items -> Singers \cup {NoSinger}]

\* What is recorded of a song stays true through moves, reorders, new seats, backups
\* and new sessions: it is live once; it belongs to the singer it was requested for, also
\* in a backup and when that singer's name has been taken by another; and it has an open
\* segment in the record of the session only while it is on stage.
SongsKeepRecords ==
  /\ PLTypeOK
  /\ IsInjective(data.queue) /\ data.current \notin Range(data.queue)
  /\ \A i \in Live(data) \cup Live(data.backup) : data.owner[i] = asked[i]
  /\ \A i \in Live(data) : data.open[i] > 0 => i = data.current

\* While every waiting song has its place by rotation and somebody with a seat sings,
\* nobody sings a second time while another singer waits throughout: the song that is
\* next is never one of a singer who has sung since that other began to wait
\* (plan_playlist_order with every request around it).
FairTurns ==
  [][data.queue # <<>> /\ data'.current = Head(data.queue) /\ Calm(data) /\ rotated
       => \A s \in (Waits(data) \cap Waits(data')) \ Sings(data') :
            passed[s] \cap Sings(data') = {}]_plVars

\* A singer's own songs that rotate keep their order, whatever happens to the songs and
\* the seats of others, and also when every chosen place is given up (Rebuild, InsertCycle,
\* ResortPlaylistByCycle).
OwnOrderKept ==
  [][\A i, j \in Range(data.queue) \cap Range(data'.queue) :
       /\ data'.owner[i] = data'.owner[j]
       /\ data'.slot[i] = "cycle" /\ data'.slot[j] = "cycle"
       /\ Position(data.queue, i) < Position(data.queue, j)
       => Position(data'.queue, i) < Position(data'.queue, j)]_plVars
=============================================================================
