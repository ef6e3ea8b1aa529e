------------------------- MODULE RemoteIdentities -------------------------
(***************************************************************************)
(* Who asks for a song (rust-runtime/src/internet_remote.rs,               *)
(* app_state/session_users.rs, app_state/native_session.rs).               *)
(*                                                                         *)
(* Singers have a name, which may change and be taken again, and an id,    *)
(* which is theirs alone.  Phones on the local network and peers on the    *)
(* internet know themselves by name: the Host carries the names along when *)
(* singers are renamed, removed or replaced and when the session changes.  *)
(* A phone is also remembered across restarts.                             *)
(*                                                                         *)
(* A peer sends messages on two lanes of a connection, which the page of   *)
(* the Host hands to the runtime in any order and perhaps twice.  A song   *)
(* that is asked for is fetched outside the lock of the application and    *)
(* added afterwards, to a session that may be another by then.             *)
(***************************************************************************)
EXTENDS Naturals, FiniteSets

CONSTANTS
  Names, NoName,
  NoUser,
  Devices,     \* phones on the local network, by their tokens
  Host,        \* the page of the Host itself
  Peers,       \* connections over the internet
  Lanes,
  MaxPending,  \* additions of a peer at a time: 8 in the source
  MaxEpoch, MaxSequence, MaxSession, MaxStamp  \* bounds of the model

ASSUME RemoteIdentitiesAssumption ==
  /\ NoName \notin Names
  /\ MaxPending \in Nat /\ MaxEpoch \in Nat /\ MaxSequence \in Nat
  /\ MaxSession \in Nat \ {0} /\ MaxStamp \in Nat
  /\ \A n \in Names, k \in 1..MaxStamp : NoUser # <<k, n>>

VARIABLES
  users,     \* the singers of the session: the id of each name
  stamp,     \* commits that have made ids
  session,   \* session_generation
  peers,     \* open connections: epoch, name, last sequence of each lane, pending additions
  epochs,    \* connections that each peer has made
  devices,   \* registered phones
  saved,     \* remote_identities: names remembered for phones
  fetches,   \* songs being fetched
  order,     \* history: for whom the last step has added a song, and in which session
  served     \* history: how often each message has been let through

riVars == <<users, stamp, session, peers, epochs, devices, saved, fetches, order, served>>

Ids == (1..MaxStamp) \X Names

Messages == [peer : Peers, epoch : 1..MaxEpoch, lane : Lanes, seq : 1..MaxSequence]

\* A name that stands for somebody; "is" is history: who that was when it was bound
Holders == [name : Names \cup {NoName}, is : Ids \cup {NoUser}]

Nobody == [name |-> NoName, is |-> NoUser]

Fetches ==
  [by : Peers, message : Messages, name : Names, user : Ids, session : 1..MaxSession]
    \cup [by : Devices \cup {Host}, user : Ids, session : 1..MaxSession]

PeerSessions ==
  [epoch : 0..MaxEpoch,  \* 0: not open
   holder : Holders,
   last : [Lanes -> 0..MaxSequence],
   pending : SUBSET Fetches]

NoOrder == [user |-> NoUser, session |-> 0]

Absent == [joined |-> FALSE, holder |-> Nobody, session |-> 0]

Closed == [epoch |-> 0, holder |-> Nobody, last |-> [l \in Lanes |-> 0], pending |-> {}]

RITypeOK ==
  /\ users \in [Names -> Ids \cup {NoUser}]
  /\ \A m, n \in Names : m # n /\ users[m] = users[n] => users[m] = NoUser
  /\ stamp \in 0..MaxStamp
  /\ session \in 1..MaxSession
  /\ peers \in [Peers -> PeerSessions]
  /\ epochs \in [Peers -> 0..MaxEpoch]
  /\ devices \in [Devices -> [joined : BOOLEAN, holder : Holders, session : 0..MaxSession]]
  /\ saved \in [Devices -> Holders]
  /\ fetches \in SUBSET Fetches
  /\ order \in [user : Ids \cup {NoUser}, session : 0..MaxSession]
  /\ served \in [Messages -> Nat]

RIInit ==
  /\ users = [n \in Names |-> NoUser]
  /\ stamp = 0
  /\ session = 1
  /\ peers = [p \in Peers |-> Closed]
  /\ epochs = [p \in Peers |-> 0]
  /\ devices = [d \in Devices |-> Absent]
  /\ saved = [d \in Devices |-> Nobody]
  /\ fetches = {}
  /\ order = NoOrder
  /\ served = [m \in Messages |-> 0]

---------------------------------------------------------------------------
(* Singers                                                                 *)

Present(n) == users[n] # NoUser

\* user_name_for_id
Sings(id) == \E n \in Names : users[n] = id

\* sync_user_ids: who has a name keeps the id, who is new gets one of its own
WithUsers(wanted) ==
  [n \in Names |-> IF n \notin wanted THEN NoUser
                   ELSE IF Present(n) THEN users[n] ELSE <<stamp + 1, n>>]

AddsUsers(wanted) == \E n \in wanted : ~Present(n)

\* session_users::rename, of a to b
Renamed(a, b) ==
  [n \in Names |-> IF n = b THEN users[a] ELSE IF n = a THEN NoUser ELSE users[n]]

RenameFits(a, b) == Present(a) /\ ~Present(b)

Relabel(h, a, b) == IF h.name = a THEN [h EXCEPT !.name = b] ELSE h

\* Fault: a holder is followed to a new name, and kept when its id is gone
Reconciled_Keeps(h, next) ==
  LET now == {n \in Names : next[n] = h.is} IN
    IF h.name = NoName \/ now = {} THEN h
    ELSE [h EXCEPT !.name = CHOOSE n \in now : TRUE]

\* reconcile_identities: a holder follows its id to the name it has now
Reconciled(h, next) ==
  IF h.name = NoName THEN Nobody
  ELSE LET id == users[h.name]
           now == {n \in Names : next[n] = id} IN
       IF id = NoUser \/ now = {} THEN Nobody
       ELSE [h EXCEPT !.name = CHOOSE n \in now : TRUE]

\* InternetRemotePeers::reconcile_identities
Peer(p, next, changed) ==
  [epoch |-> peers[p].epoch, last |-> peers[p].last,
   holder |-> IF changed THEN Nobody ELSE Reconciled(peers[p].holder, next),
   pending |-> IF changed THEN {} ELSE peers[p].pending]

\* NativeSession::reconcile_identities
Device(d, next, now) ==
  LET h == IF devices[d].session = now THEN Reconciled(devices[d].holder, next) ELSE Nobody IN
    [joined |-> devices[d].joined, holder |-> h,
     session |-> IF h = Nobody THEN 0 ELSE devices[d].session]

\* remote_identities at a commit: gone with the session, else names that are present
Kept(h, next, changed) ==
  IF changed \/ h.name = NoName THEN Nobody
  ELSE IF next[h.name] = NoUser THEN Nobody ELSE h

\* The commit of a request that leaves the singers "next" and the memory "memo"
Committed(next, memo, changed) ==
  /\ users' = next
  /\ session' = IF changed THEN session + 1 ELSE session
  /\ saved' = [d \in Devices |-> Kept(memo[d], next, changed)]
  /\ stamp' = IF \E n \in Names : next[n] = <<stamp + 1, n>> THEN stamp + 1 ELSE stamp

\* AddSessionUser, SetSessionUsers, RemoveSessionUser, EditSessionUsers (remove)
SetUsers(wanted) ==
  /\ wanted # {n \in Names : Present(n)}
  /\ AddsUsers(wanted) => stamp < MaxStamp
  /\ LET next == WithUsers(wanted) IN
       /\ Committed(next, saved, FALSE)
       /\ peers' = [p \in Peers |-> Peer(p, next, FALSE)]
       /\ devices' = [d \in Devices |-> Device(d, next, session)]
  /\ order' = NoOrder
  /\ UNCHANGED <<epochs, fetches, served>>

\* RenameSessionUser, EditSessionUsers (rename)
RenameUser(a, b) ==
  /\ RenameFits(a, b)
  /\ LET next == Renamed(a, b) IN
       /\ Committed(next, [d \in Devices |-> Relabel(saved[d], a, b)], FALSE)
       /\ peers' = [p \in Peers |-> Peer(p, next, FALSE)]
       /\ devices' = [d \in Devices |-> Device(d, next, session)]
  /\ order' = NoOrder
  /\ UNCHANGED <<epochs, fetches, served>>

\* BeginSession, DiscardBackup, RestoreBackup and ContinuePreviousSession keep the
\* singers; ResetRuntime and a session that is not continued start without any
NewSession(keep) ==
  /\ session < MaxSession
  /\ LET next == IF keep THEN users ELSE WithUsers({}) IN
       /\ Committed(next, saved, TRUE)
       /\ peers' = [p \in Peers |-> Peer(p, next, TRUE)]
       /\ devices' = [d \in Devices |-> Device(d, next, session')]
  /\ order' = NoOrder
  /\ UNCHANGED <<epochs, fetches, served>>

---------------------------------------------------------------------------
(* Phones                                                                  *)

\* native_join_remote
Joined(d) ==
  IF devices[d].joined THEN devices[d]
  ELSE [joined |-> TRUE, holder |-> saved[d],
        session |-> IF saved[d].name = NoName THEN 0 ELSE session]

Join(d) ==
  /\ ~devices[d].joined
  /\ devices' = [devices EXCEPT ![d] = Joined(d)]
  /\ order' = NoOrder
  /\ UNCHANGED <<users, stamp, session, peers, epochs, saved, fetches, served>>

\* The oldest phone makes room for another one
Evict(d) ==
  /\ devices[d].joined
  /\ devices' = [devices EXCEPT ![d] = Absent]
  /\ order' = NoOrder
  /\ UNCHANGED <<users, stamp, session, peers, epochs, saved, fetches, served>>

\* Too many names are remembered
Forget(d) ==
  /\ saved[d] # Nobody
  /\ saved' = [saved EXCEPT ![d] = Nobody]
  /\ order' = NoOrder
  /\ UNCHANGED <<users, stamp, session, peers, epochs, devices, fetches, served>>

\* The name that native_register finds for a phone
Current(d) ==
  IF Joined(d).holder.name # NoName /\ Joined(d).session = session
       /\ Present(Joined(d).holder.name)
    THEN Joined(d).holder.name ELSE NoName

\* The registration of d as n, once n is in "next"
Registered(d, n, next, memo) ==
  LET h == [name |-> n, is |-> next[n]] IN
    /\ Committed(next, [memo EXCEPT ![d] = h], FALSE)
    /\ peers' = [p \in Peers |-> Peer(p, next, FALSE)]
    /\ devices' = [e \in Devices |-> IF e = d
                      THEN [joined |-> TRUE, holder |-> h, session |-> session]
                      ELSE Device(e, next, session)]
    /\ order' = NoOrder
    /\ UNCHANGED <<epochs, fetches, served>>

\* native_register, with a claim if the name is somebody's
Register(d, n) ==
  /\ ~Present(n) => stamp < MaxStamp
  /\ Registered(d, n, WithUsers({n} \cup {m \in Names : Present(m)}), saved)

\* native_register of a new name for who is registered
Rename(d, n) ==
  LET now == Current(d) IN
    /\ now # NoName
    /\ RenameFits(now, n)
    /\ Registered(d, n, Renamed(now, n), [e \in Devices |-> Relabel(saved[e], now, n)])

\* native_identity: the id that stands for a phone, or for nobody
Identity(d) ==
  IF devices[d].holder.name # NoName /\ devices[d].session = session
       /\ Present(devices[d].holder.name)
    THEN users[devices[d].holder.name]
  ELSE IF saved[d].name # NoName THEN users[saved[d].name] ELSE NoUser

---------------------------------------------------------------------------
(* Songs that phones and the Host ask for                                  *)

\* /api/playlist/add, before the fetch
Ask(by, id) ==
  /\ id # NoUser
  /\ by # Host => id = Identity(by)
  /\ \A f \in fetches : f.by # by
  /\ fetches' = fetches \cup {[by |-> by, user |-> id, session |-> session]}
  /\ order' = NoOrder
  /\ UNCHANGED <<users, stamp, session, peers, epochs, devices, saved, served>>

\* Fault: only the phone is looked at again
StillFits_AnySession(f) == (f.by # Host => Identity(f.by) = f.user) /\ Sings(f.user)

\* /api/playlist/add, after the fetch: the same phone, the same session, a singer
StillFits(f) ==
  /\ f.by # Host => Identity(f.by) = f.user
  /\ f.session = session
  /\ Sings(f.user)

Answer(f) ==
  /\ f \in fetches /\ f.by \notin Peers
  /\ fetches' = fetches \ {f}
  /\ order' = IF StillFits(f) THEN [user |-> f.user, session |-> session] ELSE NoOrder
  /\ UNCHANGED <<users, stamp, session, peers, epochs, devices, saved, served>>

---------------------------------------------------------------------------
(* Peers                                                                   *)

\* open: every connection has an epoch of its own
Open(p) ==
  /\ epochs[p] < MaxEpoch
  /\ epochs' = [epochs EXCEPT ![p] = @ + 1]
  /\ peers' = [peers EXCEPT ![p] = [Closed EXCEPT !.epoch = epochs'[p]]]
  /\ order' = NoOrder
  /\ UNCHANGED <<users, stamp, session, devices, saved, fetches, served>>

Close(p) ==
  /\ peers[p].epoch # 0
  /\ peers' = [peers EXCEPT ![p] = Closed]
  /\ order' = NoOrder
  /\ UNCHANGED <<users, stamp, session, epochs, devices, saved, fetches, served>>

\* Fault: the epoch of a message is not looked at
Admitted_AnyEpoch(m) == peers[m.peer].epoch # 0 /\ m.seq > peers[m.peer].last[m.lane]

\* decode_remote_request_v1
Admitted(m) ==
  /\ peers[m.peer].epoch = m.epoch
  /\ m.seq > peers[m.peer].last[m.lane]

\* The sequence is used up whatever becomes of the message
Taken(m) == [peers[m.peer] EXCEPT !.last[m.lane] = m.seq]

Served(m) == served' = [served EXCEPT ![m] = @ + 1]

\* Stale, malformed or not allowed after its sequence has been taken
Decline(m) ==
  /\ Admitted(m)
  /\ peers' = [peers EXCEPT ![m.peer] = Taken(m)]
  /\ order' = NoOrder
  /\ UNCHANGED <<users, stamp, session, epochs, devices, saved, fetches, served>>

\* session.set_identity of a singer of the session
Identify(m, n) ==
  /\ Admitted(m)
  /\ Present(n)
  /\ peers' = [peers EXCEPT ![m.peer] =
                 [Taken(m) EXCEPT !.holder = [name |-> n, is |-> users[n]]]]
  /\ Served(m)
  /\ order' = NoOrder
  /\ UNCHANGED <<users, stamp, session, epochs, devices, saved, fetches>>

\* The commit of a message of p that leaves p with the name n
Adopt(m, n, next, memo) ==
  /\ Committed(next, memo, FALSE)
  /\ peers' = [[p \in Peers |-> Peer(p, next, FALSE)] EXCEPT
                 ![m.peer] = [Taken(m) EXCEPT !.holder = [name |-> n, is |-> next[n]]]]
  /\ devices' = [d \in Devices |-> Device(d, next, session)]
  /\ Served(m)
  /\ order' = NoOrder
  /\ UNCHANGED <<epochs, fetches>>

\* session.set_identity of a name nobody has
Introduce(m, n) ==
  /\ Admitted(m)
  /\ ~Present(n) /\ stamp < MaxStamp
  /\ Adopt(m, n, WithUsers({n} \cup {o \in Names : Present(o)}), saved)

\* session.rename, by who has the name
RenameSelf(m, n) ==
  LET now == peers[m.peer].holder.name IN
    /\ Admitted(m)
    /\ now # NoName
    /\ RenameFits(now, n)
    /\ Adopt(m, n, Renamed(now, n), [d \in Devices |-> Relabel(saved[d], now, n)])

HasPlace(p) == Cardinality(peers[p].pending) < MaxPending

\* playlist.add: begin_playlist_add, and the fetch begins
Add(m) ==
  LET p == m.peer
      name == peers[p].holder.name IN
    /\ Admitted(m)
    /\ name # NoName /\ Present(name)
    /\ HasPlace(p)
    /\ LET f == [by |-> p, message |-> m, name |-> name, user |-> users[name],
                 session |-> session] IN
         /\ peers' = [peers EXCEPT ![p] = [Taken(m) EXCEPT !.pending = @ \cup {f}]]
         /\ fetches' = fetches \cup {f}
    /\ Served(m)
    /\ order' = NoOrder
    /\ UNCHANGED <<users, stamp, session, epochs, devices, saved>>

\* Whom complete_internet_remote_playlist_add adds the song for
Singer(f) == f.user

\* complete_internet_remote_playlist_add
Complete(f) ==
  /\ f \in fetches /\ f.by \in Peers
  /\ fetches' = fetches \ {f}
  /\ IF f \in peers[f.by].pending
       THEN peers' = [peers EXCEPT ![f.by].pending = @ \ {f}]
       ELSE UNCHANGED peers
  /\ order' = IF f \in peers[f.by].pending /\ f.session = session
                   /\ Singer(f) # NoUser /\ Sings(Singer(f))
                THEN [user |-> Singer(f), session |-> session] ELSE NoOrder
  /\ UNCHANGED <<users, stamp, session, epochs, devices, saved, served>>

\* Fault: a fetch that fails leaves its place taken
Fail_Leaves(f) ==
  /\ f \in fetches
  /\ fetches' = fetches \ {f}
  /\ order' = NoOrder
  /\ UNCHANGED <<users, stamp, session, peers, epochs, devices, saved, served>>

\* The fetch fails: CancelInternetRemotePlaylistAdd
Fail(f) ==
  /\ f \in fetches
  /\ fetches' = fetches \ {f}
  /\ peers' = [p \in Peers |-> [peers[p] EXCEPT !.pending = @ \ {f}]]
  /\ order' = NoOrder
  /\ UNCHANGED <<users, stamp, session, epochs, devices, saved, served>>

---------------------------------------------------------------------------
\* A new process reads singers, ids and the memory of phones, and nothing else
Restart ==
  /\ session' = 1
  /\ peers' = [p \in Peers |-> Closed]
  /\ devices' = [d \in Devices |-> Absent]
  /\ fetches' = {}
  /\ order' = NoOrder
  /\ UNCHANGED <<users, stamp, epochs, saved, served>>

RINext ==
  \/ \E s \in SUBSET Names : SetUsers(s)
  \/ \E a, b \in Names : RenameUser(a, b)
  \/ \E keep \in BOOLEAN : NewSession(keep)
  \/ \E d \in Devices : Join(d)
  \/ \E d \in Devices : Evict(d)
  \/ \E d \in Devices : Forget(d)
  \/ \E d \in Devices, n \in Names : Register(d, n)
  \/ \E d \in Devices, n \in Names : Rename(d, n)
  \/ \E by \in Devices \cup {Host}, n \in Names : Ask(by, users[n])
  \/ \E f \in fetches : Answer(f)
  \/ \E p \in Peers : Open(p)
  \/ \E p \in Peers : Close(p)
  \/ \E m \in Messages : Decline(m)
  \/ \E m \in Messages, n \in Names : Identify(m, n)
  \/ \E m \in Messages, n \in Names : Introduce(m, n)
  \/ \E m \in Messages, n \in Names : RenameSelf(m, n)
  \/ \E m \in Messages : Add(m)
  \/ \E f \in fetches : Complete(f)
  \/ \E f \in fetches : Fail(f)
  \/ Restart

RISpec == RIInit /\ [][RINext]_riVars

---------------------------------------------------------------------------
(* Properties                                                              *)

Right(h) == h.name # NoName => users[h.name] = h.is

\* Whoever a phone or a peer was registered as, its name stands for that singer and
\* never for somebody else who has taken the name since, through renames, removals,
\* new sessions and restarts (reconcile_identities, native_join_remote).
IdentityNamesSinger ==
  /\ \A p \in Peers : Right(peers[p].holder)
  /\ \A d \in Devices : Right(devices[d].holder) /\ Right(saved[d])

\* No message of a peer has two effects, whatever the order and the number of its
\* deliveries and however often the peer connects again (validate).
ServedOnce == \A m \in Messages : served[m] <= 1

\* The places for additions of a peer are held by fetches that are under way: none
\* stays taken for ever, and no peer has more than its share (begin_playlist_add, effect).
PendingIsFetched ==
  /\ RITypeOK
  /\ \A p \in Peers :
       peers[p].pending \subseteq fetches /\ Cardinality(peers[p].pending) <= MaxPending

\* A song is added for the singer it was asked for, who still sings, and in the
\* session it was asked for in.
AddedAsAsked ==
  [][order' # NoOrder =>
       \E f \in fetches \ fetches' :
         /\ order'.user = f.user /\ Sings(f.user)
         /\ order'.session = f.session /\ f.session = session]_riVars
=============================================================================
