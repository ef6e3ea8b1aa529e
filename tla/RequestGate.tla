---------------------------- MODULE RequestGate ----------------------------
(***************************************************************************)
(* Admission of requests to the Bilibili API                               *)
(* (rust-runtime/src/bilibili_service/request_gate.rs).                    *)
(*                                                                         *)
(* Threads call the gate again and again.  A call draws a ticket and waits *)
(* at the gate; if its key is being fetched it leaves the queue and        *)
(* follows that flight, otherwise the head of the queue starts a flight of *)
(* its own when there is room and the pace allows it.  The owner of a      *)
(* flight publishes its answer and, when it goes, an error if the fetch    *)
(* has panicked.  Calls may be cancelled or time out at any time.          *)
(*                                                                         *)
(* One step is one turn under the gate's lock, or under a flight's lock;   *)
(* the owner alone takes the first while it holds the second.              *)
(***************************************************************************)
EXTENDS Naturals, Sequences, FiniteSets

CONSTANTS
  Callers,   \* threads that call the gate
  Keys,      \* scope and URL of a request
  Flights,   \* Flight objects; one that nobody refers to is free
  NoFlight,
  NoKey,
  MaxActive  \* flights at a time

ASSUME RequestGateAssumption ==
  /\ NoFlight \notin Flights
  /\ NoKey \notin Keys
  /\ MaxActive \in Nat \ {0}

VARIABLES
  active,  \* the flight of each key, NoFlight if none
  queue,   \* the tickets, named by their callers
  paced,   \* the pause after the last start is over
  pc,      \* where each caller is
  key,     \* what it asks for
  flight,  \* the flight it owns or follows
  result,  \* whether each flight has its result, an answer or an error
  locked   \* flights whose result lock is held across steps

rgVars == <<active, queue, paced, pc, key, flight, result, locked>>

RGTypeOK ==
  /\ active \in [Keys -> Flights \cup {NoFlight}]
  /\ queue \in Seq(Callers) /\ Len(queue) <= Cardinality(Callers)
  /\ paced \in BOOLEAN
  /\ pc \in [Callers -> {"out", "queued", "following", "fetching", "fetched", "leaving"}]
  /\ key \in [Callers -> Keys \cup {NoKey}]
  /\ flight \in [Callers -> Flights \cup {NoFlight}]
  /\ result \in [Flights -> {"none", "told"}]
  /\ locked \in SUBSET Flights

RGInit ==
  /\ active = [k \in Keys |-> NoFlight]
  /\ queue = <<>>
  /\ paced = TRUE
  /\ pc = [c \in Callers |-> "out"]
  /\ key = [c \in Callers |-> NoKey]
  /\ flight = [c \in Callers |-> NoFlight]
  /\ result = [f \in Flights |-> "none"]
  /\ locked = {}

Move(c, from, to) == pc[c] = from /\ pc' = [pc EXCEPT ![c] = to]

\* Back from the gate
Return(c) ==
  /\ key' = [key EXCEPT ![c] = NoKey]
  /\ flight' = [flight EXCEPT ![c] = NoFlight]

Without(c) == SelectSeq(queue, LAMBDA d : d # c)

\* The first turn is part of the call: it joins at once if somebody fetches its key
Call(c, k) ==
  /\ key' = [key EXCEPT ![c] = k]
  /\ IF active[k] = NoFlight
       THEN Move(c, "out", "queued") /\ queue' = Append(queue, c) /\ flight' = flight
       ELSE /\ Move(c, "out", "following") /\ queue' = queue
            /\ flight' = [flight EXCEPT ![c] = active[k]]
  /\ UNCHANGED <<active, paced, result, locked>>

\* Fault: a call that gives up leaves its ticket behind
Abandon_TicketStays(c) ==
  /\ Move(c, "queued", "out")
  /\ Return(c)
  /\ UNCHANGED <<active, queue, paced, result, locked>>

\* Stopped, or out of time before it can start
Abandon(c) ==
  /\ Move(c, "queued", "out")
  /\ queue' = Without(c)
  /\ Return(c)
  /\ UNCHANGED <<active, paced, result, locked>>

\* Somebody fetches its key
Join(c) ==
  /\ Move(c, "queued", "following")
  /\ active[key[c]] # NoFlight
  /\ flight' = [flight EXCEPT ![c] = active[key[c]]]
  /\ queue' = Without(c)
  /\ UNCHANGED <<active, paced, key, result, locked>>

Free(f) == \A c \in Callers : flight[c] # f

Start(c) ==
  /\ Move(c, "queued", "fetching")
  /\ active[key[c]] = NoFlight
  /\ Cardinality({k \in Keys : active[k] # NoFlight}) < MaxActive
  /\ paced
  /\ queue # <<>> /\ Head(queue) = c
  /\ \E f \in Flights :
       /\ Free(f)
       /\ flight' = [flight EXCEPT ![c] = f]
       /\ active' = [active EXCEPT ![key[c]] = f]
       /\ result' = [result EXCEPT ![f] = "none"]
  /\ queue' = Tail(queue)
  /\ paced' = FALSE
  /\ UNCHANGED <<key, locked>>

Pause ==
  /\ ~paced
  /\ paced' = TRUE
  /\ UNCHANGED <<active, queue, pc, key, flight, result, locked>>

\* The fetch returns, or panics without a result
Fetch(c) ==
  /\ Move(c, "fetching", "fetched")
  /\ \E outcome \in {"none", "told"} :
       result' = [result EXCEPT ![flight[c]] = outcome]
  /\ UNCHANGED <<active, queue, paced, key, flight, locked>>

\* Fault: the owner of a flight that has panicked says nothing
Drop_Silent(c) ==
  /\ Move(c, "fetched", "leaving")
  /\ locked' = locked \cup {flight[c]}
  /\ UNCHANGED <<active, queue, paced, key, flight, result>>

\* Owner::drop, under the lock of the flight
Drop(c) ==
  /\ Move(c, "fetched", "leaving")
  /\ result' = [result EXCEPT ![flight[c]] = "told"]
  /\ locked' = locked \cup {flight[c]}
  /\ UNCHANGED <<active, queue, paced, key, flight>>

\* Owner::drop, under both locks
Leave(c) ==
  /\ Move(c, "leaving", "out")
  /\ active' = [active EXCEPT ![key[c]] = NoFlight]
  /\ locked' = locked \ {flight[c]}
  /\ Return(c)
  /\ UNCHANGED <<queue, paced, result>>

\* A follower looks at the flight: it takes the result
Answer(c) ==
  /\ Move(c, "following", "out")
  /\ flight[c] \notin locked
  /\ result[flight[c]] # "none"
  /\ Return(c)
  /\ UNCHANGED <<active, queue, paced, result, locked>>

\* Fault: a follower that gives up takes the flight out of the table
GiveUp_Clearing(c) ==
  /\ Move(c, "following", "out")
  /\ flight[c] \notin locked
  /\ result[flight[c]] = "none"
  /\ active' = [active EXCEPT ![key[c]] = NoFlight]
  /\ Return(c)
  /\ UNCHANGED <<queue, paced, result, locked>>

\* or is stopped, or out of time, while there is none
GiveUp(c) ==
  /\ Move(c, "following", "out")
  /\ flight[c] \notin locked
  /\ result[flight[c]] = "none"
  /\ Return(c)
  /\ UNCHANGED <<active, queue, paced, result, locked>>

Steps(c) == Join(c) \/ Start(c) \/ Fetch(c) \/ Drop(c) \/ Leave(c) \/ Answer(c)

RGNext ==
  \/ \E c \in Callers : Steps(c) \/ Abandon(c) \/ GiveUp(c) \/ \E k \in Keys : Call(c, k)
  \/ Pause

RGSpec == RGInit /\ [][RGNext]_rgVars

\* Threads are scheduled, polls come round every 50 ms, fetches have timeouts of
\* their own and the pause is 250 ms long; nothing is assumed of deadlines
RGFairSpec == RGSpec /\ WF_rgVars(Pause) /\ \A c \in Callers : WF_rgVars(Steps(c))

-----------------------------------------------------------------------------
Owning == {"fetching", "fetched", "leaving"}

\* At most one request per key is under way, whatever joins, gives up, panics or comes
\* again meanwhile: the table has, under its key, exactly the flight of every owner.
OneFlightPerKey ==
  /\ \A c \in Callers : pc[c] \in Owning => active[key[c]] = flight[c]
  /\ \A c, d \in Callers :
       pc[c] \in Owning /\ pc[d] \in Owning /\ c # d => key[c] # key[d]

\* Who follows a flight is told what was asked for, and a flight that is still without
\* a result has an owner at work on it.
FollowersServed ==
  \A c \in Callers : pc[c] = "following" /\ result[flight[c]] = "none" =>
    \E d \in Callers : pc[d] \in {"fetching", "fetched"} /\ flight[d] = flight[c] /\ key[d] = key[c]

\* What makes the two inductive: who refers to what, and that every entry of the table
\* has its owner
References ==
  /\ active \in [Keys -> Flights \cup {NoFlight}]
  /\ pc \in [Callers -> {"out", "queued", "following", "fetching", "fetched", "leaving"}]
  /\ key \in [Callers -> Keys \cup {NoKey}]
  /\ flight \in [Callers -> Flights \cup {NoFlight}]
  /\ result \in [Flights -> {"none", "told"}]
  /\ \A c \in Callers :
       /\ pc[c] # "out" => key[c] \in Keys
       /\ pc[c] \in Owning \cup {"following"} => flight[c] \in Flights

Owned ==
  /\ \A c, d \in Callers :
       pc[c] \in Owning /\ pc[d] \in Owning /\ c # d => flight[c] # flight[d]
  /\ \A k \in Keys : active[k] # NoFlight =>
       \E c \in Callers : pc[c] \in Owning /\ key[c] = k /\ flight[c] = active[k]
  /\ \A c \in Callers : /\ pc[c] = "fetching" => result[flight[c]] = "none"
                        /\ pc[c] = "leaving" => result[flight[c]] = "told"

RGInv == References /\ OneFlightPerKey /\ Owned /\ FollowersServed

\* The two together: requests for a key are shared, and sharing strands nobody
FlightsShared == OneFlightPerKey /\ FollowersServed

\* The queue has the tickets of exactly those who wait at the gate, each once.
NoGhostTickets ==
  /\ RGTypeOK
  /\ \A c \in Callers : pc[c] = "queued" <=> \E n \in DOMAIN queue : queue[n] = c
  /\ \A m, n \in DOMAIN queue : queue[m] = queue[n] => m = n

\* Every call comes back, although others call again and again, fetches panic and calls
\* before it in the queue give up, and without any help of its own deadline.
CallsEnd == \A c \in Callers : pc[c] # "out" ~> pc[c] = "out"
=============================================================================
