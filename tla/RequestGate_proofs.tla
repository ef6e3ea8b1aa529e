------------------------ MODULE RequestGate_proofs ------------------------
(***************************************************************************)
(* One flight per key, and an owner at work on every flight that somebody  *)
(* waits for, for any number of threads, keys and flights.  The two hold   *)
(* together with References and Owned (RGInv); the steps on the queue and  *)
(* the pace take no part in it.                                            *)
(***************************************************************************)
EXTENDS RequestGate, TLAPS

\* The gate starts empty.
LEMMA InitHolds == RGInit => RGInv
<1> SUFFICES ASSUME RGInit PROVE RGInv
  OBVIOUS
<1>1. References /\ Owned
  BY DEF RGInit, References, Owned, Owning
<1>2. OneFlightPerKey /\ FollowersServed
  BY DEF RGInit, OneFlightPerKey, FollowersServed, Owning
<1> QED BY <1>1, <1>2 DEF RGInv

\* A thread that enters the gate, or leaves it without owning a flight, takes
\* nothing from those who own one.
LEMMA PassersBy ==
  ASSUME RGInv, NEW c \in Callers,
         pc[c] \notin Owning,
         pc' = [pc EXCEPT ![c] = "out"] \/ pc' = [pc EXCEPT ![c] = "queued"],
         flight' \in [Callers -> Flights \cup {NoFlight}],
         key' \in [Callers -> Keys \cup {NoKey}],
         \A d \in Callers \ {c} : flight'[d] = flight[d] /\ key'[d] = key[d],
         pc'[c] = "queued" => key'[c] \in Keys,
         UNCHANGED <<active, result>>
  PROVE  RGInv'
<1> USE DEF RGInv, References
<1>1. \A d \in Callers : pc'[d] \in Owning \cup {"following"} =>
        d # c /\ pc'[d] = pc[d] /\ flight'[d] = flight[d] /\ key'[d] = key[d]
  BY DEF Owning
<1>2. \A d \in Callers : pc[d] \in Owning => 
        pc'[d] = pc[d] /\ flight'[d] = flight[d] /\ key'[d] = key[d]
  BY DEF Owning
<1>3. References'
  <2>1. pc' \in [Callers -> {"out", "queued", "following", "fetching", "fetched", "leaving"}]
    OBVIOUS
  <2>2. \A d \in Callers : pc'[d] # "out" => key'[d] \in Keys
    OBVIOUS
  <2> QED BY <1>1, <2>1, <2>2
<1>4. OneFlightPerKey'
  BY <1>1 DEF OneFlightPerKey, Owning
<1>5. Owned'
  <2>1. \A d, e \in Callers :
          pc'[d] \in Owning /\ pc'[e] \in Owning /\ d # e => flight'[d] # flight'[e]
    BY <1>1 DEF Owned, Owning
  <2>2. \A k \in Keys : active'[k] # NoFlight =>
          \E d \in Callers : pc'[d] \in Owning /\ key'[d] = k /\ flight'[d] = active'[k]
    BY <1>2 DEF Owned, Owning
  <2>3. \A d \in Callers : /\ pc'[d] = "fetching" => result'[flight'[d]] = "none"
                           /\ pc'[d] = "leaving" => result'[flight'[d]] = "told"
    BY <1>1 DEF Owned, Owning
  <2> QED BY <2>1, <2>2, <2>3 DEF Owned
<1>6. FollowersServed'
  <2> SUFFICES ASSUME NEW d \in Callers, pc'[d] = "following", result'[flight'[d]] = "none"
               PROVE  \E e \in Callers : /\ pc'[e] \in {"fetching", "fetched"}
                                          /\ flight'[e] = flight'[d] /\ key'[e] = key'[d]
    BY DEF FollowersServed
  <2>1. pc[d] = "following" /\ flight'[d] = flight[d] /\ key'[d] = key[d]
    BY <1>1
  <2>2. PICK e \in Callers : /\ pc[e] \in {"fetching", "fetched"}
                             /\ flight[e] = flight[d] /\ key[e] = key[d]
    BY <2>1 DEF FollowersServed
  <2> QED BY <1>2, <2>1, <2>2 DEF Owning
<1> QED BY <1>3, <1>4, <1>5, <1>6

\* A caller that joins finds the owner of the flight, who has not told its result yet.
LEMMA JoinHolds ==
  ASSUME RGInv, NEW c \in Callers, NEW k \in Keys,
         pc[c] \in {"out", "queued"}, active[k] # NoFlight,
         pc' = [pc EXCEPT ![c] = "following"],
         key' = [key EXCEPT ![c] = k],
         flight' = [flight EXCEPT ![c] = active[k]],
         UNCHANGED <<active, result>>
  PROVE  RGInv'
<1> USE DEF RGInv, References
<1>1. PICK o \in Callers : pc[o] \in Owning /\ key[o] = k /\ flight[o] = active[k]
  BY DEF Owned
<1>2. c \in Callers /\ pc'[c] = "following" /\ key'[c] = k /\ flight'[c] = active[k]
  OBVIOUS
<1>3. active[k] \in Flights
  OBVIOUS
<1>4. \A d \in Callers : pc'[d] \in Owning <=> pc[d] \in Owning
  BY <1>2 DEF Owning
<1>5. \A d \in Callers \ {c} : pc'[d] = pc[d] /\ flight'[d] = flight[d] /\ key'[d] = key[d]
  OBVIOUS
<1>6. References'
  BY <1>2, <1>3, <1>5 DEF Owning
<1>7. OneFlightPerKey'
  BY <1>2, <1>4, <1>5 DEF OneFlightPerKey, Owning
<1>8. Owned'
  <2>1. \A d \in Callers : pc'[d] \in Owning => d # c
    BY <1>2 DEF Owning
  <2>2. o # c
    BY <1>1, <1>2 DEF Owning
  <2>3. \A l \in Keys : active'[l] # NoFlight =>
          \E d \in Callers : pc'[d] \in Owning /\ key'[d] = l /\ flight'[d] = active'[l]
    <3> SUFFICES ASSUME NEW l \in Keys, active'[l] # NoFlight
                 PROVE  \E d \in Callers : /\ pc'[d] \in Owning
                                            /\ key'[d] = l /\ flight'[d] = active'[l]
      OBVIOUS
    <3>1. PICK d \in Callers : pc[d] \in Owning /\ key[d] = l /\ flight[d] = active[l]
      BY <1>2 DEF Owned
    <3> QED BY <1>2, <1>4, <1>5, <2>1, <3>1
  <2>4. \A d \in Callers : /\ pc'[d] = "fetching" => result'[flight'[d]] = "none"
                           /\ pc'[d] = "leaving" => result'[flight'[d]] = "told"
    BY <1>2, <1>5 DEF Owned
  <2> QED BY <1>4, <1>5, <2>1, <2>3, <2>4 DEF Owned
<1>9. FollowersServed'
  <2> SUFFICES ASSUME NEW d \in Callers, pc'[d] = "following", result'[flight'[d]] = "none"
               PROVE  \E e \in Callers : /\ pc'[e] \in {"fetching", "fetched"}
                                          /\ flight'[e] = flight'[d] /\ key'[e] = key'[d]
    BY DEF FollowersServed
  <2>1. CASE d = c
    <3>1. pc[o] # "leaving" /\ o # c
      BY <1>1, <1>2, <2>1 DEF Owned, Owning
    <3> QED BY <1>1, <1>2, <1>5, <2>1, <3>1 DEF Owning
  <2>2. CASE d # c
    <3>1. PICK e \in Callers : /\ pc[e] \in {"fetching", "fetched"}
                               /\ flight[e] = flight[d] /\ key[e] = key[d]
      BY <1>2, <1>5, <2>2 DEF FollowersServed
    <3> QED BY <1>2, <1>5, <2>2, <3>1
  <2> QED BY <2>1, <2>2
<1> QED BY <1>6, <1>7, <1>8, <1>9

\* A flight that starts is one that nobody refers to, under a key that had none.
LEMMA StartHolds ==
  ASSUME RGInv, NEW c \in Callers, Start(c)  PROVE RGInv'
<1> USE DEF RGInv, References, Move
<1> PICK f \in Flights : /\ Free(f)
                         /\ flight' = [flight EXCEPT ![c] = f]
                         /\ active' = [active EXCEPT ![key[c]] = f]
                         /\ result' = [result EXCEPT ![f] = "none"]
  BY DEF Start
<1>1. /\ pc[c] = "queued" /\ pc' = [pc EXCEPT ![c] = "fetching"]
      /\ key' = key /\ key[c] \in Keys /\ active[key[c]] = NoFlight
  BY DEF Start
<1>2. \A d \in Callers \ {c} : pc'[d] = pc[d] /\ flight'[d] = flight[d] /\ flight[d] # f
  BY <1>1 DEF Free
<1>3. pc'[c] = "fetching" /\ flight'[c] = f /\ active'[key[c]] = f
  BY <1>1
<1>4. NoFlight \notin Flights
  BY RequestGateAssumption
<1>5. \A d \in Callers \ {c} : pc[d] \in Owning =>
        /\ key[d] \in Keys /\ key[d] # key[c]
        /\ active'[key[d]] = flight[d] /\ result'[flight[d]] = result[flight[d]]
  BY <1>1, <1>2, <1>4 DEF OneFlightPerKey, Owning
<1>6. References'
  BY <1>1, <1>2, <1>3 DEF Owning
<1>7. OneFlightPerKey'
  BY <1>1, <1>2, <1>3, <1>5 DEF OneFlightPerKey
<1>8. Owned'
  <2>1. \A d, e \in Callers :
          pc'[d] \in Owning /\ pc'[e] \in Owning /\ d # e => flight'[d] # flight'[e]
    BY <1>2, <1>3 DEF Owned
  <2>2. \A k \in Keys : active'[k] # NoFlight =>
          \E d \in Callers : pc'[d] \in Owning /\ key'[d] = k /\ flight'[d] = active'[k]
    <3> SUFFICES ASSUME NEW k \in Keys, active'[k] # NoFlight, k # key[c]
                 PROVE  \E d \in Callers : /\ pc'[d] \in Owning
                                            /\ key'[d] = k /\ flight'[d] = active'[k]
      BY <1>1, <1>3 DEF Owning
    <3>1. PICK d \in Callers : pc[d] \in Owning /\ key[d] = k /\ flight[d] = active[k]
      BY DEF Owned
    <3> QED BY <1>1, <1>2, <3>1
  <2>3. \A d \in Callers : /\ pc'[d] = "fetching" => result'[flight'[d]] = "none"
                           /\ pc'[d] = "leaving" => result'[flight'[d]] = "told"
    BY <1>2, <1>3, <1>5 DEF Owned, Owning
  <2> QED BY <2>1, <2>2, <2>3 DEF Owned
<1>9. FollowersServed'
  <2> SUFFICES ASSUME NEW d \in Callers, pc'[d] = "following", result'[flight'[d]] = "none"
               PROVE  \E e \in Callers : /\ pc'[e] \in {"fetching", "fetched"}
                                          /\ flight'[e] = flight'[d] /\ key'[e] = key'[d]
    BY DEF FollowersServed
  <2>1. d # c /\ pc[d] = "following" /\ result[flight[d]] = "none"
    BY <1>2, <1>3
  <2>2. PICK e \in Callers : /\ pc[e] \in {"fetching", "fetched"}
                             /\ flight[e] = flight[d] /\ key[e] = key[d]
    BY <2>1 DEF FollowersServed
  <2>3. e # c
    BY <1>1, <2>2
  <2> QED BY <1>1, <1>2, <2>1, <2>2, <2>3
<1> QED BY <1>6, <1>7, <1>8, <1>9

\* The fetch of a flight and the drop of its owner change the result of that flight only.
LEMMA OwnerHolds ==
  ASSUME RGInv, NEW c \in Callers, Fetch(c) \/ Drop(c)  PROVE RGInv'
<1> USE DEF RGInv, References, Move
<1>1. /\ pc[c] \in {"fetching", "fetched"} /\ flight[c] \in Flights
      /\ UNCHANGED <<active, key, flight>>
  BY DEF Fetch, Drop, Owning
<1>2. /\ pc' \in [Callers -> {"out", "queued", "following", "fetching", "fetched", "leaving"}]
      /\ \A d \in Callers \ {c} : pc'[d] = pc[d]
      /\ result' \in [Flights -> {"none", "told"}]
      /\ \A f \in Flights \ {flight[c]} : result'[f] = result[f]
      /\ \/ pc'[c] = "fetched"
         \/ pc'[c] = "leaving" /\ result'[flight[c]] = "told"
  BY <1>1 DEF Fetch, Drop
<1>3. \A d \in Callers : pc'[d] \in Owning <=> pc[d] \in Owning
  BY <1>1, <1>2 DEF Owning
<1>4. References'
  BY <1>1, <1>2, <1>3 DEF Owning
<1>5. OneFlightPerKey'
  BY <1>1, <1>3 DEF OneFlightPerKey
<1>6. Owned'
  <2>1. \A d \in Callers : /\ pc'[d] = "fetching" => result'[flight'[d]] = "none"
                           /\ pc'[d] = "leaving" => result'[flight'[d]] = "told"
    BY <1>1, <1>2 DEF Owned, Owning
  <2> QED BY <1>1, <1>3, <2>1 DEF Owned
<1>7. FollowersServed'
  <2> SUFFICES ASSUME NEW d \in Callers, pc'[d] = "following", result'[flight'[d]] = "none"
               PROVE  \E e \in Callers : /\ pc'[e] \in {"fetching", "fetched"}
                                          /\ flight'[e] = flight'[d] /\ key'[e] = key'[d]
    BY DEF FollowersServed
  <2>1. d # c /\ pc[d] = "following" /\ flight[d] \in Flights
    BY <1>1, <1>2
  <2>2. CASE flight[d] = flight[c]
    <3>1. pc'[c] = "fetched"
      BY <1>1, <1>2, <2>2
    <3>2. result[flight[d]] = "none"
      <4>1. pc[c] = "fetching"
        BY <3>1 DEF Fetch, Drop
      <4> QED BY <2>2, <4>1 DEF Owned
    <3>3. PICK e \in Callers : /\ pc[e] \in {"fetching", "fetched"}
                               /\ flight[e] = flight[d] /\ key[e] = key[d]
      BY <2>1, <3>2 DEF FollowersServed
    <3>4. e = c
      BY <1>1, <2>2, <3>3 DEF Owned, Owning
    <3> QED BY <1>1, <2>2, <3>1, <3>3, <3>4
  <2>3. CASE flight[d] # flight[c]
    <3>1. PICK e \in Callers : /\ pc[e] \in {"fetching", "fetched"}
                               /\ flight[e] = flight[d] /\ key[e] = key[d]
      BY <1>1, <1>2, <2>1, <2>3 DEF FollowersServed
    <3> QED BY <1>1, <1>2, <2>3, <3>1
  <2> QED BY <2>2, <2>3
<1> QED BY <1>4, <1>5, <1>6, <1>7

\* An owner leaves with a result told: nobody waits for its flight any more.
LEMMA LeaveHolds ==
  ASSUME RGInv, NEW c \in Callers, Leave(c)  PROVE RGInv'
<1> USE DEF RGInv, References, Move
<1>1. /\ pc[c] = "leaving" /\ pc' = [pc EXCEPT ![c] = "out"]
      /\ active' = [active EXCEPT ![key[c]] = NoFlight]
      /\ key' = [key EXCEPT ![c] = NoKey] /\ flight' = [flight EXCEPT ![c] = NoFlight]
      /\ result' = result /\ result[flight[c]] = "told" /\ key[c] \in Keys
  BY DEF Leave, Return, Owned
<1>2. pc'[c] = "out" /\ \A d \in Callers \ {c} :
        pc'[d] = pc[d] /\ flight'[d] = flight[d] /\ key'[d] = key[d]
  BY <1>1
<1>3. \A d \in Callers \ {c} : pc[d] \in Owning => key[d] # key[c]
  BY <1>1 DEF OneFlightPerKey, Owning
<1>4. References'
  BY <1>1, <1>2 DEF Owning
<1>5. OneFlightPerKey'
  BY <1>1, <1>2, <1>3 DEF OneFlightPerKey, Owning
<1>6. Owned'
  <2>1. \A d, e \in Callers :
          pc'[d] \in Owning /\ pc'[e] \in Owning /\ d # e => flight'[d] # flight'[e]
    BY <1>2 DEF Owned, Owning
  <2>2. \A k \in Keys : active'[k] # NoFlight =>
          \E d \in Callers : pc'[d] \in Owning /\ key'[d] = k /\ flight'[d] = active'[k]
    <3> SUFFICES ASSUME NEW k \in Keys, active'[k] # NoFlight
                 PROVE  \E d \in Callers : /\ pc'[d] \in Owning
                                            /\ key'[d] = k /\ flight'[d] = active'[k]
      OBVIOUS
    <3>1. k # key[c] /\ active'[k] = active[k]
      BY <1>1
    <3>2. PICK d \in Callers : pc[d] \in Owning /\ key[d] = k /\ flight[d] = active[k]
      BY <3>1 DEF Owned
    <3> QED BY <1>2, <3>1, <3>2
  <2>3. \A d \in Callers : /\ pc'[d] = "fetching" => result'[flight'[d]] = "none"
                           /\ pc'[d] = "leaving" => result'[flight'[d]] = "told"
    BY <1>1, <1>2 DEF Owned
  <2> QED BY <2>1, <2>2, <2>3 DEF Owned
<1>7. FollowersServed'
  <2> SUFFICES ASSUME NEW d \in Callers, pc'[d] = "following", result'[flight'[d]] = "none"
               PROVE  \E e \in Callers : /\ pc'[e] \in {"fetching", "fetched"}
                                          /\ flight'[e] = flight'[d] /\ key'[e] = key'[d]
    BY DEF FollowersServed
  <2>1. PICK e \in Callers : /\ pc[e] \in {"fetching", "fetched"}
                             /\ flight[e] = flight[d] /\ key[e] = key[d]
    BY <1>1, <1>2 DEF FollowersServed
  <2> QED BY <1>1, <1>2, <2>1
<1> QED BY <1>4, <1>5, <1>6, <1>7

\* The strengthening is inductive: every step of the gate keeps RGInv.
THEOREM GateInvariant == RGSpec => []RGInv
<1>1. RGInv /\ [RGNext]_rgVars => RGInv'
  <2> SUFFICES ASSUME RGInv, [RGNext]_rgVars PROVE RGInv'
    OBVIOUS
  <2>1. ASSUME NEW c \in Callers, NEW k \in Keys, Call(c, k) PROVE RGInv'
    <3>1. CASE active[k] = NoFlight
      <4>1. /\ pc[c] = "out" /\ pc' = [pc EXCEPT ![c] = "queued"]
            /\ key' = [key EXCEPT ![c] = k] /\ UNCHANGED <<active, flight, result>>
        BY <2>1, <3>1 DEF Call, Move
      <4> QED BY <4>1, PassersBy DEF RGInv, References, Owning
    <3>2. CASE active[k] # NoFlight
      BY <2>1, <3>2, JoinHolds DEF Call, Move
    <3> QED BY <3>1, <3>2
  <2>2. ASSUME NEW c \in Callers, Abandon(c) \/ GiveUp(c) \/ Answer(c) PROVE RGInv'
    <3>1. /\ pc[c] \in {"queued", "following"} /\ pc' = [pc EXCEPT ![c] = "out"]
          /\ key' = [key EXCEPT ![c] = NoKey] /\ flight' = [flight EXCEPT ![c] = NoFlight]
          /\ UNCHANGED <<active, result>>
      BY <2>2 DEF Abandon, GiveUp, Answer, Move, Return
    <3>2. c \in Callers /\ pc'[c] = "out" /\ pc[c] \notin Owning
      BY <3>1 DEF RGInv, References, Owning
    <3>3. /\ flight' \in [Callers -> Flights \cup {NoFlight}]
          /\ key' \in [Callers -> Keys \cup {NoKey}]
          /\ \A d \in Callers \ {c} : flight'[d] = flight[d] /\ key'[d] = key[d]
      BY <3>1 DEF RGInv, References
    <3> QED BY <3>1, <3>2, <3>3, PassersBy
  <2>3. ASSUME NEW c \in Callers, Join(c) PROVE RGInv'
    <3>1. key[c] \in Keys /\ key' = [key EXCEPT ![c] = key[c]] /\ pc[c] = "queued"
      BY <2>3 DEF Join, Move, RGInv, References
    <3> QED BY <2>3, <3>1, JoinHolds DEF Join, Move
  <2>4. ASSUME NEW c \in Callers, Steps(c) PROVE RGInv'
    BY <2>2, <2>3, <2>4, StartHolds, OwnerHolds, LeaveHolds DEF Steps
  <2>5. CASE Pause \/ UNCHANGED rgVars
    BY <2>5 DEF Pause, rgVars, RGInv, References, OneFlightPerKey, Owned, FollowersServed, Owning
  <2> QED BY <2>1, <2>2, <2>4, <2>5 DEF RGNext
<1> QED BY <1>1, InitHolds, PTL DEF RGSpec

\* At most one request per key is ever under way, and nobody follows one that nobody
\* works at, whoever joins, panics, gives up or is stopped.
THEOREM GateSharesFlights == RGSpec => []FlightsShared
<1>1. RGInv => FlightsShared
  BY DEF RGInv, FlightsShared
<1> QED BY <1>1, GateInvariant, PTL
=============================================================================
