----------------------- MODULE CacheAttempts_proofs -----------------------
(***************************************************************************)
(* Proofs about the authority over cache attempts: the inductive invariant *)
(* CAInv, for any number of songs and attempts, and what follows from it.  *)
(***************************************************************************)
EXTENDS CacheAttempts, TLAPS

\* Whatever a commit does, the generation stays one the wire format can carry.
LEMMA CommitKeepsGeneration ==
  ASSUME NEW force \in BOOLEAN, generation \in 0 .. MaxGeneration,
         CommitProgram(force)
  PROVE  generation' \in 0 .. MaxGeneration
BY CacheAttemptsAssumption DEF CommitProgram

\* Replacing all live songs re-establishes the invariant: nothing is cached or
\* under an attempt, and the new incarnations are within the allocator's range.
LEMMA ReseedEstablishes ==
  ASSUME CAInv,
         NEW n \in 0 .. MaxIncarnation, NEW place, NEW cur \in Items \cup {NoItem},
         Reseed(n, place, cur),
         up' \in BOOLEAN, generation' \in 0 .. MaxGeneration
  PROVE  CAInv'
<1> USE CacheAttemptsAssumption
<1>1. place \in [Items -> 0 .. n]
  BY DEF Reseed, Placements
<1>2. CATypeOK'
  BY <1>1 DEF CAInv, CATypeOK, Reseed, Statuses, TerminalEvents
<1>3. \A i \in Items : incarnation'[i] = 0 <=> place[i] = 0
  BY <1>1 DEF CAInv, CATypeOK, Reseed
<1>4. current' # NoItem => current' \in Live'
  <2> SUFFICES ASSUME cur # NoItem PROVE cur \in Items /\ incarnation'[cur] # 0
    BY DEF Reseed, Live
  <2> QED
    BY <1>3 DEF Reseed
<1>5. ReadyIffCommitted' /\ CommittedOwned'
  BY DEF Reseed, ReadyIffCommitted, CommittedOwned, Live
<1>6. \A i \in Items : incarnation'[i] <= nextIncarnation'
  BY <1>1 DEF CAInv, CATypeOK, Reseed
<1> QED
  BY <1>2, <1>4, <1>5, <1>6 DEF CAInv, CATypeOK, Reseed, Live

\* Songs that leave take their artifact and their attempt with them; the others
\* keep theirs.
LEMMA ForgetPreserves ==
  ASSUME CAInv, NEW S \in SUBSET Items, Forget(S),
         UNCHANGED <<issued, reservation, nextIncarnation, up>>,
         current' \in Items \cup {NoItem},
         current' # NoItem => current' \in Live \ S,
         generation' \in 0 .. MaxGeneration
  PROVE  CAInv'
<1> USE CacheAttemptsAssumption
<1>1. CATypeOK'
  BY DEF CAInv, CATypeOK, Forget, Statuses, TerminalEvents
<1>2. /\ Live' = Live \ S
      /\ \A i \in Live' : /\ status'[i] = status[i]
                          /\ committed'[i] = committed[i]
  BY DEF CAInv, CATypeOK, Forget, Live
<1>3. ReadyIffCommitted'
  BY <1>2 DEF CAInv, ReadyIffCommitted
<1>4. CommittedOwned'
  BY DEF CAInv, CommittedOwned, Forget
<1> QED
  BY <1>1, <1>2, <1>3, <1>4 DEF CAInv, CATypeOK, Forget, Live

\* A mutation that moves the current slot among live songs touches no attempt.
LEMMA MovePreserves ==
  ASSUME CAInv,
         UNCHANGED <<up, incarnation, status, committed, attempt, terminal,
                     issued, reservation, nextIncarnation>>,
         current' \in Live \cup {current},
         generation' \in 0 .. MaxGeneration
  PROVE  CAInv'
BY DEF CAInv, CATypeOK, ReadyIffCommitted, CommittedOwned, Live

\* A song that is admitted starts with nothing cached: it was not live.
LEMMA AddPreserves ==
  ASSUME CAInv, NEW i \in Items, AddItem(i)
  PROVE  CAInv'
<1> USE CacheAttemptsAssumption
<1>1. generation' \in 0 .. MaxGeneration
  BY CommitKeepsGeneration DEF AddItem, CAInv, CATypeOK
<1>2. /\ attempt[i] = 0 /\ committed[i] = 0 /\ status[i] = "pending"
  BY DEF AddItem, CAInv, CATypeOK
<1>3. CATypeOK'
  BY <1>1 DEF CAInv, CATypeOK, AddItem
<1>4. Live' = Live \cup {i}
  BY DEF CAInv, CATypeOK, AddItem, Live
<1>5. ReadyIffCommitted'
  BY <1>2, <1>4 DEF CAInv, ReadyIffCommitted, AddItem
<1>6. CommittedOwned'
  BY <1>2 DEF CAInv, CATypeOK, CommittedOwned, AddItem
<1>7. current' # NoItem => current' \in Live'
  BY <1>4 DEF CAInv, AddItem
<1> QED
  BY <1>2, <1>3, <1>4, <1>5, <1>6, <1>7 DEF CAInv, CATypeOK, AddItem

\* The new reservation names the song as it is now, under a token larger than
\* every earlier one.  An attempt that is left open keeps the song as it was.
LEMMA ReservePreserves ==
  ASSUME CAInv, NEW i \in Live, Reserve(i),
         NEW s \in Statuses, NEW c \in {0, committed[i]},
         NEW x \in TerminalEvents \cup {"none"},
         status' = [status EXCEPT ![i] = s],
         committed' = [committed EXCEPT ![i] = c],
         terminal' = [terminal EXCEPT ![i] = x],
         UNCHANGED <<up, incarnation, current, nextIncarnation>>,
         generation' \in 0 .. MaxGeneration,
         s = "ready" <=> c # 0
  PROVE  CAInv'
<1> USE CacheAttemptsAssumption
<1> DEFINE t == issued + 1
<1>1. /\ t \in Tokens /\ issued \in Nat /\ issued < t
      /\ issued' = t
      /\ reservation'[t] =
           [item |-> i, incarnation |-> incarnation[i], refresh |-> committed[i] # 0]
      /\ \A u \in Tokens \ {t} : reservation'[u] = reservation[u]
      /\ attempt'[i] = t
      /\ i \in Items
  BY DEF Reserve, CAInv, CATypeOK, Tokens, Live
<1>2. reservation'[t] \in Reservations
  BY <1>1 DEF CAInv, CATypeOK, Reservations, Live
<1>3. \A j \in Items \ {i} :
        /\ status'[j] = status[j] /\ committed'[j] = committed[j]
        /\ attempt'[j] = attempt[j] /\ terminal'[j] = terminal[j]
  BY <1>1 DEF Reserve, CAInv, CATypeOK
<1>4. status'[i] = s /\ committed'[i] = c /\ terminal'[i] = x
  BY <1>1 DEF CAInv, CATypeOK
<1>5. c \in 0 .. MaxToken /\ c <= issued
  BY <1>1 DEF CAInv, CATypeOK
<1>6. CATypeOK'
  BY <1>1, <1>2, <1>5 DEF Reserve, CAInv, CATypeOK, Tokens
<1>7. ReadyIffCommitted'
  BY <1>1, <1>3, <1>4 DEF CAInv, ReadyIffCommitted, Live
<1>8. \A j \in Items : committed[j] # 0 => committed[j] \in Tokens \ {t}
  <2> SUFFICES ASSUME NEW j \in Items, committed[j] # 0
               PROVE  committed[j] \in Tokens \ {t}
    OBVIOUS
  <2>1. committed[j] \in Tokens /\ committed[j] <= issued
    BY <1>1 DEF CAInv, CATypeOK, Tokens
  <2> QED
    BY <2>1, <1>1
<1>9. CommittedOwned'
  <2> SUFFICES ASSUME NEW j \in Items, committed'[j] # 0
               PROVE  /\ reservation'[committed'[j]].item = j
                      /\ reservation'[committed'[j]].incarnation = incarnation'[j]
    BY DEF CommittedOwned
  <2>1. committed'[j] = committed[j]
    BY <1>3, <1>4
  <2> QED
    BY <2>1, <1>1, <1>8 DEF CAInv, CommittedOwned
<1>10. \A j \in Items :
         /\ incarnation'[j] <= nextIncarnation'
         /\ j \notin Live' => status'[j] = "pending" /\ attempt'[j] = 0
         /\ committed'[j] <= attempt'[j]
         /\ attempt'[j] <= issued'
         /\ attempt'[j] = 0 => terminal'[j] = "none"
  <2> SUFFICES ASSUME NEW j \in Items
               PROVE  /\ incarnation'[j] <= nextIncarnation'
                      /\ j \notin Live' => status'[j] = "pending" /\ attempt'[j] = 0
                      /\ committed'[j] <= attempt'[j]
                      /\ attempt'[j] <= issued'
                      /\ attempt'[j] = 0 => terminal'[j] = "none"
    OBVIOUS
  <2>1. CASE j = i
    BY <2>1, <1>1, <1>4, <1>5 DEF CAInv, CATypeOK, Live, Tokens
  <2>2. CASE j # i
    BY <2>2, <1>1, <1>3 DEF CAInv, CATypeOK, Live
  <2> QED
    BY <2>1, <2>2
<1>11. ASSUME NEW j \in Items, attempt'[j] # 0
       PROVE  /\ reservation'[attempt'[j]] \in Reservations
              /\ reservation'[attempt'[j]].item = j
              /\ reservation'[attempt'[j]].incarnation = incarnation'[j]
              /\ terminal'[j] = "none" /\ ~reservation'[attempt'[j]].refresh
                   => committed'[j] = 0
  <2>1. CASE j = i
    <3>1. reservation'[t].refresh = (committed[i] # 0)
      BY <1>1
    <3>2. ~reservation'[t].refresh => c = 0
      BY <3>1
    <3> QED
      BY <2>1, <3>2, <1>1, <1>2, <1>4
  <2>2. CASE j # i
    <3>1. attempt[j] \in Tokens /\ attempt[j] <= issued
      BY <2>2, <1>3, <1>11 DEF CAInv, CATypeOK, Tokens
    <3>2. reservation'[attempt[j]] = reservation[attempt[j]]
      BY <3>1, <1>1
    <3> QED
      BY <2>2, <1>3, <1>11, <3>2 DEF CAInv
  <2> QED
    BY <2>1, <2>2
<1> QED
  BY <1>6, <1>7, <1>9, <1>10, <1>11 DEF CAInv, Live

\* BeginCacheAttempt leaves the song as it shows and opens its newest attempt.
LEMMA BeginPreserves ==
  ASSUME CAInv, NEW i \in Items, BeginAttempt(i)
  PROVE  CAInv'
<1>1. /\ i \in Live /\ Reserve(i)
      /\ status[i] \in Statuses
      /\ status' = [status EXCEPT ![i] = status[i]]
      /\ committed' = [committed EXCEPT ![i] = committed[i]]
      /\ terminal' = [terminal EXCEPT ![i] = "none"]
      /\ UNCHANGED <<up, incarnation, current, nextIncarnation>>
      /\ generation' \in 0 .. MaxGeneration
      /\ status[i] = "ready" <=> committed[i] # 0
  BY DEF BeginAttempt, CAInv, CATypeOK, ReadyIffCommitted
<1> QED
  BY <1>1, ReservePreserves

\* An attempt that is reserved and ended in one critical section takes the
\* artifact away exactly when the song stops showing as ready.
LEMMA EndAtOncePreserves ==
  ASSUME CAInv, NEW i \in Items, NEW e \in {"failed", "evicted", "reset"},
         EndAtOnce(i, e)
  PROVE  CAInv'
<1> DEFINE s == StatusAfter(i, committed[i] # 0, e)
           c == IF Clears(committed[i] # 0, e) THEN 0 ELSE committed[i]
<1>1. /\ i \in Live /\ Reserve(i)
      /\ status' = [status EXCEPT ![i] = s]
      /\ committed' = [committed EXCEPT ![i] = c]
      /\ terminal' = [terminal EXCEPT ![i] = e]
      /\ UNCHANGED <<up, incarnation, current, nextIncarnation>>
      /\ e \in TerminalEvents
  BY DEF EndAtOnce, CAInv, CATypeOK, TerminalEvents
<1>2. generation' \in 0 .. MaxGeneration
  BY CommitKeepsGeneration DEF EndAtOnce, CAInv, CATypeOK
<1>3. s \in Statuses /\ c \in {0, committed[i]}
  BY DEF CAInv, CATypeOK, StatusAfter, StatusOf, Statuses
<1>4. s = "ready" <=> c # 0
  BY <1>1 DEF CAInv, ReadyIffCommitted, StatusAfter, StatusOf, Clears
<1> HIDE DEF s, c
<1> QED
  BY <1>1, <1>2, <1>3, <1>4, ReservePreserves

\* An event reaches the song only from the attempt that holds it, before its end.
LEMMA ApplyPreserves ==
  ASSUME CAInv, NEW i \in Items, NEW t \in 1 .. issued, NEW e \in Events,
         NEW clears \in BOOLEAN, ApplyEvent(i, t, e, clears)
  PROVE  CAInv'
<1> USE CacheAttemptsAssumption
<1>1. /\ i \in Live /\ attempt[i] = t /\ terminal[i] = "none"
      /\ t \in Tokens
      /\ ~reservation[t].refresh => committed[i] = 0
      /\ reservation[t].item = i
      /\ reservation[t].incarnation = incarnation[i]
      /\ reservation[t].refresh \in BOOLEAN
      /\ committed[i] <= t
  BY DEF ApplyEvent, Accepts, OwnsItem, CAInv, CATypeOK, Tokens, Reservations
<1>2. generation' \in 0 .. MaxGeneration
  BY CommitKeepsGeneration DEF ApplyEvent, CAInv, CATypeOK
<1> DEFINE s == StatusAfter(i, reservation[t].refresh, e)
           c == CommittedAfter(i, t, e)
<1>3. s \in Statuses /\ c \in {0, t, committed[i]}
  BY DEF CAInv, CATypeOK, StatusAfter, CommittedAfter, StatusOf, Clears, Statuses, Events, TerminalEvents
<1>4. s = "ready" <=> c # 0
  <2>1. status[i] = "ready" <=> committed[i] # 0
    BY <1>1 DEF CAInv, ReadyIffCommitted
  <2>2. t # 0
    BY <1>1 DEF Tokens
  <2> QED
    BY <1>1, <2>1, <2>2 DEF StatusAfter, CommittedAfter, StatusOf, Clears, Events, TerminalEvents
<1>5. /\ status' = [status EXCEPT ![i] = s]
      /\ committed' = [committed EXCEPT ![i] = c]
      /\ UNCHANGED <<up, incarnation, current, attempt, issued, reservation,
                     nextIncarnation>>
      /\ Live' = Live
  BY DEF ApplyEvent, Live
<1>6. /\ terminal' \in [Items -> TerminalEvents \cup {"none"}]
       /\ \A j \in Items \ {i} : terminal'[j] = terminal[j]
  BY DEF ApplyEvent, CAInv, CATypeOK
<1> HIDE DEF s, c
<1>7. CATypeOK'
  <2>1. c \in 0 .. MaxToken
    BY <1>1, <1>3 DEF CAInv, CATypeOK, Tokens
  <2> QED
    BY <2>1, <1>2, <1>3, <1>5, <1>6 DEF CAInv, CATypeOK
<1>8. ReadyIffCommitted'
  BY <1>4, <1>5 DEF CAInv, CATypeOK, ReadyIffCommitted, Live
<1>9. CommittedOwned'
  BY <1>1, <1>3, <1>5 DEF CAInv, CATypeOK, CommittedOwned
<1>10. terminal'[i] = "none" /\ ~reservation[t].refresh => c = 0
  BY <1>1, <1>5 DEF ApplyEvent, CommittedAfter, Clears, Events, TerminalEvents, CAInv, CATypeOK, c
<1>11. \A j \in Items :
         /\ j \notin Live' => status'[j] = "pending" /\ attempt'[j] = 0
         /\ committed'[j] <= attempt'[j]
         /\ attempt'[j] <= issued'
         /\ attempt'[j] = 0 => terminal'[j] = "none"
  BY <1>1, <1>3, <1>5, <1>6 DEF CAInv, CATypeOK, Tokens
<1>12. ASSUME NEW j \in Items, attempt'[j] # 0
       PROVE  /\ reservation'[attempt'[j]] \in Reservations
              /\ reservation'[attempt'[j]].item = j
              /\ reservation'[attempt'[j]].incarnation = incarnation'[j]
              /\ terminal'[j] = "none" /\ ~reservation'[attempt'[j]].refresh
                   => committed'[j] = 0
  <2>1. CASE j = i
    BY <2>1, <1>1, <1>5, <1>10, <1>12 DEF CAInv, CATypeOK
  <2>2. CASE j # i
    BY <2>2, <1>5, <1>12, <1>6 DEF CAInv, CATypeOK
  <2> QED
    BY <2>1, <2>2
<1> QED
  BY <1>5, <1>7, <1>8, <1>9, <1>11, <1>12 DEF CAInv

\* Every operation of AppState preserves the invariant, one step per operation.
LEMMA NextPreserves == CAInv /\ [CANext]_caVars => CAInv'
<1> SUFFICES ASSUME CAInv, [CANext]_caVars PROVE CAInv'
  OBVIOUS
<1> USE CacheAttemptsAssumption
<1>1. ASSUME NEW n \in 0 .. MaxIncarnation, NEW place \in Placements(n),
             NEW cur \in Items \cup {NoItem}, Initialize(n, place, cur)
      PROVE  CAInv'
  BY <1>1, ReseedEstablishes DEF Initialize
<1>2. ASSUME NEW n \in 0 .. MaxIncarnation, NEW place \in Placements(n),
             NEW cur \in Items \cup {NoItem}, ReplaceLiveItems(n, place, cur)
      PROVE  CAInv'
  <2>1. generation' \in 0 .. MaxGeneration /\ up' \in BOOLEAN
    BY <1>2, CommitKeepsGeneration DEF ReplaceLiveItems, CAInv, CATypeOK
  <2> QED
    BY <1>2, <2>1, ReseedEstablishes DEF ReplaceLiveItems
<1>3. CASE Shutdown
  <2>1. PICK place : Reseed(0, place, NoItem)
    BY <1>3 DEF Shutdown
  <2>2. 0 \in 0 .. MaxIncarnation /\ NoItem \in Items \cup {NoItem}
    OBVIOUS
  <2>3. generation' \in 0 .. MaxGeneration
    BY <1>3 DEF Shutdown
  <2>4. up' \in BOOLEAN
    BY <1>3, Zenon DEF Shutdown
  <2> QED
    BY <2>1, <2>2, <2>3, <2>4, ReseedEstablishes
<1>4. CASE ClearPlaylist
  <2>1. Live \ {current} \in SUBSET Items
    BY DEF Live
  <2> QED
    BY <1>4, <2>1, ForgetPreserves DEF ClearPlaylist, CAInv, CATypeOK
<1>5. ASSUME NEW i \in Items, AddItem(i) PROVE CAInv'
  BY <1>5, AddPreserves
<1>6. ASSUME NEW i \in Items, RemoveItem(i) PROVE CAInv'
  <2>1. generation' \in 0 .. MaxGeneration
    BY <1>6, CommitKeepsGeneration DEF RemoveItem, CAInv, CATypeOK
  <2> QED
    BY <1>6, <2>1, ForgetPreserves DEF RemoveItem, CAInv, CATypeOK
<1>7. ASSUME NEW i \in Items, BeginAttempt(i) PROVE CAInv'
  BY <1>7, BeginPreserves
<1>8. ASSUME NEW next \in Items \cup {NoItem}, PlayNext(next) PROVE CAInv'
  <2>1. generation' \in 0 .. MaxGeneration
    BY <1>8, CommitKeepsGeneration DEF PlayNext, CAInv, CATypeOK
  <2>2. {current} \in SUBSET Items
    BY <1>8 DEF PlayNext, CAInv, CATypeOK
  <2> QED
    BY <1>8, <2>1, <2>2, ForgetPreserves DEF PlayNext, CAInv, CATypeOK
<1>9. ASSUME NEW next \in Items \cup {NoItem}, PlayWaiting(next) PROVE CAInv'
  <2>1. generation' \in 0 .. MaxGeneration
    BY <1>9, CommitKeepsGeneration DEF PlayWaiting, CAInv, CATypeOK
  <2> QED
    BY <1>9, <2>1, MovePreserves DEF PlayWaiting
<1>10. CASE RestartProgram
  <2>1. generation' \in 0 .. MaxGeneration
    BY <1>10, CommitKeepsGeneration DEF RestartProgram, CAInv, CATypeOK
  <2> QED
    BY <1>10, <2>1, MovePreserves DEF RestartProgram
<1>11. ASSUME NEW i \in Items, NEW t \in 1 .. issued, NEW e \in Events,
              NEW clears \in BOOLEAN, ApplyEvent(i, t, e, clears)
       PROVE  CAInv'
  BY <1>11, ApplyPreserves
<1>12. ASSUME NEW i \in Items, NEW e \in {"failed", "evicted", "reset"}, EndAtOnce(i, e)
       PROVE  CAInv'
  BY <1>12, EndAtOncePreserves
<1>13. CASE UNCHANGED caVars
  BY <1>13 DEF caVars, CAInv, CATypeOK, ReadyIffCommitted, CommittedOwned, Live
<1> QED
  BY <1>1, <1>2, <1>3, <1>4, <1>5, <1>6, <1>7, <1>8, <1>9, <1>10, <1>11, <1>12,
     <1>13
  DEF CANext

\* The invariant holds in every reachable state, for any number of songs,
\* attempts, admissions and generations.
THEOREM CacheAttemptsInvariant == CASpec => []CAInv
<1>1. CAInit => CAInv
  <2> SUFFICES ASSUME CAInit PROVE CAInv
    OBVIOUS
  <2>1. up \in BOOLEAN
    BY Zenon DEF CAInit
  <2>2. CATypeOK
    BY <2>1, CacheAttemptsAssumption DEF CAInit, CATypeOK, Statuses
  <2> QED
    BY <2>2 DEF CAInit, CAInv, ReadyIffCommitted, CommittedOwned, Live
<1> QED
  BY <1>1, NextPreserves, PTL DEF CASpec

\* Every variable keeps its type: in particular no allocator and no generation
\* leaves its range.
THEOREM CacheAttemptsTypes == CASpec => []CATypeOK
BY CacheAttemptsInvariant, PTL DEF CAInv

\* A song is shown as ready exactly when it has an artifact to mount.
THEOREM ReadyMeansCommitted == CASpec => []ReadyIffCommitted
BY CacheAttemptsInvariant, PTL DEF CAInv

\* No song ever has an artifact that was reserved for another song or for an
\* earlier life of its id.
THEOREM ArtifactsStayWithTheirLife == CASpec => []CommittedOwned
BY CacheAttemptsInvariant, PTL DEF CAInv

-----------------------------------------------------------------------------
\* A song that comes back through a saved state has a new incarnation.
LEMMA ReseedStartsNewLives ==
  ASSUME CAInv, NEW n \in 0 .. MaxIncarnation, NEW place,
         NEW cur \in Items \cup {NoItem}, Reseed(n, place, cur),
         NEW i \in Live
  PROVE  incarnation'[i] # incarnation[i]
<1>1. place \in [Items -> 0 .. n]
  BY DEF Reseed, Placements
<1> QED
  BY <1>1, CacheAttemptsAssumption DEF CAInv, CATypeOK, Reseed, Live

\* No operation takes a song's artifact away except for a newer one, an eviction
\* or a forced repair, and none touches it once its attempt has ended.
LEMMA NextRespectsArtifacts == CAInv /\ [CANext]_caVars => KeepsReadable /\ EndIsFinal
<1> SUFFICES ASSUME CAInv, [CANext]_caVars PROVE KeepsReadable /\ EndIsFinal
  OBVIOUS
<1> USE CacheAttemptsAssumption
<1>1. \A i \in Items : committed[i] \in Nat /\ attempt[i] \in Nat
  BY DEF CAInv, CATypeOK
<1>2. ASSUME NEW n \in 0 .. MaxIncarnation, NEW place, NEW cur \in Items \cup {NoItem},
             Reseed(n, place, cur)
      PROVE  KeepsReadable /\ EndIsFinal
  BY <1>2, ReseedStartsNewLives DEF KeepsReadable, EndIsFinal
<1>3. ASSUME NEW S \in SUBSET Items, Forget(S)
      PROVE  KeepsReadable /\ EndIsFinal
  BY <1>1, <1>3 DEF Forget, KeepsReadable, EndIsFinal, Live, CAInv, CATypeOK
<1>4. ASSUME UNCHANGED <<committed, attempt, terminal>>
      PROVE  KeepsReadable /\ EndIsFinal
  BY <1>1, <1>4 DEF KeepsReadable, EndIsFinal, Live
<1>5. ASSUME NEW i \in Items, BeginAttempt(i) PROVE KeepsReadable /\ EndIsFinal
  <2>1. ASSUME NEW j \in Items 
        PROVE  committed'[j] = committed[j]
               /\ \/ attempt'[j] > attempt[j]
                  \/ attempt'[j] = attempt[j] /\ terminal'[j] = terminal[j]
    BY <1>5 DEF BeginAttempt, Reserve, CAInv, CATypeOK
  <2> QED
    BY <1>1, <2>1 DEF KeepsReadable, EndIsFinal, Live
<1>6. ASSUME NEW i \in Items, NEW t \in 1 .. issued, NEW e \in Events,
             NEW clears \in BOOLEAN, ApplyEvent(i, t, e, clears)
      PROVE  KeepsReadable /\ EndIsFinal
  <2>1. /\ attempt[i] = t /\ terminal[i] = "none" /\ committed[i] <= t
        /\ ~reservation[t].refresh => committed[i] = 0
    BY <1>6 DEF ApplyEvent, Accepts, OwnsItem, CAInv, CATypeOK
  <2>2. ASSUME NEW j \in Live, j # i
        PROVE  committed'[j] = committed[j] /\ attempt'[j] = attempt[j]
               /\ terminal'[j] = terminal[j]
    BY <1>6, <2>2 DEF ApplyEvent, CAInv, CATypeOK, Live
  <2>3. committed'[i] = CommittedAfter(i, t, e)
    BY <1>6 DEF ApplyEvent, CAInv, CATypeOK
  <2>4. \/ committed'[i] >= committed[i]
        \/ committed'[i] = 0 /\ e \in {"evicted", "reset"}
    BY <1>1, <2>1, <2>3 DEF CommittedAfter, Clears
  <2>5. e \in {"evicted", "reset"} => terminal'[i] = e
    BY <1>6 DEF ApplyEvent, CAInv, CATypeOK, TerminalEvents
  <2> QED
    BY <1>1, <2>1, <2>2, <2>4, <2>5 DEF KeepsReadable, EndIsFinal, Live
<1>7. ASSUME NEW n \in 0 .. MaxIncarnation, NEW place \in Placements(n),
             NEW cur \in Items \cup {NoItem},
             Initialize(n, place, cur) \/ ReplaceLiveItems(n, place, cur)
      PROVE  KeepsReadable /\ EndIsFinal
  BY <1>2, <1>7 DEF Initialize, ReplaceLiveItems
<1>8. CASE Shutdown
  <2>1. PICK place : Reseed(0, place, NoItem)
    BY <1>8 DEF Shutdown
  <2>2. 0 \in 0 .. MaxIncarnation /\ NoItem \in Items \cup {NoItem}
    OBVIOUS
  <2> QED
    BY <2>1, <2>2, <1>2
<1>9. CASE ClearPlaylist
  <2>1. Live \ {current} \in SUBSET Items
    BY DEF Live
  <2> QED
    BY <1>3, <1>9, <2>1 DEF ClearPlaylist
<1>10. ASSUME NEW i \in Items, AddItem(i) \/ RemoveItem(i)
       PROVE  KeepsReadable /\ EndIsFinal
  BY <1>3, <1>4, <1>10 DEF AddItem, RemoveItem
<1>11. ASSUME NEW next \in Items \cup {NoItem}, PlayNext(next) \/ PlayWaiting(next)
       PROVE  KeepsReadable /\ EndIsFinal
  <2>1. current # NoItem => {current} \in SUBSET Items
    BY DEF CAInv, CATypeOK
  <2> QED
    BY <1>3, <1>4, <1>11, <2>1 DEF PlayNext, PlayWaiting
<1>12. CASE RestartProgram
  BY <1>4, <1>12 DEF RestartProgram
<1>13. ASSUME NEW i \in Items, NEW e \in {"failed", "evicted", "reset"}, EndAtOnce(i, e)
       PROVE  KeepsReadable /\ EndIsFinal
  <2>1. attempt'[i] > attempt[i] /\ terminal'[i] = e
        /\ committed'[i] = IF Clears(committed[i] # 0, e) THEN 0 ELSE committed[i]
    BY <1>13 DEF EndAtOnce, Reserve, CAInv, CATypeOK
  <2>2. ASSUME NEW j \in Live, j # i
        PROVE  committed'[j] = committed[j] /\ attempt'[j] = attempt[j]
               /\ terminal'[j] = terminal[j]
    BY <1>13, <2>2 DEF EndAtOnce, Reserve, CAInv, CATypeOK, Live
  <2>3. Clears(committed[i] # 0, e) => e \in {"evicted", "reset"}
    BY DEF Clears
  <2> QED
    BY <1>1, <2>1, <2>2, <2>3 DEF KeepsReadable, EndIsFinal, Live
<1>14. CASE UNCHANGED caVars
  BY <1>4, <1>14 DEF caVars
<1> QED
  BY <1>5, <1>6, <1>7, <1>8, <1>9, <1>10, <1>11, <1>12, <1>13, <1>14 DEF CANext

\* The readable artifact of a song stays until a newer one replaces it, or an
\* eviction or a forced repair takes it away.
THEOREM ArtifactsStayReadable == CASpec => ReadableUntilReplaced
BY CacheAttemptsInvariant, NextRespectsArtifacts, PTL DEF CASpec, ReadableUntilReplaced

\* Nothing an executor reports after its attempt has ended changes the song.
THEOREM AttemptsEndOnce == CASpec => AttemptEndsOnce
BY CacheAttemptsInvariant, NextRespectsArtifacts, PTL DEF CASpec, AttemptEndsOnce
=============================================================================
