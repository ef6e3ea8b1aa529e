---------------------- MODULE ArtifactLifetime_proofs ----------------------
(***************************************************************************)
(* The lifetime of artifacts implements AppState's authority over attempts *)
(* (CASpec), so that everything proved about CacheAttempts holds of it; and *)
(* whatever is in use is intact, for any number of songs, attempts,        *)
(* players, readers and owners.                                            *)
(***************************************************************************)
EXTENDS ArtifactLifetime, CacheAttempts_proofs

-----------------------------------------------------------------------------
(* Refinement. *)

\* Every step of the lifetime is a step of AppState, or leaves AppState alone.
LEMMA StepImplements == [ALNext]_alVars => [CANext]_caVars
<1> SUFFICES ASSUME [ALNext]_alVars PROVE [CANext]_caVars
  OBVIOUS
<1>1. CASE Requests
  <2>1. ASSUME NEW n \in 0 .. MaxIncarnation, NEW seats \in Placements(n),
               NEW cur \in Items \cup {NoItem}, InitializeApp(n, seats, cur)
        PROVE  CANext
    BY <2>1 DEF InitializeApp, CANext
  <2>2. CASE ShutdownApp
    BY <2>2 DEF ShutdownApp, CANext
  <2>3. CASE Mutate
    BY <2>3 DEF Mutate, CANext
  <2>4. ASSUME NEW i \in Items, Begin(i) \/ Strand(i) PROVE CANext
    BY <2>4 DEF Begin, Strand, CANext
  <2> QED
    BY <1>1, <2>1, <2>2, <2>3, <2>4 DEF Requests
<1>2. CASE Executors
  <2> PICK t \in 1 .. issued :
        \/ \E outcome \in {"failed", "cancelled", "dropped"} : Stop(t, outcome)
        \/ Authorize(t)
        \/ Publish(t)
        \/ Register(t)
        \/ PublishExternal(t)
        \/ \E e \in {"queued", "started", "progress"} : Report(t, e)
        \/ Deliver(t)
        \/ Settle(t)
    BY <1>2 DEF Executors
  <2>1. ASSUME NEW e \in Events, ApplyEvent(reservation[t].item, t, e, FALSE)
        PROVE  CANext
    <3>1. reservation[t].item \in Items
      BY <2>1 DEF ApplyEvent, Accepts, OwnsItem, Live
    <3> QED
      BY <2>1, <3>1 DEF CANext
  <2>2. ASSUME NEW e \in {"queued", "started", "progress"}, Report(t, e) PROVE CANext
    BY <2>1, <2>2 DEF Report, Events
  <2>3. CASE Deliver(t)
    BY <2>1, <2>3 DEF Deliver, Events
  <2> QED
    BY <2>2, <2>3 DEF Stop, Authorize, Publish, Register, PublishExternal, Settle
<1>3. CASE Users
  BY <1>3 DEF Users, Open, Close, Claim, Retire, AcquireReader, ReleaseReader
<1>4. CASE Collector
  BY <1>4 DEF Collector, Prepare, Delete, Finish
<1>5. CASE UNCHANGED alVars
  BY <1>5 DEF alVars
<1> QED
  BY <1>1, <1>2, <1>3, <1>4, <1>5 DEF ALNext

\* The composition of AppState with executors, players and the collector implements
\* AppState alone: what is proved of CASpec holds with all of them at work.
THEOREM LifetimeImplementsAttempts == ALSpec => CASpec
<1>1. ALInit => CAInit
  BY DEF ALInit
<1> QED
  BY <1>1, StepImplements, PTL DEF ALSpec, CASpec

-----------------------------------------------------------------------------
(* The steps of AppState, as the lifetime sees them. *)

\* A step of AppState takes artifacts away from songs but gives them none, and a new
\* attempt has a new token.
Gentle ==
  /\ \A i \in Items : /\ committed'[i] \in {0, committed[i]}
                       /\ attempt'[i] \in {0, attempt[i], issued + 1}
  /\ issued' \in {issued, issued + 1}

\* The generation stands for the program: it stays only with the program.
Numbered ==
  /\ up' = up
  /\ up => \/ generation' = generation + 1
           \/ generation' = generation /\ ~ProgramChanges

LEMMA CommitNumbers ==
  ASSUME NEW force \in BOOLEAN, CommitProgram(force), up' = up
  PROVE  Numbered
BY DEF CommitProgram, Numbered

\* Songs that come back from a saved state have neither artifact nor attempt.
LEMMA ReseedIsGentle ==
  ASSUME CAInv, NEW n, NEW place, NEW cur, Reseed(n, place, cur)
  PROVE  Gentle /\ \A i \in Items : committed'[i] = 0 /\ attempt'[i] = 0
BY DEF Reseed, Gentle

LEMMA ForgetIsGentle ==
  ASSUME CAInv, NEW S, Forget(S), UNCHANGED issued
  PROVE  Gentle
BY DEF Forget, Gentle, CAInv, CATypeOK

\* The mutations that concern no executor.
LEMMA MutateIsGentle == CAInv /\ Mutate => Gentle /\ Numbered
<1> SUFFICES ASSUME CAInv, Mutate PROVE Gentle /\ Numbered
  OBVIOUS
<1>1. ASSUME NEW n \in 0 .. MaxIncarnation, NEW seats \in Placements(n),
             NEW cur \in Items \cup {NoItem}, ReplaceLiveItems(n, seats, cur)
      PROVE  Gentle /\ Numbered
  BY <1>1, ReseedIsGentle, CommitNumbers DEF ReplaceLiveItems
<1>2. CASE ClearPlaylist
  <2>1. Gentle
    BY <1>2, ForgetIsGentle DEF ClearPlaylist
  <2>2. ~ProgramChanges
    BY <1>2 DEF ClearPlaylist, Forget, ProgramChanges, CAInv, CATypeOK
  <2> QED
    BY <1>2, <2>1, <2>2 DEF ClearPlaylist, Numbered
<1>3. ASSUME NEW i \in Items, AddItem(i) \/ RemoveItem(i) PROVE Gentle /\ Numbered
  <2>1. CASE AddItem(i)
    BY <2>1, CommitNumbers DEF AddItem, Gentle
  <2>2. CASE RemoveItem(i)
    BY <2>2, ForgetIsGentle, CommitNumbers DEF RemoveItem
  <2> QED
    BY <1>3, <2>1, <2>2
<1>4. ASSUME NEW next \in Items \cup {NoItem}, PlayNext(next) \/ PlayWaiting(next)
      PROVE  Gentle /\ Numbered
  <2>1. CASE PlayNext(next)
    BY <2>1, ForgetIsGentle, CommitNumbers DEF PlayNext
  <2>2. CASE PlayWaiting(next)
    BY <2>2, CommitNumbers DEF PlayWaiting, Gentle
  <2> QED
    BY <1>4, <2>1, <2>2
<1>5. CASE RestartProgram
  BY <1>5, CommitNumbers DEF RestartProgram, Gentle
<1>6. ASSUME NEW i \in Items, NEW e \in {"failed", "evicted", "reset"}, EndAtOnce(i, e)
      PROVE  Gentle /\ Numbered
  <2>1. up' = up
    BY <1>6 DEF EndAtOnce
  <2>2. Gentle
    BY <1>6 DEF EndAtOnce, Reserve, Gentle, CAInv, CATypeOK
  <2> QED
    BY <1>6, <2>1, <2>2, CommitNumbers DEF EndAtOnce
<1> QED
  BY <1>1, <1>2, <1>3, <1>4, <1>5, <1>6 DEF Mutate

\* A reservation changes no song's artifact.
LEMMA BeginIsGentle ==
  ASSUME CAInv, NEW i \in Items, BeginAttempt(i)
  PROVE  /\ Gentle /\ Numbered
         /\ issued' = issued + 1 /\ issued + 1 \in Tokens
         /\ committed' = committed
<1>1. ~ProgramChanges
  BY DEF BeginAttempt, ProgramChanges
<1> QED
  BY <1>1, CacheAttemptsAssumption
  DEF BeginAttempt, Reserve, Gentle, Numbered, CAInv, CATypeOK, Tokens

\* An event other than Ready, too, only takes away.
LEMMA EventIsGentle ==
  ASSUME CAInv, NEW i \in Items, NEW t \in Tokens, NEW e \in Events \ {"ready"},
         ApplyEvent(i, t, e, FALSE)
  PROVE  Gentle /\ Numbered /\ issued' = issued
<1>1. Numbered
  BY CommitNumbers DEF ApplyEvent
<1>2. CommittedAfter(i, t, e) \in {0, committed[i]}
  BY DEF CommittedAfter
<1> QED
  BY <1>1, <1>2 DEF ApplyEvent, Gentle, CAInv, CATypeOK

\* A program is only ever entered under the number of the present generation, and a
\* number that has no program yet has no claims: a new generation, or one whose program
\* nobody has mounted.
LEMMA ObservationHolds ==
  ASSUME ALInv, CAInv', Numbered, ObserveProgram, claims' = claims
  PROVE  /\ programs' \in [Generations -> 0 .. MaxToken]
         /\ ProgramsKeptUp' /\ ClaimsNamePrograms'
<1> USE CacheAttemptsAssumption
<1>1. /\ programs \in [Generations -> 0 .. MaxToken]
      /\ generation \in 0 .. MaxGeneration /\ generation' \in 0 .. MaxGeneration
      /\ claims \subseteq Claims
  BY DEF ALInv, ALTypeOK, CAInv, CATypeOK
<1>2. CASE up' /\ current' # NoItem /\ committed'[current'] # 0
  <2> DEFINE g == generation'
             t == committed'[current']
  <2>1. programs' = [programs EXCEPT ![g] = t]
    BY <1>2 DEF ObserveProgram
  <2>2. t \in 1 .. MaxToken /\ up
    BY <1>2 DEF CAInv, CATypeOK, Numbered
  <2>3. g \in Generations => programs[g] \in {0, t}
    <3>1. CASE g = generation + 1
      BY <1>1, <2>2, <3>1 DEF ALInv, ProgramsKeptUp, Generations
    <3>2. CASE g = generation /\ ~ProgramChanges
      BY <1>1, <2>2, <3>2 DEF ALInv, ProgramsKeptUp, ProgramChanges, Generations
    <3> QED
      BY <2>2, <3>1, <3>2 DEF Numbered
  <2>4. programs' \in [Generations -> 0 .. MaxToken]
    <3>1. t \in 0 .. MaxToken
      BY <2>2
    <3> HIDE DEF t, g
    <3> QED
      BY <1>1, <2>1, <3>1
  <2>5. ProgramsKeptUp'
    <3> SUFFICES ASSUME NEW h \in Generations, programs'[h] # 0, h # g
                 PROVE  h < g
      BY <1>1, <1>2, <2>1 DEF ProgramsKeptUp, Generations
    <3>1. programs[h] # 0
      BY <1>1, <2>1
    <3>2. h <= generation
      BY <1>1, <2>2, <3>1 DEF ALInv, ProgramsKeptUp, Generations
    <3> QED
      BY <1>1, <2>2, <3>2 DEF Numbered, Generations
  <2>6. ClaimsNamePrograms'
    <3> SUFFICES ASSUME NEW c \in claims PROVE programs'[c.generation] = c.key
      BY DEF ClaimsNamePrograms
    <3>1. c.generation \in Generations /\ c.key \in Tokens
      BY <1>1 DEF Claims
    <3>2. programs[c.generation] = c.key
      BY DEF ALInv, ClaimsNamePrograms
    <3> QED
      BY <1>1, <2>1, <2>3, <3>1, <3>2 DEF Tokens
  <2> QED
    BY <2>4, <2>5, <2>6
<1>3. CASE ~(up' /\ current' # NoItem /\ committed'[current'] # 0)
  <2>1. programs' = programs
    BY <1>3 DEF ObserveProgram
  <2>2. ProgramsKeptUp'
    <3> SUFFICES ASSUME up', NEW h \in Generations, programs[h] # 0
                 PROVE  h < generation'
      BY <2>1 DEF ProgramsKeptUp
    <3>1. up
      BY DEF Numbered
    <3>2. \/ h < generation
          \/ h = generation /\ current # NoItem /\ committed[current] = programs[h]
      BY <3>1 DEF ALInv, ProgramsKeptUp
    <3>3. CASE generation' = generation + 1
      BY <1>1, <3>2, <3>3 DEF Generations
    <3>4. CASE generation' = generation /\ ~ProgramChanges
      BY <1>3, <3>2, <3>4 DEF ProgramChanges
    <3> QED
      BY <3>1, <3>3, <3>4 DEF Numbered
  <2> QED
    BY <1>1, <2>1, <2>2 DEF ALInv, ClaimsNamePrograms
<1> QED
  BY <1>2, <1>3

\* Where songs gain no artifact and nobody claims or reads anything new, nothing comes
\* into use.
LEMMA NothingNewInUse ==
  ASSUME ALInv, \A i \in Items : committed'[i] \in {0, committed[i]},
         claims' \subseteq claims, \A h \in Handles : readers'[h] \in {0, readers[h]},
         NEW t \in Tokens, InUse(t)'
  PROVE  InUse(t)
<1>1. CASE \E i \in Live' : committed'[i] = t
  <2>1. PICK i \in Items : committed[i] = t
    BY <1>1 DEF Live, Tokens
  <2>2. i \in Live
    BY <2>1 DEF ALInv, CAInv, CATypeOK, Tokens
  <2> QED
    BY <2>1, <2>2 DEF InUse
<1>2. CASE \E c \in claims' : c.key = t
  BY <1>2 DEF InUse
<1>3. CASE \E h \in Handles : readers'[h] = t
  BY <1>3 DEF InUse, Tokens
<1> QED
  BY <1>1, <1>2, <1>3 DEF InUse

-----------------------------------------------------------------------------
(* Every step preserves ALInv: requests. *)

\* Requests and reports that move no executor and no directory.
LEMMA QuietHolds ==
  ASSUME ALInv, CAInv', Gentle, Numbered, ObserveProgram, outstanding' \subseteq Tokens,
         UNCHANGED <<opened, owner, closed, known, retired, claims, retiredGenerations,
                     readers, executor, area, jobs>>
  PROVE  ALInv'
<1> USE DEF ALInv
<1>1. programs' \in [Generations -> 0 .. MaxToken] /\ ProgramsKeptUp' /\ ClaimsNamePrograms'
  BY ObservationHolds
<1>2. ALTypeOK'
  <2>1. closed' \in BOOLEAN
    BY Zenon DEF ALTypeOK
  <2> QED
    BY <1>1, <2>1 DEF ALTypeOK, CAInv
<1>3. TokensAgree'
  BY CacheAttemptsAssumption DEF TokensAgree, Gentle, Tokens, CAInv, CATypeOK
<1>4. NothingUnowned'
  <2> SUFFICES ASSUME owner = 0, NEW i \in Items
               PROVE  committed'[i] = 0 /\ (attempt'[i] # 0 => executor[attempt'[i]] # "ready")
    BY DEF NothingUnowned
  <2>1. issued + 1 \in Tokens => executor[issued + 1] # "ready"
    BY DEF TokensAgree, CAInv, CATypeOK, Tokens
  <2>2. attempt'[i] \in 0 .. MaxToken /\ issued \in Nat
    BY DEF CAInv, CATypeOK
  <2> QED
    BY <2>1, <2>2 DEF NothingUnowned, Gentle, Tokens
<1>5. InUseIntact'
  BY NothingNewInUse DEF InUseIntact, Gentle
<1>6. DeletionsOwned'
  BY DEF DeletionsOwned
<1> QED
  BY <1>1, <1>2, <1>3, <1>4, <1>5, <1>6

\* The executor of a new reservation has neither run nor published.
LEMMA BeginHolds ==
  ASSUME ALInv, CAInv', NEW i \in Items, Begin(i)
  PROVE  ALInv'
<1> USE DEF ALInv
<1> DEFINE n == issued + 1
<1>1. /\ Gentle /\ Numbered /\ issued' = n /\ n \in Tokens /\ committed' = committed
      /\ ObserveProgram
  BY BeginIsGentle DEF Begin
<1>2. /\ executor' = [executor EXCEPT ![n] = "working"]
      /\ area' = [area EXCEPT ![n] = "staging"]
      /\ outstanding' = outstanding \cup {n}
      /\ UNCHANGED <<opened, owner, closed, known, retired, claims, retiredGenerations,
                     readers, jobs>>
  BY DEF Begin
<1>3. programs' \in [Generations -> 0 .. MaxToken] /\ ProgramsKeptUp' /\ ClaimsNamePrograms'
  BY <1>1, <1>2, ObservationHolds
<1>4. executor[n] = "none" /\ issued \in Nat
  BY <1>1 DEF TokensAgree, CAInv, CATypeOK
<1>5. /\ executor' \in [Tokens -> Phases] /\ executor'[n] = "working"
      /\ area' \in [Tokens -> Areas] /\ area'[n] = "staging"
      /\ \A t \in Tokens \ {n} : executor'[t] = executor[t] /\ area'[t] = area[t]
  BY <1>1, <1>2 DEF ALTypeOK, Phases, Areas
<1>6. n \notin known /\ retired[n] = "no"
  BY <1>1, <1>4 DEF TokensAgree
<1> HIDE DEF n
<1>7. ALTypeOK'
  <2>1. closed' \in BOOLEAN
    BY <1>2, Zenon DEF ALTypeOK
  <2> QED
    BY <1>1, <1>2, <1>3, <1>5, <2>1 DEF ALTypeOK, CAInv
<1>8. TokensAgree'
  <2> SUFFICES ASSUME NEW t \in Tokens, t # n
               PROVE  t > n => executor[t] = "none"
    BY <1>1, <1>2, <1>4, <1>5, <1>6 DEF TokensAgree, Tokens, n
  <2> QED
    BY <1>4 DEF TokensAgree, Tokens, n
<1>9. NothingUnowned'
  <2> SUFFICES ASSUME owner = 0, NEW j \in Items, attempt'[j] # 0
               PROVE  executor'[attempt'[j]] # "ready"
    BY <1>1, <1>2 DEF NothingUnowned
  <2>1. attempt'[j] \in {attempt[j], n} /\ attempt'[j] \in Tokens
    BY <1>1 DEF Gentle, CAInv, CATypeOK, Tokens, n
  <2> QED
    BY <1>5, <2>1 DEF NothingUnowned
<1>10. InUseIntact'
  <2> SUFFICES ASSUME NEW t \in Tokens, InUse(t)'
               PROVE  t \in known' /\ area'[t] = "artifacts" /\ retired'[t] = "no"
    BY DEF InUseIntact
  <2>1. InUse(t)
    BY <1>1, <1>2, NothingNewInUse
  <2> QED
    BY <1>2, <1>5, <1>6, <2>1 DEF InUseIntact
<1>11. DeletionsOwned'
  <2>1. \A j \in jobs : j.key \in Tokens
    BY DEF ALTypeOK, Jobs
  <2> QED
    BY <1>2, <1>5, <1>6, <2>1 DEF DeletionsOwned
<1> QED
  BY <1>3, <1>7, <1>8, <1>9, <1>10, <1>11

\* Nothing is taken from an artifact that is in use when a session begins or ends:
\* nothing is in use then.
LEMMA InitializeHolds ==
  ASSUME ALInv, CAInv', NEW n, NEW seats, NEW cur, InitializeApp(n, seats, cur)
  PROVE  ALInv'
<1> USE DEF ALInv
<1>1. \A i \in Items : committed'[i] = 0 /\ attempt'[i] = 0
  BY ReseedIsGentle DEF InitializeApp, Initialize
<1>2. issued' = issued
  BY DEF InitializeApp, Initialize, Reseed
<1>3. \A t \in Tokens : retired[t] = "no"
  BY DEF InitializeApp, DrainPending
<1>4. jobs = {}
  BY <1>3 DEF DeletionsOwned, ALTypeOK, Jobs
<1>5. ALTypeOK'
  <2>1. closed' \in BOOLEAN
    BY Zenon DEF InitializeApp
  <2> QED
    BY <2>1, ArtifactLifetimeAssumption, CacheAttemptsAssumption
    DEF InitializeApp, ALTypeOK, CAInv
<1>6. TokensAgree'
  BY <1>2, <1>3 DEF InitializeApp, TokensAgree
<1>7. InUseIntact'
  BY <1>1 DEF InitializeApp, InUseIntact, InUse, Tokens, Live
<1> QED
  BY <1>1, <1>4, <1>5, <1>6, <1>7
  DEF InitializeApp, NothingUnowned, ProgramsKeptUp, DeletionsOwned, ClaimsNamePrograms

LEMMA ShutdownHolds ==
  ASSUME ALInv, CAInv', ShutdownApp
  PROVE  ALInv'
<1> USE DEF ALInv
<1>1. \A i \in Items : committed'[i] = 0 /\ attempt'[i] = 0
  BY ReseedIsGentle DEF ShutdownApp, Shutdown
<1>2. issued' = issued /\ ~up'
  BY DEF ShutdownApp, Shutdown, Reseed
<1>3. ALTypeOK'
  <2>1. closed' \in BOOLEAN
    BY Zenon DEF ShutdownApp
  <2> QED
    BY <2>1 DEF ShutdownApp, ALTypeOK, CAInv
<1>4. InUseIntact'
  BY <1>1, NothingNewInUse DEF ShutdownApp, InUseIntact
<1> QED
  BY <1>1, <1>2, <1>3, <1>4
  DEF ShutdownApp, TokensAgree, NothingUnowned, ProgramsKeptUp, DeletionsOwned,
      ClaimsNamePrograms

-----------------------------------------------------------------------------
(* Executors. *)

\* An executor that goes on, or ends without having published, has nothing registered
\* and nothing retired.
LEMMA AdvanceHolds ==
  ASSUME ALInv, NEW t \in Tokens, t <= issued, NEW from \in Phases \ {"ready"},
         NEW to \in Phases \ {"ready"}, NEW where \in Areas \ {"retired"},
         Advance(t, from, to, where),
         UNCHANGED <<caVars, lifetimeVars, jobs>>
  PROVE  ALInv'
<1> USE DEF ALInv
<1>1. UNCHANGED <<up, incarnation, current, status, committed, attempt, terminal, issued,
                  reservation, nextIncarnation, generation, opened, owner, closed,
                  outstanding, known, retired, programs, claims, retiredGenerations,
                  readers, jobs>>
  BY DEF caVars, lifetimeVars
<1>2. /\ executor' \in [Tokens -> Phases] /\ executor[t] # "ready" /\ executor'[t] = to
      /\ area' \in [Tokens -> Areas] /\ area'[t] = where
      /\ \A u \in Tokens \ {t} : executor'[u] = executor[u] /\ area'[u] = area[u]
  BY DEF Advance, ALTypeOK
<1>3. t \notin known /\ retired[t] = "no"
  BY <1>2 DEF TokensAgree
<1>4. CAInv'
  BY <1>1 DEF CAInv, CATypeOK, ReadyIffCommitted, CommittedOwned, Live
<1>5. ALTypeOK'
  <2>1. closed' \in BOOLEAN
    BY <1>1, Zenon DEF ALTypeOK
  <2> QED
    BY <1>1, <1>2, <1>4, <2>1 DEF ALTypeOK, CAInv
<1>6. TokensAgree'
  <2>1. ~(t > issued)
    BY DEF Tokens, CAInv, CATypeOK
  <2> QED
    BY <1>1, <1>2, <1>3, <2>1 DEF TokensAgree
<1>7. NothingUnowned'
  <2> SUFFICES ASSUME owner = 0, NEW i \in Items, attempt[i] # 0
               PROVE  committed[i] = 0 /\ executor'[attempt[i]] # "ready"
    BY <1>1 DEF NothingUnowned
  <2>1. attempt[i] \in Tokens
    BY DEF CAInv, CATypeOK, Tokens
  <2> QED
    BY <1>2, <2>1 DEF NothingUnowned
<1>8. InUseIntact'
  BY <1>1, <1>2, <1>3 DEF InUseIntact, InUse, Live
<1>9. DeletionsOwned'
  <2>1. \A j \in jobs : j.key \in Tokens
    BY DEF ALTypeOK, Jobs
  <2> QED
    BY <1>1, <1>2, <1>3, <2>1 DEF DeletionsOwned
<1>10. ProgramsKeptUp' /\ ClaimsNamePrograms'
  BY <1>1 DEF ProgramsKeptUp, ClaimsNamePrograms
<1> QED
  BY <1>4, <1>5, <1>6, <1>7, <1>8, <1>9, <1>10

\* A registration has the lock: the directory is where it says, nobody has retired it,
\* and there is an owner.
LEMMA PublicationHolds ==
  ASSUME ALInv, NEW t \in Tokens, t <= issued, NEW from \in Phases \ {"ready"},
         Advance(t, from, "ready", "artifacts"), owner # 0,
         known' = known \cup {t},
         UNCHANGED <<caVars, opened, owner, closed, outstanding, retired, programs, claims,
                     retiredGenerations, readers, jobs>>
  PROVE  ALInv'
<1> USE DEF ALInv
<1>1. UNCHANGED <<up, incarnation, current, status, committed, attempt, terminal, issued,
                  reservation, nextIncarnation, generation, opened, owner, closed,
                  outstanding, retired, programs, claims, retiredGenerations, readers, jobs>>
  BY DEF caVars
<1>2. /\ executor' \in [Tokens -> Phases] /\ executor[t] # "ready" /\ executor'[t] = "ready"
      /\ area' \in [Tokens -> Areas] /\ area'[t] = "artifacts"
      /\ \A u \in Tokens \ {t} : executor'[u] = executor[u] /\ area'[u] = area[u]
  BY DEF Advance, ALTypeOK, Phases, Areas, TerminalEvents
<1>3. t \notin known /\ retired[t] = "no"
  BY <1>2 DEF TokensAgree
<1>4. CAInv'
  BY <1>1 DEF CAInv, CATypeOK, ReadyIffCommitted, CommittedOwned, Live
<1>5. ALTypeOK'
  <2>1. closed' \in BOOLEAN
    BY <1>1, Zenon DEF ALTypeOK
  <2> QED
    BY <1>1, <1>2, <1>4, <2>1 DEF ALTypeOK, CAInv
<1>6. TokensAgree'
  <2>1. ~(t > issued)
    BY DEF Tokens, CAInv, CATypeOK
  <2> QED
    BY <1>1, <1>2, <1>3, <2>1 DEF TokensAgree
<1>7. InUseIntact'
  BY <1>1, <1>2, <1>3 DEF InUseIntact, InUse, Live
<1>8. DeletionsOwned'
  <2>1. \A j \in jobs : j.key \in Tokens
    BY DEF ALTypeOK, Jobs
  <2> QED
    BY <1>1, <1>2, <1>3, <2>1 DEF DeletionsOwned
<1> QED
  BY <1>1, <1>4, <1>5, <1>6, <1>7, <1>8 DEF NothingUnowned, ProgramsKeptUp, ClaimsNamePrograms

\* A Ready event reaches a song only with its artifact registered; where there is no
\* owner to register it, no attempt that holds a song has published anything.
LEMMA DeliverHolds ==
  ASSUME ALInv, CAInv', NEW t \in Tokens, Deliver(t)
  PROVE  ALInv'
<1> USE DEF ALInv
<1> DEFINE i == reservation[t].item
<1>1. /\ executor[t] \in TerminalEvents
      /\ known' = IF executor[t] = "ready" /\ CanRegister(t) THEN known \cup {t} ELSE known
      /\ outstanding' = outstanding \ {t}
      /\ ObserveProgram
      /\ UNCHANGED <<opened, owner, closed, retired, claims, retiredGenerations, readers,
                     executor, area, jobs>>
  BY DEF Deliver
<1>2. CASE ~ApplyEvent(i, t, executor[t], FALSE)
  <2>1. UNCHANGED caVars
    BY <1>2 DEF Deliver
  <2>2. Gentle /\ Numbered
    BY <2>1 DEF caVars, Gentle, Numbered, ProgramChanges
  <2>3. known' = known \/ (known' = known \cup {t} /\ CanRegister(t) /\ executor[t] = "ready")
    BY <1>1
  <2>4. TokensAgree'
    BY <1>1, <2>1, <2>3 DEF caVars, TokensAgree, CanRegister
  <2>5. programs' \in [Generations -> 0 .. MaxToken] /\ ProgramsKeptUp' /\ ClaimsNamePrograms'
    BY <1>1, <2>2, ObservationHolds
  <2>6. ALTypeOK'
    <3>1. closed' \in BOOLEAN
      BY <1>1, Zenon DEF ALTypeOK
    <3> QED
      BY <1>1, <2>3, <2>5, <3>1 DEF ALTypeOK, CAInv
  <2>7. InUseIntact'
    BY <1>1, <2>2, <2>3, NothingNewInUse DEF InUseIntact, Gentle
  <2>8. NothingUnowned' /\ DeletionsOwned'
    BY <1>1, <2>1 DEF caVars, NothingUnowned, DeletionsOwned
  <2> QED
    BY <2>4, <2>5, <2>6, <2>7, <2>8
<1>3. CASE ApplyEvent(i, t, executor[t], FALSE) /\ executor[t] # "ready"
  <2>1. i \in Items
    BY <1>3 DEF ApplyEvent, Accepts, OwnsItem, Live
  <2>2. Gentle /\ Numbered /\ issued' = issued
    BY <1>1, <1>3, <2>1, EventIsGentle DEF Events
  <2>3. outstanding' \subseteq Tokens /\ known' = known
    BY <1>1, <1>3 DEF ALTypeOK
  <2> QED
    BY <1>1, <2>2, <2>3, QuietHolds
<1>4. CASE ApplyEvent(i, t, executor[t], FALSE) /\ executor[t] = "ready"
  <2>1. i \in Items /\ attempt[i] = t /\ up
    BY <1>4 DEF ApplyEvent, Accepts, OwnsItem, Live
  <2>2. owner # 0
    BY <1>4, <2>1 DEF NothingUnowned, Tokens
  <2>3. t \in known'
    <3> SUFFICES ASSUME UNCHANGED caVars PROVE t \in known'
      BY <1>4, <2>2 DEF Deliver, ApplyEvent
    <3> QED
      BY <1>4, <2>1 DEF caVars, ApplyEvent, Accepts, CAInv, CATypeOK, TerminalEvents
  <2>4. known' = known \/ (known' = known \cup {t} /\ CanRegister(t))
    BY <1>1
  <2>5. Numbered
    BY <1>4, CommitNumbers DEF ApplyEvent
  <2>6. /\ committed' = [committed EXCEPT ![i] = t]
        /\ UNCHANGED <<attempt, issued, incarnation>>
    BY <1>4 DEF ApplyEvent, CommittedAfter
  <2>7. TokensAgree'
    BY <1>1, <1>4, <2>4, <2>6 DEF TokensAgree, CanRegister
  <2>8. programs' \in [Generations -> 0 .. MaxToken] /\ ProgramsKeptUp' /\ ClaimsNamePrograms'
    BY <1>1, <2>5, ObservationHolds
  <2>9. ALTypeOK'
    <3>1. closed' \in BOOLEAN
      BY <1>1, Zenon DEF ALTypeOK
    <3> QED
      BY <1>1, <2>4, <2>8, <3>1 DEF ALTypeOK, CAInv
  <2>10. InUseIntact'
    <3>1. InUseIntact' \/ \E u \in Tokens \ {t} : InUse(u)' /\ ~InUse(u)
      BY <1>1, <2>3, <2>4, <2>7 DEF InUseIntact, TokensAgree
    <3>2. ASSUME NEW u \in Tokens \ {t}, InUse(u)' PROVE InUse(u)
      BY <1>1, <2>1, <2>6, <3>2 DEF InUse, Live, CAInv, CATypeOK
    <3> QED
      BY <3>1, <3>2
  <2>11. NothingUnowned' /\ DeletionsOwned'
    BY <1>1, <2>2 DEF NothingUnowned, DeletionsOwned
  <2> QED
    BY <2>7, <2>8, <2>9, <2>10, <2>11
<1> QED
  BY <1>2, <1>3, <1>4

\* A reservation that is given up protects nothing that is in use.
LEMMA SettleHolds ==
  ASSUME ALInv, NEW t \in Tokens, Settle(t)
  PROVE  ALInv'
<1> USE DEF ALInv
<1>1. CAInv'
  BY DEF Settle, caVars, CAInv, CATypeOK, ReadyIffCommitted, CommittedOwned, Live
<1>2. ALTypeOK'
  <2>1. closed' \in BOOLEAN
    BY Zenon DEF Settle, ALTypeOK
  <2> QED
    BY <1>1, <2>1 DEF Settle, ALTypeOK, CAInv
<1> QED
  BY <1>1, <1>2
  DEF Settle, caVars, TokensAgree, NothingUnowned, ProgramsKeptUp, InUseIntact, InUse, Live,
      DeletionsOwned, ClaimsNamePrograms

-----------------------------------------------------------------------------
(* Users. *)

\* An owner is admitted only when no deletion of the one before is under way.
LEMMA OwnerHolds ==
  ASSUME ALInv, Open \/ Close
  PROVE  ALInv'
<1> USE DEF ALInv
<1>1. CAInv'
  BY DEF Open, Close, caVars, CAInv, CATypeOK, ReadyIffCommitted, CommittedOwned, Live
<1>2. CASE Open
  <2>1. jobs = {}
    BY <1>2 DEF Open, CanOpen, DeletionsOwned, ALTypeOK, Jobs
  <2>2. ALTypeOK'
    <3>1. closed' \in BOOLEAN
      BY <1>2, Zenon DEF Open
    <3> QED
      BY <1>1, <1>2, <3>1, ArtifactLifetimeAssumption DEF Open, ALTypeOK, CAInv
  <2>3. owner' # 0
    BY <1>2 DEF Open, ALTypeOK
  <2> QED
    BY <1>1, <1>2, <2>1, <2>2, <2>3
    DEF Open, caVars, TokensAgree, NothingUnowned, ProgramsKeptUp, InUseIntact, InUse, Live,
        DeletionsOwned, ClaimsNamePrograms
<1>3. CASE Close
  <2>1. ALTypeOK'
    <3>1. closed' \in BOOLEAN
      BY <1>3, Zenon DEF Close
    <3> QED
      BY <1>1, <1>3, <3>1 DEF Close, ALTypeOK, CAInv
  <2> QED
    BY <1>1, <1>3, <2>1
    DEF Close, caVars, TokensAgree, NothingUnowned, ProgramsKeptUp, InUseIntact, InUse, Live,
        DeletionsOwned, ClaimsNamePrograms
<1> QED
  BY <1>2, <1>3

\* A player claims, and a reader holds, what is registered and not retired.
LEMMA UseHolds ==
  ASSUME ALInv,
         \/ \E c \in Clients, g \in Generations : Claim(c, g) \/ Retire(c, g)
         \/ \E h \in Handles, t \in Tokens : AcquireReader(h, t)
         \/ \E h \in Handles : ReleaseReader(h)
  PROVE  ALInv'
<1> USE DEF ALInv
<1>1. UNCHANGED <<up, incarnation, current, status, committed, attempt, terminal, issued,
                  reservation, nextIncarnation, generation, opened, owner, closed,
                  outstanding, known, retired, programs, executor, area, jobs>>
  BY DEF Claim, Retire, AcquireReader, ReleaseReader, caVars
<1>2. CAInv'
  BY <1>1 DEF CAInv, CATypeOK, ReadyIffCommitted, CommittedOwned, Live
<1>3. /\ claims' \subseteq Claims
      /\ retiredGenerations' \in [Clients -> 0 .. MaxGeneration]
      /\ readers' \in [Handles -> 0 .. MaxToken]
      /\ ClaimsNamePrograms'
      /\ \A c \in claims' : c \in claims \/ Admissible(c.key)
      /\ \A h \in Handles : readers'[h] \in {0, readers[h]} \/ Admissible(readers'[h])
  <2>1. ASSUME NEW c \in Clients, NEW g \in Generations, Claim(c, g) PROVE <1>3!:
    BY <2>1 DEF Claim, ClaimsNamePrograms, ALTypeOK, Claims, Tokens
  <2>2. ASSUME NEW c \in Clients, NEW g \in Generations, Retire(c, g) PROVE <1>3!:
    BY <2>2, CacheAttemptsAssumption DEF Retire, ClaimsNamePrograms, ALTypeOK, Generations
  <2>3. ASSUME NEW h \in Handles, NEW t \in Tokens, AcquireReader(h, t) PROVE <1>3!:
    BY <2>3, CacheAttemptsAssumption DEF AcquireReader, ClaimsNamePrograms, ALTypeOK, Tokens
  <2>4. ASSUME NEW h \in Handles, ReleaseReader(h) PROVE <1>3!:
    BY <2>4, CacheAttemptsAssumption DEF ReleaseReader, ClaimsNamePrograms, ALTypeOK
  <2> QED
    BY <2>1, <2>2, <2>3, <2>4
<1>4. ALTypeOK'
  <2>1. closed' \in BOOLEAN
    BY <1>1, Zenon DEF ALTypeOK
  <2> QED
    BY <1>1, <1>2, <1>3, <2>1 DEF ALTypeOK, CAInv
<1>5. InUseIntact'
  <2> SUFFICES ASSUME NEW t \in Tokens, InUse(t)'
               PROVE  t \in known /\ area[t] = "artifacts" /\ retired[t] = "no"
    BY <1>1 DEF InUseIntact
  <2>1. InUse(t) \/ t \in known
    BY <1>1, <1>3 DEF InUse, Live, Admissible, Tokens
  <2> QED
    BY <2>1 DEF InUseIntact, TokensAgree
<1> QED
  BY <1>1, <1>2, <1>3, <1>4, <1>5 DEF TokensAgree, NothingUnowned, ProgramsKeptUp, DeletionsOwned

-----------------------------------------------------------------------------
(* The collector. *)

\* A pass takes only what nobody uses, and only what no other pass is deleting.
LEMMA PrepareHolds ==
  ASSUME ALInv, NEW S \in SUBSET Collectable, Prepare(S)
  PROVE  ALInv'
<1> USE DEF ALInv
<1> DEFINE waiting == S \cup {t \in Tokens : retired[t] = "waiting"}
<1>1. /\ owner # 0
      /\ known' = known \ S
      /\ programs' = [g \in Generations |-> IF programs[g] \in S THEN 0 ELSE programs[g]]
      /\ area' = [t \in Tokens |-> IF t \in S THEN "retired" ELSE area[t]]
      /\ retired' = [t \in Tokens |-> IF t \in waiting THEN "deleting" ELSE retired[t]]
      /\ jobs' = jobs \cup {[key |-> t, owner |-> owner, outcome |-> "running"] : t \in waiting}
      /\ UNCHANGED <<up, incarnation, current, status, committed, attempt, terminal, issued,
                     reservation, nextIncarnation, generation, opened, owner, closed,
                     outstanding, claims, retiredGenerations, readers, executor>>
  BY DEF Prepare, caVars
<1>2. /\ S \subseteq known /\ S \subseteq Tokens
      /\ \A t \in S : ~InUse(t)
  BY DEF Collectable, Protected, InUse, ALTypeOK
<1>3. \A t \in waiting : t \in Tokens /\ retired[t] # "deleting" /\ executor[t] = "ready"
                        /\ area'[t] \in {"retired", "none"} /\ t \notin known'
  BY <1>1, <1>2 DEF TokensAgree
<1>4. \A t \in Tokens : retired'[t] # "no" => t \in waiting \/ (retired[t] # "no" /\ t \notin S)
  BY <1>1, <1>2 DEF TokensAgree
<1>5. \A t \in S : t \in waiting
  OBVIOUS
<1> HIDE DEF waiting
<1>6. CAInv'
  BY <1>1 DEF CAInv, CATypeOK, ReadyIffCommitted, CommittedOwned, Live
<1>7. ALTypeOK'
  <2>1. closed' \in BOOLEAN
    BY <1>1, Zenon DEF ALTypeOK
  <2>2. jobs' \subseteq Jobs
    <3>1. owner \in 1 .. MaxOwner
      BY <1>1, ArtifactLifetimeAssumption DEF ALTypeOK
    <3>2. \A t \in waiting : [key |-> t, owner |-> owner, outcome |-> "running"] \in Jobs
      BY <1>3, <3>1 DEF Jobs
    <3> QED
      BY <1>1, <3>2 DEF ALTypeOK
  <2>3. /\ area' \in [Tokens -> Areas]
        /\ retired' \in [Tokens -> {"no", "waiting", "deleting"}]
        /\ programs' \in [Generations -> 0 .. MaxToken]
        /\ known' \subseteq Tokens
    BY <1>1, CacheAttemptsAssumption DEF ALTypeOK, Areas
  <2> QED
    BY <1>1, <1>6, <2>1, <2>2, <2>3 DEF ALTypeOK, CAInv
<1>8. TokensAgree'
  <2> SUFFICES ASSUME NEW t \in Tokens
               PROVE  /\ t > issued => executor[t] = "none"
                      /\ t \in known' => executor[t] = "ready" /\ area'[t] = "artifacts"
                                          /\ retired'[t] = "no"
                      /\ retired'[t] # "no" => executor[t] = "ready"
                                              /\ area'[t] \in {"retired", "none"}
                      /\ area'[t] = "retired" => executor[t] = "ready"
    BY <1>1 DEF TokensAgree
  <2> QED
    BY <1>1, <1>2, <1>3, <1>4, <1>5 DEF TokensAgree
<1>9. InUseIntact'
  <2> SUFFICES ASSUME NEW t \in Tokens, InUse(t)
               PROVE  t \in known' /\ area'[t] = "artifacts" /\ retired'[t] = "no"
    BY <1>1 DEF InUseIntact, InUse, Live
  <2>1. t \notin S
    BY <1>2
  <2> QED
    BY <1>1, <1>3, <1>4, <2>1 DEF InUseIntact
<1>10. DeletionsOwned'
  <2>1. ASSUME NEW j \in jobs
        PROVE  /\ j.key \in Tokens /\ j.key \notin waiting /\ j.owner = owner
               /\ retired'[j.key] = "deleting" /\ area'[j.key] \in {"retired", "none"}
    BY <1>1, <1>3, <1>5 DEF DeletionsOwned, ALTypeOK, Jobs
  <2>2. ASSUME NEW j \in jobs' \ jobs
        PROVE  /\ j = [key |-> j.key, owner |-> owner, outcome |-> "running"]
               /\ j.key \in waiting
    BY <1>1
  <2>3. ASSUME NEW j \in jobs', NEW k \in jobs', k.key = j.key PROVE k = j
    BY <2>1, <2>2, <2>3 DEF DeletionsOwned
  <2> QED
    BY <1>1, <1>3, <2>1, <2>2, <2>3 DEF DeletionsOwned
<1>11. ProgramsKeptUp'
  BY <1>1 DEF ProgramsKeptUp
<1>12. ClaimsNamePrograms'
  <2> SUFFICES ASSUME NEW c \in claims PROVE programs'[c.generation] = c.key
    BY <1>1 DEF ClaimsNamePrograms
  <2>1. c.generation \in Generations /\ c.key \in Tokens /\ c.key \notin S
    BY <1>2 DEF ALTypeOK, Claims, InUse
  <2> QED
    BY <1>1, <2>1 DEF ClaimsNamePrograms
<1>13. NothingUnowned'
  BY <1>1 DEF NothingUnowned
<1> QED
  BY <1>6, <1>7, <1>8, <1>9, <1>10, <1>11, <1>12, <1>13

\* A deletion touches the one directory it has been given.
LEMMA DeleteHolds ==
  ASSUME ALInv, NEW j \in jobs, NEW outcome \in {"deleted", "kept"}, Delete(j, outcome)
  PROVE  ALInv'
<1> USE DEF ALInv
<1> DEFINE t == j.key
           k == [j EXCEPT !.outcome = outcome]
<1>1. /\ jobs' = (jobs \ {j}) \cup {k}
      /\ area' = IF outcome = "deleted" THEN [area EXCEPT ![t] = "none"] ELSE area
      /\ UNCHANGED <<up, incarnation, current, status, committed, attempt, terminal, issued,
                     reservation, nextIncarnation, generation, opened, owner, closed,
                     outstanding, known, retired, programs, claims, retiredGenerations,
                     readers, executor>>
  BY DEF Delete, caVars, lifetimeVars
<1>2. t \in Tokens /\ retired[t] = "deleting" /\ t \notin known /\ j \in Jobs
  BY DEF DeletionsOwned, TokensAgree, ALTypeOK, Jobs
<1>3. k \in Jobs /\ k.key = t /\ k.owner = j.owner
  BY <1>2 DEF Jobs
<1>4. /\ area' \in [Tokens -> Areas] /\ area'[t] \in {area[t], "none"}
      /\ \A u \in Tokens \ {t} : area'[u] = area[u]
  BY <1>1, <1>2 DEF ALTypeOK, Areas
<1> HIDE DEF t, k
<1>5. CAInv'
  BY <1>1 DEF CAInv, CATypeOK, ReadyIffCommitted, CommittedOwned, Live
<1>6. ALTypeOK'
  <2>1. closed' \in BOOLEAN
    BY <1>1, Zenon DEF ALTypeOK
  <2> QED
    BY <1>1, <1>3, <1>4, <1>5, <2>1 DEF ALTypeOK, CAInv
<1>7. TokensAgree'
  BY <1>1, <1>2, <1>4 DEF TokensAgree
<1>8. InUseIntact'
  BY <1>1, <1>2, <1>4 DEF InUseIntact, InUse, Live
<1>9. DeletionsOwned'
  <2>1. ASSUME NEW l \in jobs \ {j} PROVE l.key \in Tokens \ {t}
    BY <2>1 DEF DeletionsOwned, ALTypeOK, Jobs, t
  <2>2. t = j.key
    BY DEF t
  <2> QED
    BY <1>1, <1>2, <1>3, <1>4, <2>1, <2>2 DEF DeletionsOwned
<1> QED
  BY <1>1, <1>5, <1>6, <1>7, <1>8, <1>9 DEF NothingUnowned, ProgramsKeptUp, ClaimsNamePrograms

\* The end of a deletion is entered for the artifact it was about, and for nobody else.
LEMMA FinishHolds ==
  ASSUME ALInv, NEW j \in jobs, Finish(j)
  PROVE  ALInv'
<1> USE DEF ALInv
<1> DEFINE t == j.key
<1>1. /\ jobs' = jobs \ {j}
      /\ UNCHANGED <<up, incarnation, current, status, committed, attempt, terminal, issued,
                     reservation, nextIncarnation, generation, opened, owner, closed,
                     outstanding, known, programs, claims, retiredGenerations,
                     readers, executor, area>>
  BY DEF Finish, caVars
<1>2. t \in Tokens /\ retired[t] = "deleting" /\ t \notin known
  BY DEF DeletionsOwned, TokensAgree, ALTypeOK, Jobs
<1>3. /\ retired' \in [Tokens -> {"no", "waiting", "deleting"}]
      /\ \A u \in Tokens \ {t} : retired'[u] = retired[u]
  BY <1>2 DEF Finish, ALTypeOK
<1> HIDE DEF t
<1>4. CAInv'
  BY <1>1 DEF CAInv, CATypeOK, ReadyIffCommitted, CommittedOwned, Live
<1>5. ALTypeOK'
  <2>1. closed' \in BOOLEAN
    BY <1>1, Zenon DEF ALTypeOK
  <2> QED
    BY <1>1, <1>3, <1>4, <2>1 DEF ALTypeOK, CAInv
<1>6. TokensAgree'
  BY <1>1, <1>2, <1>3 DEF TokensAgree
<1>7. InUseIntact'
  BY <1>1, <1>2, <1>3 DEF InUseIntact, InUse, Live
<1>8. DeletionsOwned'
  <2>1. ASSUME NEW l \in jobs \ {j} PROVE l.key \in Tokens \ {t}
    BY <2>1 DEF DeletionsOwned, ALTypeOK, Jobs, t
  <2> QED
    BY <1>1, <1>3, <2>1 DEF DeletionsOwned
<1> QED
  BY <1>1, <1>4, <1>5, <1>6, <1>7, <1>8 DEF NothingUnowned, ProgramsKeptUp, ClaimsNamePrograms

-----------------------------------------------------------------------------
(* The theorems. *)

LEMMA InitEstablishes == ALInit => ALInv
<1> SUFFICES ASSUME ALInit PROVE ALInv
  OBVIOUS
<1>1. CAInit
  BY DEF ALInit
<1>2. CAInv
  <2>1. up \in BOOLEAN
    BY <1>1, Zenon DEF CAInit
  <2>2. CATypeOK
    BY <1>1, <2>1, CacheAttemptsAssumption DEF CAInit, CATypeOK, Statuses
  <2> QED
    BY <1>1, <2>2 DEF CAInit, CAInv, ReadyIffCommitted, CommittedOwned, Live
<1>3. ALTypeOK
  <2>1. closed \in BOOLEAN
    BY Zenon DEF ALInit
  <2> QED
    BY <1>2, <2>1, CacheAttemptsAssumption, ArtifactLifetimeAssumption
    DEF ALInit, ALTypeOK, CAInv, Phases, Areas
<1>4. TokensAgree /\ NothingUnowned /\ ProgramsKeptUp
  BY <1>1 DEF ALInit, CAInit, TokensAgree, NothingUnowned, ProgramsKeptUp, Generations
<1>5. InUseIntact /\ DeletionsOwned /\ ClaimsNamePrograms
  BY <1>1 DEF ALInit, CAInit, InUseIntact, InUse, Live, DeletionsOwned, ClaimsNamePrograms, Tokens
<1> QED
  BY <1>2, <1>3, <1>4, <1>5 DEF ALInv

\* Every operation of the lifetime preserves the invariant, one step per operation.
LEMMA LifetimeNextPreserves == ALInv /\ [ALNext]_alVars => ALInv'
<1> SUFFICES ASSUME ALInv, [ALNext]_alVars PROVE ALInv'
  OBVIOUS
<1>1. CAInv'
  BY StepImplements, NextPreserves DEF ALInv
<1>2. issued \in 0 .. MaxToken /\ MaxToken \in Nat
  BY CacheAttemptsAssumption DEF ALInv, CAInv, CATypeOK
<1>3. CASE Requests
  <2>1. ASSUME NEW n \in 0 .. MaxIncarnation, NEW seats \in Placements(n),
               NEW cur \in Items \cup {NoItem}, InitializeApp(n, seats, cur)
        PROVE  ALInv'
    BY <1>1, <2>1, InitializeHolds
  <2>2. CASE ShutdownApp
    BY <1>1, <2>2, ShutdownHolds
  <2>3. CASE Mutate
    <3>1. Gentle /\ Numbered
      BY <2>3, MutateIsGentle DEF ALInv
    <3>2. outstanding' \subseteq Tokens
      BY <2>3 DEF Mutate, ALInv, ALTypeOK
    <3> QED
      BY <1>1, <2>3, <3>1, <3>2, QuietHolds DEF Mutate
  <2>4. ASSUME NEW i \in Items, Begin(i) PROVE ALInv'
    BY <1>1, <2>4, BeginHolds
  <2>5. ASSUME NEW i \in Items, Strand(i) PROVE ALInv'
    <3>1. Gentle /\ Numbered /\ issued + 1 \in Tokens
      BY <2>5, BeginIsGentle DEF Strand, ALInv
    <3>2. outstanding' \subseteq Tokens
      BY <2>5, <3>1 DEF Strand, ALInv, ALTypeOK
    <3> QED
      BY <1>1, <2>5, <3>1, <3>2, QuietHolds DEF Strand
  <2> QED
    BY <1>3, <2>1, <2>2, <2>3, <2>4, <2>5 DEF Requests
<1>4. CASE Executors
  <2> PICK t \in 1 .. issued :
        \/ \E outcome \in {"failed", "cancelled", "dropped"} : Stop(t, outcome)
        \/ Authorize(t)
        \/ Publish(t)
        \/ Register(t)
        \/ PublishExternal(t)
        \/ \E e \in {"queued", "started", "progress"} : Report(t, e)
        \/ Deliver(t)
        \/ Settle(t)
    BY <1>4 DEF Executors
  <2>1. t \in Tokens /\ t <= issued
    BY <1>2 DEF Tokens
  <2>2. ASSUME NEW outcome \in {"failed", "cancelled", "dropped"}, Stop(t, outcome)
        PROVE  ALInv'
    BY <2>1, <2>2, AdvanceHolds DEF Stop, Phases, Areas, TerminalEvents
  <2>3. CASE Authorize(t)
    BY <2>1, <2>3, AdvanceHolds DEF Authorize, Phases, Areas
  <2>4. CASE Publish(t)
    <3>1. CASE Advance(t, "authorized", "published", "artifacts")
      BY <2>1, <2>4, <3>1, AdvanceHolds DEF Publish, Phases, Areas
    <3>2. CASE Advance(t, "authorized", "failed", "none")
      BY <2>1, <2>4, <3>2, AdvanceHolds DEF Publish, Phases, Areas, TerminalEvents
    <3> QED
      BY <2>4, <3>1, <3>2 DEF Publish
  <2>5. CASE Register(t)
    <3>1. CASE CanRegister(t)
      BY <2>1, <2>5, <3>1, PublicationHolds DEF Register, CanRegister, Phases
    <3>2. CASE ~CanRegister(t)
      BY <2>1, <2>5, <3>2, AdvanceHolds
      DEF Register, lifetimeVars, Phases, Areas, TerminalEvents
    <3> QED
      BY <3>1, <3>2
  <2>6. CASE PublishExternal(t)
    BY <2>1, <2>6, PublicationHolds DEF PublishExternal, Phases
  <2>7. ASSUME NEW e \in {"queued", "started", "progress"}, Report(t, e)
        PROVE  ALInv'
    <3>1. reservation[t].item \in Items
      BY <2>7 DEF Report, ApplyEvent, Accepts, OwnsItem, Live
    <3>2. Gentle /\ Numbered
      BY <2>1, <2>7, <3>1, EventIsGentle DEF Report, ALInv, Events
    <3>3. outstanding' \subseteq Tokens
      BY <2>7 DEF Report, ALInv, ALTypeOK
    <3> QED
      BY <1>1, <2>7, <3>2, <3>3, QuietHolds DEF Report
  <2>8. CASE Deliver(t)
    BY <1>1, <2>1, <2>8, DeliverHolds
  <2>9. CASE Settle(t)
    BY <2>1, <2>9, SettleHolds
  <2> QED
    BY <2>2, <2>3, <2>4, <2>5, <2>6, <2>7, <2>8, <2>9
<1>5. CASE Users
  BY <1>5, OwnerHolds, UseHolds DEF Users
<1>6. CASE Collector
  BY <1>6, PrepareHolds, DeleteHolds, FinishHolds DEF Collector
<1>7. CASE UNCHANGED alVars
  <2>1. UNCHANGED caVars /\ UNCHANGED lifetimeVars /\ UNCHANGED <<executor, area, jobs>>
    BY <1>7 DEF alVars
  <2>2. ALTypeOK'
    <3>1. closed' \in BOOLEAN
      BY <2>1, Zenon DEF lifetimeVars, ALInv, ALTypeOK
    <3> QED
      BY <1>1, <2>1, <3>1 DEF lifetimeVars, ALInv, ALTypeOK, CAInv
  <2> QED
    BY <1>1, <2>1, <2>2
    DEF caVars, lifetimeVars, ALInv, TokensAgree, NothingUnowned, ProgramsKeptUp, InUseIntact,
        InUse, Live, DeletionsOwned, ClaimsNamePrograms
<1> QED
  BY <1>3, <1>4, <1>5, <1>6, <1>7 DEF ALNext

\* The invariant of the lifetime holds in every reachable state, for any number of
\* songs, attempts, players, readers and owners.
THEOREM LifetimeInvariant == ALSpec => []ALInv
BY InitEstablishes, LifetimeNextPreserves, PTL DEF ALSpec

\* Every variable of the composition keeps its type.
THEOREM LifetimeTypes == ALSpec => []ALTypeOK
BY LifetimeInvariant, PTL DEF ALInv

\* What a live song names, a player has mounted or a reader holds is registered and on
\* disk where its URL says.
THEOREM WhatIsInUseIsIntact == ALSpec => []InUseIntact
BY LifetimeInvariant, PTL DEF ALInv

\* Deletions outside the lock belong to the present owner and share no directory.
THEOREM DeletionsHaveAnOwner == ALSpec => []DeletionsOwned
BY LifetimeInvariant, PTL DEF ALInv

\* A claim is found under its generation for as long as it is held.
THEOREM ClaimsKeepTheirProgram == ALSpec => []ClaimsNamePrograms
BY LifetimeInvariant, PTL DEF ALInv

\* What has been retired is not on its way back: its executor has finished, and no
\* registration finds its directory.
LEMMA NextKeepsRetired ==
  ALInv /\ [ALNext]_alVars =>
    \A t \in Tokens : area[t] = "retired" => area'[t] \in {"retired", "none"} /\ t \notin known'
<1> SUFFICES ASSUME ALInv, [ALNext]_alVars, NEW t \in Tokens, area[t] = "retired"
             PROVE  area'[t] \in {"retired", "none"} /\ t \notin known'
  OBVIOUS
<1>1. executor[t] = "ready" /\ t \notin known
  BY DEF ALInv, TokensAgree
<1>2. area \in [Tokens -> Areas] /\ executor \in [Tokens -> Phases] /\ issued \in 0 .. MaxToken
  BY DEF ALInv, ALTypeOK, CATypeOK
<1>3. ASSUME NEW u, executor[u] # "ready", NEW where, area' = [area EXCEPT ![u] = where]
      PROVE  area'[t] = area[t]
  BY <1>1, <1>2, <1>3
<1>4. CASE Requests
  <2>1. ASSUME NEW i \in Items, Begin(i) PROVE area'[t] = area[t] /\ known' = known
    <3>1. issued + 1 \in Tokens
      BY <2>1, BeginIsGentle DEF Begin, ALInv
    <3>2. executor[issued + 1] # "ready"
      BY <3>1, <1>2 DEF ALInv, TokensAgree
    <3> QED
      BY <1>3, <2>1, <3>2 DEF Begin
  <2> QED
    BY <1>1, <1>4, <2>1 DEF Requests, InitializeApp, ShutdownApp, Mutate, Strand
<1>5. ASSUME NEW u \in 1 .. issued,
             \/ \E outcome \in {"failed", "cancelled", "dropped"} : Stop(u, outcome)
             \/ Authorize(u) \/ Publish(u) \/ Register(u) \/ PublishExternal(u)
      PROVE  area'[t] = area[t] /\ known' \subseteq known \cup {u} /\ executor[u] # "ready"
  BY <1>3, <1>5
  DEF Stop, Authorize, Publish, Register, PublishExternal, Advance, lifetimeVars
<1>6. ASSUME NEW u \in 1 .. issued, NEW e, Report(u, e) \/ Deliver(u) \/ Settle(u)
      PROVE  area' = area /\ t \notin known'
  BY <1>1, <1>6 DEF Report, Deliver, Settle, CanRegister
<1>7. CASE Executors
  BY <1>1, <1>5, <1>6, <1>7 DEF Executors
<1>8. CASE Users
  BY <1>1, <1>8 DEF Users, Open, Close, Claim, Retire, AcquireReader, ReleaseReader
<1>9. CASE Collector
  <2>1. ASSUME NEW S, Prepare(S) PROVE area'[t] = "retired" /\ known' \subseteq known
    BY <2>1 DEF Prepare
  <2>2. ASSUME NEW j \in jobs, NEW outcome \in {"deleted", "kept"}, Delete(j, outcome)
        PROVE  area'[t] \in {"retired", "none"} /\ known' = known
    BY <1>2, <2>2 DEF Delete, lifetimeVars
  <2>3. ASSUME NEW j \in jobs, Finish(j) PROVE area' = area /\ known' = known
    BY <2>3 DEF Finish
  <2> QED
    BY <1>1, <1>9, <2>1, <2>2, <2>3 DEF Collector
<1>10. CASE UNCHANGED alVars
  BY <1>1, <1>10 DEF alVars, lifetimeVars
<1> QED
  BY <1>4, <1>7, <1>8, <1>9, <1>10 DEF ALNext

\* What the collector has taken away never comes back.
THEOREM RetiredStaysRetired == ALSpec => StaysRetired
BY LifetimeInvariant, NextKeepsRetired, PTL DEF ALSpec, StaysRetired
=============================================================================
