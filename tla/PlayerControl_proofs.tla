------------------------ MODULE PlayerControl_proofs ------------------------
(***************************************************************************)
(* For queues, frames and songs of any number: commands that name the      *)
(* program, revisions that name one state, actions once and in order, and  *)
(* removal of nothing but handled commands.  They hold together with       *)
(* PCInv: no frame is ahead of the Host, no frame shows a command that is  *)
(* behind one still in the queue, and an acknowledgement names a command   *)
(* of the past or one that has been handled.                               *)
(***************************************************************************)
EXTENDS PlayerControl, TLAPS

Queue == controls.commands

Known == frames \cup {cached, page}

Present(f) ==
  f.revision = revision /\ f.reports = reports /\ f.controls = controls.revision

FramesBehind ==
  \A f \in Known :
    /\ f.revision <= revision /\ f.reports <= reports /\ f.controls <= controls.revision
    /\ Present(f) => f = Snapshot

HeadsBehind ==
  \A f \in Known : f.head # <<>> =>
    /\ f.head[1].seq <= controls.sequence
    /\ \A k \in DOMAIN Queue : f.head[1].seq <= Queue[k].seq

Handled ==
  /\ \A s \in acks : s <= controls.sequence
  /\ applied <= controls.sequence
  /\ \A k \in DOMAIN Queue :
       Queue[k].seq \in acks \/ Queue[k].seq <= applied => Queue[k].seq \in handled

ActedBehind ==
  /\ \A j \in DOMAIN acted : acted[j] <= applied
  /\ ActsOnceInOrder

PCInv ==
  PCTypeOK /\ QueueNamesProgram /\ FramesBehind /\ HeadsBehind /\ Handled /\ ActedBehind

LEMMA InitHolds == PCInit => PCInv
<1> SUFFICES ASSUME PCInit PROVE PCInv
  OBVIOUS
<1> USE DEF PCInit
<1>1. PCTypeOK
  BY PlayerControlAssumption DEF PCTypeOK, Programs, Commands, Frames, NoFrame
<1>2. QueueNamesProgram
  BY DEF QueueNamesProgram
<1>3. FramesBehind /\ HeadsBehind
  BY DEF FramesBehind, HeadsBehind, Known, Present, NoFrame, Queue
<1>4. Handled /\ ActedBehind
  BY DEF Handled, ActedBehind, ActsOnceInOrder, Queue
<1> QED BY <1>1, <1>2, <1>3, <1>4 DEF PCInv

\* A snapshot is a frame.
LEMMA SnapshotType == PCTypeOK => Snapshot \in Frames
<1> SUFFICES ASSUME PCTypeOK PROVE Snapshot \in Frames
  OBVIOUS
<1>1. Head1(controls.commands) \in Heads
  <2>1. CASE controls.commands = <<>>
    BY <2>1 DEF Head1, Heads
  <2>2. CASE controls.commands # <<>>
    <3>1. Head(controls.commands) \in Commands
      BY <2>2 DEF PCTypeOK
    <3> QED BY <2>2, <3>1 DEF Head1, Heads
  <2> QED BY <2>1, <2>2
<1> QED BY <1>1 DEF PCTypeOK, Snapshot, Frames

\* What a clear leaves of the queue.
LEMMA ClearedFacts ==
  ASSUME PCTypeOK
  PROVE  /\ Cleared(controls).commands = <<>>
         /\ Cleared(controls).sequence = controls.sequence
         /\ Cleared(controls).revision \in Nat
         /\ Cleared(controls).revision >= controls.revision
         /\ Cleared(controls) \in
              [sequence : 0..MaxSequence, revision : Nat, commands : Seq(Commands)]
<1>1. Len(Head1(controls.commands)) \in Nat
  BY DEF Head1, PCTypeOK
<1>2. <<>> \in Seq(Commands)
  OBVIOUS
<1>3. Cleared(controls) = [sequence |-> controls.sequence,
                           revision |-> controls.revision + Len(Head1(controls.commands)),
                           commands |-> <<>>]
  BY DEF Cleared, PCTypeOK
<1>4. /\ controls.sequence \in 0..MaxSequence /\ controls.revision \in Nat
      /\ controls.revision + Len(Head1(controls.commands)) \in Nat
  BY <1>1 DEF PCTypeOK
<1> QED BY <1>1, <1>2, <1>3, <1>4

LEMMA SeqsOfCommands ==
  ASSUME NEW q \in Seq(Commands), NEW k \in DOMAIN q
  PROVE  q[k] \in Commands /\ q[k].seq \in Nat /\ q[k].seq \in 1..MaxSequence
<1>1. q[k] \in Commands
  OBVIOUS
<1> QED BY <1>1, PlayerControlAssumption DEF Commands

LEMMA FramesOfKnown ==
  ASSUME PCTypeOK, NEW f \in Known
  PROVE  /\ f.revision \in Nat /\ f.reports \in Nat /\ f.controls \in Nat
         /\ f.head # <<>> => f.head[1] \in Commands /\ f.head[1].seq \in Nat
         /\ f.head # <<>> => f.head[1].seq \in 1..MaxSequence
<1>1. f \in Frames \/ f = NoFrame
  BY DEF PCTypeOK, Known
<1>2. CASE f = NoFrame
  BY <1>2 DEF NoFrame
<1>3. CASE f \in Frames
  <2>1. f.head \in Heads
    BY <1>3 DEF Frames
  <2>2. f.head # <<>> => f.head[1] \in Commands
    BY <2>1 DEF Heads
  <2>3. \A c \in Commands : c.seq \in 1..MaxSequence /\ c.seq \in Nat
    BY PlayerControlAssumption DEF Commands
  <2> QED BY <1>3, <2>2, <2>3 DEF Frames
<1> QED BY <1>1, <1>2, <1>3

\* The Host moves to a state that no frame has shown, and its queue keeps its
\* commands, in order, but for some at the head.
LEMMA HostMoves ==
  ASSUME PCInv, PCTypeOK', QueueNamesProgram',
         UNCHANGED <<cached, frames, pageVars>>,
         revision' >= revision, reports' >= reports, controls'.revision >= controls.revision,
         ~ (revision' = revision /\ reports' = reports /\ controls'.revision = controls.revision),
         controls'.sequence >= controls.sequence,
         \A k \in DOMAIN Queue' : 
           \/ \E j \in DOMAIN Queue : Queue'[k].seq = Queue[j].seq
           \/ Queue'[k].seq > controls.sequence,
         \A s \in acks' : s \in acks,
         \A s \in handled : s \in handled' \/ s > controls.sequence
  PROVE  PCInv'
<1> USE DEF PCInv
<1>1. Known' = Known
  BY DEF Known, pageVars
<1>2. /\ revision \in Nat /\ reports \in Nat /\ controls.revision \in Nat
      /\ revision' \in Nat /\ reports' \in Nat /\ controls'.revision \in Nat
      /\ controls.sequence \in Nat /\ controls'.sequence \in Nat
      /\ applied \in Nat /\ acks \subseteq Nat
  BY PlayerControlAssumption DEF PCTypeOK
<1>3. \A k \in DOMAIN Queue : Queue[k].seq \in Nat /\ Queue[k].seq <= controls.sequence
  BY SeqsOfCommands DEF PCTypeOK, Queue, QueueNamesProgram
<1>4. \A k \in DOMAIN Queue' : Queue'[k].seq \in Nat
  BY SeqsOfCommands DEF PCTypeOK, Queue
<1>5. \A f \in Known : /\ f.revision \in Nat /\ f.reports \in Nat /\ f.controls \in Nat
                       /\ f.head # <<>> => f.head[1].seq \in Nat
  BY FramesOfKnown
<1>6. FramesBehind'
  <2> SUFFICES ASSUME NEW f \in Known
               PROVE  /\ f.revision <= revision' /\ f.reports <= reports'
                      /\ f.controls <= controls'.revision
                      /\ ~ (f.revision = revision' /\ f.reports = reports'
                             /\ f.controls = controls'.revision)
    BY <1>1 DEF FramesBehind, Present
  <2> QED BY <1>2, <1>5 DEF FramesBehind
<1>7. HeadsBehind'
  <2> SUFFICES ASSUME NEW f \in Known, f.head # <<>>
               PROVE  /\ f.head[1].seq <= controls'.sequence
                      /\ \A k \in DOMAIN Queue' : f.head[1].seq <= Queue'[k].seq
    BY <1>1 DEF HeadsBehind
  <2>1. f.head[1].seq \in Nat /\ f.head[1].seq <= controls.sequence
    BY <1>5 DEF HeadsBehind
  <2>2. \A k \in DOMAIN Queue' : f.head[1].seq <= Queue'[k].seq
    <3> SUFFICES ASSUME NEW k \in DOMAIN Queue' PROVE f.head[1].seq <= Queue'[k].seq
      OBVIOUS
    <3>1. CASE \E j \in DOMAIN Queue : Queue'[k].seq = Queue[j].seq
      BY <3>1 DEF HeadsBehind
    <3>2. CASE Queue'[k].seq > controls.sequence
      BY <3>2, <2>1, <1>2, <1>4
    <3> QED BY <3>1, <3>2
  <2> QED BY <2>1, <2>2, <1>2
<1>8. Handled'
  <2>1. applied' = applied
    BY DEF pageVars
  <2>2. \A k \in DOMAIN Queue' :
          Queue'[k].seq \in acks' \/ Queue'[k].seq <= applied' => Queue'[k].seq \in handled'
    <3> SUFFICES ASSUME NEW k \in DOMAIN Queue',
                        Queue'[k].seq \in acks \/ Queue'[k].seq <= applied
                 PROVE  Queue'[k].seq \in handled'
      BY <2>1
    <3>1. Queue'[k].seq <= controls.sequence
      BY <1>2, <1>4 DEF Handled
    <3>2. PICK j \in DOMAIN Queue : Queue'[k].seq = Queue[j].seq
      BY <3>1, <1>2, <1>4
    <3> QED BY <3>1, <3>2, <1>2, <1>4 DEF Handled
  <2>3. \A s \in acks' : s <= controls'.sequence
    <3> SUFFICES ASSUME NEW s \in acks' PROVE s <= controls'.sequence
      OBVIOUS
    <3>1. s \in Nat /\ s <= controls.sequence
      BY <1>2 DEF Handled
    <3> QED BY <3>1, <1>2
  <2>4. applied' <= controls'.sequence
    BY <2>1, <1>2 DEF Handled
  <2> QED BY <2>2, <2>3, <2>4 DEF Handled
<1>9. ActedBehind'
  BY DEF ActedBehind, ActsOnceInOrder, pageVars
<1> QED BY <1>6, <1>7, <1>8, <1>9

\* The Host stays where it is; what is known of it is what was, or its state now.
LEMMA ViewMoves ==
  ASSUME PCInv, PCTypeOK', UNCHANGED hostVars,
         \A f \in Known' : f \in Known \cup {Snapshot, NoFrame},
         Handled', ActedBehind'
  PROVE  PCInv'
<1> USE DEF PCInv, hostVars
<1>1. Snapshot' = Snapshot /\ Queue' = Queue
  BY DEF Snapshot, Queue
<1>2. /\ revision \in Nat \ {0} /\ reports \in Nat /\ controls.revision \in Nat
      /\ controls.sequence \in Nat
  BY PlayerControlAssumption DEF PCTypeOK
<1>3. FramesBehind'
  <2> SUFFICES ASSUME NEW f \in Known'
               PROVE  /\ f.revision <= revision /\ f.reports <= reports
                      /\ f.controls <= controls.revision
                      /\ Present(f) => f = Snapshot
    BY <1>1 DEF FramesBehind, Present
  <2>1. CASE f \in Known
    BY <2>1 DEF FramesBehind
  <2>2. CASE f = Snapshot
    BY <2>2, <1>2 DEF Snapshot
  <2>3. CASE f = NoFrame
    BY <2>3, <1>2 DEF NoFrame, Present
  <2> QED BY <2>1, <2>2, <2>3
<1>4. HeadsBehind'
  <2> SUFFICES ASSUME NEW f \in Known', f.head # <<>>
               PROVE  /\ f.head[1].seq <= controls.sequence
                      /\ \A k \in DOMAIN Queue : f.head[1].seq <= Queue[k].seq
    BY <1>1 DEF HeadsBehind
  <2>1. CASE f \in Known
    BY <2>1 DEF HeadsBehind
  <2>2. CASE f = Snapshot
    <3>1. Queue # <<>> /\ f.head = <<Head(Queue)>> /\ f.head[1] = Queue[1]
      BY <2>2 DEF Snapshot, Head1, Queue, PCTypeOK
    <3>2. Queue \in Seq(Commands) /\ 1 \in DOMAIN Queue
      BY <3>1 DEF Queue, PCTypeOK
    <3>3. \A k \in DOMAIN Queue : Queue[k].seq \in Nat /\ k \in Nat \ {0}
      BY <3>2, SeqsOfCommands
    <3>4. \A k \in DOMAIN Queue : Queue[1].seq <= Queue[k].seq
      BY <3>2, <3>3 DEF QueueNamesProgram, Queue
    <3> QED BY <3>1, <3>2, <3>4 DEF QueueNamesProgram, Queue
  <2>3. CASE f = NoFrame
    BY <2>3 DEF NoFrame
  <2> QED BY <2>1, <2>2, <2>3
<1>5. QueueNamesProgram'
  BY DEF QueueNamesProgram
<1> QED BY <1>3, <1>4, <1>5

LEMMA ChangeProgramStep ==
  ASSUME PCInv, NEW i \in Items \cup {NoItem}, ChangeProgram(i)
  PROVE  PCInv'
<1> USE DEF PCInv
<1>1. /\ Cleared(controls).commands = <<>>
      /\ Cleared(controls).sequence = controls.sequence
      /\ Cleared(controls).revision \in Nat
      /\ Cleared(controls).revision >= controls.revision
      /\ Cleared(controls) \in [sequence : 0..MaxSequence, revision : Nat, commands : Seq(Commands)]
  BY ClearedFacts
<1>2. PCTypeOK'
  BY <1>1, PlayerControlAssumption DEF PCTypeOK, ChangeProgram, Programs, pageVars
<1>3. QueueNamesProgram'
  BY <1>1 DEF QueueNamesProgram, ChangeProgram
<1>4. DOMAIN Queue' = {}
  BY <1>1 DEF ChangeProgram, Queue
<1>5. revision' > revision /\ reports' = reports /\ revision \in Nat
      /\ controls.sequence \in Nat /\ reports \in Nat
  BY PlayerControlAssumption DEF ChangeProgram, PCTypeOK
<1> QED BY <1>1, <1>2, <1>3, <1>4, <1>5, HostMoves DEF ChangeProgram

LEMMA CommitStep ==
  ASSUME PCInv, Commit \/ Report
  PROVE  PCInv'
<1> USE DEF PCInv
<1>1. PCTypeOK'
  <2>1. revision' \in Nat \ {0} /\ reports' \in Nat
    BY DEF PCTypeOK, Commit, Report
  <2>2. UNCHANGED <<program, controls, cached, frames, page, mounted, applied, acted, acks, handled>>
    BY DEF Commit, Report, pageVars
  <2> QED BY <2>1, <2>2 DEF PCTypeOK
<1>2. QueueNamesProgram' /\ Queue' = Queue
  BY DEF QueueNamesProgram, Commit, Report, Queue
<1>3. /\ revision' >= revision /\ reports' >= reports /\ controls' = controls
      /\ revision' # revision \/ reports' # reports
      /\ controls.sequence \in Nat /\ controls.revision \in Nat
  BY PlayerControlAssumption DEF Commit, Report, PCTypeOK
<1>4. UNCHANGED <<cached, frames, pageVars, acks, handled>>
  BY DEF Commit, Report
<1> QED BY <1>1, <1>2, <1>3, <1>4, HostMoves

LEMMA IssueStep ==
  ASSUME PCInv, NEW g \in 1..program.generation, NEW i \in Items, Issue(g, i)
  PROVE  PCInv'
<1> USE DEF PCInv
<1> DEFINE seq == controls.sequence + 1
           c == [seq |-> seq, generation |-> g, item |-> i]
<1>1. seq \in 1..MaxSequence /\ seq \in Nat /\ controls.sequence \in Nat
  BY PlayerControlAssumption DEF Issue, PCTypeOK
<1>2. c \in Commands
  BY <1>1 DEF Commands, PCTypeOK, Programs, Issue, Fits
<1>3. /\ controls'.sequence = seq
      /\ controls'.revision = controls.revision + 1
      /\ controls'.commands = Append(Queue, c)
      /\ controls' = [sequence |-> seq, revision |-> controls.revision + 1,
                      commands |-> Append(Queue, c)]
      /\ handled' = handled \ {seq}
      /\ UNCHANGED <<program, revision, reports, cached, frames, pageVars, acks>>
  BY DEF Issue, Queue
<1>4. Queue \in Seq(Commands) /\ Len(Queue) < QueueLimit /\ Len(Queue) \in Nat
  BY DEF PCTypeOK, Queue, Issue, Room
<1> HIDE DEF seq, c
<1>5. Append(Queue, c) \in Seq(Commands) /\ Len(Append(Queue, c)) = Len(Queue) + 1
  BY <1>2, <1>4
<1>6. PCTypeOK'
  BY <1>1, <1>3, <1>4, <1>5, PlayerControlAssumption DEF PCTypeOK, pageVars
<1>7. /\ DOMAIN Queue' = 1..(Len(Queue) + 1)
      /\ DOMAIN Queue = 1..Len(Queue)
      /\ \A k \in 1..Len(Queue) : Queue'[k] = Queue[k]
      /\ Queue'[Len(Queue) + 1] = c
  BY <1>2, <1>3, <1>4, <1>5 DEF Queue
<1>8. c.seq = seq /\ c.generation = program.generation /\ c.item = program.item
  BY DEF c, Issue, Fits
<1>9. \A k \in DOMAIN Queue : Queue[k].seq \in Nat /\ Queue[k].seq <= controls.sequence
  BY <1>4, SeqsOfCommands DEF QueueNamesProgram, Queue
<1>10. QueueNamesProgram'
  <2>1. \A k \in DOMAIN Queue' :
          /\ Queue'[k].generation = program.generation
          /\ Queue'[k].item = program.item
          /\ Queue'[k].seq <= seq
    BY <1>1, <1>4, <1>7, <1>8, <1>9 DEF QueueNamesProgram, Queue, seq
  <2>2. \A j, k \in DOMAIN Queue' : j < k => Queue'[j].seq < Queue'[k].seq
    <3> SUFFICES ASSUME NEW j \in DOMAIN Queue', NEW k \in DOMAIN Queue', j < k
                 PROVE  Queue'[j].seq < Queue'[k].seq
      OBVIOUS
    <3>1. j \in DOMAIN Queue
      BY <1>4, <1>7
    <3>2. CASE k \in DOMAIN Queue
      BY <3>1, <3>2, <1>7 DEF QueueNamesProgram, Queue
    <3>3. CASE k = Len(Queue) + 1
      BY <3>1, <3>3, <1>1, <1>7, <1>8, <1>9 DEF seq
    <3> QED BY <3>2, <3>3, <1>4, <1>7
  <2> QED BY <2>1, <2>2, <1>3 DEF QueueNamesProgram, Queue
<1>11. \A k \in DOMAIN Queue' : \/ \E j \in DOMAIN Queue : Queue'[k].seq = Queue[j].seq
                                \/ Queue'[k].seq > controls.sequence
  <2> SUFFICES ASSUME NEW k \in DOMAIN Queue'
               PROVE  \/ \E j \in DOMAIN Queue : Queue'[k].seq = Queue[j].seq
                      \/ Queue'[k].seq > controls.sequence
    OBVIOUS
  <2>1. CASE k \in DOMAIN Queue
    BY <2>1, <1>7
  <2>2. CASE k = Len(Queue) + 1
    BY <2>2, <1>1, <1>7, <1>8 DEF seq
  <2> QED BY <2>1, <2>2, <1>4, <1>7
<1>12. /\ controls'.revision > controls.revision /\ revision' = revision
       /\ reports' = reports /\ revision \in Nat /\ reports \in Nat
       /\ controls.revision \in Nat /\ controls'.sequence >= controls.sequence
  BY <1>1, <1>3 DEF PCTypeOK, seq
<1>13. \A s \in handled : s \in handled' \/ s > controls.sequence
  BY <1>1, <1>3 DEF seq
<1>14. UNCHANGED <<cached, frames, pageVars, acks>>
  BY <1>3
<1>15. /\ revision' >= revision /\ reports' >= reports /\ controls'.revision >= controls.revision
       /\ ~ (revision' = revision /\ reports' = reports /\ controls'.revision = controls.revision)
  BY <1>12, <1>3 DEF PCTypeOK
<1>16. \A s \in acks' : s \in acks
  BY <1>14
<1> QED BY <1>6, <1>10, <1>11, <1>12, <1>13, <1>14, <1>15, <1>16, HostMoves

\* An acknowledgement takes the head it names, or nothing.
LEMMA AckArrivesStep ==
  ASSUME PCInv, NEW n \in acks, AckArrives(n)
  PROVE  PCInv'
<1> USE DEF PCInv
<1>1. /\ controls' = Acknowledged(controls, n)
      /\ acks' \subseteq acks
      /\ UNCHANGED <<program, revision, reports, cached, frames, pageVars, handled>>
  BY DEF AckArrives
<1>2. CASE Queue # <<>> /\ Head(Queue).seq = n
  <2>1. controls' = [sequence |-> controls.sequence, revision |-> controls.revision + 1,
                     commands |-> Tail(Queue)]
    BY <1>1, <1>2 DEF Acknowledged, Queue
  <2>2. Queue \in Seq(Commands) /\ Len(Queue) \in Nat \ {0} /\ Len(Queue) <= QueueLimit
    BY <1>2 DEF PCTypeOK, Queue
  <2>3. /\ Queue' \in Seq(Commands) /\ Len(Queue') = Len(Queue) - 1
        /\ DOMAIN Queue' = 1..(Len(Queue) - 1) /\ DOMAIN Queue = 1..Len(Queue)
        /\ \A k \in DOMAIN Queue' : k + 1 \in DOMAIN Queue /\ Queue'[k] = Queue[k + 1]
    BY <1>2, <2>1, <2>2 DEF Queue
  <2>4. /\ controls'.sequence = controls.sequence
        /\ controls'.revision = controls.revision + 1
        /\ controls'.commands = Queue'
        /\ controls' \in [sequence : 0..MaxSequence, revision : Nat, commands : Seq(Commands)]
    BY <2>1, <2>3 DEF PCTypeOK, Queue
  <2>5. PCTypeOK'
    BY <1>1, <2>2, <2>3, <2>4, PlayerControlAssumption DEF PCTypeOK, pageVars
  <2>6. QueueNamesProgram'
    <3>1. \A k \in DOMAIN Queue' :
            /\ Queue'[k].generation = program.generation
            /\ Queue'[k].item = program.item
            /\ Queue'[k].seq <= controls.sequence
      BY <2>3 DEF QueueNamesProgram, Queue
    <3>2. \A j, k \in DOMAIN Queue' : j < k => Queue'[j].seq < Queue'[k].seq
      <4> SUFFICES ASSUME NEW j \in DOMAIN Queue', NEW k \in DOMAIN Queue', j < k
                   PROVE  Queue'[j].seq < Queue'[k].seq
        OBVIOUS
      <4>1. j + 1 \in DOMAIN Queue /\ k + 1 \in DOMAIN Queue /\ j + 1 < k + 1
        BY <2>2, <2>3
      <4>2. Queue[j + 1].seq < Queue[k + 1].seq
        BY <4>1 DEF QueueNamesProgram, Queue
      <4> QED BY <4>2, <2>3
    <3> QED BY <3>1, <3>2, <1>1, <2>4 DEF QueueNamesProgram
  <2>7. \A k \in DOMAIN Queue' : \E j \in DOMAIN Queue : Queue'[k].seq = Queue[j].seq
    BY <2>3
  <2>8. /\ revision \in Nat /\ reports \in Nat /\ controls.revision \in Nat
        /\ controls.sequence \in Nat
    BY PlayerControlAssumption DEF PCTypeOK
  <2>9. /\ revision' >= revision /\ reports' >= reports
        /\ controls'.revision >= controls.revision
        /\ controls'.revision # controls.revision
        /\ controls'.sequence >= controls.sequence
    BY <1>1, <2>4, <2>8
  <2>10. UNCHANGED <<cached, frames, pageVars>> /\ handled' = handled
    BY <1>1
  <2> QED BY <1>1, <2>5, <2>6, <2>7, <2>9, <2>10, HostMoves
<1>3. CASE ~ (Queue # <<>> /\ Head(Queue).seq = n)
  <2>1. UNCHANGED <<controls, hostVars, Queue>>
    BY <1>1, <1>3 DEF Acknowledged, Queue, hostVars
  <2>2. PCTypeOK'
    BY <1>1, <2>1 DEF PCTypeOK, pageVars
  <2>3. Handled' /\ ActedBehind'
    BY <1>1, <2>1 DEF Handled, ActedBehind, ActsOnceInOrder, pageVars
  <2>4. Known' = Known
    BY <1>1 DEF Known, pageVars
  <2> QED BY <2>1, <2>2, <2>3, <2>4, ViewMoves
<1> QED BY <1>2, <1>3

LEMMA ReinitializeStep ==
  ASSUME PCInv, Reinitialize
  PROVE  PCInv'
<1> USE DEF PCInv
<1>1. /\ Cleared(controls).commands = <<>>
      /\ Cleared(controls).sequence = controls.sequence
      /\ Cleared(controls) \in [sequence : 0..MaxSequence, revision : Nat, commands : Seq(Commands)]
  BY ClearedFacts
<1>2. PCTypeOK'
  <2>1. /\ program' \in Programs /\ revision' \in Nat \ {0} /\ reports' \in Nat
        /\ mounted' \in 0..MaxGeneration /\ applied' \in 0..MaxSequence
        /\ acted' \in Seq(1..MaxSequence)
    BY PlayerControlAssumption DEF Reinitialize, Programs
  <2>2. controls' \in [sequence : 0..MaxSequence, revision : Nat, commands : Seq(Commands)]
        /\ Len(controls'.commands) <= QueueLimit
    BY <1>1, PlayerControlAssumption DEF Reinitialize
  <2> QED BY <2>1, <2>2 DEF PCTypeOK, Reinitialize
<1>3. DOMAIN controls'.commands = {} /\ controls'.sequence = controls.sequence
  BY <1>1 DEF Reinitialize
<1>4. QueueNamesProgram'
  BY <1>3 DEF QueueNamesProgram
<1>5. Known' = {NoFrame}
  BY DEF Reinitialize, Known
<1>6. FramesBehind' /\ HeadsBehind'
  <2>1. revision' = 1 /\ reports' \in Nat /\ controls'.revision \in Nat
    BY <1>2 DEF Reinitialize, PCTypeOK
  <2> QED BY <1>5, <2>1 DEF FramesBehind, HeadsBehind, Present, NoFrame
<1>7. Handled'
  <2>1. controls.sequence \in Nat /\ applied' = 0 /\ acks' = acks
    BY PlayerControlAssumption DEF PCTypeOK, Reinitialize
  <2> QED BY <1>3, <2>1 DEF Handled, Queue
<1>8. ActedBehind'
  BY DEF Reinitialize, ActedBehind, ActsOnceInOrder
<1> QED BY <1>2, <1>4, <1>6, <1>7, <1>8

LEMMA DeliveryStep ==
  ASSUME PCInv,
         \/ Serve \/ Reload \/ Mount
         \/ \E f \in frames : FrameArrives(f) \/ FrameLost(f)
         \/ \E s \in acks : AckLost(s)
  PROVE  PCInv'
<1> USE DEF PCInv
<1>1. UNCHANGED <<hostVars, handled>> /\ acks' \subseteq acks
  BY DEF Serve, Reload, Mount, FrameArrives, FrameLost, AckLost
<1>2. \A f \in Known' : f \in Known \cup {Snapshot, NoFrame}
  BY DEF Serve, Reload, Mount, FrameArrives, FrameLost, AckLost, Known, pageVars
<1>3. applied' \in {applied, 0} /\ ((acted' = acted /\ applied' = applied) \/ acted' = <<>>)
  BY DEF Serve, Reload, Mount, FrameArrives, FrameLost, AckLost, pageVars
<1>4. PCTypeOK'
  <2>1. Snapshot \in Frames
    BY SnapshotType
  <2>2. /\ cached' \in Frames \cup {NoFrame} /\ frames' \in SUBSET Frames
        /\ page' \in Frames \cup {NoFrame}
    <3>1. cached' \in Frames \cup {NoFrame}
      BY <2>1 DEF PCTypeOK, Serve, Reload, Mount, FrameArrives, FrameLost, AckLost
    <3>2. page' \in Frames \cup {NoFrame}
      BY DEF PCTypeOK, Serve, Reload, Mount, FrameArrives, FrameLost, AckLost, pageVars
    <3>3. CASE Serve
      <4>1. cached' # NoFrame
        BY <3>3 DEF Serve, Snapshot, NoFrame, Sum, PCTypeOK
      <4> QED BY <3>1, <3>2, <3>3, <4>1 DEF Serve, PCTypeOK
    <3>4. CASE ~Serve
      BY <3>1, <3>2, <3>4 DEF PCTypeOK, Reload, Mount, FrameArrives, FrameLost, AckLost
    <3> QED BY <3>3, <3>4
  <2>3. mounted' \in 0..MaxGeneration
    <3>1. page # NoFrame => page.program.generation \in 0..MaxGeneration
      BY PlayerControlAssumption DEF PCTypeOK, Frames, Programs
    <3> QED BY <3>1, PlayerControlAssumption
        DEF PCTypeOK, Serve, Reload, Mount, FrameArrives, FrameLost, AckLost, pageVars
  <2>4. applied' \in 0..MaxSequence
    BY <1>3, PlayerControlAssumption DEF PCTypeOK
  <2>5. acted' \in Seq(1..MaxSequence)
    <3>1. <<>> \in Seq(1..MaxSequence)
      OBVIOUS
    <3> QED BY <3>1, <1>3 DEF PCTypeOK
  <2>6. acks' \in SUBSET (1..MaxSequence)
    BY <1>1 DEF PCTypeOK
  <2> QED BY <1>1, <2>2, <2>3, <2>4, <2>5, <2>6 DEF PCTypeOK, hostVars
<1>5. Handled'
  <2>1. controls.sequence \in Nat /\ applied \in Nat /\ Queue' = Queue
        /\ controls' = controls
    BY <1>1, PlayerControlAssumption DEF PCTypeOK, Queue, hostVars
  <2>2. \A k \in DOMAIN Queue : Queue[k].seq \in Nat
    BY SeqsOfCommands DEF PCTypeOK, Queue
  <2> QED BY <1>1, <1>3, <2>1, <2>2 DEF Handled
<1>6. ActedBehind'
  BY <1>3 DEF ActedBehind, ActsOnceInOrder
<1> QED BY <1>1, <1>2, <1>4, <1>5, <1>6, ViewMoves

LEMMA HandleStep ==
  ASSUME PCInv, AckAgain \/ Handle
  PROVE  PCInv'
<1> USE DEF PCInv
<1> DEFINE seq == Seen.seq
<1>1. /\ page \in Known /\ page.head # <<>> /\ seq = page.head[1].seq
      /\ UNCHANGED <<hostVars, cached, frames, page, mounted>>
      /\ acks' = acks \cup {seq}
  BY DEF AckAgain, Handle, Known, Seen, Repeated, pageVars
<1>2. seq \in 1..MaxSequence /\ seq \in Nat
  BY <1>1, FramesOfKnown
<1>3. seq <= controls.sequence /\ \A k \in DOMAIN Queue : seq <= Queue[k].seq
  BY <1>1 DEF HeadsBehind
<1>4. \/ applied' = applied /\ acted' = acted /\ handled' = handled /\ seq <= applied
      \/ /\ applied' = seq /\ ~ (seq <= applied) /\ handled' = handled \cup {seq}
         /\ acted' = acted \/ acted' = Append(acted, seq)
  BY <1>1 DEF AckAgain, Handle, Repeated, pageVars
<1> HIDE DEF seq
<1>5. /\ applied \in Nat /\ controls.sequence \in Nat /\ acted \in Seq(1..MaxSequence)
      /\ \A k \in DOMAIN Queue : Queue[k].seq \in Nat
  BY SeqsOfCommands, PlayerControlAssumption DEF PCTypeOK, Queue
<1>6. UNCHANGED <<controls, Queue>>
  BY <1>1 DEF hostVars, Queue
<1>7. PCTypeOK'
  <2>1. applied' \in 0..MaxSequence
    BY <1>2, <1>4 DEF PCTypeOK
  <2>2. handled' \in SUBSET (1..MaxSequence)
    BY <1>2, <1>4 DEF PCTypeOK
  <2>3. acks' \in SUBSET (1..MaxSequence)
    BY <1>1, <1>2 DEF PCTypeOK
  <2>4. acted' \in Seq(1..MaxSequence)
    <3>1. Append(acted, seq) \in Seq(1..MaxSequence)
      BY <1>2, <1>5
    <3> QED BY <3>1, <1>4, <1>5
  <2> QED BY <1>1, <2>1, <2>2, <2>3, <2>4 DEF PCTypeOK, hostVars
<1>8. Handled'
  <2>1. applied' <= controls.sequence
    BY <1>3, <1>4 DEF Handled
  <2>2. \A s \in acks' : s <= controls.sequence
    BY <1>1, <1>3 DEF Handled
  <2>3. \A k \in DOMAIN Queue :
          Queue[k].seq \in acks' \/ Queue[k].seq <= applied' => Queue[k].seq \in handled'
    <3> SUFFICES ASSUME NEW k \in DOMAIN Queue,
                        Queue[k].seq \in acks' \/ Queue[k].seq <= applied'
                 PROVE  Queue[k].seq \in handled'
      OBVIOUS
    <3>1. CASE Queue[k].seq = seq
      BY <3>1, <1>2, <1>4, <1>5 DEF Handled
    <3>2. CASE Queue[k].seq # seq
      <4>1. Queue[k].seq \in acks \/ Queue[k].seq <= applied
        BY <3>2, <1>1, <1>2, <1>3, <1>4, <1>5
      <4> QED BY <4>1, <1>4 DEF Handled
    <3> QED BY <3>1, <3>2
  <2> QED BY <1>6, <2>1, <2>2, <2>3 DEF Handled
<1>9. ActedBehind'
  <2>1. CASE acted' = acted
    <3>1. \A j \in DOMAIN acted : acted[j] \in Nat
      BY <1>5, PlayerControlAssumption
    <3> QED BY <2>1, <3>1, <1>2, <1>4, <1>5 DEF ActedBehind, ActsOnceInOrder
  <2>2. CASE acted' = Append(acted, seq) /\ applied' = seq /\ ~ (seq <= applied)
    <3>1. /\ Len(acted) \in Nat /\ DOMAIN acted = 1..Len(acted)
          /\ DOMAIN acted' = 1..(Len(acted) + 1)
          /\ \A j \in 1..Len(acted) : acted'[j] = acted[j] /\ acted[j] \in Nat
          /\ acted'[Len(acted) + 1] = seq
      BY <2>2, <1>2, <1>5, PlayerControlAssumption
    <3>2. \A j \in 1..Len(acted) : acted'[j] < seq
      BY <3>1, <2>2, <1>2, <1>5 DEF ActedBehind
    <3>3. \A j \in DOMAIN acted' : acted'[j] <= seq
      BY <3>1, <3>2, <1>2
    <3>4. \A j, k \in DOMAIN acted' : j < k => acted'[j] < acted'[k]
      BY <3>1, <3>2 DEF ActedBehind, ActsOnceInOrder
    <3> QED BY <2>2, <3>3, <3>4 DEF ActedBehind, ActsOnceInOrder
  <2> QED BY <2>1, <2>2, <1>4
<1>10. \A f \in Known' : f \in Known
  BY <1>1 DEF Known
<1> QED BY <1>1, <1>7, <1>8, <1>9, <1>10, ViewMoves

LEMMA StepHolds == PCInv /\ [PCNext]_pcVars => PCInv'
<1> SUFFICES ASSUME PCInv, [PCNext]_pcVars PROVE PCInv'
  OBVIOUS
<1>1. CASE \E i \in Items \cup {NoItem} : ChangeProgram(i)
  BY <1>1, ChangeProgramStep
<1>2. CASE Commit \/ Report
  BY <1>2, CommitStep
<1>3. CASE \E g \in 1..program.generation, i \in Items : Issue(g, i)
  BY <1>3, IssueStep
<1>4. CASE \E s \in acks : AckArrives(s)
  BY <1>4, AckArrivesStep
<1>5. CASE Reinitialize
  BY <1>5, ReinitializeStep
<1>6. CASE \/ Serve \/ Reload \/ Mount
           \/ \E f \in frames : FrameArrives(f) \/ FrameLost(f)
           \/ \E s \in acks : AckLost(s)
  BY <1>6, DeliveryStep
<1>7. CASE AckAgain \/ Handle
  BY <1>7, HandleStep
<1>8. CASE UNCHANGED pcVars
  BY <1>8 DEF pcVars, hostVars, pageVars, PCInv, PCTypeOK, QueueNamesProgram, FramesBehind,
       HeadsBehind, Handled, ActedBehind, ActsOnceInOrder, Known, Present, Queue, Snapshot
<1> QED BY <1>1, <1>2, <1>3, <1>4, <1>5, <1>6, <1>7, <1>8 DEF PCNext

\* The inductive invariant holds throughout.
LEMMA Invariance == PCSpec => []PCInv
<1> QED BY InitHolds, StepHolds, PTL DEF PCSpec

\* PlayerControls, the frames and the page keep their types and the queue its bound.
THEOREM TypesHold == PCSpec => []PCTypeOK
<1>1. PCInv => PCTypeOK
  BY DEF PCInv
<1> QED BY <1>1, Invariance, PTL

\* PlayerControls: every command in the queue is for the program that is playing.
THEOREM QueueIsCurrent == PCSpec => []QueueNamesProgram
<1>1. PCInv => QueueNamesProgram
  BY DEF PCInv
<1> QED BY <1>1, Invariance, PTL

\* applyRemotePlayerControl: a page acts once on a command, and in their order.
THEOREM ActionsInOrder == PCSpec => []ActsOnceInOrder
<1>1. PCInv => ActsOnceInOrder
  BY DEF PCInv, ActedBehind
<1> QED BY <1>1, Invariance, PTL

\* native_sse_frame, acceptHostStateSnapshot: the sum of the three revisions names
\* one state of the Host.
THEOREM SumsNameStates == PCSpec => []RevisionNamesState
<1>1. PCInv => RevisionNamesState
  <2> SUFFICES ASSUME PCInv, NEW f \in Known, Sum(f) = Sum(Snapshot)
               PROVE  f = Snapshot
    BY DEF RevisionNamesState, Known
  <2> USE DEF PCInv
  <2>1. /\ f.revision \in Nat /\ f.reports \in Nat /\ f.controls \in Nat
        /\ revision \in Nat /\ reports \in Nat /\ controls.revision \in Nat
    BY FramesOfKnown DEF PCTypeOK
  <2>2. /\ f.revision <= revision /\ f.reports <= reports /\ f.controls <= controls.revision
    BY DEF FramesBehind
  <2>3. f.revision + f.reports + f.controls = revision + reports + controls.revision
    BY DEF Sum, Snapshot
  <2>4. Present(f)
    BY <2>1, <2>2, <2>3 DEF Present
  <2> QED BY <2>4 DEF FramesBehind
<1> QED BY <1>1, Invariance, PTL

\* acknowledge, clear: a command leaves the queue when a page has handled it or
\* its program is over.
THEOREM RemovalsAreHandled == PCSpec => RemovedWhenHandled
<1> DEFINE Kept ==
      \A k \in DOMAIN controls.commands :
        LET c == controls.commands[k] IN
          \/ \E j \in DOMAIN controls'.commands : controls'.commands[j] = c
          \/ c.seq \in handled
          \/ program' # program
<1>1. PCInv /\ [PCNext]_pcVars => [Kept]_pcVars
  <2> SUFFICES ASSUME PCInv, PCNext, NEW k \in DOMAIN controls.commands,
                      program' = program, controls.commands[k].seq \notin handled
               PROVE  \E j \in DOMAIN controls'.commands :
                        controls'.commands[j] = controls.commands[k]
    OBVIOUS
  <2> USE DEF PCInv
  <2>1. controls.commands \in Seq(Commands) /\ k \in 1..Len(controls.commands)
    BY DEF PCTypeOK
  <2>2. CASE \E g \in 1..program.generation, i \in Items : Issue(g, i)
    <3>1. PICK c \in [seq : {controls.sequence + 1}, generation : 1..program.generation, item : Items] :
            controls'.commands = Append(controls.commands, c)
      BY <2>2 DEF Issue
    <3> QED BY <2>1, <3>1
  <2>3. CASE \E s \in acks : AckArrives(s)
    <3>1. PICK s \in acks : AckArrives(s)
      BY <2>3
    <3>2. CASE Head(controls.commands).seq = s
      <4>1. controls.commands[1].seq = s /\ 1 \in DOMAIN Queue
        BY <2>1, <3>2 DEF Queue
      <4>2. controls.commands[1].seq \in handled
        BY <4>1 DEF Handled, Queue
      <4>3. k # 1
        BY <4>2
      <4>4. controls'.commands = Tail(controls.commands)
        BY <2>1, <3>1, <3>2 DEF AckArrives, Acknowledged
      <4>5. k - 1 \in DOMAIN Tail(controls.commands)
            /\ Tail(controls.commands)[k - 1] = controls.commands[k]
        BY <2>1, <4>3
      <4> QED BY <4>4, <4>5
    <3>3. CASE Head(controls.commands).seq # s
      BY <3>1, <3>3 DEF AckArrives, Acknowledged
    <3> QED BY <3>2, <3>3
  <2>4. CASE \E i \in Items \cup {NoItem} : ChangeProgram(i)
    BY <2>4 DEF ChangeProgram, PCTypeOK, Programs
  <2>5. CASE Reinitialize
    <3>1. k \in DOMAIN Queue /\ Queue[k].generation = 1 /\ Queue[k].item = NoItem
      BY <2>5 DEF Reinitialize, QueueNamesProgram, Queue
    <3>2. Queue[k].item \in Items
      BY <2>1, SeqsOfCommands DEF Queue, Commands
    <3> QED BY <3>1, <3>2, PlayerControlAssumption
  <2>6. CASE \/ Commit \/ Report \/ Serve \/ Reload \/ Mount \/ AckAgain \/ Handle
             \/ \E f \in frames : FrameArrives(f) \/ FrameLost(f)
             \/ \E s \in acks : AckLost(s)
    <3>1. controls' = controls
      BY <2>6 DEF Commit, Report, Serve, Reload, Mount, AckAgain, Handle, FrameArrives,
           FrameLost, AckLost, hostVars
    <3> QED BY <3>1
  <2> QED BY <2>2, <2>3, <2>4, <2>5, <2>6 DEF PCNext
<1> QED BY <1>1, Invariance, PTL DEF RemovedWhenHandled, PCSpec
=============================================================================
