--------------------------- MODULE PlayerControl ---------------------------
(***************************************************************************)
(* Remote commands for the player                                          *)
(* (rust-runtime/src/app_state/player_control.rs) and their way to the     *)
(* page that plays (static/app.js).                                        *)
(*                                                                         *)
(* The Host queues commands for the program it is playing and shows the    *)
(* head of the queue in its state.  Frames of that state reach the page    *)
(* late, out of order or not at all; the page handles the head it sees and *)
(* acknowledges it, and an acknowledgement may be lost, late or repeated.  *)
(*                                                                         *)
(* A frame carries the sum of three revisions: of the application state,   *)
(* of the native session and of the queue.  The page drops a frame that is *)
(* not newer than what it has, and the Host serves the last frame again    *)
(* while the sum has not changed.                                          *)
(***************************************************************************)
EXTENDS Naturals, Sequences, FiniteSets

CONSTANTS
  Items,        \* songs
  NoItem,
  QueueLimit,   \* 16 in the source
  MaxSequence,  \* MAX_SAFE_JSON_INTEGER in the source
  MaxGeneration, MaxRevision, MaxReports, MaxFrames  \* bounds of the model

ASSUME PlayerControlAssumption ==
  /\ NoItem \notin Items
  /\ QueueLimit \in Nat /\ MaxSequence \in Nat
  /\ MaxGeneration \in Nat \ {0}

VARIABLES
  program,    \* what the Host plays: generation and song
  revision,   \* of the application state
  reports,    \* revision of the native session
  controls,   \* the queue: its sequence, its revision, its commands
  cached,     \* the last frame served
  frames,     \* frames on their way to the page
  page,       \* the frame the page shows
  mounted,    \* the generation its player has mounted, 0 for none
  applied,    \* the last command it has handled
  acks,       \* acknowledgements on their way to the Host
  acted,      \* history: what this page has done, in order
  handled     \* history: commands that some page has handled

hostVars == <<program, revision, reports, controls>>
pageVars == <<page, mounted, applied, acted>>
pcVars == <<hostVars, cached, frames, pageVars, acks, handled>>

NoFrame == [revision |-> 0, reports |-> 0, controls |-> 0,
            program |-> [generation |-> 0, item |-> NoItem], head |-> <<>>]

Programs == [generation : 1..MaxGeneration, item : Items \cup {NoItem}]
Commands == [seq : 1..MaxSequence, generation : 1..MaxGeneration, item : Items]

\* At most one command
Heads == {<<>>} \cup {<<c>> : c \in Commands}

Frames == [revision : Nat, reports : Nat, controls : Nat, program : Programs, head : Heads]

PCTypeOK ==
  /\ program \in Programs
  /\ revision \in Nat \ {0} /\ reports \in Nat
  /\ controls \in [sequence : 0..MaxSequence, revision : Nat, commands : Seq(Commands)]
  /\ Len(controls.commands) <= QueueLimit
  /\ cached \in Frames \cup {NoFrame}
  /\ frames \in SUBSET Frames
  /\ page \in Frames \cup {NoFrame}
  /\ mounted \in 0..MaxGeneration
  /\ applied \in 0..MaxSequence
  /\ acks \in SUBSET (1..MaxSequence)
  /\ acted \in Seq(1..MaxSequence)
  /\ handled \in SUBSET (1..MaxSequence)

Head1(s) == IF s = <<>> THEN <<>> ELSE <<Head(s)>>

Sum(f) == f.revision + f.reports + f.controls

\* native_snapshot: what a frame says now
Snapshot ==
  [revision |-> revision, reports |-> reports, controls |-> controls.revision,
   program |-> program, head |-> Head1(controls.commands)]

PCInit ==
  /\ program = [generation |-> 1, item |-> NoItem]
  /\ revision = 1 /\ reports = 0
  /\ controls = [sequence |-> 0, revision |-> 0, commands |-> <<>>]
  /\ cached = NoFrame /\ frames = {}
  /\ page = NoFrame /\ mounted = 0 /\ applied = 0 /\ acted = <<>>
  /\ acks = {} /\ handled = {}

---------------------------------------------------------------------------
(* The Host                                                                *)

\* Fault: a cleared queue counts from the start
Cleared_CountsAgain(q) ==
  [sequence |-> 0, revision |-> q.revision + Len(Head1(q.commands)), commands |-> <<>>]

\* PlayerControls::clear
Cleared(q) ==
  [sequence |-> q.sequence, revision |-> q.revision + Len(Head1(q.commands)), commands |-> <<>>]

\* A commit that changes the program has its queue cleared
ChangeProgram(i) ==
  /\ program.generation < MaxGeneration /\ revision < MaxRevision
  /\ program' = [generation |-> program.generation + 1, item |-> i]
  /\ revision' = revision + 1
  /\ controls' = Cleared(controls)
  /\ UNCHANGED <<reports, cached, frames, pageVars, acks, handled>>

\* Any other commit
Commit ==
  /\ revision < MaxRevision
  /\ revision' = revision + 1
  /\ UNCHANGED <<program, reports, controls, cached, frames, pageVars, acks, handled>>

\* The native session moves on: a status report of the player
Report ==
  /\ reports < MaxReports
  /\ reports' = reports + 1
  /\ UNCHANGED <<program, revision, controls, cached, frames, pageVars, acks, handled>>

\* Fault: any command is taken that names the song
Fits_AnyGeneration(g, i) == i = program.item

\* It names the program that is playing
Fits(g, i) == g = program.generation /\ i = program.item

Room == Len(controls.commands) < QueueLimit

\* enqueue_player_control
Issue(g, i) ==
  /\ Fits(g, i)
  /\ Room
  /\ controls.sequence < MaxSequence
  /\ LET seq == controls.sequence + 1 IN
       /\ controls' = [sequence |-> seq, revision |-> controls.revision + 1,
                       commands |-> Append(controls.commands,
                                           [seq |-> seq, generation |-> g, item |-> i])]
       /\ handled' = handled \ {seq}
  /\ UNCHANGED <<program, revision, reports, cached, frames, pageVars, acks>>

\* Fault: the next command shows up under the old revision
Acknowledged_SameRevision(q, seq) ==
  IF q.commands # <<>> /\ Head(q.commands).seq = seq
    THEN [sequence |-> q.sequence, revision |-> q.revision, commands |-> Tail(q.commands)]
    ELSE q

\* PlayerControls::acknowledge
Acknowledged(q, seq) ==
  IF q.commands # <<>> /\ Head(q.commands).seq = seq
    THEN [sequence |-> q.sequence, revision |-> q.revision + 1, commands |-> Tail(q.commands)]
    ELSE q

\* It may come once more
AckArrives(seq) ==
  /\ seq \in acks
  /\ controls' = Acknowledged(controls, seq)
  /\ acks' \in {acks, acks \ {seq}}
  /\ UNCHANGED <<program, revision, reports, cached, frames, pageVars, handled>>

AckLost(seq) ==
  /\ seq \in acks
  /\ acks' = acks \ {seq}
  /\ UNCHANGED <<hostVars, cached, frames, pageVars, handled>>

\* native_sse_frame: the last frame again if nothing has changed
Serve ==
  /\ Cardinality(frames) < MaxFrames
  /\ cached' = IF Sum(cached) = Sum(Snapshot) THEN cached ELSE Snapshot
  /\ frames' = frames \cup {cached'}
  /\ UNCHANGED <<hostVars, pageVars, acks, handled>>

\* Shutdown and Initialize; the page and what was on its way to it are gone
Reinitialize ==
  /\ program' = [generation |-> 1, item |-> NoItem]
  /\ revision' = 1 /\ reports' = 0
  /\ controls' = Cleared(controls)
  /\ cached' = NoFrame /\ frames' = {}
  /\ page' = NoFrame /\ mounted' = 0 /\ applied' = 0 /\ acted' = <<>>
  /\ UNCHANGED <<acks, handled>>

---------------------------------------------------------------------------
(* The page                                                                *)

\* acceptHostStateSnapshot
Newer(f) ==
  /\ Sum(f) > Sum(page)
  /\ f.revision >= page.revision
  /\ f.program.generation >= page.program.generation
  /\ f.program.generation = page.program.generation => f.program = page.program
  /\ f.program.generation > page.program.generation => f.revision > page.revision

FrameArrives(f) ==
  /\ f \in frames
  /\ frames' = frames \ {f}
  /\ page' = IF Newer(f) THEN f ELSE page
  /\ UNCHANGED <<hostVars, cached, mounted, applied, acted, acks, handled>>

FrameLost(f) ==
  /\ f \in frames
  /\ frames' = frames \ {f}
  /\ UNCHANGED <<hostVars, cached, pageVars, acks, handled>>

Mount ==
  /\ page # NoFrame
  /\ mounted # page.program.generation
  /\ mounted' = page.program.generation
  /\ UNCHANGED <<hostVars, cached, frames, page, applied, acted, acks, handled>>

Seen == page.head[1]

\* Fault: the page takes every command it is shown
Repeated_Never == FALSE

\* The command it sees has been handled
Repeated == page.head # <<>> /\ Seen.seq <= applied

\* The mounted player plays the program that the command is for
Exact ==
  /\ Seen.generation = page.program.generation
  /\ Seen.item = page.program.item
  /\ mounted = page.program.generation


\* The prior answer may have been lost: acknowledge again, never act again
AckAgain ==
  /\ Repeated
  /\ Seen.seq \notin acks
  /\ acks' = acks \cup {Seen.seq}
  /\ UNCHANGED <<hostVars, cached, frames, pageVars, handled>>

\* applyRemotePlayerControl; a seek on a pair that is not bound yet stays at the head
Handle ==
  /\ page.head # <<>> /\ ~Repeated
  /\ acted' = IF Exact THEN Append(acted, Seen.seq) ELSE acted
  /\ applied' = Seen.seq
  /\ acks' = acks \cup {Seen.seq}
  /\ handled' = handled \cup {Seen.seq}
  /\ UNCHANGED <<hostVars, cached, frames, page, mounted>>

Reload ==
  /\ page # NoFrame
  /\ page' = NoFrame /\ mounted' = 0 /\ applied' = 0 /\ acted' = <<>>
  /\ frames' = {}
  /\ UNCHANGED <<hostVars, cached, acks, handled>>

---------------------------------------------------------------------------
PCNext ==
  \/ \E i \in Items \cup {NoItem} : ChangeProgram(i)
  \/ Commit \/ Report
  \/ \E g \in 1..program.generation, i \in Items : Issue(g, i)
  \/ \E s \in acks : AckArrives(s)
  \/ \E s \in acks : AckLost(s)
  \/ Serve
  \/ Reinitialize
  \/ \E f \in frames : FrameArrives(f)
  \/ \E f \in frames : FrameLost(f)
  \/ Mount \/ AckAgain \/ Handle \/ Reload

PCSpec == PCInit /\ [][PCNext]_pcVars

\* Frames and acknowledgements that are sent again and again get through, the
\* page renders, and it is not reloaded for ever
PCFairness ==
  /\ WF_pcVars(Serve)
  /\ WF_pcVars(\E f \in frames : FrameArrives(f) \/ FrameLost(f))
  /\ SF_pcVars(\E f \in frames : f = Snapshot /\ FrameArrives(f))
  /\ WF_pcVars(AckAgain)
  /\ SF_pcVars(Handle)
  /\ SF_pcVars(controls.commands # <<>> /\ AckArrives(Head(controls.commands).seq))

PCFairSpec == PCSpec /\ PCFairness

---------------------------------------------------------------------------
(* Properties                                                              *)

\* Every command in the queue is for the program that is playing, in the order of
\* their numbers: none is left that would pause or skip the next song.
QueueNamesProgram ==
  /\ \A k \in DOMAIN controls.commands :
       /\ controls.commands[k].generation = program.generation
       /\ controls.commands[k].item = program.item
       /\ controls.commands[k].seq <= controls.sequence
  /\ \A j, k \in DOMAIN controls.commands :
       j < k => controls.commands[j].seq < controls.commands[k].seq

\* Two states of the Host never share the sum of revisions: a frame that carries
\* the present sum, kept by the Host, on its way or shown by the page, shows the
\* present state (native_sse_frame and acceptHostStateSnapshot rely on it).
RevisionNamesState ==
  \A f \in frames \cup {cached, page} : Sum(f) = Sum(Snapshot) => f = Snapshot

\* A page acts on a command once at most, and on commands in the order they were
\* given, however frames are delayed, reordered and repeated.
ActsOnceInOrder ==
  \A j, k \in DOMAIN acted : j < k => acted[j] < acted[k]

\* A command leaves the queue because a page has handled it, or because the
\* program it was for is over; a late acknowledgement never takes a newer one.
RemovedWhenHandled ==
  [][\A k \in DOMAIN controls.commands :
       LET c == controls.commands[k] IN
         \/ \E j \in DOMAIN controls'.commands : controls'.commands[j] = c
         \/ c.seq \in handled
         \/ program' # program]_pcVars

=============================================================================
