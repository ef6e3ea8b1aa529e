--------------------------- MODULE DurableState ---------------------------
(***************************************************************************)
(* What native storage promises to the application and to its users        *)
(* (rust-runtime/src/native_host_storage.rs, native_persistence.rs).       *)
(*                                                                         *)
(* There is one saved library.  A running application only ever shows what *)
(* has been saved for good; a start shows the library as it was saved and  *)
(* makes up an empty one only where there is none; an interruption leaves  *)
(* the library as it was before or after the change that was under way.    *)
(***************************************************************************)
CONSTANTS
  States, Initial, None,
  Foreign,  \* libraries of older programs, which only the import tool reads
  Imports   \* what the import tool may install

VARIABLES
  disk,     \* the library that a start would find
  settled,  \* the library that is left when the power fails
  memory    \* what the application shows; None: it is not running

dsVars == <<disk, settled, memory>>

DSInit ==
  /\ disk \in States \cup Foreign \cup {None}
  /\ settled = disk
  /\ memory = None

\* A change that the application makes, or the first save of a start
Save ==
  /\ disk' \in States
  /\ memory = None => disk' = IF disk = None THEN Initial ELSE disk
  /\ settled = disk
  /\ UNCHANGED <<settled, memory>>

Settle ==
  /\ settled' = disk
  /\ UNCHANGED <<disk, memory>>

\* Only what is saved for good is shown
Show ==
  /\ disk # None /\ settled = disk
  /\ memory' = disk
  /\ UNCHANGED <<disk, settled>>

Stop ==
  /\ memory' = None
  /\ UNCHANGED <<disk, settled>>

PowerFails ==
  /\ memory' = None
  /\ disk' = settled
  /\ UNCHANGED settled

\* The import tool replaces the library at one stroke, while no application runs
Replace ==
  /\ memory = None
  /\ disk' \in Imports
  /\ settled' = disk'
  /\ UNCHANGED memory

DSNext == Save \/ Settle \/ Show \/ Stop \/ PowerFails \/ Replace

DSSpec == DSInit /\ [][DSNext]_dsVars
=============================================================================
