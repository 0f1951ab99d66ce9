---------------------------- MODULE DurablePrefix ----------------------------
(***************************************************************************)
(* What the delivery side of the engine promises the source, with no trace *)
(* of batches, parallel writes or the dead-letter queue: events become     *)
(* handled (applied by the sink or safely dead-lettered) in any order, and *)
(* the watermark only ever rises to the mark of an event whose whole       *)
(* prefix of the stream is handled.  A source that confirms no more than   *)
(* the watermark can therefore crash at any time without losing an event.  *)
(***************************************************************************)
EXTENDS Integers

CONSTANTS
    NEvents,   \* length of the stream
    Mark,      \* Mark[e]: checkpoint position carried by event e, 0 for none
    Free       \* events that need no delivery (internal control events)

VARIABLES
    handled,   \* events that need not be delivered again
    progress   \* the watermark

dpVars == <<handled, progress>>

Init == handled = Free /\ progress = 0

Handle ==
    /\ \E S \in SUBSET (1..NEvents) : handled' = handled \cup S
    /\ UNCHANGED progress

Advance ==
    /\ \E j \in 1..NEvents :
         /\ 1..j \subseteq handled
         /\ Mark[j] > progress
         /\ progress' = Mark[j]
    /\ UNCHANGED handled

Next == Handle \/ Advance

Spec == Init /\ [][Next]_dpVars
==============================================================================
