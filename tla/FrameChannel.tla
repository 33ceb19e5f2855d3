----------------------------- MODULE FrameChannel -----------------------------
(***************************************************************************)
(* What a TelemetryReceiver promises its one producer and its one          *)
(* consumer: a first-in-first-out channel for at most Room frames in which *)
(* no accepted frame is lost, duplicated, reordered or altered, and in     *)
(* which a frame is refused, and counted, only when every place is either  *)
(* occupied or was vacated so recently that the producer cannot know yet.  *)
(***************************************************************************)
EXTENDS Naturals, Sequences

CONSTANTS
  Frame,        \* the telemetry frames
  NoFrame,      \* an empty slot, or "nothing delivered yet"
  Room,         \* how many frames fit
  DropModulus   \* the drop counter counts modulo this

VARIABLES
  queue,        \* the frames accepted and not delivered, oldest first
  vacated,      \* places freed by the consumer, not yet seen by the producer
  delivered,    \* the last frame handed to the consumer
  dropped       \* frames refused

vars == <<queue, vacated, delivered, dropped>>

Init ==
  /\ queue = << >>
  /\ vacated = 0
  /\ delivered = NoFrame
  /\ dropped = 0

\* The producer learns of some of the vacated places.
Notice ==
  /\ vacated' \in 0 .. vacated
  /\ UNCHANGED <<queue, delivered, dropped>>

\* A frame is accepted.
Accept(f) ==
  /\ Len(queue) + vacated < Room
  /\ queue' = Append(queue, f)
  /\ UNCHANGED <<vacated, delivered, dropped>>

\* A frame is refused: as far as the producer can know, the channel is full.
Refuse ==
  /\ vacated' \in 0 .. vacated
  /\ Len(queue) + vacated' = Room
  /\ dropped' = (dropped + 1) % DropModulus
  /\ UNCHANGED <<queue, delivered>>

\* The oldest frame is delivered.
Deliver ==
  /\ queue # << >>
  /\ queue' = Tail(queue)
  /\ delivered' = Head(queue)
  /\ vacated' = vacated + 1
  /\ UNCHANGED dropped

Next ==
  \/ Notice
  \/ \E f \in Frame : Accept(f)
  \/ Refuse
  \/ Deliver

Spec == Init /\ [][Next]_vars
===============================================================================
