-------------------------- MODULE TelemetryReceiver --------------------------
(***************************************************************************)
(* TelemetryReceiver (src/TelemetryReceiver.cpp): the lock-free ring       *)
(* between the telemetry producer thread, which calls push(), and the main *)
(* thread, which calls pop().  Every atomic access and every access to a   *)
(* slot is a step of its own.                                              *)
(*                                                                         *)
(* The model keeps the C++ memory order.  An acquire load of the other     *)
(* thread's index may return any value that index has had since the last   *)
(* one this thread saw (headSeen, tailSeen).  The ghost variable owner     *)
(* follows the happens-before order: a release store hands the slot over,  *)
(* the acquire load that observes the store takes it.                      *)
(***************************************************************************)
EXTENDS Integers, Sequences

CONSTANTS
  Frame,        \* the telemetry frames
  NoFrame,      \* a default-constructed or moved-from frame
  CAPACITY,     \* slots of the ring (1024)
  DropModulus   \* dropped_ counts modulo this (2^64)

ASSUME CapacityAssumption == CAPACITY \in Nat /\ CAPACITY >= 2
ASSUME FrameAssumption == NoFrame \notin Frame
ASSUME DropAssumption == DropModulus \in Nat \ {0}

VARIABLES
  buf,          \* buf_
  head,         \* head_, written by the consumer
  tail,         \* tail_, written by the producer
  dropped,      \* dropped_
  headSeen,     \* the last value of head_ the producer loaded
  tailSeen,     \* the last value of tail_ the consumer loaded
  ppc, item,    \* where push() is, and its argument
  cpc, taken,   \* where pop() is, and the frame it has moved out
  out,          \* the frame of the last pop() that returned true
  owner         \* ghost: which thread may access each slot without a race

vars == <<buf, head, tail, dropped, headSeen, tailSeen,
          ppc, item, cpc, taken, out, owner>>

Slot == 0 .. CAPACITY - 1

\* How far index j is ahead of index i on the ring.
Distance(i, j) == IF i <= j THEN j - i ELSE j - i + CAPACITY

\* The slots from i up to, and not including, j.
Span(i, j) == {s \in Slot : Distance(i, s) < Distance(i, j)}

\* The values an acquire load may return: those the index has had since seen.
Observable(seen, now) == {s \in Slot : Distance(seen, s) <= Distance(seen, now)}

\* Mutant: the index does not wrap.
SuccNoWrap(i) == i + 1

\* (i + 1) % CAPACITY
Succ(i) == (i + 1) % CAPACITY

TypeOK ==
  /\ buf \in [Slot -> Frame \cup {NoFrame}]
  /\ {head, tail, headSeen, tailSeen} \subseteq Slot
  /\ dropped \in 0 .. DropModulus - 1
  /\ ppc \in {"idle", "write", "publish"}
  /\ cpc \in {"idle", "read", "advance"}
  /\ {item, taken, out} \subseteq Frame \cup {NoFrame}
  /\ owner \in [Slot -> {"producer", "toConsumer", "consumer", "toProducer"}]

Init ==
  /\ buf = [s \in Slot |-> NoFrame]
  /\ head = 0 /\ tail = 0 /\ headSeen = 0 /\ tailSeen = 0
  /\ dropped = 0
  /\ ppc = "idle" /\ item = NoFrame
  /\ cpc = "idle" /\ taken = NoFrame
  /\ out = NoFrame
  /\ owner = [s \in Slot |-> "producer"]

-------------------------------------------------------------------------------
(* push(): called by the producer thread only *)

\* Mutant: the load does not acquire.
LoadHeadRelaxed(h) ==
  /\ h \in Observable(headSeen, head)
  /\ headSeen' = h
  /\ UNCHANGED owner

\* head_.load(acquire) returns h: what the consumer did before storing h is seen.
LoadHead(h) ==
  /\ h \in Observable(headSeen, head)
  /\ headSeen' = h
  /\ owner' = [s \in Slot |-> IF s \in Span(headSeen, h) THEN "producer" ELSE owner[s]]

\* The ring looks full: the frame is dropped and counted.
PushFull ==
  /\ ppc = "idle"
  /\ \E h \in Slot : LoadHead(h) /\ Succ(tail) = h
  /\ dropped' = (dropped + 1) % DropModulus
  /\ UNCHANGED <<buf, head, tail, tailSeen, ppc, item, cpc, taken, out>>

\* Mutant: a full ring is written to.
PushBeginUnchecked(f) ==
  /\ ppc = "idle"
  /\ \E h \in Slot : LoadHead(h)
  /\ ppc' = "write" /\ item' = f
  /\ UNCHANGED <<buf, head, tail, dropped, tailSeen, cpc, taken, out>>

\* The ring has room for f.
PushBegin(f) ==
  /\ ppc = "idle"
  /\ \E h \in Slot : LoadHead(h) /\ Succ(tail) # h
  /\ ppc' = "write" /\ item' = f
  /\ UNCHANGED <<buf, head, tail, dropped, tailSeen, cpc, taken, out>>

\* buf_[tail] = std::move(frame)
PushWrite ==
  /\ ppc = "write"
  /\ buf' = [buf EXCEPT ![tail] = item]
  /\ ppc' = "publish"
  /\ UNCHANGED <<head, tail, dropped, headSeen, tailSeen, item, cpc, taken, out, owner>>

\* tail_.store(next, release)
PushPublish ==
  /\ ppc = "publish"
  /\ tail' = Succ(tail)
  /\ owner' = [owner EXCEPT ![tail] = "toConsumer"]
  /\ ppc' = "idle"
  /\ UNCHANGED <<buf, head, dropped, headSeen, tailSeen, item, cpc, taken, out>>

-------------------------------------------------------------------------------
(* pop(): called by the main thread only *)

\* Mutant: the tail is read once and kept.
LoadTailOnce(t) ==
  /\ t = tailSeen
  /\ tailSeen' = t
  /\ UNCHANGED owner

\* tail_.load(acquire) returns t: the frames published before t are seen.
LoadTail(t) ==
  /\ t \in Observable(tailSeen, tail)
  /\ tailSeen' = t
  /\ owner' = [s \in Slot |-> IF s \in Span(tailSeen, t) THEN "consumer" ELSE owner[s]]

\* The ring looks empty: pop() returns false.
PopEmpty ==
  /\ cpc = "idle"
  /\ \E t \in Slot : LoadTail(t) /\ head = t
  /\ UNCHANGED <<buf, head, tail, dropped, headSeen, ppc, item, cpc, taken, out>>

\* There is a frame at head.
PopBegin ==
  /\ cpc = "idle"
  /\ \E t \in Slot : LoadTail(t) /\ head # t
  /\ cpc' = "read"
  /\ UNCHANGED <<buf, head, tail, dropped, headSeen, ppc, item, taken, out>>

\* out = std::move(buf_[head]): the slot is left moved-from.
PopRead ==
  /\ cpc = "read"
  /\ taken' = buf[head]
  /\ buf' = [buf EXCEPT ![head] = NoFrame]
  /\ cpc' = "advance"
  /\ UNCHANGED <<head, tail, dropped, headSeen, tailSeen, ppc, item, out, owner>>

\* head_.store((head + 1) % CAPACITY, release); pop() returns true.
PopAdvance ==
  /\ cpc = "advance"
  /\ head' = Succ(head)
  /\ owner' = [owner EXCEPT ![head] = "toProducer"]
  /\ out' = taken
  /\ cpc' = "idle"
  /\ UNCHANGED <<buf, tail, dropped, headSeen, tailSeen, ppc, item, taken>>

-------------------------------------------------------------------------------
Next ==
  \/ PushFull
  \/ \E f \in Frame : PushBegin(f)
  \/ PushWrite
  \/ PushPublish
  \/ PopEmpty
  \/ PopBegin
  \/ PopRead
  \/ PopAdvance

\* Main polls: it calls pop() again and again, each call runs to its end, and
\* an index stored by the producer is not hidden from its loads for ever.
Fairness ==
  /\ WF_vars(PopBegin /\ tailSeen' = tail)
  /\ WF_vars(PopRead)
  /\ WF_vars(PopAdvance)

Spec == Init /\ [][Next]_vars /\ Fairness

-------------------------------------------------------------------------------
(* Properties *)

\* push() writes a slot, and pop() moves a frame out of one, only when every
\* earlier access of the other thread to that slot happens before it: the
\* plain accesses to buf_ never race, although no lock is taken.
DataRaceFree ==
  /\ ppc = "write" => owner[tail] = "producer"
  /\ cpc = "read" => owner[head] = "consumer"

\* The frames in the ring as the channel sees them.  A slot pop() has already
\* moved out of still counts until head_ is stored.
Contents ==
  [i \in 1 .. Distance(head, tail) |->
     IF i = 1 /\ cpc = "advance" THEN taken ELSE buf[(head + i - 1) % CAPACITY]]

Channel == INSTANCE FrameChannel
  WITH queue <- Contents,
       vacated <- Distance(headSeen, head),
       delivered <- out,
       Room <- CAPACITY - 1

\* The ring implements the channel: push() and pop() keep the frames in order,
\* lose none that push() accepted, alter none, and push() refuses a frame only
\* when CAPACITY - 1 places are taken as far as the producer can know.
ChannelSpec == Channel!Spec

\* A frame at head_ is eventually popped: main polling is enough, whatever the
\* producer does meanwhile.
HeadAdvances ==
  \A s \in Slot : (head = s /\ tail # s) ~> (head # s)

-------------------------------------------------------------------------------
(* The inductive invariant *)

\* The four indices lie in the order headSeen, head, tailSeen, tail, less than
\* once around the ring.
Ordered ==
  /\ Distance(headSeen, head) + Distance(head, tail) = Distance(headSeen, tail)
  /\ Distance(head, tailSeen) + Distance(tailSeen, tail) = Distance(head, tail)

\* Each stretch between two indices belongs to one side.
Ownership ==
  \A s \in Slot :
    owner[s] = IF s \in Span(headSeen, head) THEN "toProducer"
               ELSE IF s \in Span(head, tailSeen) THEN "consumer"
               ELSE IF s \in Span(tailSeen, tail) THEN "toConsumer"
               ELSE "producer"

\* push() past its check has room, and has written its slot before it publishes;
\* pop() past its check has a frame, and holds it before it advances.
InFlight ==
  /\ ppc # "idle" => Succ(tail) # headSeen /\ item \in Frame
  /\ ppc = "publish" => buf[tail] = item
  /\ cpc # "idle" => head # tailSeen
  /\ cpc = "advance" => taken \in Frame

\* Every slot between head and tail holds a frame, save the one pop() has
\* moved out of.
Filled ==
  \A s \in Span(head, tail) : (s # head \/ cpc # "advance") => buf[s] \in Frame

IInv == TypeOK /\ Ordered /\ Ownership /\ InFlight /\ Filled
===============================================================================
