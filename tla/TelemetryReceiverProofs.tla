----------------------- MODULE TelemetryReceiverProofs -----------------------
(***************************************************************************)
(* Proofs about TelemetryReceiver for every capacity, every set of frames  *)
(* and every width of the drop counter, and about DataProcessor, which the *)
(* frames it delivers go through.                                          *)
(***************************************************************************)
EXTENDS TelemetryReceiver, DataProcessor, SumProofs

\* Succ steps to the next slot and wraps at the end of the array.
LEMMA SuccSlot ==
  ASSUME NEW i \in Slot
  PROVE  /\ Succ(i) \in Slot
         /\ Succ(i) = IF i = CAPACITY - 1 THEN 0 ELSE i + 1
<1>1. CASE i = CAPACITY - 1
  <2>1. Succ(i) = CAPACITY % CAPACITY
    BY <1>1, CapacityAssumption DEF Succ, Slot
  <2>2. CAPACITY % CAPACITY = 0
    BY CapacityAssumption
  <2> QED BY <1>1, <2>1, <2>2, CapacityAssumption DEF Slot
<1>2. CASE i # CAPACITY - 1
  <2>1. i + 1 \in 0 .. CAPACITY - 1
    BY <1>2, CapacityAssumption DEF Slot
  <2>2. (i + 1) % CAPACITY = i + 1
    BY <2>1, CapacityAssumption
  <2> QED BY <1>2, <2>1, <2>2, CapacityAssumption DEF Slot, Succ
<1> QED BY <1>1, <1>2

\* Distances are integers.
LEMMA DistanceInt ==
  ASSUME NEW i \in Slot, NEW j \in Slot
  PROVE  Distance(i, j) \in Int
BY CapacityAssumption DEF Distance, Slot

\* An index k met on the way from i to j splits the way in two.
LEMMA DistanceSplit ==
  ASSUME NEW i \in Slot, NEW j \in Slot, NEW k \in Slot,
         Distance(i, k) <= Distance(i, j)
  PROVE  Distance(i, k) + Distance(k, j) = Distance(i, j)
BY CapacityAssumption DEF Distance, Slot

\* If j is on the way from i to k, and m is on the way from i to j, then j is
\* on the way from m to k.
LEMMA DistanceAdvance ==
  ASSUME NEW i \in Slot, NEW j \in Slot, NEW k \in Slot, NEW m \in Slot,
         Distance(i, j) + Distance(j, k) = Distance(i, k),
         Distance(i, m) <= Distance(i, j)
  PROVE  Distance(m, j) + Distance(j, k) = Distance(m, k)
BY CapacityAssumption DEF Distance, Slot

\* The way to the next slot is one longer, unless it closes the ring.
LEMMA DistanceSucc ==
  ASSUME NEW i \in Slot, NEW j \in Slot
  PROVE  /\ Succ(j) # i => Distance(i, Succ(j)) = Distance(i, j) + 1
         /\ i # j => Distance(i, j) = Distance(Succ(i), j) + 1
BY SuccSlot, CapacityAssumption DEF Distance, Slot

\* A span is made of the spans on both sides of an index on the way, and
\* these do not overlap.
LEMMA SpanSplit ==
  ASSUME NEW i \in Slot, NEW j \in Slot, NEW k \in Slot, NEW s \in Slot,
         Distance(i, j) + Distance(j, k) = Distance(i, k)
  PROVE  /\ s \in Span(i, k) <=> s \in Span(i, j) \/ s \in Span(j, k)
         /\ ~(s \in Span(i, j) /\ s \in Span(j, k))
BY CapacityAssumption DEF Span, Distance, Slot

\* A span does not reach its end.
LEMMA SpanEnd ==
  ASSUME NEW i \in Slot, NEW j \in Slot
  PROVE  j \notin Span(i, j)
BY CapacityAssumption DEF Span, Distance, Slot

\* Moving the end of a span on by one adds the slot it stood on.
LEMMA SpanExtend ==
  ASSUME NEW i \in Slot, NEW j \in Slot, NEW s \in Slot, Succ(j) # i
  PROVE  /\ s \in Span(i, Succ(j)) <=> s \in Span(i, j) \/ s = j
         /\ j \notin Span(i, j)
BY SuccSlot, CapacityAssumption DEF Span, Distance, Slot

\* Moving the start of a nonempty span on by one removes that slot.
LEMMA SpanShrink ==
  ASSUME NEW i \in Slot, NEW j \in Slot, NEW s \in Slot, i # j
  PROVE  /\ s \in Span(Succ(i), j) <=> s \in Span(i, j) /\ s # i
         /\ i \in Span(i, j)
BY SuccSlot, CapacityAssumption DEF Span, Distance, Slot

\* Initially the ring is empty and the producer owns every slot.
LEMMA InitIInv == Init => IInv
<1> SUFFICES ASSUME Init PROVE IInv
  OBVIOUS
<1>1. TypeOK
  BY CapacityAssumption, DropAssumption DEF Init, TypeOK, Slot
<1>2. Ordered
  BY DEF Init, Ordered, Distance
<1>3. Ownership
  BY CapacityAssumption DEF Init, Ownership, Span, Distance, Slot
<1>4. InFlight /\ Filled
  BY CapacityAssumption DEF Init, InFlight, Filled, Span, Distance, Slot
<1> QED BY <1>1, <1>2, <1>3, <1>4 DEF IInv

\* The producer's acquire load keeps the indices in order and takes over the
\* slots the consumer has released.
LEMMA LoadHeadStep ==
  ASSUME IInv, NEW h \in Slot, LoadHead(h), UNCHANGED <<head, tail, tailSeen>>
  PROVE  Ordered' /\ Ownership' /\ headSeen' = h /\ owner' \in [Slot -> {"producer", "toConsumer", "consumer", "toProducer"}]
<1> USE DEF IInv, LoadHead
<1>0. head \in Slot /\ tail \in Slot /\ headSeen \in Slot /\ tailSeen \in Slot
  BY DEF TypeOK
<1>1. Distance(headSeen, h) <= Distance(headSeen, head)
  BY DEF Observable
<1>2. Ordered'
  BY <1>0, <1>1, DistanceAdvance DEF Ordered
<1>3. ASSUME NEW s \in Slot
      PROVE  /\ s \in Span(headSeen, head) <=> s \in Span(headSeen, h) \/ s \in Span(h, head)
             /\ ~(s \in Span(headSeen, h) /\ s \in Span(h, head))
             /\ ~(s \in Span(headSeen, head) /\ s \in Span(head, tail))
             /\ s \in Span(head, tail) <=> s \in Span(head, tailSeen) \/ s \in Span(tailSeen, tail)
  BY <1>0, <1>1, DistanceSplit, SpanSplit DEF Ordered
<1>4. Ownership'
  BY <1>3 DEF Ownership, Span
<1> QED BY <1>2, <1>4 DEF TypeOK

\* The consumer's acquire load keeps the indices in order and takes over the
\* slots the producer has published.
LEMMA LoadTailStep ==
  ASSUME IInv, NEW t \in Slot, LoadTail(t), UNCHANGED <<head, tail, headSeen>>
  PROVE  Ordered' /\ Ownership' /\ tailSeen' = t /\ owner' \in [Slot -> {"producer", "toConsumer", "consumer", "toProducer"}]
<1> USE DEF IInv, LoadTail
<1>0. head \in Slot /\ tail \in Slot /\ headSeen \in Slot /\ tailSeen \in Slot
  BY DEF TypeOK
<1>1. Distance(tailSeen, t) <= Distance(tailSeen, tail)
  BY DEF Observable
<1>2. Distance(head, t) = Distance(head, tailSeen) + Distance(tailSeen, t)
  BY <1>0, <1>1, CapacityAssumption DEF Ordered, Distance, Slot
<1>3. Distance(head, t) + Distance(t, tail) = Distance(head, tail)
  BY <1>0, <1>1, <1>2, CapacityAssumption DEF Ordered, Distance, Slot
<1>4. Ordered'
  BY <1>3 DEF Ordered
<1>5. ASSUME NEW s \in Slot
      PROVE  /\ s \in Span(head, t) <=> s \in Span(head, tailSeen) \/ s \in Span(tailSeen, t)
             /\ s \in Span(tailSeen, tail) <=> s \in Span(tailSeen, t) \/ s \in Span(t, tail)
             /\ ~(s \in Span(tailSeen, t) /\ s \in Span(t, tail))
             /\ ~(s \in Span(headSeen, head) /\ s \in Span(head, tail))
             /\ s \in Span(head, tail) <=> s \in Span(head, tailSeen) \/ s \in Span(tailSeen, tail)
  BY <1>0, <1>1, <1>2, DistanceSplit, SpanSplit DEF Ordered
<1>6. Ownership'
  BY <1>5 DEF Ownership, Span
<1> QED BY <1>4, <1>6 DEF TypeOK

\* Every step of push() and pop() preserves the invariant.
LEMMA NextIInv == IInv /\ [Next]_vars => IInv'
<1> SUFFICES ASSUME IInv, [Next]_vars PROVE IInv'
  OBVIOUS
<1> USE DEF IInv
<1>0. head \in Slot /\ tail \in Slot /\ headSeen \in Slot /\ tailSeen \in Slot
  BY DEF TypeOK
<1>1. CASE PushFull
  <2>1. Ordered' /\ Ownership' /\ TypeOK'
    BY <1>1, LoadHeadStep, DropAssumption DEF PushFull, TypeOK
  <2>2. InFlight' /\ Filled'
    BY <1>1 DEF PushFull, InFlight, Filled, Span
  <2> QED BY <2>1, <2>2
<1>2. ASSUME NEW f \in Frame, PushBegin(f) PROVE IInv'
  <2> PICK h \in Slot : LoadHead(h) /\ Succ(tail) # h
    BY <1>2 DEF PushBegin
  <2>1. Ordered' /\ Ownership' /\ TypeOK'
    BY <1>2, LoadHeadStep DEF PushBegin, TypeOK
  <2>2. InFlight' /\ Filled'
    BY <1>2 DEF PushBegin, LoadHead, InFlight, Filled, Span, Succ
  <2> QED BY <2>1, <2>2
<1>3. CASE PushWrite
  <2>1. TypeOK'
    BY <1>3 DEF PushWrite, TypeOK, InFlight
  <2>2. Ordered' /\ Ownership'
    BY <1>3 DEF PushWrite, Ordered, Ownership, Span, Distance
  <2>3. InFlight'
    BY <1>3 DEF PushWrite, InFlight, TypeOK, Succ
  <2>4. Filled'
    BY <1>3 DEF PushWrite, Filled, InFlight, TypeOK, Span, Distance
  <2> QED BY <2>1, <2>2, <2>3, <2>4, Zenon
<1>4. CASE PushPublish
  <2>1. Succ(tail) \in Slot /\ Succ(tail) # headSeen
    BY <1>0, <1>4, SuccSlot DEF PushPublish, InFlight
  <2>2. Distance(headSeen, Succ(tail)) = Distance(headSeen, tail) + 1
    BY <1>0, <2>1, DistanceSucc
  <2>3. Distance(head, Succ(tail)) = Distance(head, tail) + 1 /\ Succ(tail) # head
    BY <1>0, <2>1, SuccSlot, CapacityAssumption DEF Ordered, Distance, Slot
  <2>4. Distance(tailSeen, Succ(tail)) = Distance(tailSeen, tail) + 1 /\ Succ(tail) # tailSeen
    BY <1>0, <2>1, <2>3, SuccSlot, CapacityAssumption DEF Ordered, Distance, Slot
  <2>5. Ordered'
    <3>1. /\ Distance(headSeen, head) \in Int /\ Distance(head, tail) \in Int
          /\ Distance(head, tailSeen) \in Int /\ Distance(tailSeen, tail) \in Int
      BY <1>0, DistanceInt
    <3>2. /\ Distance(headSeen, head) + Distance(head, Succ(tail)) = Distance(headSeen, Succ(tail))
          /\ Distance(head, tailSeen) + Distance(tailSeen, Succ(tail)) = Distance(head, Succ(tail))
      BY <2>2, <2>3, <2>4, <3>1 DEF Ordered
    <3> QED BY <1>4, <3>2 DEF PushPublish, Ordered, Distance
  <2>6. TypeOK'
    BY <1>4, <2>1 DEF PushPublish, TypeOK
  <2>7. ASSUME NEW s \in Slot
        PROVE  /\ s \in Span(tailSeen, Succ(tail)) <=> s \in Span(tailSeen, tail) \/ s = tail
               /\ s \in Span(head, Succ(tail)) <=> s \in Span(head, tail) \/ s = tail
               /\ tail \notin Span(tailSeen, tail) /\ tail \notin Span(head, tail)
               /\ tail \notin Span(headSeen, tail)
    BY <1>0, <2>1, <2>3, <2>4, SpanExtend, Zenon
  <2>8. tail \notin Span(headSeen, head) /\ tail \notin Span(head, tailSeen)
    BY <1>0, <2>7, SpanSplit, Zenon DEF Ordered
  <2>9. Ownership'
    BY <1>0, <1>4, <2>7, <2>8 DEF PushPublish, Ownership, Span, TypeOK
  <2>10. InFlight'
    BY <1>4, Zenon DEF PushPublish, InFlight
  <2>11. Filled'
    BY <1>0, <1>4, <2>7 DEF PushPublish, Filled, InFlight, Span
  <2> QED BY <2>5, <2>6, <2>9, <2>10, <2>11
<1>5. CASE PopEmpty
  <2>1. Ordered' /\ Ownership' /\ TypeOK'
    BY <1>5, LoadTailStep DEF PopEmpty, TypeOK
  <2>2. InFlight' /\ Filled'
    BY <1>5 DEF PopEmpty, InFlight, Filled, Span, Succ
  <2> QED BY <2>1, <2>2
<1>6. CASE PopBegin
  <2> PICK t \in Slot : LoadTail(t) /\ head # t
    BY <1>6 DEF PopBegin
  <2>1. Ordered' /\ Ownership' /\ TypeOK'
    BY <1>6, LoadTailStep, Zenon DEF PopBegin, TypeOK
  <2>2. InFlight' /\ Filled'
    BY <1>6 DEF PopBegin, LoadTail, InFlight, Filled, Span, Succ
  <2> QED BY <2>1, <2>2
<1>7. CASE PopRead
  <2>0. head \in Span(head, tail) /\ head # tail
    <3>1. head # tailSeen
      BY <1>7 DEF PopRead, InFlight
    <3>2. head # tail
      BY <1>0, <3>1, CapacityAssumption DEF Ordered, Distance, Slot
    <3> QED BY <1>0, <3>2, SpanShrink
  <2>1. TypeOK'
    BY <1>7, Zenon DEF PopRead, TypeOK
  <2>2. Ordered' /\ Ownership'
    BY <1>7 DEF PopRead, Ordered, Ownership, Span, Distance
  <2>3. InFlight'
    BY <1>7, <2>0, Zenon DEF PopRead, InFlight, Filled, TypeOK, Succ
  <2>4. Filled'
    BY <1>7 DEF PopRead, Filled, TypeOK, Span, Distance
  <2> QED BY <2>1, <2>2, <2>3, <2>4, Zenon
<1>8. CASE PopAdvance
  <2>1. Succ(head) \in Slot /\ head # tailSeen
    BY <1>0, <1>8, SuccSlot DEF PopAdvance, InFlight
  <2>2. head # tail
    BY <1>0, <2>1, CapacityAssumption DEF Ordered, Distance, Slot
  <2>3. /\ Distance(head, tail) = Distance(Succ(head), tail) + 1
        /\ Distance(head, tailSeen) = Distance(Succ(head), tailSeen) + 1
    BY <1>0, <2>1, <2>2, DistanceSucc, Zenon
  <2>4. Distance(headSeen, Succ(head)) = Distance(headSeen, head) + 1 /\ Succ(head) # headSeen
    BY <1>0, <2>2, SuccSlot, CapacityAssumption DEF Ordered, Distance, Slot
  <2>5. Ordered'
    <3>1. /\ Distance(headSeen, head) \in Int /\ Distance(Succ(head), tail) \in Int
          /\ Distance(Succ(head), tailSeen) \in Int /\ Distance(tailSeen, tail) \in Int
      BY <1>0, <2>1, DistanceInt
    <3>2. /\ Distance(headSeen, Succ(head)) + Distance(Succ(head), tail) = Distance(headSeen, tail)
          /\ Distance(Succ(head), tailSeen) + Distance(tailSeen, tail) = Distance(Succ(head), tail)
      BY <2>3, <2>4, <3>1 DEF Ordered
    <3> QED BY <1>8, <3>2 DEF PopAdvance, Ordered, Distance
  <2>6. TypeOK'
    BY <1>8, <2>1 DEF PopAdvance, TypeOK
  <2>7. ASSUME NEW s \in Slot
        PROVE  /\ s \in Span(headSeen, Succ(head)) <=> s \in Span(headSeen, head) \/ s = head
               /\ s \in Span(Succ(head), tailSeen) <=> s \in Span(head, tailSeen) /\ s # head
               /\ s \in Span(Succ(head), tail) <=> s \in Span(head, tail) /\ s # head
    BY <1>0, <2>1, <2>2, <2>4, SpanExtend, SpanShrink, Zenon
  <2>8. Ownership'
    BY <1>0, <1>8, <2>7 DEF PopAdvance, Ownership, Span, TypeOK
  <2>9. InFlight'
    BY <1>8, Zenon DEF PopAdvance, InFlight
  <2>10. Filled'
    BY <1>0, <1>8, <2>7, Zenon DEF PopAdvance, Filled, Span
  <2> QED BY <2>5, <2>6, <2>8, <2>9, <2>10, Zenon
<1>9. CASE UNCHANGED vars
  BY <1>9 DEF vars, TypeOK, Ordered, Ownership, InFlight, Filled, Span, Distance, Succ
<1> QED
  BY <1>1, <1>2, <1>3, <1>4, <1>5, <1>6, <1>7, <1>8, <1>9 DEF Next

\* In every reachable state the four indices are in ring order and every slot
\* belongs to the thread that the release and acquire accesses give it to.
THEOREM Invariance == Spec => []IInv
BY InitIInv, NextIInv, PTL DEF Spec

\* push() and pop() never race on a slot, for every capacity.
THEOREM RaceFreedom == Spec => []DataRaceFree
<1>1. ASSUME IInv PROVE DataRaceFree
  <2>0. head \in Slot /\ tail \in Slot /\ headSeen \in Slot /\ tailSeen \in Slot
    BY <1>1 DEF IInv, TypeOK
  <2>1. ASSUME ppc = "write" PROVE owner[tail] = "producer"
    <3>1. tail \notin Span(headSeen, tail)
      BY <2>0, SpanEnd
    <3>2. /\ tail \notin Span(headSeen, head) /\ tail \notin Span(head, tailSeen)
          /\ tail \notin Span(tailSeen, tail)
      BY <1>1, <2>0, <3>1, SpanSplit DEF IInv, Ordered
    <3> QED BY <1>1, <2>0, <3>2 DEF IInv, Ownership
  <2>2. ASSUME cpc = "read" PROVE owner[head] = "consumer"
    <3>1. head \in Span(head, tailSeen)
      BY <1>1, <2>0, <2>2, SpanShrink DEF IInv, InFlight
    <3>2. head \notin Span(headSeen, head)
      BY <2>0, SpanEnd
    <3> QED BY <1>1, <2>0, <3>1, <3>2 DEF IInv, Ownership
  <2> QED BY <2>1, <2>2 DEF DataRaceFree
<1> QED BY <1>1, Invariance, PTL

-------------------------------------------------------------------------------
(* The ring implements the channel *)

\* The slot k places after h, without the remainder.
LEMMA SlotAfter ==
  ASSUME NEW h \in Slot, NEW k \in Slot
  PROVE  (h + k) % CAPACITY = IF h + k < CAPACITY THEN h + k ELSE h + k - CAPACITY
<1>1. CASE h + k < CAPACITY
  BY <1>1, CapacityAssumption DEF Slot
<1>2. CASE h + k >= CAPACITY
  <2>1. PICK d \in 0 .. CAPACITY - 1 : h + k = CAPACITY + d
    <3>1. h + k - CAPACITY \in 0 .. CAPACITY - 1 /\ h + k = CAPACITY + (h + k - CAPACITY)
      BY <1>2, CapacityAssumption DEF Slot
    <3> QED BY <3>1
  <2>2. (CAPACITY + d) % CAPACITY = d
    BY CapacityAssumption
  <2> QED BY <1>2, <2>1, <2>2, CapacityAssumption DEF Slot
<1> QED BY <1>1, <1>2, CapacityAssumption DEF Slot

\* Place i of the contents is a slot between head and tail, a different one
\* for every i; the first place is head itself.
LEMMA PlaceInSpan ==
  ASSUME NEW h \in Slot, NEW t \in Slot, NEW i \in 1 .. Distance(h, t)
  PROVE  /\ (h + i - 1) % CAPACITY \in Span(h, t)
         /\ (h + i - 1) % CAPACITY = h <=> i = 1
         /\ (h + i - 1) % CAPACITY # t
<1>1. i \in Nat /\ i >= 1 /\ i <= Distance(h, t) /\ i - 1 \in Slot /\ h + (i - 1) = h + i - 1
  BY CapacityAssumption DEF Distance, Slot
<1>2. (h + i - 1) % CAPACITY = IF h + (i - 1) < CAPACITY THEN h + (i - 1) ELSE h + (i - 1) - CAPACITY
  BY <1>1, SlotAfter
<1> QED BY <1>1, <1>2, CapacityAssumption DEF Span, Distance, Slot

\* Starting one slot later shifts the places by one.
LEMMA PlaceShift ==
  ASSUME NEW h \in Slot, NEW t \in Slot, h # t, NEW i \in 1 .. Distance(Succ(h), t)
  PROVE  (Succ(h) + i - 1) % CAPACITY = (h + (i + 1) - 1) % CAPACITY
<1>0. Succ(h) \in Slot /\ Succ(h) = IF h = CAPACITY - 1 THEN 0 ELSE h + 1
  BY SuccSlot
<1>1. i \in Nat /\ i - 1 \in Slot /\ i \in Slot
  BY <1>0, CapacityAssumption DEF Distance, Slot
<1>2. /\ (Succ(h) + (i - 1)) % CAPACITY
           = IF Succ(h) + (i - 1) < CAPACITY THEN Succ(h) + (i - 1) ELSE Succ(h) + (i - 1) - CAPACITY
      /\ (h + i) % CAPACITY = IF h + i < CAPACITY THEN h + i ELSE h + i - CAPACITY
  BY <1>0, <1>1, SlotAfter
<1>3. Succ(h) + (i - 1) = Succ(h) + i - 1 /\ h + (i + 1) - 1 = h + i
  BY <1>0, <1>1 DEF Slot
<1> QED BY <1>0, <1>1, <1>2, <1>3, CapacityAssumption DEF Slot

\* The place after the last one is tail.
LEMMA PlaceLast ==
  ASSUME NEW h \in Slot, NEW t \in Slot
  PROVE  (h + (Distance(h, t) + 1) - 1) % CAPACITY = t
<1>1. Distance(h, t) \in Slot /\ h + (Distance(h, t) + 1) - 1 = h + Distance(h, t)
  BY CapacityAssumption DEF Distance, Slot
<1>2. (h + Distance(h, t)) % CAPACITY
        = IF h + Distance(h, t) < CAPACITY THEN h + Distance(h, t) ELSE h + Distance(h, t) - CAPACITY
  BY <1>1, SlotAfter
<1> QED BY <1>1, <1>2, CapacityAssumption DEF Distance, Slot

\* The contents of the ring are a sequence of frames as long as the distance
\* from head to tail.
LEMMA ContentsSeq ==
  IInv => /\ Contents \in Seq(Frame)
          /\ Len(Contents) = Distance(head, tail)
          /\ Distance(head, tail) \in Nat
          /\ \A i \in 1 .. Distance(head, tail) :
               Contents[i] = IF i = 1 /\ cpc = "advance" THEN taken
                             ELSE buf[(head + i - 1) % CAPACITY]
<1> SUFFICES ASSUME IInv PROVE /\ Contents \in Seq(Frame)
                               /\ Len(Contents) = Distance(head, tail)
                               /\ Distance(head, tail) \in Nat
  BY DEF Contents
<1>0. head \in Slot /\ tail \in Slot
  BY DEF IInv, TypeOK
<1>1. Distance(head, tail) \in Nat
  BY <1>0, CapacityAssumption DEF Distance, Slot
<1>2. ASSUME NEW i \in 1 .. Distance(head, tail)
      PROVE  Contents[i] \in Frame
  <2>1. CASE i = 1 /\ cpc = "advance"
    BY <2>1 DEF Contents, IInv, InFlight
  <2>2. CASE ~(i = 1 /\ cpc = "advance")
    <3>1. /\ (head + i - 1) % CAPACITY \in Span(head, tail)
          /\ (head + i - 1) % CAPACITY # head \/ cpc # "advance"
      BY <1>0, <2>2, PlaceInSpan
    <3>2. buf[(head + i - 1) % CAPACITY] \in Frame
      BY <3>1 DEF IInv, Filled
    <3> QED BY <2>2, <3>2 DEF Contents
  <2> QED BY <2>1, <2>2
<1>3. Contents \in [1 .. Distance(head, tail) -> Frame]
  BY <1>2 DEF Contents
<1> QED BY <1>1, <1>3

\* The empty ring is the empty channel.
LEMMA InitChannel == Init => Channel!Init
<1> SUFFICES ASSUME Init PROVE Channel!Init
  OBVIOUS
<1>1. Distance(head, tail) = 0 /\ Distance(headSeen, head) = 0
  BY DEF Init, Distance
<1>2. Contents = << >>
  BY <1>1, 1 .. 0 = {} DEF Contents
<1> QED BY <1>1, <1>2 DEF Init, Channel!Init

\* Every step of the ring is a step of the channel or leaves it as it is.
LEMMA StepChannel == IInv /\ IInv' /\ [Next]_vars => [Channel!Next]_(Channel!vars)
<1> SUFFICES ASSUME IInv, IInv', [Next]_vars PROVE [Channel!Next]_(Channel!vars)
  OBVIOUS
<1>a. Distance(headSeen, head) + Distance(head, tail) = Distance(headSeen, tail)
  BY DEF IInv, Ordered
<1>0. /\ head \in Slot /\ tail \in Slot /\ headSeen \in Slot /\ tailSeen \in Slot
      /\ head' \in Slot /\ tail' \in Slot /\ headSeen' \in Slot
  BY DEF IInv, TypeOK
<1>1. /\ Contents \in Seq(Frame) /\ Len(Contents) = Distance(head, tail)
      /\ Distance(head, tail) \in Nat
      /\ \A i \in 1 .. Distance(head, tail) :
           Contents[i] = IF i = 1 /\ cpc = "advance" THEN taken
                         ELSE buf[(head + i - 1) % CAPACITY]
  BY ContentsSeq
<1>2. /\ Contents' \in Seq(Frame) /\ Len(Contents') = Distance(head, tail)'
      /\ Distance(head, tail)' \in Nat
      /\ \A i \in 1 .. Distance(head, tail)' :
           Contents'[i] = IF i = 1 /\ cpc' = "advance" THEN taken'
                          ELSE buf'[(head' + i - 1) % CAPACITY]
  <2>1. IInv' => (/\ Contents \in Seq(Frame)
                  /\ Len(Contents) = Distance(head, tail)
                  /\ Distance(head, tail) \in Nat
                  /\ \A i \in 1 .. Distance(head, tail) :
                       Contents[i] = IF i = 1 /\ cpc = "advance" THEN taken
                                     ELSE buf[(head + i - 1) % CAPACITY])'
    BY ContentsSeq, PTL
  <2> QED BY <2>1
<1>3. ASSUME NEW h \in Slot, LoadHead(h), UNCHANGED head
      PROVE  Distance(headSeen, head)' \in 0 .. Distance(headSeen, head)
  <2>1. Distance(headSeen, h) <= Distance(headSeen, head)
    BY <1>3 DEF LoadHead, Observable
  <2>2. Distance(h, head) \in 0 .. Distance(headSeen, head)
    BY <1>0, <2>1, CapacityAssumption DEF Distance, Slot
  <2> QED BY <1>3, <2>2 DEF LoadHead, Distance
<1>4. CASE PushFull
  <2> PICK h \in Slot : LoadHead(h) /\ Succ(tail) = h
    BY <1>4 DEF PushFull
  <2>1. Contents' = Contents
    BY <1>4 DEF PushFull, Contents, Distance
  <2>2. Distance(headSeen, head)' \in 0 .. Distance(headSeen, head)
    BY <1>3, <1>4 DEF PushFull
  <2>3. Distance(headSeen, head)' + Distance(head, tail)' = Distance(headSeen, tail)'
    BY Zenon DEF IInv, Ordered
  <2>4. Distance(headSeen, tail)' = Distance(Succ(tail), tail) /\ Distance(head, tail)' = Distance(head, tail)
    BY <1>4 DEF PushFull, LoadHead, Distance
  <2>5. Distance(Succ(tail), tail) = CAPACITY - 1
    BY <1>0, SuccSlot, CapacityAssumption DEF Distance, Slot
  <2>6. Len(Contents) + Distance(headSeen, head)' = CAPACITY - 1
    BY <1>1, <1>0, <2>2, <2>3, <2>4, <2>5, DistanceInt
  <2> QED BY <1>4, <2>1, <2>2, <2>6 DEF PushFull, Channel!Next, Channel!Refuse
<1>5. ASSUME NEW f \in Frame, PushBegin(f) PROVE [Channel!Next]_(Channel!vars)
  <2>1. Contents' = Contents
    BY <1>5 DEF PushBegin, Contents, Distance
  <2>2. Distance(headSeen, head)' \in 0 .. Distance(headSeen, head)
    BY <1>3, <1>5 DEF PushBegin
  <2> QED BY <1>5, <2>1, <2>2 DEF PushBegin, Channel!Next, Channel!Notice
<1>6. CASE PushWrite
  <2>1. \A i \in 1 .. Distance(head, tail) : (head + i - 1) % CAPACITY # tail /\ (head + i - 1) % CAPACITY \in Slot
    BY <1>0, PlaceInSpan, Zenon DEF Span
  <2>2. \A i \in 1 .. Distance(head, tail) : buf'[(head + i - 1) % CAPACITY] = buf[(head + i - 1) % CAPACITY]
    BY <1>6, <2>1, Zenon DEF PushWrite, IInv, TypeOK
  <2>3. Contents' = Contents
    BY <1>6, <2>2 DEF PushWrite, Contents, Distance
  <2> QED BY <1>6, <2>3 DEF PushWrite, Channel!vars, Distance
<1>7. CASE PushPublish
  <2>1. Succ(tail) # headSeen /\ item \in Frame /\ buf[tail] = item /\ tail' = Succ(tail) /\ Succ(tail) \in Slot
    BY <1>0, <1>7, SuccSlot DEF PushPublish, IInv, InFlight
  <2>2. Distance(headSeen, Succ(tail)) = Distance(headSeen, tail) + 1
    BY <1>0, <2>1, DistanceSucc
  <2>3. Distance(head, tail)' = Distance(head, tail) + 1
    <3>1. Distance(head, Succ(tail)) = Distance(head, tail) + 1
      <4>1. Succ(tail) = IF tail = CAPACITY - 1 THEN 0 ELSE tail + 1
        BY <1>0, SuccSlot
      <4>2. Succ(tail) # head
        BY <1>0, <1>a, <2>1, <4>1, CapacityAssumption DEF Distance, Slot
      <4> QED BY <1>0, <4>2, DistanceSucc
    <3> QED BY <1>7, <3>1 DEF PushPublish, Distance
  <2>4. Len(Contents) + Distance(headSeen, head) < CAPACITY - 1
    <3>1. Distance(headSeen, tail) < CAPACITY - 1
      BY <1>0, <2>1, <2>2, CapacityAssumption DEF Distance, Slot
    <3> QED BY <1>0, <1>1, <3>1, DistanceInt DEF IInv, Ordered
  <2>5. Contents' = Append(Contents, item)
    <3>1. Append(Contents, item) \in Seq(Frame) /\ Len(Append(Contents, item)) = Len(Contents')
      BY <1>1, <1>2, <2>1, <2>3
    <3>2. ASSUME NEW i \in 1 .. Len(Contents')
          PROVE  Contents'[i] = Append(Contents, item)[i]
      <4>1. CASE i = Len(Contents) + 1
        <5>1. (head + i - 1) % CAPACITY = tail
          BY <1>0, <1>1, <4>1, PlaceLast
        <5>2. ~(i = 1 /\ cpc' = "advance")
          <6>1. cpc = "advance" => head # tail
            BY <1>0, CapacityAssumption DEF IInv, InFlight, Ordered, Distance, Slot
          <6>2. i = 1 => Distance(head, tail) = 0
            BY <1>1, <4>1
          <6>3. i = 1 => head = tail
            BY <1>0, <6>2, CapacityAssumption DEF Distance, Slot
          <6> QED BY <1>7, <6>1, <6>3, Zenon DEF PushPublish
        <5>3. Contents'[i] = buf[tail]
          BY <1>2, <1>7, <5>1, <5>2, Zenon DEF PushPublish
        <5> QED BY <1>1, <2>1, <4>1, <5>3
      <4>2. CASE i # Len(Contents) + 1
        <5>1. i \in 1 .. Len(Contents)
          BY <1>1, <1>2, <2>3, <4>2
        <5> QED BY <1>1, <1>2, <1>7, <2>1, <5>1 DEF PushPublish
      <4> QED BY <4>1, <4>2, Zenon
    <3> QED BY <1>2, <3>1, <3>2
  <2> QED BY <1>7, <2>1, <2>4, <2>5, Zenon DEF PushPublish, Channel!Next, Channel!Accept, Distance
<1>8. CASE PopEmpty
  BY <1>8 DEF PopEmpty, Contents, Channel!vars, Distance
<1>9. CASE PopBegin
  BY <1>9 DEF PopBegin, Contents, Channel!vars, Distance
<1>10. CASE PopRead
  <2>1. \A i \in 1 .. Distance(head, tail) :
          /\ (head + i - 1) % CAPACITY \in Slot
          /\ (head + i - 1) % CAPACITY = head <=> i = 1
    BY <1>0, PlaceInSpan DEF Span
  <2>2. \A i \in 1 .. Distance(head, tail) :
          i # 1 => buf'[(head + i - 1) % CAPACITY] = buf[(head + i - 1) % CAPACITY]
    BY <1>10, <2>1, Zenon DEF PopRead, IInv, TypeOK
  <2>3. Contents' = Contents
    BY <1>10, <2>1, <2>2, Zenon DEF PopRead, Contents, Distance
  <2> QED BY <1>10, <2>3 DEF PopRead, Channel!vars, Distance
<1>11. CASE PopAdvance
  <2>1. head # tailSeen /\ head' = Succ(head) /\ Succ(head) \in Slot
    BY <1>0, <1>11, SuccSlot, Zenon DEF PopAdvance, IInv, InFlight
  <2>2. head # tail
    BY <1>0, <2>1, CapacityAssumption DEF IInv, Ordered, Distance, Slot
  <2>3. Distance(head, tail) = Distance(head, tail)' + 1
    <3>1. Distance(head, tail) = Distance(Succ(head), tail) + 1
      BY <1>0, <2>2, DistanceSucc, Zenon
    <3> QED BY <1>11, <3>1 DEF PopAdvance, Distance
  <2>4. Distance(headSeen, head)' = Distance(headSeen, head) + 1
    <3>1. Distance(headSeen, Succ(head)) = Distance(headSeen, head) + 1
      BY <1>0, <1>a, <2>2, SuccSlot, CapacityAssumption DEF Distance, Slot
    <3> QED BY <1>11, <3>1, Zenon DEF PopAdvance, Distance
  <2>5. Contents # << >> /\ Head(Contents) = taken
    BY <1>1, <1>2, <1>11, <2>3 DEF PopAdvance
  <2>6. Contents' = Tail(Contents)
    <3>1. Tail(Contents) \in Seq(Frame) /\ Len(Tail(Contents)) = Len(Contents')
      BY <1>1, <1>2, <2>3, <2>5
    <3>2. ASSUME NEW i \in 1 .. Len(Contents')
          PROVE  Contents'[i] = Tail(Contents)[i]
      <4>1. i \in 1 .. Distance(Succ(head), tail)
        BY <1>2, <1>11, Zenon DEF PopAdvance, Distance
      <4>2. (head' + i - 1) % CAPACITY = (head + (i + 1) - 1) % CAPACITY
        BY <1>0, <2>1, <2>2, <4>1, PlaceShift, Zenon
      <4>3. Tail(Contents)[i] = Contents[i + 1] /\ i + 1 \in 1 .. Distance(head, tail) /\ i + 1 # 1
        BY <1>1, <1>2, <2>3, <2>5
      <4> QED BY <1>1, <1>2, <1>11, <4>2, <4>3 DEF PopAdvance
    <3> QED BY <1>2, <3>1, <3>2
  <2> QED BY <1>11, <2>4, <2>5, <2>6, Zenon DEF PopAdvance, Channel!Next, Channel!Deliver
<1>12. CASE UNCHANGED vars
  BY <1>12 DEF vars, Contents, Channel!vars, Distance
<1> QED
  BY <1>4, <1>5, <1>6, <1>7, <1>8, <1>9, <1>10, <1>11, <1>12, Zenon DEF Next

\* The lock-free ring implements the first-in-first-out channel: for every
\* capacity, push() and pop() lose, duplicate, reorder and alter nothing that
\* push() accepted, and push() refuses only what cannot be known to fit.
THEOREM RingImplementsChannel == Spec => ChannelSpec
BY InitChannel, StepChannel, Invariance, PTL DEF Spec, ChannelSpec, Channel!Spec

-------------------------------------------------------------------------------
(***************************************************************************)
(* The processor the popped frames go through, for every band, window,     *)
(* threshold and int width: the alarm is exact, the ring buffer of the     *)
(* moving average holds the last samples, and the running sum is their     *)
(* sum.                                                                    *)
(***************************************************************************)
(* The ring index *)

\* The next slot, without the remainder.
LEMMA NextHead ==
  ASSUME NEW h \in Slots
  PROVE  (h + 1) % Window = IF h = Window - 1 THEN 0 ELSE h + 1
<1>1. CASE h = Window - 1
  <2>1. Window % Window = 0
    BY WindowAssumption
  <2> QED
    BY <1>1, <2>1, WindowAssumption DEF Slots
<1>2. CASE h # Window - 1
  <2>1. h + 1 \in 0 .. Window - 1
    BY <1>2, WindowAssumption DEF Slots
  <2>2. (h + 1) % Window = h + 1
    BY <2>1, WindowAssumption
  <2> QED
    BY <1>2, <2>2, WindowAssumption DEF Slots
<1> QED
  BY <1>1, <1>2

\* A sample of a window is in a slot; once the window has grown by the sample at
\* the head, or slid by one, the older samples are where they were, and none of
\* them is at the old head.
LEMMA SlotFacts ==
  ASSUME NEW h \in Slots, NEW g \in Slots, g = IF h = Window - 1 THEN 0 ELSE h + 1,
         NEW n \in 0 .. Window, NEW i \in Int
  PROVE  /\ i \in 1 .. n => SlotOf(h, n, i) \in Slots
         /\ n < Window /\ i \in 1 .. n =>
              SlotOf(g, n + 1, i) = SlotOf(h, n, i) /\ SlotOf(h, n, i) # h
         /\ n = Window /\ i \in 1 .. n - 1 =>
              SlotOf(g, n, i) = SlotOf(h, n, i + 1) /\ SlotOf(g, n, i) # h
BY WindowAssumption DEF SlotOf, Slots

\* The newest sample is at the old head.
LEMMA NewestSlot ==
  ASSUME NEW h \in Slots, NEW g \in Slots, g = IF h = Window - 1 THEN 0 ELSE h + 1,
         NEW n \in 0 .. Window
  PROVE  /\ n < Window => SlotOf(g, n + 1, n + 1) = h
         /\ n = Window => SlotOf(g, n, n) = h
BY WindowAssumption DEF SlotOf, Slots

-------------------------------------------------------------------------------
(* The sum of a sequence *)

\* A sequence over a set is one over a larger set.
LEMMA SeqOfMore ==
  ASSUME NEW S, NEW T, S \subseteq T, NEW s \in Seq(S)
  PROVE  s \in Seq(T)
OBVIOUS

\* The sum of no samples.
LEMMA SumOfEmpty == SumOf(<<>>) = 0
  BY SumEmpty DEF SumOf

\* The sum with one sample more.
LEMMA SumOfAppend ==
  ASSUME NEW s \in Seq(Int), NEW x \in Int
  PROVE  SumOf(s) \in Int /\ SumOf(Append(s, x)) = SumOf(s) + x
<1> DEFINE n == Len(s)
           f == [i \in 0 .. n - 1 |-> s[i + 1]]
           g == [i \in 0 .. n |-> Append(s, x)[i + 1]]
<1>1. n \in Nat /\ \A i \in 1 .. n : s[i] \in Int
  OBVIOUS
<1>2. Len(Append(s, x)) = n + 1 /\ (n + 1) - 1 = n
  BY <1>1
<1>3. \A i \in 0 .. n - 1 : f[i] \in Int /\ g[i] = f[i]
  BY <1>1
<1>4. g[n] = x
  BY <1>1
<1>5. SumOf(s) = Sum(f, n) /\ SumOf(Append(s, x)) = Sum(g, n + 1)
  BY <1>2, Zenon DEF SumOf
<1> HIDE DEF f, g, n
<1>6. \A i \in 0 .. n : g[i] \in Int
  BY <1>1, <1>3, <1>4
<1>7. Sum(g, n + 1) = Sum(g, n) + g[n]
  BY <1>1, <1>6, SumNext, Zenon
<1>8. Sum(g, n) = Sum(f, n) /\ Sum(f, n) \in Int
  BY <1>1, <1>3, SumSame, SumType, Zenon
<1> QED
  BY <1>4, <1>5, <1>7, <1>8

\* The sum without the first sample.
LEMMA SumOfTail ==
  ASSUME NEW s \in Seq(Int), s # <<>>
  PROVE  SumOf(Tail(s)) = SumOf(s) - s[1]
<1> DEFINE n == Len(s) - 1
           t == Tail(s)
           f == [i \in 0 .. n |-> s[i + 1]]
           g == [i \in 0 .. Len(t) - 1 |-> t[i + 1]]
<1>1. n \in Nat /\ (\A i \in 1 .. n + 1 : s[i] \in Int) /\ n + 1 = Len(s)
  OBVIOUS
<1>2. Len(t) = n /\ \A i \in 1 .. n : t[i] = s[i + 1]
  OBVIOUS
<1> HIDE DEF t
<1>3. \A i \in 0 .. n : f[i] \in Int
  BY <1>1
<1>4. \A i \in 0 .. n - 1 : g[i] = f[i + 1]
  BY <1>1, <1>2
<1>5. SumOf(s) = Sum(f, n + 1)
  <2>1. SumOf(s) = Sum(f, Len(s))
    BY DEF SumOf
  <2> QED
    BY <1>1, <2>1
<1>6. SumOf(Tail(s)) = Sum(g, n) /\ f[0] = s[1]
  <2>1. SumOf(t) = Sum(g, Len(t))
    BY DEF SumOf
  <2>2. f[0] = s[1]
    BY <1>1
  <2> HIDE DEF f, g, n
  <2>3. SumOf(t) = Sum(g, n)
    BY <1>2, <2>1
  <2> QED
    BY <2>2, <2>3 DEF t
<1> HIDE DEF f, g, n
<1>7. Sum(f, n + 1) = f[0] + Sum(g, n)
  BY <1>1, <1>3, <1>4, SumShift, Zenon
<1>8. Sum(g, n) \in Int
  <2>1. \A i \in 0 .. n - 1 : g[i] \in Int
    <3> TAKE i \in 0 .. n - 1
    <3>1. i + 1 \in 0 .. n
      BY <1>1
    <3>2. f[i + 1] \in Int
      BY <1>3, <3>1, Zenon
    <3> QED
      BY <1>4, <3>2, Zenon
  <2> QED
    BY <1>1, <2>1, SumType
<1> QED
  BY <1>1, <1>3, <1>5, <1>6, <1>7, <1>8

-------------------------------------------------------------------------------
(* The inductive invariant *)

\* The invariant holds when the processor is built.
LEMMA InitProcessor == ProcessorInit => ProcessorInv
<1> SUFFICES ASSUME ProcessorInit PROVE ProcessorInv
  BY Zenon
<1>1. ProcessorTypeOK
  <2>1. alarm \in BOOLEAN
    BY Zenon DEF ProcessorInit
  <2> QED
    BY <2>1, WindowAssumption, KAssumption DEF ProcessorInit, ProcessorTypeOK, Slots, MachineInt
<1>2. CounterTracksRun /\ AlarmExact
  BY KAssumption DEF ProcessorInit, CounterTracksRun, AlarmExact
<1>3. RingHoldsWindow
  BY DEF ProcessorInit, RingHoldsWindow
<1>4. SumExact
  BY SumOfEmpty DEF ProcessorInit, SumExact
<1> QED
  BY <1>1, <1>2, <1>3, <1>4 DEF ProcessorInv

\* It holds after reset().
LEMMA ResetProcessor == Reset => ProcessorInv'
<1> SUFFICES ASSUME Reset PROVE ProcessorInv'
  OBVIOUS
<1>1. ProcessorTypeOK'
  <2>1. alarm' \in BOOLEAN
    BY Zenon DEF Reset, FilterReset, DetectorReset
  <2> QED
    BY <2>1, WindowAssumption, KAssumption DEF Reset, FilterReset, DetectorReset, ProcessorTypeOK, Slots, MachineInt
<1>2. CounterTracksRun' /\ AlarmExact'
  BY KAssumption DEF Reset, FilterReset, DetectorReset, CounterTracksRun, AlarmExact
<1>3. RingHoldsWindow'
  BY DEF Reset, FilterReset, DetectorReset, RingHoldsWindow
<1>4. SumExact'
  BY SumOfEmpty DEF Reset, FilterReset, SumExact
<1> QED
  BY <1>1, <1>2, <1>3, <1>4 DEF ProcessorInv

\* The detector: below K the counter is exact, and from K on the alarm is latched
\* whatever the counter overflows to.
LEMMA DetectorStep ==
  ASSUME ProcessorInv, NEW v \in Sample, Process(v)
  PROVE  /\ consecutive' \in MachineInt /\ alarm' \in BOOLEAN /\ run' \in 0 .. K
         /\ CounterTracksRun' /\ AlarmExact'
<1>1. /\ consecutive \in MachineInt /\ alarm \in BOOLEAN /\ run \in 0 .. K
      /\ run < K => consecutive = run
      /\ alarm <=> run = K
  BY DEF ProcessorInv, ProcessorTypeOK, CounterTracksRun, AlarmExact
<1>2. CASE ~OutOfBand(v)
  <2>1. consecutive' = 0 /\ alarm' = FALSE /\ run' = 0
    BY <1>2 DEF Process, DetectorApply, Observe
  <2>2. alarm' \in BOOLEAN /\ ~alarm'
    BY <2>1, Zenon
  <2>3. consecutive' \in MachineInt /\ run' \in 0 .. K /\ run' # K /\ consecutive' = run'
    BY <2>1, KAssumption DEF MachineInt
  <2> QED
    BY <2>2, <2>3, Zenon DEF CounterTracksRun, AlarmExact
<1>3. CASE OutOfBand(v)
  <2>1. /\ consecutive' \in Increment(consecutive)
        /\ alarm' = (alarm \/ consecutive' >= K)
        /\ run' = IF run < K THEN run + 1 ELSE K
    BY <1>3 DEF Process, DetectorApply, Observe
  <2>2. alarm' \in BOOLEAN /\ (alarm' <=> (alarm \/ consecutive' >= K))
    BY <2>1, Zenon
  <2>3. consecutive' \in MachineInt
    BY <1>1, <2>1, KAssumption DEF Increment, MachineInt
  <2>4. run < K => consecutive' = run + 1
    BY <1>1, <2>1, KAssumption DEF Increment, MachineInt
  <2>5. run' \in 0 .. K /\ (run' < K => run < K /\ run' = run + 1) /\ (run < K => run' = run + 1)
        /\ (run = K => run' = K)
    BY <1>1, <2>1, KAssumption
  <2>6. CounterTracksRun'
    BY <2>4, <2>5 DEF CounterTracksRun
  <2>7. AlarmExact'
    BY <1>1, <2>2, <2>4, <2>5, KAssumption DEF AlarmExact
  <2> QED
    BY <2>2, <2>3, <2>5, <2>6, <2>7, Zenon
<1> QED
  BY <1>2, <1>3

\* The filter: the ring holds the window before and after a sample.
LEMMA FilterStep ==
  ASSUME ProcessorInv, NEW v \in Sample, Process(v)
  PROVE  /\ filterBuf' \in [Slots -> Int] /\ filterHead' \in Slots /\ count' \in 0 .. Window /\ sum' \in Int
         /\ recent' \in Seq(Sample)
         /\ RingHoldsWindow'
<1>1. /\ filterBuf \in [Slots -> Int] /\ filterHead \in Slots /\ count \in 0 .. Window /\ sum \in Int
      /\ recent \in Seq(Sample) /\ v \in Int /\ Window \in Nat /\ Window > 0
  BY WindowAssumption, SampleAssumption DEF ProcessorInv, ProcessorTypeOK
<1>2. count = Len(recent) /\ \A i \in 1 .. count : recent[i] = filterBuf[SlotOf(filterHead, count, i)]
  BY Zenon DEF ProcessorInv, RingHoldsWindow
<1>3. /\ count' = IF count < Window THEN count + 1 ELSE count
      /\ sum' = (IF count < Window THEN sum ELSE sum - filterBuf[filterHead]) + v
      /\ filterBuf' = [filterBuf EXCEPT ![filterHead] = v]
      /\ filterHead' = IF filterHead = Window - 1 THEN 0 ELSE filterHead + 1
      /\ recent' = Append(IF Len(recent) < Window THEN recent ELSE Tail(recent), v)
  BY <1>1, NextHead, Zenon DEF Process, FilterApply, Observe
<1>4. filterHead' \in Slots
  BY <1>1, <1>3 DEF Slots
<1>5. filterBuf' \in [Slots -> Int] /\ count' \in 0 .. Window /\ sum' \in Int
  BY <1>1, <1>3
<1>6. /\ filterHead \in Slots /\ filterHead' \in Slots /\ count \in 0 .. Window
      /\ filterHead' = IF filterHead = Window - 1 THEN 0 ELSE filterHead + 1
  BY <1>1, <1>3, <1>4, Zenon
<1>7. CASE count < Window
  <2>1. recent' = Append(recent, v) /\ count' = count + 1
    BY <1>2, <1>3, <1>7, Zenon
  <2>2. recent' \in Seq(Sample) /\ Len(recent') = count' /\ recent'[count + 1] = v
        /\ \A i \in 1 .. count : recent'[i] = recent[i]
    BY <1>1, <1>2, <2>1
  <2>3. filterBuf'[SlotOf(filterHead', count + 1, count + 1)] = v
    <3>1. SlotOf(filterHead', count + 1, count + 1) = filterHead
      BY <1>1, <1>3, <1>4, <1>7, NewestSlot, Zenon
    <3> QED
      BY <1>1, <1>3, <3>1
  <2>4. \A i \in 1 .. count : filterBuf'[SlotOf(filterHead', count + 1, i)] = filterBuf[SlotOf(filterHead, count, i)]
    <3> TAKE i \in 1 .. count
    <3>1. /\ SlotOf(filterHead', count + 1, i) = SlotOf(filterHead, count, i)
          /\ SlotOf(filterHead, count, i) # filterHead
          /\ SlotOf(filterHead, count, i) \in Slots
      BY <1>6, <1>7, SlotFacts
    <3> QED
      BY <1>1, <1>3, <3>1, Zenon
  <2>5. \A i \in 1 .. count' : recent'[i] = filterBuf'[SlotOf(filterHead', count', i)]
    <3> TAKE i \in 1 .. count'
    <3>1. i = count + 1 \/ i \in 1 .. count
      BY <1>1, <2>1
    <3>2. CASE i = count + 1
      BY <2>1, <2>2, <2>3, <3>2, Zenon
    <3>3. CASE i \in 1 .. count
      BY <1>2, <2>1, <2>2, <2>4, <3>3, Zenon
    <3> QED
      BY <3>1, <3>2, <3>3, Zenon
  <2> QED
    BY <1>4, <1>5, <2>2, <2>5, Zenon DEF RingHoldsWindow
<1>8. CASE count = Window
  <2>1. recent' = Append(Tail(recent), v) /\ count' = count /\ recent # <<>>
    <3>1. ~(count < Window) /\ ~(Len(recent) < Window) /\ Len(recent) > 0
      BY <1>1, <1>2, <1>8
    <3>2. recent # <<>>
      BY <3>1
    <3> QED
      BY <1>3, <3>1, <3>2, Zenon
  <2>2. recent' \in Seq(Sample) /\ Len(recent') = count /\ recent'[count] = v
        /\ \A i \in 1 .. count - 1 : recent'[i] = recent[i + 1]
    <3>1. /\ Tail(recent) \in Seq(Sample) /\ Len(Tail(recent)) = count - 1
          /\ \A i \in 1 .. count - 1 : Tail(recent)[i] = recent[i + 1]
      BY <1>1, <1>2, <2>1
    <3> QED
      BY <1>1, <2>1, <3>1
  <2>3. filterBuf'[SlotOf(filterHead', count, count)] = v
    <3>1. SlotOf(filterHead', count, count) = filterHead
      BY <1>1, <1>3, <1>4, <1>8, NewestSlot, ZenonT(60)
    <3> QED
      BY <1>1, <1>3, <3>1
  <2>4. \A i \in 1 .. count - 1 : filterBuf'[SlotOf(filterHead', count, i)] = filterBuf[SlotOf(filterHead, count, i + 1)]
    <3> TAKE i \in 1 .. count - 1
    <3>1. /\ SlotOf(filterHead', count, i) = SlotOf(filterHead, count, i + 1)
          /\ SlotOf(filterHead', count, i) # filterHead
      BY <1>6, <1>8, SlotFacts
    <3>2. i + 1 \in 1 .. count /\ i + 1 \in Int
      BY <1>1
    <3>3. SlotOf(filterHead, count, i + 1) \in Slots
      BY <1>6, <3>2, SlotFacts
    <3> QED
      BY <1>1, <1>3, <3>1, <3>3
  <2>5. \A i \in 1 .. count : recent'[i] = filterBuf'[SlotOf(filterHead', count, i)]
    <3> TAKE i \in 1 .. count
    <3>1. i = count \/ (i \in 1 .. count - 1 /\ i + 1 \in 1 .. count)
      BY <1>1
    <3> QED
      BY <1>2, <2>2, <2>3, <2>4, <3>1, Zenon
  <2> QED
    BY <1>4, <1>5, <2>1, <2>2, <2>5, Zenon DEF RingHoldsWindow
<1> QED
  BY <1>1, <1>7, <1>8

\* The sum: the sample that leaves the window is the one the head overwrites.
LEMMA SumStep ==
  ASSUME ProcessorInv, NEW v \in Sample, Process(v)
  PROVE  SumExact'
<1>1. /\ recent \in Seq(Int) /\ v \in Int /\ filterHead \in Slots /\ count \in 0 .. Window
      /\ Window \in Nat /\ Window > 0
  <2>1. recent \in Seq(Sample) /\ filterHead \in Slots /\ count \in 0 .. Window
    BY DEF ProcessorInv, ProcessorTypeOK
  <2>2. recent \in Seq(Int)
    BY <2>1, SeqOfMore, SampleAssumption, Zenon
  <2> QED
    BY <2>1, <2>2, WindowAssumption, SampleAssumption
<1>2. /\ count = Len(recent) /\ \A i \in 1 .. count : recent[i] = filterBuf[SlotOf(filterHead, count, i)]
      /\ sum = SumOf(recent)
  BY Zenon DEF ProcessorInv, RingHoldsWindow, SumExact
<1>3. CASE count < Window
  <2>1. sum' = sum + v /\ recent' = Append(recent, v)
    BY <1>2, <1>3 DEF Process, FilterApply, Observe
  <2> QED
    BY <1>1, <1>2, <2>1, SumOfAppend, Zenon DEF SumExact
<1>4. CASE count = Window
  <2>1. ~(count < Window) /\ ~(Len(recent) < Window) /\ Len(recent) > 0
    BY <1>1, <1>2, <1>4
  <2>2. recent # <<>> /\ Tail(recent) \in Seq(Int)
    BY <1>1, <2>1
  <2>3. sum' = (sum - filterBuf[filterHead]) + v /\ recent' = Append(Tail(recent), v)
    BY <2>1 DEF Process, FilterApply, Observe
  <2>4. recent[1] = filterBuf[filterHead] /\ recent[1] \in Int
    <3>1. SlotOf(filterHead, count, 1) = filterHead
      BY <1>1, <1>4 DEF SlotOf, Slots
    <3> QED
      BY <1>1, <1>2, <2>1, <3>1
  <2>5. SumOf(Tail(recent)) = sum - recent[1]
    BY <1>1, <1>2, <2>2, SumOfTail
  <2>6. SumOf(Append(Tail(recent), v)) = SumOf(Tail(recent)) + v
    BY <1>1, <2>2, SumOfAppend, Zenon
  <2> QED
    BY <2>3, <2>4, <2>5, <2>6, Zenon DEF SumExact
<1> QED
  BY <1>1, <1>3, <1>4

\* It holds after every sample.
LEMMA NextProcessor == ProcessorInv /\ [ProcessorNext]_processorVars => ProcessorInv'
<1> SUFFICES ASSUME ProcessorInv, [ProcessorNext]_processorVars PROVE ProcessorInv'
  OBVIOUS
<1>1. ASSUME NEW v \in Sample, Process(v) PROVE ProcessorInv'
  BY <1>1, DetectorStep, FilterStep, SumStep, Zenon DEF ProcessorInv, ProcessorTypeOK
<1>2. CASE UNCHANGED processorVars
  BY <1>2, Zenon DEF processorVars, filterVars, detectorVars, ghostVars, ProcessorInv, ProcessorTypeOK, CounterTracksRun,
              AlarmExact, RingHoldsWindow, SumExact
<1> QED
  BY <1>1, <1>2, ResetProcessor DEF ProcessorNext

-------------------------------------------------------------------------------
(* The theorems *)

\* The invariant holds of every sequence of samples and resets.
THEOREM ProcessorInvariance == ProcessorSpec => []ProcessorInv
BY InitProcessor, NextProcessor, PTL DEF ProcessorSpec

\* ThresholdDetector raises its alarm for exactly the runs of at least K samples
\* out of band, for every K, and an overflow of consecutive_ never shows.
THEOREM AlarmIsExact == ProcessorSpec => []AlarmExact
BY ProcessorInvariance, PTL DEF ProcessorInv

\* The buffer of MovingAverageFilter holds the last samples, at most Window.
THEOREM RingIsWindow == ProcessorSpec => []RingHoldsWindow
BY ProcessorInvariance, PTL DEF ProcessorInv

\* The running sum of MovingAverageFilter never drifts from the window: however many
\* samples it has added and taken off, it is the sum of the samples the buffer holds.
THEOREM SumIsExact == ProcessorSpec => []SumExact
BY ProcessorInvariance, PTL DEF ProcessorInv
===============================================================================
