------------------------- MODULE TelemetryNodeProofs -------------------------
(***************************************************************************)
(* A worker node is what the coordinator takes it for, its status answers  *)
(* are in order, and Stop() leaves nothing behind, for any number of       *)
(* streams, samples and calls of Start() and Stop().                       *)
(***************************************************************************)
EXTENDS TelemetryNode, TelemetryCoordinator, FiniteSetTheorems, TLAPS

Alive == fsm \in {"RUNNING", "FAULT"}
NoCalls == statusAt = -1 /\ \A s \in Stream : streamAt[s] \in {"none", "returned"}

(* What each phase of Start() and Stop() knows of running_, the state      *)
(* machine, the server and the producer.                                   *)
OwnerInv ==
  /\ ownerAt = "idle" /\ ~running => fsm \in {"IDLE", "SHUTDOWN"}
  /\ ownerAt = "idle" /\ running => fsm # "IDLE"
  /\ ownerAt = "starting" => running /\ fsm \in {"IDLE", "SHUTDOWN"}
  /\ ownerAt = "spawn" => running /\ fsm = "RUNNING" /\ producerAt = "none"
  /\ ownerAt = "listen" => running /\ Alive
  /\ ownerAt \in {"notify", "close", "drain", "join"} => ~running /\ fsm # "IDLE"
  /\ ownerAt = "shutdown" => ~running /\ fsm # "IDLE" /\ producerAt = "none"
  /\ ownerAt = "close" => server = "up"
  /\ ownerAt = "drain" <=> server = "draining"
  /\ server # "null" => Alive /\ ownerAt \in {"idle", "notify", "close", "drain"}
  /\ server = "null" => NoCalls
  /\ producerAt # "none" => Alive

(* The producer stores a value, then faults, then counts.                  *)
ProducerInv ==
  /\ counted = IF producerAt \in {"fault", "count"} THEN produced - 1 ELSE produced
  /\ faultedBy <= produced /\ faultedBy <= counted + 1

(* What a status in progress has read is not ahead of the node, and the    *)
(* fault it has seen is still there.                                       *)
StatusInv ==
  /\ statusAt >= 1 /\ status.state = "FAULT" => fsm = "FAULT"
  /\ statusAt >= 2 => status.count <= counted
  /\ statusAt >= 2 /\ status.state = "FAULT" => status.count >= faultedBy - 1
  /\ statusAt <= 0 => status = NoStatus
  /\ statusAt = 3 => status.value >= status.count
  /\ statusAt = 3 /\ status.state = "FAULT" => status.value >= faultedBy

(* The inductive invariant of owner, producer and status requests.         *)
NodeInv == OwnerTypeOK /\ OwnerInv /\ ProducerInv /\ StatusInv

-----------------------------------------------------------------------------
(* The invariant holds when the node is made.                              *)
LEMMA InitNodeInv == Init => NodeInv
<1> SUFFICES ASSUME Init PROVE NodeInv
  OBVIOUS
<1> USE BoundAssumption DEF Init
<1>1. OwnerTypeOK
  <2>1. status \in [state : {"IDLE", "RUNNING", "FAULT", "SHUTDOWN"},
                    count : 0 .. MaxSamples, value : 0 .. MaxSamples]
    BY DEF NoStatus
  <2>2. running \in BOOLEAN  BY Zenon
  <2>3. run \in 0 .. K /\ produced \in 0 .. MaxSamples /\ statusAt \in -1 .. 3
    OBVIOUS
  <2> QED  BY <2>1, <2>2, <2>3 DEF OwnerTypeOK
<1>2. OwnerInv  BY DEF OwnerInv, NoCalls, Alive
<1>3. ProducerInv /\ StatusInv  BY DEF ProducerInv, StatusInv, NoStatus
<1> QED  BY <1>1, <1>2, <1>3 DEF NodeInv

(* Start() and Stop() keep it.                                             *)
LEMMA OwnerNodeInv == NodeInv /\ (StartCalled \/ StopCalled \/ OwnerReturns) => NodeInv'
<1> SUFFICES ASSUME NodeInv, StartCalled \/ StopCalled \/ OwnerReturns PROVE NodeInv'
  OBVIOUS
<1> USE DEF NodeInv, OwnerTypeOK, OwnerInv, ProducerInv, StatusInv, Alive,
            producerVars, streamVars, statusVars
<1>1. CASE StartCalled  BY <1>1 DEF StartCalled, NoCalls
<1>2. CASE StartFsm  BY <1>2 DEF StartFsm, NoCalls
<1>3. CASE StartThrows  BY <1>3 DEF StartThrows, NoCalls
<1>4. CASE SpawnProducer  BY <1>4 DEF SpawnProducer, NoCalls
<1>5. CASE Listen  BY <1>5 DEF Listen, NoCalls
<1>6. CASE StopCalled
  <2>1. /\ ownerAt = "idle" /\ running /\ ownerAt' = "notify" /\ running' = FALSE
        /\ UNCHANGED <<fsm, server, producerVars, streamVars>>
    BY <1>6 DEF StopCalled
  <2>2. OwnerTypeOK'  BY <2>1, Zenon
  <2>3. ProducerInv' /\ StatusInv'  BY <2>1
  <2>4. NoCalls' = NoCalls  BY <2>1 DEF NoCalls
  <2>5. OwnerInv'
    <3> HIDE DEF OwnerTypeOK, ProducerInv, StatusInv
    <3> QED  BY <2>1, <2>4
  <2> QED  BY <2>2, <2>3, <2>5, Zenon
<1>7. CASE StopNotify
  <2>1. NoCalls => NoCalls'  BY <1>7 DEF StopNotify, NoCalls
  <2> QED  BY <1>7, <2>1 DEF StopNotify
<1>8. CASE StopClose  BY <1>8 DEF StopClose, NoCalls
<1>9. CASE StopDrain  BY <1>9 DEF StopDrain, NoCalls
<1>10. CASE StopJoin  BY <1>10 DEF StopJoin, NoCalls
<1>11. CASE StopShutdown  BY <1>11, SMTT(30) DEF StopShutdown, NoCalls
<1> QED
  BY <1>1, <1>2, <1>3, <1>4, <1>5, <1>6, <1>7, <1>8, <1>9, <1>10, <1>11, Zenon DEF OwnerReturns

(* The producer keeps it: what a status has read before is behind it.      *)
LEMMA ProducerNodeInv == NodeInv /\ Producer => NodeInv'
<1> SUFFICES ASSUME NodeInv, Producer PROVE NodeInv'
  OBVIOUS
<1> USE BoundAssumption
<1> USE DEF NodeInv, OwnerTypeOK, OwnerInv, ProducerInv, StatusInv, Alive,
            ownerVars, streamVars, statusVars
<1>1. CASE ProducerTest  BY <1>1 DEF ProducerTest, NoCalls
<1>2. CASE ProducerProcess  BY <1>2 DEF ProducerProcess, NoCalls
<1>3. CASE ProducerFault  BY <1>3 DEF ProducerFault, NoCalls
<1>4. CASE ProducerCount  BY <1>4 DEF ProducerCount, NoCalls
<1>5. CASE ProducerSkip  BY <1>5 DEF ProducerSkip, NoCalls
<1>6. CASE PushSnapshot
  <2>1. NoCalls => NoCalls'  BY <1>6, Zenon DEF PushSnapshot, NoCalls, statusVars
  <2> QED  BY <1>6, <2>1 DEF PushSnapshot
<1> QED  BY <1>1, <1>2, <1>3, <1>4, <1>5, <1>6, Zenon DEF Producer

(* A status request keeps it: it reads the count before the value.         *)
LEMMA StatusNodeInv == NodeInv /\ (StatusCall \/ StatusHandler) => NodeInv'
<1> SUFFICES ASSUME NodeInv, StatusCall \/ StatusHandler PROVE NodeInv'
  OBVIOUS
<1> USE DEF NodeInv, OwnerTypeOK, OwnerInv, ProducerInv, StatusInv, Alive,
            ownerVars, producerVars, NoCalls
<1>1. CASE StatusCall  BY <1>1 DEF StatusCall
<1>2. CASE StatusRead
  <2>1. CASE statusAt = 0
    <3>1. status' = [status EXCEPT !.state = fsm]  BY <1>2, <2>1 DEF StatusRead, StatusFields
    <3> QED  BY <1>2, <2>1, <3>1 DEF StatusRead, NoStatus
  <2>2. CASE statusAt = 1
    <3>1. status' = [status EXCEPT !.count = counted]  BY <1>2, <2>2 DEF StatusRead, StatusFields
    <3> QED  BY <1>2, <2>2, <3>1 DEF StatusRead
  <2>3. CASE statusAt = 2
    <3>1. status' = [status EXCEPT !.value = produced]  BY <1>2, <2>3 DEF StatusRead, StatusFields
    <3> QED  BY <1>2, <2>3, <3>1 DEF StatusRead
  <2> QED  BY <1>2, <2>1, <2>2, <2>3 DEF StatusRead
<1>3. CASE StatusReply  BY <1>3, BoundAssumption DEF StatusReply, NoStatus
<1> QED  BY <1>1, <1>2, <1>3 DEF StatusHandler

(* A stream touches nothing of it, and runs only while there is a server.  *)
LEMMA StreamNodeInv ==
  ASSUME NodeInv, NEW s \in Stream, StreamCall(s) \/ StreamEnds(s) \/ Handler(s)
  PROVE  NodeInv'
<1>1. UNCHANGED <<ownerVars, producerVars, statusVars>>
  BY DEF StreamCall, StreamEnds, Handler, StreamLoop, PopCheck, PopBlock, PopTimeout, PopRecheck,
         StreamWrite
<1>2. server # "null"
  BY DEF NodeInv, OwnerInv, NoCalls, StreamCall, StreamEnds, Handler, StreamLoop, PopCheck, PopBlock,
         PopTimeout, PopRecheck, StreamWrite
<1> QED
  BY <1>1, <1>2 DEF NodeInv, OwnerTypeOK, OwnerInv, ProducerInv, StatusInv, Alive, ownerVars,
                    producerVars, statusVars

(* No step breaks it.                                                      *)
LEMMA StepNodeInv == NodeInv /\ [Next]_vars => NodeInv'
<1> SUFFICES ASSUME NodeInv, [Next]_vars PROVE NodeInv'
  BY Zenon
<1>1. CASE UNCHANGED vars
  BY <1>1 DEF vars, NodeInv, OwnerTypeOK, OwnerInv, ProducerInv, StatusInv, Alive, NoCalls
<1> QED
  BY <1>1, OwnerNodeInv, ProducerNodeInv, StatusNodeInv, StreamNodeInv DEF Next

(* The invariant of owner, producer and status requests holds always.      *)
THEOREM Invariance == Spec => []NodeInv
BY InitNodeInv, StepNodeInv, PTL DEF Spec

(* A status answer is in order: its value is no older than its count, nor  *)
(* than the fault it reports (GetNodeStatus() reads three atomics).        *)
THEOREM StatusIsInOrder == Spec => []StatusInOrder
<1>1. NodeInv => StatusInOrder
  BY DEF NodeInv, StatusInv, StatusInOrder
<1> QED  BY Invariance, <1>1, PTL

(* After Stop() nothing of the node runs.                                  *)
THEOREM StopIsComplete == Spec => []StoppedIsStopped
<1>1. NodeInv => StoppedIsStopped
  BY DEF NodeInv, OwnerTypeOK, OwnerInv, Alive, NoCalls, StoppedIsStopped
<1> QED  BY Invariance, <1>1, PTL

(* The node implements the WorkerNode that the coordinator polls: FAULT is *)
(* shown until the end, and IDLE and SHUTDOWN never are.                   *)
THEOREM NodeImplementsWorker == Spec => WorkerSpec
<1>1. Init => AsWorker!Init  BY SMTT(30) DEF Init, AsWorker!Init, Visible
<1>2. NodeInv /\ [Next]_vars => [AsWorker!Next]_Visible
  <2> SUFFICES ASSUME NodeInv, [Next]_vars PROVE [AsWorker!Next]_Visible
    BY Zenon
  <2> USE DEF NodeInv, OwnerTypeOK, OwnerInv, Alive, Visible, AsWorker!Next, AsWorker!Listen,
              AsWorker!Fault, AsWorker!Close, AsWorker!Answer
  <2>1. CASE StartCalled \/ StopCalled  BY <2>1, Zenon DEF StartCalled, StopCalled
  <2>2. CASE StartFsm \/ StartThrows \/ SpawnProducer
    BY <2>2, Zenon DEF StartFsm, StartThrows, SpawnProducer
  <2>3. CASE Listen  BY <2>3, Zenon DEF Listen
  <2>4. CASE StopNotify \/ StopClose  BY <2>4, Zenon DEF StopNotify, StopClose
  <2>5. CASE StopDrain  BY <2>5, Zenon DEF StopDrain
  <2>6. CASE StopJoin \/ StopShutdown  BY <2>6, Zenon DEF StopJoin, StopShutdown
  <2>7. CASE ProducerFault  BY <2>7, Zenon DEF ProducerFault
  <2>8. CASE UNCHANGED <<ownerAt, fsm, server>>  BY <2>8, Zenon
  <2>9. CASE Producer
    BY <2>7, <2>8, <2>9, Zenon DEF Producer, ProducerTest, ProducerProcess, ProducerCount, ProducerSkip,
                            PushSnapshot, ownerVars
  <2>10. CASE StatusCall \/ StatusHandler
    BY <2>8, <2>10, Zenon DEF StatusCall, StatusHandler, StatusRead, StatusReply, ownerVars
  <2>11. ASSUME NEW s \in Stream, StreamCall(s) \/ StreamEnds(s) \/ Handler(s)
         PROVE UNCHANGED <<ownerAt, fsm, server>>
    BY <2>11, Zenon DEF StreamCall, StreamEnds, Handler, StreamLoop, PopCheck, PopBlock, PopTimeout,
                 PopRecheck, StreamWrite, ownerVars
  <2>12. CASE UNCHANGED vars  BY <2>8, <2>12, Zenon DEF vars
  <2> QED
    BY <2>1, <2>2, <2>3, <2>4, <2>5, <2>6, <2>8, <2>9, <2>10, <2>11, <2>12, Zenon DEF Next, OwnerReturns
<1> QED  BY Invariance, <1>1, <1>2, PTL DEF Spec, WorkerSpec, AsWorker!Spec

-----------------------------------------------------------------------------
(* The queue.                                                              *)

\* The last sample that was pushed.
Pushed == IF producerAt \in {"fault", "count", "push"} THEN produced - 1 ELSE produced

(* The queue is the last samples pushed, and every stream is behind it.    *)
QueueInv ==
  /\ queue \in Seq(1 .. MaxSamples) /\ Len(queue) <= STREAM_QUEUE_CAP
  /\ received \in [Stream -> 0 .. MaxSamples]
  /\ produced \in 0 .. MaxSamples
  /\ producerAt \in {"fault", "count", "push"} => produced >= 1
  /\ \A i \in 1 .. Len(queue) : queue[i] = Pushed - (Len(queue) - i)
  /\ \A s \in Stream : received[s] <= Pushed - Len(queue)
  /\ \A s, r \in Stream : s # r /\ received[s] # 0 => received[s] # received[r]

(* The invariant of the queue says what was to be shown.                   *)
LEMMA QueueInvIsRecent == QueueInv => QueueIsRecent
<1> SUFFICES ASSUME QueueInv PROVE QueueIsRecent
  OBVIOUS
<1>1. Pushed \in Int /\ Len(queue) \in Nat  BY DEF QueueInv, Pushed
<1>2. queue # << >> => Len(queue) \in 1 .. Len(queue) /\ 1 \in 1 .. Len(queue) /\ Head(queue) = queue[1]
  BY DEF QueueInv
<1>3. queue # << >> => queue[Len(queue)] = Pushed /\ Head(queue) = Pushed - (Len(queue) - 1)
  BY <1>1, <1>2 DEF QueueInv
<1>4. \A i \in 1 .. Len(queue) : queue[i] = queue[Len(queue)] - (Len(queue) - i)
  BY <1>1, <1>3 DEF QueueInv
<1>5. \A s \in Stream : queue # << >> => received[s] < Head(queue)
  BY <1>1, <1>3 DEF QueueInv
<1> QED  BY <1>3, <1>4, <1>5 DEF QueueInv, QueueIsRecent, Pushed

(* A push keeps it, with or without the oldest sample dropped.             *)
LEMMA PushQueueInv == QueueInv /\ PushSnapshot => QueueInv'
<1> SUFFICES ASSUME QueueInv, PushSnapshot PROVE QueueInv'
  OBVIOUS
<1> USE CapAssumption, BoundAssumption
<1> DEFINE q == IF Len(queue) >= STREAM_QUEUE_CAP THEN Tail(queue) ELSE queue
<1>1. queue' = Append(q, produced) /\ received' = received /\ produced' = produced
      /\ producerAt = "push" /\ producerAt' = "test"
  BY DEF PushSnapshot
<1>2. Pushed = produced - 1 /\ Pushed' = produced /\ produced \in 1 .. MaxSamples
  BY <1>1 DEF Pushed, QueueInv
<1>3. /\ q \in Seq(1 .. MaxSamples) /\ Len(q) <= STREAM_QUEUE_CAP - 1
      /\ Len(q) \in Nat /\ Len(q) <= Len(queue)
      /\ \A i \in 1 .. Len(q) : q[i] = Pushed - (Len(q) - i)
  <2>1. CASE Len(queue) >= STREAM_QUEUE_CAP
    <3>1. queue # << >> /\ queue \in Seq(1 .. MaxSamples) /\ Len(queue) = STREAM_QUEUE_CAP
      BY <2>1 DEF QueueInv
    <3>2. Tail(queue) \in Seq(1 .. MaxSamples) /\ Len(Tail(queue)) = Len(queue) - 1
      BY <3>1
    <3>3. \A i \in 1 .. Len(Tail(queue)) : Tail(queue)[i] = queue[i + 1] /\ i + 1 \in 1 .. Len(queue)
      BY <3>1, <3>2
    <3>4. \A i \in 1 .. Len(Tail(queue)) : Tail(queue)[i] = Pushed - (Len(Tail(queue)) - i)
      <4> SUFFICES ASSUME NEW i \in 1 .. Len(Tail(queue))
                   PROVE  Tail(queue)[i] = Pushed - (Len(Tail(queue)) - i)
        OBVIOUS
      <4>1. queue[i + 1] = Pushed - (Len(queue) - (i + 1))  BY <3>3 DEF QueueInv
      <4>2. i \in Int /\ Pushed \in Int /\ Len(queue) \in Int  BY <1>2, <3>1, <3>2
      <4> QED  BY <3>2, <3>3, <4>1, <4>2
    <3> QED  BY <2>1, <3>1, <3>2, <3>4
  <2>2. CASE ~(Len(queue) >= STREAM_QUEUE_CAP)  BY <2>2 DEF QueueInv
  <2> QED  BY <2>1, <2>2, Zenon
<1> HIDE DEF q
<1>4. /\ queue' \in Seq(1 .. MaxSamples) /\ Len(queue') = Len(q) + 1
      /\ \A i \in 1 .. Len(q) : queue'[i] = q[i]
      /\ queue'[Len(q) + 1] = produced
  BY <1>1, <1>2, <1>3
<1>5. \A i \in 1 .. Len(queue') : queue'[i] = Pushed' - (Len(queue') - i)
  <2> SUFFICES ASSUME NEW i \in 1 .. Len(queue') PROVE queue'[i] = Pushed' - (Len(queue') - i)
    OBVIOUS
  <2>1. i \in 1 .. Len(q) \/ i = Len(q) + 1  BY <1>3, <1>4
  <2>2. CASE i \in 1 .. Len(q)
    <3>1. queue'[i] = Pushed - (Len(q) - i)  BY <2>2, <1>3, <1>4
    <3> QED  BY <3>1, <1>2, <1>3, <1>4
  <2>3. CASE i = Len(q) + 1  BY <2>3, <1>2, <1>3, <1>4
  <2> QED  BY <2>1, <2>2, <2>3
<1>6. \A s \in Stream : received[s] <= Pushed' - Len(queue')
  <2>1. \A s \in Stream : received[s] <= Pushed - Len(queue) /\ received[s] \in 0 .. MaxSamples
    BY Zenon DEF QueueInv
  <2> QED  BY <1>2, <1>3, <1>4, <2>1 DEF QueueInv
<1> QED  BY <1>1, <1>2, <1>3, <1>4, <1>5, <1>6 DEF QueueInv

(* Taking the front keeps it: what is taken is newer than all taken before.*)
LEMMA PopQueueInv ==
  ASSUME QueueInv, NEW s \in Stream, NEW next, PopFront(s, next), UNCHANGED <<producerAt, produced>>
  PROVE  QueueInv'
<1>1. CASE queue = << >>
  BY <1>1 DEF PopFront, QueueInv, Pushed
<1>2. CASE queue # << >>
  <2>1. queue' = Tail(queue) /\ received' = [received EXCEPT ![s] = Head(queue)]
    BY <1>2, Zenon DEF PopFront
  <2>2. /\ queue' \in Seq(1 .. MaxSamples) /\ Len(queue') = Len(queue) - 1 /\ Len(queue) \in Nat
        /\ Head(queue) = queue[1] /\ 1 \in 1 .. Len(queue) /\ Head(queue) \in 1 .. MaxSamples
        /\ \A i \in 1 .. Len(queue') : queue'[i] = queue[i + 1] /\ i + 1 \in 1 .. Len(queue)
    <3> DEFINE Sample == 1 .. MaxSamples
    <3>1. queue \in Seq(Sample)  BY DEF QueueInv
    <3> HIDE DEF Sample
    <3>2. Len(queue) \in Nat \ {0} /\ Head(queue) = queue[1] /\ Head(queue) \in Sample
      BY <1>2, <3>1
    <3>3. Tail(queue) \in Seq(Sample) /\ Len(Tail(queue)) = Len(queue) - 1
      BY <1>2, <3>1
    <3>4. \A i \in 1 .. Len(Tail(queue)) : Tail(queue)[i] = queue[i + 1]
      BY <1>2, <3>1
    <3> QED  BY <2>1, <3>2, <3>3, <3>4 DEF Sample
  <2>3. Pushed' = Pushed /\ Pushed \in Int /\ Head(queue) = Pushed - (Len(queue) - 1)
    BY <2>2 DEF QueueInv, Pushed
  <2>4. received' \in [Stream -> 0 .. MaxSamples]  BY <2>1, <2>2 DEF QueueInv
  <2>5. \A i \in 1 .. Len(queue') : queue'[i] = Pushed' - (Len(queue') - i)
    BY <2>2, <2>3 DEF QueueInv
  <2>6. \A r \in Stream : received[r] < Head(queue) /\ received'[r] <= Pushed' - Len(queue')
    BY <2>1, <2>2, <2>3 DEF QueueInv
  <2>7. \A p, r \in Stream : p # r /\ received'[p] # 0 => received'[p] # received'[r]
    BY <2>1, <2>6 DEF QueueInv
  <2>8. Len(queue') <= STREAM_QUEUE_CAP  BY <2>2, CapAssumption DEF QueueInv
  <2> QED  BY <2>2, <2>4, <2>5, <2>6, <2>7, <2>8, Zenon DEF QueueInv
<1> QED  BY <1>1, <1>2, Zenon

(* Every step keeps it.                                                    *)
LEMMA StepQueueInv == NodeInv /\ QueueInv /\ [Next]_vars => QueueInv'
<1> SUFFICES ASSUME NodeInv, QueueInv, [Next]_vars PROVE QueueInv'
  BY Zenon
<1>1. CASE UNCHANGED <<queue, received, produced>> /\ Pushed' = Pushed
           /\ (producerAt' \in {"fault", "count", "push"} => producerAt \in {"fault", "count", "push"})
  BY <1>1 DEF QueueInv
<1>2. CASE StartCalled \/ StopCalled \/ OwnerReturns
  <2>1. /\ UNCHANGED <<queue, received, produced>> /\ Pushed' = Pushed
        /\ (producerAt' \in {"fault", "count", "push"} => producerAt \in {"fault", "count", "push"})
    BY <1>2, Zenon DEF OwnerReturns, StartCalled, StopCalled, StartFsm, StartThrows, SpawnProducer, Listen,
                StopNotify, StopClose, StopDrain, StopJoin, StopShutdown, producerVars, streamVars,
                Pushed, NodeInv, OwnerInv
  <2> QED  BY <1>1, <2>1, SMTT(30)
<1>3. CASE ProducerTest \/ ProducerFault \/ ProducerCount \/ ProducerSkip
  <2>1. /\ UNCHANGED <<queue, received, produced>> /\ Pushed' = Pushed
        /\ (producerAt' \in {"fault", "count", "push"} => producerAt \in {"fault", "count", "push"})
    BY <1>3, Zenon DEF ProducerTest, ProducerFault, ProducerCount, ProducerSkip, streamVars, Pushed
  <2> QED  BY <1>1, <2>1, Zenon
<1>4. CASE ProducerProcess
  <2>1. UNCHANGED <<queue, received>> /\ produced' = produced + 1 /\ produced < MaxSamples
        /\ producerAt' = "fault" /\ producerAt = "process"
    BY <1>4, Zenon DEF ProducerProcess, streamVars
  <2>2. Pushed' = Pushed  BY <2>1 DEF Pushed, QueueInv
  <2> QED  BY <2>1, <2>2, BoundAssumption DEF QueueInv
<1>5. CASE PushSnapshot  BY <1>5, PushQueueInv
<1>6. CASE StatusCall \/ StatusHandler
  BY <1>1, <1>6, Zenon DEF StatusCall, StatusHandler, StatusRead, StatusReply, producerVars, Pushed
<1>7. ASSUME NEW s \in Stream, StreamCall(s) \/ StreamEnds(s) \/ Handler(s) PROVE QueueInv'
  <2>1. CASE PopCheck(s)
    BY <2>1, PopQueueInv DEF PopCheck, producerVars
  <2>2. CASE PopRecheck(s)
    BY <2>2, PopQueueInv, Zenon DEF PopRecheck, producerVars
  <2>3. CASE StreamCall(s) \/ StreamEnds(s) \/ StreamLoop(s) \/ PopBlock(s) \/ PopTimeout(s) \/ StreamWrite(s)
    BY <1>1, <2>3, Zenon DEF StreamCall, StreamEnds, StreamLoop, PopBlock, PopTimeout, StreamWrite,
                      producerVars, Pushed
  <2> QED  BY <1>7, <2>1, <2>2, <2>3, Zenon DEF Handler
<1>8. CASE UNCHANGED vars  BY <1>1, <1>8 DEF vars, Pushed
<1> QED
  BY <1>2, <1>3, <1>4, <1>5, <1>6, <1>7, <1>8, Zenon DEF Next, Producer

(* Samples are delivered in order, at most once, and the queue keeps the   *)
(* newest: PushSnapshot() and PopSnapshot() of any number of streams.      *)
THEOREM QueueKeepsNewest == Spec => []QueueIsRecent
<1>1. Init => QueueInv
  <2>1. ASSUME Init PROVE QueueInv
    <3>1. queue \in Seq(1 .. MaxSamples) /\ Len(queue) = 0  BY <2>1 DEF Init
    <3>2. received = [s \in Stream |-> 0] /\ produced = 0 /\ producerAt = "none"  BY <2>1 DEF Init
    <3> QED  BY <3>1, <3>2, CapAssumption, BoundAssumption DEF QueueInv, Pushed
  <2> QED  BY <2>1
<1>2. NodeInv /\ QueueInv /\ [Next]_vars => (NodeInv /\ QueueInv)'  BY StepNodeInv, StepQueueInv
<1> QED  BY InitNodeInv, QueueInvIsRecent, <1>1, <1>2, PTL DEF Spec

-------------------------------------------------------------------------------
(***************************************************************************)
(* The coordinator, which takes each of its nodes for a WorkerNode, with   *)
(* any finite set of workers.                                              *)
(***************************************************************************)

(* What the coordinator has of a node, as far as it is not from before a       *)
(* restart: a FAULT that was answered, recorded or listed is still there, and  *)
(* no answer given before it is on its way any more.  Nothing is younger than  *)
(* what it is copied from.                                                     *)
FaultStays(w) ==
  /\ "answer" \in outdated[w] /\ lastStatus[w] # "empty" => "status" \in outdated[w]
  /\ "answer" \notin outdated[w] /\ answer[w] = "FAULT" => node[w] \in {"FAULT", "down"}
  /\ "status" \notin outdated[w] /\ lastStatus[w] = "FAULT" =>
       node[w] \in {"FAULT", "down"} /\ answer[w] # "RUNNING"
  /\ "listed" \notin outdated[w] /\ listed[w] = "FAULT" =>
       "status" \notin outdated[w] /\ lastStatus[w] = "FAULT"
  /\ node[w] = "off" => answer[w] = "failed" /\ lastStatus[w] = "empty"

AnswerInv == \A w \in Worker : FaultStays(w)

\* main() goes on to Stop() when the server thread has ended, and no request outlives that.
ServerOver ==
  /\ mainAt = "start" => serverAt = "none"
  /\ mainAt \in {"stopPolling", "join", "exit"} => serverAt = "ended"
  /\ serverAt \in {"none", "spawned", "ended"} => healthAt = "idle"

UseInv == CoordinatorOutlivesUse /\ ServerOver
FaultInv == AnswerInv /\ FaultNotContradicted

\* Both invariants hold when the coordinator starts.
LEMMA InitCoordinator == CoordinatorInit => UseInv /\ FaultInv
<1> SUFFICES ASSUME CoordinatorInit PROVE UseInv /\ FaultInv
  OBVIOUS
<1>1. CoordinatorTypeOK
  BY Zenon DEF CoordinatorInit, CoordinatorTypeOK, NodeState
<1>2. UseInv
  BY <1>1 DEF CoordinatorInit, UseInv, CoordinatorOutlivesUse, ServerOver
<1>3. FaultInv
  BY DEF CoordinatorInit, FaultInv, AnswerInv, FaultStays, FaultNotContradicted
<1> QED
  BY <1>2, <1>3

-------------------------------------------------------------------------------
(* The threads and what they keep *)

\* A node that starts, faults or stops keeps UseInv.
LEMMA NodeUse ==
  ASSUME UseInv, NEW w \in Worker, NodeListens(w) \/ NodeFaults(w) \/ NodeStops(w)
  PROVE  UseInv'
<1> USE DEF UseInv, CoordinatorOutlivesUse, CoordinatorTypeOK, NodeState, ServerOver, NodeBecomes,
            pollVars, healthVars, mainVars
<1>1. CASE NodeListens(w)
  <2>1. PICK state \in NodeState : NodeBecomes(w, state)
    BY <1>1, Zenon DEF NodeListens
  <2>2. Kept(w) \in SUBSET {"answer", "status", "listed"}
    BY Zenon DEF Kept
  <2>3. outdated' \in [Worker -> SUBSET {"answer", "status", "listed"}]
    BY <1>1, <2>2, Zenon DEF NodeListens
  <2> QED
    BY <2>1, <2>3, Zenon
<1>2. CASE NodeFaults(w)
  BY <1>2, Zenon DEF NodeFaults
<1>3. CASE NodeStops(w)
  BY <1>3, Zenon DEF NodeStops
<1> QED
  BY <1>1, <1>2, <1>3, Zenon

\* So does every step of PollWorker().
LEMMA PollUse ==
  ASSUME UseInv, NEW w \in Worker, PollWorker(w)
  PROVE  UseInv'
<1> USE DEF UseInv, CoordinatorOutlivesUse, CoordinatorTypeOK, NodeState, ServerOver, healthVars, mainVars
<1>1. CASE PollTest(w)
  BY <1>1, Zenon DEF PollTest
<1>2. CASE PollAnswered(w)
  BY <1>2, Zenon DEF PollAnswered
<1>3. CASE PollFailed(w)
  BY <1>3, Zenon DEF PollFailed
<1>4. CASE PollRecord(w)
  <2>1. outdated' \in [Worker -> SUBSET {"answer", "status", "listed"}]
    BY <1>4 DEF PollRecord, Copied
  <2> QED
    BY <1>4, <2>1, Zenon DEF PollRecord
<1> QED
  BY <1>1, <1>2, <1>3, <1>4, Zenon DEF PollWorker

\* So does every step of the /health handler and of the thread that serves it.
LEMMA HealthUse ==
  ASSUME UseInv, HealthList \/ HealthReply \/ Server
  PROVE  UseInv'
<1> USE DEF UseInv, CoordinatorOutlivesUse, CoordinatorTypeOK, NodeState, ServerOver, pollVars,
            healthVars, mainVars
<1>1. CASE HealthList
  <2>1. outdated' \in [Worker -> SUBSET {"answer", "status", "listed"}]
    BY <1>1 DEF HealthList, Copied
  <2> QED
    BY <1>1, <2>1, Zenon DEF HealthList
<1>2. CASE HealthReply
  <2>1. outdated' \in [Worker -> SUBSET {"answer", "status", "listed"}]
    BY <1>2 DEF HealthReply
  <2>2. listed' \in [Worker -> NodeState \cup {"empty"}]
    BY <1>2 DEF HealthReply
  <2>3. allRunning' \in BOOLEAN
    BY <1>2, Zenon DEF HealthReply, AllNodesRunning
  <2> QED
    BY <1>2, <2>1, <2>2, <2>3, Zenon DEF HealthReply
<1>3. CASE Server
  BY <1>3, ZenonT(60) DEF Server, ServerListens, ServerEnds
<1> QED
  BY <1>1, <1>2, <1>3, Zenon

\* So does every step of main(), which alone takes the coordinator down.
LEMMA MainUse ==
  ASSUME UseInv, Signal \/ Main \/ UNCHANGED coordinatorVars
  PROVE  UseInv'
<1> USE DEF UseInv, CoordinatorOutlivesUse, CoordinatorTypeOK, ServerOver, pollVars, healthVars
<1>1. CASE Signal
  BY <1>1, Zenon DEF Signal
<1>2. CASE MainStart
  BY <1>2, Zenon DEF MainStart
<1>3. CASE MainStopServer
  BY <1>3, Zenon DEF MainStopServer
<1>4. CASE MainJoinServer
  BY <1>4, Zenon DEF MainJoinServer
<1>5. CASE MainStopPolling
  BY <1>5, Zenon DEF MainStopPolling
<1>6. CASE MainJoin
  BY <1>6, Zenon DEF MainJoin
<1>7. CASE UNCHANGED coordinatorVars
  BY <1>7 DEF coordinatorVars, mainVars
<1> QED
  BY <1>1, <1>2, <1>3, <1>4, <1>5, <1>6, <1>7, ZenonT(60) DEF Main

\* Every step keeps UseInv.
LEMMA StepUse == UseInv /\ [CoordinatorNext]_coordinatorVars => UseInv'
BY NodeUse, PollUse, HealthUse, MainUse, SMTT(30) DEF CoordinatorNext

-------------------------------------------------------------------------------
(* What they say of a fault *)

\* The types the argument needs.
StatusTypes ==
  /\ node \in [Worker -> NodeState \cup {"off", "down"}]
  /\ answer \in [Worker -> NodeState \cup {"failed"}]
  /\ lastStatus \in [Worker -> NodeState \cup {"empty"}]
  /\ listed \in [Worker -> NodeState \cup {"empty"}]
  /\ outdated \in [Worker -> SUBSET {"answer", "status", "listed"}]

\* A node that starts, faults or stops keeps FaultInv.
LEMMA NodeFault ==
  ASSUME StatusTypes, FaultInv, NEW w \in Worker,
         NodeListens(w) \/ NodeFaults(w) \/ NodeStops(w)
  PROVE  FaultInv'
<1> USE DEF StatusTypes, FaultInv, AnswerInv, FaultStays, FaultNotContradicted,
            NodeBecomes, pollVars, healthVars
<1>1. CASE NodeListens(w)
  <2>1. PICK state \in NodeState : NodeBecomes(w, state) /\ node[w] \in {"off", "down"}
    BY <1>1, ZenonT(60) DEF NodeListens, Node!Listen
  <2>2. CASE node[w] = "down"
    <3>1. outdated' = [outdated EXCEPT ![w] = Kept(w)]
      BY <1>1, <2>2, Zenon DEF NodeListens
    <3>2. /\ "answer" \in Kept(w) <=> answer[w] # "failed"
          /\ "status" \in Kept(w) <=> lastStatus[w] # "empty"
          /\ "listed" \in Kept(w) <=> listed[w] # "empty"
      BY DEF Kept
    <3>3. FaultStays(w)'
      <4>1. outdated'[w] = Kept(w) /\ UNCHANGED <<answer, lastStatus, listed>>
        BY <2>1, <3>1
      <4>2. node'[w] # "off"
        BY <2>1 DEF NodeState
      <4> QED
        BY <3>2, <4>1, <4>2, Zenon
    <3>4. \A v \in Worker \ {w} : outdated'[v] = outdated[v] /\ node'[v] = node[v]
      BY <2>1, <3>1
    <3>5. UNCHANGED <<answer, lastStatus, listed, healthAt, allRunning>>
      BY <2>1
    <3>6. AnswerInv'
      BY <3>3, <3>4, <3>5, Zenon
    <3>7. outdated'[w] = Kept(w)
      BY <3>1
    <3>8. FaultNotContradicted'
      BY <3>2, <3>4, <3>5, <3>7, ZenonT(60)
    <3> QED
      BY <3>6, <3>8
  <2>3. CASE node[w] = "off"
    <3>1. outdated' = outdated
      BY <1>1, <2>3 DEF NodeListens
    <3> QED
      BY <2>1, <2>3, <3>1, Zenon
  <2> QED
    BY <2>1, <2>2, <2>3
<1>2. CASE NodeFaults(w)
  BY <1>2, Zenon DEF NodeFaults, Node!Fault
<1>3. CASE NodeStops(w)
  BY <1>3, SMTT(30) DEF NodeStops, Node!Close
<1> QED
  BY <1>1, <1>2, <1>3, ZenonT(60)

\* So does every step of PollWorker().
LEMMA PollFault ==
  ASSUME StatusTypes, FaultInv, NEW w \in Worker, PollWorker(w)
  PROVE  FaultInv'
<1> USE DEF StatusTypes, FaultInv, AnswerInv, FaultStays, FaultNotContradicted, healthVars
<1>1. CASE PollTest(w)
  BY <1>1, Zenon DEF PollTest
<1>2. CASE PollAnswered(w)
  BY <1>2 DEF PollAnswered, NodeState
<1>3. CASE PollFailed(w)
  BY <1>3 DEF PollFailed
<1>4. CASE PollRecord(w)
  BY <1>4 DEF PollRecord, Copied, NodeState
<1> QED
  BY <1>1, <1>2, <1>3, <1>4, ZenonT(60) DEF PollWorker

\* So does every step of the /health handler and of the thread that serves it.
LEMMA HealthFault ==
  ASSUME StatusTypes, FaultInv, HealthList \/ HealthReply \/ Server
  PROVE  FaultInv'
<1> USE DEF StatusTypes, FaultInv, AnswerInv, FaultStays, FaultNotContradicted, pollVars, healthVars
<1>1. CASE HealthList
  BY <1>1 DEF HealthList, Copied
<1>2. CASE HealthReply
  <2>1. CASE allRunning'
    BY <1>2, <2>1 DEF HealthReply, AllNodesRunning
  <2>2. CASE ~allRunning'
    BY <1>2, <2>2 DEF HealthReply
  <2> QED
    BY <2>1, <2>2
<1>3. CASE Server
  <2>1. UNCHANGED <<node, outdated, answer, lastStatus, listed, healthAt, allRunning>>
    BY <1>3 DEF Server, ServerListens, ServerEnds
  <2> QED
    BY <2>1, Zenon
<1> QED
  BY <1>1, <1>2, <1>3, ZenonT(60)

\* So does every step of main().
LEMMA MainFault ==
  ASSUME FaultInv, Signal \/ Main \/ UNCHANGED coordinatorVars
  PROVE  FaultInv'
<1>1. UNCHANGED <<node, outdated, answer, lastStatus, healthVars>>
  BY DEF Signal, Main, MainStart, MainStopServer, MainJoinServer, MainStopPolling, MainJoin,
         coordinatorVars, pollVars
<1> QED
  BY <1>1, Zenon DEF FaultInv, AnswerInv, FaultStays, FaultNotContradicted, healthVars

\* Every step keeps FaultInv.
LEMMA StepFault == UseInv /\ FaultInv /\ [CoordinatorNext]_coordinatorVars => FaultInv'
<1>1. UseInv => StatusTypes
  BY DEF UseInv, CoordinatorOutlivesUse, CoordinatorTypeOK, StatusTypes
<1> QED
  BY <1>1, NodeFault, PollFault, HealthFault, MainFault, Zenon DEF CoordinatorNext

-------------------------------------------------------------------------------
(* A node keeps its fault until it is restarted (WorkerNode), PollWorker()   *)
(* has one call in flight per node, and the handler lists before it asks     *)
(* whether all run: together these make FaultNotContradicted inductive.      *)
THEOREM CoordinatorInvariance == CoordinatorSpec => [](UseInv /\ FaultInv)
BY InitCoordinator, StepUse, StepFault, PTL DEF CoordinatorSpec

\* /health lists a FAULT beside all_running only for a node restarted since it gave that
\* status, for any number of nodes, restarted any number of times.
THEOREM ReplyIsConsistent == CoordinatorSpec => []FaultNotContradicted
BY CoordinatorInvariance, PTL DEF FaultInv

\* No handler is in the coordinator once Stop() begins, no poll after it returns.
THEOREM StopIsLast == CoordinatorSpec => []CoordinatorOutlivesUse
BY CoordinatorInvariance, PTL DEF UseInv
===============================================================================
