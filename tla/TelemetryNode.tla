---------------------------- MODULE TelemetryNode ----------------------------
(***************************************************************************)
(* A worker node of the distributed system                                 *)
(* (secure_distributed_node/src/TelemetryNode.cpp): the thread that owns   *)
(* the node and starts and stops it, the producer thread, and the gRPC     *)
(* handler threads that stream samples to the clients from one bounded     *)
(* queue behind a mutex and a condition variable, or answer a status       *)
(* request from three atomics.                                             *)
(*                                                                         *)
(* Samples are numbered in the order they are produced.  The producer is   *)
(* joined before the state machine is shut down, and started after it was  *)
(* started, so no two calls of the StateManager overlap and each is a      *)
(* single step here, callbacks included.  In ProducerLoop() one thread     *)
(* both pushes to the ring and empties it, so a frame never waits there.   *)
(* alarm_active_ and last_raw_ are written and never read, and left out.   *)
(***************************************************************************)
EXTENDS Integers, Sequences

CONSTANTS
  Stream,         \* the StreamTelemetry calls clients may make
  STREAM_QUEUE_CAP,
  K,              \* out-of-band samples in a row that raise the alarm
  MaxSamples,     \* bound: samples produced
  Clients         \* bound: the sets of streams and of "status" that call in one behaviour

ASSUME CapAssumption == STREAM_QUEUE_CAP \in Nat \ {0}
ASSUME ClientsAssumption == Clients \subseteq SUBSET (Stream \cup {"status"})
ASSUME BoundAssumption == K \in Nat \ {0} /\ MaxSamples \in Nat

VARIABLES
  ownerAt,        \* where the owner's Start() or Stop() is
  running,        \* running_
  fsm,            \* fsm_->state()
  server,         \* grpc_server_: null, accepting calls, or draining
  producerAt,     \* where ProducerLoop() is
  run,            \* the detector: the alarm flag is run = K
  produced,       \* samples produced so far: last_filtered_ is the value of the last
  counted,        \* processed_count_
  faultedBy,      \* ghost: the sample that raised the fault, 0 if none has
  queue,          \* stream_queue_, as sample numbers
  mutex,          \* the stream that holds stream_mu_, or "free"
  streamAt,       \* where each handler is
  ended,          \* the call was cancelled, or its deadline of 30 s has passed
  statusAt,       \* the fields that GetNodeStatus() has read, -1 if it is not called
  status,         \* what they were
  received,       \* ghost: the number of the last sample each stream has written
  clients         \* those of Stream and "status" that call

vars == <<ownerAt, running, fsm, server, producerAt, run, produced,
          counted, faultedBy, queue, mutex, streamAt, ended, received, statusAt, status, clients>>

ownerVars == <<ownerAt, running, fsm, server, clients>>
producerVars == <<producerAt, run, produced, counted, faultedBy>>
statusVars == <<statusAt, status>>
streamVars == <<mutex, streamAt, ended, received, statusVars>>

OwnerTypeOK ==
  /\ ownerAt \in {"idle", "starting", "spawn", "listen", "notify", "close", "drain", "join", "shutdown"}
  /\ running \in BOOLEAN /\ fsm \in {"IDLE", "RUNNING", "FAULT", "SHUTDOWN"}
  /\ server \in {"null", "up", "draining"}
  /\ producerAt \in {"none", "test", "process", "fault", "count", "push", "done"}
  /\ run \in 0 .. K /\ produced \in 0 .. MaxSamples
  /\ counted \in 0 .. MaxSamples /\ faultedBy \in 0 .. MaxSamples
  /\ statusAt \in -1 .. 3
  /\ status \in [state : {"IDLE", "RUNNING", "FAULT", "SHUTDOWN"},
                 count : 0 .. MaxSamples, value : 0 .. MaxSamples]

StreamTypeOK ==
  /\ queue \in Seq(1 .. MaxSamples)
  /\ mutex \in Stream \cup {"free"}
  /\ streamAt \in [Stream -> {"none", "loop", "check", "block", "wait", "recheck", "write", "returned"}]
  /\ ended \in [Stream -> BOOLEAN]
  /\ received \in [Stream -> 0 .. MaxSamples] /\ clients \in Clients

TypeOK == OwnerTypeOK /\ StreamTypeOK

NoStatus == [state |-> "IDLE", count |-> 0, value |-> 0]

Init ==
  /\ ownerAt = "idle" /\ running = FALSE /\ fsm = "IDLE" /\ server = "null"
  /\ producerAt = "none" /\ run = 0 /\ produced = 0
  /\ counted = 0 /\ faultedBy = 0
  /\ statusAt = -1 /\ status = NoStatus
  /\ queue = << >>
  /\ mutex = "free" /\ streamAt = [s \in Stream |-> "none"]
  /\ ended = [s \in Stream |-> FALSE] /\ received = [s \in Stream |-> 0]
  /\ clients \in Clients

-------------------------------------------------------------------------------
(* Start() *)

\* running_.exchange(true); a node that runs already is left alone.
StartCalled ==
  /\ ownerAt = "idle" /\ ~running
  /\ running' = TRUE
  /\ ownerAt' = "starting"
  /\ UNCHANGED <<fsm, server, producerVars, queue, streamVars, clients>>

\* fsm_->start()
StartFsm ==
  /\ ownerAt = "starting" /\ fsm \in {"IDLE", "FAULT"}
  /\ fsm' = "RUNNING"
  /\ ownerAt' = "spawn"
  /\ UNCHANGED <<running, server, producerVars, queue, streamVars, clients>>

\* It throws once the node has been stopped, and leaves running_ set.
StartThrows ==
  /\ ownerAt = "starting" /\ fsm \in {"RUNNING", "SHUTDOWN"}
  /\ ownerAt' = "idle"
  /\ UNCHANGED <<running, fsm, server, producerVars, queue, streamVars, clients>>

SpawnProducer ==
  /\ ownerAt = "spawn"
  /\ producerAt' = "test"
  /\ ownerAt' = "listen"
  /\ UNCHANGED <<running, fsm, server, run, produced, counted, faultedBy, queue, streamVars, clients>>

\* BuildAndStart() returns a server, or null if it cannot listen.
Listen ==
  /\ ownerAt = "listen"
  /\ server' \in {"up", "null"}
  /\ ownerAt' = "idle"
  /\ UNCHANGED <<running, fsm, producerVars, queue, streamVars, clients>>

-------------------------------------------------------------------------------
(* Stop(), which the destructor calls too *)

StopCalled ==
  /\ ownerAt = "idle" /\ running
  /\ running' = FALSE
  /\ ownerAt' = "notify"
  /\ UNCHANGED <<fsm, server, producerVars, queue, streamVars, clients>>

\* stream_cv_.notify_all(), without the mutex
StopNotify ==
  /\ ownerAt = "notify"
  /\ streamAt' = [s \in Stream |-> IF streamAt[s] = "wait" THEN "check" ELSE streamAt[s]]
  /\ ownerAt' = IF server = "up" THEN "close" ELSE "join"
  /\ UNCHANGED <<running, fsm, server, producerVars, queue, mutex, ended, received, statusVars, clients>>

\* Mutant: the state machine is shut down before the server.
StopCloseShutsDown ==
  /\ ownerAt = "close"
  /\ server' = "draining" /\ fsm' = "SHUTDOWN"
  /\ ownerAt' = "drain"
  /\ UNCHANGED <<running, producerVars, queue, streamVars, clients>>

\* grpc_server_->Shutdown() accepts no more calls, and waits for the others.
StopClose ==
  /\ ownerAt = "close"
  /\ server' = "draining"
  /\ ownerAt' = "drain"
  /\ UNCHANGED <<running, fsm, producerVars, queue, streamVars, clients>>

\* Mutant: the server goes away under its handlers.
StopDrainAtOnce ==
  /\ ownerAt = "drain"
  /\ server' = "null"
  /\ ownerAt' = "join"
  /\ UNCHANGED <<running, fsm, producerVars, queue, streamVars, clients>>

\* Shutdown() and Wait() return when every handler has; reset()
StopDrain ==
  /\ ownerAt = "drain"
  /\ \A s \in Stream : streamAt[s] \in {"none", "returned"}
  /\ statusAt = -1
  /\ server' = "null"
  /\ ownerAt' = "join"
  /\ UNCHANGED <<running, fsm, producerVars, queue, streamVars, clients>>

StopJoin ==
  /\ ownerAt = "join" /\ producerAt \in {"none", "done"}
  /\ producerAt' = "none"
  /\ ownerAt' = "shutdown"
  /\ UNCHANGED <<running, fsm, server, run, produced, counted, faultedBy, queue, streamVars, clients>>

\* fsm_->shutdown()
StopShutdown ==
  /\ ownerAt = "shutdown"
  /\ fsm' = "SHUTDOWN"
  /\ ownerAt' = "idle"
  /\ UNCHANGED <<running, server, producerVars, queue, streamVars, clients>>

OwnerReturns ==
  StartFsm \/ StartThrows \/ SpawnProducer \/ Listen
  \/ StopNotify \/ StopClose \/ StopDrain \/ StopJoin \/ StopShutdown

-------------------------------------------------------------------------------
(* ProducerLoop() *)

\* Mutant: the loop does not look at running_.
ProducerTestNot ==
  /\ producerAt = "test"
  /\ producerAt' = "process"
  /\ UNCHANGED <<ownerVars, run, produced, counted, faultedBy, queue, streamVars>>

ProducerTest ==
  /\ producerAt = "test"
  /\ producerAt' = IF running THEN "process" ELSE "done"
  /\ UNCHANGED <<ownerVars, run, produced, counted, faultedBy, queue, streamVars>>

\* A frame is read, filtered and checked, and its value stored.
ProducerProcess ==
  /\ producerAt = "process" /\ produced < MaxSamples
  /\ run' \in {0, IF run < K THEN run + 1 ELSE K}
  /\ produced' = produced + 1
  /\ producerAt' = "fault"
  /\ UNCHANGED <<ownerVars, counted, faultedBy, queue, streamVars>>

\* An alarm faults a running node.
ProducerFault ==
  /\ producerAt = "fault"
  /\ IF run = K /\ fsm = "RUNNING"
     THEN fsm' = "FAULT" /\ faultedBy' = produced
     ELSE UNCHANGED <<fsm, faultedBy>>
  /\ producerAt' = "count"
  /\ UNCHANGED <<ownerAt, running, server, run, produced, counted, queue, streamVars, clients>>

ProducerCount ==
  /\ producerAt = "count"
  /\ counted' = counted + 1
  /\ producerAt' = "push"
  /\ UNCHANGED <<ownerVars, run, produced, faultedBy, queue, streamVars>>

\* Past the bound on the samples the loop goes on without any.
ProducerSkip ==
  /\ producerAt = "process" /\ produced = MaxSamples
  /\ producerAt' = "test"
  /\ UNCHANGED <<ownerVars, run, produced, counted, faultedBy, queue, streamVars>>

\* Mutant: the newest sample makes room, not the oldest.
PushSnapshotDropNewest ==
  /\ producerAt = "push" /\ mutex = "free"
  /\ queue' = IF Len(queue) >= STREAM_QUEUE_CAP
                THEN Append(SubSeq(queue, 1, Len(queue) - 1), produced) ELSE Append(queue, produced)
  /\ producerAt' = "test"
  /\ UNCHANGED <<ownerVars, run, produced, counted, faultedBy, streamVars>>

\* PushSnapshot(), dropping the oldest when full, then notify_one() of any waiter.
PushSnapshot ==
  /\ producerAt = "push" /\ mutex = "free"
  /\ queue' = Append(IF Len(queue) >= STREAM_QUEUE_CAP THEN Tail(queue) ELSE queue, produced)
  /\ \/ /\ \A s \in Stream : streamAt[s] # "wait"
        /\ UNCHANGED streamAt
     \/ \E s \in Stream : /\ streamAt[s] = "wait"
                          /\ streamAt' = [streamAt EXCEPT ![s] = "check"]
  /\ producerAt' = "test"
  /\ UNCHANGED <<ownerVars, run, produced, counted, faultedBy, mutex, ended, received, statusVars>>

Producer ==
  ProducerTest \/ ProducerProcess \/ ProducerFault \/ ProducerCount \/ ProducerSkip \/ PushSnapshot

-------------------------------------------------------------------------------
(* StreamTelemetry() and PopSnapshot() *)

\* A client calls; gRPC (external) starts a handler while the server is up.
StreamCall(s) ==
  /\ server = "up" /\ s \in clients /\ streamAt[s] = "none"
  /\ streamAt' = [streamAt EXCEPT ![s] = "loop"]
  /\ UNCHANGED <<ownerVars, producerVars, queue, mutex, ended, received, statusVars>>

\* The client cancels, or the deadline passes.
StreamEnds(s) ==
  /\ streamAt[s] \notin {"none", "returned"} /\ ~ended[s]
  /\ ended' = [ended EXCEPT ![s] = TRUE]
  /\ UNCHANGED <<ownerVars, producerVars, queue, mutex, streamAt, received, statusVars>>

\* while (!ctx->IsCancelled() && now < deadline)
StreamLoop(s) ==
  /\ streamAt[s] = "loop"
  /\ streamAt' = [streamAt EXCEPT ![s] = IF ended[s] THEN "returned" ELSE "check"]
  /\ UNCHANGED <<ownerVars, producerVars, queue, mutex, ended, received, statusVars>>

\* The predicate holds: the front is taken if there is one; otherwise the thread
\* goes on to next.
PopFront(s, next) ==
  IF queue # << >>
    THEN /\ received' = [received EXCEPT ![s] = Head(queue)]
         /\ queue' = Tail(queue)
         /\ streamAt' = [streamAt EXCEPT ![s] = "write"]
    ELSE /\ streamAt' = [streamAt EXCEPT ![s] = next]
         /\ UNCHANGED <<queue, received>>

\* wait_for() evaluates the predicate with the mutex held.  If it is false the
\* thread is about to block, still holding the mutex.
PopCheck(s) ==
  /\ streamAt[s] = "check" /\ mutex = "free"
  /\ PopFront(s, IF running THEN "block" ELSE "loop")
  /\ mutex' = IF queue = << >> /\ running THEN s ELSE "free"
  /\ UNCHANGED <<ownerVars, producerVars, ended, statusVars>>

\* It blocks and releases the mutex.  Stop() may have notified in between.
PopBlock(s) ==
  /\ streamAt[s] = "block"
  /\ mutex' = "free"
  /\ streamAt' = [streamAt EXCEPT ![s] = "wait"]
  /\ UNCHANGED <<ownerVars, producerVars, queue, ended, received, statusVars>>

\* The timeout of 100 ms, or a spurious wake-up.
PopTimeout(s) ==
  /\ streamAt[s] = "wait"
  /\ streamAt' = [streamAt EXCEPT ![s] = "recheck"]
  /\ UNCHANGED <<ownerVars, producerVars, queue, mutex, ended, received, statusVars>>

\* After a timeout the predicate is evaluated once more.
PopRecheck(s) ==
  /\ streamAt[s] = "recheck" /\ mutex = "free"
  /\ PopFront(s, "loop")
  /\ UNCHANGED <<ownerVars, producerVars, mutex, ended, statusVars>>

\* writer->Write() succeeds, or fails because the client has gone.
StreamWrite(s) ==
  /\ streamAt[s] = "write"
  /\ \E next \in {"loop", "returned"} : streamAt' = [streamAt EXCEPT ![s] = next]
  /\ UNCHANGED <<ownerVars, producerVars, queue, mutex, ended, received, statusVars>>

Handler(s) ==
  \/ StreamLoop(s) \/ PopCheck(s) \/ PopBlock(s) \/ PopTimeout(s) \/ PopRecheck(s) \/ StreamWrite(s)

-------------------------------------------------------------------------------
(* GetNodeStatus() *)

\* gRPC (external) starts a handler while the server is up.
StatusCall ==
  /\ server = "up" /\ "status" \in clients /\ statusAt = -1
  /\ statusAt' = 0
  /\ UNCHANGED <<ownerVars, producerVars, queue, mutex, streamAt, ended, received, status>>

\* Mutant: the value is read before the count.
StatusFieldsSwapped == <<"state", "value", "count">>

\* The order in which the fields are read.
StatusFields == <<"state", "count", "value">>

\* Each field is an atomic of its own.
StatusRead ==
  /\ statusAt \in 0 .. 2
  /\ LET field == StatusFields[statusAt + 1] IN
       \/ field = "state" /\ status' = [status EXCEPT !.state = fsm]
       \/ field = "count" /\ status' = [status EXCEPT !.count = counted]
       \/ field = "value" /\ status' = [status EXCEPT !.value = produced]
  /\ statusAt' = statusAt + 1
  /\ UNCHANGED <<ownerVars, producerVars, queue, mutex, streamAt, ended, received>>

StatusReply ==
  /\ statusAt = 3
  /\ statusAt' = -1 /\ status' = NoStatus
  /\ UNCHANGED <<ownerVars, producerVars, queue, mutex, streamAt, ended, received>>

StatusHandler == StatusRead \/ StatusReply

-------------------------------------------------------------------------------
Next ==
  \/ StartCalled \/ StopCalled \/ OwnerReturns
  \/ Producer
  \/ StatusCall \/ StatusHandler
  \/ \E s \in Stream : StreamCall(s) \/ StreamEnds(s) \/ Handler(s)

\* Every thread runs on, and time passes: timeouts and deadlines expire.  Nobody
\* has to call Start(), Stop() or StreamTelemetry().
Fairness ==
  /\ WF_vars(OwnerReturns) /\ WF_vars(Producer) /\ WF_vars(StatusHandler)
  /\ \A s \in Stream : WF_vars(StreamEnds(s)) /\ WF_vars(Handler(s))

Spec == Init /\ [][Next]_vars /\ Fairness

-------------------------------------------------------------------------------
(* Properties *)

\* The streams compete for the samples, and yet none is delivered twice or out of
\* order: the queue holds consecutive numbers up to the last one pushed, no more
\* than it may, all of them newer than any sample a stream has taken, and no two
\* streams have taken the same one.
QueueIsRecent ==
  /\ Len(queue) <= STREAM_QUEUE_CAP
  /\ \A i \in 1 .. Len(queue) : queue[i] = queue[Len(queue)] - (Len(queue) - i)
  /\ queue # << >> => queue[Len(queue)] = IF producerAt \in {"fault", "count", "push"}
                                            THEN produced - 1 ELSE produced
  /\ \A s \in Stream : queue # << >> => received[s] < Head(queue)
  /\ \A s, r \in Stream : s # r /\ received[s] # 0 => received[s] # received[r]

\* A status is read field by field while the producer goes on.  Its value is never
\* older than its count says, and one that reports FAULT has the value that raised
\* it, or a newer one.
StatusInOrder ==
  statusAt = 3 =>
    /\ status.value >= status.count
    /\ status.state = "FAULT" => status.value >= faultedBy /\ status.count >= faultedBy - 1

\* When Stop() has returned, after whatever sequence of Start() and Stop(), the
\* producer and all handlers have ended, and the state machine is shut down.
StoppedIsStopped ==
  ownerAt = "idle" /\ ~running /\ fsm # "IDLE" =>
    /\ fsm = "SHUTDOWN" /\ server = "null" /\ producerAt = "none"
    /\ \A s \in Stream : streamAt[s] \in {"none", "returned"}
    /\ statusAt = -1

\* What a status request can see of this node.
Visible ==
  IF server # "null" THEN fsm
  ELSE IF ownerAt \in {"join", "shutdown"} \/ fsm = "SHUTDOWN" THEN "down" ELSE "off"

AsWorker == INSTANCE WorkerNode WITH shows <- Visible

\* The node is what the coordinator takes it for: it answers no request before
\* fsm_->start() or after shutdown(), and a fault it has shown stays.
WorkerSpec == AsWorker!Spec

\* Stop() returns: a handler that misses the notification, sent without the
\* mutex, is saved by its timeout, and one that spins by its deadline.
StopReturns == ownerAt = "notify" ~> ownerAt = "idle"
===============================================================================
