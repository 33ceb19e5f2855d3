----------------------------- MODULE EdgeDaemon -----------------------------
(***************************************************************************)
(* The edge IPC daemon (src/main.cpp and src/DaemonBus.cpp): the main      *)
(* thread, the producer thread that reads the telemetry source, the D-Bus  *)
(* worker thread that serves the clients, and the signal handler, around   *)
(* one StateManager, one TelemetryReceiver and one DataProcessor.          *)
(*                                                                         *)
(* The StateManager is the module of that name, step by step.  The ring    *)
(* buffer is represented by the channel it implements (FrameChannel), and  *)
(* the detector by the run of out-of-band samples its alarm is equivalent  *)
(* to (DataProcessor!AlarmExact).                                          *)
(***************************************************************************)
EXTENDS Sequences, StateManager

CONSTANTS
  Frame,          \* the telemetry frames
  NoFrame,        \* no frame
  OutOfBand,      \* the frames whose value is outside the watermarks
  Files,          \* the files TELEMETRY_PATH may name: frames, "comment" and "garbage" lines
  K,              \* out-of-band frames in a row that raise the alarm
  Room,           \* frames the receiver holds
  DropModulus

\* The threads that call the StateManager
ASSUME CallerAssumption == {"main", "worker"} \subseteq Thread

ASSUME SizeAssumption == K \in Nat /\ Room \in Nat

ASSUME SourceAssumption ==
  /\ OutOfBand \subseteq Frame /\ {NoFrame, "comment", "garbage"} \cap Frame = {}
  /\ Files \subseteq Seq(Frame \cup {"comment", "garbage"})

VARIABLES
  queue, vacated, delivered, dropped,                 \* TelemetryReceiver
  run,                            \* DataProcessor: the alarm flag is run = K
  bus, running, workerStop,       \* DaemonBus::Impl
  quit,                           \* g_quit
  source, file, line,             \* the telemetry source: its class, the file, the line last read
  producerStop,                   \* producer_stop
  mainAt, producerAt, workerAt    \* where each thread is, outside a call of the StateManager

rxVars == <<queue, vacated, delivered, dropped>>
busVars == <<bus, running, workerStop>>
path == <<source, file>>
vars == <<smVars, rxVars, run, busVars, quit, path, line, producerStop,
          mainAt, producerAt, workerAt>>

RX == INSTANCE FrameChannel

MainSteps ==
  {"setStateCb", "setAlarmCb", "busStart", "spawn", "loop", "pop", "fault",
   "stopProducer", "joinProducer", "shutdown", "clearStateCb", "clearAlarmCb",
   "busStop", "joinWorker", "closeBus", "exit", "failed"}

TypeOK ==
  /\ ManagerTypeOK
  /\ queue \in Seq(Frame) /\ vacated \in Nat /\ Len(queue) + vacated <= Room
  /\ delivered \in Frame \cup {NoFrame}
  /\ run \in 0 .. K
  /\ bus \in {"null", "open"} /\ running \in BOOLEAN /\ workerStop \in BOOLEAN
  /\ quit \in BOOLEAN /\ producerStop \in BOOLEAN
  /\ source \in {"file", "simulated"} /\ file \in Files \cup {<<>>} /\ line \in 0 .. Len(file)
  /\ mainAt \in MainSteps
  /\ producerAt \in {"none", "test", "read", "done"}
  /\ workerAt \in {"none", "test", "process", "done"}

Init ==
  /\ ManagerInit /\ RX!Init
  /\ run = 0
  /\ bus = "null" /\ running = FALSE /\ workerStop = FALSE
  /\ quit = FALSE /\ producerStop = FALSE
  /\ \/ source = "file" /\ file \in Files
     \/ source = "simulated" /\ file = <<>>
  /\ line = 0
  /\ mainAt = "setStateCb" /\ producerAt = "none" /\ workerAt = "none"

\* The thread is at the step, and in no call of the StateManager.
MainIs(l) == mainAt = l /\ At("main", "none")
WorkerIs(l) == workerAt = l /\ At("worker", "none")

-------------------------------------------------------------------------------
(* The signal handler *)

Signal ==
  /\ ~quit
  /\ quit' = TRUE
  /\ UNCHANGED <<smVars, rxVars, run, busVars, path, line, producerStop, mainAt, producerAt, workerAt>>

-------------------------------------------------------------------------------
(* The main thread: start-up *)

SetStateCb ==
  /\ MainIs("setStateCb")
  /\ SetStateChangedCallback(TRUE)
  /\ mainAt' = "setAlarmCb"
  /\ UNCHANGED <<rxVars, run, busVars, quit, path, line, producerStop, producerAt, workerAt>>

SetAlarmCb ==
  /\ MainIs("setAlarmCb")
  /\ SetAlarmCallback(TRUE)
  /\ mainAt' = "busStart"
  /\ UNCHANGED <<rxVars, run, busVars, quit, path, line, producerStop, producerAt, workerAt>>

\* DaemonBus::start() fails: before or after the bus is opened, which nothing closes.
BusStartFails ==
  /\ MainIs("busStart")
  /\ bus' \in {"null", "open"}
  /\ mainAt' = "failed"
  /\ UNCHANGED <<smVars, rxVars, run, running, workerStop, quit, path, line, producerStop,
                 producerAt, workerAt>>

\* DaemonBus::start() opens the bus and starts the worker thread.
BusStart ==
  /\ MainIs("busStart")
  /\ bus' = "open" /\ running' = TRUE /\ workerStop' = FALSE
  /\ workerAt' = "test"
  /\ mainAt' = "spawn"
  /\ UNCHANGED <<smVars, rxVars, run, quit, path, line, producerStop, producerAt>>

\* The source, the receiver and the processor are made, the producer thread starts.
SpawnProducer ==
  /\ MainIs("spawn")
  /\ producerAt' = "test"
  /\ mainAt' = "loop"
  /\ UNCHANGED <<smVars, rxVars, run, busVars, quit, path, line, producerStop, workerAt>>

-------------------------------------------------------------------------------
(* The main thread: the loop.  Watchdog and sleep change nothing modelled. *)

MainTestQuit ==
  /\ MainIs("loop")
  /\ mainAt' = IF quit THEN "stopProducer" ELSE "pop"
  /\ UNCHANGED <<smVars, rxVars, run, busVars, quit, path, line, producerStop, producerAt, workerAt>>

\* rx.pop() finds nothing.  Its load of tail_ may be stale, so that it misses
\* frames that a later round of the loop finds.
PopNothing ==
  /\ MainIs("pop")
  /\ mainAt' = "loop"
  /\ UNCHANGED <<smVars, rxVars, run, busVars, quit, path, line, producerStop, producerAt, workerAt>>

\* rx.pop() and proc.process(frame)
PopAndProcess ==
  /\ MainIs("pop")
  /\ RX!Deliver
  /\ run' = IF delivered' \notin OutOfBand THEN 0 ELSE IF run < K THEN run + 1 ELSE K
  /\ mainAt' = IF run' = K THEN "fault" ELSE "pop"
  /\ UNCHANGED <<smVars, busVars, quit, path, line, producerStop, producerAt, workerAt>>

\* Mutant: FAULT is entered without the compare and exchange.
RaiseFaultByStore ==
  /\ MainIs("fault")
  /\ mainAt' = "pop"
  /\ state' = "FAULT"
  /\ UNCHANGED <<stateCb, alarmCb, call, balance, silent>>
  /\ UNCHANGED <<rxVars, run, busVars, quit, path, line, producerStop, producerAt, workerAt>>

\* sm->fault(), which does nothing unless the state is RUNNING.
RaiseFault ==
  /\ MainIs("fault")
  /\ mainAt' = "pop"
  /\ Fault("main") \/ (state # "RUNNING" /\ UNCHANGED smVars)
  /\ UNCHANGED <<rxVars, run, busVars, quit, path, line, producerStop, producerAt, workerAt>>

-------------------------------------------------------------------------------
(* The main thread: the way out *)

StopProducer ==
  /\ MainIs("stopProducer")
  /\ producerStop' = TRUE
  /\ mainAt' = "joinProducer"
  /\ UNCHANGED <<smVars, rxVars, run, busVars, quit, path, line, producerAt, workerAt>>

\* Mutant: the producer is not joined.
JoinProducerNot ==
  /\ MainIs("joinProducer")
  /\ mainAt' = "shutdown"
  /\ UNCHANGED <<smVars, rxVars, run, busVars, quit, path, line, producerStop, producerAt, workerAt>>

JoinProducer ==
  /\ MainIs("joinProducer") /\ producerAt = "done"
  /\ mainAt' = "shutdown"
  /\ UNCHANGED <<smVars, rxVars, run, busVars, quit, path, line, producerStop, producerAt, workerAt>>

ShutDown ==
  /\ MainIs("shutdown")
  /\ Shutdown("main")
  /\ mainAt' = "clearStateCb"
  /\ UNCHANGED <<rxVars, run, busVars, quit, path, line, producerStop, producerAt, workerAt>>

ClearStateCb ==
  /\ MainIs("clearStateCb")
  /\ SetStateChangedCallback(FALSE)
  /\ mainAt' = "clearAlarmCb"
  /\ UNCHANGED <<rxVars, run, busVars, quit, path, line, producerStop, producerAt, workerAt>>

ClearAlarmCb ==
  /\ MainIs("clearAlarmCb")
  /\ SetAlarmCallback(FALSE)
  /\ mainAt' = "busStop"
  /\ UNCHANGED <<rxVars, run, busVars, quit, path, line, producerStop, producerAt, workerAt>>

\* DaemonBus::stop(): running.exchange(false) and worker_stop.store(true)
BusStop ==
  /\ MainIs("busStop") /\ running
  /\ running' = FALSE /\ workerStop' = TRUE
  /\ mainAt' = "joinWorker"
  /\ UNCHANGED <<smVars, rxVars, run, bus, quit, path, line, producerStop, producerAt, workerAt>>

\* Mutant: the worker is not joined.
JoinWorkerNot ==
  /\ MainIs("joinWorker")
  /\ mainAt' = "closeBus"
  /\ UNCHANGED <<smVars, rxVars, run, busVars, quit, path, line, producerStop, producerAt, workerAt>>

JoinWorker ==
  /\ MainIs("joinWorker") /\ workerAt = "done"
  /\ mainAt' = "closeBus"
  /\ UNCHANGED <<smVars, rxVars, run, busVars, quit, path, line, producerStop, producerAt, workerAt>>

\* The slot and the bus are released; main() returns, and the destructor's stop()
\* finds running false.
CloseBus ==
  /\ MainIs("closeBus")
  /\ bus' = "null"
  /\ mainAt' = "exit"
  /\ UNCHANGED <<smVars, rxVars, run, running, workerStop, quit, path, line, producerStop,
                 producerAt, workerAt>>

\* The rest of a call of the StateManager, callbacks included.
MainCall ==
  /\ Continue("main")
  /\ UNCHANGED <<rxVars, run, busVars, quit, path, line, producerStop, mainAt, producerAt, workerAt>>

MainStep ==
  \/ SetStateCb \/ SetAlarmCb \/ BusStart \/ BusStartFails \/ SpawnProducer
  \/ MainTestQuit \/ PopNothing \/ PopAndProcess \/ RaiseFault
  \/ StopProducer \/ JoinProducer \/ ShutDown \/ ClearStateCb \/ ClearAlarmCb
  \/ BusStop \/ JoinWorker \/ CloseBus \/ MainCall

-------------------------------------------------------------------------------
(* The producer thread *)

ProducerTest ==
  /\ producerAt = "test"
  /\ producerAt' = IF producerStop THEN "done" ELSE "read"
  /\ UNCHANGED <<smVars, rxVars, run, busVars, quit, path, line, producerStop, mainAt, workerAt>>

\* The first line after l that is not a comment, 0 if there is none.
Fetch(l) ==
  LET Lines == {i \in l + 1 .. Len(file) : file[i] # "comment"}
  IN IF Lines = {} THEN 0 ELSE CHOOSE i \in Lines : \A j \in Lines : i <= j

\* Mutant: the file is not read again from its start.
FetchOnce == Fetch(line)

\* At the end of the file it is reopened and read from its start.
FetchLooping == IF Fetch(line) # 0 THEN Fetch(line) ELSE Fetch(0)

\* FileSource::read(): no frame from a file without data, nor from a line that does
\* not parse.
FileRead(f) ==
  /\ line' = IF FetchLooping = 0 THEN Len(file) ELSE FetchLooping
  /\ f = IF FetchLooping # 0 /\ file[FetchLooping] \in Frame THEN file[FetchLooping] ELSE NoFrame

\* SimulatedSource::read(): any value, and always one.
SimulatedRead(f) == f \in Frame /\ UNCHANGED line

Read(f) == IF source = "file" THEN FileRead(f) ELSE SimulatedRead(f)

ProducerReadsNothing ==
  /\ producerAt = "read"
  /\ Read(NoFrame)
  /\ producerAt' = "test"
  /\ UNCHANGED <<smVars, rxVars, run, busVars, quit, path, producerStop, mainAt, workerAt>>

\* rx.push() accepts the frame.
ProducerPush ==
  /\ producerAt = "read"
  /\ \E f \in Frame : Read(f) /\ RX!Accept(f)
  /\ producerAt' = "test"
  /\ UNCHANGED <<smVars, run, busVars, quit, path, producerStop, mainAt, workerAt>>

\* rx.push() finds the ring full and drops the frame.
ProducerDrop ==
  /\ producerAt = "read"
  /\ \E f \in Frame : Read(f)
  /\ RX!Refuse
  /\ producerAt' = "test"
  /\ UNCHANGED <<smVars, run, busVars, quit, path, producerStop, mainAt, workerAt>>

ProducerStep == ProducerTest \/ ProducerReadsNothing \/ ProducerPush \/ ProducerDrop

\* The producer's loads of head_ catch up with it.
HeadVisible ==
  /\ vacated # 0
  /\ vacated' = 0
  /\ UNCHANGED <<queue, delivered, dropped>>
  /\ UNCHANGED <<smVars, run, busVars, quit, path, line, producerStop, mainAt, producerAt, workerAt>>

-------------------------------------------------------------------------------
(* The D-Bus worker thread and the clients it serves *)

\* Mutant: the worker does not look at its stop flag.
WorkerTestFirst ==
  /\ WorkerIs("test")
  /\ workerAt' = "process"
  /\ UNCHANGED <<smVars, rxVars, run, busVars, quit, path, line, producerStop, mainAt, producerAt>>

WorkerTest ==
  /\ WorkerIs("test")
  /\ workerAt' = IF workerStop THEN "done" ELSE "process"
  /\ UNCHANGED <<smVars, rxVars, run, busVars, quit, path, line, producerStop, mainAt, producerAt>>

\* sd_bus_process() finds no message, and sd_bus_wait() times out, or it serves a call
\* that only reads, CurrentState or RunDiagnostics.
WorkerIdle ==
  /\ WorkerIs("process")
  /\ workerAt' = "test"
  /\ UNCHANGED <<smVars, rxVars, run, busVars, quit, path, line, producerStop, mainAt, producerAt>>

\* method_start(): sm->start().  It is answered when the call returns.
MethodStart ==
  /\ WorkerIs("process")
  /\ Start("worker")
  /\ workerAt' = "test"
  /\ UNCHANGED <<rxVars, run, busVars, quit, path, line, producerStop, mainAt, producerAt>>

\* method_halt(): sm->halt(), which does nothing in SHUTDOWN.
MethodHalt ==
  /\ WorkerIs("process")
  /\ Halt("worker") \/ (state = "SHUTDOWN" /\ UNCHANGED smVars)
  /\ workerAt' = "test"
  /\ UNCHANGED <<rxVars, run, busVars, quit, path, line, producerStop, mainAt, producerAt>>

\* The rest of a call of the StateManager.
WorkerCall ==
  /\ Continue("worker")
  /\ UNCHANGED <<rxVars, run, busVars, quit, path, line, producerStop, mainAt, producerAt, workerAt>>

WorkerStep ==
  \/ WorkerTest \/ WorkerIdle \/ MethodStart \/ MethodHalt \/ WorkerCall

-------------------------------------------------------------------------------
\* The process has ended.
Terminated == mainAt \in {"exit", "failed"} /\ UNCHANGED vars

Next == Signal \/ MainStep \/ ProducerStep \/ HeadVisible \/ WorkerStep \/ Terminated

\* The operating system runs every thread, and a store becomes visible in the
\* end: that of head_ to the producer, and that of tail_ to some later pop().
Fairness ==
  /\ WF_vars(MainStep) /\ WF_vars(ProducerStep) /\ WF_vars(WorkerStep)
  /\ WF_vars(HeadVisible) /\ SF_vars(PopAndProcess)

Spec == Init /\ [][Next]_vars /\ Fairness

-------------------------------------------------------------------------------
(* Properties *)

Emitting(t) == At(t, "callStateCb") \/ At(t, "callAlarmCb")

\* The bus is open while the worker thread lives and while any thread is inside
\* a callback that emits on it: neither a signal nor a request is ever served
\* on a released bus, however late the worker's last call is.
BusOutlivesUse ==
  workerAt \in {"test", "process"} \/ Emitting("main") \/ Emitting("worker") => bus = "open"

\* main() returns only after both threads have ended and no call is in progress;
\* a live std::thread would terminate the process from its destructor.  Until then,
\* and in every state, the variables keep their types and the ring its capacity.
ThreadsJoined ==
  /\ TypeOK
  /\ mainAt = "exit" => /\ producerAt = "done" /\ workerAt = "done"
                        /\ \A t \in {"main", "worker"} : At(t, "none")

\* main() has cleared the state callback.
Cleared == {"clearAlarmCb", "busStop", "joinWorker", "closeBus", "exit"}

\* No state change goes unreported before main() clears the callbacks, and what
\* is reported adds up to the state.
ReportsUntilCleared ==
  /\ silent => mainAt \in Cleared
  /\ ReportsAddUp

\* What the main thread's position says of the others.  It makes the two threads
\* and the calls that emit on the bus after start(), and is past the joins, and
\* past the reset of the state callback, only when they are over.
Lifecycle ==
  /\ mainAt \in {"setStateCb", "setAlarmCb", "busStart", "failed"} =>
       producerAt = "none" /\ workerAt = "none"
  /\ mainAt \in {"shutdown", "clearStateCb"} \cup Cleared => producerAt = "done"
  /\ mainAt \in {"closeBus", "exit"} => workerAt = "done"
  /\ mainAt \notin {"setStateCb", "setAlarmCb", "busStart", "failed", "exit"} => bus = "open"
  /\ workerAt = "done" => workerStop
  /\ workerStop => mainAt \in {"joinWorker", "closeBus", "exit"}
  /\ At("main", "none") \/ mainAt \in {"pop", "clearStateCb"}
  /\ At("worker", "none") \/ workerAt = "test"
  /\ stateCb \/ mainAt = "setStateCb" \/ mainAt \in Cleared
  /\ silent => mainAt \in Cleared

\* The inductive invariant.
IInv == TypeOK /\ ManagerInv /\ Lifecycle

\* A termination signal ends the process, unless the producer fills the queue as
\* fast as the inner pop loop, which does not test g_quit, empties it.
QuitEnds ==
  (quit ~> mainAt \in {"exit", "failed"}) \/ []<><<ProducerPush>>_vars

\* The source delivers an in-band frame.
QuietReading == ProducerPush /\ queue'[Len(queue')] \notin OutOfBand

\* A source that in the end delivers nothing but out-of-band frames takes the daemon out
\* of RUNNING (test_spike_csv_triggers_fault), however the ring drops frames and the
\* clients start and halt, unless a signal ends it first.  A file of such lines does this,
\* however short it is and whatever lines that are no frames stand between them.
SpikesEndRunning ==
  \/ state = "RUNNING" ~> state # "RUNNING" \/ quit
  \/ []<><<QuietReading>>_vars
  \/ source = "file" /\ \A i \in 1 .. Len(file) : file[i] \notin Frame
===============================================================================
