# Formal models of the edge IPC daemon and its companion systems

TLA+ specifications of the programs of this repository, the TLC configurations
that check them on small instances, and TLAPS proofs of the properties that
hold for every size.  Every definition is translated from the code under
`src/`; `PROJECT.json` maps each one to its lines.

    tlc -workers 2 -config MCTelemetryReceiver.cfg MCTelemetryReceiver
    tlapm TelemetryReceiverProofs.tla

## 1. The system

The repository holds five programs that share a few classes.

| Part | State | Operations | What is hard about it |
|---|---|---|---|
| `TelemetryReceiver` (`src/src`) | ring of 1024 frames, atomic head and tail, drop counter | `push`, `pop` | two threads, no lock, acquire/release only; wrap-around; full and empty |
| `StateManager` | one atomic state, two callbacks behind a mutex | `start`, `halt`, `fault`, `shutdown`, setters | several threads race on the state; the report comes after the change |
| `DataProcessor`, `MovingAverageFilter`, `ThresholdDetector` | window, running sum, run counter, alarm flag | `process`, `reset` | a sum kept by differences; an `int` that can overflow; the latch |
| `DaemonBus`, `main.cpp` | sd-bus handle, worker thread, producer thread, `g_quit` | D-Bus `Start`, `Halt`, `RunDiagnostics`, `CurrentState`; signals | order of shutdown; callbacks on a bus that is about to be released |
| `FileSource`, `SimulatedSource` | file position, noise | `read` | comments, lines that do not parse, the end of the file; may deliver nothing |
| `TelemetryNode` (`secure_distributed_node`) | bounded queue, condition variable, gRPC server, producer thread | `Start`, `Stop`, `StreamTelemetry`, `GetNodeStatus` | a status read from separate atomics, lost notification, handlers that hold up the drain, restart |
| `TelemetryCoordinator` | last status and reachability per worker | polling threads, `/health`, `Stop` | a reply made of separately locked reads; late answers; a server stopped before it listens |
| `DbPool` (`async_telemetry_server`) | counting semaphore, connections, round-robin cursor | `acquire`, `release` | the cursor knows nothing of the permits; reconnection fails, or replaces a connection in use |
| `TlsServer`, `TelemetryRepository`, `JwtValidator` | sessions, auth log, rows | accept, handshake, authentication, insert, ACK, SIGTERM | blocking calls on the threads of an `io_context`; partial failure |
| `FrameProtocol`, `TcpServer`, `TelemetryClient` | two byte streams, a session | `serialize`, `deserialize`, `read_frame`, `write_frame`, `run_client`, `handle_session` | byte order, length field, damage, death of either end, no timeouts |
| `update_loop.c`, `data_source.c`, `data_source_opt.c` (`opcua_edge_server`) | nine relaxed atomics, tick counter, timerfd | update thread, read callbacks, start, stop | answers that point to static storage, overruns, reads in the middle of an update, a timer that cannot be made |
| `LuSolver`, `VscNetwork`, `NortonUpdate` (`fpga_power_electronics_hil`) | matrix, factors, pivots, voltages, currents, histories | `lu_factor`, `lu_solve`, `step` | row exchanges, small pivots, factors kept from one step to the next |
| `hls_solver` | static arrays of the FPGA kernel | `solver_top`, `norton_update`, `lu_solve`, `update_history` | the same work in another order; factors written once; another form of the permutation |

How they interact.  The producer thread of the daemon pushes frames into the
ring; the main thread pops them, feeds filter and detector, and calls
`fault()`; the D-Bus worker calls `start()` and `halt()`; `StateManager` calls
back into `DaemonBus`, which emits on the bus.  `TelemetryNode` reuses the same
classes and streams samples over gRPC; `TelemetryCoordinator` polls several
nodes.  The telemetry server receives frames over TLS and stores them through
`DbPool`.  The OPC UA server and the power-electronics simulator stand alone.

`PROJECT.json` lists the hazards of this code, what goes wrong only in an order
of events nobody writes a test for, each at its line and with the properties
that would catch it.

## 2. Modules

| Module | Models | Composed of |
|---|---|---|
| `FrameChannel` | abstract specification of the ring: what `push`/`pop` promise | |
| `TelemetryReceiver` | `push` and `pop`, one step per atomic or slot access | implements `FrameChannel` |
| `StateManager` | all operations, one step per atomic access, lock, callback | |
| `DataProcessor` | filter and detector | |
| `EdgeDaemon` | `main.cpp`, `DaemonBus.cpp` and the sources: three threads and the signal handler | `StateManager`, `FrameChannel` |
| `WorkerNode` | abstract specification of a node: what a status request can see of it | |
| `TelemetryNode` | owner, producer, stream and status handlers of a node | implements `WorkerNode` |
| `TelemetryCoordinator` | polling threads, health handler, server thread, main | a `WorkerNode` per worker |
| `DbPool` | the connection pool | |
| `TelemetryServer` | sessions, acceptor, signal coroutine, repository | `DbPool` |
| `FrameProtocol` | frames and their CRC, as operators | |
| `TelemetrySession` | a client and its session on the server, over two byte streams | extends `FrameProtocol` |
| `UpdateLoop` | update thread, timer, server thread | |
| `Sums` | sums, as the loops of the code add them up | |
| `LuSolver` | the solver, as operators | extends `Sums` |
| `LuFactor` | `lu_factor` as it runs, a step per column | extends `LuSolver` |
| `VscNetwork` | the converter network, constructor and `step` | extends `LuFactor` |
| `HlsKernel` | the FPGA kernel, fed with the same gate signals beside the network | extends `VscNetwork` |
| `*Proofs` | theorems, see section 5 | |
| `MC*` | values for TLC | |

### Correspondence with the code

**TelemetryReceiver.**  `head`, `tail`, `buf`, `dropped` are the members.  The
loads follow C++ memory order: an acquire load of the other thread's index may
return any value the index has had since the last one seen (`headSeen`,
`tailSeen`, `Observable`).  The ghost `owner` follows happens-before: the
release store hands a slot over, the load that observes it takes it.
`DataRaceFree` then says that no plain access to `buf_` is a data race.

**FrameChannel.**  A bounded FIFO.  `vacated` counts places that the consumer has
freed and the producer cannot know of yet; a frame is refused only when queue
and vacated places fill the ring.

**StateManager.**  `call[t]` is the call thread `t` is in, with the edge
`prev -> next` it makes.  `compare_exchange`, `exchange`, the copy of the
callback under `cb_mu_` and the call of it are separate steps.  The ghost
`balance` is an observer who counts, per state, reports of entering minus
reports of leaving.

**DataProcessor.**  Samples are integers, so the running sum is exact; rounding of
`double` is left out.  `consecutive` is an `int` of width `IntMax`: incrementing
it at its maximum is undefined behaviour, hence any value.

**EdgeDaemon.**  One action per statement of `main()`, of the producer lambda and of
the worker loop that changes shared state.  The steps of `StateManager`, which the module
extends, are the steps of its calls.  The ring is replaced by the channel it implements, and the
detector by the run length its alarm is equivalent to (`AlarmExact`): the
theorems `RingImplementsChannel` and `AlarmIsExact` justify both.  A pop that
misses published frames (`PopNothing`) stands for a stale load of `tail_`.  The source is
chosen at the start: noise with spikes, or a file whose lines are spikes, comments or
text that does not parse, at whose end `read()` reopens it (`FetchLooping`).

**TelemetryNode.**  `PopSnapshot`'s `wait_for` is split into evaluating the predicate
(with the mutex), blocking (which releases it), timeout or spurious wake-up, and
the second evaluation; `Stop()` notifies without the mutex and may fall between
the first two.  gRPC's `Shutdown` waits for handlers.  `GetNodeStatus` reads state, count and
value in this order, a step each.  `Visible` maps the node to `WorkerNode`.  Calls of the state machine
never overlap here, so each is one step.

**TelemetryCoordinator.**  Each node takes the steps of `WorkerNode`, which
`TelemetryNode` is shown to implement, and may be started anew after it went down.
A poll is test, call, answer or failure, and record under the lock; the health handler
takes the lock once for the statuses and once for the summary (the flags it reads in
between only go into the reply).  The server thread comes to `listen()` in its own time, and
`svr.stop()` does nothing before that.  The ghost `outdated` holds, for each node, which of
answer, status and listing are from before its last restart.

**DbPool.**  `SemAcquire` is the semaphore, `Take` the critical section with the
cursor, `TakeThrows` an `ensure_open()` that fails.  A closed connection is replaced, and
the old one destroyed, also if it still has a user, who is then `stale`.  Ghosts: `lost`
counts permits of calls that threw; `since` counts the moves of the cursor.

**TelemetryServer.**  A coroutine holds one of `NThreads` threads from a completion to
its next `co_await`; inserts and the wait for a permit block that thread.  A
commit whose connection has closed may or may not have reached the database; the use of
a connection that was destroyed throws or ends the process.  A signal is first taken by the
`signal_set`, then delivered to the coroutine that waits, which stops the context.  The
set lives in the frame of `listen()`: if that ends on an error of `async_accept`, a signal
taken and not delivered is lost, and later ones have their default effect.  The token is a
Boolean.

**FrameProtocol.**  Bytes are numbers; `Serialize`, `Deserialize`, `crc16` are computed
in full.  The checksum in progress is a word of sixteen bits, since the code shifts it and
adds to it bit by bit; an exclusive or is a sum modulo 2.  `12 + plen` has 32 bits in the
code: `Payload` and `Short` keep to sizes for which it does not wrap.

**TelemetrySession.**  One action per frame read or written by `run_client()` and
`handle_session()`.  `read_frame()` takes the twelve bytes of a header and as many as
they announce; the link may put other bytes in the place of two neighbouring ones once,
wherever they are (`Hit`), the client may be killed in the midst of a write, the server stopped, and each insert
may throw, or block for ever on a pool whose permits are lost.  `damage` says of which kind the
damage is: to a length, to the last byte of a checksum together with the first of its payload
(a straddle), or any other, which the checksum and the tests of the header cover.  `TelemetryServer` models many sessions, their threads and the pool without
bytes; `TelemetrySession` models one of them with its client and its bytes.

**UpdateLoop.**  A node value is the tick it was computed at.  The values are relaxed
atomics: `visible` holds the writes that a read may still return.  `pending` is
what the timerfd holds, and `read()` returns all of it.  A request names up to `MaxAsk`
nodes, which are read one after another and then encoded.  `pooled` is the build option
`USE_OPTIMISED_DATASOURCE`, with which an answer points into `variant_scalars`; `copies`
leaves open whether open62541 copies the value at once or follows the pointer later.
Subscriptions are left out: open62541 samples, queues and publishes by rules of its own.

**LuSolver, LuFactor, VscNetwork.**  Numbers are integers modulo a prime.  The code
uses field operations and compares magnitudes, with each other and with 1e-15, so the
algorithms carry over exactly; rounding is left out.  `Smallest` stands for the 1e-15: a
column whose largest entry, from the diagonal down, is less makes `lu_factor()` throw, be it
zero or not.  `FindPivot` is the first of the largest entries of a column.  A matrix entry is the sum over the phases of what `stamp()`
adds to it.  A network has any number of phases of three nodes.  Companion conductances are parameters; the grid voltage is
an input at each step and stands for the sine of the time.

**HlsKernel.**  The static arrays of `solver_top.cpp` beside the state of the network,
fed with the same gate signals.  The kernel factors nothing: the host, which is not in the
repository, writes the factors and the `pivot` array of one `lu_factor()` before the first
step and never again (`WriteFactors`, "written once at init").  The kernel takes `pivot` for a
permutation, and has a grid of 230 V and 50 Hz built in (`mains` says whether the network
has that one).  The ghost `alike` stays true as long as none of the three makes a difference.

## 3. Runs

Nine passing runs, and three that show a disagreement of code and text.

| Run | Bounds | States | Shows |
|---|---|---|---|
| `receiver` | 4 slots, 2 frames, 2-bit counter | 11 k | invariant, race freedom, refinement of the channel, progress |
| `data_processor` | window 4, K = 3, `int` up to 5 | 2 k | exact alarm and sum |
| `edge_daemon` | ring of 2, K = 2, noise or one of 2 files | 110 k | bus and threads outlive their use, reports complete, guarded transitions, a signal ends the daemon, spikes end RUNNING |
| `edge_daemon_shutdown` | the same | | violation, see section 6 |
| `node` | 2 streams or 1 and status, queue of 2, 3 samples | 326 k | order and uniqueness of samples, status in order, `WorkerNode` implemented, `Stop()` returns and is complete |
| `coordinator` | 2 workers, one of them restarts | 363 k | consistent replies, node failure noticed, orderly end |
| `db_pool_shared` | 3 callers, 2 connections | | violation, see section 6 |
| `server` | 2 sessions, 2 threads, 2 connections, 2 frames | 134 k | permits accounted for, nobody disturbed within a round, ACK means stored, logged before stored, SIGTERM ends the server |
| `session` | 2 frames of 20 bytes, 14 pairs of bytes put at every place | 104 k | rows are the readings sent, an answer stands for a row, both ends end |
| `update_loop` | 2 nodes, 3 expirations, 3 reads in a request | 217 k | no time lost, no value goes back for a read request, stop, catching up |
| `update_loop_atomic` | the same, 1 read in a request | | violation, see section 6 |
| `vsc_network` | 1 phase, modulo 7, smallest pivot 2, 5 networks | 147 k | solution, small pivots, kernel, current balance, trapezoidal rule |

### Why the bounds are enough

* `receiver`: with four slots full, empty, wrap-around and every order of the four
  indices occur; two frames tell order and identity apart.  The proofs cover every
  capacity.
* `data_processor`: the window wraps, and `IntMax` is little more than K so that the
  counter overflows.
* `edge_daemon`: a ring of two fills and drops; K = 2 makes a run of spikes that an
  in-band frame or a halt can interrupt.  Both files hold fewer spikes than K, so that an
  alarm needs the file to begin anew; one of them holds no reading at all.  Main and worker
  are all the threads that call the state machine; the proofs cover any finite set.
* `node`: more samples than the queue holds, so that samples are dropped and two
  streams compete; Start and Stop may be called any number of times.
* `coordinator`: two workers, since the summary is a conjunction over workers; only
  one restarts (`MayStop`), since the polls of two nodes share no state but the lock.
* `server`: both threads can be in an insert, one of them waiting for the only permit that
  is left, which is the case in which the signal handler has no thread.  One user can hold
  its connection while another goes round and comes to it again.
* `session`: a good and a bad token, and readings that differ in one byte of a `SensorFrame`;
  the bytes that damage leaves are tried at all places of all frames, and are chosen so
  that they turn one type into another, a length into a shorter or longer one, bytes of one
  payload into those of another, and so that the checksum misses them in both of the ways it
  can (`MissedAreAccepted`: a reading stored with another sensor number, and one cut short that
  is acknowledged without a row).
* `update_loop`: a read can fall between any two writes of an update, three expirations can
  accumulate, and a request of three reads names a node twice and another in between.
* `vsc_network`: the five networks between them need no exchange of rows, one and two; some
  matrices are singular, others regular with a pivot that is too small, in each column; one
  grid is not that of the kernel.  TLC does not tell apart the states of a kernel that no longer
  follows (`Seen`, the VIEW), of which nothing is said.

The bounds are named constants (`MaxSamples`, `MaxFrames`, `MaxTime`, `MaxAsk`, `Clients`,
`MayStop`) in the guards of the actions or in the initial states.  Deadlock is checked
except in `db_pool_shared` and in `server`: there callers may all wait for lost permits,
and the server may stop.

### Fairness

| Module | Assumed | Because |
|---|---|---|
| `TelemetryReceiver` | weak fairness of `pop` with a fresh load of `tail_` | main polls, and a store becomes visible in finite time |
| `EdgeDaemon` | weak fairness of each thread and of `HeadVisible`; strong fairness of `PopAndProcess` | the scheduler; a pop that finds nothing because of a stale load cannot happen for ever |
| `TelemetryNode` | weak fairness of a call in progress, the producer, the handlers of streams and of a status, and the end of each stream | the scheduler; each stream has a deadline of 30 s |
| `TelemetryCoordinator` | weak fairness of main, server thread, handler and polls | the scheduler; each call has a deadline of 3 s |
| `TelemetryServer` | strong fairness of the delivery of a signal and of its coroutine; weak fairness of a session on its thread and of the join | the queue of the `io_context` is first-in-first-out; a transaction ends; a permit that stays free is taken |
| `UpdateLoop` | weak fairness of main and update thread | the scheduler; the timer is opened with `TFD_NONBLOCK`, so a read returns at once.  The update thread therefore never blocks, and `update_loop_start()` asks for SCHED_FIFO 50 for it: where that is granted and there is one processor, main runs only in the share that the real-time throttling of the kernel keeps for other threads |
| `TelemetrySession` | weak fairness of client and session | a coroutine goes on when what it awaits completes; an end that is gone ends the stream |

Nobody is assumed to send a signal, call a method, connect or fail.

## 4. Properties

* `DataRaceFree`, `ChannelSpec`, `HeadAdvances`: no race on a slot; the ring is a FIFO
  that loses nothing it accepted; every accepted frame is popped.
* `GuardedTransitions`: RUNNING only from IDLE or FAULT, FAULT only from RUNNING, and SHUTDOWN
  is left only by a `halt()` that tested the state before the shutdown: once such calls are
  over, the daemon is down for good.  `ShutdownIsFinal`, what the header says, is violated
  (section 6).  `ReportsAddUp`, a part of the invariant: reports may be reordered, yet those
  made and those to come form a walk from IDLE to the state.
* `AlarmExact`, `SumExact`: the alarm is the run of K samples, also past the overflow of
  the counter; the running sum is the sum of the window.
* `BusOutlivesUse`, `ThreadsJoined`, `ReportsUntilCleared`, `QuitEnds`,
  `SpikesEndRunning`.  `QuitEnds` has an exception the code has: the inner pop loop
  does not test `g_quit`, so a producer that is always ahead keeps it busy.
* `QueueIsRecent`: the queue holds the newest samples, and streams share them without
  taking one twice.  `StatusInOrder`: a status that says FAULT has the value that raised it
  or a newer one.  `WorkerSpec`: a node never answers IDLE or SHUTDOWN, nor takes back a
  fault.  `StoppedIsStopped`, `StopReturns`.
* `FaultNotContradicted`: a reply lists a fault beside `all_running` only for a node that was
  restarted since it gave the status listed.  `CoordinatorOutlivesUse`, `DownIsNoticed`.
  `QuitEnds` has an exception the code has: `svr.stop()` before `svr.listen()` (section 6).
* `ExclusiveForOneRound`, and `PoolInv` with `PermitsAccounted`: what the pool does
  guarantee.  Of two users of one connection, one has had it while the cursor went round;
  and only under such a user a connection is destroyed.
* `AckedIsStored`, `LoggedBeforeStored`, `SignalEnds`.  `SignalEnds` holds also after permits
  were lost, as long as one is left; it excepts runs in which all of them are, for then all
  threads may wait for the pool for ever, and signals lost with the `signal_set`.
* `RowsAreSent`, `AnsweredIsStored`: whatever is killed or thrown, and whatever damage the
  checksum covers, the table holds a prefix of what was sent, and only for a good token, and
  a client that is done has all of it stored.  Damage to a length, or a straddle, is excepted:
  a row may then be changed, or a frame acknowledged without one.  That no row comes before
  a logged AUTH_OK holds in any case.  `SessionEnds`: nobody waits for ever, unless a length
  was damaged or an insert blocks.
* `TimeKept`, `StopEnds`, `CatchesUp`.  `NeverBackwards`: a read request never sees a node go
  back in time or show the value of another node, with either data source; samples of a
  subscription are published later and not covered.  `WrittenAtomically` is violated
  (section 6).
* `SolvesGiven`, `CurrentsBalance`, `TrapezoidalRule`.  `ThrowsOnSmallPivot`: if `lu_factor()`
  returns, the matrix is regular; if it throws, there is a combination of the columns so far,
  with weight one for the present one, that is zero in the rows already chosen and below the
  threshold in all others.  A regular matrix may be refused.  `KernelFollows`: as long as the
  kernel is used like the simulator (`alike`), it is in its state.

For each property, `PROJECT.json` names a mutated definition, a plausible slip in the
code such as a dropped guard or a missing wrap, under which TLC finds the property
violated.  These definitions stand before the ones they mutate, marked *Mutant*.

## 5. Proofs

Eight modules hold theorems, for all values of the constants that satisfy the assumptions named
beside them.  The manager, the processor, the coordinator, the pool, the update loop and the session
name their specification after themselves (`ManagerSpec`, `PoolSpec`, `LoopSpec`), so that one proof
module can extend them together with the component that uses them or stands beside them.

| Module | Proves about | Assuming |
|---|---|---|
| `SumProofs` | natural numbers, recursion, `Sum` | |
| `TelemetryReceiverProofs` | `TelemetryReceiver`; `DataProcessor` | capacity at least 2; window and K positive, K within `int` |
| `EdgeDaemonProofs` | `StateManager`; `EdgeDaemon` | a finite set of threads with main and worker; K and capacity natural |
| `TelemetryNodeProofs` | `TelemetryNode`; `TelemetryCoordinator` | queue capacity and K positive; a finite set of workers, not empty |
| `ServerProofs` | `TelemetryServer`; `DbPool`; `UpdateLoop` | pool size, threads, nodes and bounds positive; finitely many sessions |
| `TelemetrySessionProofs` | `FrameProtocol`, `TelemetrySession` | payloads are bytes, shorter than 65524, those of readings as long as an insert needs |
| `LuFactorProofs` | `LuSolver`, `LuFactor` | size and smallest pivot positive, modulus prime |
| `HlsKernelProofs` | `VscNetwork`, `HlsKernel` | three nodes a phase; parameters and voltages integers |

**The ring** (`Invariance`, `RaceFreedom`, `RingImplementsChannel`).  `IInv` = types, `Ordered`
(headSeen, head, tailSeen, tail lie in this order less than once around), `Ownership` (each stretch
between two of them belongs to one side), `InFlight` and `Filled`.  Race freedom alone is not
inductive: that the producer owns its slot follows from the order of the indices and from the check
it made before.  Lemmas on `Distance` and `Span` do the modular arithmetic once.  For the refinement,
the initial state maps to the channel's, and each step to a step or a stutter, with lemmas on how the
contents shift (`PlaceShift`) and grow (`PlaceLast`).

**Filter and detector** (`AlarmIsExact`, `RingIsWindow`, `SumIsExact`).  `ProcessorInv` = types,
`CounterTracksRun`, `AlarmExact`, `RingHoldsWindow`.  `AlarmExact` needs the counter to be exact
below K, where it cannot overflow because K <= IntMax.  `RingIsWindow` shows that the slot about to
be overwritten is the oldest sample.  With it `SumExact` is inductive: the sum loses the first sample
(`SumOfTail`) and gains the new one (`SumOfAppend`).

**The state machine** (`ReportsConsistent`, `TransitionsAreGuarded`).  `ManagerInv` = types, `CallShape`,
`ReportsAddUp`.  The sum changes by counting threads that enter or leave a state; `CountStep` says
what one thread does to such a count, and `ReportStep` what its call still owes.  `CallShape` is
needed to know the edge a call reports, and for `TransitionsAreGuarded` that only a `halt()` past its
test exchanges the state for IDLE.

**The daemon** (`BusInUseIsOpen`, `ReturnsJoined`, `ReportedUntilCleared`,
`ImplementsStateManager`, `DaemonStateMachine`, `ImplementsFrameChannel`).  `IInv` = types, `ManagerInv`
and `Lifecycle`, which says what the position of the main thread implies: before `start()` there are
no threads, after a join the joined thread is done, the bus is open from `start()` to the end, and
only a thread at a call of the state machine is inside one.  Each of the three properties is a
consequence of it and none is inductive alone.  Every step of the daemon is one of the state machine
by main or worker, or leaves it alone, so the results above hold in the daemon; the same for the
channel, so that the ring may take its place.

**The node** (`StatusIsInOrder`, `StopIsComplete`, `NodeImplementsWorker`, `QueueKeepsNewest`).
`NodeInv` = types, `OwnerInv` (what each phase of `Start()` and `Stop()` knows of flag, state
machine, server and producer), `ProducerInv` (value, fault and count are stored in this order) and
`StatusInv` (a status in progress is not ahead of the node).  The refinement follows from `OwnerInv`:
while there is a server, the state is RUNNING or FAULT.  `QueueKeepsNewest` rests on `QueueInv`,
which relates the queue to the last sample pushed and to what streams have taken.

**The coordinator** (`ReplyIsConsistent`, `StopIsLast`).  `FaultStays`: a fault that was answered,
recorded or listed since the last restart of its node is still there, no older answer is on its
way, and a status is not newer than an answer that follows it.  This makes `FaultNotContradicted`
inductive, restarted nodes included, although the reply is put together under separate locks.
`ServerOver` says that main comes to `Stop()` only when the server thread has ended.

**The pool** (`PoolInvariance`, `OneRoundExclusive`).  `PoolInv` = types, `PermitsAccounted`, `CountsMoves`,
`MovesDiffer`, `StaleIsOld`.  Exclusiveness follows since two users whose distances to the cursor differ,
both less than a round, have different connections; and who still has the connection the cursor comes
to, when it is replaced, is a round behind.

**The server** (`AckMeansStored`, `LogComesFirst`, `ServerImplementsPool`, `ServerPoolIsSound`).
`Ledger` says at each place of a session how far rows are ahead of ACKs, `Logged` what is in the log;
the steps of the pool leave both alone.  Conversely each step of the server is one of the pool or
leaves it alone, so that what the pool guarantees holds in the server.

**The frames** (`BurstDetected`, `RoundTrip`).  Adding a byte and shifting are one-to-one on words
(`AddByteOneToOne`, `ShiftOneToOne`), so that two payloads that begin to differ and then go on alike
end with different words.  If they differ in two neighbouring bytes, the words could only meet after
the second; the lower half of a word after one byte tells its upper half before (`LowerTellsUpper`), so
they do not (`TwoBytes`).  `Recursion` gives the words in progress.  `RoundTrip` follows from the digits
of the length and of the checksum.  Neither theorem assumes anything of the data.

**One connection** (`LinkInvariant`, `RowsAreSentHolds`, `AnsweredIsStoredHolds`).  As long as the damage, if
any, is `Covered`, `LinkInv` holds: types,
`Counts` (what the client has counted at each of its places), `Genuine` (a logged AUTH_OK is of a good
token) and `InStep`: at each place of `handle_session()`, which frame is on its way, in which
direction, where the client is and whether a reading is not stored yet.  `Carries` says that a stream
holds what is left of one frame: a first part of it, as it was written or damaged in one place.  If
such a stream passes `read_frame()`, it is the whole frame and has its payload (`CarriesPasses`), and
nothing stays behind.  The type may have changed; `InStep` shows that this ends the session or is not
looked at, and never adds or answers a row.  Neither property is inductive: that a reading is stored
once needs that no second frame is on its way, and that an answer stands for a row that the answer
which the client reads is the one to its last frame.  There is one lemma for each action.

The checksum covers the payload alone, so a damaged length makes `deserialize()` take the checksum of
other bytes, and a straddle may change checksum and payload so that they match again.  Whether that is
noticed depends on the data, so nothing is claimed after it (`Covered`); all other damage of two bytes
is noticed, or is to a type and does no harm, by `BurstDetected` and without assumptions on the data.

**The update loop** (`NoTickLost`, `TwoTicksAtMost`, `ClientsSeeNoStep`).  `LoopInv` adds the position of
the write cursor, the lag of the counter and the order of start-up to `TimeKept` and
`WrittenInOrder`.  `ClientsSeeNoStep` needs an invariant of the requests as well: what is shown, what
the pool holds and what waits to be encoded are of the right node, and none is newer than what may
still be read of it.

**The solver** (`SolvesEverySystem`, `FactorsSolve`, `ThrowsWhenSmall`).  `FactorInv` holds in every
column: the factors made so far multiply to the given matrix with its rows in the order of the
exchanges made so far, the pivots used are not less than `Smallest`, and a call that has thrown found
a column whose entries all are.  An exchange moves the multipliers with their rows (`SwapFactors`), an elimination
takes off a row what its new multiplier puts back (`EliminateFactors`).  `ForwardIs` and `BackIs` say
what the substitutions compute, `SolveCorrect` that together they solve the system, since the
permutation reaches every row (`PermutedOnto`).  When all pivots are there, `RegularKernel` shows that only
zero is mapped to zero.  When the call throws, back substitution in the columns before gives the
combination of `ThrowsOnSmallPivot`, and `ColumnLeft` shows that the matrix maps it to what is left of
the column, which is small.  That every number but zero
has an inverse is proved from the primality of the modulus (`InverseExists`), by descent.  Numbers
are compared up to multiples of the modulus (`Cong`), so that the sums are sums of integers.

**The network and the kernel** (`FollowsTrapezoidalRule`, `ObeysCurrentLaw`, `KernelAgrees`).  `NetworkInv` = `FactorInv`, types, the matrix is that of the gate signals, the
factors are of these gate signals when `step()` uses them, and the histories are those of the present
voltages and currents.  The trapezoidal rule needs the last; the balance of currents also
that row i of the matrix times the voltages is what leaves node i (`AssembleDot`, `PhaseEntries`).
For the kernel, `IInv` adds that, while `alike`, the factors it was given once are still those of the
network, and `pivot` is the permutation: gathering by it is then the same as the exchanges one after
another, and the histories the kernel computes in one expression are those of the network (`InductorKernel`,
`CapacitorKernel`).

**Induction over data.**  Induction theorems that take a predicate as parameter cannot be used with
the provers at hand.  `SumProofs` derives what is needed from the well-foundedness of the numbers: a
set of numbers has a least element (`Least`), a set that holds 0 and with every number its successor
holds all (`SetInduction`), and a recursion whose step is a function has a solution (`Recursion`).
What `Sum` and the permutations and substitutions of the solver compute is proved with them.

Only model-checked are the liveness properties: they need fairness and ENABLED.

Every invariant and action property that a passing run checks is proved.

## 6. Where code and text disagree

Three runs show a disagreement:

* `db_pool_shared`: `DbPool::acquire()` hands out `conns_[next_]` without looking whether its
  last user has released it.  With one slow user, others bring the cursor round, and a
  connection has two users, while `DbPool.h:18` promises to wait until a connection is
  available.
* `edge_daemon_shutdown`: `halt()` (`StateManager.cpp:33`) tests for SHUTDOWN and exchanges in two
  steps.  A Halt call of a D-Bus client that has tested when main shuts down overwrites
  SHUTDOWN with IDLE, while `StateManager.h:18` says "no-op from SHUTDOWN".
* `update_loop_atomic`: `update_all_nodes()` makes nine separate stores, so that memory holds values
  of two ticks in between, while `INFORMATION-MODEL.md:28` says all nine values are written
  atomically.

Further disagreements met while translating the code.  No run is dedicated to them; the models
reproduce all but the last two:

* `main.cpp:71`: nothing resets the detector when a client starts again after FAULT, so
  with spikes still coming the next frame faults again, while
  `test_fault_injection.py:65` expects RUNNING after `Start()`.
* `DbPool.cpp:23`: an `ensure_open()` that throws keeps its permit; after as many failures
  as there are permits, callers wait for ever.
* `TelemetryNode.cpp:32`: a handler woken by `Stop()` does not leave its loop, which tests
  cancellation and deadline only, while the comment at line 99 says it can exit.
* `TelemetryNode.cpp:151`: streams share one queue, so each misses what another took, while
  `DISTRIBUTION-DESIGN.md:35` speaks of continuous telemetry to any coordinator.
* `main_coordinator.cpp:53`: after a signal during start-up `svr.stop()` runs before the server
  thread comes to `svr.listen()`, where it has no effect, and the join in the next line does not
  return (`StoppedTooSoon`).
* `TlsServer.cpp:119`: the `signal_set` is a local of `listen()`, which an error of `async_accept`
  ends, while the coroutine that waits for a signal refers to it: a signal that comes just
  before is lost, and the server goes on without accepting.
* `FrameProtocol.cpp:80`: the checksum is there to find damage, but covers the payload alone; a
  length made shorter can leave a frame that passes and is acknowledged without a row
  (`TcpServer.cpp:84`).
* `DbPool.cpp:15`: a closed connection is replaced also while its last user is in a transaction
  on it; the reference that `acquire()` returned to that user is then dangling.
* `update_loop.c:44`: the timer is made in the thread, after `update_loop_start()` has
  returned 0; `server_main.c:40` expects its failure there.
* `LuSolver.h:9`: "Throws std::runtime_error if matrix is singular"; it throws for every pivot
  below 1e-15, also of regular matrices.
* `LuSolver.h:8`: "pivot stores row permutation"; it stores exchanges, which is what its `lu_solve`
  uses.  The FPGA kernel gathers by a permutation (`lu_solve.cpp:65`): given the `pivot` of a matrix
  that needed an exchange, it solves another system.
* `hls_solver/README.md:18`: CI tests "the equivalent" solver.  `VscNetwork` factors anew at every
  change of the gates (`VscNetwork.cpp:73`); the kernel keeps the factors "pre-factored once at init"
  (line 29) and only changes its right-hand side.  `solver_top.cpp:57` names a `reconfig_flag` that
  no code reads.  It also has 230 V and 50 Hz built in (`norton_update.cpp:38`), which are parameters of
  `VscNetwork`.  `KernelFollows` is stated for the steps these leave alike.
* `data_source_opt.c:14`: `variant_scalars` is said to be updated by the timerfd thread; the read
  callback updates it.
* `async_telemetry_server/README.md:60` starts the client, which speaks plain TCP, on port 8443,
  where `main()` runs `TlsServer` only.
* `solver_top.cpp:60`: "one call = one 50 µs simulation step"; in `ap_fixed<32,16>` the step is
  truncated to 3/65536 s, 45.8 µs.  The type is used in synthesis only and is not modelled.

## 7. Not modelled

* TLS credentials, generated gRPC code, the token issuer, telemetry waveforms, scripts and
  deployment files: I/O or stateless library calls.
* Rounding of floating-point numbers, the fixed-point type of the synthesised kernel, and the
  time it keeps: the solver modules compute in a finite field, which has no rounding.
* `controller.py`, `vsc_model.py` and `analysis.py`: sequential floating-point code whose
  properties are about rounding and spectra.
* The subscriptions of OPC UA clients, see section 2.
* What becomes of a network after `lu_factor()` has thrown in `step()`: `LU_` is half overwritten and
  `gate_factored_` still names the gates before, so that a caller who caught the exception and went
  back to those gates would solve with it.  Nothing in the repository catches it; the run ends there.
* Frames of 65524 bytes and more, for which damage can make `12 + plen` wrap.
* What libsystemd does with one bus object used by two threads (`DaemonBus.cpp:150`).
* The text of numbers in a file, and the distribution of simulated values: a reading is in
  band or a spike.
* `alarm_active_` and `last_raw_` of `TelemetryNode`: written and never read.  The
  `processed_count` of `DaemonBus` is never incremented, so `RunDiagnostics` reports 0.
* Several clients of one `TcpServer` session: sessions share nothing but the database, which
  `TelemetryServer` and `DbPool` model.

## 8. Plan

1. Extend: the fixed-point kernel with its width; the clamp of the integrator in `controller.py`.
2. Prove: the connections of `TelemetrySession` as sessions of `TelemetryServer`, by a refinement
   that forgets the bytes.
