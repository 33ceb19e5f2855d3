----------------------------- MODULE UpdateLoop -----------------------------
(***************************************************************************)
(* The 1 kHz update loop of the OPC UA edge server (update_loop.c,         *)
(* data_source.c or data_source_opt.c, information_model.c, server_main.c):*)
(* a thread that on every expiration of a timerfd writes the node values   *)
(* one by one, and the main thread, which starts it, serves the reads of   *)
(* the clients, and stops it.                                              *)
(*                                                                         *)
(* A value is the node it belongs to and the tick it was computed at.  The *)
(* values are relaxed atomics: a read may return an old value, but never   *)
(* one older than what the same thread has read of that node before.       *)
(***************************************************************************)
EXTENDS Integers, Sequences

CONSTANTS NUM_NODES,   \* node values
          MaxTime,     \* bound: expirations of the timer
          MaxAsk       \* bound: nodes that one read request names

ASSUME NodesAssumption == NUM_NODES \in Nat \ {0}
ASSUME TimeAssumption == MaxTime \in Nat \ {0}
ASSUME AskAssumption == MaxAsk \in Nat \ {0}

VARIABLES
  running, tickCount,      \* g_running and g_tick_count of update_loop.c
  value,                   \* g_node_values, the last write to each
  visible,                 \* the writes to each that a read may still return
  timer,                   \* the timerfd: none, armed, or failed to be created
  pending, elapsed,        \* expirations not read, and ghost: all of them
  threadAt, tick, slot,    \* update_thread: its step, tick, and next node to write
  mainAt, quit,            \* main(), and the g_running it gives to the server (negated)
  pooled,                  \* the build option USE_OPTIMISED_DATASOURCE
  copies,                  \* whether the server copies a variant when it gets it
  context,                 \* the nodeContext of each node in the address space
  scalar, backing,         \* variant_scalars, and where the data of node_variants points
  asked, answers,          \* a read request: nodes still to read, answers not yet encoded
  shown                    \* ghost: the last value of each node in a reply to a read request

Node == 1 .. NUM_NODES
Value == [of : Node, at : 0 .. MaxTime]
Zero(i) == [of |-> i, at |-> 0]

memory == <<running, tickCount, value, visible>>
clock == <<timer, pending, elapsed>>
thread == <<threadAt, tick, slot>>
wiring == <<pooled, copies, context, backing>>
request == <<scalar, asked, answers, shown>>
server == <<mainAt, quit, wiring, request>>
loopVars == <<memory, clock, thread, server>>

LoopTypeOK ==
  /\ running \in BOOLEAN /\ tickCount \in 0 .. MaxTime
  /\ value \in [Node -> 0 .. MaxTime]
  /\ visible \in [Node -> SUBSET (0 .. MaxTime)]
  /\ timer \in {"none", "armed", "failed"}
  /\ pending \in 0 .. MaxTime /\ elapsed \in 0 .. MaxTime
  /\ threadAt \in {"none", "create", "test", "read", "write", "count", "done"}
  /\ tick \in 0 .. MaxTime /\ slot \in 1 .. NUM_NODES
  /\ mainAt \in {"model", "attach", "start", "spawn", "startup", "serve", "stop", "join", "done", "failed"}
  /\ quit \in BOOLEAN

ReadTypeOK ==
  /\ pooled \in BOOLEAN /\ copies \in BOOLEAN
  /\ context \in [Node -> Node] /\ backing \in [Node -> Node]
  /\ scalar \in [Node -> Value] /\ shown \in [Node -> Value]
  /\ asked \in Seq(Node) /\ answers \in Seq([node : Node, val : Value])

LoopInit ==
  /\ running = FALSE /\ tickCount = 0
  /\ value = [i \in Node |-> 0] /\ visible = [i \in Node |-> {0}]
  /\ timer = "none" /\ pending = 0 /\ elapsed = 0
  /\ threadAt = "none" /\ tick = 0 /\ slot = 1
  /\ mainAt = "model" /\ quit = FALSE
  /\ pooled \in BOOLEAN /\ copies \in BOOLEAN /\ (pooled \/ copies)
  /\ context = [i \in Node |-> 1] /\ backing = [i \in Node |-> 1]   \* all bits zero
  /\ scalar = [i \in Node |-> Zero(i)] /\ shown = [i \in Node |-> Zero(i)]
  /\ asked = <<>> /\ answers = <<>>

-------------------------------------------------------------------------------
(* main() *)

StopHandler ==
  /\ ~quit
  /\ quit' = TRUE
  /\ UNCHANGED <<memory, clock, thread, mainAt, wiring, request>>

\* information_model_init(): every node is added with its index as nodeContext,
\* or one of the calls fails.
BuildModel ==
  /\ mainAt = "model"
  /\ \/ mainAt' = "attach" /\ context' = [i \in Node |-> i]
     \/ mainAt' = "failed" /\ UNCHANGED context
  /\ UNCHANGED <<memory, clock, thread, quit, pooled, copies, backing, request>>

\* Mutant: all variants of the pool point to the first scalar.
AttachShared ==
  /\ mainAt = "attach"
  /\ mainAt' = "start"
  /\ UNCHANGED <<memory, clock, thread, quit, wiring, request>>

\* data_source_init(): from now on a node is read through the callback, which in
\* the optimised build gives out a variant of the pool.
AttachSources ==
  /\ mainAt = "attach"
  /\ mainAt' = "start"
  /\ backing' = IF pooled THEN [i \in Node |-> i] ELSE backing
  /\ UNCHANGED <<memory, clock, thread, quit, pooled, copies, context, request>>

\* update_loop_start(): the flag and the counter, then pthread_create.
StartFlag ==
  /\ mainAt = "start"
  /\ running' = TRUE /\ tickCount' = 0
  /\ mainAt' = "spawn"
  /\ UNCHANGED <<value, visible, clock, thread, quit, wiring, request>>

StartThread ==
  /\ mainAt = "spawn"
  /\ \/ threadAt' = "create" /\ mainAt' = "startup"  \* returns 0, whatever the thread meets
     \/ mainAt' = "failed" /\ UNCHANGED threadAt     \* returns -1
  /\ UNCHANGED <<memory, clock, tick, slot, quit, wiring, request>>

\* UA_Server_run: the server starts up, or cannot and returns at once.
RunStartup ==
  /\ mainAt = "startup"
  /\ mainAt' \in {"serve", "stop"}
  /\ UNCHANGED <<memory, clock, thread, quit, wiring, request>>

\* A client asks for some nodes, a node perhaps twice.
Request ==
  /\ mainAt = "serve" /\ ~quit /\ asked = <<>> /\ answers = <<>>
  /\ \E n \in 1 .. MaxAsk : asked' \in [1 .. n -> Node]
  /\ UNCHANGED <<memory, clock, thread, mainAt, quit, wiring, scalar, answers, shown>>

\* The callbacks, once they have loaded the value v of the node: the answer is a copy
\* of it, or in the pool a variant that points to the scalar it is stored to.
cnc_read_callback(idx, v) == UNCHANGED scalar
cnc_read_callback_opt(idx, v) == scalar' = [scalar EXCEPT ![idx] = [of |-> idx, at |-> v]]

\* The server reads the next node: a relaxed load of the value its context names.
ReadNode ==
  /\ mainAt = "serve" /\ asked # <<>>
  /\ LET idx == context[Head(asked)] IN
     \E v \in visible[idx] :
       /\ visible' = [visible EXCEPT ![idx] = {w \in @ : w >= v}]
       /\ IF pooled THEN cnc_read_callback_opt(idx, v) ELSE cnc_read_callback(idx, v)
       /\ answers' = Append(answers, [node |-> Head(asked), val |-> [of |-> idx, at |-> v]])
  /\ asked' = Tail(asked)
  /\ UNCHANGED <<running, tickCount, value, clock, thread, mainAt, quit, wiring, shown>>

\* Answers are pointers into the pool until they are encoded.
Late == pooled /\ ~copies

\* The server encodes the reply once all its nodes are read.  A variant
\* of the pool that it has not copied is a pointer, which it follows only now.
Encode ==
  /\ mainAt = "serve" /\ asked = <<>> /\ answers # <<>>
  /\ LET a == Head(answers)
         v == IF Late THEN scalar[backing[context[a.node]]] ELSE a.val
     IN shown' = [shown EXCEPT ![a.node] = v]
  /\ answers' = Tail(answers)
  /\ UNCHANGED <<memory, clock, thread, mainAt, quit, wiring, scalar, asked>>

\* UA_Server_run returns; update_loop_stop() clears the flag.
StopFlag ==
  /\ \/ mainAt = "serve" /\ quit /\ asked = <<>> /\ answers = <<>>
     \/ mainAt = "stop"
  /\ running' = FALSE
  /\ mainAt' = "join"
  /\ UNCHANGED <<tickCount, value, visible, clock, thread, quit, wiring, request>>

StopJoin ==
  /\ mainAt = "join" /\ threadAt = "done"
  /\ mainAt' = "done"
  /\ UNCHANGED <<memory, clock, thread, quit, wiring, request>>

-------------------------------------------------------------------------------
(* update_thread() *)

CreateTimer ==
  /\ threadAt = "create"
  /\ \/ timer' = "armed" /\ threadAt' = "test"
     \/ timer' = "failed" /\ threadAt' = "done"
  /\ UNCHANGED <<memory, pending, elapsed, tick, slot, server>>

\* The kernel: the timer expires.
Expire ==
  /\ timer = "armed" /\ threadAt # "done" /\ elapsed < MaxTime
  /\ elapsed' = elapsed + 1 /\ pending' = pending + 1
  /\ UNCHANGED <<memory, timer, thread, server>>

\* Mutant: the loop does not look at the flag.
TestNothing ==
  /\ threadAt = "test"
  /\ threadAt' = "read"
  /\ UNCHANGED <<memory, clock, tick, slot, server>>

\* while (g_running)
Test ==
  /\ threadAt = "test"
  /\ threadAt' = IF running THEN "read" ELSE "done"
  /\ UNCHANGED <<memory, clock, tick, slot, server>>

\* Mutant: an expiration is a tick, however many there were.
ReadTimerOneTick ==
  /\ threadAt = "read" /\ pending > 0
  /\ tick' = tick + 1
  /\ pending' = 0
  /\ threadAt' = "write"
  /\ UNCHANGED <<memory, timer, elapsed, slot, server>>

\* read(tfd) returns the expirations since the last read: tick += exp.
ReadTimer ==
  /\ threadAt = "read" /\ pending > 0
  /\ tick' = tick + pending
  /\ pending' = 0
  /\ threadAt' = "write"
  /\ UNCHANGED <<memory, timer, elapsed, slot, server>>

\* The timerfd does not block: without an expiration the loop goes round.
ReadNothing ==
  /\ threadAt = "read" /\ pending = 0
  /\ threadAt' = "test"
  /\ UNCHANGED <<memory, clock, tick, slot, server>>

Store(i) ==
  /\ value' = [value EXCEPT ![i] = tick]
  /\ visible' = [visible EXCEPT ![i] = @ \cup {tick}]

\* update_all_nodes(): one data_source_set() after another.
WriteNode ==
  /\ threadAt = "write"
  /\ Store(slot)
  /\ IF slot < NUM_NODES
     THEN slot' = slot + 1 /\ UNCHANGED threadAt
     ELSE slot' = 1 /\ threadAt' = "count"
  /\ UNCHANGED <<running, tickCount, clock, tick, server>>

\* g_tick_count
StoreCount ==
  /\ threadAt = "count"
  /\ tickCount' = tick
  /\ threadAt' = "test"
  /\ UNCHANGED <<running, value, visible, clock, tick, slot, server>>

-------------------------------------------------------------------------------
Main ==
  \/ BuildModel \/ AttachSources \/ StartFlag \/ StartThread \/ RunStartup
  \/ ReadNode \/ Encode \/ StopFlag \/ StopJoin
Thread == CreateTimer \/ Test \/ ReadTimer \/ ReadNothing \/ WriteNode \/ StoreCount
Over == mainAt \in {"done", "failed"} /\ UNCHANGED loopVars

LoopNext == StopHandler \/ Main \/ Request \/ Thread \/ Expire \/ Over

LoopSpec == LoopInit /\ [][LoopNext]_loopVars

(* Both threads are scheduled.  The update thread never blocks, and if it is *)
(* granted SCHED_FIFO it leaves main(), on one processor, only the share     *)
(* that the kernel's real-time throttling keeps for the others; that is      *)
(* enough here, and without the throttling main() would starve.  Nothing is  *)
(* assumed of the clients, of the signal or of the timer.                    *)
LoopFairSpec == LoopSpec /\ WF_loopVars(Main) /\ WF_loopVars(Thread)

-------------------------------------------------------------------------------
(* No time is lost: the tick and what the timerfd still holds are all the    *)
(* expirations there were, however late the thread reads them (overruns).    *)
TimeKept == tick + pending = elapsed

(* Between two updates all nodes are of the same tick; during one, those     *)
(* before the slot are of the new tick and those from it on of the last      *)
(* published one: memory never holds values of three ticks.                  *)
WrittenInOrder ==
  \A i \in Node :
    value[i] = IF threadAt = "write" /\ i >= slot THEN tickCount ELSE tick

(* "All 9 values are written atomically to g_node_values[NUM_NODES] each      *)
(* tick" (INFORMATION-MODEL.md:27): whoever looks finds values of one tick.  *)
WrittenAtomically == \A i, j \in Node : value[i] = value[j]

\* The write cursor is at the first node whenever no update is going on.
SlotAtRest == threadAt # "write" => slot = 1

\* The counter is the tick of the last complete update.
CountTrails ==
  /\ tickCount <= tick
  /\ threadAt \notin {"write", "count"} => tickCount = tick

\* Nothing ticks before the timer is armed.
TimerFirst ==
  /\ timer # "armed" => elapsed = 0
  /\ timer = "none" <=> threadAt \in {"none", "create"}

\* There is an update thread once pthread_create has returned.
ThreadSpawned == (threadAt = "none") <=> (mainAt \in {"model", "attach", "start", "spawn", "failed"})

(* The inductive invariant: no tick is lost, and values are written in order *)
(* before the counter says so, from the moment the timer is armed.           *)
LoopInv ==
  LoopTypeOK /\ TimeKept /\ WrittenInOrder /\ SlotAtRest /\ CountTrails /\ TimerFirst /\ ThreadSpawned

\* The address space and the pool are set up before clients are served.
Wired ==
  /\ mainAt \in {"attach", "start", "spawn", "startup", "serve"} => context = [i \in Node |-> i]
  /\ mainAt \in {"start", "spawn", "startup", "serve"} /\ pooled => backing = [i \in Node |-> i]

\* What can still be read of a node is what it holds or older.
LastIsVisible == \A i \in Node : value[i] \in visible[i] /\ \A w \in visible[i] : w <= value[i]

\* The pool never is ahead of what can still be read, nor behind what was told.
PoolInOrder ==
  \A i \in Node :
    /\ scalar[i].of = i /\ shown[i].of = i
    /\ \A w \in visible[i] : shown[i].at <= w /\ scalar[i].at <= w
    /\ Late => shown[i].at <= scalar[i].at

\* Copied answers are in the order of their reads, between what was told and
\* what can still be read.
AnswersInOrder ==
  \A k \in 1 .. Len(answers) :
    LET a == answers[k] IN
    /\ a.val.of = a.node
    /\ \A w \in visible[a.node] : a.val.at <= w
    /\ ~Late => shown[a.node].at <= a.val.at
    /\ \A l \in 1 .. k : answers[l].node = a.node => answers[l].val.at <= a.val.at

(* The inductive invariant of the reads: told, pooled, answered and readable *)
(* values of a node are in this order at any moment.                         *)
ReadInv == ReadTypeOK /\ Wired /\ LastIsVisible /\ PoolInOrder /\ AnswersInOrder

(* What a read request is answered of a node is a value of that node, and    *)
(* never older than what any read request was answered of it before: not     *)
(* when a request names a node twice, and not when the answers point into    *)
(* the pool of the optimised data source while later nodes of the request    *)
(* are read.                                                                 *)
NeverBackwards == [][\A i \in Node : shown'[i].of = i /\ shown'[i].at >= shown[i].at]_loopVars

(* update_loop_stop() returns: after the signal the process ends, whether or *)
(* not the timer ever fires again, and also if it was never created.         *)
StopEnds == quit ~> mainAt \in {"done", "failed"}

(* Every expiration is published or the loop is stopped: the thread catches  *)
(* up with the timer after any overrun.                                      *)
CatchesUp == \A n \in 1 .. MaxTime : elapsed = n ~> tickCount >= n \/ ~running
=============================================================================
