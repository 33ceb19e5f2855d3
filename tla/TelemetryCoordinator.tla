------------------------ MODULE TelemetryCoordinator ------------------------
(***************************************************************************)
(* The coordinator of the distributed system                               *)
(* (secure_distributed_node/src/TelemetryCoordinator.cpp and               *)
(* main_coordinator.cpp): one polling thread per worker node, the /health  *)
(* handler of the HTTP server, the thread that serves it, and main().      *)
(*                                                                         *)
(* A worker node is what a status request can see of it, the module        *)
(* WorkerNode, which TelemetryNode implements; it may be restarted.  gRPC  *)
(* and the HTTP library are external.                                      *)
(***************************************************************************)
EXTENDS Naturals, FiniteSets

CONSTANTS
  Worker,        \* the worker nodes
  MayStop        \* bound: the workers that may be stopped and restarted

ASSUME WorkerAssumption == Worker # {} /\ IsFiniteSet(Worker) /\ MayStop \subseteq Worker

VARIABLES
  node,          \* external: what each node would answer, "off" before it is started, or "down"
  outdated,      \* ghost: what is known of each node from before its last restart
  quit,          \* g_quit
  mainAt,        \* where main() is
  serverAt,      \* where the server thread is
  polling,       \* running_
  pollAt,        \* where each PollWorker() is
  answer,        \* the result of its call: a state, or "failed"
  lastStatus,    \* last_status.fsm_state, "empty" before the first answer (the empty string)
  reachable,     \* reachable
  healthAt,      \* where the /health handler is
  listed,        \* the states it has taken from LatestStatuses()
  allRunning     \* the all_running of its reply, FALSE before

pollVars == <<polling, pollAt, answer, lastStatus, reachable>>
healthVars == <<healthAt, listed, allRunning>>
mainVars == <<quit, mainAt, serverAt>>
coordinatorVars == <<node, outdated, mainVars, pollVars, healthVars>>

Node(w) == INSTANCE WorkerNode WITH shows <- node[w]

NodeState == {"RUNNING", "FAULT"}

\* What the coordinator has of a node: the answer of the call in progress, the status it
\* recorded, and the status the /health handler has taken.
Kept(w) ==
  {k \in {"answer", "status", "listed"} :
     \/ k = "answer" /\ answer[w] # "failed"
     \/ k = "status" /\ lastStatus[w] # "empty"
     \/ k = "listed" /\ listed[w] # "empty"}

\* One of them is taken over from another, and is as old as that.
Copied(old, from, to) == IF from \in old THEN old \cup {to} ELSE old \ {to}

CoordinatorTypeOK ==
  /\ node \in [Worker -> NodeState \cup {"off", "down"}] /\ outdated \in [Worker -> SUBSET {"answer", "status", "listed"}]
  /\ quit \in BOOLEAN
  /\ mainAt \in {"start", "serve", "joinServer", "stopPolling", "join", "exit"}
  /\ serverAt \in {"none", "spawned", "listening", "stopping", "ended"}
  /\ polling \in BOOLEAN
  /\ pollAt \in [Worker -> {"none", "test", "calling", "record", "done"}]
  /\ answer \in [Worker -> NodeState \cup {"failed"}]
  /\ lastStatus \in [Worker -> NodeState \cup {"empty"}] /\ reachable \in [Worker -> BOOLEAN]
  /\ healthAt \in {"idle", "summary"}
  /\ listed \in [Worker -> NodeState \cup {"empty"}]
  /\ allRunning \in BOOLEAN

CoordinatorInit ==
  /\ node = [w \in Worker |-> "off"] /\ outdated = [w \in Worker |-> {}]
  /\ quit = FALSE /\ mainAt = "start" /\ serverAt = "none" /\ polling = FALSE
  /\ pollAt = [w \in Worker |-> "none"] /\ answer = [w \in Worker |-> "failed"]
  /\ lastStatus = [w \in Worker |-> "empty"] /\ reachable = [w \in Worker |-> FALSE]
  /\ healthAt = "idle" /\ listed = [w \in Worker |-> "empty"]
  /\ allRunning = FALSE

-------------------------------------------------------------------------------
(* The worker nodes: each takes the steps of a WorkerNode *)

NodeBecomes(w, state) ==
  /\ node' = [node EXCEPT ![w] = state]
  /\ UNCHANGED <<mainVars, pollVars, healthVars>>

NodeListens(w) ==
  /\ \E state \in NodeState : NodeBecomes(w, state) /\ Node(w)!Listen
  /\ outdated' = [outdated EXCEPT ![w] = IF node[w] = "down" THEN Kept(w) ELSE @]

NodeFaults(w) == NodeBecomes(w, "FAULT") /\ Node(w)!Fault /\ UNCHANGED outdated

NodeStops(w) == w \in MayStop /\ NodeBecomes(w, "down") /\ Node(w)!Close /\ UNCHANGED outdated

-------------------------------------------------------------------------------
(* PollWorker() *)

\* Mutant: the loop does not look at running_.
PollAgain(w) ==
  /\ pollAt[w] = "test"
  /\ pollAt' = [pollAt EXCEPT ![w] = "calling"]
  /\ UNCHANGED <<node, outdated, mainVars, polling, answer, lastStatus, reachable, healthVars>>

\* while (running_.load()) ... GetNodeStatus() is called with a deadline of 3 s.
PollTest(w) ==
  /\ pollAt[w] = "test"
  /\ pollAt' = [pollAt EXCEPT ![w] = IF polling THEN "calling" ELSE "done"]
  /\ UNCHANGED <<node, outdated, mainVars, polling, answer, lastStatus, reachable, healthVars>>

\* The node answers with its state of that moment; the answer takes its time.
PollAnswered(w) ==
  /\ pollAt[w] = "calling" /\ node[w] \in NodeState
  /\ answer' = [answer EXCEPT ![w] = node[w]]
  /\ outdated' = [outdated EXCEPT ![w] = @ \ {"answer"}]
  /\ pollAt' = [pollAt EXCEPT ![w] = "record"]
  /\ UNCHANGED <<node, mainVars, polling, lastStatus, reachable, healthVars>>

\* The node is down, the connection fails, or the answer is later than the deadline.
PollFailed(w) ==
  /\ \/ pollAt[w] = "calling"
     \/ pollAt[w] = "record" /\ answer[w] # "failed"
  /\ answer' = [answer EXCEPT ![w] = "failed"]
  /\ outdated' = [outdated EXCEPT ![w] = @ \ {"answer"}]
  /\ pollAt' = [pollAt EXCEPT ![w] = "record"]
  /\ UNCHANGED <<node, mainVars, polling, lastStatus, reachable, healthVars>>

\* Mutant: a failed call leaves the node reachable.
PollRecordOptimistic(w) ==
  /\ pollAt[w] = "record"
  /\ lastStatus' = [lastStatus EXCEPT ![w] = IF answer[w] = "failed" THEN @ ELSE answer[w]]
  /\ reachable' = [reachable EXCEPT ![w] = @ \/ answer[w] # "failed"]
  /\ answer' = [answer EXCEPT ![w] = "failed"]
  /\ outdated' = [outdated EXCEPT ![w] =
                    (IF answer[w] = "failed" THEN @ ELSE Copied(@, "answer", "status")) \ {"answer"}]
  /\ pollAt' = [pollAt EXCEPT ![w] = "test"]
  /\ UNCHANGED <<node, mainVars, polling, healthVars>>

\* With mu_ held: an answer replaces the status, a failure keeps the last one.
PollRecord(w) ==
  /\ pollAt[w] = "record"
  /\ lastStatus' = [lastStatus EXCEPT ![w] = IF answer[w] = "failed" THEN @ ELSE answer[w]]
  /\ reachable' = [reachable EXCEPT ![w] = answer[w] # "failed"]
  /\ answer' = [answer EXCEPT ![w] = "failed"]
  /\ outdated' = [outdated EXCEPT ![w] =
                    (IF answer[w] = "failed" THEN @ ELSE Copied(@, "answer", "status")) \ {"answer"}]
  /\ pollAt' = [pollAt EXCEPT ![w] = "test"]
  /\ UNCHANGED <<node, mainVars, polling, healthVars>>

PollWorker(w) == PollTest(w) \/ PollAnswered(w) \/ PollFailed(w) \/ PollRecord(w)

-------------------------------------------------------------------------------
(* The /health handler: each of its calls takes and releases mu_ *)

\* LatestStatuses(), and IsReachable(id) for each, which only goes into the reply
HealthList ==
  /\ healthAt = "idle" /\ serverAt = "listening"
  /\ listed' = lastStatus
  /\ outdated' = [w \in Worker |-> Copied(outdated[w], "status", "listed")]
  /\ allRunning' = FALSE
  /\ healthAt' = "summary"
  /\ UNCHANGED <<node, mainVars, pollVars>>

\* Mutant: one node that runs is enough.
SomeNodeRunning == \E w \in Worker : reachable[w] /\ lastStatus[w] = "RUNNING"

AllNodesRunning == \A w \in Worker : reachable[w] /\ lastStatus[w] = "RUNNING"

\* AllNodesRunning(), and the reply; one that says all_running stays until the next.
HealthReply ==
  /\ healthAt = "summary"
  /\ allRunning' = AllNodesRunning
  /\ listed' = IF allRunning' THEN listed ELSE [w \in Worker |-> "empty"]
  /\ outdated' = IF allRunning' THEN outdated ELSE [w \in Worker |-> outdated[w] \ {"listed"}]
  /\ healthAt' = "idle"
  /\ UNCHANGED <<node, mainVars, pollVars>>

-------------------------------------------------------------------------------
(* The server thread: svr.listen(), of the HTTP library *)

\* The port is bound and served from now on, or cannot be bound and listen() returns.
ServerListens ==
  /\ serverAt = "spawned"
  /\ serverAt' \in {"listening", "ended"}
  /\ UNCHANGED <<node, outdated, quit, mainAt, pollVars, healthVars>>

\* listen() returns when it has been stopped and the request in progress is finished.
ServerEnds ==
  /\ serverAt = "stopping" /\ healthAt = "idle"
  /\ serverAt' = "ended"
  /\ UNCHANGED <<node, outdated, quit, mainAt, pollVars, healthVars>>

Server == ServerListens \/ ServerEnds

-------------------------------------------------------------------------------
(* main() *)

Signal ==
  /\ ~quit /\ quit' = TRUE
  /\ UNCHANGED <<node, outdated, mainAt, serverAt, pollVars, healthVars>>

\* coord.Start() and std::thread server_thread, which comes to listen() in its own time
MainStart ==
  /\ mainAt = "start"
  /\ polling' = TRUE
  /\ pollAt' = [w \in Worker |-> "test"]
  /\ serverAt' = "spawned"
  /\ mainAt' = "serve"
  /\ UNCHANGED <<node, outdated, quit, answer, lastStatus, reachable, healthVars>>

\* The loop sees g_quit; svr.stop() does nothing if the server does not listen (yet).
MainStopServer ==
  /\ mainAt = "serve" /\ quit
  /\ serverAt' = IF serverAt = "listening" THEN "stopping" ELSE serverAt
  /\ mainAt' = "joinServer"
  /\ UNCHANGED <<node, outdated, quit, pollVars, healthVars>>

\* Mutant: the server thread is not joined.
MainJoinServerNow ==
  /\ mainAt = "joinServer"
  /\ mainAt' = "stopPolling"
  /\ UNCHANGED <<node, outdated, quit, serverAt, pollVars, healthVars>>

\* server_thread.join()
MainJoinServer ==
  /\ mainAt = "joinServer" /\ serverAt = "ended"
  /\ mainAt' = "stopPolling"
  /\ UNCHANGED <<node, outdated, quit, serverAt, pollVars, healthVars>>

\* coord.Stop()
MainStopPolling ==
  /\ mainAt = "stopPolling"
  /\ polling' = FALSE
  /\ mainAt' = "join"
  /\ UNCHANGED <<node, outdated, quit, serverAt, pollAt, answer, lastStatus, reachable, healthVars>>

MainJoin ==
  /\ mainAt = "join" /\ \A w \in Worker : pollAt[w] = "done"
  /\ mainAt' = "exit"
  /\ UNCHANGED <<node, outdated, quit, serverAt, pollVars, healthVars>>

Main == MainStart \/ MainStopServer \/ MainJoinServer \/ MainStopPolling \/ MainJoin

-------------------------------------------------------------------------------
CoordinatorNext ==
  \/ \E w \in Worker : NodeListens(w) \/ NodeFaults(w) \/ NodeStops(w) \/ PollWorker(w)
  \/ HealthList \/ HealthReply \/ Server
  \/ Signal \/ Main

\* Every thread runs on, and a call ends at its deadline at the latest.
CoordinatorFairness ==
  /\ WF_coordinatorVars(Main) /\ WF_coordinatorVars(Server) /\ WF_coordinatorVars(HealthReply)
  /\ \A w \in Worker : WF_coordinatorVars(PollWorker(w))

CoordinatorSpec == CoordinatorInit /\ [][CoordinatorNext]_coordinatorVars /\ CoordinatorFairness

-------------------------------------------------------------------------------
(* Properties *)

\* If a reply says that all nodes run and lists one of them in FAULT, that node has been
\* restarted since it gave the status listed; otherwise the reply never contradicts itself,
\* although its parts are read under different acquisitions of the lock.  A node does not
\* come back from FAULT without a restart, and the polls of one node are recorded in the
\* order of its answers.
FaultNotContradicted ==
  healthAt = "idle" /\ allRunning =>
    \A w \in Worker : listed[w] = "FAULT" => "listed" \in outdated[w]

\* No thread uses the coordinator after main() has returned from Stop(), and until then
\* it keeps nothing but states that a node has answered (CoordinatorTypeOK).
CoordinatorOutlivesUse ==
  /\ CoordinatorTypeOK
  /\ mainAt \in {"stopPolling", "join", "exit"} => healthAt = "idle"
  /\ mainAt = "exit" => \A w \in Worker : pollAt[w] = "done"

\* A node that stays down is reported unreachable in the end and from then on,
\* although a poll answered before it went down may be recorded after.
DownIsNoticed ==
  \A w \in Worker : <>[](node[w] = "down" /\ ~quit) => <>[](~reachable[w])

\* A termination signal ends the coordinator, whatever the nodes do, unless svr.stop() came
\* before svr.listen(): then the server goes on and server_thread.join() does not return.
StoppedTooSoon == mainAt = "joinServer" /\ serverAt = "listening"

QuitEnds == quit ~> (mainAt = "exit" \/ StoppedTooSoon)
===============================================================================
