--------------------------- MODULE TelemetryServer ---------------------------
(***************************************************************************)
(* The asynchronous telemetry server (TlsServer.cpp, TelemetryRepository,  *)
(* main.cpp): coroutines, one for each session, one that accepts and one   *)
(* that waits for SIGTERM, run by the threads of one io_context.  A        *)
(* coroutine holds a thread from the completion it waited for to its next  *)
(* co_await, and the inserts, with their wait for a connection of the pool *)
(* (DbPool), are calls that block in between: nobody else has the thread.  *)
(***************************************************************************)
EXTENDS DbPool

CONSTANTS
  NThreads,      \* threads that call ctx.run()
  MaxFrames      \* bound: telemetry frames of a session

ASSUME ThreadsAssumption == NThreads \in Nat \ {0} /\ MaxFrames \in Nat

VARIABLES
  ctx,         \* the io_context and main(): run, stop, ended
  signal,      \* SIGTERM: none, raised, delivered to the coroutine that waits for it, lost
  listening,   \* the accept loop, and the signal_set in its frame, are alive
  pc,          \* where each session is
  ok,          \* result.ok of its token
  log,         \* its entry of auth_log
  frame,       \* the telemetry frame it handles
  sent, stored, acked    \* full frames its client sent, rows, and ACKs of full frames

sessionVars == <<pc, ok, log, frame, sent, stored, acked>>
vars == <<pool, ctx, signal, listening, sessionVars>>

\* Where a session waits for I/O, and where it runs, or blocks, on a thread.
Awaiting == {"handshake", "readAuth", "writeError", "writeAck", "readFrame", "writeFrameAck"}
OnThread == {"log", "insert", "checked", "inserted"}

Busy == {s \in Session : pc[s] \in OnThread}

\* A completion can be run: the context is not stopped and a thread is free.
CanRun == ctx = "run" /\ Cardinality(Busy) < NThreads

TypeOK ==
  /\ ctx \in {"run", "stop", "ended"} /\ signal \in {"none", "raised", "delivered", "lost"}
  /\ listening \in BOOLEAN
  /\ pc \in [Session -> {"new", "closed"} \cup Awaiting \cup OnThread]
  /\ ok \in [Session -> BOOLEAN]
  /\ log \in [Session -> {"none", "AUTH_OK", "AUTH_FAIL_SIG"}]
  /\ frame \in [Session -> {"none", "full", "short"}]
  /\ sent \in [Session -> 0 .. MaxFrames]
  /\ stored \in [Session -> 0 .. MaxFrames] /\ acked \in [Session -> 0 .. MaxFrames]

Init ==
  /\ PoolInit
  /\ ctx = "run" /\ signal = "none" /\ listening = TRUE
  /\ pc = [s \in Session |-> "new"]
  /\ ok = [s \in Session |-> FALSE]
  /\ log = [s \in Session |-> "none"]
  /\ frame = [s \in Session |-> "none"]
  /\ sent = [s \in Session |-> 0]
  /\ stored = [s \in Session |-> 0] /\ acked = [s \in Session |-> 0]

Goto(s, l) == pc' = [pc EXCEPT ![s] = l]
Closed(s) == Goto(s, "closed")

-------------------------------------------------------------------------------
(* listen() *)

\* async_accept completes; remote_endpoint() throws if the peer is gone already.
Accept(s) ==
  /\ CanRun /\ listening /\ pc[s] = "new"
  /\ Goto(s, "handshake") \/ Closed(s)
  /\ UNCHANGED <<pool, ctx, signal, listening, ok, log, frame, sent, stored, acked>>

(* async_accept fails: the exception ends listen(), which is detached, and   *)
(* its frame takes the signal_set with it.  A signal that the set has taken  *)
(* and not delivered yet is lost; the coroutine that waits for one ends.     *)
AcceptFails ==
  /\ CanRun /\ listening
  /\ listening' = FALSE
  /\ signal' = IF signal = "raised" THEN "lost" ELSE signal
  /\ UNCHANGED <<pool, ctx, sessionVars>>

\* The signal_set takes the signal; without it the signal has its default effect, at once.
Signal ==
  /\ ctx = "run" /\ signal \in {"none", "lost"}
  /\ IF listening THEN signal' = "raised" /\ UNCHANGED ctx
                  ELSE ctx' = "ended" /\ UNCHANGED signal
  /\ UNCHANGED <<pool, listening, sessionVars>>

\* A thread of the io_context finds it and completes async_wait.
SignalDelivered ==
  /\ CanRun /\ listening /\ signal = "raised"
  /\ signal' = "delivered"
  /\ UNCHANGED <<pool, ctx, listening, sessionVars>>

\* The coroutine that waited stops the context.
SignalHandled ==
  /\ CanRun /\ signal = "delivered"
  /\ ctx' = "stop"
  /\ UNCHANGED <<pool, signal, listening, sessionVars>>

\* ctx.run() returns on every thread when nothing is left to wait for, and main() ends.
RunsOut ==
  /\ ctx = "run" /\ ~listening /\ signal # "delivered"
  /\ \A s \in Session : pc[s] \in {"new", "closed"}
  /\ ctx' = "ended"
  /\ UNCHANGED <<pool, signal, listening, sessionVars>>

\* main(): every thread came out of ctx.run().
Join ==
  /\ ctx = "stop" /\ Busy = {}
  /\ ctx' = "ended"
  /\ UNCHANGED <<pool, signal, listening, sessionVars>>

-------------------------------------------------------------------------------
(* handle_tls_session(): what happens at each completion *)

Handshake(s) ==
  /\ CanRun /\ pc[s] = "handshake"
  /\ Goto(s, "readAuth") \/ Closed(s)
  /\ UNCHANGED <<pool, ctx, signal, listening, ok, log, frame, sent, stored, acked>>

\* validate(): the token is good, or it is not (or there is no secret, or no subject).
Validate(s) == \E valid \in BOOLEAN : ok' = [ok EXCEPT ![s] = valid]

(* The first frame: another type is answered with ERROR; a token is          *)
(* validated, and its result is logged before anything is answered.          *)
ReadAuth(s) ==
  /\ CanRun /\ pc[s] = "readAuth"
  /\ \/ Goto(s, "writeError") /\ UNCHANGED ok
     \/ Goto(s, "log") /\ Validate(s)
     \/ Closed(s) /\ UNCHANGED ok           \* eof, or deserialize() throws
  /\ UNCHANGED <<pool, ctx, signal, listening, log, frame, sent, stored, acked>>

\* Mutant: the outcome of the validation is logged and not looked at.
CheckedAnyway(s) ==
  /\ ctx # "ended" /\ pc[s] = "checked"
  /\ Goto(s, "writeAck")
  /\ UNCHANGED <<pool, ctx, signal, listening, ok, log, frame, sent, stored, acked>>

\* The entry is in auth_log: the client is answered.
Checked(s) ==
  /\ ctx # "ended" /\ pc[s] = "checked"
  /\ Goto(s, IF ok[s] THEN "writeAck" ELSE "writeError")
  /\ UNCHANGED <<pool, ctx, signal, listening, ok, log, frame, sent, stored, acked>>

ErrorWritten(s) ==
  /\ CanRun /\ pc[s] = "writeError"
  /\ Closed(s)
  /\ UNCHANGED <<pool, ctx, signal, listening, ok, log, frame, sent, stored, acked>>

AckWritten(s) ==
  /\ CanRun /\ pc[s] = "writeAck"
  /\ Goto(s, "readFrame") \/ Closed(s)
  /\ UNCHANGED <<pool, ctx, signal, listening, ok, log, frame, sent, stored, acked>>

(* A frame of the telemetry loop: one of 20 bytes is inserted, a shorter     *)
(* one is only acknowledged, one of another type ends the session.           *)
ReadFrame(s) ==
  /\ CanRun /\ pc[s] = "readFrame"
  /\ \/ /\ sent[s] < MaxFrames
        /\ Goto(s, "insert")
        /\ sent' = [sent EXCEPT ![s] = @ + 1]
        /\ frame' = [frame EXCEPT ![s] = "full"]
     \/ /\ Goto(s, "writeFrameAck")
        /\ frame' = [frame EXCEPT ![s] = "short"]
        /\ UNCHANGED sent
     \/ Closed(s) /\ UNCHANGED <<frame, sent>>
  /\ UNCHANGED <<pool, ctx, signal, listening, ok, log, stored, acked>>

\* The row is committed: the ACK is written.
Inserted(s) ==
  /\ ctx # "ended" /\ pc[s] = "inserted"
  /\ Goto(s, "writeFrameAck")
  /\ UNCHANGED <<pool, ctx, signal, listening, ok, log, frame, sent, stored, acked>>

FrameAckWritten(s) ==
  /\ CanRun /\ pc[s] = "writeFrameAck"
  /\ \/ /\ Goto(s, "readFrame")
        /\ acked' = [acked EXCEPT ![s] = @ + (IF frame[s] = "full" THEN 1 ELSE 0)]
     \/ Closed(s) /\ UNCHANGED acked
  /\ frame' = [frame EXCEPT ![s] = "none"]
  /\ UNCHANGED <<pool, ctx, signal, listening, ok, log, sent, stored>>

-------------------------------------------------------------------------------
(* insert_auth_log() and insert_telemetry(), on the thread of the session *)

InInsert(s) == ctx # "ended" /\ pc[s] \in {"log", "insert"}
PoolStep == UNCHANGED <<ctx, signal, listening, sessionVars>>

AcquireConn(s) == InInsert(s) /\ Acquire(s) /\ PoolStep
ConnGranted(s) == InInsert(s) /\ SemAcquire(s) /\ PoolStep
ConnTaken(s) == InInsert(s) /\ Take(s) /\ PoolStep

\* acquire() is outside the try of the insert: its exception ends the session.
AcquireFails(s) ==
  /\ InInsert(s) /\ TakeThrows(s)
  /\ Closed(s)
  /\ UNCHANGED <<ctx, signal, listening, ok, log, frame, sent, stored, acked>>

\* The connection is closed, or it has been destroyed and its slot holds another.
Broken(s) == conn[s] \notin open \/ s \in stale

\* What a committed transaction leaves in the database.
Committed(s) ==
  \/ /\ pc[s] = "log"
     /\ log' = [log EXCEPT ![s] = IF ok[s] THEN "AUTH_OK" ELSE "AUTH_FAIL_SIG"]
     /\ UNCHANGED stored
  \/ /\ pc[s] = "insert"
     /\ stored' = [stored EXCEPT ![s] = @ + 1]
     /\ UNCHANGED log

\* Mutant: only the handler of the exception returns the permit.
CommitKeepsPermit(s) ==
  /\ InInsert(s) /\ at[s] = "using" /\ ~Broken(s)
  /\ at' = [at EXCEPT ![s] = "out"]
  /\ Committed(s)
  /\ Goto(s, IF pc[s] = "log" THEN "checked" ELSE "inserted")
  /\ UNCHANGED <<permits, next, open, conn, stale, lost, since, ctx, signal, listening, ok, frame, sent, acked>>

\* The transaction commits, and the permit is returned.
Commit(s) ==
  /\ InInsert(s) /\ ~Broken(s) /\ Release(s)
  /\ Committed(s)
  /\ Goto(s, IF pc[s] = "log" THEN "checked" ELSE "inserted")
  /\ UNCHANGED <<ctx, signal, listening, ok, frame, sent, acked>>

\* Mutant: the handler does not throw again, so the insert goes on and releases twice.
RollbackSwallowed(s) ==
  /\ InInsert(s) /\ at[s] = "using"
  /\ permits' = permits + 2
  /\ at' = [at EXCEPT ![s] = "out"]
  /\ Goto(s, IF pc[s] = "log" THEN "checked" ELSE "inserted")
  /\ UNCHANGED <<next, open, conn, stale, lost, since, ctx, signal, listening, ok, log, frame, sent, stored, acked>>

(* The transaction throws (a closed connection, a constraint, another       *)
(* transaction on the same connection): the permit is returned, the         *)
(* exception ends the session.  If the connection was lost during the       *)
(* commit, the database may have executed it all the same.                  *)
Rollback(s) ==
  /\ InInsert(s) /\ Release(s)
  /\ Closed(s)
  /\ \/ UNCHANGED <<log, stored>>
     \/ Broken(s) /\ Committed(s)
  /\ UNCHANGED <<ctx, signal, listening, ok, frame, sent, acked>>

\* The use of a connection that has been destroyed ends the process (or throws: Rollback).
UseAfterFree(s) ==
  /\ InInsert(s) /\ s \in stale
  /\ ctx' = "ended"
  /\ UNCHANGED <<pool, signal, listening, sessionVars>>

\* The database closes a connection of the pool.
Outage ==
  /\ ctx # "ended"
  /\ \E i \in Conn : Disconnect(i)
  /\ PoolStep

-------------------------------------------------------------------------------
Insert(s) ==
  \/ AcquireConn(s) \/ ConnGranted(s) \/ ConnTaken(s) \/ AcquireFails(s)
  \/ Commit(s) \/ Rollback(s) \/ UseAfterFree(s)

\* What a thread does once it runs a session, without waiting for a client.
OnItsThread(s) == Insert(s) \/ Checked(s) \/ Inserted(s)

Completion(s) ==
  \/ Accept(s) \/ Handshake(s) \/ ReadAuth(s) \/ ErrorWritten(s) \/ AckWritten(s)
  \/ ReadFrame(s) \/ FrameAckWritten(s)

Finished == ctx = "ended" /\ UNCHANGED vars

Next ==
  \/ AcceptFails \/ Signal \/ SignalDelivered \/ SignalHandled \/ RunsOut \/ Join \/ Outage \/ Finished
  \/ \E s \in Session : Completion(s) \/ OnItsThread(s)

Spec == Init /\ [][Next]_vars

(* The threads make progress, a transaction ends, a permit that stays free   *)
(* is taken by a waiter, and the io_context runs a completion that keeps     *)
(* coming up (its queue is first-in-first-out).  Clients owe nothing.        *)
FairSpec ==
  /\ Spec
  /\ SF_vars(SignalDelivered) /\ SF_vars(SignalHandled) /\ WF_vars(Join)
  /\ \A s \in Session : WF_vars(OnItsThread(s))

-------------------------------------------------------------------------------
(* A client's ACK stands for a row: every full frame it saw acknowledged is  *)
(* committed, no frame is stored twice, and when a session ends at most one  *)
(* row was never acknowledged (the loop of handle_tls_session).              *)
AckedIsStored ==
  \A s \in Session :
    acked[s] <= stored[s] /\ stored[s] <= sent[s] /\ stored[s] <= acked[s] + 1

(* Telemetry is stored only for a session whose AUTH_OK is in auth_log: the  *)
(* entry is committed before the client is answered, and a failed insert of  *)
(* the entry ends the session.                                               *)
LoggedBeforeStored == \A s \in Session : stored[s] > 0 => log[s] = "AUTH_OK"

(* SIGTERM ends the server, whatever the sessions are doing, although the    *)
(* coroutine that stops the context needs one of the threads the inserts     *)
(* block: even if acquire() calls that threw have taken permits along, as    *)
(* long as one is left.  There are two exceptions.  Once every permit is     *)
(* gone, every thread may wait for the pool for ever; and a signal is lost   *)
(* if listen() fails before it is delivered.                                 *)
SignalEnds == signal = "raised" ~> ctx = "ended" \/ lost = POOL_SIZE \/ signal = "lost"
=============================================================================
