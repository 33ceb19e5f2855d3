----------------------------- MODULE ServerProofs -----------------------------
(***************************************************************************)
(* The two servers.  What the clients of the telemetry server may rely on, *)
(* for every number of sessions, threads, connections and frames; the pool *)
(* of database connections, for any finite set of sessions and any size of *)
(* the pool; and that the server uses the pool as it is meant to be used.  *)
(* The update loop of the OPC UA server loses no tick and writes its nodes *)
(* in order, for any number of nodes and any number of expirations.        *)
(***************************************************************************)
EXTENDS TelemetryServer, UpdateLoop, FiniteSetTheorems, TLAPS

-------------------------------------------------------------------------------
(* The sessions *)

\* How far the rows are ahead of the ACKs at each place of handle_tls_session().
Ledger(s) ==
  /\ acked[s] <= stored[s] /\ stored[s] <= sent[s] /\ stored[s] <= acked[s] + 1
  /\ pc[s] = "readFrame" => stored[s] = acked[s]
  /\ pc[s] = "insert" => stored[s] = acked[s] /\ stored[s] < sent[s] /\ frame[s] = "full"
  /\ pc[s] = "inserted" => stored[s] = acked[s] + 1 /\ frame[s] = "full"
  /\ pc[s] = "writeFrameAck" => stored[s] = acked[s] + (IF frame[s] = "full" THEN 1 ELSE 0)
  /\ pc[s] \in {"new", "handshake", "readAuth", "log", "checked", "writeError", "writeAck"} =>
       sent[s] = 0

\* What is in auth_log at each of them.
Logged(s) ==
  /\ pc[s] = "checked" => log[s] = IF ok[s] THEN "AUTH_OK" ELSE "AUTH_FAIL_SIG"
  /\ pc[s] \in {"writeAck", "readFrame", "insert", "inserted", "writeFrameAck"} =>
       log[s] = "AUTH_OK"
  /\ stored[s] > 0 => log[s] = "AUTH_OK"

ServerInv == TypeOK /\ \A s \in Session : Ledger(s) /\ Logged(s)

\* The invariant holds when the server starts.
LEMMA InitInv == Init => ServerInv
  BY ThreadsAssumption DEF Init, ServerInv, TypeOK, Ledger, Logged, Awaiting, OnThread

\* Steps that only move the pool, the context or the listener.
LEMMA SharedStep ==
  ASSUME ServerInv, TypeOK', UNCHANGED sessionVars
  PROVE  ServerInv'
  BY SMTT(30) DEF ServerInv, Ledger, Logged, sessionVars

\* It holds after every completion handler of a session.
LEMMA CompletionInv ==
  ASSUME ServerInv, NEW s \in Session, Completion(s)
  PROVE  ServerInv'
<1> USE ThreadsAssumption DEF ServerInv, TypeOK, Awaiting, OnThread, Goto, Closed
<1>1. CASE Accept(s)
  BY <1>1 DEF Accept, Ledger, Logged
<1>2. CASE Handshake(s)
  BY <1>2 DEF Handshake, Ledger, Logged
<1>3. CASE ReadAuth(s)
  BY <1>3 DEF ReadAuth, Validate, Ledger, Logged
<1>4. CASE ErrorWritten(s)
  BY <1>4 DEF ErrorWritten, Ledger, Logged
<1>5. CASE AckWritten(s)
  BY <1>5 DEF AckWritten, Ledger, Logged
<1>6. CASE ReadFrame(s)
  BY <1>6 DEF ReadFrame, Ledger, Logged
<1>7. CASE FrameAckWritten(s)
  BY <1>7, SMTT(30) DEF FrameAckWritten, Ledger, Logged
<1> QED
  BY <1>1, <1>2, <1>3, <1>4, <1>5, <1>6, <1>7 DEF Completion

\* It holds after every step of insert() and of what follows it on the thread.
LEMMA OnItsThreadInv ==
  ASSUME ServerInv, NEW s \in Session, OnItsThread(s)
  PROVE  ServerInv'
<1> USE ThreadsAssumption DEF ServerInv, TypeOK, Awaiting, OnThread, Goto, Closed, InInsert
<1>1. CASE AcquireConn(s) \/ ConnGranted(s) \/ ConnTaken(s)
  <2>1. UNCHANGED <<ctx, signal, listening, sessionVars>>
    BY <1>1 DEF AcquireConn, ConnGranted, ConnTaken, PoolStep
  <2>2. TypeOK'
    BY <2>1 DEF sessionVars
  <2> QED
    BY <2>1, <2>2, SharedStep
<1>2. CASE AcquireFails(s)
  BY <1>2 DEF AcquireFails, Ledger, Logged
<1>3. CASE Commit(s)
  BY <1>3, SMTT(30) DEF Commit, Committed, Ledger, Logged
<1>4. CASE Rollback(s)
  BY <1>4 DEF Rollback, Committed, Ledger, Logged
<1>5. CASE Checked(s)
  BY <1>5 DEF Checked, Ledger, Logged
<1>6. CASE Inserted(s)
  BY <1>6 DEF Inserted, Ledger, Logged
<1>7. CASE UseAfterFree(s)
  <2>1. UNCHANGED <<signal, listening, sessionVars>> /\ ctx' = "ended"
    BY <1>7 DEF UseAfterFree
  <2>2. TypeOK'
    BY <2>1 DEF sessionVars
  <2> QED
    BY <2>1, <2>2, SharedStep
<1> QED
  BY <1>1, <1>2, <1>3, <1>4, <1>5, <1>6, <1>7, ZenonT(60) DEF OnItsThread, Insert

\* Every step keeps it.
LEMMA StepInv == ServerInv /\ [Next]_vars => ServerInv'
<1> SUFFICES ASSUME ServerInv, [Next]_vars
             PROVE  ServerInv'
  OBVIOUS
<1>1. CASE \/ AcceptFails \/ Signal \/ SignalDelivered \/ SignalHandled \/ RunsOut \/ Join \/ Outage
           \/ Finished \/ UNCHANGED vars
  <2>1. UNCHANGED sessionVars
    BY <1>1 DEF AcceptFails, Signal, SignalDelivered, SignalHandled, RunsOut, Join, Outage, PoolStep,
                Finished, vars
  <2>2. /\ ctx' \in {"run", "stop", "ended"} /\ signal' \in {"none", "raised", "delivered", "lost"}
        /\ listening' \in BOOLEAN
    BY <1>1, ZenonT(60) DEF ServerInv, TypeOK, AcceptFails, Signal, SignalDelivered, SignalHandled,
                RunsOut, Join, Outage, PoolStep, Finished, vars
  <2>3. TypeOK'
    BY <2>1, <2>2 DEF ServerInv, TypeOK, sessionVars
  <2> QED
    BY <2>1, <2>3, SharedStep
<1>2. CASE \E s \in Session : Completion(s) \/ OnItsThread(s)
  BY <1>2, CompletionInv, OnItsThreadInv
<1> QED
  BY <1>1, <1>2 DEF Next

(* At every place of every session the rows are ahead of the ACKs by what    *)
(* the session is doing there, and auth_log has the entry that place needs   *)
(* (handle_tls_session).  AckedIsStored alone is not inductive: that an ACK  *)
(* is due is known only from the place and the frame in hand.                *)
THEOREM Invariance == Spec => []ServerInv
  BY InitInv, StepInv, PTL DEF Spec

\* A client's ACK stands for one row, whatever fails in the pool and the database.
THEOREM AckMeansStored == Spec => []AckedIsStored
<1>1. ServerInv => AckedIsStored
  BY DEF ServerInv, Ledger, AckedIsStored
<1> QED
  BY <1>1, Invariance, PTL

\* Telemetry is stored only for sessions that auth_log has as AUTH_OK.
THEOREM LogComesFirst == Spec => []LoggedBeforeStored
<1>1. ServerInv => LoggedBeforeStored
  BY DEF ServerInv, TypeOK, Logged, LoggedBeforeStored
<1> QED
  BY <1>1, Invariance, PTL

-------------------------------------------------------------------------------
(* The pool *)

(* The holders are a finite set, so that they can be counted.              *)
LEMMA HolderFinite == IsFiniteSet(Holder) /\ Cardinality(Holder) \in Nat
<1>1. Holder \subseteq Session  BY DEF Holder
<1>2. IsFiniteSet(Holder)  BY <1>1, SessionAssumption, FS_Subset
<1> QED  BY <1>2, FS_CardinalityType

(* A caller that gets a permit is one more holder.                         *)
LEMMA HolderEnters ==
  ASSUME PoolTypeOK, NEW c \in Session, at[c] = "waiting",
         at' = [at EXCEPT ![c] = "granted"]
  PROVE  Cardinality(Holder') = Cardinality(Holder) + 1
<1>1. Holder' = Holder \cup {c}  BY DEF Holder, PoolTypeOK
<1>2. c \notin Holder  BY DEF Holder
<1> QED  BY <1>1, <1>2, HolderFinite, FS_AddElement

(* A caller that releases, or whose acquire() throws, is one holder less.  *)
LEMMA HolderLeaves ==
  ASSUME PoolTypeOK, NEW c \in Session, at[c] \in {"granted", "using"},
         at' = [at EXCEPT ![c] = "out"]
  PROVE  /\ Cardinality(Holder') = Cardinality(Holder) - 1
         /\ Cardinality(Holder) >= 1
<1>1. Holder' = Holder \ {c}  BY DEF Holder, PoolTypeOK
<1>2. c \in Holder  BY DEF Holder
<1>3. /\ IsFiniteSet(Holder \ {c})
      /\ Cardinality(Holder \ {c}) = Cardinality(Holder) - 1
  BY <1>2, HolderFinite, FS_RemoveElement, Zenon
<1>4. Cardinality(Holder \ {c}) \in Nat  BY <1>3, FS_CardinalityType
<1> QED  BY <1>1, <1>3, <1>4, HolderFinite

(* There is room for a permit that a holder gives back or loses.           *)
LEMMA RoomForPermit ==
  ASSUME PoolTypeOK, PermitsAccounted, Cardinality(Holder) >= 1
  PROVE  permits + 1 \in 0 .. POOL_SIZE /\ lost + 1 \in 0 .. POOL_SIZE
<1> DEFINE n == Cardinality(Holder)
<1>1. permits \in Nat /\ lost \in Nat /\ n \in Nat /\ n >= 1
  BY HolderFinite, PoolAssumption DEF PoolTypeOK
<1>2. permits + n + lost = POOL_SIZE  BY DEF PermitsAccounted
<1> HIDE DEF n
<1> QED  BY <1>1, <1>2, PoolAssumption

(* The cursor stays on a connection, and moves to the next or wraps.       *)
LEMMA AdvanceMoves ==
  ASSUME next \in Conn, Advance
  PROVE  /\ next' \in Conn
         /\ next' = next + 1 \/ (next = POOL_SIZE - 1 /\ next' = 0)
<1>1. CASE next + 1 < POOL_SIZE
  <2>1. (next + 1) % POOL_SIZE = next + 1  BY <1>1, PoolAssumption DEF Conn
  <2> QED  BY <2>1, <1>1, PoolAssumption DEF Conn, Advance
<1>2. CASE next + 1 = POOL_SIZE
  <2>1. POOL_SIZE % POOL_SIZE = 0  BY PoolAssumption
  <2> QED  BY <2>1, <1>2, PoolAssumption DEF Conn, Advance
<1> QED  BY <1>1, <1>2, PoolAssumption DEF Conn

(* What a caller's count becomes when the cursor moves.                    *)
LEMMA OlderCounts ==
  ASSUME PoolTypeOK
  PROVE  /\ Older \in [Session -> 0 .. POOL_SIZE]
         /\ \A d \in Session : Older[d] < POOL_SIZE =>
              since[d] < POOL_SIZE /\ Older[d] = since[d] + 1
BY PoolAssumption DEF PoolTypeOK, Older

(* The invariant holds when the pool is built.                             *)
LEMMA InitPool == PoolInit => PoolInv
<1> SUFFICES ASSUME PoolInit PROVE PoolInv
  OBVIOUS
<1>1. PoolTypeOK  BY PoolAssumption DEF PoolInit, PoolTypeOK, Conn
<1>2. PermitsAccounted
  <2>1. Holder = {}  BY DEF PoolInit, Holder
  <2> QED  BY <2>1, FS_EmptySet, PoolAssumption DEF PoolInit, PermitsAccounted
<1>3. CountsMoves /\ MovesDiffer /\ StaleIsOld
  BY DEF PoolInit, CountsMoves, MovesDiffer, StaleIsOld
<1> QED  BY <1>1, <1>2, <1>3 DEF PoolInv

(* A step that leaves the cursor and the users' places alone keeps them.   *)
LEMMA PlacesKept ==
  ASSUME CountsMoves, MovesDiffer, StaleIsOld, UNCHANGED next,
         \A d \in Session : at'[d] = "using" =>
           at[d] = "using" /\ since'[d] = since[d] /\ conn'[d] = conn[d],
         stale' \subseteq stale, stale \subseteq Session, \A d \in stale' : at'[d] = "using"
  PROVE  CountsMoves' /\ MovesDiffer' /\ StaleIsOld'
<1>1. CountsMoves' /\ MovesDiffer'  BY DEF CountsMoves, MovesDiffer
<1>2. StaleIsOld'  BY Zenon DEF StaleIsOld
<1> QED  BY <1>1, <1>2

(* A move of the cursor ages every user by one.                            *)
LEMMA PlacesAged ==
  ASSUME PoolTypeOK, CountsMoves, MovesDiffer, Advance, NEW S \in SUBSET Session,
         \A d \in S : at'[d] = "using" =>
           at[d] = "using" /\ since'[d] = Older[d] /\ conn'[d] = conn[d]
  PROVE  /\ \A d \in S : at'[d] = "using" /\ since'[d] < POOL_SIZE =>
              /\ conn'[d] + since'[d] + 1 \in {next', next' + POOL_SIZE}
              /\ since'[d] > 0
         /\ \A d, e \in S : /\ d # e
                            /\ at'[d] = "using" /\ since'[d] < POOL_SIZE
                            /\ at'[e] = "using" /\ since'[e] < POOL_SIZE
                            => since'[d] # since'[e]
<1>1. next' \in Conn /\ (next' = next + 1 \/ (next = POOL_SIZE - 1 /\ next' = 0))
  BY AdvanceMoves DEF PoolTypeOK
<1>2. ASSUME NEW d \in S, at'[d] = "using", since'[d] < POOL_SIZE
      PROVE  /\ at[d] = "using" /\ since[d] < POOL_SIZE
             /\ since'[d] = since[d] + 1 /\ conn'[d] = conn[d]
             /\ since[d] \in 0 .. POOL_SIZE /\ conn[d] \in Conn
  BY <1>2, OlderCounts DEF PoolTypeOK
<1>3. ASSUME NEW d \in S, at'[d] = "using", since'[d] < POOL_SIZE
      PROVE  /\ conn'[d] + since'[d] + 1 \in {next', next' + POOL_SIZE}
             /\ since'[d] > 0
  <2>1. conn[d] + since[d] + 1 \in {next, next + POOL_SIZE}
    BY <1>2, <1>3 DEF CountsMoves
  <2>2. /\ since[d] \in 0 .. POOL_SIZE /\ since[d] + 1 < POOL_SIZE /\ conn[d] \in Conn
        /\ since'[d] = since[d] + 1 /\ conn'[d] = conn[d]
    BY <1>2, <1>3
  <2> QED  BY <2>1, <2>2, <1>1, PoolAssumption DEF Conn, PoolTypeOK
<1>4. ASSUME NEW d \in S, NEW e \in S, d # e,
             at'[d] = "using", since'[d] < POOL_SIZE,
             at'[e] = "using", since'[e] < POOL_SIZE
      PROVE  since'[d] # since'[e]
  <2>1. since[d] # since[e]  BY <1>2, <1>4 DEF MovesDiffer
  <2>2. since'[d] = since[d] + 1 /\ since'[e] = since[e] + 1
    BY <1>2, <1>4
  <2>3. since[d] \in Int /\ since[e] \in Int  BY <1>2, <1>4
  <2> QED  BY <2>1, <2>2, <2>3
<1> QED  BY <1>3, <1>4

(* No step of a caller or of the database breaks the invariant.            *)
LEMMA StepPool == PoolInv /\ [PoolNext]_pool => PoolInv'
<1> SUFFICES ASSUME PoolInv, [PoolNext]_pool PROVE PoolInv'
  OBVIOUS
<1>0. PoolTypeOK /\ PermitsAccounted /\ CountsMoves /\ MovesDiffer /\ StaleIsOld  BY DEF PoolInv
<1>a. stale \subseteq Session /\ \A d \in stale : at[d] = "using" /\ since[d] = POOL_SIZE
  BY <1>0 DEF PoolTypeOK, StaleIsOld
<1> USE PoolAssumption
<1>1. ASSUME NEW c \in Session, Acquire(c) PROVE PoolInv'
  <2>1. PoolTypeOK'  BY <1>0, <1>1 DEF PoolTypeOK, Acquire
  <2>2. Holder' = Holder  BY <1>0, <1>1 DEF PoolTypeOK, Acquire, Holder
  <2>3. PermitsAccounted'  BY <1>0, <1>1, <2>2 DEF PermitsAccounted, Acquire
  <2>4. CountsMoves' /\ MovesDiffer' /\ StaleIsOld'
    <3>1. /\ stale' \subseteq stale /\ \A d \in stale' : at'[d] = "using"
          /\ \A d \in Session : at'[d] = "using" =>
               at[d] = "using" /\ since'[d] = since[d] /\ conn'[d] = conn[d]
      BY <1>0, <1>a, <1>1 DEF PoolTypeOK, Acquire
    <3>2. UNCHANGED next  BY <1>1 DEF Acquire
    <3> QED  BY <1>0, <1>a, <3>1, <3>2, PlacesKept, Zenon
  <2> QED  BY <2>1, <2>3, <2>4 DEF PoolInv
<1>2. ASSUME NEW c \in Session, SemAcquire(c) PROVE PoolInv'
  <2>1. PoolTypeOK'  BY <1>0, <1>2 DEF PoolTypeOK, SemAcquire
  <2>2. Cardinality(Holder') = Cardinality(Holder) + 1
    BY <1>0, <1>2, HolderEnters, Zenon DEF SemAcquire
  <2>3. PermitsAccounted'
    BY <1>0, <1>2, <2>2, HolderFinite DEF PermitsAccounted, SemAcquire, PoolTypeOK
  <2>4. CountsMoves' /\ MovesDiffer' /\ StaleIsOld'
    <3>1. /\ stale' \subseteq stale /\ \A d \in stale' : at'[d] = "using"
          /\ \A d \in Session : at'[d] = "using" =>
               at[d] = "using" /\ since'[d] = since[d] /\ conn'[d] = conn[d]
      BY <1>0, <1>a, <1>2 DEF PoolTypeOK, SemAcquire
    <3>2. UNCHANGED next  BY <1>2 DEF SemAcquire
    <3> QED  BY <1>0, <1>a, <3>1, <3>2, PlacesKept, Zenon
  <2> QED  BY <2>1, <2>3, <2>4 DEF PoolInv
<1>3. ASSUME NEW c \in Session, Take(c) PROVE PoolInv'
  <2>1. next' \in Conn /\ (next' = next + 1 \/ (next = POOL_SIZE - 1 /\ next' = 0))
    BY <1>0, <1>3, AdvanceMoves DEF PoolTypeOK, Take
  <2>2. PoolTypeOK'
    <3>1. since' \in [Session -> 0 .. POOL_SIZE]
      BY <1>0, <1>3, OlderCounts DEF Take
    <3>2. conn' \in [Session -> Conn] /\ open' \subseteq Conn
      BY <1>0, <1>3 DEF PoolTypeOK, Take
    <3>3. at' \in [Session -> {"out", "waiting", "granted", "using"}]
      BY <1>0, <1>3 DEF PoolTypeOK, Take
    <3>4. UNCHANGED <<permits, lost>> /\ stale' \subseteq Session
      BY <1>a, <1>3, Zenon DEF Take
    <3> QED  BY <1>0, <2>1, <3>1, <3>2, <3>3, <3>4, Zenon DEF PoolTypeOK
  <2>3. PermitsAccounted'
    <3>1. Holder' = Holder  BY <1>0, <1>3 DEF PoolTypeOK, Take, Holder
    <3> QED  BY <1>0, <1>3, <3>1 DEF PermitsAccounted, Take
  <2> DEFINE S == Session \ {c}
  <2>4. \A d \in S : at'[d] = "using" =>
           at[d] = "using" /\ since'[d] = Older[d] /\ conn'[d] = conn[d]
    BY <1>0, <1>3, OlderCounts DEF PoolTypeOK, Take
  <2>5. Advance /\ S \in SUBSET Session  BY <1>3 DEF Take
  <2> HIDE DEF S
  <2>6. /\ \A d \in S : at'[d] = "using" /\ since'[d] < POOL_SIZE =>
              /\ conn'[d] + since'[d] + 1 \in {next', next' + POOL_SIZE}
              /\ since'[d] > 0
        /\ \A d, e \in S : /\ d # e
                           /\ at'[d] = "using" /\ since'[d] < POOL_SIZE
                           /\ at'[e] = "using" /\ since'[e] < POOL_SIZE
                           => since'[d] # since'[e]
    BY <1>0, <2>4, <2>5, PlacesAged, Zenon
  <2>7. since'[c] = 0 /\ conn'[c] = next
    BY <1>0, <1>3, OlderCounts DEF PoolTypeOK, Take
  <2>8. conn'[c] + since'[c] + 1 \in {next', next' + POOL_SIZE}
    <3>1. next \in Int /\ next' \in Int  BY <1>0, <2>1 DEF PoolTypeOK, Conn
    <3>2. CASE next' = next + 1  BY <2>7, <3>1, <3>2
    <3>3. CASE next = POOL_SIZE - 1 /\ next' = 0  BY <2>7, <3>1, <3>3
    <3> QED  BY <2>1, <3>2, <3>3
  <2>9. CountsMoves'  BY <2>6, <2>8 DEF CountsMoves, S
  <2>10. MovesDiffer'  BY <2>6, <2>7 DEF MovesDiffer, S
  <2>11. StaleIsOld'
    <3> SUFFICES ASSUME NEW d \in stale' PROVE at'[d] = "using" /\ since'[d] = POOL_SIZE
      BY DEF StaleIsOld
    <3>1. d \in Session /\ at[d] = "using" /\ (since[d] = POOL_SIZE \/ conn[d] = next)
      BY <1>a, <1>3, Zenon DEF Take
    <3>2. d # c  BY <1>3, <3>1 DEF Take
    <3>3. at'[d] = "using" /\ since'[d] = Older[d]
      BY <1>0, <1>3, <3>1, <3>2, OlderCounts DEF PoolTypeOK, Take
    <3>4. since[d] \in 0 .. POOL_SIZE /\ next \in Conn  BY <1>0, <3>1 DEF PoolTypeOK
    <3>5. since[d] < POOL_SIZE => since[d] + 1 = POOL_SIZE
      <4>1. CASE since[d] < POOL_SIZE
        <5>1. conn[d] = next  BY <3>1, <3>4, <4>1
        <5>2. next + since[d] + 1 \in {next, next + POOL_SIZE}
          BY <1>0, <3>1, <4>1, <5>1 DEF CountsMoves
        <5> QED  BY <3>4, <5>2 DEF Conn
      <4> QED  BY <4>1
    <3>6. Older[d] = POOL_SIZE  BY <3>1, <3>4, <3>5 DEF Older
    <3> QED  BY <3>3, <3>6
  <2> QED  BY <2>2, <2>3, <2>9, <2>10, <2>11 DEF PoolInv
<1>4. ASSUME NEW c \in Session, TakeThrows(c) PROVE PoolInv'
  <2>1. next' \in Conn  BY <1>0, <1>4, AdvanceMoves DEF PoolTypeOK, TakeThrows
  <2>2. Cardinality(Holder') = Cardinality(Holder) - 1
    BY <1>0, <1>4, HolderLeaves, Zenon DEF TakeThrows
  <2>3. PermitsAccounted'
    BY <1>0, <1>4, <2>2, HolderFinite DEF PermitsAccounted, TakeThrows, PoolTypeOK
  <2>4. lost' \in 0 .. POOL_SIZE
    <3>1. Cardinality(Holder) >= 1  BY <1>0, <1>4, HolderLeaves, Zenon DEF TakeThrows
    <3> QED  BY <1>0, <1>4, <3>1, RoomForPermit DEF TakeThrows
  <2>5. PoolTypeOK'
    <3>1. since' \in [Session -> 0 .. POOL_SIZE]  BY <1>0, <1>4, OlderCounts DEF TakeThrows
    <3>2. at' \in [Session -> {"out", "waiting", "granted", "using"}]
      BY <1>0, <1>4 DEF PoolTypeOK, TakeThrows
    <3>3. UNCHANGED <<permits, open, conn, stale>>  BY <1>4 DEF TakeThrows
    <3> QED  BY <1>0, <2>1, <2>4, <3>1, <3>2, <3>3, Zenon DEF PoolTypeOK
  <2>6. \A d \in Session : at'[d] = "using" =>
           at[d] = "using" /\ since'[d] = Older[d] /\ conn'[d] = conn[d]
    BY <1>0, <1>4 DEF PoolTypeOK, TakeThrows
  <2>7. Advance /\ Session \in SUBSET Session  BY <1>4, Zenon DEF TakeThrows
  <2>8. CountsMoves' /\ MovesDiffer'
    BY <1>0, <2>6, <2>7, PlacesAged DEF CountsMoves, MovesDiffer
  <2>9. StaleIsOld'
    <3> SUFFICES ASSUME NEW d \in stale' PROVE at'[d] = "using" /\ since'[d] = POOL_SIZE
      BY DEF StaleIsOld
    <3>1. d \in Session /\ at[d] = "using" /\ since[d] = POOL_SIZE /\ d # c
      BY <1>a, <1>4 DEF TakeThrows
    <3> QED  BY <1>0, <1>4, <3>1 DEF PoolTypeOK, TakeThrows, Older
  <2> QED  BY <2>3, <2>5, <2>8, <2>9 DEF PoolInv
<1>5. ASSUME NEW c \in Session, Release(c) PROVE PoolInv'
  <2>1. Cardinality(Holder') = Cardinality(Holder) - 1
    BY <1>0, <1>5, HolderLeaves, Zenon DEF Release
  <2>2. PermitsAccounted'
    BY <1>0, <1>5, <2>1, HolderFinite DEF PermitsAccounted, Release, PoolTypeOK
  <2>3. permits' \in 0 .. POOL_SIZE
    <3>1. Cardinality(Holder) >= 1  BY <1>0, <1>5, HolderLeaves, Zenon DEF Release
    <3> QED  BY <1>0, <1>5, <3>1, RoomForPermit DEF Release
  <2>4. PoolTypeOK'
    <3>1. since' \in [Session -> 0 .. POOL_SIZE] /\ conn' \in [Session -> Conn]
      BY <1>0, <1>5 DEF PoolTypeOK, Release, Conn
    <3>2. at' \in [Session -> {"out", "waiting", "granted", "using"}]
      BY <1>0, <1>5 DEF PoolTypeOK, Release
    <3>3. UNCHANGED <<next, open, lost>> /\ stale' \subseteq Session  BY <1>a, <1>5 DEF Release
    <3> QED  BY <1>0, <2>3, <3>1, <3>2, <3>3, Zenon DEF PoolTypeOK
  <2>5. CountsMoves' /\ MovesDiffer' /\ StaleIsOld'
    <3>1. /\ stale' \subseteq stale /\ \A d \in stale' : at'[d] = "using"
          /\ \A d \in Session : at'[d] = "using" =>
               at[d] = "using" /\ since'[d] = since[d] /\ conn'[d] = conn[d]
      BY <1>0, <1>a, <1>5 DEF PoolTypeOK, Release
    <3>2. UNCHANGED next  BY <1>5 DEF Release
    <3> QED  BY <1>0, <1>a, <3>1, <3>2, PlacesKept, Zenon
  <2> QED  BY <2>2, <2>4, <2>5 DEF PoolInv
<1>6. ASSUME NEW i \in Conn, Disconnect(i) PROVE PoolInv'
  <2>1. PoolTypeOK'  BY <1>0, <1>6 DEF PoolTypeOK, Disconnect
  <2>2. Holder' = Holder  BY <1>6 DEF Disconnect, Holder
  <2>3. PermitsAccounted'  BY <1>0, <1>6, <2>2 DEF PermitsAccounted, Disconnect
  <2>4. CountsMoves' /\ MovesDiffer' /\ StaleIsOld'
    BY <1>0, <1>a, <1>6, PlacesKept, Zenon DEF Disconnect
  <2> QED  BY <2>1, <2>3, <2>4 DEF PoolInv
<1>7. CASE UNCHANGED pool
  BY <1>0, <1>7 DEF PoolInv, PoolTypeOK, PermitsAccounted, CountsMoves, MovesDiffer, StaleIsOld, pool, Holder
<1> QED  BY <1>1, <1>2, <1>3, <1>4, <1>5, <1>6, <1>7, Zenon DEF PoolNext

(* The inductive invariant holds in every state of the pool.  Among it:    *)
(* no release() is missing and none is made twice (PermitsAccounted).      *)
THEOREM PoolInvariance == PoolSpec => []PoolInv
BY InitPool, StepPool, PTL DEF PoolSpec

\* Two counts of less than a round that lead from one connection to the cursor are the same.
LEMMA SameMove ==
  ASSUME NEW i \in Int, NEW n \in Int, NEW size \in Int,
         NEW a \in Int, 0 <= a, a < size, NEW b \in Int, 0 <= b, b < size,
         i + a + 1 \in {n, n + size}, i + b + 1 \in {n, n + size}
  PROVE  a = b
OBVIOUS

(* If two users share a connection, one of them has had it for a round of  *)
(* the cursor, and so has a user whose connection ensure_open() destroys:  *)
(* an insert that ends before POOL_SIZE others have acquired suffers       *)
(* neither from another such insert.                                       *)
THEOREM OneRoundExclusive == PoolSpec => []ExclusiveForOneRound
<1>1. PoolInv => ExclusiveForOneRound
  <2> SUFFICES ASSUME PoolInv, NEW c \in Session, NEW d \in Session, c # d,
                      at[c] = "using", since[c] # POOL_SIZE,
                      at[d] = "using", since[d] # POOL_SIZE,
                      conn[c] = conn[d]
               PROVE  FALSE
    BY DEF ExclusiveForOneRound, PoolInv, StaleIsOld
  <2>0. since[c] < POOL_SIZE /\ since[d] < POOL_SIZE
    BY PoolAssumption DEF PoolInv, PoolTypeOK
  <2>1. since[c] # since[d]  BY <2>0, Zenon DEF PoolInv, MovesDiffer
  <2>2. conn[c] + since[c] + 1 \in {next, next + POOL_SIZE}  BY <2>0, Zenon DEF PoolInv, CountsMoves
  <2>3. conn[d] + since[d] + 1 \in {next, next + POOL_SIZE}  BY <2>0, Zenon DEF PoolInv, CountsMoves
  <2>4. /\ since[c] \in 0 .. POOL_SIZE /\ since[d] \in 0 .. POOL_SIZE
        /\ conn[c] \in Conn /\ conn[d] \in Conn /\ next \in Conn
    BY DEF PoolInv, PoolTypeOK
  <2>5. /\ conn[c] \in Int /\ next \in Int /\ POOL_SIZE \in Int
        /\ since[c] \in Int /\ 0 <= since[c] /\ since[d] \in Int /\ 0 <= since[d]
    BY <2>4, PoolAssumption DEF Conn
  <2> QED  BY <2>0, <2>1, <2>2, <2>3, <2>5, SameMove, Zenon
<1> QED  BY PoolInvariance, <1>1, PTL

-------------------------------------------------------------------------------
(* The server and its pool *)

\* What a step of the server is to the pool.
LEMMA StepOfPool == Next => PoolNext \/ UNCHANGED pool
<1> SUFFICES ASSUME Next PROVE PoolNext \/ UNCHANGED pool
  OBVIOUS
<1>1. CASE AcceptFails \/ Signal \/ SignalDelivered \/ SignalHandled \/ RunsOut \/ Join \/ Finished
  BY <1>1 DEF AcceptFails, Signal, SignalDelivered, SignalHandled, RunsOut, Join, Finished, vars, pool
<1>2. CASE Outage
  BY <1>2, ZenonT(60) DEF Outage, PoolNext
<1>3. ASSUME NEW s \in Session, Completion(s) PROVE UNCHANGED pool
  BY <1>3 DEF Completion, Accept, Handshake, ReadAuth, ErrorWritten, AckWritten, ReadFrame,
              FrameAckWritten, pool
<1>4. ASSUME NEW s \in Session, Checked(s) \/ Inserted(s) PROVE UNCHANGED pool
  BY <1>4, ZenonT(60) DEF Checked, Inserted, pool
<1>5. ASSUME NEW s \in Session, Insert(s) PROVE PoolNext \/ UNCHANGED pool
  BY <1>5, Zenon DEF Insert, AcquireConn, ConnGranted, ConnTaken, AcquireFails, Commit, Rollback,
                     UseAfterFree, PoolNext
<1> QED
  BY <1>1, <1>2, <1>3, <1>4, <1>5 DEF Next, OnItsThread

\* Whatever the sessions, the signal and the database do, the server takes and returns
\* connections only the way DbPool allows (insert_auth_log() and insert_telemetry()).
THEOREM ServerImplementsPool == Spec => PoolSpec
<1>1. Init => PoolInit
  BY DEF Init
<1>2. [Next]_vars => [PoolNext]_pool
  BY StepOfPool DEF vars, pool
<1> QED
  BY <1>1, <1>2, PTL DEF Spec, PoolSpec

\* So in the server no permit is returned twice or forgotten, and of two inserts that share
\* a connection one has had it for a round of the cursor.
THEOREM ServerPoolIsSound == Spec => [](PermitsAccounted /\ ExclusiveForOneRound)
<1>1. PoolInv => PermitsAccounted
  BY DEF PoolInv
<1> QED
  BY <1>1, ServerImplementsPool, PoolInvariance, OneRoundExclusive, PTL

-------------------------------------------------------------------------------
(* The update loop *)

(* The invariant holds when the server starts.                             *)
LEMMA InitLoop == LoopInit => LoopInv
<1> SUFFICES ASSUME LoopInit PROVE LoopInv
  BY Zenon
<1> USE NodesAssumption, TimeAssumption DEF LoopInit, Node
<1>1. LoopTypeOK
  <2>1. {0} \in SUBSET (0 .. MaxTime)  OBVIOUS
  <2>2. visible \in [Node -> SUBSET (0 .. MaxTime)]  BY <2>1
  <2>3. value \in [Node -> 0 .. MaxTime] /\ slot \in 1 .. NUM_NODES  OBVIOUS
  <2>4. running \in BOOLEAN /\ quit \in BOOLEAN  BY Zenon
  <2> QED  BY <2>2, <2>3, <2>4 DEF LoopTypeOK
<1>2. TimeKept /\ SlotAtRest /\ CountTrails  BY DEF TimeKept, SlotAtRest, CountTrails
<1>3. WrittenInOrder  BY DEF WrittenInOrder
<1>4. TimerFirst /\ ThreadSpawned  BY DEF TimerFirst, ThreadSpawned
<1> QED  BY <1>1, <1>2, <1>3, <1>4 DEF LoopInv

(* No step of main(), of the update thread, of a client or of the timer    *)
(* breaks the invariant.                                                   *)
LEMMA StepLoop == LoopInv /\ [LoopNext]_loopVars => LoopInv'
<1> SUFFICES ASSUME LoopInv, [LoopNext]_loopVars PROVE LoopInv'
  BY Zenon
<1> USE NodesAssumption, TimeAssumption
<1> USE DEF LoopInv, LoopTypeOK, TimeKept, WrittenInOrder, SlotAtRest, CountTrails,
            TimerFirst, ThreadSpawned, Node, memory, clock, thread, server,
            wiring, request
<1>1. CASE StopHandler  BY <1>1 DEF StopHandler
<1>2. CASE BuildModel \/ AttachSources  BY <1>2, Zenon DEF BuildModel, AttachSources
<1>3. CASE StartFlag  BY <1>3 DEF StartFlag
<1>4. CASE StartThread \/ RunStartup  BY <1>4, SMTT(30) DEF StartThread, RunStartup
<1>5. CASE Request \/ Encode  BY <1>5, Zenon DEF Request, Encode
<1>6. CASE ReadNode
  <2> DEFINE i == context[Head(asked)]
  <2>1. PICK v \in visible[i] : visible' = [visible EXCEPT ![i] = {w \in @ : w >= v}]
    BY <1>6, Zenon DEF ReadNode
  <2> HIDE DEF i
  <2>2. visible' \in [Node -> SUBSET (0 .. MaxTime)]
    <3>1. i \in Node => {w \in visible[i] : w >= v} \in SUBSET (0 .. MaxTime)  BY Zenon
    <3> QED  BY <2>1, <3>1, Zenon
  <2>3. UNCHANGED <<running, tickCount, value, clock, thread, mainAt, quit>>
    BY <1>6 DEF ReadNode
  <2> QED  BY <2>2, <2>3
<1>7. CASE StopFlag  BY <1>7, Zenon DEF StopFlag
<1>8. CASE StopJoin  BY <1>8, Zenon DEF StopJoin
<1>9. CASE CreateTimer  BY <1>9, Zenon DEF CreateTimer
<1>10. CASE Expire  BY <1>10, SMTT(30) DEF Expire
<1>11. CASE Test  BY <1>11, Zenon DEF Test
<1>12. CASE ReadTimer  BY <1>12, SMTT(30) DEF ReadTimer
<1>13. CASE ReadNothing  BY <1>13 DEF ReadNothing
<1>14. CASE WriteNode
  <2> USE <1>14 DEF WriteNode, Store
  <2>1. visible' \in [Node -> SUBSET (0 .. MaxTime)]
    <3>1. visible[slot] \cup {tick} \in SUBSET (0 .. MaxTime)  OBVIOUS
    <3> QED  BY <3>1, Zenon
  <2>2. LoopTypeOK'
    <3>1. value' \in [Node -> 0 .. MaxTime]  BY Zenon
    <3>2. slot' \in 1 .. NUM_NODES
      <4>1. CASE slot < NUM_NODES  BY <4>1
      <4>2. CASE ~(slot < NUM_NODES)  BY <4>2
      <4> QED  BY <4>1, <4>2, Zenon
    <3>3. threadAt' \in {"none", "create", "test", "read", "write", "count", "done"}  BY Zenon
    <3>4. UNCHANGED <<running, tickCount, timer, pending, elapsed, tick, mainAt, quit>>
      BY Zenon
    <3> HIDE <1>14 DEF WriteNode
    <3> QED  BY <2>1, <3>1, <3>2, <3>3, <3>4, ZenonT(60)
  <2>3. WrittenInOrder'
    <3>1. CASE slot < NUM_NODES  BY <3>1
    <3>2. CASE slot = NUM_NODES  BY <3>2, SMTT(30)
    <3> QED  BY <3>1, <3>2
  <2>4. (TimeKept /\ SlotAtRest /\ CountTrails /\ TimerFirst /\ ThreadSpawned)'
    BY Zenon
  <2> QED  BY <2>2, <2>3, <2>4, ZenonT(60)
<1>15. CASE StoreCount  BY <1>15, SMTT(30) DEF StoreCount
<1>16. CASE UNCHANGED loopVars  BY <1>16 DEF loopVars
<1> QED
  BY <1>1, <1>2, <1>3, <1>4, <1>5, <1>6, <1>7, <1>8, <1>9, <1>10, <1>11, <1>12,
     <1>13, <1>14, <1>15, <1>16, Zenon DEF LoopNext, Main, Thread, Over

(* The inductive invariant holds in every state of the update loop.        *)
THEOREM LoopInvariance == LoopSpec => []LoopInv
BY InitLoop, StepLoop, PTL DEF LoopSpec

(* However late the thread reads the timer, the tick and the expirations   *)
(* not read yet add up to the time that passed (tick += exp).              *)
THEOREM NoTickLost == LoopSpec => []TimeKept
<1>1. LoopInv => TimeKept  BY DEF LoopInv
<1> QED  BY LoopInvariance, <1>1, PTL

(* At any moment the node values are those of the current update up to the *)
(* write cursor and those of the last published one from there on: not one *)
(* tick (INFORMATION-MODEL.md speaks of an atomic write), but never three. *)
THEOREM TwoTicksAtMost == LoopSpec => []WrittenInOrder
<1>1. LoopInv => WrittenInOrder  BY DEF LoopInv
<1> QED  BY LoopInvariance, <1>1, PTL

-------------------------------------------------------------------------------
(* The reads.                                                              *)

(* The invariant of the reads holds when the server starts.                *)
LEMMA InitReadInv == LoopInit => ReadInv
<1> SUFFICES ASSUME LoopInit PROVE ReadInv
  BY Zenon
<1> USE NodesAssumption, TimeAssumption DEF LoopInit, Node
<1>1. ReadTypeOK
  <2>1. scalar \in [Node -> Value] /\ shown \in [Node -> Value]  BY DEF Value, Zero
  <2>2. context \in [Node -> Node] /\ backing \in [Node -> Node]  OBVIOUS
  <2>3. asked \in Seq(Node) /\ answers \in Seq([node : Node, val : Value])  OBVIOUS
  <2>4. pooled \in BOOLEAN /\ copies \in BOOLEAN  OBVIOUS
  <2> QED  BY <2>1, <2>2, <2>3, <2>4, Zenon DEF ReadTypeOK
<1>2. Wired /\ LastIsVisible  BY DEF Wired, LastIsVisible
<1>3. PoolInOrder  BY DEF PoolInOrder, Zero
<1>4. AnswersInOrder  BY DEF AnswersInOrder
<1> QED  BY <1>1, <1>2, <1>3, <1>4 DEF ReadInv

(* A step that touches neither the values nor the request keeps it, if the *)
(* address space stays as it must be.                                      *)
LEMMA FrameReadInv ==
  ASSUME ReadInv, UNCHANGED <<value, visible, request, pooled, copies>>,
         context' \in [Node -> Node], backing' \in [Node -> Node], Wired'
  PROVE  ReadInv'
<1>1. ReadTypeOK'  BY Zenon DEF ReadInv, ReadTypeOK, request
<1>2. LastIsVisible'  BY Zenon DEF ReadInv, LastIsVisible
<1>3. PoolInOrder'  BY Zenon DEF ReadInv, PoolInOrder, Late, request
<1>4. AnswersInOrder'  BY Zenon DEF ReadInv, AnswersInOrder, Late, request
<1> QED  BY <1>1, <1>2, <1>3, <1>4, Zenon DEF ReadInv

(* A callback keeps it: it reads what is no older than anything told, and  *)
(* what is older than its result can no longer be read.                    *)
LEMMA ReadNodeReadInv == LoopInv /\ ReadInv /\ ReadNode => ReadInv'
<1> SUFFICES ASSUME LoopInv, ReadInv, ReadNode PROVE ReadInv'
  BY Zenon
<1> DEFINE i == Head(asked)
           Answer == [node : Node, val : Value]
<1>1. asked # <<>> /\ asked' = Tail(asked) /\ mainAt = "serve"  BY ZenonT(60) DEF ReadNode
<1>2. UNCHANGED <<value, mainAt, wiring, shown>>  BY DEF ReadNode
<1>3. i \in Node /\ asked' \in Seq(Node)  BY <1>1 DEF ReadInv, ReadTypeOK
<1>4. context[i] = i  BY <1>1, <1>3, Zenon DEF ReadInv, Wired
<1>5. PICK v \in visible[i] :
        /\ visible' = [visible EXCEPT ![i] = {w \in @ : w >= v}]
        /\ scalar' = IF pooled THEN [scalar EXCEPT ![i] = [of |-> i, at |-> v]] ELSE scalar
        /\ answers' = Append(answers, [node |-> i, val |-> [of |-> i, at |-> v]])
  BY <1>4, Zenon DEF ReadNode, cnc_read_callback, cnc_read_callback_opt
<1> HIDE DEF i
<1>6. visible[i] \subseteq 0 .. MaxTime /\ v \in 0 .. MaxTime
  BY <1>3, <1>5, Zenon DEF LoopInv, LoopTypeOK
<1>7. \A j \in Node : visible'[j] \subseteq visible[j]
  BY <1>5, Zenon DEF LoopInv, LoopTypeOK
<1>8. [node |-> i, val |-> [of |-> i, at |-> v]] \in Answer  BY <1>3, <1>6, Zenon DEF Value
<1>9. ReadTypeOK'
  <2>1. scalar' \in [Node -> Value]  BY <1>3, <1>5, <1>6, ZenonT(60) DEF ReadInv, ReadTypeOK, Value
  <2>2. answers' \in Seq(Answer)  BY <1>5, <1>8 DEF ReadInv, ReadTypeOK
  <2> QED  BY <1>2, <1>3, <2>1, <2>2, Zenon DEF ReadInv, ReadTypeOK, wiring
<1>10. Wired'  BY <1>2, Zenon DEF ReadInv, Wired, wiring
<1>11. LastIsVisible'
  BY <1>2, <1>3, <1>5, <1>6, Zenon DEF ReadInv, LastIsVisible, LoopInv, LoopTypeOK
<1>12. PoolInOrder'
  <2> SUFFICES ASSUME NEW j \in Node PROVE
        /\ scalar'[j].of = j /\ shown'[j].of = j
        /\ \A w \in visible'[j] : shown'[j].at <= w /\ scalar'[j].at <= w
        /\ Late' => shown'[j].at <= scalar'[j].at
    BY Zenon DEF PoolInOrder
  <2>1. CASE j = i
    <3>1. \A w \in visible'[i] : w \in visible[i] /\ v <= w
      BY <1>3, <1>5, <1>6, Zenon DEF LoopInv, LoopTypeOK
    <3>2. \A w \in visible[i] : shown[i].at <= w /\ scalar[i].at <= w
      BY <1>3, Zenon DEF ReadInv, PoolInOrder
    <3>3. scalar'[i] = IF pooled THEN [of |-> i, at |-> v] ELSE scalar[i]
      BY <1>3, <1>5, Zenon DEF ReadInv, ReadTypeOK
    <3>4. scalar[i].of = i /\ shown[i].of = i  BY <1>3 DEF ReadInv, PoolInOrder
    <3>5. Late' => pooled  BY <1>2, Zenon DEF Late, wiring
    <3> QED  BY <2>1, <1>2, <1>5, <3>1, <3>2, <3>3, <3>4, <3>5, SMTT(30)
  <2>2. CASE j # i
    BY <2>2, <1>2, <1>3, <1>5, Zenon DEF ReadInv, ReadTypeOK, PoolInOrder, Late, wiring, LoopInv, LoopTypeOK
  <2> QED  BY <2>1, <2>2, ZenonT(60)
<1>13. AnswersInOrder'
  <2>1. answers \in Seq(Answer)  BY Zenon DEF ReadInv, ReadTypeOK
  <2> HIDE DEF Answer
  <2>2. /\ Len(answers') = Len(answers) + 1 /\ Len(answers) \in Nat
        /\ \A k \in 1 .. Len(answers) : answers'[k] = answers[k] /\ answers[k] \in Answer
        /\ answers'[Len(answers) + 1] = [node |-> i, val |-> [of |-> i, at |-> v]]
    <3> DEFINE new == [node |-> i, val |-> [of |-> i, at |-> v]]
    <3>1. new \in Answer /\ answers' = Append(answers, new)  BY <1>5, <1>8, Zenon
    <3> HIDE DEF new
    <3>2. /\ Len(answers') = Len(answers) + 1 /\ Len(answers) \in Nat
          /\ \A k \in 1 .. Len(answers) : answers'[k] = answers[k] /\ answers[k] \in Answer
          /\ answers'[Len(answers) + 1] = new
      BY <2>1, <3>1
    <3> QED  BY <3>2, Zenon DEF new
  <2> SUFFICES ASSUME NEW k \in 1 .. Len(answers') PROVE
        /\ answers'[k].val.of = answers'[k].node
        /\ \A w \in visible'[answers'[k].node] : answers'[k].val.at <= w
        /\ ~Late' => shown'[answers'[k].node].at <= answers'[k].val.at
        /\ \A l \in 1 .. k : answers'[l].node = answers'[k].node
                               => answers'[l].val.at <= answers'[k].val.at
    BY Zenon DEF AnswersInOrder
  <2>3. CASE k \in 1 .. Len(answers)
    <3>1. \A l \in 1 .. k : l \in 1 .. Len(answers)  BY <2>2, <2>3, SMTT(30)
    <3>2. answers[k].node \in Node /\ answers'[k] = answers[k]  BY <2>2, <2>3, Zenon DEF Answer
    <3>3. \A l \in 1 .. k : answers'[l] = answers[l]  BY <2>2, <3>1
    <3>4. Late' = Late /\ shown' = shown  BY <1>2, ZenonT(60) DEF Late, wiring
    <3> QED  BY <1>7, <2>3, <3>2, <3>3, <3>4, ZenonT(60) DEF ReadInv, AnswersInOrder
  <2>4. CASE k = Len(answers) + 1
    <3>1. \A w \in visible'[i] : v <= w  BY <1>3, <1>5, <1>6 DEF LoopInv, LoopTypeOK
    <3>2. shown'[i].at <= v  BY <1>2, <1>3, <1>5, Zenon DEF ReadInv, PoolInOrder
    <3>3. \A l \in 1 .. Len(answers) : answers[l].node = i => answers[l].val.at <= v
      BY <1>5, ZenonT(60) DEF ReadInv, AnswersInOrder
    <3>4. \A l \in 1 .. k : l \in 1 .. Len(answers) \/ l = k  BY <2>2, <2>4, SMTT(30)
    <3>5. answers'[k].node = i /\ answers'[k].val.of = i /\ answers'[k].val.at = v
      BY <2>2, <2>4
    <3>6. v <= v  BY <1>6
    <3>7. \A l \in 1 .. k : answers'[l].node = i => answers'[l].val.at <= v
      BY <2>2, <3>3, <3>4, <3>5, <3>6, Zenon
    <3> QED  BY <3>1, <3>2, <3>5, <3>7, Zenon
  <2>5. k \in 1 .. Len(answers) \/ k = Len(answers) + 1  BY <2>2, SMTT(30)
  <2> QED  BY <2>3, <2>4, <2>5, ZenonT(60)
<1> QED  BY <1>9, <1>10, <1>11, <1>12, <1>13 DEF ReadInv

(* Encoding an answer keeps it, and tells nothing older than before.       *)
LEMMA EncodeReadInv ==
  ASSUME LoopInv, ReadInv, Encode
  PROVE  ReadInv' /\ \A j \in Node : shown'[j].of = j /\ shown'[j].at >= shown[j].at
<1> DEFINE a == Head(answers)
           Answer == [node : Node, val : Value]
           v == IF Late THEN scalar[a.node] ELSE a.val
<1>1. answers # <<>> /\ answers' = Tail(answers) /\ answers \in Seq(Answer) /\ mainAt = "serve"
  BY Zenon DEF Encode, ReadInv, ReadTypeOK
<1>2. UNCHANGED <<value, visible, mainAt, wiring, scalar, asked>>  BY DEF Encode, memory
<1>3. a \in Answer /\ a = answers[1] /\ Len(answers) \in Nat /\ 1 \in 1 .. Len(answers)
  <2> HIDE DEF Answer
  <2> QED  BY <1>1
<1>4. a.node \in Node /\ a.val \in Value  BY <1>3
<1>5. Late => backing[context[a.node]] = a.node
  BY <1>1, <1>4, Zenon DEF Late, ReadInv, Wired
<1>6. shown' = [shown EXCEPT ![a.node] = v]  BY <1>5, Zenon DEF Encode
<1>7. v \in Value  BY <1>4, SMTT(30) DEF ReadInv, ReadTypeOK
<1>8. v.of = a.node /\ shown[a.node].at <= v.at /\ \A w \in visible[a.node] : v.at <= w
  <2>1. CASE Late  BY <2>1, <1>4, ZenonT(60) DEF ReadInv, PoolInOrder
  <2>2. CASE ~Late  BY <2>2, <1>3, <1>4 DEF ReadInv, AnswersInOrder
  <2> QED  BY <2>1, <2>2, ZenonT(60)
<1>9. \A k \in 1 .. Len(answers') :
        /\ k + 1 \in 1 .. Len(answers) /\ answers'[k] = answers[k + 1]
        /\ answers[k + 1] \in Answer
  <2> HIDE DEF Answer
  <2> QED  BY <1>1, <1>3
<1>10. answers' \in Seq(Answer) /\ Len(answers') \in Nat
  <2> HIDE DEF Answer
  <2> QED  BY <1>1
<1> HIDE DEF a, v
<1>11. \A j \in Node : shown'[j] = IF j = a.node THEN v ELSE shown[j]
  BY <1>6, Zenon DEF ReadInv, ReadTypeOK
<1>12. \A j \in Node : shown'[j].of = j /\ shown'[j].at >= shown[j].at
  <2>1. \A j \in Node : shown[j].of = j /\ shown[j].at \in 0 .. MaxTime
    BY DEF ReadInv, PoolInOrder, ReadTypeOK, Value
  <2>2. v.at \in 0 .. MaxTime  BY <1>7, Zenon DEF Value
  <2> QED  BY <1>8, <1>11, <2>1, <2>2, SMTT(30)
<1>13. ReadTypeOK'
  <2>1. shown' \in [Node -> Value]  BY <1>4, <1>6, <1>7, Zenon DEF ReadInv, ReadTypeOK
  <2> QED  BY <1>2, <1>10, <2>1, Zenon DEF ReadInv, ReadTypeOK, wiring
<1>14. Wired' /\ LastIsVisible'  BY <1>2 DEF ReadInv, Wired, LastIsVisible, wiring
<1>15. Late' = Late  BY <1>2, Zenon DEF Late, wiring
<1>16. PoolInOrder'
  <2>1. Late => v = scalar[a.node]  BY SMTT(30) DEF v
  <2> SUFFICES ASSUME NEW j \in Node PROVE
        /\ scalar[j].of = j /\ shown'[j].of = j
        /\ \A w \in visible[j] : shown'[j].at <= w /\ scalar[j].at <= w
        /\ Late => shown'[j].at <= scalar[j].at
    BY <1>2, <1>15, ZenonT(60) DEF PoolInOrder
  <2>2. CASE j = a.node  BY <2>1, <2>2, <1>7, <1>8, <1>11 DEF ReadInv, PoolInOrder, Value
  <2>3. CASE j # a.node  BY <2>3, <1>11, Zenon DEF ReadInv, PoolInOrder
  <2> QED  BY <2>2, <2>3
<1>17. AnswersInOrder'
  <2> SUFFICES ASSUME NEW k \in 1 .. Len(answers') PROVE
        /\ answers'[k].val.of = answers'[k].node
        /\ \A w \in visible'[answers'[k].node] : answers'[k].val.at <= w
        /\ ~Late' => shown'[answers'[k].node].at <= answers'[k].val.at
        /\ \A l \in 1 .. k : answers'[l].node = answers'[k].node
                               => answers'[l].val.at <= answers'[k].val.at
    BY Zenon DEF AnswersInOrder
  <2>1. /\ k + 1 \in 1 .. Len(answers) /\ answers'[k] = answers[k + 1]
        /\ answers'[k].node \in Node
    BY <1>9, Zenon
  <2>2. \A l \in 1 .. k : l + 1 \in 1 .. k + 1 /\ answers'[l] = answers[l + 1]
    BY <1>9, <1>10
  <2>3. ~Late => v = answers[1].val /\ a.node = answers[1].node /\ 1 \in 1 .. k + 1
    BY <1>3, SMTT(30) DEF v
  <2>4. /\ answers'[k].val.of = answers'[k].node
        /\ \A w \in visible'[answers'[k].node] : answers'[k].val.at <= w
        /\ ~Late => shown[answers'[k].node].at <= answers'[k].val.at
    BY <1>2, <2>1, Zenon DEF ReadInv, AnswersInOrder
  <2>5. \A l \in 1 .. k + 1 : answers[l].node = answers'[k].node
                                => answers[l].val.at <= answers'[k].val.at
    BY <2>1, ZenonT(60) DEF ReadInv, AnswersInOrder
  <2>6. ~Late => shown'[answers'[k].node].at <= answers'[k].val.at
    BY <1>11, <2>1, <2>3, <2>4, <2>5, Zenon
  <2> QED  BY <1>15, <2>2, <2>4, <2>5, <2>6, ZenonT(60)
<1> QED  BY <1>12, <1>13, <1>14, <1>16, <1>17, Zenon DEF ReadInv

(* A new value keeps it: the tick is no older than what the node held.     *)
LEMMA WriteNodeReadInv == LoopInv /\ ReadInv /\ WriteNode => ReadInv'
<1> SUFFICES ASSUME LoopInv, ReadInv, WriteNode PROVE ReadInv'
  BY Zenon
<1>1. /\ slot \in Node /\ tick \in 0 .. MaxTime
      /\ value' = [value EXCEPT ![slot] = tick]
      /\ visible' = [visible EXCEPT ![slot] = @ \cup {tick}]
      /\ UNCHANGED <<mainAt, wiring, request>>
  BY Zenon DEF WriteNode, Store, LoopInv, LoopTypeOK, Node, server
<1>2. value[slot] <= tick /\ value[slot] \in 0 .. MaxTime
  BY <1>1 DEF LoopInv, WrittenInOrder, CountTrails, LoopTypeOK
<1>3. \A j \in Node : value[j] \in visible[j] /\ visible[j] \subseteq 0 .. MaxTime
  BY Zenon DEF ReadInv, LastIsVisible, LoopInv, LoopTypeOK
<1>4. \A j \in Node : \A w \in visible'[j] : w \in visible[j] \/ (j = slot /\ w = tick)
  BY <1>1, Zenon DEF LoopInv, LoopTypeOK
<1>5. ReadTypeOK' /\ Wired'  BY <1>1, Zenon DEF ReadInv, ReadTypeOK, Wired, wiring, request
<1>6. LastIsVisible'
  BY <1>1, <1>2, <1>3, <1>4 DEF ReadInv, LastIsVisible, LoopInv, LoopTypeOK
<1>7. Late' = Late /\ scalar' = scalar /\ shown' = shown /\ answers' = answers
  BY <1>1, Zenon DEF Late, wiring, request
<1>8. PoolInOrder'
  <2>1. scalar[slot].at <= tick /\ shown[slot].at <= tick
    BY <1>1, <1>2, <1>3, SMTT(30) DEF ReadInv, PoolInOrder, ReadTypeOK, Value
  <2> SUFFICES ASSUME NEW j \in Node
               PROVE  /\ scalar[j].of = j /\ shown[j].of = j
                      /\ \A w \in visible'[j] : shown[j].at <= w /\ scalar[j].at <= w
                      /\ Late => shown[j].at <= scalar[j].at
    BY <1>7 DEF PoolInOrder
  <2>2. /\ scalar[j].of = j /\ shown[j].of = j
        /\ \A w \in visible[j] : shown[j].at <= w /\ scalar[j].at <= w
        /\ Late => shown[j].at <= scalar[j].at
    BY ZenonT(60) DEF ReadInv, PoolInOrder
  <2> QED  BY <1>4, <2>1, <2>2, Zenon
<1>9. AnswersInOrder'
  <2>1. \A k \in 1 .. Len(answers) : answers[k].node \in Node /\ answers[k].val.at \in 0 .. MaxTime
    <3> DEFINE Answer == [node : Node, val : Value]
    <3>1. answers \in Seq(Answer)  BY DEF ReadInv, ReadTypeOK
    <3> HIDE DEF Answer
    <3>2. \A k \in 1 .. Len(answers) : answers[k] \in Answer  BY <3>1, SMTT(30)
    <3> QED  BY <3>2 DEF Answer, Value
  <2>2. \A k \in 1 .. Len(answers) : answers[k].node = slot => answers[k].val.at <= value[slot]
    BY <1>1, <1>3, Zenon DEF ReadInv, AnswersInOrder
  <2>3. \A k \in 1 .. Len(answers) : answers[k].node = slot => answers[k].val.at <= tick
    BY <1>1, <1>2, <2>1, <2>2
  <2> QED  BY <1>4, <1>7, <2>1, <2>3, Zenon DEF ReadInv, AnswersInOrder
<1> QED  BY <1>5, <1>6, <1>8, <1>9 DEF ReadInv

(* No step breaks the invariant of the reads.                              *)
LEMMA StepReadInv == LoopInv /\ ReadInv /\ [LoopNext]_loopVars => ReadInv'
<1> SUFFICES ASSUME LoopInv, ReadInv, [LoopNext]_loopVars PROVE ReadInv'
  OBVIOUS
<1> USE DEF memory, clock, thread, server, wiring, request
<1>0. context \in [Node -> Node] /\ backing \in [Node -> Node] /\ Wired
  BY DEF ReadInv, ReadTypeOK
<1>1. CASE BuildModel \/ AttachSources
  <2>1. [i \in Node |-> i] \in [Node -> Node]  BY ZenonT(60)
  <2>2. /\ UNCHANGED <<value, visible, request, pooled, copies>>
        /\ context' \in [Node -> Node] /\ backing' \in [Node -> Node] /\ Wired'
    BY <1>0, <1>1, <2>1 DEF BuildModel, AttachSources, Wired
  <2> QED  BY <2>2, FrameReadInv
<1>2. CASE StartFlag \/ StartThread \/ RunStartup \/ StopFlag \/ StopJoin
  <2>1. UNCHANGED <<value, visible, request, wiring>>
    BY <1>2, Zenon DEF StartFlag, StartThread, RunStartup, StopFlag, StopJoin
  <2>2. Wired'
    BY <1>0, <1>2, <2>1, Zenon DEF StartFlag, StartThread, RunStartup, StopFlag, StopJoin, Wired, wiring
  <2> QED  BY <1>0, <2>1, <2>2, FrameReadInv, ZenonT(60)
<1>3. CASE StopHandler \/ CreateTimer \/ Test \/ ReadTimer \/ ReadNothing \/ StoreCount \/ Expire
           \/ UNCHANGED loopVars
  <2>1. UNCHANGED <<value, visible, request, wiring, mainAt>>
    BY <1>3, Zenon DEF StopHandler, CreateTimer, Test, ReadTimer, ReadNothing, StoreCount, Expire, loopVars
  <2>2. Wired'  BY <1>0, <2>1 DEF Wired
  <2> QED  BY <1>0, <2>1, <2>2, FrameReadInv, Zenon
<1>4. CASE Request
  <2>1. PICK n \in 1 .. MaxAsk : asked' \in [1 .. n -> Node]  BY <1>4 DEF Request
  <2>2. asked' \in Seq(Node)  BY <2>1, AskAssumption
  <2>3. UNCHANGED <<value, visible, mainAt, wiring, scalar, answers, shown>>
    BY <1>4 DEF Request
  <2>4. ReadTypeOK' /\ Wired'  BY <2>2, <2>3, Zenon DEF ReadInv, ReadTypeOK, Wired
  <2>5. LastIsVisible' /\ PoolInOrder'  BY <2>3, ZenonT(60) DEF ReadInv, LastIsVisible, PoolInOrder, Late
  <2>6. AnswersInOrder'  BY <2>3, Zenon DEF ReadInv, AnswersInOrder, Late
  <2> QED  BY <2>4, <2>5, <2>6, Zenon DEF ReadInv
<1>5. CASE ReadNode  BY <1>5, ReadNodeReadInv, Zenon
<1>6. CASE Encode  BY <1>6, EncodeReadInv
<1>7. CASE WriteNode  BY <1>7, WriteNodeReadInv, Zenon
<1> QED
  BY <1>1, <1>2, <1>3, <1>4, <1>5, <1>6, <1>7, Zenon DEF LoopNext, Main, Thread, Over

(* Only an encoded answer tells anything, and what it tells is newer.      *)
LEMMA StepNotBackwards ==
  ASSUME LoopInv, ReadInv, [LoopNext]_loopVars
  PROVE  \A i \in Node : shown'[i].of = i /\ shown'[i].at >= shown[i].at
<1>1. CASE Encode  BY <1>1, EncodeReadInv, Zenon
<1>2. CASE UNCHANGED shown
  BY <1>2, SMTT(30) DEF ReadInv, PoolInOrder, ReadTypeOK, Value
<1>3. Encode \/ UNCHANGED shown
  BY Zenon DEF LoopNext, Main, Thread, Over, StopHandler, BuildModel, AttachSources, StartFlag, StartThread, RunStartup,
         StopFlag, StopJoin, Request, ReadNode, CreateTimer, Test, ReadTimer, ReadNothing,
         WriteNode, StoreCount, Expire, loopVars, server, request
<1> QED  BY <1>1, <1>2, <1>3, Zenon

(* Read requests never see a node go back in time, nor another's value:    *)
(* in either data source, with a server that copies variants or does not,  *)
(* for every number of nodes and any request.                              *)
THEOREM ClientsSeeNoStep == LoopSpec => NeverBackwards
<1>1. LoopSpec => [](LoopInv /\ ReadInv)
  <2>1. LoopInit => LoopInv /\ ReadInv  BY InitLoop, InitReadInv
  <2>2. LoopInv /\ ReadInv /\ [LoopNext]_loopVars => (LoopInv /\ ReadInv)'  BY StepLoop, StepReadInv
  <2> QED  BY <2>1, <2>2, PTL DEF LoopSpec
<1>2. LoopInv /\ ReadInv /\ [LoopNext]_loopVars
        => [\A i \in Node : shown'[i].of = i /\ shown'[i].at >= shown[i].at]_loopVars
  BY StepNotBackwards, Zenon
<1> QED  BY <1>1, <1>2, PTL DEF LoopSpec, NeverBackwards

===============================================================================
