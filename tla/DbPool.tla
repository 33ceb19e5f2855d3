------------------------------- MODULE DbPool -------------------------------
(***************************************************************************)
(* The pool of database connections of the asynchronous telemetry server   *)
(* (DbPool.cpp).  A caller waits on a counting semaphore, then, under a    *)
(* mutex, is given the connection the round-robin cursor points at, which  *)
(* is reopened first if it is closed.  release() says nothing about which  *)
(* connection comes back: it only returns a permit.                        *)
(***************************************************************************)
EXTENDS Integers, FiniteSets

CONSTANTS Session,    \* the sessions that use the pool, one for each connection accepted
          POOL_SIZE   \* connections, and permits at the start

ASSUME SessionAssumption == IsFiniteSet(Session)
ASSUME PoolAssumption == POOL_SIZE \in Nat \ {0}

VARIABLES
  permits,   \* the count of sem_
  next,      \* next_, the cursor
  open,      \* the connections that are open
  at,        \* where each caller is
  conn,      \* the connection a caller was given
  stale,     \* the callers whose connection was destroyed while they use it
  lost,      \* ghost: permits of acquire() calls that threw
  since      \* ghost: moves of the cursor since a caller's, up to POOL_SIZE

pool == <<permits, next, open, at, conn, stale, lost, since>>

Conn == 0 .. POOL_SIZE - 1

\* The callers that took a permit and have not come out of the pool.
Holder == {c \in Session : at[c] \in {"granted", "using"}}

PoolTypeOK ==
  /\ permits \in 0 .. POOL_SIZE /\ lost \in 0 .. POOL_SIZE
  /\ next \in Conn /\ open \subseteq Conn
  /\ at \in [Session -> {"out", "waiting", "granted", "using"}]
  /\ conn \in [Session -> Conn] /\ stale \subseteq Session
  /\ since \in [Session -> 0 .. POOL_SIZE]

PoolInit ==
  /\ permits = POOL_SIZE /\ lost = 0
  /\ next = 0 /\ open = Conn
  /\ at = [c \in Session |-> "out"]
  /\ conn = [c \in Session |-> 0] /\ stale = {}
  /\ since = [c \in Session |-> POOL_SIZE]

-------------------------------------------------------------------------------
\* acquire() is called.
Acquire(c) ==
  /\ at[c] = "out"
  /\ at' = [at EXCEPT ![c] = "waiting"]
  /\ UNCHANGED <<permits, next, open, conn, stale, lost, since>>

\* sem_.acquire() returns: there was a permit.
SemAcquire(c) ==
  /\ at[c] = "waiting" /\ permits > 0
  /\ permits' = permits - 1
  /\ at' = [at EXCEPT ![c] = "granted"]
  /\ UNCHANGED <<next, open, conn, stale, lost, since>>

\* Every caller's count of the moves of the cursor, one move on.
Older == [d \in Session |-> IF since[d] < POOL_SIZE THEN since[d] + 1 ELSE since[d]]

\* Mutant: the cursor stays on the last connection.
AdvanceSticks == next' = IF next + 1 < POOL_SIZE THEN next + 1 ELSE next

\* next_ = (next_ + 1) % POOL_SIZE
Advance == next' = (next + 1) % POOL_SIZE

(* Under mu_: the cursor moves, and ensure_open() leaves an open connection *)
(* in the slot it pointed at.  If that is a new one, the old one is         *)
(* destroyed, whether somebody still uses it or not.                        *)
Take(c) ==
  /\ at[c] = "granted"
  /\ Advance
  /\ conn' = [conn EXCEPT ![c] = next]
  /\ since' = [Older EXCEPT ![c] = 0]
  /\ open' = open \cup {next}
  /\ stale' = IF next \in open THEN stale
              ELSE stale \cup {d \in Session : at[d] = "using" /\ conn[d] = next}
  /\ at' = [at EXCEPT ![c] = "using"]
  /\ UNCHANGED <<permits, lost>>

(* The connection is closed and connecting again throws: the old one stays. *)
(* The cursor has moved already, and nothing gives the permit back.         *)
TakeThrows(c) ==
  /\ at[c] = "granted" /\ next \notin open
  /\ Advance
  /\ since' = Older
  /\ at' = [at EXCEPT ![c] = "out"]
  /\ lost' = lost + 1
  /\ UNCHANGED <<permits, open, conn, stale>>

\* Mutant: the permit is returned by the handler and again after it.
ReleaseTwice(c) ==
  /\ at[c] = "using"
  /\ permits' = permits + 2
  /\ at' = [at EXCEPT ![c] = "out"]
  /\ conn' = [conn EXCEPT ![c] = 0]
  /\ stale' = stale \ {c}
  /\ since' = [since EXCEPT ![c] = POOL_SIZE]
  /\ UNCHANGED <<next, open, lost>>

\* release(), by a caller that is done with its connection.
Release(c) ==
  /\ at[c] = "using"
  /\ permits' = permits + 1
  /\ at' = [at EXCEPT ![c] = "out"]
  /\ conn' = [conn EXCEPT ![c] = 0]
  /\ stale' = stale \ {c}
  /\ since' = [since EXCEPT ![c] = POOL_SIZE]
  /\ UNCHANGED <<next, open, lost>>

\* The database closes a connection.
Disconnect(i) ==
  /\ i \in open
  /\ open' = open \ {i}
  /\ UNCHANGED <<permits, next, at, conn, stale, lost, since>>

PoolNext ==
  \/ \E c \in Session :
       Acquire(c) \/ SemAcquire(c) \/ Take(c) \/ TakeThrows(c) \/ Release(c)
  \/ \E i \in Conn : Disconnect(i)

PoolSpec == PoolInit /\ [][PoolNext]_pool

-------------------------------------------------------------------------------
(* Every permit is in the semaphore, with one caller, or gone with an       *)
(* acquire() that threw: no release() is missing and none is made twice     *)
(* (the two paths out of TelemetryRepository's inserts).                    *)
PermitsAccounted == permits + Cardinality(Holder) + lost = POOL_SIZE

(* If two users share a connection, one of them has had it while the cursor *)
(* moved POOL_SIZE times; and a connection is destroyed only under a user   *)
(* that has had it that long.  As long as every insert is shorter than a    *)
(* round of the cursor, nobody is disturbed.  (Nothing bounds an insert:    *)
(* see ConnectionExclusive.)                                                *)
ExclusiveForOneRound ==
  /\ \A c, d \in Session :
       c # d /\ at[c] = "using" /\ at[d] = "using" /\ conn[c] = conn[d] =>
         since[c] = POOL_SIZE \/ since[d] = POOL_SIZE
  /\ \A c \in stale : since[c] = POOL_SIZE

\* A user's count says how far behind the cursor its connection is.
CountsMoves ==
  \A c \in Session : at[c] = "using" /\ since[c] < POOL_SIZE =>
    conn[c] + since[c] + 1 \in {next, next + POOL_SIZE}

\* No two users took their connections at the same move of the cursor.
MovesDiffer ==
  \A c, d \in Session :
    /\ c # d
    /\ at[c] = "using" /\ since[c] < POOL_SIZE
    /\ at[d] = "using" /\ since[d] < POOL_SIZE
    => since[c] # since[d]

\* Only who uses a connection can lose it, and only after a round of the cursor.
StaleIsOld == \A c \in stale : at[c] = "using" /\ since[c] = POOL_SIZE

(* The inductive invariant: the accounting of permits, and the position of  *)
(* every user relative to the cursor, from which exclusiveness follows.     *)
PoolInv == PoolTypeOK /\ PermitsAccounted /\ CountsMoves /\ MovesDiffer /\ StaleIsOld

(* "Blocks until a connection is available" (DbPool.h:18): the connection   *)
(* acquire() returns is in nobody else's hands.                             *)
ConnectionExclusive ==
  \A c, d \in Session : c # d /\ at[c] = "using" /\ at[d] = "using" => conn[c] # conn[d]
=============================================================================
