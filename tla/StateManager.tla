---------------------------- MODULE StateManager ----------------------------
(***************************************************************************)
(* StateManager (src/StateManager.cpp): the daemon's four-state machine    *)
(* behind one atomic, called by several threads at once.  Each atomic      *)
(* access, each critical section of cb_mu_ and each call of a callback is  *)
(* a step.  The state change and the callback that reports it are separate *)
(* steps, so the reports of two threads may come in either order.          *)
(*                                                                         *)
(* The callbacks reach an observer (the D-Bus clients).  The observer is   *)
(* the ghost balance: for each state, how many reports said it was entered *)
(* minus how many said it was left, for as long as every change had a      *)
(* callback to report it.                                                  *)
(***************************************************************************)
EXTENDS Integers, FiniteSets

CONSTANT Thread   \* the threads that may call

ASSUME ThreadAssumption == IsFiniteSet(Thread)

State == {"IDLE", "RUNNING", "FAULT", "SHUTDOWN"}

VARIABLES
  state,          \* state_
  stateCb,        \* state_changed_cb_ is set
  alarmCb,        \* alarm_cb_ is set
  call,           \* the call each thread is in
  balance,        \* ghost: reports of entering minus reports of leaving
  silent          \* ghost: some change had no callback to report it

smVars == <<state, stateCb, alarmCb, call, balance, silent>>

\* A call: its next step, the edge prev -> next it makes or is about to make,
\* and whether it is fault(), which also raises the alarm.
Call ==
  [at: {"startCas", "exchange", "copyStateCb", "callStateCb", "copyAlarmCb", "callAlarmCb"},
   prev: State, next: State, raising: BOOLEAN]

NoCall == [at |-> "none", prev |-> "IDLE", next |-> "IDLE", raising |-> FALSE]

ManagerTypeOK ==
  /\ state \in State
  /\ stateCb \in BOOLEAN /\ alarmCb \in BOOLEAN
  /\ call \in [Thread -> Call \cup {NoCall}]
  /\ balance \in [State -> Int]
  /\ silent \in BOOLEAN

ManagerInit ==
  /\ state = "IDLE"
  /\ stateCb = FALSE /\ alarmCb = FALSE
  /\ call = [t \in Thread |-> NoCall]
  /\ balance = [s \in State |-> 0]
  /\ silent = FALSE

At(t, l) == call[t].at = l

Goto(t, l) == call' = [call EXCEPT ![t] = [@ EXCEPT !.at = l]]

Enter(t, l, p, n) ==
  call' = [call EXCEPT ![t] = [at |-> l, prev |-> p, next |-> n, raising |-> FALSE]]

Return(t) == call' = [call EXCEPT ![t] = NoCall]

-------------------------------------------------------------------------------
\* setStateChangedCallback() and setAlarmCallback(), with a callback or nullptr.
SetStateChangedCallback(b) ==
  /\ stateCb' = b
  /\ UNCHANGED <<state, alarmCb, call, balance, silent>>

SetAlarmCallback(b) ==
  /\ alarmCb' = b
  /\ UNCHANGED <<state, stateCb, call, balance, silent>>

-------------------------------------------------------------------------------
(* start() *)

\* prev = state_.load()
Start(t) ==
  /\ At(t, "none")
  /\ Enter(t, "startCas", state, "RUNNING")
  /\ UNCHANGED <<state, stateCb, alarmCb, balance, silent>>

\* throw std::logic_error
StartThrow(t) ==
  /\ At(t, "startCas") /\ call[t].prev \in {"RUNNING", "SHUTDOWN"}
  /\ Return(t)
  /\ UNCHANGED <<state, stateCb, alarmCb, balance, silent>>

\* compare_exchange_weak succeeds.
StartCas(t) ==
  /\ At(t, "startCas") /\ call[t].prev \notin {"RUNNING", "SHUTDOWN"}
  /\ state = call[t].prev
  /\ state' = "RUNNING"
  /\ Goto(t, "copyStateCb")
  /\ UNCHANGED <<stateCb, alarmCb, balance, silent>>

\* It fails and loads the current value (a spurious failure changes nothing).
StartRetry(t) ==
  /\ At(t, "startCas") /\ call[t].prev \notin {"RUNNING", "SHUTDOWN"}
  /\ state # call[t].prev
  /\ call' = [call EXCEPT ![t] = [@ EXCEPT !.prev = state]]
  /\ UNCHANGED <<state, stateCb, alarmCb, balance, silent>>

-------------------------------------------------------------------------------
(* halt(), shutdown() and transition() *)

\* Mutant: halt() does not test.
HaltUntested(t) ==
  /\ At(t, "none")
  /\ Enter(t, "exchange", "IDLE", "IDLE")
  /\ UNCHANGED <<state, stateCb, alarmCb, balance, silent>>

\* halt() tests for SHUTDOWN with a load of its own, and returns if so.
Halt(t) ==
  /\ At(t, "none") /\ state # "SHUTDOWN"
  /\ Enter(t, "exchange", "IDLE", "IDLE")
  /\ UNCHANGED <<state, stateCb, alarmCb, balance, silent>>

\* shutdown() calls transition(SHUTDOWN) unconditionally.
Shutdown(t) ==
  /\ At(t, "none")
  /\ Enter(t, "exchange", "IDLE", "SHUTDOWN")
  /\ UNCHANGED <<state, stateCb, alarmCb, balance, silent>>

\* prev = state_.exchange(next)
Exchange(t) ==
  /\ At(t, "exchange")
  /\ state' = call[t].next
  /\ call' = [call EXCEPT ![t] = [@ EXCEPT !.at = "copyStateCb", !.prev = state]]
  /\ UNCHANGED <<stateCb, alarmCb, balance, silent>>

-------------------------------------------------------------------------------
(* fault() *)

\* compare_exchange_strong RUNNING -> FAULT; anything else returns at once.
Fault(t) ==
  /\ At(t, "none") /\ state = "RUNNING"
  /\ state' = "FAULT"
  /\ call' = [call EXCEPT ![t] = [at |-> "copyStateCb", prev |-> "RUNNING",
                                  next |-> "FAULT", raising |-> TRUE]]
  /\ UNCHANGED <<stateCb, alarmCb, balance, silent>>

-------------------------------------------------------------------------------
(* The reports *)

\* After the state callback fault() goes on to the alarm callback.
Reported(t) == IF call[t].raising THEN Goto(t, "copyAlarmCb") ELSE Return(t)

\* { lock; cb = state_changed_cb_; }  if (cb) ...
CopyStateCb(t) ==
  /\ At(t, "copyStateCb")
  /\ IF stateCb THEN Goto(t, "callStateCb") ELSE Reported(t)
  /\ silent' = (silent \/ ~stateCb)
  /\ balance' = [s \in State |-> IF stateCb THEN balance[s] ELSE 0]
  /\ UNCHANGED <<state, stateCb, alarmCb>>

Same(r, s) == IF r = s THEN 1 ELSE 0

\* cb(next, prev)
CallStateCb(t) ==
  /\ At(t, "callStateCb")
  /\ balance' = [s \in State |-> IF silent THEN balance[s]
                                 ELSE balance[s] + Same(s, call[t].next)
                                                 - Same(s, call[t].prev)]
  /\ Reported(t)
  /\ UNCHANGED <<state, stateCb, alarmCb, silent>>

\* { lock; acb = alarm_cb_; }  if (acb) ...
CopyAlarmCb(t) ==
  /\ At(t, "copyAlarmCb")
  /\ IF alarmCb THEN Goto(t, "callAlarmCb") ELSE Return(t)
  /\ UNCHANGED <<state, stateCb, alarmCb, balance, silent>>

\* acb(sensor_id, value, threshold)
CallAlarmCb(t) ==
  /\ At(t, "callAlarmCb")
  /\ Return(t)
  /\ UNCHANGED <<state, stateCb, alarmCb, balance, silent>>

-------------------------------------------------------------------------------
\* The rest of a call that has begun.
Continue(t) ==
  \/ StartThrow(t) \/ StartCas(t) \/ StartRetry(t)
  \/ Exchange(t)
  \/ CopyStateCb(t) \/ CallStateCb(t)
  \/ CopyAlarmCb(t) \/ CallAlarmCb(t)

ManagerNext ==
  \/ \E b \in BOOLEAN : SetStateChangedCallback(b) \/ SetAlarmCallback(b)
  \/ \E t \in Thread : Start(t) \/ Halt(t) \/ Shutdown(t) \/ Fault(t) \/ Continue(t)

ManagerSpec == ManagerInit /\ [][ManagerNext]_smVars

-------------------------------------------------------------------------------
(* Properties *)

\* The daemon is shut down, and no halt() is past its test for SHUTDOWN.
DownForGood ==
  state = "SHUTDOWN" /\ \A t \in Thread : ~(At(t, "exchange") /\ call[t].next = "IDLE")

\* RUNNING is entered from IDLE or FAULT only and FAULT from RUNNING only, however
\* start() and fault() race with the other operations.  A shutdown() is undone only by a
\* halt() that made its test before: once none of those is left, SHUTDOWN is for ever.
GuardedTransitions ==
  [][ /\ state' = "RUNNING" => state \in {"RUNNING", "IDLE", "FAULT"}
      /\ state' = "FAULT" => state \in {"FAULT", "RUNNING"}
      /\ DownForGood => DownForGood' ]_smVars

\* "any -> IDLE (no-op from SHUTDOWN)" (StateManager.h:18), and start() throws and fault()
\* does nothing: no operation leaves SHUTDOWN.
ShutdownIsFinal == [][state # "SHUTDOWN"]_state

\* The thread has changed the state and not reported it yet.
Unreported(t) == At(t, "copyStateCb") \/ At(t, "callStateCb")

Entering(s) == {t \in Thread : Unreported(t) /\ call[t].next = s}
Leaving(s) == {t \in Thread : Unreported(t) /\ call[t].prev = s}

\* The reports may arrive in another order than the changes were made, and yet
\* they always add up: the reports made and the ones still to come form a walk
\* from IDLE to the current state.  Once no call is in progress an observer who
\* counts entries and exits knows the state, whatever the order of the signals.
ReportsAddUp ==
  silent \/ \A s \in State :
    balance[s] + Cardinality(Entering(s)) - Cardinality(Leaving(s))
      = Same(s, state) - Same(s, "IDLE")

\* What a call that has begun stands for at each of its steps: start() heads for
\* RUNNING, transition() for IDLE or SHUTDOWN, and the alarm is raised only by
\* the thread that made the RUNNING -> FAULT change itself.
CallShape ==
  \A t \in Thread :
    /\ At(t, "startCas") => call[t].next = "RUNNING" /\ ~call[t].raising
    /\ At(t, "exchange") => call[t].next \in {"IDLE", "SHUTDOWN"} /\ ~call[t].raising
    /\ At(t, "copyAlarmCb") \/ At(t, "callAlarmCb") => call[t].raising
    /\ call[t].raising => call[t].prev = "RUNNING" /\ call[t].next = "FAULT"

\* The inductive invariant: types, the shape of the calls in progress, and the
\* sum of the reports made and still to be made by them.
ManagerInv == ManagerTypeOK /\ CallShape /\ ReportsAddUp
===============================================================================
