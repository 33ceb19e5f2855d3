-------------------------- MODULE EdgeDaemonProofs --------------------------
(***************************************************************************)
(* Proofs about the StateManager and about EdgeDaemon, for any frames,     *)
(* telemetry files, ring capacity and alarm run length.  The inductive     *)
(* invariant of the daemon says what the main thread's position implies    *)
(* for the bus, the threads and the calls in progress, and contains that   *)
(* of the StateManager.                                                    *)
(***************************************************************************)
EXTENDS EdgeDaemon, FiniteSetTheorems, TLAPS

-------------------------------------------------------------------------------
(***************************************************************************)
(* The StateManager, for any finite set of calling threads: the inductive  *)
(* invariant (the reports made and still to be made add up to the current  *)
(* state) and the legality of every state change.                          *)
(***************************************************************************)

Member(x, S) == IF x \in S THEN 1 ELSE 0

\* Two finite sets that differ in t at most differ by one in size.
LEMMA CountToggle ==
  ASSUME NEW A, NEW B, NEW t, IsFiniteSet(A), B \ {t} = A \ {t}
  PROVE  /\ IsFiniteSet(B)
         /\ Cardinality(B) = Cardinality(A) + Member(t, B) - Member(t, A)
<1>1. /\ IsFiniteSet(A \ {t})
      /\ Cardinality(A) \in Nat
      /\ Cardinality(A \ {t}) = Cardinality(A) - Member(t, A)
  BY FS_RemoveElement, FS_CardinalityType DEF Member, Same
<1>2. IsFiniteSet((A \ {t}) \cup {t}) /\ Cardinality((A \ {t}) \cup {t}) = Cardinality(A \ {t}) + 1
  BY <1>1, FS_AddElement
<1>3. CASE t \in B
  <2>1. B = (A \ {t}) \cup {t}
    BY <1>3
  <2> QED
    BY <2>1, <1>1, <1>2, <1>3 DEF Member, Same
<1>4. CASE t \notin B
  <2>1. B = A \ {t}
    BY <1>4
  <2> QED
    BY <2>1, <1>1, <1>4 DEF Member, Same
<1> QED
  BY <1>3, <1>4

\* A step of thread t changes the sizes of Entering and Leaving only by t.
LEMMA CountStep ==
  ASSUME NEW t \in Thread, ManagerTypeOK, NEW c, call' = [call EXCEPT ![t] = c], NEW s \in State
  PROVE  /\ Cardinality(Entering(s)) \in Int
         /\ Cardinality(Leaving(s)) \in Int
         /\ Cardinality(Entering(s))' = Cardinality(Entering(s))
              + Member(t, Entering(s)') - Member(t, Entering(s))
         /\ Cardinality(Leaving(s))' = Cardinality(Leaving(s))
              + Member(t, Leaving(s)') - Member(t, Leaving(s))
<1>1. \A u \in Thread : u # t => call'[u] = call[u]
  BY DEF ManagerTypeOK
<1>2. Entering(s)' \ {t} = Entering(s) \ {t} /\ Leaving(s)' \ {t} = Leaving(s) \ {t}
  BY <1>1 DEF Entering, Leaving, Unreported, At
<1>3. IsFiniteSet(Entering(s)) /\ IsFiniteSet(Leaving(s))
  BY ThreadAssumption, FS_Subset DEF Entering, Leaving
<1>4. Cardinality(Entering(s)) \in Int /\ Cardinality(Leaving(s)) \in Int
  BY <1>3, FS_CardinalityType
<1>5. Cardinality(Entering(s)') = Cardinality(Entering(s))
        + Member(t, Entering(s)') - Member(t, Entering(s))
  BY <1>2, <1>3, CountToggle
<1>6. Cardinality(Leaving(s)') = Cardinality(Leaving(s))
        + Member(t, Leaving(s)') - Member(t, Leaving(s))
  BY <1>2, <1>3, CountToggle
<1> QED
  BY <1>4, <1>5, <1>6

\* What a call still owes the balance of s: nothing unless it is unreported.
Owed(c, s) ==
  IF c.at \in {"copyStateCb", "callStateCb"}
    THEN Same(c.next, s) - Same(c.prev, s) ELSE 0

\* A step of t keeps the sum when what it changes in the balance and the state
\* is what it changes in the debt of t.
LEMMA ReportStep ==
  ASSUME ManagerInv, NEW t \in Thread, NEW c, call' = [call EXCEPT ![t] = c],
         ManagerTypeOK', ~silent' => ~silent,
         ~silent' => \A s \in State :
           balance'[s] + Owed(c, s) - Same(s, state')
             = balance[s] + Owed(call[t], s) - Same(s, state)
  PROVE  ReportsAddUp'
<1> SUFFICES ASSUME ~silent', NEW s \in State
             PROVE  balance'[s] + Cardinality(Entering(s)') - Cardinality(Leaving(s)')
                      = Same(s, state') - Same(s, "IDLE")
  BY DEF ReportsAddUp
<1>1. call'[t] = c
  BY DEF ManagerInv, ManagerTypeOK
<1>2. Member(t, Entering(s)) - Member(t, Leaving(s)) = Owed(call[t], s)
  BY DEF Entering, Leaving, Unreported, At, Owed, Member, Same
<1>3. Member(t, Entering(s)') - Member(t, Leaving(s)') = Owed(c, s)
  BY <1>1 DEF Entering, Leaving, Unreported, At, Owed, Member, Same
<1>4. balance[s] \in Int /\ balance'[s] \in Int
  BY DEF ManagerInv, ManagerTypeOK
<1>5. \A r, q : Same(r, q) \in Int
  BY DEF Same
<1>6. balance[s] + Cardinality(Entering(s)) - Cardinality(Leaving(s))
        = Same(s, state) - Same(s, "IDLE")
  BY DEF ManagerInv, ReportsAddUp
<1>7. Owed(c, s) \in Int /\ Owed(call[t], s) \in Int
  BY <1>5 DEF Owed
<1>8. balance'[s] + Owed(c, s) - Same(s, state')
        = balance[s] + Owed(call[t], s) - Same(s, state)
  OBVIOUS
<1>9. /\ Cardinality(Entering(s)) \in Int
      /\ Cardinality(Leaving(s)) \in Int
      /\ Cardinality(Entering(s)') = Cardinality(Entering(s))
           + Member(t, Entering(s)') - Member(t, Entering(s))
      /\ Cardinality(Leaving(s)') = Cardinality(Leaving(s))
           + Member(t, Leaving(s)') - Member(t, Leaving(s))
  BY CountStep, Zenon DEF ManagerInv
<1>10. /\ Same(s, state) \in Int /\ Same(s, state') \in Int
       /\ Same(s, "IDLE") \in Int
       /\ Member(t, Entering(s)) \in Int /\ Member(t, Entering(s)') \in Int
       /\ Member(t, Leaving(s)) \in Int /\ Member(t, Leaving(s)') \in Int
  BY DEF Member, Same
<1> DEFINE b == balance[s]              b1 == balance'[s]
           i == Same(s, state)          i1 == Same(s, state')
           e == Cardinality(Entering(s))  e1 == Cardinality(Entering(s)')
           l == Cardinality(Leaving(s))   l1 == Cardinality(Leaving(s)')
           me == Member(t, Entering(s))   me1 == Member(t, Entering(s)')
           ml == Member(t, Leaving(s))    ml1 == Member(t, Leaving(s)')
           o == Owed(call[t], s)        o1 == Owed(c, s)
           z == Same(s, "IDLE")
<1>11. /\ b \in Int /\ b1 \in Int /\ i \in Int /\ i1 \in Int /\ z \in Int
       /\ e \in Int /\ l \in Int /\ o \in Int /\ o1 \in Int
       /\ me \in Int /\ me1 \in Int /\ ml \in Int /\ ml1 \in Int
  BY <1>4, <1>7, <1>9, <1>10, Zenon
<1>12. /\ me - ml = o /\ me1 - ml1 = o1
       /\ b + e - l = i - z
       /\ b1 + o1 - i1 = b + o - i
       /\ e1 = e + me1 - me /\ l1 = l + ml1 - ml
  BY <1>2, <1>3, <1>6, <1>8, <1>9
<1> HIDE DEF b, b1, i, i1, e, e1, l, l1, me, me1, ml, ml1, o, o1, z
<1>13. b1 + e1 - l1 = i1 - z
  BY <1>11, <1>12
<1> QED
  BY <1>13 DEF b1, e1, l1, i1, z

\* The invariant of the StateManager holds when it is built.
LEMMA InitManager == ManagerInit => ManagerInv
<1> SUFFICES ASSUME ManagerInit PROVE ManagerInv
  OBVIOUS
<1>1. ManagerTypeOK
  <2>1. stateCb \in BOOLEAN /\ alarmCb \in BOOLEAN /\ silent \in BOOLEAN
    BY Zenon DEF ManagerInit
  <2>2. call \in [Thread -> Call \cup {NoCall}] /\ balance \in [State -> Int] /\ state \in State
    BY DEF ManagerInit, State
  <2> QED
    BY <2>1, <2>2 DEF ManagerTypeOK
<1>2. CallShape
  BY DEF ManagerInit, CallShape, At, NoCall
<1>3. \A s \in State : Entering(s) = {} /\ Leaving(s) = {}
  BY DEF ManagerInit, Entering, Leaving, Unreported, At, NoCall
<1>4. ReportsAddUp
  BY <1>3, FS_EmptySet DEF ReportsAddUp, ManagerInit, Member, Same
<1> QED
  BY <1>1, <1>2, <1>4 DEF ManagerInv

\* A step of one thread, action by action: the call it leaves the thread in
\* keeps its type and shape, and its debt changes as the balance and state do.
LEMMA ThreadStep ==
  ASSUME ManagerInv, NEW t \in Thread,
         Start(t) \/ Halt(t) \/ Shutdown(t) \/ Fault(t) \/ Continue(t)
  PROVE  ManagerInv'
<1> USE DEF ManagerInv, ManagerTypeOK
<1>a. call[t] \in Call \cup {NoCall} /\ state \in State
  OBVIOUS
<1>b. call[t].at # "none" => call[t] \in Call
  BY <1>a DEF NoCall
<1>1. CASE Start(t)
  <2> DEFINE c == [at |-> "startCas", prev |-> state, next |-> "RUNNING", raising |-> FALSE]
  <2>1. call' = [call EXCEPT ![t] = c] /\ UNCHANGED <<state, stateCb, alarmCb, balance, silent>>
    BY <1>1 DEF Start, Enter
  <2>2. c \in Call \cup {NoCall}
    BY <1>1, <1>a, <1>b DEF Call, State, Start, At
  <2>3. ManagerTypeOK'
    BY <2>1, <2>2
  <2>4. CallShape'
    BY <1>1, <1>b, <2>1 DEF CallShape, NoCall, Call, Start, At
  <2>5. \A s \in State : Owed(c, s) = 0 /\ Owed(call[t], s) = 0
    BY <1>1, <1>b DEF Owed, NoCall, Call, Start, At
  <2> QED
    BY <2>1, <2>3, <2>4, <2>5, ReportStep, ZenonT(60)
<1>2. CASE Halt(t)
  <2> DEFINE c == [at |-> "exchange", prev |-> "IDLE", next |-> "IDLE", raising |-> FALSE]
  <2>1. call' = [call EXCEPT ![t] = c] /\ UNCHANGED <<state, stateCb, alarmCb, balance, silent>>
    BY <1>2 DEF Halt, Enter
  <2>2. c \in Call \cup {NoCall}
    BY <1>2, <1>a, <1>b DEF Call, State, Halt, At
  <2>3. ManagerTypeOK'
    BY <2>1, <2>2
  <2>4. CallShape'
    BY <1>2, <1>b, <2>1 DEF CallShape, NoCall, Call, Halt, At
  <2>5. \A s \in State : Owed(c, s) = 0 /\ Owed(call[t], s) = 0
    BY <1>2, <1>b DEF Owed, NoCall, Call, Halt, At
  <2> QED
    BY <2>1, <2>3, <2>4, <2>5, ReportStep, ZenonT(60)
<1>3. CASE Shutdown(t)
  <2> DEFINE c == [at |-> "exchange", prev |-> "IDLE", next |-> "SHUTDOWN", raising |-> FALSE]
  <2>1. call' = [call EXCEPT ![t] = c] /\ UNCHANGED <<state, stateCb, alarmCb, balance, silent>>
    BY <1>3 DEF Shutdown, Enter
  <2>2. c \in Call \cup {NoCall}
    BY <1>3, <1>a, <1>b DEF Call, State, Shutdown, At
  <2>3. ManagerTypeOK'
    BY <2>1, <2>2
  <2>4. CallShape'
    BY <1>3, <1>b, <2>1 DEF CallShape, NoCall, Call, Shutdown, At
  <2>5. \A s \in State : Owed(c, s) = 0 /\ Owed(call[t], s) = 0
    BY <1>3, <1>b DEF Owed, NoCall, Call, Shutdown, At
  <2> QED
    BY <2>1, <2>3, <2>4, <2>5, ReportStep, ZenonT(60)
<1>4. CASE StartThrow(t)
  <2> DEFINE c == NoCall
  <2>1. call' = [call EXCEPT ![t] = c] /\ UNCHANGED <<state, stateCb, alarmCb, balance, silent>>
    BY <1>4 DEF StartThrow, Return
  <2>2. c \in Call \cup {NoCall}
    BY <1>4, <1>a, <1>b DEF Call, State, StartThrow, At
  <2>3. ManagerTypeOK'
    BY <2>1, <2>2, Zenon
  <2>4. CallShape'
    BY <1>4, <1>b, <2>1, Zenon DEF CallShape, NoCall, Call, StartThrow, At
  <2>5. \A s \in State : Owed(c, s) = 0 /\ Owed(call[t], s) = 0
    BY <1>4, <1>b DEF Owed, NoCall, Call, StartThrow, At
  <2> QED
    BY <2>1, <2>3, <2>4, <2>5, ReportStep, ZenonT(60)
<1>5. CASE StartRetry(t)
  <2> DEFINE c == [call[t] EXCEPT !.prev = state]
  <2>1. call' = [call EXCEPT ![t] = c] /\ UNCHANGED <<state, stateCb, alarmCb, balance, silent>>
    BY <1>5 DEF StartRetry
  <2>2. c \in Call \cup {NoCall}
    BY <1>5, <1>a, <1>b DEF Call, State, StartRetry, At
  <2>3. ManagerTypeOK'
    BY <2>1, <2>2
  <2>4. CallShape'
    BY <1>5, <1>b, <2>1 DEF CallShape, NoCall, Call, StartRetry, At
  <2>5. \A s \in State : Owed(c, s) = 0 /\ Owed(call[t], s) = 0
    BY <1>5, <1>b DEF Owed, NoCall, Call, StartRetry, At
  <2> QED
    BY <2>1, <2>3, <2>4, <2>5, ReportStep, ZenonT(60)
<1>6. CASE CopyAlarmCb(t) /\ alarmCb
  <2> DEFINE c == [call[t] EXCEPT !.at = "callAlarmCb"]
  <2>1. call' = [call EXCEPT ![t] = c] /\ UNCHANGED <<state, stateCb, alarmCb, balance, silent>>
    BY <1>6 DEF CopyAlarmCb, Goto
  <2>2. c \in Call \cup {NoCall}
    BY <1>6, <1>a, <1>b DEF Call, State, CopyAlarmCb, At
  <2>3. ManagerTypeOK'
    BY <2>1, <2>2
  <2>4. CallShape'
    BY <1>6, <1>b, <2>1 DEF CallShape, NoCall, Call, CopyAlarmCb, At
  <2>5. \A s \in State : Owed(c, s) = 0 /\ Owed(call[t], s) = 0
    BY <1>6, <1>b DEF Owed, NoCall, Call, CopyAlarmCb, At
  <2> QED
    BY <2>1, <2>3, <2>4, <2>5, ReportStep, ZenonT(60)
<1>7. CASE CopyAlarmCb(t) /\ ~alarmCb
  <2> DEFINE c == NoCall
  <2>1. call' = [call EXCEPT ![t] = c] /\ UNCHANGED <<state, stateCb, alarmCb, balance, silent>>
    BY <1>7 DEF CopyAlarmCb, Return
  <2>2. c \in Call \cup {NoCall}
    BY <1>7, <1>a, <1>b DEF Call, State, CopyAlarmCb, At
  <2>3. ManagerTypeOK'
    BY <2>1, <2>2, Zenon
  <2>4. CallShape'
    BY <1>7, <1>b, <2>1, Zenon DEF CallShape, NoCall, Call, CopyAlarmCb, At
  <2>5. \A s \in State : Owed(c, s) = 0 /\ Owed(call[t], s) = 0
    BY <1>7, <1>b DEF Owed, NoCall, Call, CopyAlarmCb, At
  <2> QED
    BY <2>1, <2>3, <2>4, <2>5, ReportStep, ZenonT(60)
<1>8. CASE CallAlarmCb(t)
  <2> DEFINE c == NoCall
  <2>1. call' = [call EXCEPT ![t] = c] /\ UNCHANGED <<state, stateCb, alarmCb, balance, silent>>
    BY <1>8 DEF CallAlarmCb, Return
  <2>2. c \in Call \cup {NoCall}
    BY <1>8, <1>a, <1>b DEF Call, State, CallAlarmCb, At
  <2>3. ManagerTypeOK'
    BY <2>1, <2>2, Zenon
  <2>4. CallShape'
    BY <1>8, <1>b, <2>1, Zenon DEF CallShape, NoCall, Call, CallAlarmCb, At
  <2>5. \A s \in State : Owed(c, s) = 0 /\ Owed(call[t], s) = 0
    BY <1>8, <1>b DEF Owed, NoCall, Call, CallAlarmCb, At
  <2> QED
    BY <2>1, <2>3, <2>4, <2>5, ReportStep, ZenonT(60)
<1>9. CASE StartCas(t)
  <2> DEFINE c == [call[t] EXCEPT !.at = "copyStateCb"]
  <2>1. call' = [call EXCEPT ![t] = c] /\ state' = "RUNNING" /\ UNCHANGED <<stateCb, alarmCb, balance, silent>>
    BY <1>9 DEF StartCas, Goto
  <2>2. c \in Call \cup {NoCall} /\ state' \in State
    BY <1>9, <1>a, <1>b, <2>1 DEF Call, State, StartCas, At
  <2>3. ManagerTypeOK'
    BY <2>1, <2>2
  <2>4. CallShape'
    BY <1>9, <1>b, <2>1, Zenon DEF CallShape, Call, StartCas, At
  <2>5. \A s \in State : Owed(c, s) = Same(s, state') - Same(s, state) /\ Owed(call[t], s) = 0
    BY <1>9, <1>b, <2>1, Zenon DEF Owed, Same, CallShape, Call, StartCas, At
  <2>6. \A s \in State : balance[s] \in Int /\ Same(s, state) \in Int /\ Same(s, state') \in Int
    BY DEF Same
  <2>7. \A s \in State : balance'[s] + Owed(c, s) - Same(s, state')
                            = balance[s] + Owed(call[t], s) - Same(s, state)
    BY <2>1, <2>5, <2>6
  <2> QED
    BY <2>1, <2>3, <2>4, <2>7, ReportStep, ZenonT(60)
<1>10. CASE Exchange(t)
  <2> DEFINE c == [call[t] EXCEPT !.at = "copyStateCb", !.prev = state]
  <2>1. call' = [call EXCEPT ![t] = c] /\ state' = call[t].next /\ UNCHANGED <<stateCb, alarmCb, balance, silent>>
    BY <1>10 DEF Exchange
  <2>2. c \in Call \cup {NoCall} /\ state' \in State
    BY <1>10, <1>a, <1>b, <2>1, Zenon DEF Call, State, Exchange, At
  <2>3. ManagerTypeOK'
    BY <2>1, <2>2
  <2>4. CallShape'
    BY <1>10, <1>b, <2>1 DEF CallShape, Call, Exchange, At
  <2>5. \A s \in State : Owed(c, s) = Same(s, state') - Same(s, state) /\ Owed(call[t], s) = 0
    BY <1>10, <1>b, <2>1, Zenon DEF Owed, Same, CallShape, Call, Exchange, At
  <2>6. \A s \in State : balance[s] \in Int /\ Same(s, state) \in Int /\ Same(s, state') \in Int
    BY DEF Same
  <2>7. \A s \in State : balance'[s] + Owed(c, s) - Same(s, state')
                            = balance[s] + Owed(call[t], s) - Same(s, state)
    BY <2>1, <2>5, <2>6
  <2> QED
    BY <2>1, <2>3, <2>4, <2>7, ReportStep, ZenonT(60)
<1>11. CASE Fault(t)
  <2> DEFINE c == [at |-> "copyStateCb", prev |-> "RUNNING", next |-> "FAULT", raising |-> TRUE]
  <2>1. call' = [call EXCEPT ![t] = c] /\ state' = "FAULT" /\ UNCHANGED <<stateCb, alarmCb, balance, silent>>
    BY <1>11 DEF Fault
  <2>2. c \in Call \cup {NoCall} /\ state' \in State
    BY <1>11, <1>a, <1>b, <2>1, Zenon DEF Call, State, Fault, At
  <2>3. ManagerTypeOK'
    BY <2>1, <2>2, Zenon
  <2>4. CallShape'
    BY <1>11, <1>b, <2>1 DEF CallShape, Call, Fault, At
  <2>5. \A s \in State : Owed(c, s) = Same(s, state') - Same(s, state) /\ Owed(call[t], s) = 0
    BY <1>11, <1>b, <2>1, Zenon DEF Owed, Same, CallShape, Call, Fault, At
  <2>6. \A s \in State : balance[s] \in Int /\ Same(s, state) \in Int /\ Same(s, state') \in Int
    BY DEF Same
  <2>7. \A s \in State : balance'[s] + Owed(c, s) - Same(s, state')
                            = balance[s] + Owed(call[t], s) - Same(s, state)
    BY <2>1, <2>5, <2>6
  <2> QED
    BY <2>1, <2>3, <2>4, <2>7, ReportStep, ZenonT(60)
<1>12. CASE CopyStateCb(t)
  <2> DEFINE c == IF stateCb THEN [call[t] EXCEPT !.at = "callStateCb"]
                  ELSE IF call[t].raising THEN [call[t] EXCEPT !.at = "copyAlarmCb"]
                  ELSE NoCall
  <2>1. /\ call' = [call EXCEPT ![t] = c]
        /\ balance' = [s \in State |-> IF stateCb THEN balance[s] ELSE 0]
        /\ UNCHANGED <<state, stateCb, alarmCb>>
    BY <1>12 DEF CopyStateCb, Goto, Reported, Return
  <2>2. silent' \in BOOLEAN /\ (~silent' => ~silent /\ stateCb)
    BY <1>12, Zenon DEF CopyStateCb
  <2>3. c \in Call \cup {NoCall}
    BY <1>12, <1>b DEF CopyStateCb, Call, At
  <2>4. balance' \in [State -> Int]
    BY <2>1
  <2>5. ManagerTypeOK'
    BY <2>1, <2>2, <2>3, <2>4, Zenon
  <2>6. CallShape'
    BY <1>12, <1>b, <2>1, Zenon DEF CallShape, CopyStateCb, NoCall, Call, At
  <2>7. stateCb => \A s \in State : Owed(c, s) = Owed(call[t], s)
    BY <1>12, <1>b DEF CopyStateCb, Owed, Call, At
  <2>8. stateCb => \A s \in State : balance'[s] = balance[s]
    BY <2>1
  <2> HIDE DEF c
  <2>9. ~silent' => \A s \in State : balance'[s] + Owed(c, s) - Same(s, state')
                                       = balance[s] + Owed(call[t], s) - Same(s, state)
    BY <2>1, <2>2, <2>7, <2>8
  <2> HIDE DEF ManagerInv, ManagerTypeOK
  <2>10. ReportsAddUp'
    BY <2>1, <2>2, <2>5, <2>9, ReportStep, ZenonT(60)
  <2> QED
    BY <2>5, <2>6, <2>10 DEF ManagerInv
<1>13. CASE CallStateCb(t)
  <2> DEFINE c == IF call[t].raising THEN [call[t] EXCEPT !.at = "copyAlarmCb"] ELSE NoCall
  <2>1. /\ call' = [call EXCEPT ![t] = c]
        /\ balance' = [s \in State |-> IF silent THEN balance[s]
                                          ELSE balance[s] + Same(s, call[t].next)
                                                          - Same(s, call[t].prev)]
        /\ UNCHANGED <<state, stateCb, alarmCb, silent>>
    BY <1>13 DEF CallStateCb, Goto, Reported, Return
  <2>2. \A s, r : Same(s, r) \in Int
    BY DEF Same
  <2>3. balance' \in [State -> Int]
    BY <2>1, <2>2
  <2>4. c \in Call \cup {NoCall}
    BY <1>13, <1>b DEF CallStateCb, Call, At
  <2>5. ManagerTypeOK'
    BY <2>1, <2>3, <2>4, Zenon
  <2>6. CallShape'
    BY <1>13, <1>b, <2>1, Zenon DEF CallShape, CallStateCb, NoCall, Call, At
  <2>7. \A s \in State : Owed(call[t], s) = Same(s, call[t].next) - Same(s, call[t].prev)
    BY <1>13 DEF Owed, Same, CallStateCb, At
  <2>8. \A s \in State : Owed(c, s) = 0
    BY DEF Owed, NoCall, Call
  <2> HIDE DEF c
  <2>9. ~silent => \A s \in State : balance'[s] = balance[s] + Owed(call[t], s)
    BY <2>1, <2>2, <2>7, Zenon
  <2>10. ~silent' => \A s \in State : balance'[s] + Owed(c, s) - Same(s, state')
                                           = balance[s] + Owed(call[t], s) - Same(s, state)
    <3> SUFFICES ASSUME ~silent, NEW s \in State
                 PROVE  balance'[s] + 0 - Same(s, state) = balance[s] + Owed(call[t], s) - Same(s, state)
      BY <2>1, <2>8, Zenon
    <3>1. balance'[s] = balance[s] + Owed(call[t], s)
      BY <2>9, Zenon
    <3>2. balance[s] \in Int /\ Same(s, state) \in Int /\ Owed(call[t], s) \in Int
      BY <2>2, <2>7
    <3> HIDE DEF ManagerInv, ManagerTypeOK
    <3> QED
      BY <3>1, <3>2
  <2>11. ~silent' => ~silent
    BY <2>1
  <2> HIDE DEF ManagerInv, ManagerTypeOK
  <2>12. ReportsAddUp'
    BY <2>1, <2>5, <2>10, <2>11, ReportStep, ZenonT(60)
  <2> QED
    BY <2>5, <2>6, <2>12 DEF ManagerInv
<1> QED
  BY <1>1, <1>2, <1>3, <1>4, <1>5, <1>6, <1>7, <1>8, <1>9, <1>10, <1>11, <1>12, <1>13, Zenon
     DEF Continue

\* Every step of a call keeps it.
LEMMA ManagerStep == ManagerInv /\ [ManagerNext]_smVars => ManagerInv'
<1> SUFFICES ASSUME ManagerInv, [ManagerNext]_smVars PROVE ManagerInv'
  OBVIOUS
<1>1. ASSUME NEW b \in BOOLEAN, SetStateChangedCallback(b) \/ SetAlarmCallback(b)
      PROVE  ManagerInv'
  <2>1. UNCHANGED <<state, call, balance, silent>>
    BY <1>1 DEF SetStateChangedCallback, SetAlarmCallback
  <2>2. stateCb' \in BOOLEAN /\ alarmCb' \in BOOLEAN
    BY <1>1, Zenon DEF SetStateChangedCallback, SetAlarmCallback, ManagerInv, ManagerTypeOK
  <2> QED
    BY <2>1, <2>2 DEF ManagerInv, ManagerTypeOK, CallShape, ReportsAddUp, Entering, Leaving, Unreported, At
<1>2. CASE UNCHANGED smVars
  BY <1>2 DEF smVars, ManagerInv, ManagerTypeOK, CallShape, ReportsAddUp, Entering, Leaving, Unreported, At
<1> QED
  BY <1>1, <1>2, ThreadStep DEF ManagerNext

\* In every execution, for any finite set of threads calling start(), halt(),
\* fault() and shutdown() at once, the invariant holds.
THEOREM ManagerInvariance == ManagerSpec => []ManagerInv
  BY InitManager, ManagerStep, PTL DEF ManagerSpec

\* The state reports made and still to be made by transition(), start() and
\* fault() always add up to the path from IDLE to the current state.
THEOREM ReportsConsistent == ManagerSpec => []ReportsAddUp
  BY ManagerInvariance, PTL DEF ManagerInv

\* What a call may turn into when the daemon is down for good: not a halt() about to exchange.
LEMMA StaysDown ==
  ASSUME ManagerInv, DownForGood, NEW t \in Thread, NEW c,
         call' = [call EXCEPT ![t] = c], state' = "SHUTDOWN",
         ~(c.at = "exchange" /\ c.next = "IDLE")
  PROVE  DownForGood'
<1>1. \A u \in Thread : call'[u] = IF u = t THEN c ELSE call[u]
  BY Zenon DEF ManagerInv, ManagerTypeOK
<1> QED
  BY <1>1, Zenon DEF DownForGood, At

\* RUNNING and FAULT are entered only from where start() and fault() may enter them, and a
\* shutdown() is final once no halt() is between its test and its exchange: for any finite
\* set of threads.
THEOREM TransitionsAreGuarded == ManagerSpec => GuardedTransitions
<1> DEFINE Guarded == /\ state' = "RUNNING" => state \in {"RUNNING", "IDLE", "FAULT"}
                      /\ state' = "FAULT" => state \in {"FAULT", "RUNNING"}
                      /\ DownForGood => DownForGood'
<1>1. ManagerInv /\ [ManagerNext]_smVars => [Guarded]_smVars
  <2> SUFFICES ASSUME ManagerInv, ManagerNext PROVE Guarded
    BY DEF smVars
  <2>0. state \in State
    BY DEF ManagerInv, ManagerTypeOK
  <2>1. ASSUME NEW b \in BOOLEAN, SetStateChangedCallback(b) \/ SetAlarmCallback(b)
        PROVE  Guarded
    BY <2>0, <2>1 DEF SetStateChangedCallback, SetAlarmCallback, DownForGood, At
  <2>2. ASSUME NEW t \in Thread, Start(t) \/ Halt(t) \/ Shutdown(t) \/ Fault(t) \/ Continue(t)
        PROVE  Guarded
    <3>0. call[t] \in Call \cup {NoCall} /\ call \in [Thread -> Call \cup {NoCall}]
      BY Zenon DEF ManagerInv, ManagerTypeOK
    <3>1. CASE Start(t)
      BY <2>0, <3>1, StaysDown DEF Start, Enter, DownForGood
    <3>2. CASE Halt(t)
      BY <2>0, <3>2 DEF Halt, DownForGood
    <3>3. CASE Shutdown(t)
      BY <2>0, <3>3, StaysDown DEF Shutdown, Enter, DownForGood
    <3>4. CASE Fault(t)
      BY <3>4, Zenon DEF Fault, DownForGood
    <3>5. CASE StartThrow(t)
      BY <2>0, <3>5, StaysDown DEF StartThrow, Return, NoCall, DownForGood
    <3>6. CASE StartCas(t)
      BY <2>0, <3>6 DEF StartCas, DownForGood, State
    <3>7. CASE StartRetry(t)
      <4> DEFINE c == [call[t] EXCEPT !.prev = state]
      <4>1. UNCHANGED state /\ call' = [call EXCEPT ![t] = c]
        BY <3>7, Zenon DEF StartRetry
      <4>2. c.at = "startCas"
        BY <3>0, <3>7 DEF StartRetry, At, Call, NoCall
      <4> HIDE DEF c
      <4> QED
        BY <2>0, <4>1, <4>2, StaysDown DEF DownForGood
    <3>8. CASE Exchange(t)
      <4> DEFINE c == [call[t] EXCEPT !.at = "copyStateCb", !.prev = state]
      <4>1. state' = call[t].next /\ call' = [call EXCEPT ![t] = c]
        BY <3>8, Zenon DEF Exchange
      <4>2. c.at = "copyStateCb"
        BY <3>0, <3>8 DEF Exchange, At, Call, NoCall
      <4>3. call[t].next \in {"IDLE", "SHUTDOWN"}
        BY <3>8, Zenon DEF Exchange, ManagerInv, CallShape
      <4>4. DownForGood => call[t].next # "IDLE"
        BY <3>8, Zenon DEF Exchange, DownForGood
      <4> HIDE DEF c
      <4> QED
        BY <4>1, <4>2, <4>3, <4>4, StaysDown
    <3>9. CASE CopyStateCb(t) \/ CallStateCb(t) \/ CopyAlarmCb(t) \/ CallAlarmCb(t)
      <4>1. PICK c \in {[call[t] EXCEPT !.at = l] : l \in {"callStateCb", "copyAlarmCb", "callAlarmCb"}}
                       \cup {NoCall} :
              call' = [call EXCEPT ![t] = c]
        BY <3>9 DEF CopyStateCb, CallStateCb, CopyAlarmCb, CallAlarmCb, Reported, Goto, Return
      <4>2. c.at # "exchange"
        BY <3>0, <3>9 DEF CopyStateCb, CallStateCb, CopyAlarmCb, CallAlarmCb, At, Call, NoCall
      <4>3. UNCHANGED state
        BY <3>9 DEF CopyStateCb, CallStateCb, CopyAlarmCb, CallAlarmCb
      <4> QED
        BY <2>0, <4>1, <4>2, <4>3, StaysDown DEF DownForGood
    <3> QED
      BY <2>2, <3>1, <3>2, <3>3, <3>4, <3>5, <3>6, <3>7, <3>8, <3>9, Zenon DEF Continue
  <2> QED
    BY <2>1, <2>2, Zenon DEF ManagerNext
<1> QED
  BY <1>1, ManagerInvariance, PTL DEF ManagerSpec, GuardedTransitions

-------------------------------------------------------------------------------
(* What a step does to each component *)

\* What a step may do to each component.
LEMMA StepEffect ==
  Next => /\ ManagerNext \/ UNCHANGED smVars
          /\ PopAndProcess \/ UNCHANGED run
          /\ UNCHANGED path
          /\ UNCHANGED line \/ \E f : Read(f)
<1> SUFFICES ASSUME Next
             PROVE  /\ ManagerNext \/ UNCHANGED smVars
                    /\ PopAndProcess \/ UNCHANGED run
                    /\ UNCHANGED path
                    /\ UNCHANGED line \/ \E f : Read(f)
  OBVIOUS
<1> USE CallerAssumption DEF ManagerNext
<1>1. CASE Signal \/ HeadVisible \/ Terminated
  BY <1>1 DEF Signal, HeadVisible, Terminated, vars
<1>2. CASE MainStep
  BY <1>2, Zenon DEF MainStep, SetStateCb, SetAlarmCb, BusStartFails, BusStart, SpawnProducer,
              MainTestQuit, PopNothing, PopAndProcess, RaiseFault, StopProducer, JoinProducer,
              ShutDown, ClearStateCb, ClearAlarmCb, BusStop, JoinWorker, CloseBus, MainCall
<1>3. CASE ProducerStep
  BY <1>3, Zenon DEF ProducerStep, ProducerTest, ProducerReadsNothing, ProducerPush, ProducerDrop
<1>4. CASE WorkerStep
  BY <1>4, Zenon DEF WorkerStep, WorkerTest, WorkerIdle, MethodStart, MethodHalt, WorkerCall
<1> QED
  BY <1>1, <1>2, <1>3, <1>4 DEF Next

\* What the rest of a call leaves alone, and when it goes unreported.
LEMMA ContinueEffect ==
  ASSUME ManagerInv, NEW t \in {"main", "worker"}, Continue(t)
  PROVE  /\ ~At(t, "none")
         /\ \A u \in {"main", "worker"} : u # t => call'[u] = call[u]
         /\ UNCHANGED <<stateCb, alarmCb>>
         /\ silent' => silent \/ ~stateCb
<1> USE CallerAssumption DEF ManagerInv, ManagerTypeOK, At, Goto, Return, Reported
<1>1. CASE StartThrow(t)
  BY <1>1 DEF StartThrow
<1>2. CASE StartCas(t)
  BY <1>2 DEF StartCas
<1>3. CASE StartRetry(t)
  BY <1>3 DEF StartRetry
<1>4. CASE Exchange(t)
  BY <1>4 DEF Exchange
<1>5. CASE CopyStateCb(t)
  BY <1>5 DEF CopyStateCb
<1>6. CASE CallStateCb(t)
  BY <1>6 DEF CallStateCb
<1>7. CASE CopyAlarmCb(t)
  BY <1>7 DEF CopyAlarmCb
<1>8. CASE CallAlarmCb(t)
  BY <1>8 DEF CallAlarmCb
<1> QED
  BY <1>1, <1>2, <1>3, <1>4, <1>5, <1>6, <1>7, <1>8, Zenon DEF Continue

\* A telemetry file has a length.
LEMMA FileLength ==
  ASSUME file \in Files \cup {<<>>}
  PROVE  Len(file) \in Nat
<1> DEFINE Text == Frame \cup {"comment", "garbage"}
<1>1. Files \subseteq Seq(Text)
  BY SourceAssumption
<1> HIDE DEF Text
<1>2. CASE file = <<>>
  BY <1>2
<1>3. CASE file \in Files
  <2>1. file \in Seq(Text)
    BY <1>1, <1>3
  <2> QED
    BY <2>1
<1> QED
  BY <1>2, <1>3

\* A set of natural numbers that is not empty has a least element.
LEMMA Least ==
  ASSUME NEW T \in SUBSET Nat, T # {}
  PROVE  \E x \in T : \A y \in T : x <= y
<1> DEFINE R == {ss \in Nat \X Nat : ss[1] < ss[2]}
<1>1. IsWellFoundedOn(R, Nat)
  BY NatLessThanWellFounded DEF OpToRel
<1>2. \A x, y \in Nat : x < y => <<x, y>> \in R
  OBVIOUS
<1> HIDE DEF R
<1>3. PICK x \in T : \A y \in T : ~ (<<y, x>> \in R)
  BY <1>1, WFMin, Zenon
<1>4. ASSUME NEW y \in T PROVE x <= y
  <2>1. ~(y < x)
    BY <1>2, <1>3, Zenon
  <2> QED
    BY <2>1
<1> QED
  BY <1>4

\* A read leaves the cursor inside the file.
LEMMA ReadInFile ==
  ASSUME TypeOK, NEW f, Read(f)
  PROVE  line' \in 0 .. Len(file)
<1>1. Len(file) \in Nat /\ line \in Nat
  <2>1. file \in Files \cup {<<>>} /\ line \in 0 .. Len(file)
    BY DEF TypeOK
  <2> QED
    BY <2>1, FileLength
<1>2. ASSUME NEW l \in Nat PROVE Fetch(l) \in 0 .. Len(file)
  <2> DEFINE Lines == {i \in l + 1 .. Len(file) : file[i] # "comment"}
  <2>1. CASE Lines = {}
    BY <2>1, <1>1 DEF Fetch
  <2>2. CASE Lines # {}
    <3>1. Lines \in SUBSET Nat
      BY <1>1
    <3>2. \E i \in Lines : \A j \in Lines : i <= j
      BY <3>1, <2>2, Least, Zenon
    <3>3. Fetch(l) \in Lines
      BY <2>2, <3>2, Zenon DEF Fetch
    <3> QED
      BY <3>3, <1>1
  <2> QED
    BY <2>1, <2>2
<1>3. FetchLooping \in 0 .. Len(file)
  BY <1>1, <1>2 DEF FetchLooping
<1> QED
  BY <1>1, <1>3 DEF Read, FileRead, SimulatedRead, TypeOK

\* Every step is one of the channel, or leaves it alone.
LEMMA StepOfChannel == IInv /\ Next => RX!Next \/ UNCHANGED rxVars
<1> SUFFICES ASSUME IInv, Next PROVE RX!Next \/ UNCHANGED rxVars
  BY SMTT(30)
<1>1. CASE Signal \/ MainStep
  BY <1>1, Zenon DEF MainStep, Signal, SetStateCb, SetAlarmCb, BusStartFails, BusStart, SpawnProducer,
              MainTestQuit, PopNothing, PopAndProcess, RaiseFault, StopProducer, JoinProducer,
              ShutDown, ClearStateCb, ClearAlarmCb, BusStop, JoinWorker, CloseBus, MainCall,
              RX!Next
<1>2. CASE ProducerStep
  BY <1>2 DEF ProducerStep, ProducerTest, ProducerReadsNothing, ProducerPush, ProducerDrop, RX!Next
<1>3. CASE HeadVisible
  <2>1. vacated \in Nat
    BY Zenon DEF IInv, TypeOK
  <2> QED
    BY <1>3, <2>1 DEF HeadVisible, RX!Next, RX!Notice
<1>4. CASE WorkerStep \/ Terminated
  BY <1>4 DEF WorkerStep, WorkerTest, WorkerIdle, MethodStart, MethodHalt, WorkerCall,
              Terminated, vars
<1> QED
  BY <1>1, <1>2, <1>3, <1>4, Zenon DEF Next

\* The channel keeps the types and the capacity.
LEMMA ChannelTypes ==
  ASSUME queue \in Seq(Frame), vacated \in Nat, Len(queue) + vacated <= Room,
         delivered \in Frame \cup {NoFrame}, RX!Next
  PROVE  /\ queue' \in Seq(Frame) /\ vacated' \in Nat /\ Len(queue') + vacated' <= Room
         /\ delivered' \in Frame \cup {NoFrame}
<1> USE SizeAssumption
<1>1. CASE RX!Notice
  BY <1>1 DEF RX!Notice
<1>2. ASSUME NEW f \in Frame, RX!Accept(f)
      PROVE  /\ queue' \in Seq(Frame) /\ vacated' \in Nat /\ Len(queue') + vacated' <= Room
             /\ delivered' \in Frame \cup {NoFrame}
  BY <1>2 DEF RX!Accept
<1>3. CASE RX!Refuse
  BY <1>3 DEF RX!Refuse
<1>4. CASE RX!Deliver
  <2>1. queue' \in Seq(Frame) /\ Len(queue') = Len(queue) - 1 /\ Head(queue) \in Frame
    BY <1>4 DEF RX!Deliver
  <2> QED
    BY <1>4, <2>1 DEF RX!Deliver
<1> QED
  BY <1>1, <1>2, <1>3, <1>4, Zenon DEF RX!Next

-------------------------------------------------------------------------------
(* The threads and the types *)

\* The types of the flags and of the positions.
Control ==
  /\ bus \in {"null", "open"} /\ running \in BOOLEAN /\ workerStop \in BOOLEAN
  /\ quit \in BOOLEAN /\ producerStop \in BOOLEAN
  /\ mainAt \in MainSteps
  /\ producerAt \in {"none", "test", "read", "done"}
  /\ workerAt \in {"none", "test", "process", "done"}

\* Each step keeps what the main thread's position says of the other threads.
LEMMA NextControl == IInv /\ [Next]_vars => Control' /\ Lifecycle'
<1> SUFFICES ASSUME IInv, [Next]_vars PROVE Control' /\ Lifecycle'
  OBVIOUS
<1>1. Control /\ Lifecycle /\ stateCb \in BOOLEAN /\ silent \in BOOLEAN
  BY DEF IInv, TypeOK, Control, ManagerTypeOK
<1>2. {"main", "worker"} \subseteq DOMAIN call
  BY CallerAssumption DEF IInv, TypeOK, ManagerTypeOK
<1> DEFINE Rest == UNCHANGED <<bus, running, workerStop, producerStop, mainAt, producerAt>>
<1>3. ASSUME Rest, UNCHANGED workerAt \/ workerAt' = "test", quit' \in BOOLEAN
      PROVE  Control'
  BY <1>1, <1>3, Zenon DEF Control
<1>21. CASE MainCall
  <2>1. Rest /\ UNCHANGED <<workerAt, quit>> /\ Continue("main")
    BY <1>21 DEF MainCall, busVars
  <2>2. /\ ~At("main", "none") /\ call'["worker"] = call["worker"] /\ UNCHANGED stateCb
        /\ silent' => silent \/ ~stateCb
    BY <2>1, ContinueEffect, Zenon DEF IInv
  <2>3. Lifecycle'
    BY <1>1, <2>1, <2>2, Zenon DEF Lifecycle, At, Cleared
  <2> QED
    BY <1>1, <1>3, <2>1, <2>3, Zenon DEF Control
<1>31. CASE WorkerCall
  <2>1. Rest /\ UNCHANGED <<workerAt, quit>> /\ Continue("worker")
    BY <1>31, Zenon DEF WorkerCall, busVars
  <2>2. /\ ~At("worker", "none") /\ call'["main"] = call["main"] /\ UNCHANGED stateCb
        /\ silent' => silent \/ ~stateCb
    BY <2>1, ContinueEffect, Zenon DEF IInv
  <2>3. Lifecycle'
    BY <1>1, <2>1, <2>2, Zenon DEF Lifecycle, At, Cleared
  <2> QED
    BY <1>1, <1>3, <2>1, <2>3, Zenon DEF Control
<1>28. CASE WorkerIdle \/ MethodStart \/ MethodHalt
  <2>1. /\ Rest /\ UNCHANGED <<quit, stateCb, silent>>
        /\ workerAt = "process" /\ workerAt' = "test" /\ call'["main"] = call["main"]
    BY <1>2, <1>28, Zenon DEF WorkerIdle, MethodStart, MethodHalt, WorkerIs, Start, Halt, Enter, smVars, busVars
  <2>2. Lifecycle'
    BY <1>1, <2>1 DEF Lifecycle, At, Cleared
  <2> QED
    BY <1>1, <1>3, <2>1, <2>2, Zenon DEF Control
<1>32. CASE Signal \/ HeadVisible \/ UNCHANGED vars
  <2>1. Rest /\ UNCHANGED <<workerAt, call, stateCb, silent>> /\ quit' \in BOOLEAN
    BY <1>1, <1>32, Zenon DEF Signal, HeadVisible, vars, smVars, busVars, Control
  <2>2. Lifecycle'
    BY <1>1, <2>1, Zenon DEF Lifecycle, At
  <2> QED
    BY <1>3, <2>1, <2>2
<1>24. CASE ProducerStep
  <2>1. /\ UNCHANGED <<bus, running, workerStop, producerStop, mainAt, workerAt, quit>>
        /\ UNCHANGED <<call, stateCb, silent>>
        /\ producerAt \in {"test", "read"} /\ producerAt' \in {"test", "read", "done"}
    BY <1>24, SMTT(30) DEF ProducerStep, ProducerTest, ProducerReadsNothing, ProducerPush, ProducerDrop, smVars, busVars
  <2>2. Lifecycle'
    BY <1>1, <2>1 DEF Lifecycle, At, Cleared
  <2> QED
    BY <1>1, <2>1, <2>2, Zenon DEF Control
<1>27. CASE WorkerTest
  <2>1. /\ Rest /\ UNCHANGED <<quit, call, stateCb, silent>> /\ workerAt = "test"
        /\ workerAt' = IF workerStop THEN "done" ELSE "process"
        /\ At("worker", "none")
    BY <1>27 DEF WorkerTest, WorkerIs, smVars, busVars
  <2>2. Lifecycle'
    BY <1>1, <2>1, Zenon DEF Lifecycle, At, Cleared
  <2> QED
    BY <1>1, <2>1, <2>2, Zenon DEF Control
<1> USE <1>1, <1>2 DEF Control, Lifecycle, Cleared, MainSteps, MainIs, WorkerIs, At, smVars, busVars
<1>4. CASE SetStateCb
  BY <1>4, Zenon DEF SetStateCb, SetStateChangedCallback
<1>5. CASE SetAlarmCb
  BY <1>5, Zenon DEF SetAlarmCb, SetAlarmCallback
<1>6. CASE BusStartFails
  BY <1>6 DEF BusStartFails
<1>7. CASE BusStart
  BY <1>7, Zenon DEF BusStart
<1>8. CASE SpawnProducer
  BY <1>8, Zenon DEF SpawnProducer
<1>9. CASE MainTestQuit
  BY <1>9, Zenon DEF MainTestQuit
<1>10. CASE PopNothing
  BY <1>10, Zenon DEF PopNothing
<1>11. CASE PopAndProcess
  BY <1>11, Zenon DEF PopAndProcess
<1>12. CASE RaiseFault
  <2>1. UNCHANGED <<stateCb, silent>> /\ call'["worker"] = call["worker"]
    BY <1>12, Zenon DEF RaiseFault, Fault
  <2> QED
    BY <1>12, <2>1 DEF RaiseFault
<1>13. CASE StopProducer
  BY <1>13, Zenon DEF StopProducer
<1>14. CASE JoinProducer
  BY <1>14, Zenon DEF JoinProducer
<1>15. CASE ShutDown
  BY <1>15, Zenon DEF ShutDown, Shutdown, Enter
<1>16. CASE ClearStateCb
  BY <1>16, Zenon DEF ClearStateCb, SetStateChangedCallback
<1>17. CASE ClearAlarmCb
  BY <1>17 DEF ClearAlarmCb, SetAlarmCallback
<1>18. CASE BusStop
  BY <1>18, Zenon DEF BusStop
<1>19. CASE JoinWorker
  BY <1>19, Zenon DEF JoinWorker
<1>20. CASE CloseBus
  BY <1>20 DEF CloseBus
<1> HIDE <1>1, <1>2 DEF Control, Lifecycle, Cleared, MainSteps, MainIs, WorkerIs, At, smVars, busVars
<1>33. CASE MainStep
  BY <1>4, <1>5, <1>6, <1>7, <1>8, <1>9, <1>10, <1>11, <1>12, <1>13, <1>14, <1>15, <1>16, <1>17,
     <1>18, <1>19, <1>20, <1>21, <1>33, Zenon DEF MainStep
<1> QED
  BY <1>24, <1>27, <1>28, <1>31, <1>32, <1>33, Zenon DEF Next, WorkerStep, Terminated

\* What a step does to the ring, the detector and the source keeps the types.
LEMMA NextTypeOK ==
  ASSUME IInv, [Next]_vars, ManagerTypeOK'
  PROVE  TypeOK'
<1> USE DEF IInv
<1>1. CASE UNCHANGED vars
  BY <1>1 DEF vars, rxVars, busVars, path, TypeOK
<1>2. CASE Next
  <2>1. /\ queue' \in Seq(Frame) /\ vacated' \in Nat /\ Len(queue') + vacated' <= Room
        /\ delivered' \in Frame \cup {NoFrame}
    BY <1>2, StepOfChannel, ChannelTypes DEF TypeOK, rxVars
  <2>2. run' \in 0 .. K
    <3>1. CASE PopAndProcess
      BY <3>1, SizeAssumption DEF PopAndProcess, TypeOK
    <3>2. CASE UNCHANGED run
      BY <3>2 DEF TypeOK
    <3> QED
      BY <1>2, <3>1, <3>2, StepEffect, Zenon
  <2>3. UNCHANGED path
    BY <1>2, StepEffect, Zenon
  <2>4. line' \in 0 .. Len(file')
    <3>1. UNCHANGED line \/ \E f : Read(f)
      BY <1>2, StepEffect, Zenon
    <3>2. line' \in 0 .. Len(file)
      BY <3>1, ReadInFile DEF TypeOK
    <3> QED
      BY <2>3, <3>2, Zenon DEF path
  <2>5. Control'
    BY NextControl, Zenon
  <2> QED
    BY <2>1, <2>2, <2>3, <2>4, <2>5, Zenon DEF TypeOK, Control, path
<1> QED
  BY <1>1, <1>2, Zenon

\* Every step is one of the StateManager, a report of it included, or none.
LEMMA NextManager == IInv /\ [Next]_vars => ManagerInv'
  BY StepEffect, ManagerStep DEF IInv, vars, smVars, smVars

-------------------------------------------------------------------------------
(* The inductive invariant *)

\* The invariant of the daemon holds when main() starts.
LEMMA InitIInv == Init => IInv
<1> SUFFICES ASSUME Init PROVE IInv
  OBVIOUS
<1>1. ManagerInv /\ ManagerTypeOK
  BY InitManager, Zenon DEF Init, ManagerInv
<1>2. TypeOK
  <2>1. running \in BOOLEAN /\ workerStop \in BOOLEAN /\ quit \in BOOLEAN /\ producerStop \in BOOLEAN
    BY Zenon DEF Init
  <2>2. queue = <<>> /\ vacated = 0 /\ delivered = NoFrame
    BY DEF Init, RX!Init
  <2>3. queue \in Seq(Frame) /\ vacated \in Nat /\ Len(queue) + vacated <= Room
    BY <2>2, SizeAssumption
  <2>4. run \in 0 .. K /\ source \in {"file", "simulated"} /\ file \in Files \cup {<<>>}
    BY SizeAssumption DEF Init
  <2>5. line \in 0 .. Len(file)
    BY <2>4, FileLength DEF Init
  <2> QED
    BY <1>1, <2>1, <2>2, <2>3, <2>4, <2>5, Zenon DEF Init, TypeOK, MainSteps
<1>3. Lifecycle
  BY <1>1, CallerAssumption, Zenon DEF Init, Lifecycle, ManagerInit, At, NoCall, Cleared
<1> QED
  BY <1>1, <1>2, <1>3 DEF IInv

\* Every step of the three threads keeps it.
LEMMA NextIInv == IInv /\ [Next]_vars => IInv'
<1> SUFFICES ASSUME IInv, [Next]_vars PROVE IInv'
  OBVIOUS
<1>1. ManagerInv' /\ ManagerTypeOK'
  BY NextManager DEF ManagerInv
<1> QED
  BY <1>1, NextTypeOK, NextControl, Zenon DEF IInv

-------------------------------------------------------------------------------
(* The theorems *)

\* In every execution of the daemon, whatever the files, the clients and the signals
\* do, the invariant holds.
THEOREM Invariance == Spec => []IInv
  BY InitIInv, NextIInv, PTL DEF Spec

\* DaemonBus::stop() and the order of main()'s last lines never release the bus
\* under the worker or under a callback that emits on it.
THEOREM BusInUseIsOpen == Spec => []BusOutlivesUse
<1>1. IInv => BusOutlivesUse
  BY DEF IInv, TypeOK, MainSteps, Lifecycle, BusOutlivesUse, Emitting, At
<1> QED
  BY <1>1, Invariance, PTL

\* main() returns with both threads joined and no call in progress, and the
\* variables keep their types.
THEOREM ReturnsJoined == Spec => []ThreadsJoined
<1>1. IInv => ThreadsJoined
  BY DEF IInv, Lifecycle, ThreadsJoined, At, Cleared
<1> QED
  BY <1>1, Invariance, PTL

\* Until main() clears the callbacks every change of the state is reported, and
\* the reports add up to the state.
THEOREM ReportedUntilCleared == Spec => []ReportsUntilCleared
<1>1. IInv => ReportsUntilCleared
  BY DEF IInv, Lifecycle, ReportsUntilCleared, ManagerInv
<1> QED
  BY <1>1, Invariance, PTL

\* The daemon drives its StateManager only through the steps of that class's
\* threads: what is proved of StateManager holds inside the daemon.
THEOREM ImplementsStateManager == Spec => ManagerSpec
<1>1. Init => ManagerInit
  BY Zenon DEF Init
<1>2. [Next]_vars => [ManagerNext]_smVars
  BY StepEffect DEF vars, smVars, smVars
<1> QED
  BY <1>1, <1>2, PTL DEF Spec, ManagerSpec

\* So in the daemon, too, whose main and worker threads both call it: RUNNING and FAULT are
\* entered as start() and fault() allow, only a halt() that tested before can undo the
\* shutdown, and the reports add up to the state.
THEOREM DaemonStateMachine == Spec => GuardedTransitions /\ []ReportsAddUp
BY ImplementsStateManager, TransitionsAreGuarded, ReportsConsistent, PTL

\* The producer thread and the main loop use the ring only as the channel
\* TelemetryReceiver is shown to implement.
THEOREM ImplementsFrameChannel == Spec => RX!Spec
<1>1. Init => RX!Init
  BY DEF Init
<1>2. IInv /\ [Next]_vars => [RX!Next]_(RX!vars)
  BY StepOfChannel DEF vars, rxVars, RX!vars
<1> QED
  BY <1>1, <1>2, Invariance, PTL DEF Spec, RX!Spec
===============================================================================
