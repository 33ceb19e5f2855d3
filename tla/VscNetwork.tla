------------------------------ MODULE VscNetwork ------------------------------
(***************************************************************************)
(* The converter network                                                   *)
(* (fpga_power_electronics_hil/vsc_solver/src/VscNetwork.cpp): each step   *)
(* replaces the inductors and capacitors by a conductance and a history    *)
(* current, solves the nodal equations, and computes the next history.     *)
(* The factors, made by LuFactor, are kept until the gate signals change.  *)
(*                                                                         *)
(* A phase has a switch node, a capacitor node and a grid node; the code   *)
(* has three phases and nine nodes.  Numbers are those of LuSolver.  The   *)
(* parameters are the companion conductances, which the code computes from *)
(* its SolverParams, and whether the grid is one of 230 V and 50 Hz; the   *)
(* grid voltage is an input, which stands for the time and its sine.       *)
(***************************************************************************)
EXTENDS LuFactor

CONSTANTS
  Phases,                   \* number of phases
  Params,                   \* parameters of a network, see Network
  VDc, VRated,
  GridVoltage               \* values of the grid voltage

Network == [gLf : Field, betaLf : Field, gCf : Field, gLgrid : Field, betaLgrid : Field,
            gVs : Field, gOn : Field, gOff : Field, mains : BOOLEAN]

ASSUME NodesAssumption == Phases \in Nat /\ N = 3 * Phases
ASSUME ParamsAssumption ==
  Params \subseteq Network /\ VDc \in Int /\ VRated \in Int /\ GridVoltage \subseteq Int

Phase == 0 .. Phases - 1
Gate == 0 .. 4 ^ Phases - 1
Ground == -1

Inverter(n) == n
Cap(n) == n + Phases
Grid(n) == n + 2 * Phases

VARIABLES
  p,                        \* p_
  gateFactored,             \* gate_factored_
  calling,                  \* the constructor or step() is in progress
  gate, source,             \* gate signals and, ghost, grid voltages of the last step()
  v,                        \* nodal voltages
  iLf, iCf, iLgrid,         \* branch currents
  hLf, hCf, hLgrid,         \* history currents
  fault

state == <<v, iLf, iCf, iLgrid, hLf, hCf, hLgrid, fault>>
vars == <<luVars, p, gateFactored, calling, gate, source, state>>

-------------------------------------------------------------------------------
(* assemble_and_factor() *)

\* bit 2n is the upper switch of phase n, bit 2n+1 the lower one.
GUpper(q, g, n) == IF (g \div 4 ^ n) % 2 = 1 THEN q.gOn ELSE q.gOff
GLower(q, g, n) == IF (g \div (2 * 4 ^ n)) % 2 = 1 THEN q.gOn ELSE q.gOff

\* stamp(): a branch adds to the diagonal of its nodes, and is taken off between them.
Stamp(a, b, g, i, j) ==
  IF i = j THEN IF i \in {a, b} THEN g ELSE 0
  ELSE IF {i, j} = {a, b} THEN -g ELSE 0

\* What the branches of a phase, each between a node and another one or the ground,
\* add to an entry.
PhaseStamp(q, g, n, i, j) ==
  Stamp(Inverter(n), Cap(n), q.gLf, i, j) + Stamp(Cap(n), Ground, q.gCf, i, j)
    + Stamp(Cap(n), Grid(n), q.gLgrid, i, j) + Stamp(Grid(n), Ground, q.gVs, i, j)
    + Stamp(Inverter(n), Ground, GUpper(q, g, n) + GLower(q, g, n), i, j)

Assemble(q, g) ==
  [i \in Idx |-> [j \in Idx |-> Sum([n \in Phase |-> PhaseStamp(q, g, n, i, j)], Phases) % P]]

-------------------------------------------------------------------------------
Zero == [n \in Phase |-> 0]

\* The constructor begins to factor the matrix with all switches off; gate_factored_ is
\* 0xFF until it has.  A State is all zero.
Init ==
  /\ p \in Params
  /\ given = Assemble(p, 0) /\ A = given /\ k = 0 /\ at = "factor"
  /\ pivot = [i \in Idx |-> 0]
  /\ gateFactored = 255 /\ calling = "construct"
  /\ gate = 0 /\ source = Zero
  /\ v = [i \in Idx |-> 0]
  /\ iLf = Zero /\ iCf = Zero /\ iLgrid = Zero
  /\ hLf = Zero /\ hCf = Zero /\ hLgrid = Zero
  /\ fault = FALSE

\* Mutant: the factors are made only once.
StaleNever(g) == FALSE

\* The factors at hand are for other gate signals.
Stale(g) == g # gateFactored

\* step() is called, and makes the factors again if it must.
StepCalled(g, src) ==
  /\ calling = "none"
  /\ calling' = "step" /\ gate' = g /\ source' = src
  /\ IF Stale(g) THEN Begin(Assemble(p, g)) ELSE UNCHANGED luVars
  /\ UNCHANGED <<p, gateFactored, state>>

\* lu_factor() goes on, or throws out of the constructor or of step(), with LU_ half
\* overwritten and gate_factored_ as it was.  Nobody in the repository catches the
\* exception and uses the network again; what it would compute then is not modelled.
Factoring ==
  /\ Column \/ Singular
  /\ UNCHANGED <<p, gateFactored, calling, gate, source, state>>

\* assemble_and_factor() returns, to the constructor, which returns too, or to step().
Factored ==
  /\ Return
  /\ gateFactored' = gate
  /\ calling' = IF calling = "construct" THEN "none" ELSE calling
  /\ UNCHANGED <<p, gate, source, state>>

\* The injected currents, node by node.
Injected ==
  [i \in Idx |->
     LET n == i % Phases
     IN  (IF i = Inverter(n) THEN GUpper(p, gate, n) * VDc - hLf[n]
          ELSE IF i = Cap(n) THEN hLf[n] - hCf[n] - hLgrid[n]
          ELSE hLgrid[n] + p.gVs * source[n]) % P]

BranchCurrent(G, u, h) == [n \in Phase |-> (G * u[n] + h[n]) % P]

\* Mutant: the current does not fade.
InductorHistoryNoBeta(G, beta, i, u) == [n \in Phase |-> (G * u[n] + i[n]) % P]

InductorHistory(G, beta, i, u) == [n \in Phase |-> (G * u[n] + beta * i[n]) % P]

CapacitorHistory(G, i, u) == [n \in Phase |-> (-i[n] - G * u[n]) % P]

\* The rest of step(): solve, then the fault flag, and for each branch its current from
\* the new voltages and the old history, and its new history.
Advance ==
  LET uLf    == [n \in Phase |-> (v'[Inverter(n)] - v'[Cap(n)]) % P]
      uCf    == [n \in Phase |-> v'[Cap(n)]]
      uLgrid == [n \in Phase |-> (v'[Cap(n)] - v'[Grid(n)]) % P]
  IN  /\ calling = "step" /\ at = "done"
      /\ v' = Solve(A, pivot, Injected)
      /\ fault' = \E i \in Idx : Magnitude(v'[i]) > 2 * VRated
      /\ iLf' = BranchCurrent(p.gLf, uLf, hLf)
      /\ hLf' = InductorHistory(p.gLf, p.betaLf, iLf', uLf)
      /\ iCf' = BranchCurrent(p.gCf, uCf, hCf)
      /\ hCf' = CapacitorHistory(p.gCf, iCf', uCf)
      /\ iLgrid' = BranchCurrent(p.gLgrid, uLgrid, hLgrid)
      /\ hLgrid' = InductorHistory(p.gLgrid, p.betaLgrid, iLgrid', uLgrid)
      /\ calling' = "none"
      /\ UNCHANGED <<luVars, p, gateFactored, gate, source>>

\* The exception has ended the simulation: nobody catches it.
Ended == at = "singular" /\ UNCHANGED vars

Next ==
  \/ \E g \in Gate, src \in [Phase -> GridVoltage] : StepCalled(g, src)
  \/ Factoring \/ Factored \/ Advance \/ Ended

Spec == Init /\ [][Next]_vars

-------------------------------------------------------------------------------
(* Properties *)

\* Kirchhoff's current law: after every step, whatever the switches did in the steps
\* before, the currents of the switches, the inductors, the capacitors and the grid
\* balance at each node.  The factors, the injected currents and the branch currents
\* of step() are computed apart from each other; here they have to agree.
CurrentsBalance ==
  [][calling = "step" /\ calling' = "none" => \A n \in Phase :
       /\ iLf'[n] = (GUpper(p, gate, n) * (VDc - v'[Inverter(n)]) - GLower(p, gate, n) * v'[Inverter(n)]) % P
       /\ iLf'[n] = (iCf'[n] + iLgrid'[n]) % P
       /\ iLgrid'[n] = (p.gVs * (v'[Grid(n)] - source[n])) % P]_vars

\* The history that one step leaves to the next makes the branches follow the
\* trapezoidal rule: the change of a current depends on the voltages of both steps.
TrapezoidalRule ==
  [][\A n \in Phase :
       LET across(x, a, b) == x[a] - x[b]
           uLf == across(v', Inverter(n), Cap(n)) + across(v, Inverter(n), Cap(n))
           uLgrid == across(v', Cap(n), Grid(n)) + across(v, Cap(n), Grid(n))
       IN  /\ iLf'[n] = (p.betaLf * iLf[n] + p.gLf * uLf) % P
           /\ iCf'[n] = (p.gCf * (v'[Cap(n)] - v[Cap(n)]) - iCf[n]) % P
           /\ iLgrid'[n] = (p.betaLgrid * iLgrid[n] + p.gLgrid * uLgrid) % P]_state

-------------------------------------------------------------------------------
(* The inductive invariant: the matrix given to lu_factor() is the one of the gate    *)
(* signals, and the histories are those of the present voltages and currents.         *)
PhaseField == [Phase -> Field]

NetworkInv ==
  /\ FactorInv
  /\ p \in Params
  /\ calling \in {"construct", "none", "step"}
  /\ source \in [Phase -> GridVoltage \cup {0}]
  /\ v \in Vector /\ iLf \in PhaseField /\ iCf \in PhaseField /\ iLgrid \in PhaseField
  /\ given = Assemble(p, gate)
  /\ at = "done" => gateFactored = gate
  /\ calling = "none" => at = "done"
  /\ hLf = InductorHistory(p.gLf, p.betaLf, iLf, [n \in Phase |-> (v[Inverter(n)] - v[Cap(n)]) % P])
  /\ hCf = CapacitorHistory(p.gCf, iCf, [n \in Phase |-> v[Cap(n)]])
  /\ hLgrid = InductorHistory(p.gLgrid, p.betaLgrid, iLgrid, [n \in Phase |-> (v[Cap(n)] - v[Grid(n)]) % P])
===============================================================================
