------------------------------- MODULE HlsKernel -------------------------------
(***************************************************************************)
(* The kernel of the FPGA build (fpga_power_electronics_hil/hls_solver),   *)
(* fed with the same gate signals as VscNetwork, the double-precision      *)
(* solver that stands for it in the tests.  The kernel keeps its state in  *)
(* static arrays and factors nothing: "LU pre-factored once at init".  The *)
(* host, which is not in the repository, writes what lu_factor() returned  *)
(* for one setting of the gates before the first step, and never again.    *)
(***************************************************************************)
EXTENDS VscNetwork

VARIABLES
  sLU, sPiv,     \* s_L below the diagonal and s_U from it up, and s_piv
  sV, sHist,     \* s_V, and s_hist: histories of Lf, of Cf and of Lgrid in one array
  factoredFor,   \* ghost: the gates that the factors were made for, or Unwritten
  alike          \* ghost: so far the kernel has been used as VscNetwork has, see Alike

kernelVars == <<sLU, sPiv, sV, sHist, factoredFor, alike>>

Unwritten == -1

\* The positions of a phase in s_hist
Lf(n) == n
Cf(n) == n + Phases
Lgrid(n) == n + 2 * Phases

KernelInit ==
  /\ Init
  /\ sLU = [i \in Idx |-> [j \in Idx |-> 0]] /\ sPiv = [i \in Idx |-> 0]
  /\ sV = [i \in Idx |-> 0] /\ sHist = [i \in Idx |-> 0]
  /\ factoredFor = Unwritten /\ alike = TRUE

norton_update(hist, g, src, q) ==
  [i \in Idx |->
     LET n == i % Phases
     IN  (CASE i = Inverter(n) -> GUpper(q, g, n) * VDc - hist[Lf(n)]
            [] i = Cap(n)      -> hist[Lf(n)] - hist[Cf(n)] - hist[Lgrid(n)]
            [] i = Grid(n)     -> hist[Lgrid(n)] + q.gVs * src[n]) % P]

\* The right-hand side is gathered, b_perm[i] = I_N[piv[i]], then substituted.
lu_solve(LU, piv, b) == BackSub(LU, ForwardSub(LU, [i \in Idx |-> b[piv[i]]]))

update_history(V, hist, q) ==
  LET next[i \in Idx] ==
        LET n == i % Phases
            rl(G, beta, u) == G * u + beta * (G * u + hist[i])
        IN  CASE i = Lf(n)    -> rl(q.gLf, q.betaLf, V[Inverter(n)] - V[Cap(n)])
              [] i = Cf(n)    -> -(q.gCf * V[Cap(n)] + hist[i]) - q.gCf * V[Cap(n)]
              [] i = Lgrid(n) -> rl(q.gLgrid, q.betaLgrid, V[Cap(n)] - V[Grid(n)])
  IN  [i \in Idx |-> next[i] % P]

\* The kernel has the voltages of a grid of 230 V and 50 Hz built in.
KernelSource ==
  IF p.mains THEN {source} ELSE [Phase -> GridVoltage]

\* The step is one of the network whose factors the kernel has.
Alike == gate = factoredFor /\ p.mains

\* Mutant: the histories are computed from the voltages of the step before.
SolverTopLate ==
  /\ \E src \in KernelSource : sV' = lu_solve(sLU, sPiv, norton_update(sHist, gate, src, p))
  /\ sHist' = update_history(sV, sHist, p)
  /\ alike' = (alike /\ Alike)
  /\ UNCHANGED <<sLU, sPiv, factoredFor>>

\* One call of solver_top(): all of the state for the next call is written here.
solver_top ==
  /\ \E src \in KernelSource : sV' = lu_solve(sLU, sPiv, norton_update(sHist, gate, src, p))
  /\ sHist' = update_history(sV', sHist, p)
  /\ alike' = (alike /\ Alike)
  /\ UNCHANGED <<sLU, sPiv, factoredFor>>

\* External: the host writes the factors and pivot[] of a lu_factor() that has returned,
\* the constructor's or that for the first gate signals.  pivot[] holds exchanges, and
\* the kernel takes it for the permutation.
WriteFactors ==
  /\ factoredFor = Unwritten /\ at = "done"
  /\ sLU' = A /\ sPiv' = pivot
  /\ factoredFor' = gate
  /\ alike' = (alike /\ pivot = RowOf)
  /\ UNCHANGED <<vars, sV, sHist>>

\* The kernel makes no step before the factors are written.
KernelNext ==
  \/ (\E g \in Gate, src \in [Phase -> GridVoltage] : StepCalled(g, src)) /\ UNCHANGED kernelVars
  \/ (Factoring \/ Factored) /\ UNCHANGED kernelVars
  \/ WriteFactors
  \/ Advance /\ factoredFor # Unwritten /\ solver_top
  \/ Ended /\ UNCHANGED kernelVars

KernelSpec == KernelInit /\ [][KernelNext]_<<vars, kernelVars>>

-------------------------------------------------------------------------------
\* The voltages and the histories of the two
SameState ==
  /\ sV = v
  /\ \A n \in Phase : sHist[Lf(n)] = hLf[n] /\ sHist[Cf(n)] = hCf[n] /\ sHist[Lgrid(n)] = hLgrid[n]

(* "CI tests the equivalent double-precision C++": as long as every step has the   *)
(* gates that the factors in the kernel were made for, the grid is the one built    *)
(* into the kernel, and no exchange kept pivot[] from being the permutation, the    *)
(* state of the kernel is that of VscNetwork, although the two order and store the  *)
(* work differently (solver_top, norton_update and update_history against step).    *)
(* After any other step the kernel goes its own way.                                *)
KernelFollows == alike => SameState

\* The inductive invariant: between such steps the kernel has the factors that the
\* network has.
IInv ==
  /\ NetworkInv
  /\ KernelFollows
  /\ at = "done" \/ factoredFor # Unwritten => calling # "construct"
  /\ alike /\ factoredFor # Unwritten =>
       /\ gate = factoredFor => at = "done" /\ sLU = A /\ sPiv = RowOf
       /\ calling = "none" => gate = factoredFor
===============================================================================
