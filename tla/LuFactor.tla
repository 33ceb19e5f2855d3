------------------------------- MODULE LuFactor -------------------------------
(***************************************************************************)
(* lu_factor() (fpga_power_electronics_hil/vsc_solver/include/LuSolver.h)  *)
(* as it runs: one step per column of the matrix, in place.                *)
(***************************************************************************)
EXTENDS LuSolver

VARIABLES
  given,          \* the matrix to be factored (G_ of the network)
  A,              \* its copy, overwritten with the factors
  pivot,          \* the exchanges
  k,              \* the column
  at              \* "factor", or how the last call has ended

luVars == <<given, A, pivot, k, at>>

\* The matrix is copied, and lu_factor() called on the copy.
Begin(G) ==
  /\ given' = G /\ A' = G
  /\ k' = 0
  /\ at' = "factor"
  /\ UNCHANGED pivot

\* The largest entry of the column is too small: std::runtime_error.
Singular ==
  /\ at = "factor" /\ k < N
  /\ Magnitude(A[FindPivot(A, k)][k]) < Smallest
  /\ at' = "singular"
  /\ UNCHANGED <<given, A, pivot, k>>

Column ==
  /\ at = "factor" /\ k < N
  /\ LET p == FindPivot(A, k)
     IN  /\ Magnitude(A[p][k]) >= Smallest
         /\ pivot' = [pivot EXCEPT ![k] = p]
         /\ A' = Eliminate(SwapRows(A, k, p), k)
  /\ k' = k + 1
  /\ UNCHANGED <<given, at>>

Return ==
  /\ at = "factor" /\ k = N
  /\ at' = "done"
  /\ UNCHANGED <<given, A, pivot, k>>

Identity == [i \in Idx |-> i]

\* The row of the given matrix that each row has come from.  It differs from pivot
\* as soon as two rows have been exchanged.
RowOf == Permuted(pivot, Identity, N)

-------------------------------------------------------------------------------
(* Properties *)

Product(M, x) == [i \in Idx |-> Sum([j \in Idx |-> M[i][j] * x[j]], N) % P]

Unit(n) == [i \in Idx |-> IF i = n THEN 1 ELSE 0]

\* lu_solve() inverts the matrix that was given to lu_factor(), whatever rows were
\* exchanged.
SolvesGiven == at = "done" => \A n \in Idx : Product(given, Solve(A, pivot, Unit(n))) = Unit(n)

\* "Throws std::runtime_error if matrix is singular": the factors of a matrix that maps
\* some vector other than zero to zero are never handed out.  A throw is seldom that
\* clear: what it says of the given matrix is that some vector, 1 at the column reached
\* and 0 after it, is mapped to zero in the rows that had been chosen as pivots and to
\* less than the smallest pivot in all the others.  The matrix may be regular then.
ThrowsOnSmallPivot ==
  LET zero == [i \in Idx |-> 0]
      row  == Permuted(pivot, Identity, k)
      Negligible(x) ==
        /\ x[k] = 1 /\ \A j \in k + 1 .. N - 1 : x[j] = 0
        /\ \A i \in 0 .. k - 1 : Product(given, x)[row[i]] = 0
        /\ \A i \in k .. N - 1 : Magnitude(Product(given, x)[row[i]]) < Smallest
  IN  /\ at = "done" => \A x \in Vector : Product(given, x) = zero => x = zero
      /\ at = "singular" => \E x \in Vector : Negligible(x)

-------------------------------------------------------------------------------
(* The inductive invariant.  Once c columns of M are eliminated, row i of the upper    *)
(* factor is what is left of row i, and the multipliers stored in front of it say how  *)
(* much of each earlier row has been taken off it.                                     *)

UpperRow(M, i, c) == [j \in Idx |-> IF j < i /\ j < c THEN 0 ELSE M[i][j]]
Multipliers(i, c) == IF i < c THEN i ELSE c

\* The combination of the first m rows of R with the weights a.
Combine(a, R, m) == [j \in Idx |-> Sum([l \in Idx |-> a[l] * R[l][j]], m)]

\* Row i of the product of the factors.
Rows(M, c) == [i \in Idx |-> UpperRow(M, i, c)]
Rebuilt(M, c, i) ==
  [j \in Idx |-> UpperRow(M, i, c)[j] + Combine(M[i], Rows(M, c), Multipliers(i, c))[j]]

\* In every column the factors made so far multiply to the rows of the given matrix,
\* in the order of the exchanges made so far.
FactorInv ==
  /\ given \in Matrix /\ A \in Matrix
  /\ pivot \in [Idx -> Idx]
  /\ k \in 0 .. N
  /\ at \in {"factor", "singular", "done"}
  /\ \A i, j \in Idx : given[Permuted(pivot, Identity, k)[i]][j] = Rebuilt(A, k, i)[j] % P
  /\ \A i \in 0 .. k - 1 : A[i][i] # 0
  /\ at = "done" => k = N
  /\ at = "singular" => k < N /\ \A i \in k .. N - 1 : Magnitude(A[i][k]) < Smallest
===============================================================================
