------------------------------- MODULE LuSolver -------------------------------
(***************************************************************************)
(* The dense solver of the power-electronics simulator                     *)
(* (fpga_power_electronics_hil/vsc_solver/include/LuSolver.h).             *)
(*                                                                         *)
(* Numbers are the elements of the field of integers modulo the prime P.   *)
(* The code uses the field operations, a comparison of magnitudes and a    *)
(* comparison with the smallest pivot it takes, 1e-15, and nothing else,   *)
(* so what these operators compute is exact.  Rounding is left out.  Rows  *)
(* and columns count from 0, as in the code.                               *)
(***************************************************************************)
EXTENDS Integers, Sums

CONSTANTS
  N,          \* rows of the system
  P,          \* prime
  Smallest    \* the smallest magnitude of a pivot (1e-15)

ASSUME SizeAssumption == N \in Nat \ {0}
ASSUME PrimeAssumption == P \in Nat /\ P >= 2 /\ \A d \in 2 .. P - 1 : P % d # 0
ASSUME SmallestAssumption == Smallest \in Nat \ {0}

Idx == 0 .. N - 1
Field == 0 .. P - 1
Vector == [Idx -> Field]
Matrix == [Idx -> Vector]

Inv(x) == CHOOSE y \in Field : (x * y) % P = 1

\* |x|, with the upper half of the field as the negative numbers
Magnitude(x) == IF 2 * x <= P THEN x ELSE P - x

-------------------------------------------------------------------------------
(* lu_factor() *)

\* Mutant: the diagonal is taken as it is.
FindPivotNot(A, k) == k

\* The first row, from k down, whose entry in column k has the largest magnitude.
FindPivot(A, k) ==
  LET best == {p \in k .. N - 1 : \A i \in k .. N - 1 : Magnitude(A[i][k]) <= Magnitude(A[p][k])}
  IN  CHOOSE p \in best : \A i \in best : p <= i

\* Mutant: the stored multipliers stay where they are.
SwapRowsFromPivot(A, k, p) ==
  [A EXCEPT ![k] = [j \in Idx |-> IF j < k THEN A[k][j] ELSE A[p][j]],
            ![p] = [j \in Idx |-> IF j < k THEN A[p][j] ELSE A[k][j]]]

\* std::swap() of two entries
Exchange(z, i, j) == [z EXCEPT ![i] = z[j], ![j] = z[i]]

\* The whole rows change places, with the multipliers stored to the left of k.
SwapRows(A, k, p) == Exchange(A, k, p)

\* Every row below k: its multiplier replaces column k, and the rest is reduced.
Eliminate(A, k) ==
  [i \in Idx |->
     IF i <= k THEN A[i]
     ELSE LET factor == (A[i][k] * Inv(A[k][k])) % P
          IN  [j \in Idx |-> IF j < k THEN A[i][j]
                             ELSE IF j = k THEN factor
                             ELSE (A[i][j] - factor * A[k][j]) % P]]

-------------------------------------------------------------------------------
(* lu_solve() *)

\* The first n exchanges of pivot, applied to y one after the other.
Permuted(pivot, y, n) ==
  LET after[m \in 0 .. n] ==
        IF m = 0 THEN y ELSE Exchange(after[m - 1], m - 1, pivot[m - 1])
  IN  after[n]

ForwardSub(LU, b) ==
  LET y[i \in Idx] == (b[i] - Sum([j \in 0 .. i - 1 |-> LU[i][j] * y[j]], i)) % P
  IN  y

BackSub(LU, y) ==
  LET x[i \in Idx] ==
        ((y[i] - Sum([j \in Idx |-> IF j <= i THEN 0 ELSE LU[i][j] * x[j]], N)) * Inv(LU[i][i])) % P
  IN  x

Solve(LU, pivot, b) == BackSub(LU, ForwardSub(LU, Permuted(pivot, b, N)))
===============================================================================
