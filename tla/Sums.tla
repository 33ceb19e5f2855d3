-------------------------------- MODULE Sums --------------------------------
(* Finite sums, as the loops of the code add them up. *)
EXTENDS Integers

\* f[0] + ... + f[n - 1]
Sum(f, n) ==
  LET upTo[m \in 0 .. n] == IF m = 0 THEN 0 ELSE upTo[m - 1] + f[m - 1]
  IN  upTo[n]
===============================================================================
