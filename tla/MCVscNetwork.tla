----------------------------- MODULE MCVscNetwork -----------------------------
(* One phase of the converter, modulo 7.  The networks between them need no exchange
   of rows, one and two; some matrices are singular, and some are regular and have a
   pivot that is too small, in each of the columns. *)
EXTENDS HlsKernel

Converter(lf, cf, lgrid, mains) ==
  [gLf |-> lf, betaLf |-> 3, gCf |-> cf, gLgrid |-> lgrid, betaLgrid |-> 2,
   gVs |-> 1, gOn |-> 1, gOff |-> 0, mains |-> mains]

Networks ==
  {Converter(1, 1, 1, TRUE), Converter(5, 4, 3, TRUE), Converter(2, 2, 1, TRUE),
   Converter(2, 2, 1, FALSE), Converter(3, 3, 2, TRUE)}

(* Nothing is said of a kernel that has gone its own way, so that TLC need not tell
   its states apart: of those only the types are seen. *)
Seen ==
  <<vars, alike,
    IF alike THEN kernelVars ELSE <<sV \in Vector, sHist \in Vector>> >>
===============================================================================
