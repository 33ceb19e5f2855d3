--------------------------- MODULE MCDataProcessor ---------------------------
(* The filter and the detector on samples below, inside, at the edge of and *)
(* above the band, with counters small enough for the window to wrap around *)
(* and the detector's int to overflow.                                      *)
EXTENDS DataProcessor

SampleValues == {1, 5, 8, 9}
===============================================================================
