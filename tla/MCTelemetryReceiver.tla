------------------------- MODULE MCTelemetryReceiver -------------------------
(* TelemetryReceiver on a ring of four slots, two frames, a two-bit counter. *)
EXTENDS TelemetryReceiver
===============================================================================
