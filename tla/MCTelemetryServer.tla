--------------------------- MODULE MCTelemetryServer ---------------------------
(* Two sessions on two threads, over a pool of two connections: one insert  *)
(* can stay while the cursor goes round, and when a permit is lost both     *)
(* threads can be blocked, one of them waiting for the last.                *)
EXTENDS TelemetryServer
================================================================================
