--------------------------- MODULE MCTelemetryNode ---------------------------
(* A node with a queue of two samples, called by two streaming clients, or by  *)
(* one of them and by a client that asks for its status.                       *)
EXTENDS TelemetryNode
===============================================================================
