---------------------------- MODULE MCUpdateLoop ----------------------------
(* Two nodes and a few expirations: a read can fall between any two         *)
(* writes of an update, and an overrun between any two updates.             *)
EXTENDS UpdateLoop
=============================================================================
