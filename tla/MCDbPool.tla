------------------------------ MODULE MCDbPool ------------------------------
(* More callers than connections: one must wait, and one can go round the  *)
(* pool while another holds on.                                            *)
EXTENDS DbPool
=============================================================================
