----------------------------- MODULE WorkerNode -----------------------------
(***************************************************************************)
(* What a status request can see of a worker node: nothing before it       *)
(* listens, then RUNNING, or FAULT from some moment on, and nothing again  *)
(* once it is stopped.  IDLE and SHUTDOWN are never shown.                 *)
(***************************************************************************)
VARIABLE shows      \* what GetNodeStatus would answer; "off" or "down" if nobody does

Answer == {"RUNNING", "FAULT"}

Init == shows = "off"

\* It may have faulted before its first client can ask.
Listen == shows \in {"off", "down"} /\ shows' \in Answer

Fault == shows = "RUNNING" /\ shows' = "FAULT"

Close == shows # "down" /\ shows' = "down"

Next == Listen \/ Fault \/ Close

Spec == Init /\ [][Next]_shows
=============================================================================
