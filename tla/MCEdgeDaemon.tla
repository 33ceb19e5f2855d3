---------------------------- MODULE MCEdgeDaemon ----------------------------
(* The daemon with one in-band and one out-of-band frame, simulated or read  *)
(* from files shorter than a run that raises the alarm.                      *)
EXTENDS EdgeDaemon

Frames == {"normal", "spike"}
Spikes == {"spike"}
Recordings == {<<"spike", "garbage", "comment">>, <<"garbage">>}
===============================================================================
