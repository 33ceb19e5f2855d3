------------------------ MODULE MCTelemetryCoordinator ------------------------
(* A coordinator with two workers, as in main_coordinator.cpp, one of which *)
(* may be stopped and restarted.                                            *)
EXTENDS TelemetryCoordinator
===============================================================================
