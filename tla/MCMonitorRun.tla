---------------------------- MODULE MCMonitorRun ----------------------------
(* MonitorRun for TLC. *)
EXTENDS MonitorRunInv, TLC

\* Stop RPCs are interchangeable; sound for the safety runs.
StopSymmetry == Permutations(Stops)
=============================================================================
