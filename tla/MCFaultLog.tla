----------------------------- MODULE MCFaultLog -----------------------------
(* The parts are given by the configurations; the positions of a ring and   *)
(* the counts of its telemetry are all that a part can report.             *)
EXTENDS FaultLog
=============================================================================
