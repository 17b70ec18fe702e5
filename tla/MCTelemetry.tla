----------------------------- MODULE MCTelemetry -----------------------------
(* Values for checking Telemetry with TLC. *)
EXTENDS Telemetry

CONSTANTS c1, c2

MCActiveChecks == <<c1, c2>>
=============================================================================
