------------------------------ MODULE MCPipeline -----------------------------
(***************************************************************************)
(* Instances of Pipeline for TLC, with the state machine's own numbers.    *)
(***************************************************************************)
EXTENDS Pipeline

MCWaits == <<5, 10, 20, 40, 80>>
MCDays == 1 .. 3

\* The numbers of pipeline.asl.json and of the compute module fit.
ASSUME DeployedLimitsFit == LimitsFit /\ OwnLimitsFirst
=============================================================================
