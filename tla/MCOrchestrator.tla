---------------------------- MODULE MCOrchestrator -----------------------------
(***************************************************************************)
(* OrchestratorMachine on a plan of three steps.                           *)
(***************************************************************************)
EXTENDS OrchestratorMachine

MCModes == {"sequential", "parallel", "conditional"}

=============================================================================
