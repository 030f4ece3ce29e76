------------------------------ MODULE MCJobQueue ------------------------------
(***************************************************************************)
(* JobQueueMachine on small instances.                                     *)
(***************************************************************************)
EXTENDS JobQueueMachine, TLC

CONSTANTS j1, j2, j3

\* Two jobs of one priority and one that is more urgent.
MCPriority == (j1 :> 0) @@ (j2 :> 1) @@ (j3 :> 1)

=============================================================================
