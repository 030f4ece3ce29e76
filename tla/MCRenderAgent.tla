---------------------------- MODULE MCRenderAgent -----------------------------
(***************************************************************************)
(* RenderAgentMachine on small instances.                                  *)
(***************************************************************************)
EXTENDS RenderAgentMachine, TLC

CONSTANTS j1, j2, j3

\* Jobs of one priority: the coordinator's messages seldom carry one.
MCPriority == (j1 :> 0) @@ (j2 :> 0) @@ (j3 :> 0)
MCPriority2 == (j1 :> 0) @@ (j2 :> 0)

=============================================================================
