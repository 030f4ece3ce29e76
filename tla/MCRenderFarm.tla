----------------------------- MODULE MCRenderFarm -----------------------------
(***************************************************************************)
(* RenderFarmMachine on a small instance.                                  *)
(***************************************************************************)
EXTENDS RenderFarmMachine, Sequences

\* The second job is the more urgent, submitted within the same millisecond.
MCPriority == <<1, 2>>
MCSubmittedAt == <<2, 2>>
MCMoments == 1..3

\* Worker 1 cannot do job 2.
MCMatches == (Workers \X Jobs) \ {<<1, 2>>}

=============================================================================
