---------------------------- MODULE MCRenderSystem -----------------------------
(***************************************************************************)
(* RenderSystem on a small instance.                                       *)
(***************************************************************************)
EXTENDS RenderSystem

MCPriority == <<0, 0>>
MCUrgency == <<1, 2>>
MCSubmittedAt == <<1, 2>>

=============================================================================
