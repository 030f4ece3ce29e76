--------------------------------- MODULE MCMesh ---------------------------------
(***************************************************************************)
(* Mesh on small instances.                                                *)
(***************************************************************************)
EXTENDS Mesh

CONSTANTS a, b

=============================================================================
