--------------------------- MODULE MCProjectDocument ---------------------------
(***************************************************************************)
(* ProjectDocumentMachine on a small instance.                             *)
(***************************************************************************)
EXTENDS ProjectDocumentMachine, TLC

MCSpans == {<<0, 2>>}
MCSymmetry == Permutations(Clips)

=============================================================================
