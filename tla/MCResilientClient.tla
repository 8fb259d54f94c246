-------------------------- MODULE MCResilientClient --------------------------
(***************************************************************************)
(* ResilientClient on small instances; calls are interchangeable.          *)
(***************************************************************************)
EXTENDS ResilientClient, TLC

Symmetry == Permutations(Calls)
=============================================================================
