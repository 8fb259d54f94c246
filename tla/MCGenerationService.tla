------------------------- MODULE MCGenerationService -------------------------
(***************************************************************************)
(* GenerationService on small instances.  Requests and keys are            *)
(* interchangeable, so both are symmetric where only safety is checked.    *)
(***************************************************************************)
EXTENDS GenerationService, TLC

Symmetry == Permutations(Requests) \union Permutations(Keys)
=============================================================================
