---------------------------- MODULE MCRootMulti ----------------------------
(***************************************************************************)
(* TLC instances of RootMulti.                                             *)
(***************************************************************************)
EXTENDS RootMulti, TLC

Symmetry == Permutations(Store)

=============================================================================
