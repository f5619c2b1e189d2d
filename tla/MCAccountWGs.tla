---------------------------- MODULE MCAccountWGs ----------------------------
(***************************************************************************)
(* TLC instance of AccountWGs: four requests over two accounts, each       *)
(* signed by any set of them.                                              *)
(***************************************************************************)
EXTENDS AccountWGs, TLC

Symmetry == Permutations(Account) \cup Permutations(Req)

=============================================================================
