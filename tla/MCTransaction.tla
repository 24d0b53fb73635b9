---------------------------- MODULE MCTransaction ----------------------------
(***************************************************************************)
(* Instances of Transaction for TLC.                                       *)
(***************************************************************************)
EXTENDS Transaction, TLC

Symmetric == Permutations(Clients)
=============================================================================
