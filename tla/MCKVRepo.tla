------------------------------- MODULE MCKVRepo ------------------------------
(* The instances of KVRepo that TLC checks. *)
EXTENDS KVRepo, TLC

Symmetric == Permutations(Clients)
=============================================================================
