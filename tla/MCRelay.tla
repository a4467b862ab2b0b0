------------------------------ MODULE MCRelay ------------------------------
(* Instances of Relay for TLC. *)
EXTENDS Relay, TLC

Symmetric == Permutations(Hash) \union Permutations(Process)
=============================================================================
