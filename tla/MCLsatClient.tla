---------------------------- MODULE MCLsatClient ----------------------------
(* Instances of LsatClient for TLC. *)
EXTENDS LsatClient, TLC

Symmetric == Permutations(Hash)
=============================================================================
