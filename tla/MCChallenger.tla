--------------------------- MODULE MCChallenger ---------------------------
(* Instances of Challenger for TLC. *)
EXTENDS Challenger, TLC

SymmetricCalls == Permutations(Call)

SymmetricInvoices == Permutations(Hash)
=============================================================================
