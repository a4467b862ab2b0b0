----------------------------- MODULE MCHashMail -----------------------------
(* Instances of HashMail for TLC. *)
EXTENDS HashMail, TLC

Symmetric == Permutations(Stream) \union Permutations(Handler)
=============================================================================
