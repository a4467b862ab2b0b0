----------------------------- MODULE MCMailPipe -----------------------------
(* Instances of MailPipe for TLC. *)
EXTENDS MailPipe
=============================================================================
