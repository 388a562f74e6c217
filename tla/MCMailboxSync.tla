---------------------------- MODULE MCMailboxSync ----------------------------
(* Model values for checking MailboxSync with TLC. *)
EXTENDS MailboxSync, TLC

CONSTANTS r1
=============================================================================
