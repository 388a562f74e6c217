---------------------------- MODULE MCKeyRotation ----------------------------
(* Model values for checking KeyRotation with TLC. *)
EXTENDS KeyRotation, TLC
=============================================================================
