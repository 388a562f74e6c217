----------------------------- MODULE MCExtraction -----------------------------
(* Model values for checking Extraction with TLC. *)
EXTENDS Extraction, TLC
=============================================================================
