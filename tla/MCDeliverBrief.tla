--------------------------- MODULE MCDeliverBrief ---------------------------
(* Model values for checking DeliverBrief with TLC. *)
EXTENDS DeliverBrief, TLC
=============================================================================
