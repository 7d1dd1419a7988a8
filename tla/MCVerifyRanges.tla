--------------------------- MODULE MCVerifyRanges ---------------------------
(* Ranges of three bytes over payloads of up to seven. *)
EXTENDS VerifyRanges
=============================================================================
