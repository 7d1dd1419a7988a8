------------------------------ MODULE MCUpload ------------------------------
(* Parts of two bytes, a maximum of seven bytes, sources of up to one byte more. *)
EXTENDS Upload
=============================================================================
