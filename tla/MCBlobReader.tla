---------------------------- MODULE MCBlobReader ----------------------------
(***************************************************************************)
(* Small instances of BlobReader.  The size and the buffer bound are given *)
(* by the configurations.                                                  *)
(***************************************************************************)
EXTENDS BlobReader
=============================================================================
