---------------------------- MODULE MCBlobStore ----------------------------
(***************************************************************************)
(* Small instances of BlobStore.  Clients, contents and payload ids are    *)
(* interchangeable; keys are not, because LongKeys and BadKeys name them.  *)
(***************************************************************************)
EXTENDS BlobStoreRefinement, TLC

Symmetry ==
  Permutations(Clients) \cup Permutations(Contents \ Oversized) \cup Permutations(Payloads)
=============================================================================
