------------------------- MODULE BlobStoreRefinement -------------------------
(***************************************************************************)
(* BlobStore implements Blobs: the value of a key is what its first        *)
(* manifest candidate holds, and a call's errors all map to "error".       *)
(***************************************************************************)
EXTENDS BlobStore

AbstractResult(res) ==
  IF res \in {"integrity", "backend", "ctx", "toolarge", "rejected", "closed"}
    THEN "error" ELSE res

AbstractCall(r) ==
  [op   |-> r.op,
   key  |-> r.key,
   data |-> IF r.op = "put" \/ r.res = "value" THEN r.data ELSE NoData,
   res  |-> AbstractResult(r.res)]

AbstractValues == [k \in Keys |-> Value(k)]
AbstractCalls  == [c \in Clients |-> AbstractCall(call[c])]

Contract ==
  INSTANCE Blobs WITH value <- AbstractValues, call <- AbstractCalls, seen <- seen

(***************************************************************************)
(* Every execution of the protocol is one the contract allows: each change *)
(* of a key's value is due to a Put of that content or a Delete of that    *)
(* key that is still running, and every result is justified.               *)
(***************************************************************************)
ImplementsBlobs == Contract!Spec
=============================================================================
