---------------------------- MODULE VerifyRanges ----------------------------
(***************************************************************************)
(* verifyPayload (blob.go): before a manifest is published the stored      *)
(* payload is read back in ranges of at most RangeBytes and its length and *)
(* digest are compared with those of the bytes that were sent.             *)
(*                                                                         *)
(* Bytes are numbered from 0 as in a Range header.  Of the stored object   *)
(* only its length and the set of its bytes that differ from the ones sent *)
(* matter; SHA-256 is taken as injective, so that the digests agree when   *)
(* exactly the bytes 0..size-1 were hashed in order and none was wrong.    *)
(* BlobStore takes the whole of verifyPayload as one step: nobody else     *)
(* knows the payload's id yet, so the object does not change meanwhile.    *)
(***************************************************************************)
EXTENDS Naturals

CONSTANTS
  RangeBytes,   \* verificationRangeBytes, 1 MiB in the code
  MaxSize       \* bound on the size of a payload

ASSUME RangeAssumption == RangeBytes \in Nat \ {0} /\ MaxSize \in Nat

VARIABLES
  size,      \* the accounted size, an argument of verifyPayload
  length,    \* length of the stored object
  wrong,     \* bytes of the stored object that are not the ones sent
  pc,        \* "head", "range", "done"
  offset,    \* the loop's offset
  hashed,    \* how many bytes the hasher has been given
  clean,     \* they were the bytes sent, each in its place
  asked,     \* history: bytes requested so far
  res        \* result

vars == <<size, length, wrong, pc, offset, hashed, clean, asked, res>>
object == <<size, length, wrong>>

Results == {"none", "ok", "integrity", "backend", "ctx"}

Init ==
  /\ size \in 0..MaxSize
  /\ length \in 0..(MaxSize + 1)
  /\ wrong \in SUBSET (0..MaxSize)
  /\ pc = "head" /\ offset = 0 /\ hashed = 0 /\ clean = TRUE
  /\ asked = {} /\ res = "none"

Ends(r) == pc' = "done" /\ res' = r

(* Where the loop stands with this offset: the next range, or the digest. *)
Continue(o, h, ok) ==
  IF o < size
    THEN pc' = "range" /\ UNCHANGED res
    ELSE Ends(IF ok /\ h = size THEN "ok" ELSE "integrity")

(* HEAD: the length must be the accounted one; an empty payload needs no range. *)
LengthUnchecked ==
  /\ pc = "head"
  /\ Continue(0, 0, TRUE)
  /\ UNCHANGED <<object, offset, hashed, clean, asked>>
HeadLength ==
  /\ pc = "head"
  /\ IF length = size THEN Continue(0, 0, TRUE) ELSE Ends("integrity")
  /\ UNCHANGED <<object, offset, hashed, clean, asked>>

Least(a, b) == IF a < b THEN a ELSE b

(* The last byte of the range that starts at offset. *)
EndPastObject == offset + RangeBytes - 1
End == Least(offset + RangeBytes - 1, size - 1)

ExpectedFull == RangeBytes
Expected == End - offset + 1

(***************************************************************************)
(* GetObject with Range and If-Match: the bytes of the range go through    *)
(* the hasher, and the body ends there.                                    *)
(***************************************************************************)
RangeOk ==
  LET h == hashed + Expected
      ok == clean /\ hashed = offset /\ (offset..End) \cap wrong = {}
  IN
  /\ pc = "range" /\ End < length
  /\ asked' = asked \cup (offset..End)
  /\ offset' = offset + RangeBytes
  /\ hashed' = h
  /\ clean' = ok
  /\ Continue(offset + RangeBytes, h, ok)
  /\ UNCHANGED object

(* The body carries other bytes than the stored ones, in the right number. *)
RangeGarbled ==
  /\ pc = "range" /\ End < length
  /\ asked' = asked \cup (offset..End)
  /\ offset' = offset + RangeBytes
  /\ hashed' = hashed + Expected
  /\ clean' = FALSE
  /\ Continue(offset + RangeBytes, hashed + Expected, FALSE)
  /\ UNCHANGED object

(* The announced length is not the expected one, or the body breaks off *)
(* before it or goes on past it.                                        *)
RangeMisframed ==
  /\ pc = "range"
  /\ asked' = asked \cup (offset..End)
  /\ Ends("integrity")
  /\ UNCHANGED <<object, offset, hashed, clean>>

(* HEAD or a range fails, its body does not close, or the context ends. *)
Refused ==
  /\ pc # "done"
  /\ \E r \in {"backend", "ctx"} : Ends(r)
  /\ UNCHANGED <<object, offset, hashed, clean, asked>>

Next == HeadLength \/ RangeOk \/ RangeGarbled \/ RangeMisframed \/ Refused

Spec == Init /\ [][Next]_vars

-----------------------------------------------------------------------------
TypeOK ==
  /\ size \in Nat /\ length \in Nat
  /\ wrong \subseteq Nat
  /\ pc \in {"head", "range", "done"}
  /\ offset \in Nat /\ hashed \in Nat
  /\ clean \in BOOLEAN
  /\ asked \subseteq Nat
  /\ res \in Results

(***************************************************************************)
(* A payload that passes verification has exactly the size and the bytes   *)
(* that were sent, whatever its length is relative to the range size.      *)
(***************************************************************************)
AcceptedIsExact ==
  res = "ok" => length = size /\ wrong \cap (0..(size - 1)) = {}

(***************************************************************************)
(* The ranges tile the payload: before each request the bytes below the    *)
(* offset have been read once and in order, no request reaches past the    *)
(* payload's end, and an accepted payload was read to its last byte.       *)
(***************************************************************************)
RangesTile ==
  /\ asked \subseteq 0..(size - 1)
  /\ pc = "range" => offset < size /\ asked = 0..(offset - 1) /\ hashed = offset
  /\ res = "ok" => asked = 0..(size - 1)

(***************************************************************************)
(* An intact payload read without a fault is never refused: no off-by-one  *)
(* at the end of a range accuses the service.                              *)
(***************************************************************************)
IntactNotAccused ==
  [][length = size /\ wrong \cap (0..(size - 1)) = {} /\ clean
       /\ (HeadLength \/ RangeOk) => res' \in {"none", "ok"}]_vars
=============================================================================
