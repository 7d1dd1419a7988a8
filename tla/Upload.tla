------------------------------- MODULE Upload -------------------------------
(***************************************************************************)
(* One UploadObject of Put: the accounted reader over the caller's source  *)
(* (blob_io.go), the SDK's transfer manager that drains it (external, from *)
(* how s3store.go configures it and the tests and README describe it), and *)
(* the service's single and multipart uploads (internal/testserver).       *)
(*                                                                         *)
(* BlobStore takes the whole of this as one step, UploadOk, UploadTooLarge *)
(* or UploadFailed; this module is why it may.                             *)
(*                                                                         *)
(* The bytes of the source are numbered 1..source.  The manager reads up   *)
(* to Threshold bytes; if the source ends there it sends one PUT, else it  *)
(* creates a multipart upload, goes on reading while Workers goroutines    *)
(* send the parts, and completes it, or aborts it after an error.  As in   *)
(* BlobStore an attempt at a request succeeds, is refused, or is lost: it  *)
(* takes effect and an error is seen.                                      *)
(***************************************************************************)
EXTENDS Naturals, Sequences, SequencesExt

CONSTANTS
  Maximum,      \* maxAccountedObjectSize
  Threshold,    \* MultipartThreshold
  PartSize,     \* MultipartPartSize
  Workers,      \* Concurrency
  MaxAttempts,  \* attempts of the SDK per request
  LostAcks,     \* BOOLEAN: answers may be lost
  MaxSource     \* bound on the length of a source

ASSUME UploadAssumption ==
  /\ {PartSize, Threshold, Maximum, Workers, MaxAttempts} \subseteq Nat \ {0}
  /\ PartSize <= Threshold /\ Threshold <= Maximum
  /\ LostAcks \in BOOLEAN /\ MaxSource \in Nat \ {0}

VARIABLES
  source,   \* length of the source
  taken,    \* bytes taken from the source
  size,     \* accountedHashReader.size: bytes counted and hashed
  got,      \* the bytes the manager was given, by their numbers
  eof,      \* the manager has seen io.EOF
  pc,       \* what the manager is doing
  tries,    \* failed attempts of its current request
  ptries,   \* failed attempts per part
  acked,    \* parts whose upload was acknowledged
  id,       \* the multipart upload the manager knows of, NoId if none
  live,     \* ctx.Err() == nil
  fault,    \* the first error the manager met, "none" so far
  res,      \* what UploadObject's caller makes of it
  uploads,  \* service: the uploads in progress, and their parts
  nextID,   \* service: the next upload id
  object,   \* service: the payload object
  unheard   \* history: the abort was given up without an answer

reader  == <<source, taken, size, got, eof>>
service == <<uploads, nextID, object>>
vars == <<reader, pc, tries, ptries, acked, id, live, fault, res, service, unheard>>

MaxParts == (MaxSource + PartSize - 1) \div PartSize
Parts    == 1..MaxParts
NoId     == 0
Foreign  == MaxAttempts + 1       \* another process left this upload open
Ids      == 1..Foreign
NoUpload == [p \in Parts |-> <<0>>]
NoParts  == [p \in Parts |-> <<>>]
NoObject == <<0>>

Init ==
  /\ source \in 0..MaxSource
  /\ taken = 0 /\ size = 0 /\ got = <<>> /\ eof = FALSE
  /\ pc = "read" /\ tries = 0 /\ ptries = [p \in Parts |-> 0] /\ acked = {}
  /\ id = NoId /\ live = TRUE /\ fault = "none" /\ res = "none"
  /\ uploads = [u \in Ids |-> IF u = Foreign THEN NoParts ELSE NoUpload]
  /\ nextID = 1 /\ object = NoObject /\ unheard = FALSE

Least(a, b) == IF a < b THEN a ELSE b

-----------------------------------------------------------------------------
(* How a call of the manager ends, and Put's reading of its error. *)

Outcome(f) == CASE f = "toolarge" -> "toolarge"
                [] f # "toolarge" /\ ~live -> "ctx"
                [] OTHER -> "backend"

(* An error: the manager aborts the upload it knows of, or returns. *)
Fails(f) ==
  /\ fault' = f /\ tries' = 0
  /\ IF id = NoId THEN pc' = "done" /\ res' = Outcome(f)
                  ELSE pc' = "abort" /\ UNCHANGED res

(* uploaded.ContentLength must be the accounted size. *)
Succeeds ==
  /\ pc' = "done" /\ res' = IF Len(got) = size THEN "ok" ELSE "integrity"
  /\ UNCHANGED <<fault, tries>>

(* A failed attempt: again while the context lives and attempts are left. *)
Again ==
  \/ /\ live /\ tries + 1 < MaxAttempts
     /\ tries' = tries + 1
     /\ UNCHANGED <<pc, fault, res>>
  \/ Fails("backend")

-----------------------------------------------------------------------------
(***************************************************************************)
(* accountedHashReader.Read.  Below the maximum a buffer never asks for    *)
(* more than what is left to it; at the maximum one byte is probed for,    *)
(* and neither counted nor handed out.                                     *)
(***************************************************************************)
Wanted == pc = "read" /\ ~eof /\ (id # NoId \/ Len(got) < Threshold)

Room == IF id # NoId THEN PartSize ELSE Threshold - Len(got)

LimitIgnored == Room
Limit == Least(Room, Maximum - size)

ReadBytes ==
  /\ Wanted /\ size < Maximum
  /\ \E n \in 1..Least(Limit, source - taken) :
       /\ taken' = taken + n
       /\ size' = size + n
       /\ got' = got \o [i \in 1..n |-> taken + i]
       /\ eof' \in {FALSE, taken + n = source}
  /\ UNCHANGED <<source, pc, tries, ptries, acked, id, live, fault, res, service, unheard>>

ReadEof ==
  /\ Wanted /\ size < Maximum /\ taken = source
  /\ eof' = TRUE
  /\ UNCHANGED <<source, taken, size, got, pc, tries, ptries, acked, id, live, fault, res,
                 service, unheard>>

ProbeReadsNothing == FALSE /\ UNCHANGED vars
ProbeAlwaysRefuses ==
  /\ Wanted /\ size = Maximum
  /\ Fails("toolarge")
  /\ UNCHANGED <<reader, ptries, acked, id, live, service, unheard>>
Probe ==
  /\ Wanted /\ size = Maximum
  /\ \/ /\ taken < source
        /\ taken' = taken + 1
        /\ Fails("toolarge")
        /\ UNCHANGED eof
     \/ /\ taken = source
        /\ eof' = TRUE
        /\ UNCHANGED <<taken, pc, tries, fault, res>>
  /\ UNCHANGED <<source, size, got, ptries, acked, id, live, service, unheard>>

SourceFails ==
  /\ Wanted
  /\ Fails("backend")
  /\ UNCHANGED <<reader, ptries, acked, id, live, service, unheard>>

-----------------------------------------------------------------------------
(* The manager's requests.  Nothing is sent once the context has ended. *)

Choose ==
  /\ pc = "read" /\ id = NoId
  /\ \/ eof /\ pc' = "put"
     \/ ~eof /\ Len(got) = Threshold /\ pc' = "create"
  /\ UNCHANGED <<reader, tries, ptries, acked, id, live, fault, res, service, unheard>>

(* PutObject with If-None-Match: a repetition of one that committed gets 412. *)
PutOk ==
  /\ pc = "put" /\ live
  /\ \/ /\ object = NoObject
        /\ object' = got
        /\ Succeeds
     \/ /\ object # NoObject
        /\ Fails("backend")
        /\ UNCHANGED object
  /\ UNCHANGED <<reader, ptries, acked, id, live, uploads, nextID, unheard>>

PutFails ==
  /\ pc = "put"
  /\ \/ UNCHANGED object
     \/ LostAcks /\ live /\ object = NoObject /\ object' = got
  /\ Again
  /\ UNCHANGED <<reader, ptries, acked, id, live, uploads, nextID, unheard>>

Created ==
  /\ uploads' = [uploads EXCEPT ![nextID] = NoParts]
  /\ nextID' = nextID + 1

CreateOk ==
  /\ pc = "create" /\ live
  /\ Created
  /\ id' = nextID /\ pc' = "read" /\ tries' = 0
  /\ UNCHANGED <<reader, ptries, acked, live, fault, res, object, unheard>>

CreateFails ==
  /\ pc = "create"
  /\ \/ UNCHANGED <<uploads, nextID>>
     \/ LostAcks /\ live /\ Created
  /\ Again
  /\ UNCHANGED <<reader, ptries, acked, id, live, object, unheard>>

(* Part p of the bytes read so far; it is sent when full, or at the end. *)
Part(p) == SubSeq(got, (p - 1) * PartSize + 1, Least(p * PartSize, Len(got)))

Queued(p) == p * PartSize <= Len(got) \/ (eof /\ (p - 1) * PartSize < Len(got))

(* Workers take the parts in their order, each one part at a time. *)
Sendable(p) ==
  /\ pc = "read" /\ id # NoId /\ Queued(p) /\ p \notin acked
  /\ Len(SelectSeq([q \in 1..(p - 1) |-> q], LAMBDA q : q \notin acked)) < Workers

Stored(p) == uploads' = [uploads EXCEPT ![id][p] = Part(p)]

PartOk(p) ==
  /\ Sendable(p) /\ live
  /\ Stored(p)
  /\ acked' = acked \cup {p}
  /\ UNCHANGED <<reader, pc, tries, ptries, id, live, fault, res, nextID, object, unheard>>

PartFails(p) ==
  /\ Sendable(p)
  /\ \/ UNCHANGED uploads
     \/ LostAcks /\ live /\ Stored(p)
  /\ \/ /\ live /\ ptries[p] + 1 < MaxAttempts
        /\ ptries' = [ptries EXCEPT ![p] = @ + 1]
        /\ UNCHANGED <<pc, tries, fault, res>>
     \/ /\ Fails("backend")
        /\ UNCHANGED ptries
  /\ UNCHANGED <<reader, acked, id, live, nextID, object, unheard>>

Finish ==
  /\ pc = "read" /\ id # NoId /\ eof
  /\ \A p \in Parts : Queued(p) => p \in acked
  /\ pc' = "complete"
  /\ UNCHANGED <<reader, tries, ptries, acked, id, live, fault, res, service, unheard>>

(* completeMultipart: the parts in the order of their numbers, all at once; *)
(* an upload that is no longer in progress is not found.                    *)
Completed ==
  /\ object' = FlattenSeq(uploads[id])
  /\ uploads' = [uploads EXCEPT ![id] = NoUpload]

CompleteOk ==
  /\ pc = "complete" /\ live
  /\ \/ /\ uploads[id] # NoUpload
        /\ Completed
        /\ Succeeds
     \/ /\ uploads[id] = NoUpload
        /\ Fails("backend")
        /\ UNCHANGED <<object, uploads>>
  /\ UNCHANGED <<reader, ptries, acked, id, live, nextID, unheard>>

CompleteFails ==
  /\ pc = "complete"
  /\ \/ UNCHANGED <<object, uploads>>
     \/ LostAcks /\ live /\ uploads[id] # NoUpload /\ Completed
  /\ Again
  /\ UNCHANGED <<reader, ptries, acked, id, live, nextID, unheard>>

(* abortMultipart: no content, whether or not the upload was in progress. *)
AbortKeepsUpload ==
  /\ pc = "abort" /\ live
  /\ pc' = "done" /\ res' = Outcome(fault)
  /\ UNCHANGED <<reader, tries, ptries, acked, id, live, fault, service, unheard>>
AbortOk ==
  /\ pc = "abort" /\ live
  /\ uploads' = [uploads EXCEPT ![id] = NoUpload]
  /\ pc' = "done" /\ res' = Outcome(fault)
  /\ UNCHANGED <<reader, tries, ptries, acked, id, live, fault, nextID, object, unheard>>

AbortFails ==
  /\ pc = "abort"
  /\ \/ UNCHANGED uploads
     \/ LostAcks /\ live /\ uploads' = [uploads EXCEPT ![id] = NoUpload]
  /\ \/ /\ live /\ tries + 1 < MaxAttempts
        /\ tries' = tries + 1
        /\ UNCHANGED <<pc, res, unheard>>
     \/ /\ pc' = "done" /\ res' = Outcome(fault) /\ unheard' = TRUE
        /\ UNCHANGED tries
  /\ UNCHANGED <<reader, ptries, acked, id, live, fault, nextID, object>>

Expire ==
  /\ pc # "done" /\ live
  /\ live' = FALSE
  /\ UNCHANGED <<reader, pc, tries, ptries, acked, id, fault, res, service, unheard>>

-----------------------------------------------------------------------------
ReadStep == ReadBytes \/ ReadEof \/ Probe

ManagerStep ==
  \/ Choose \/ PutOk \/ PutFails \/ CreateOk \/ CreateFails
  \/ \E p \in Parts : PartOk(p) \/ PartFails(p)
  \/ Finish \/ CompleteOk \/ CompleteFails \/ AbortOk \/ AbortFails

Next == ReadStep \/ SourceFails \/ ManagerStep \/ Expire

Spec == Init /\ [][Next]_vars

(* The source's Reads return; requests end by the context's deadline. *)
FairSpec == Spec /\ WF_vars(ReadStep) /\ WF_vars(ManagerStep)

-----------------------------------------------------------------------------
TypeOK ==
  /\ source \in 0..MaxSource /\ taken \in 0..source /\ size \in 0..Maximum
  /\ got \in Seq(1..MaxSource) /\ eof \in BOOLEAN
  /\ pc \in {"read", "put", "create", "complete", "abort", "done"}
  /\ tries \in 0..(MaxAttempts - 1) /\ ptries \in [Parts -> 0..(MaxAttempts - 1)]
  /\ acked \subseteq Parts /\ id \in {NoId} \cup Ids
  /\ res \in {"none", "ok", "toolarge", "ctx", "backend", "integrity"}
  /\ nextID \in 1..(MaxAttempts + 1)

Whole == [i \in 1..source |-> i]

(***************************************************************************)
(* A payload object is never visible in part: whatever parts were repeated,*)
(* reordered or lost, it holds all bytes of the source in order, and never *)
(* more than the accounted maximum.                                        *)
(***************************************************************************)
ObjectWhole == object # NoObject => object = Whole /\ source <= Maximum

(***************************************************************************)
(* What Put is told is true: success means that the object is stored and   *)
(* its size and digest are those of the source, and "too large" means that *)
(* the source exceeds the maximum and nothing of it was stored.  A source  *)
(* of exactly the maximum is not too large.                                *)
(***************************************************************************)
OutcomeTrue ==
  /\ res = "ok" => object = Whole /\ size = source
  /\ res = "toolarge" => source > Maximum /\ object = NoObject

(***************************************************************************)
(* "A failed transfer must not leave an upload behind": when the manager   *)
(* returns, an upload in progress that it created is one whose creation    *)
(* was never answered, or whose abort was not; and it never ends an upload *)
(* of another process.                                                     *)
(***************************************************************************)
NothingLeftBehind ==
  /\ uploads[Foreign] # NoUpload
  /\ pc = "done" => \A u \in Ids \ {Foreign} :
                      uploads[u] # NoUpload => u # id \/ unheard

(***************************************************************************)
(* Every upload ends, however its parts fail, provided that the source's   *)
(* Reads return: no context reaches them.                                  *)
(***************************************************************************)
UploadEnds == <>(pc = "done")
=============================================================================
