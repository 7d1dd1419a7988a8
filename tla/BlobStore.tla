------------------------------ MODULE BlobStore ------------------------------
(***************************************************************************)
(* The core protocol of s3store: Put, Get and Delete of immutable blobs on *)
(* an S3 service, from blob.go, transfer.go, blob_io.go and guard.go.      *)
(*                                                                         *)
(* A logical key owns at most one manifest row per encoding ("current",    *)
(* and for keys above 191 bytes the "legacy" one of v0.1.1).  A row binds  *)
(* the content's size and digest to the id of one payload object.  Put     *)
(* uploads a payload under a fresh id, verifies it, and publishes the row  *)
(* with If-None-Match; Delete removes the row and then the payload; Get    *)
(* reads the row, then streams the payload it names.                       *)
(*                                                                         *)
(* One step of a client is one S3 request together with the local code up  *)
(* to the next request.  The requests of different calls interleave        *)
(* freely: no lock orders them, the transfer gate only bounds their number.*)
(* A request ends in one of three ways:                                    *)
(*   ok       it takes effect and its answer arrives (the context is live);*)
(*   refused  it has no effect and the call sees an error;                 *)
(*   lost     it takes effect and the call sees an error (LostAcks).       *)
(* An error may be the expiry of the call's context, after which no        *)
(* request is sent any more: a client that crashes is a call whose context *)
(* has ended.  The SDK repeats a failed request up to MaxAttempts times.   *)
(* Attempts are explicit for the two requests whose repetition matters:    *)
(* publishing and deleting a manifest row.  Repeating a read, or a request *)
(* on a payload no other call knows of, is the same as one request with    *)
(* the last attempt's outcome.                                             *)
(*                                                                         *)
(* Some definitions are preceded by a faulty variant of themselves, such   *)
(* as ReleaseLeaks before Release.  The variants are used by no behaviour; *)
(* each is a plausible slip that one of the properties is known to catch.  *)
(***************************************************************************)
EXTENDS Naturals, FiniteSets

CONSTANTS
  Clients,       \* goroutines calling the Store, each one call at a time
  Keys,          \* logical keys
  LongKeys,      \* those above 191 bytes, which v0.1.1 stored elsewhere
  BadKeys,       \* keys whose only row may be damaged from the start
  Contents,      \* blob contents, told apart by size and digest
  Oversized,     \* contents above MaxAccountedObjectSize
  Payloads,      \* pool of payload ids; bounds the number of Puts
  MaxTransfers,  \* MaxConcurrentTransfers
  MaxAttempts,   \* retry.MaxAttempts of the SDK client (the code pins 3)
  LostAcks,      \* BOOLEAN: an answer may be lost after the effect
  Legacy400,     \* BOOLEAN: HEAD of a legacy row may answer 400
  NoKey, NoData, Garbage, NoPayload   \* sentinels

ASSUME SetAssumption ==
  /\ LongKeys \subseteq Keys
  /\ BadKeys \subseteq Keys
  /\ Oversized \subseteq Contents

ASSUME SentinelAssumption ==
  /\ NoKey \notin Keys
  /\ NoData \notin Contents
  /\ Garbage \notin Contents
  /\ NoData # Garbage
  /\ NoPayload \notin Payloads

ASSUME BoundAssumption ==
  /\ IsFiniteSet(Clients)
  /\ MaxTransfers \in Nat \ {0}
  /\ MaxAttempts \in Nat \ {0}
  /\ LostAcks \in BOOLEAN
  /\ Legacy400 \in BOOLEAN

Encodings == {"current", "legacy"}

(* A manifest row, its absence, or a row that does not decode. *)
NoRow  == [data |-> NoData, pay |-> NoPayload]
BadRow == [data |-> Garbage, pay |-> NoPayload]
Row    == [data: Contents, pay: Payloads] \cup {NoRow, BadRow}

VARIABLES
  rows,      \* rows[e][k]: the manifest row of key k under encoding e
  payloads,  \* payloads[p]: the bytes of payload object p, NoData if absent
  used,      \* payload ids drawn so far
  held,      \* clients holding a slot of the transfer gate
  call,      \* call[c]: program counter and locals of c's call
  seen       \* history: the values c's key had while the call ran

store == <<rows, payloads, used>>
vars  == <<rows, payloads, used, held, call, seen>>

Pcs == {"idle", "acquire", "upload", "verify", "head", "get", "publish",
        "cleanup", "rmrow", "rmpay", "fetch", "stream", "done"}

Results == {"none", "ok", "value", "notfound", "conflict", "integrity",
            "backend", "ctx", "toolarge", "rejected", "closed"}

(***************************************************************************)
(* The locals of a call:                                                   *)
(*   data   the content Put uploads; the bytes Get streams                 *)
(*   pay    payloadKey of a Put                                            *)
(*   safe   cleanupSafe of a Put                                           *)
(*   cand   the encoding readManifestAt is looking at                      *)
(*   tag    the row HEAD answered for (its ETag), then the manifest read   *)
(*   tries  attempts of the current publish or row deletion that failed    *)
(*   live   ctx.Err() == nil                                               *)
(***************************************************************************)
Call ==
  [pc: Pcs, op: {"none", "put", "get", "delete"}, key: Keys \cup {NoKey},
   data: Contents \cup {NoData, Garbage}, pay: Payloads \cup {NoPayload},
   safe: BOOLEAN, cand: Encodings, tag: Row, tries: 0..(MaxAttempts - 1),
   live: BOOLEAN, res: Results]

NoCall ==
  [pc |-> "idle", op |-> "none", key |-> NoKey, data |-> NoData,
   pay |-> NoPayload, safe |-> FALSE, cand |-> "current", tag |-> NoRow,
   tries |-> 0, live |-> TRUE, res |-> "none"]

(* What a reader of key k is to find: the row of the first candidate. *)
ValueIn(m, k) == IF m["current"][k] # NoRow
                   THEN m["current"][k].data
                   ELSE m["legacy"][k].data
Value(k) == ValueIn(rows, k)

(* A call that still decides its result observes its key after every step. *)
Observe ==
  seen' = [c \in Clients |->
             CASE call'[c].key = NoKey -> {}
               [] call'[c].key # NoKey /\ call[c].pc \in {"stream", "cleanup", "done"} -> seen[c]
               [] OTHER -> seen[c] \cup {ValueIn(rows', call'[c].key)}]

-----------------------------------------------------------------------------
(***************************************************************************)
(* Initially the bucket holds what earlier processes left: any rows v0.1.1 *)
(* wrote for long keys, with their payloads, and rows damaged since.       *)
(***************************************************************************)
LegacyRows ==
  {f \in [Keys -> Row] :
     /\ \A k \in Keys \ LongKeys : f[k] = NoRow
     /\ \A k \in Keys \ BadKeys : f[k] # BadRow
     /\ \A j, k \in Keys : f[j].pay # NoPayload /\ f[j].pay = f[k].pay => j = k}

Init ==
  /\ \E f \in LegacyRows, bad \in SUBSET BadKeys :
       /\ \A k \in bad : f[k] = NoRow
       /\ rows = [e \in Encodings |->
                    IF e = "legacy" THEN f
                    ELSE [k \in Keys |-> IF k \in bad THEN BadRow ELSE NoRow]]
       /\ used = {f[k].pay : k \in Keys} \ {NoPayload}
       /\ payloads = [p \in Payloads |->
                        IF \E k \in Keys : f[k].pay = p
                          THEN f[CHOOSE k \in Keys : f[k].pay = p].data
                          ELSE NoData]
  /\ held = {}
  /\ call = [c \in Clients |-> NoCall]
  /\ seen = [c \in Clients |-> {}]

-----------------------------------------------------------------------------
(* Local code between requests: each operator gives the call's next locals. *)

(* ctx.Err() wins over the backend error wherever an error is mapped. *)
ErrFor(live) == IF live THEN "backend" ELSE "ctx"

(* The call returns res to its caller. *)
Ended(r, res) == [r EXCEPT !.pc = "done", !.res = res]

(* Put returns res: its deferred cleanup runs when cleanupSafe and ctx is live. *)
PutEnded(r, res) ==
  [r EXCEPT !.pc = IF r.safe /\ r.live THEN "cleanup" ELSE "done", !.res = res]

(* Every return releases the slot; Get's stream keeps it. *)
ReleaseLeaks(c, r) == held' = IF r.pc = "done" /\ r.res # "notfound" THEN held \ {c} ELSE held
Release(c, r) == held' = IF r.pc = "done" THEN held \ {c} ELSE held

Step(c, r) == /\ call' = [call EXCEPT ![c] = r]
              /\ Release(c, r)

(* manifestsMatch: same logical key (it was read under it), size and digest. *)
ManifestsMatch(m, r) == m.data = r.data

HasLegacyKey(k) == k \in LongKeys

NextCandidate(r) == [r EXCEPT !.pc = "head", !.cand = "legacy", !.tag = NoRow]

HasNextCandidate(r) == r.cand = "current" /\ HasLegacyKey(r.key)

(* From here on an error may hide a committed manifest: cleanup is not safe. *)
StartPublishKeepsCleanup(r) == [r EXCEPT !.pc = "publish", !.cand = "current", !.tag = NoRow]
StartPublish(r) ==
  [r EXCEPT !.pc = "publish", !.safe = FALSE, !.cand = "current", !.tag = NoRow]

(* A verified Put consults the legacy row of a long key before publishing. *)
AfterVerify(r) == IF HasLegacyKey(r.key) THEN NextCandidate(r) ELSE StartPublish(r)

(***************************************************************************)
(* readManifestAt ends with an outcome o: "found" (the manifest is in      *)
(* r.tag), "notfound", or the error.  Four callers continue from it.       *)
(***************************************************************************)
Verdict(r) == IF ManifestsMatch(r.tag, r) THEN "ok" ELSE "conflict"

Settle(r, o) ==
  CASE o = "found" -> PutEnded(r, Verdict(r))
    [] o = "notfound" -> StartPublish(r)
    [] OTHER -> PutEnded(r, o)

ResolveAlwaysCleans(r, o) ==
  IF o = "found"
    THEN PutEnded([r EXCEPT !.safe = TRUE], Verdict(r))
    ELSE PutEnded(r, ErrFor(r.live))
ResolveByOwner(r, o) ==
  IF o = "found"
    THEN PutEnded([r EXCEPT !.safe = r.tag.pay # r.pay],
                  IF r.tag.pay = r.pay THEN "ok" ELSE "conflict")
    ELSE PutEnded(r, ErrFor(r.live))
Resolve(r, o) ==
  IF o = "found"
    THEN PutEnded([r EXCEPT !.safe = r.tag.pay # r.pay], Verdict(r))
    ELSE PutEnded(r, ErrFor(r.live))

LocateFirstOnly(r, o) == IF o = "found" THEN [r EXCEPT !.pc = "fetch"] ELSE Ended(r, o)
Locate(r, o) ==
  CASE o = "found" -> [r EXCEPT !.pc = "fetch"]
    [] o = "notfound" /\ HasNextCandidate(r) -> NextCandidate(r)
    [] OTHER -> Ended(r, o)

ScanNext(r) == IF HasNextCandidate(r) THEN NextCandidate(r) ELSE Ended(r, "ok")

Scan(r, o) ==
  CASE o = "found" -> [r EXCEPT !.pc = "rmrow"]
    [] o = "notfound" -> ScanNext(r)
    [] OTHER -> Ended(r, o)

AfterRead(r, o) ==
  CASE r.op = "put" /\ r.cand = "legacy" -> Settle(r, o)
    [] r.op = "put" /\ r.cand = "current" -> Resolve(r, o)
    [] r.op = "get" -> Locate(r, o)
    [] OTHER -> Scan(r, o)

-----------------------------------------------------------------------------
(* The caller's side. *)

(* A nil context, an invalid name or a nil source: refused before any I/O. *)
Reject(c) ==
  /\ call[c].pc = "idle"
  /\ call' = [call EXCEPT ![c] = Ended(@, "rejected")]
  /\ UNCHANGED <<store, held>>
  /\ Observe

Begin(c) ==
  /\ call[c].pc = "idle"
  /\ \E k \in Keys, o \in {"put", "get", "delete"}, d \in Contents :
       call' = [call EXCEPT ![c] =
                  [@ EXCEPT !.pc = "acquire", !.op = o, !.key = k,
                            !.data = IF o = "put" THEN d ELSE NoData]]
  /\ UNCHANGED <<store, held>>
  /\ Observe

Return(c) ==
  /\ call[c].pc = "done"
  /\ call' = [call EXCEPT ![c] = NoCall]
  /\ UNCHANGED <<store, held>>
  /\ Observe

-----------------------------------------------------------------------------
(* The transfer gate: a channel of MaxTransfers slots, shared by all calls. *)

(* Having its slot, a Put draws its payload id; Get and Delete read a manifest. *)
AcquireUnbounded(c) ==
  /\ call[c].pc = "acquire"
  /\ held' = held \cup {c}
  /\ \/ /\ call[c].op = "put"
        /\ \E p \in Payloads \ used :
             /\ used' = used \cup {p}
             /\ call' = [call EXCEPT ![c] = [@ EXCEPT !.pc = "upload", !.pay = p]]
     \/ /\ call[c].op # "put"
        /\ call' = [call EXCEPT ![c] = [@ EXCEPT !.pc = "head"]]
        /\ UNCHANGED used
  /\ UNCHANGED <<rows, payloads>>
  /\ Observe

Acquire(c) ==
  /\ call[c].pc = "acquire"
  /\ Cardinality(held) < MaxTransfers
  /\ held' = held \cup {c}
  /\ \/ /\ call[c].op = "put"
        /\ \E p \in Payloads \ used :
             /\ used' = used \cup {p}
             /\ call' = [call EXCEPT ![c] = [@ EXCEPT !.pc = "upload", !.pay = p]]
     \/ /\ call[c].op # "put"
        /\ call' = [call EXCEPT ![c] = [@ EXCEPT !.pc = "head"]]
        /\ UNCHANGED used
  /\ UNCHANGED <<rows, payloads>>
  /\ Observe

(* Drawing the id can fail: the slot is taken and given back. *)
AcquireNoIdentity(c) ==
  /\ call[c].pc = "acquire" /\ call[c].op = "put"
  /\ Cardinality(held) < MaxTransfers
  /\ call' = [call EXCEPT ![c] = Ended(@, "backend")]
  /\ UNCHANGED <<store, held>>
  /\ Observe

(* Every context has a deadline, so a saturated gate ends in ctx.Err(). *)
AcquireStuck(c) == FALSE /\ UNCHANGED vars
AcquireTimeout(c) ==
  /\ call[c].pc = "acquire"
  /\ call' = [call EXCEPT ![c] = Ended([@ EXCEPT !.live = FALSE], "ctx")]
  /\ UNCHANGED <<store, held>>
  /\ Observe

-----------------------------------------------------------------------------
(* Put: upload, verify, publish, clean up. *)

(* The upload is acknowledged; the service may still have stored other bytes, *)
(* and a reported length that is not the accounted one is an integrity error. *)
UploadOk(c) ==
  LET r == [call[c] EXCEPT !.safe = TRUE] IN
  /\ call[c].pc = "upload" /\ call[c].live
  /\ call[c].data \notin Oversized
  /\ \E d \in {call[c].data, Garbage} :
       /\ payloads' = [payloads EXCEPT ![call[c].pay] = d]
       /\ \/ Step(c, [r EXCEPT !.pc = "verify"])
          \/ /\ d = Garbage
             /\ Step(c, PutEnded(r, "integrity"))
  /\ UNCHANGED <<rows, used>>
  /\ Observe

(* accountedHashReader stops the upload at the byte past the maximum. *)
UploadTooLarge(c) ==
  /\ call[c].pc = "upload"
  /\ call[c].data \in Oversized
  /\ Step(c, PutEnded(call[c], "toolarge"))
  /\ UNCHANGED store
  /\ Observe

(* A failed upload may have been committed; cleanupSafe is still false. *)
UploadFailed(c) ==
  /\ call[c].pc = "upload"
  /\ \E live \in {call[c].live, FALSE} :
       Step(c, PutEnded([call[c] EXCEPT !.live = live], ErrFor(live)))
  /\ \/ UNCHANGED payloads
     \/ /\ LostAcks /\ call[c].data \notin Oversized
        /\ payloads' = [payloads EXCEPT ![call[c].pay] = call[c].data]
  /\ UNCHANGED <<rows, used>>
  /\ Observe

(* verifyPayload re-reads length and digest of what was stored. *)
VerifyNothing(c) ==
  /\ call[c].pc = "verify" /\ call[c].live
  /\ Step(c, AfterVerify(call[c]))
  /\ UNCHANGED store
  /\ Observe
VerifyOk(c) ==
  /\ call[c].pc = "verify" /\ call[c].live
  /\ Step(c, IF payloads[call[c].pay] = call[c].data
               THEN AfterVerify(call[c])
               ELSE PutEnded(call[c], "integrity"))
  /\ UNCHANGED store
  /\ Observe

(* A request fails, or a range body breaks off and counts as an integrity error. *)
VerifyFailed(c) ==
  /\ call[c].pc = "verify"
  /\ \E live \in {call[c].live, FALSE} :
       \E o \in {ErrFor(live), "integrity"} :
         Step(c, PutEnded([call[c] EXCEPT !.live = live], o))
  /\ UNCHANGED store
  /\ Observe

(***************************************************************************)
(* A failed attempt at publishing or deleting a row: the SDK tries again   *)
(* when the error is retryable, the context live and attempts are left;    *)
(* otherwise the call goes on with Go, the code that handles the error.     *)
(***************************************************************************)
AttemptsUnlimited(r) == TRUE
AttemptsLeft(r) == r.tries + 1 < MaxAttempts

FailedAttempt(c, Go(_)) ==
  \E live \in {call[c].live, FALSE} :
    LET r == [call[c] EXCEPT !.live = live] IN
    \/ /\ live /\ AttemptsLeft(r)
       /\ Step(c, [r EXCEPT !.tries = @ + 1])
    \/ Step(c, Go([r EXCEPT !.tries = 0]))

(* The row already exists or the answer is ambiguous: read it to decide. *)
StartResolve(r) == [r EXCEPT !.pc = "head", !.tries = 0]

OwnRow(r) == [data |-> r.data, pay |-> r.pay]

(* PutObject of the manifest with If-None-Match: "*". *)
PublishOverwrites(c) ==
  /\ call[c].pc = "publish" /\ call[c].live
  /\ rows' = [rows EXCEPT !["current"][call[c].key] = OwnRow(call[c])]
  /\ Step(c, PutEnded(call[c], "ok"))
  /\ UNCHANGED <<payloads, used>>
  /\ Observe
PublishCreated(c) ==
  /\ call[c].pc = "publish" /\ call[c].live
  /\ rows["current"][call[c].key] = NoRow
  /\ rows' = [rows EXCEPT !["current"][call[c].key] = OwnRow(call[c])]
  /\ Step(c, PutEnded(call[c], "ok"))
  /\ UNCHANGED <<payloads, used>>
  /\ Observe

PublishConflict(c) ==
  /\ call[c].pc = "publish" /\ call[c].live
  /\ rows["current"][call[c].key] # NoRow
  /\ Step(c, StartResolve(call[c]))
  /\ UNCHANGED store
  /\ Observe

(* No effect: a refused request, or 409 for one racing another writer. *)
PublishRefused(c) ==
  /\ call[c].pc = "publish"
  /\ FailedAttempt(c, StartResolve)
  /\ UNCHANGED store
  /\ Observe

PublishLost(c) ==
  /\ call[c].pc = "publish" /\ call[c].live /\ LostAcks
  /\ rows["current"][call[c].key] = NoRow
  /\ rows' = [rows EXCEPT !["current"][call[c].key] = OwnRow(call[c])]
  /\ FailedAttempt(c, StartResolve)
  /\ UNCHANGED <<payloads, used>>
  /\ Observe

(* deletePayloadBestEffort on the own payload; any error is ignored. *)
Cleanup(c) ==
  /\ call[c].pc = "cleanup"
  /\ \/ payloads' = [payloads EXCEPT ![call[c].pay] = NoData]
     \/ UNCHANGED payloads
  /\ Step(c, [call[c] EXCEPT !.pc = "done"])
  /\ UNCHANGED <<rows, used>>
  /\ Observe

-----------------------------------------------------------------------------
(* readManifestAt: HEAD, then GET of exactly that object (If-Match). *)

RowAt(r) == rows[r.cand][r.key]

HeadFound(c) ==
  /\ call[c].pc = "head" /\ call[c].live
  /\ RowAt(call[c]) # NoRow
  /\ Step(c, [call[c] EXCEPT !.pc = "get", !.tag = RowAt(call[c])])
  /\ UNCHANGED store
  /\ Observe

(* 404, and for the legacy encoding also 400, mean that there is no row. *)
HeadAbsent(c) ==
  /\ call[c].pc = "head" /\ call[c].live
  /\ \/ RowAt(call[c]) = NoRow
     \/ call[c].cand = "legacy" /\ Legacy400
  /\ Step(c, AfterRead(call[c], "notfound"))
  /\ UNCHANGED store
  /\ Observe

(* A length outside the manifest's bounds is refused without a GET. *)
HeadDamaged(c) ==
  /\ call[c].pc = "head" /\ call[c].live
  /\ RowAt(call[c]) = BadRow
  /\ Step(c, AfterRead(call[c], "integrity"))
  /\ UNCHANGED store
  /\ Observe

HeadRefused(c) ==
  /\ call[c].pc = "head"
  /\ \E live \in {call[c].live, FALSE} :
       Step(c, AfterRead([call[c] EXCEPT !.live = live], ErrFor(live)))
  /\ UNCHANGED store
  /\ Observe

(* 404 after HEAD is an integrity error, 412 a backend error; the row that *)
(* is read is decoded and its binding to the key is checked.               *)
GetRowOk(c) ==
  /\ call[c].pc = "get" /\ call[c].live
  /\ Step(c, AfterRead(call[c],
               CASE RowAt(call[c]) = NoRow -> "integrity"
                 [] RowAt(call[c]) # NoRow /\ RowAt(call[c]) # call[c].tag -> "backend"
                 [] OTHER -> IF call[c].tag = BadRow THEN "integrity" ELSE "found"))
  /\ UNCHANGED store
  /\ Observe

(* The request fails, or its body breaks off and does not decode. *)
GetRowRefused(c) ==
  /\ call[c].pc = "get"
  /\ \E live \in {call[c].live, FALSE} :
       \E o \in {ErrFor(live), "integrity"} :
         Step(c, AfterRead([call[c] EXCEPT !.live = live], o))
  /\ UNCHANGED store
  /\ Observe

-----------------------------------------------------------------------------
(* Delete: the row first, then its payload, for every encoding. *)

RemoveRow(c) ==
  /\ call[c].pc = "rmrow" /\ call[c].live
  /\ rows' = [rows EXCEPT ![call[c].cand][call[c].key] = NoRow]
  /\ Step(c, [call[c] EXCEPT !.pc = "rmpay", !.tries = 0])
  /\ UNCHANGED <<payloads, used>>
  /\ Observe

DeleteFailed(r) == Ended(r, ErrFor(r.live))

RemoveRowErrorIgnored(c) ==
  /\ call[c].pc = "rmrow"
  /\ Step(c, [call[c] EXCEPT !.pc = "rmpay", !.tries = 0])
  /\ UNCHANGED store
  /\ Observe
RemoveRowRefused(c) ==
  /\ call[c].pc = "rmrow"
  /\ FailedAttempt(c, DeleteFailed)
  /\ UNCHANGED store
  /\ Observe

RemoveRowLost(c) ==
  /\ call[c].pc = "rmrow" /\ call[c].live /\ LostAcks
  /\ rows' = [rows EXCEPT ![call[c].cand][call[c].key] = NoRow]
  /\ FailedAttempt(c, DeleteFailed)
  /\ UNCHANGED <<payloads, used>>
  /\ Observe

(* deletePayloadBestEffort on the payload of the manifest that was read. *)
RemovePayload(c) ==
  /\ call[c].pc = "rmpay"
  /\ \/ payloads' = [payloads EXCEPT ![call[c].tag.pay] = NoData]
     \/ UNCHANGED payloads
  /\ Step(c, ScanNext(call[c]))
  /\ UNCHANGED <<rows, used>>
  /\ Observe

-----------------------------------------------------------------------------
(* Get: request the payload, then the caller drains or closes the stream. *)

(* The answer carries the stored bytes, or bytes damaged on the way; a  *)
(* length that is not the manifest's is refused before the stream starts.*)
FetchOk(c) ==
  /\ call[c].pc = "fetch" /\ call[c].live
  /\ LET bytes == payloads[call[c].tag.pay] IN
     \/ /\ bytes = NoData
        /\ Step(c, Ended(call[c], "integrity"))
     \/ /\ bytes # NoData
        /\ \E d \in {bytes, Garbage} :
             \/ Step(c, [call[c] EXCEPT !.pc = "stream", !.data = d])
             \/ /\ d = Garbage
                /\ Step(c, Ended(call[c], "integrity"))
  /\ UNCHANGED store
  /\ Observe

FetchRefused(c) ==
  /\ call[c].pc = "fetch"
  /\ \E live \in {call[c].live, FALSE} :
       Step(c, Ended([call[c] EXCEPT !.live = live], ErrFor(live)))
  /\ UNCHANGED store
  /\ Observe

(* EOF is reported only for the length and digest of the manifest. *)
StreamEnd(c) ==
  /\ call[c].pc = "stream"
  /\ Step(c, Ended(call[c], IF call[c].data = call[c].tag.data
                              THEN "value" ELSE "integrity"))
  /\ UNCHANGED store
  /\ Observe

(* A Read fails, or the caller closes the reader before its end. *)
StreamBroken(c) ==
  /\ call[c].pc = "stream"
  /\ \/ Step(c, Ended(call[c], "closed"))
     \/ \E live \in {call[c].live, FALSE} :
          Step(c, Ended([call[c] EXCEPT !.live = live], ErrFor(live)))
  /\ UNCHANGED store
  /\ Observe

-----------------------------------------------------------------------------
PutStep(c) ==
  \/ UploadOk(c) \/ UploadTooLarge(c) \/ UploadFailed(c)
  \/ VerifyOk(c) \/ VerifyFailed(c)
  \/ PublishCreated(c) \/ PublishConflict(c) \/ PublishRefused(c) \/ PublishLost(c)
  \/ Cleanup(c)

ReadStep(c) ==
  \/ HeadFound(c) \/ HeadAbsent(c) \/ HeadDamaged(c) \/ HeadRefused(c)
  \/ GetRowOk(c) \/ GetRowRefused(c)

DeleteStep(c) ==
  \/ RemoveRow(c) \/ RemoveRowRefused(c) \/ RemoveRowLost(c) \/ RemovePayload(c)

(* What the store's code does by itself once a call has begun. *)
CodeStep(c) ==
  \/ Acquire(c) \/ AcquireNoIdentity(c) \/ AcquireTimeout(c)
  \/ PutStep(c) \/ ReadStep(c) \/ DeleteStep(c)
  \/ FetchOk(c) \/ FetchRefused(c)

(* What the caller does: start a call, drain or close a stream, go on. *)
StreamStep(c) == StreamEnd(c) \/ StreamBroken(c)

CallerStep(c) == Begin(c) \/ Reject(c) \/ StreamStep(c) \/ Return(c)

Next == \E c \in Clients : CodeStep(c) \/ CallerStep(c)

Spec == Init /\ [][Next]_vars

(* Requests end by their context's deadline, so the code never stops inside *)
(* a call.  Nothing is assumed of the caller here.                          *)
Fairness == \A c \in Clients : WF_vars(CodeStep(c))

FairSpec == Spec /\ Fairness

-----------------------------------------------------------------------------
TypeOK ==
  /\ rows \in [Encodings -> [Keys -> Row]]
  /\ payloads \in [Payloads -> Contents \cup {NoData, Garbage}]
  /\ used \subseteq Payloads
  /\ held \subseteq Clients
  /\ call \in [Clients -> Call]
  /\ seen \in [Clients -> SUBSET (Contents \cup {NoData, Garbage})]

(* No published row names payload p. *)
Unreferenced(p) == \A e \in Encodings, k \in Keys : rows[e][k].pay # p

(***************************************************************************)
(* The precondition of Put's deferred deletion (blob.go, cleanupSafe):     *)
(* while a Put is about to delete its payload, no manifest names it --     *)
(* after a lost acknowledgement, a retry, or a lost race alike.            *)
(***************************************************************************)
CleanupSafe ==
  \A c \in Clients : call[c].pc = "cleanup" => Unreferenced(call[c].pay)

(***************************************************************************)
(* A published manifest never names bytes other than the ones it binds:    *)
(* its payload is intact, or a Delete or cleanup has removed it.           *)
(***************************************************************************)
PayloadNeverWrong ==
  \A e \in Encodings, k \in Keys :
    rows[e][k].pay # NoPayload =>
      payloads[rows[e][k].pay] \in {rows[e][k].data, NoData}

(***************************************************************************)
(* The inductive invariant behind CleanupSafe and PayloadNeverWrong.  A    *)
(* call's locals are consistent; payload ids belong to one Put, and a row  *)
(* naming a running Put's id is the row of that Put's own key; a Put that  *)
(* may clean up, or has not uploaded yet, is named nowhere; and the bytes  *)
(* behind a verified Put are its content, unless they have been removed.   *)
(***************************************************************************)
LocalInv(r) ==
  /\ r.pc \notin {"idle", "done"} => r.key # NoKey
  /\ r.pc = "get" => r.tag # NoRow
  /\ r.pc \in {"fetch", "stream", "rmrow", "rmpay"} => r.tag \notin {NoRow, BadRow}
  /\ r.op = "put" => r.data \in Contents
  /\ r.pc \in {"idle", "acquire"} => r.pay = NoPayload /\ ~r.safe
  /\ r.pc \in {"upload", "verify", "publish", "cleanup"} => r.op = "put"
  /\ r.pc \in {"fetch", "stream", "rmrow", "rmpay"} => r.op # "put"
  /\ r.op = "put" /\ r.pc \notin {"idle", "acquire", "done"} => r.pay # NoPayload
  /\ r.safe => r.pay # NoPayload
  /\ r.pc = "publish" => ~r.safe
  /\ r.pc = "cleanup" => r.safe

IdsUsed ==
  /\ \A c \in Clients : call[c].pay # NoPayload => call[c].pay \in used
  /\ \A e \in Encodings, k \in Keys : rows[e][k].pay # NoPayload => rows[e][k].pay \in used

OwnersDistinct ==
  \A c, d \in Clients : call[c].pay = call[d].pay /\ call[c].pay # NoPayload => c = d

RowsOwned ==
  \A c \in Clients, e \in Encodings, k \in Keys :
    call[c].pay # NoPayload /\ rows[e][k].pay = call[c].pay
      => e = "current" /\ k = call[c].key

SafeUnreferenced ==
  \A c \in Clients : call[c].safe \/ call[c].pc = "upload" => Unreferenced(call[c].pay)

VerifiedBytes ==
  \A c \in Clients :
    call[c].op = "put" /\ call[c].pc \in {"head", "get", "publish"}
      => payloads[call[c].pay] \in {call[c].data, NoData}

CleanupInv ==
  /\ \A c \in Clients : LocalInv(call[c])
  /\ IdsUsed
  /\ OwnersDistinct
  /\ RowsOwned
  /\ SafeUnreferenced
  /\ VerifiedBytes
  /\ PayloadNeverWrong

(***************************************************************************)
(* "Put ... verifies the committed bytes, then atomically publishes the    *)
(* logical manifest": a row that can be read has its payload.              *)
(***************************************************************************)
NoDangling ==
  \A e \in Encodings, k \in Keys :
    rows[e][k].pay # NoPayload => payloads[rows[e][k].pay] = rows[e][k].data

(***************************************************************************)
(* Every result was true at some moment of the call: the bytes Get         *)
(* delivers to EOF and the content an acknowledged Put claims were the     *)
(* key's value, a not-found key and a deleted key were absent, a conflict  *)
(* met other content.                                                      *)
(***************************************************************************)
ResultsTruthful ==
  \A c \in Clients :
    LET r == call[c] IN
    r.pc = "done" =>
      /\ r.res = "value" => r.data \in seen[c]
      /\ r.res = "notfound" => NoData \in seen[c]
      /\ r.res = "ok" /\ r.op = "put" => r.data \in seen[c]
      /\ r.res = "ok" /\ r.op = "delete" => NoData \in seen[c]
      /\ r.res = "conflict" => seen[c] \cap (Contents \ {r.data}) # {}

(***************************************************************************)
(* Blobs are immutable: the value of a key changes from absent to present  *)
(* and back, never from one content to another, whichever encoding holds   *)
(* it; a row that cannot be decoded is neither replaced nor removed.       *)
(***************************************************************************)
Immutable ==
  [][\A k \in Keys :
       Value(k)' # Value(k) => /\ NoData \in {Value(k), Value(k)'}
                               /\ Garbage \notin {Value(k), Value(k)'}]_vars

(***************************************************************************)
(* The gate: a slot is held exactly by the calls between acquireTransfer   *)
(* and their return -- Get's until its stream ends -- and never more than  *)
(* MaxTransfers at once, on whichever path a call ends.                    *)
(***************************************************************************)
SlotsBalanced ==
  /\ held = {c \in Clients : call[c].pc \notin {"idle", "acquire", "done"}}
  /\ Cardinality(held) <= MaxTransfers

(***************************************************************************)
(* A call that has begun ends, or hands out a stream, even when the gate   *)
(* is saturated by streams nobody drains.                                  *)
(***************************************************************************)
CallsEnd ==
  \A c \in Clients : call[c].pc = "acquire" ~> call[c].pc \in {"done", "stream"}

(***************************************************************************)
(* When callers drain or close their streams, as Get's documentation asks  *)
(* of them, every slot comes back.                                         *)
(***************************************************************************)
SlotsReturn ==
  (\A c \in Clients : WF_vars(StreamStep(c)))
    => \A c \in Clients : c \in held ~> c \notin held

(***************************************************************************)
(* "BlobIntegrityError means an object exists but cannot be trusted":      *)
(* when a Get reports one, its key has a manifest.                         *)
(***************************************************************************)
IntegrityMeansObjectExists ==
  [][\A c \in Clients :
       call[c].op = "get" /\ call[c].res = "none" /\ call'[c].res = "integrity"
         => ValueIn(rows', call[c].key) # NoData]_vars
=============================================================================
