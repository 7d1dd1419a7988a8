# A TLA+ model of s3store

`s3store` keeps immutable blobs in an S3 bucket behind the `storage.Blobs`
interface: `Put`, `Get`, `Delete`, `List`. It has no lock, no leader and no
database; everything it guarantees rests on the order of S3 requests, one
conditional write, and what it does when an answer never comes. This directory
models that protocol, checks it with TLC on small instances, and proves most of its
safety with TLAPS for every instance.

## The system

| Part | State | Operations | Hard because |
|---|---|---|---|
| Blob protocol (`blob.go`) | manifest rows and payload objects in the bucket; `payloadKey`, `cleanupSafe` of a running Put | `Put`, `Get`, `Delete` | calls interleave request by request; answers are lost; the SDK repeats requests; each operation is several requests |
| Two manifest encodings (`key.go`, `blob.go`) | for a key above 191 bytes a *current* and a v0.1.1 *legacy* row | fallback in Get, settlement in Put, double removal in Delete | the value of a key is spread over two objects that no request changes together |
| Transfer gate (`transfer.go`), deadlines (`internal/guard`) | a channel of `MaxConcurrentTransfers` slots | acquire, release | many return paths; Get hands its slot to the stream |
| Reader of Get (`blob_reader.go`) and verifier (`blob_io.go`) | `closed`, two `sync.Once`s, byte count, hash, latched end | `Read`, `Close` | Close runs concurrently with a blocked Read without a lock |
| Accounted upload reader (`blob_io.go`) | size, hash | `Read` | boundary at the maximum size |
| Payload verification (`verifyPayload`, `blob.go`) | offset, hasher | HEAD, ranged GETs | ranges must tile the object; bodies may be misframed |
| `List` (`blob.go`) | continuation token, set of keys seen | paging | the bucket changes between pages; the service chooses the tokens |
| Manifest codec, key codec (`manifest.go`, `key.go`) | none | encode, decode | lengths, canonical forms, injectivity |
| Options (`options.go`), encryption (`encryption.go`), `Open` (`s3store.go`) | `resolvedOptions` | `resolve`, `Open` | order of refusals; products of sizes at their limits; headers on four kinds of request |
| Multipart upload (SDK transfer manager) | parts | upload, complete, abort | external; a failed upload may have committed |
| Error redaction (`redact.go`) | none | choice of a fixed text | stateless |
| S3 service; `internal/testserver` is its executable description | objects | PUT `If-None-Match`, HEAD, GET `If-Match`, DELETE, list, multipart | delivers, refuses, or applies a request and loses the answer |

Calls interact only through the bucket and the gate. A Put uploads a payload
under a random id, re-reads and verifies it, then creates the manifest row with
`If-None-Match: *`. A Get reads the row (HEAD, then GET with `If-Match`) and
streams the payload the row names; the stream owns the slot until it ends. A
Delete reads the row, removes it, and then removes the payload, for each
encoding.

What makes it correct: nobody deletes a payload a manifest names; a manifest
never names bytes that were not verified; the value of a key goes only between
absent and present; every answer was true at some moment of the call; every
slot comes back exactly once; calls and Close end; and after Close nothing is
delivered any more.

## Modules

`BlobStore` is the protocol. One step of a client is one S3 request with the
local code up to the next request, so every interleaving of requests is a
behaviour. A request is answered, refused without effect, or *lost*: it took
effect and the call sees an error (`LostAcks`).

| Variable | In the code |
|---|---|
| `rows[e][k]` | the manifest object of key `k` under encoding `e`: content and payload id, absent, or undecodable |
| `payloads[p]` | the payload object `p`: the content, other bytes (`Garbage`), or absent |
| `used` | ids `newPayloadObjectKey` has drawn (random, hence fresh) |
| `held` | the slots of `transferSlots`, by the call that took them |
| `call[c]` | where the call is, and its locals: `pay` = `payloadKey`, `safe` = `cleanupSafe`, `cand` the candidate of `readManifestAt`, `tag` the HEAD's ETag and then the manifest, `tries` the SDK's failed attempts, `live` = `ctx.Err() == nil` |
| `seen[c]` | history only: the values `c`'s key had while its call ran |

| Actions | In the code |
|---|---|
| `Begin`, `Reject`, `Return` | the caller; argument checks before any I/O |
| `Acquire`, `AcquireNoIdentity`, `AcquireTimeout` | `acquireTransfer`, then `newPayloadObjectKey` |
| `UploadOk`, `UploadTooLarge`, `UploadFailed` | `UploadObject` over the accounted reader |
| `VerifyOk`, `VerifyFailed` | `verifyPayload` |
| `PublishCreated`, `PublishConflict`, `PublishRefused`, `PublishLost` | `publishManifest`, each attempt of it |
| `HeadFound`, `HeadAbsent`, `HeadDamaged`, `HeadRefused`, `GetRowOk`, `GetRowRefused` | `readManifestAt`; its four callers continue in `AfterRead` (`Settle`, `Resolve`, `Locate`, `Scan`) |
| `Cleanup` | Put's deferred `deletePayloadBestEffort` |
| `RemoveRow`, `RemoveRowRefused`, `RemoveRowLost`, `RemovePayload` | Delete's two requests |
| `FetchOk`, `FetchRefused`, `StreamEnd`, `StreamBroken` | Get's payload request and its stream |

`Release` is part of every step that returns, as the `defer` is. Contents stand
for size and digest together: two contents are equal exactly when
`manifestsMatch` says so. The key that a manifest binds is not a field of the
row: `readManifestAt` refuses a row whose binding does not match, which here is
an undecodable row. A bucket may start with such a row, in either encoding, as the only
row of its key. Three branches of the code cannot be taken and are left
out: `encodeManifest` and `manifestObjectKey` fail only for names that
`validateBlobKey` and `Open` have already refused, and a `Store` that was not
built by the constructor has no gate.

`Blobs` is the contract: a map from keys to contents, changed only by a running
Put (absent to its content) or Delete (to absent), and results justified by a
value the key had during the call; an error promises nothing.
`BlobStoreRefinement` maps `BlobStore` to it: the value of a key is that of its
first candidate row.

`BlobReader` is one reader: a reading goroutine, any number of closing ones, one
step per access to `closed`, the `Once`s, the request's context or the body.
The body is any `io.ReadCloser` the verifier may be given (as in
`blob_io_test.go`): of the right length or one off, with the right digest or
not, failing at any point with or without bytes, its last bytes with or without
`io.EOF`, and free to answer a Read with neither bytes nor an error. The probe for one
byte past the size takes that last answer for the end; the history `silent` remembers
it. That the body can be longer or shorter than the manifest is stronger than
what Get's `Content-Length` check lets through.

Seven modules open up what `BlobStore` takes as one step, or look at pure code:

* `LateWrites` extends `BlobStore` with `wire`, the requests that a call has given up
  (broken connection, 504, ended context) while the service still has them.
  `PublishGivenUp` and `RemoveRowGivenUp` put one there and go on as the code does
  after an error; `LateArrives` lets the service apply it, conditionally for a
  publish, at any later moment or never. The history `hasty` tells whether a request
  was ever given up with a live context: a call whose context has ended sends
  nothing more, one that is hasty reads the row and may clean up. The history `cleaned`
  has the payloads that cleanups removed.
* `VerifyRanges` is `verifyPayload`: `HeadLength`, then one `RangeOk`, `RangeGarbled` or
  `RangeMisframed` per ranged GET, `Refused` anywhere. The stored object is its
  length and the set of its wrong bytes; SHA-256 is taken as injective.
* `Upload` is one `UploadObject`: `accountedHashReader.Read` (`ReadBytes`, `ReadEof`,
  `Probe`, `SourceFails`), the SDK's transfer manager (`Choose`, `Put*`, `Create*`,
  `Part*`, `Finish`, `Complete*`, `Abort*`) and the service's multipart state
  (`uploads`, `nextID`, `object`). The manager is a library and therefore *external*:
  it is modelled from the options `s3store.go` gives it and from what the tests and
  the repository's README rely on. Bytes are numbered, so that order, repetition
  and omission of parts are visible. Another process's upload is open throughout.
* `ListPaging` is `Store.List` against a bucket that changes between pages. `Table` is
  the service's key order: rows of either shape and foreign rows. `PageOk` cuts a
  page anywhere up to `PageLimit`. `service` is fixed at the start: S3's tokens name a
  position; the fixture's count rows of the listing as it then is (so nothing is
  deleted during a listing there: the next page would skip a row); a rogue service
  answers with any row and any token. `kept` and `ever` are history: rows there at every
  moment, and at some moment, of the listing. Sorting the result is not modelled:
  it is one call on a set of distinct keys.
* `ObjectKeys`, `ManifestCodec`, `Configuration` are the pure parts, wrapped in the
  smallest state machine that produces their inputs: objects written by a Store and
  edits of their keys; a manifest row that is published, overwritten byte by byte,
  and read with a declared length; an `Open` and the transfers of the resulting Store.
  A transfer builds the headers of its upload with `applyTransferEncryption`, those of its
  manifest with `applyEncryption`, and the service stores each object under the headers of
  the request that created it, or under `BucketDefault` if there are none. A read past a
  manifest's declared length may answer nothing although a byte follows (`silent`).
  Object keys are sequences of segments, a segment a sequence of symbols: the 64
  characters of URL-safe base64 in their order, a line break, and a character
  outside. The encoding is the real one, bit by bit, so that a last group's spare
  bits and skipped line breaks, which is where non-canonical encodings live, are
  there; hexadecimal digits have two cases. Only the digest is a stand-in: a few
  hexadecimal symbols computed from the name, injective on the names of the
  instance (`KeysAssumption`), as SHA-256 is taken to be. Manifests have one symbol for
  each header field, sizes beyond `MaxInt` being negative as `int64`. `Codecs` puts the
  two together, one at a time, for the instance and for the proofs. Options that are strings
  are the classes `resolve` tells apart; sizes are exact, in MiB.

The int64 arithmetic of `resolve` cannot wrap: at the limits it computes
(64 + 1) * 5 GiB + 5 GiB, times 32, and 5 GiB * 10000, all below 2^46, so the model
uses plain integers. The refusals of over-long object keys and manifests are dead
code after a successful `Open`; `KeysFit` shows it.

The `...Proofs` modules hold the theorems, one for each specification; the `MC` modules
are the instances TLC runs. A definition preceded by a
variant of it (`EndPastObject` before `End`) shows a plausible defect that a named
property is known to catch.

## Runs

| Run | Instance | Checks | Shows |
|---|---|---|---|
| `Retry` | 2 clients, 1 long key with a v0.1.1 row, a damaged row in either encoding, or none at first, 2 contents, 3 payload ids, 2 attempts, lost answers | `TypeOK`, `CleanupSafe`, `CleanupInv`, `PayloadNeverWrong`, `ResultsTruthful`, `Immutable`, `ImplementsBlobs` | the core safety of the protocol and the invariant the proofs use; two rows behave as one atomic value; a damaged row is never taken for absence |
| `Gate` | 1 slot, 2 clients, a short key and a long one whose lookup may answer 400, an oversized source, fair code | `SlotsBalanced`, `CallsEnd`, `SlotsReturn` | a saturated gate neither overflows nor hangs a call; no path leaks a slot |
| `Reader` | 2 closers, 3 units, buffers up to 2 | `NothingAfterClose`, `EofIsVerified`, `SlotReleasedOnce`, `CloseReturns`, `CloseUnblocksRead` | the reader's shutdown contract, and what its EOF vouches for |
| `Late` | a long key as in `Retry`, lost answers, 1 attempt, up to 2 late requests | `NoDanglingUnlessHasty`, `LateImmutable` | a late write never replaces a blob; unless a call was hasty, no row loses its payload |
| `List` | 4 rows, pages of at most 2, 3 changes, three services, fair code | `ListedFaithfully`, `HonestPagesAccepted`, `SlotReturned`, `ListEnds` | what stayed is listed, what never was there is not, an honest service is not accused; a circle of tokens or a full gate cannot hold a listing past its deadline |
| `VerifyRanges` | sizes 0 to 7, ranges of 3, any wrong bytes | `AcceptedIsExact`, `RangesTile`, `IntactNotAccused` | only the exact payload is accepted, and it is |
| `Upload` | sources 0 to 8, maximum 7, threshold 3, parts of 2, 2 workers, 3 attempts, lost answers | `ObjectWhole`, `OutcomeTrue`, `NothingLeftBehind`, `UploadEnds` | an object is whole or absent; a failed upload is aborted; every upload ends |
| `Codecs` | 3 names, 3 nested deployments, every key two edits away; every manifest body up to 9 symbols over 4 values | `DeploymentsIsolated`, `RowsReadBack`, `DecodingCanonical`, `PayloadBound`, `PublishedReadsBack`, `AcceptedIsCanonical`, `ScanIsExact` | keys of deployments and blobs do not cross; both decoders accept exactly their encoder's images (but see observations a and d) |
| `Opening` | the code's numbers in MiB, every class of options, 3 Puts | `StoredAsConfigured`, `AccountedWithinBudget`, `KeysFit` | check, gate and object maximum together keep the accounted figure; payloads and manifests lie in the bucket under the accepted encryption and key |
| `DanglingManifest` | 2 attempts and lost answers | `NoDangling` **violated** | see findings |
| `LateManifest` | a short key, 1 attempt, 1 late request, no other lost answers | `CleanupFinal` **violated** | see findings |
| `IntegrityError` | 2 clients | `IntegrityMeansObjectExists` **violated** | see findings |

`Late`, `DanglingManifest` and `LateManifest` belong together: lost answers alone, and
requests that outlive their call's context, lose no payload; a lost answer *and* a retry
that meet a Delete do, and so does a publish that outlives a cleanup.

`BlobStore`, `BlobReader`, `ListPaging`, `VerifyRanges` and `Upload` state a type
invariant `TypeOK`. `Retry` checks the protocol's; all five are proved, alone or as a
part of the inductive invariant.

Bounds. Two clients are what every known race needs (one Put against one
Delete, Put or Get). A pool of three payload ids
lets a client put, delete and put again while the other one is in the middle of
its first Put. `MaxAttempts` is 3 in the code; 2 already has a retry after a lost
answer, and the theorems hold for any number. A short key's Put is a long key's without
the look at the legacy row; `Gate` and the three violations have short keys. `Legacy400` is
TRUE in `Gate` only: what the values of a key are under a service that answers 400 needs
the hypothesis `LegacyRefused`, with which the theorems cover it. In the reader,
size 3 with buffers of 2 has a full, a trimmed and a probing Read. Deadlock
checking is on wherever some caller can always start or finish a call; it is off in
`VerifyRanges` and `Upload`, which model one call that ends.

`MaxLate` 2 has a late publish together with a late deletion. In `ListPaging` four
rows with pages of two have a key on both sides of a page cut and of a foreign row,
and three changes let a row be removed and added again while another one moves.
`VerifyRanges` has sizes below, at and above one and two ranges. In `Upload` the
sources lie below, at and one above the threshold and the maximum, which as in the
code is one byte less than a whole number of parts; the last part is full or short.
`Codecs` has names whose encoding fills a part of a segment, one segment, or two; two
edits suffice to move a separator and to change a symbol. Symbol 17 differs from the
last character of one name's encoding in a spare bit, 64 and 65 are a line break and
a character outside. Its manifest bodies go one symbol beyond the largest manifest.
`Opening` has options that need exactly the budget for one and for two transfers, and one Put more than that. Counting in MiB makes the
object maximum one MiB, not one byte, less than 10000 parts; both are below the
size at which the manager inflates its parts.
Symmetry is used in the safety runs only, for clients, contents and payload
ids; long and damaged keys are named, so keys are not permuted. The properties of
`Late` mention neither `seen` nor `cleaned`, so the run views states without these histories
(`LateView`).

Fairness. `FairSpec` assumes that a call that has begun goes on: every context
has a deadline (`guard.Bound`, `RequireDeadline`), so each request ends in an
answer or an error. It assumes nothing of callers, who may leave a stream open
forever. `SlotsReturn` has as its premise that they drain or close it, which Get's
documentation asks of them. In `BlobReader` goroutines are scheduled and an
interrupted socket read returns; that the service ever answers, or that anybody
calls Close, is not assumed. `ListPaging` assumes that deadlines pass and that the code
goes on, nothing of the service or of other calls, which may hold their slots
forever. `Upload` assumes that requests end (they carry the context's deadline) and
that the source's `Read` returns: no context reaches a caller's reader, so that
without it nothing could be said.

## Findings

1. **A retried publish can resurrect a manifest without its payload**
   (`blob.go:133`, `s3store.go:94`; run `DanglingManifest`). The first attempt of
   the manifest PUT commits, its answer is lost, a Delete removes row and
   payload, and the SDK's second attempt creates the row again. Put returns nil.
   From then on Get reports an integrity error and a Put of the same bytes
   returns nil without restoring them, until somebody deletes the key.
2. **A read of another row does not make cleanup safe for good** (`blob.go:142` against
   the comment at `blob.go:129-131`; run `LateManifest`). A manifest PUT that was given up
   with a live context can still be in the service. Put reads somebody else's row and
   deletes its own payload; that row is deleted; the late PUT then creates a row that
   names the deleted payload. This is why `NoDanglingUnlessHasty` carries the premise
   `~hasty`.
3. **An integrity error does not mean that an object exists** (`blob.go:228`,
   `blob.go:467` against `manifest.go:19-22`; run `IntegrityError`). A Get racing
   a Delete reports it for a key that is simply gone.

Smaller observations, met while modelling:

a. *A digest in upper case decodes* (`key.go:125` against `key.go:104`). `List` reports
   such a row's logical key, and Get, Put and Delete never look at the row. No Store
   writes one: it takes foreign data in the namespace. `DecodingCanonical` is stated
   up to the case of the digest.
b. *A Read in flight when Close begins can report bytes or EOF* (`blob_reader.go:115`
   against the comment at `blob_reader.go:108-109`): Close may begin after the second
   look at the latch. The promise of `Store.Get`, about Reads called after Close
   returned, holds (`NothingAfterClose`).
c. *A probe that is answered by nothing passes for the end* (`blob_io.go:94-102`): after a
   Read of no byte and no error the verifier compares digests and reports EOF, without
   having seen the body end. The bytes delivered are the manifest's all the same, Get
   compares `Content-Length` before it streams, and readers are asked not to answer so
   (`io.Reader`). `EofIsVerified` says that it is the only exception to "EOF is
   conditional on exact length and digest" (`Store.Get`).
d. *The read past a manifest is judged by its count alone* (`manifest.go:82`): one that
   fails, or answers nothing, lets a row pass that goes on after the declared length.
   `AcceptedIsCanonical` says that the bytes up to there are canonical still.
e. *A damaged current row next to a v0.1.1 row is seen by Get and Delete, not by Put*
   (`blob.go:126`): Put settles against the legacy row first and answers nil or a conflict,
   where Get reports an integrity error. It takes damage from outside to a bucket
   that never has both rows otherwise (`RowInv`), and the model's initial buckets leave
   it out.

## Proofs

`BlobStoreProofs` proves, for any sets of clients, keys, contents and payload
ids, any `MaxTransfers` and `MaxAttempts`, with or without lost answers and
spurious 400s, from the assumptions `SetAssumption`, `SentinelAssumption` and
`BoundAssumption` of `BlobStore` only:

* `TypeCorrect`: `Spec => []TypeOK`;
* `CleanupNeverDestroys`: `Spec => []CleanupSafe`, the precondition the comment on
  `cleanupSafe` describes;
* `PublishedBytesVerified`: `Spec => []PayloadNeverWrong`;
* `Invariance`: `Spec => [](TypeOK /\ CleanupInv)`, from which the others follow.

`CleanupSafe` alone is not inductive: it speaks of the moment of cleanup, but the
danger is created earlier, when a row is published whose answer is lost. The
invariant therefore says of *every* moment: payload ids are owned by one Put
(`IdsUsed`, `OwnersDistinct`); a row naming a running Put's id is the current row
of that Put's own key (`RowsOwned`), so that reading this one row and finding
another id there proves that no row names it; and a Put whose `cleanupSafe` is
set, or that has not uploaded yet, is named nowhere (`SafeUnreferenced`). The
critical step is `Resolve`, where `cleanupSafe` becomes true again: the row that
was read is not necessarily the row that is there now, so what carries the step
is that a Put publishes only while it is publishing, and after that its id can
only disappear from the row. `VerifiedBytes` and `PayloadNeverWrong` go along for
the bytes. The step proof is organised by effects: `EffectPreserves` shows that
any step changing at most its own locals, its own row and payloads in one of the
permitted ways preserves the invariant, and each action is shown to be such a
step. TLC checks the same `CleanupInv` in `Retry`.

Its second half proves what callers see of the same specification:

| Theorem | Statement |
|---|---|
| `SlotsAlwaysBalanced` | `Spec => []SlotsBalanced` |
| `BlobsImmutable` | `Spec /\ LegacyRefused => Immutable` |
| `ResultsAlwaysTruthful` | `Spec /\ LegacyRefused => []ResultsTruthful` |
| `ProtocolImplementsContract` | `Spec /\ LegacyRefused => ImplementsBlobs` |
| `RowsHavePayloads` | `Spec /\ PublishedOnce => []NoDangling` |

Two of the hypotheses are needed, and each is the code's own. `LegacyRefused` says of
the bucket at the start that a service which answers 400 for v0.1.1's long keys has
no such row; the code reads that 400 as absence on exactly this ground
(`blob.go:437`), and without it a Get would deny a blob that exists. It is true of any
service that does not answer 400. `PublishedOnce`, `MaxAttempts = 1 \/ ~LostAcks`, is
the condition without which finding 1 happens.

The argument goes in two stages. `Move(r, s)` is a summary of a step: from the locals
`r` of a call to its locals `s`, with what it may do to the rows; `StepCases` shows once that
every action is such a move, and everything after that is about a dozen kinds of move
instead of thirty actions. The invariants are

* `PointsInv`: what is known at each point of a call (which result, which candidate,
  which operation);
* `RowInv`: a legacy row and a current row of a key never exist together, a Put that is
  about to publish has no legacy row to compete with, and a Delete removes only rows it
  could decode. This makes the value of a key, read from two objects, change in one step;
* `TruthInv` and `CurrentSeen`: the history `seen` contains the present value while the
  call may still use it, a value that was read, and absence once the current row was
  missed and there is no legacy row. The subtle case is Delete between its two
  removals: the key's value may have been the legacy one all the time;
* `DanglingInv`: a payload is named by one row at most (`RowsDistinct`), by none before
  its manifest is published (`Unpublished`), and a Delete that has removed a row is the
  last to know its payload (`TagsHonest`).

For the refinement, `ContractStep` maps every move to a step of `Blobs` or a stutter.

`LateWritesProofs` adds the requests on the wire: `BlobsImmutableLate`
(`LateSpec /\ LegacyRefused => LateImmutable`) and `RowsHavePayloadsLate`
(`LateSpec /\ PublishedOnce => []NoDanglingUnlessHasty`). Giving a request up is, but for
the wire, the step in which it is refused (`GivenUpFails`), so the invariants above
carry over and only arrivals are new. `WireRows` says that a publish on the wire meets
no legacy row, `LateOwned` that, unless a call was hasty, the Put that sent it neither
reads its row nor cleans up any more, and `LatePending` that it is the only one to
name its payload, which is intact.

`VerifyRangesProofs` proves for every payload size, every range size and any bytes of
the stored object, from `RangeAssumption` only:

* `OnlyExactAccepted`: `Spec => []AcceptedIsExact`;
* `RangesTilePayload`: `Spec => []RangesTile`;
* `IntactAccepted`: `Spec => IntactNotAccused`;
* `RangesInvariant`: `Spec => []RangeInv`, from which they follow.

The result alone is not inductive: that the digest speaks for the object depends on
how far the loop has come. `RangeInv` therefore says (`Reading`) that whenever a range
is about to be requested the length has been compared, exactly the bytes below
`offset` have been asked for and hashed, and if the hash is still good none of these
is wrong. `RangeBounds` is the arithmetic of one range, the truncated last one
included. `BlobStore`'s `VerifyOk` relies on this result.

`BlobReaderProofs` proves `NothingAfterClose`, `EofIsVerified` and `SlotReleasedOnce` for any
number of closers, any body and any buffers. `ReaderInv` says where each goroutine is:
one at a time inside `closeOnce`, and none returned before it is done (`OnceInv`); the
latch set before anything else Close does (`LatchInv`); a Read that began after a
Close returned never gets past the first look at the latch (`LateInv`); EOF only from
the verifier's comparison, at the body's end or after a silent probe (`VerifierInv`); and the slot given back by whoever comes
first (`ReleaseInv`).

`ListPagingProofs` proves `ListedFaithfully`, `HonestPagesAccepted` and `SlotReturned` for
every table of rows, page limit and number of changes. `PagingInv` says that what stayed
and has gone by was found, where "gone by" is a position for S3's tokens and
a rank, which moves when rows are added, for the fixture's; and that with honest tokens
the guard against repeated ones never fires.

`UploadProofs` proves `TypeOK`, `NothingLeftBehind`, `ObjectWhole` and `OutcomeTrue` for every size
of source, part, threshold and maximum and any number of attempts. `IdsInv` counts
upload ids against failed attempts, so that they never reach another process's id.
`ReaderInv` says that what was handed out is a prefix of the source, `PartsInv` that an
upload in progress holds under each number nothing or that part of the source, what was
acknowledged for sure, and `ObjectInv` that the object is whole. That the parts put
together are the source (`PartsPutTogether`) is an induction over the parts.

`ConfigurationProofs` proves `StoredAsConfigured`, `AccountedWithinBudget` and `KeysFit` for
all limits, all options, any bucket default and any number of callers. `AcceptedPasses` turns
`resolve`'s list of checks into facts about what it accepted. For the encryption,
`SameHeaders` shows that the two functions on the two SDK types come to the same headers,
and `StoredInv` carries what an upload's input holds, and what each stored object was
created with, from the moment the input is built to the end of the Put. The accounted
figure needs three parts together: `GateInv` bounds the running transfers by the gate's
capacity and their sizes by the accounted maximum, `PartsStaySmall` shows that at such
sizes the manager never inflates its parts, and `SumOfEqual` that the sum is then the
product `resolve` checked. It is the figure of the repository's README for the manager's
pools in their steady state, not the memory of the process: a body that is read before
its pool exists transiently takes more than the threshold (`src/README.md:113-135`), and
nothing here speaks of that.

`CodecsProofs` proves all seven invariants of the codecs, for every set of deployment
prefixes and names, every segment limit, name length, field width and size limit:

| Theorem | Statement |
|---|---|
| `PublishedAlwaysReadsBack` | `CodecsSpec => []PublishedReadsBack` |
| `AcceptedAlwaysCanonical` | `CodecsSpec => []AcceptedIsCanonical` |
| `ScanAlwaysExact` | `CodecsSpec => []ScanIsExact` |
| `RowsAlwaysReadBack` | `CodecsSpec => []RowsReadBack` |
| `DecodingAlwaysCanonical` | `CodecsSpec => []DecodingCanonical` |
| `DeploymentsAlwaysIsolated` | `CodecsSpec => []DeploymentsIsolated` |
| `PayloadAlwaysBound` | `CodecsSpec => []PayloadBound` |

The state needs little: `ManifestInv` says that an untouched body is the encoding of the
manifest that was written, `RowsInv` that an owned row is the key of its owner. The work
is in the operators. For manifests, `DecodesEncoding` and `EncodesDecoding` are the two
directions, `DecodesPrefix` what they say of a body that goes on; `ScanComputes` shows that before each index the loop of
`validInternalObjectKey` has judged exactly the segments that ended. For keys,
`DecodesEncoded` shows that base64 is undone, from `CharacterBits` and `ByteBits`, which say
that characters and bytes have the bits of the same word; `SegmentsOf` that the segments
make up the encoding, none of them empty and all but the last of them full; and
`LogicalKeyAnswers` which conditions the decoder comes to.

Isolation rests on one fact, `OneFrame`. `Framed(d, s, r)` says that a key has the prefix
`d`, a namespace `s`, a hexadecimal segment, and after it only full segments before the
last. Whatever a Store writes, lists or takes for a payload has such a frame, and no key
has two. For of two prefixes the longer one ends inside the other's frame, and its
namespace would have to lie where that frame has `v1` (but `blobs` and `payloads` are not
`v1`), the digest (but they are not hexadecimal), or two full segments (but the two
segments of a namespace differ in length). This is why nested prefixes do no harm,
and what a change of the namespaces would have to keep.

The library's induction theorems take a predicate as an operator, which the
installed provers cannot instantiate. The inductions over parts, callers, segments,
characters and scans therefore use the existence of a smallest element
(`LeastNatural`, from well-foundedness of `<`, stated of sets): a smallest argument at
which a recursive definition has no value, or differs from an explicit one,
is impossible.

Assumptions. Each module's named ASSUMEs, which TLC evaluates in every run, are all
that is used besides the two hypotheses. They are what the code guarantees: sizes,
counts and attempts positive, a threshold no smaller than a part (`resolve`), options of Go's
integer types (`ConfigurationAssumption`), the empty prefix among List's prefixes
(`ListAssumption`), a bound on sources that allows one byte at least
(`UploadAssumption`), names that `storage.ValidateName` accepts, with different digests
(`KeysAssumption`), a manifest limit above the header (`CodecAssumption`).

Only model-checked: the liveness properties (`CallsEnd`, `SlotsReturn`, `CloseReturns`,
`CloseUnblocksRead`, `ListEnds`, `UploadEnds`), which rest on fairness and which the proof
system does not handle. Every invariant and every other action property of the
passing runs is a theorem.

## Not modelled

* Error redaction (`redact.go`) and the error types: a stateless choice among fixed
  texts, which a model would only repeat.
* The fixture's request routing, XML, request log and counters: they serve the
  tests, not the store.
* A key that starts with a damaged current row and a v0.1.1 row (observation e), and rows
  that are damaged while calls run.
* How much memory transfers really take (`AccountedWithinBudget` is the accounted figure).
* The grammar of endpoints, regions, buckets and KMS key names, beyond which class
  of them is refused; that SDK fields carry the configured values.
* A v0.1.1 writer running at the same time, which the code excludes, and two
  concurrent Reads of one reader, which are documented misuse.
* Which goroutine of the transfer manager sends which part, beyond `Workers` parts
  being on the way at once: the manager is a library.

## Plan

1. Done: `BlobStore`, `Blobs`, `BlobStoreRefinement`, `BlobReader`, `BlobStoreProofs`.
2. Done: `LateWrites`, `ListPaging`, `VerifyRanges` with its proofs, `Upload`, `ObjectKeys`,
   `ManifestCodec`, `Configuration`.
3. Done: the proofs of the protocol's contract and refinement, late writes, the
   reader, listing, uploads and the configuration.
4. Done: `Codecs` and the proofs of both codecs.
5. Left to model: the gate composed with the reader, the stream's slot across the
   two modules.
