--------------------------- MODULE Configuration ---------------------------
(***************************************************************************)
(* Open (s3store.go): Options.resolve (options.go), the encryption policy  *)
(* (encryption.go), and what the resolved options mean for the Store's     *)
(* later transfers: how large their accounted buffers are together, and    *)
(* under which encryption the objects they create are stored.              *)
(*                                                                         *)
(* Strings are classes: a field is well formed or belongs to one of the    *)
(* groups resolve tells apart; a prefix and a name are their lengths.      *)
(* Sizes are counted in units, bytes in the code, so that an instance may  *)
(* be a miniature or have the code's own numbers in MiB.                   *)
(***************************************************************************)
EXTENDS Integers, Sequences, FiniteSets, FiniteSetsExt

CONSTANTS
  MinMultipart, MaxMultipart,          \* minMultipartBytes, maxMultipartBytes
  DefaultThreshold, DefaultPartSize,   \* defaultMultipart...
  DefaultConcurrency, MaxConcurrency,
  DefaultTransfers, MaxTransfers,      \* ...MaxConcurrentTransfers
  MemoryBudget,                        \* maxAggregateTransferMemory
  MaxUploadParts,
  Requests,                            \* the Options callers try
  BucketDefault,                       \* the bucket's encryption, unknown to Open
  Callers                              \* concurrent Puts

ASSUME ConfigurationAssumption ==
  /\ {MinMultipart, MaxMultipart, DefaultThreshold, DefaultPartSize, DefaultConcurrency,
      MaxConcurrency, DefaultTransfers, MaxTransfers, MemoryBudget, MaxUploadParts}
       \subseteq Nat \ {0}
  /\ MaxUploadParts > 1
  /\ \A o \in Requests :
       /\ {o.threshold, o.partSize, o.concurrency, o.transfers} \subseteq Int
       /\ o.prefix \in Nat

MaxDeploymentPrefix == 256
MaxName             == 512    \* of storage.ValidateName
MaxObjectKey        == 1024
MaxManifest         == 1024
MaxSegment          == 255
ManifestHeader      == 52

-----------------------------------------------------------------------------
(* options.go: what each check of resolve refuses *)

EndpointRefused(o) ==
  \/ o.endpoint \in {"blank", "malformed", "userinfo", "query", "fragment", "path"}
  \/ o.scheme = "http" /\ (~o.allowInsecure \/ ~o.loopback)
  \/ o.scheme \notin {"http", "https"}

validRegion(region) == region \notin {"blank", "bad"}
validBucket(bucket) == bucket \notin {"blank", "bad"}

PrefixRefusedAsName(o) == o.prefix \notin 1..MaxName \/ ~o.prefixCanonical
PrefixRefused(o) ==
  o.prefix = 0 \/ o.prefix > MaxDeploymentPrefix \/ o.prefix > MaxName \/ ~o.prefixCanonical

validateKMSKeyRefused(o) ==
  IF o.encryption = "kms" THEN o.kms # "ok" ELSE o.kms # "empty"

confirmedByThisModule(mode) == mode \in {"aes256", "kms"}
PolicyRefused(o) == o.required /\ ~confirmedByThisModule(o.encryption)

OrDefault(requested, default) == IF requested = 0 THEN default ELSE requested
SizeRefused(requested) ==
  requested # 0 /\ (requested < MinMultipart \/ requested > MaxMultipart)
CountRefused(requested, default, limit) ==
  requested < 0 \/ OrDefault(requested, default) > limit

accountedOneMore(partSize) == partSize * MaxUploadParts
accountedObjectSize(partSize) == partSize * MaxUploadParts - 1

Resolved(o) ==
  LET partSize == OrDefault(o.partSize, DefaultPartSize) IN
  [threshold   |-> OrDefault(o.threshold, DefaultThreshold),
   partSize    |-> partSize,
   maxObject   |-> accountedObjectSize(partSize),
   concurrency |-> OrDefault(o.concurrency, DefaultConcurrency),
   transfers   |-> OrDefault(o.transfers, DefaultTransfers),
   encryption  |-> o.encryption,
   kms         |-> o.kms,
   prefix      |-> o.prefix]

PerTransferMemory(r) == r.threshold + (r.concurrency + 1) * r.partSize

BudgetRefused(r) == PerTransferMemory(r) * r.transfers > MemoryBudget

(* The checks in the order of resolve: a refusal names the first. *)
IdentityChecks(o) == <<
  <<"Endpoint", EndpointRefused(o)>>,
  <<"Region", ~validRegion(o.region)>>,
  <<"Bucket", ~validBucket(o.bucket)>>,
  <<"DeploymentPrefix", PrefixRefused(o)>>,
  <<"AddressingStyle", o.addressing = "unknown">> >>

PostureChecks(o) == <<
  <<"Encryption", o.encryption \in {"unspecified", "unknown"}>>,
  <<"KMSKeyID", validateKMSKeyRefused(o)>>,
  <<"EncryptionPolicy", PolicyRefused(o)>> >>

SizingChecks(o, r) == <<
  <<"MultipartThreshold", SizeRefused(o.threshold)>>,
  <<"MultipartPartSize", SizeRefused(o.partSize)>>,
  <<"MultipartThreshold", r.threshold < r.partSize>>,
  <<"Concurrency", CountRefused(o.concurrency, DefaultConcurrency, MaxConcurrency)>>,
  <<"MaxConcurrentTransfers", CountRefused(o.transfers, DefaultTransfers, MaxTransfers)>>,
  <<"DefaultOperationTimeout", o.timeout \in {"negative", "below minimum"}>>,
  <<"TransferMemoryBudget", BudgetRefused(r)>> >>

Checks(o) == IdentityChecks(o) \o PostureChecks(o) \o SizingChecks(o, Resolved(o))

Refusal(o) ==
  LET failed == {i \in DOMAIN Checks(o) : Checks(o)[i][2]} IN
  IF failed = {} THEN "none" ELSE Checks(o)[Min(failed)][1]

-----------------------------------------------------------------------------
VARIABLES
  asked,    \* the Options of the last Open
  outcome,  \* its result: the field refused, "open", or "none" before
  store,    \* resolvedOptions of the Store, meaningful once open
  pc,       \* per caller: "idle", "reading", "parts", "manifest"
  size,     \* per caller: bytes the accounted reader has counted
  input,    \* per caller: encryption headers of its UploadObjectInput
  objects   \* the objects stored so far: how each was created, its encryption

vars == <<asked, outcome, store, pc, size, input, objects>>

NoHeaders == [sse |-> "", key |-> ""]

Init ==
  /\ asked \in Requests
  /\ outcome = "none" /\ store = Resolved(asked)
  /\ pc = [c \in Callers |-> "idle"] /\ size = [c \in Callers |-> 0]
  /\ input = [c \in Callers |-> NoHeaders]
  /\ objects = {}

UnchangedStore == UNCHANGED <<asked, outcome, store>>

Returns(o, result) ==
  /\ outcome # "open"
  /\ asked' = o /\ outcome' = result /\ store' = Resolved(o)
  /\ UNCHANGED <<pc, size, input, objects>>

OpenRefused(o) == Refusal(o) # "none" /\ Returns(o, Refusal(o))
OpenNilContext(o) == Refusal(o) = "none" /\ Returns(o, "DeadlineRequired")
OpenConfigFails(o) == Refusal(o) = "none" /\ Returns(o, "Credentials")
OpenOk(o) == Refusal(o) = "none" /\ Returns(o, "open")

(* A refused caller tries the same options again or gives up. *)
Open == OpenRefused(asked) \/ OpenNilContext(asked) \/ OpenConfigFails(asked) \/ OpenOk(asked)

(* newStore sizes the gate; acquireTransfer waits for room in it. *)
Running == {c \in Callers : pc[c] # "idle"}

(* Two functions on two SDK types: of the payload's upload, and of the     *)
(* manifest's PUT.                                                         *)
applyTransferEncryption(in) ==
  CASE store.encryption = "aes256" -> [in EXCEPT !.sse = "AES256"]
    [] store.encryption = "kms"    -> [in EXCEPT !.sse = "aws:kms", !.key = store.kms]
    [] OTHER                       -> in

applyEncryptionWithoutKey(in) ==
  CASE store.encryption = "aes256" -> [in EXCEPT !.sse = "AES256"]
    [] store.encryption = "kms"    -> [in EXCEPT !.sse = "aws:kms"]
    [] OTHER                       -> in
applyEncryption(in) ==
  CASE store.encryption = "aes256" -> [in EXCEPT !.sse = "AES256"]
    [] store.encryption = "kms"    -> [in EXCEPT !.sse = "aws:kms", !.key = store.kms]
    [] OTHER                       -> in

(* A Put gets its slot and builds the input of its upload. *)
Begin(c) ==
  /\ outcome = "open" /\ pc[c] = "idle"
  /\ Cardinality(Running) < store.transfers
  /\ pc' = [pc EXCEPT ![c] = "reading"]
  /\ size' = [size EXCEPT ![c] = 0]
  /\ input' = [input EXCEPT ![c] = applyTransferEncryption(NoHeaders)]
  /\ UnchangedStore /\ UNCHANGED objects

(* The accounted reader never counts past maxObject.  The manager creates  *)
(* a multipart upload once the body is larger than the threshold.          *)
Landmarks == {1, store.threshold, store.threshold + 1, store.maxObject - 1, store.maxObject}

Reads(c, n) ==
  /\ pc[c] \in {"reading", "parts"}
  /\ size[c] < n /\ n <= store.maxObject
  /\ size' = [size EXCEPT ![c] = n]
  /\ pc' = [pc EXCEPT ![c] = IF n > store.threshold THEN "parts" ELSE @]
  /\ UnchangedStore /\ UNCHANGED <<input, objects>>

(* The service encrypts as the creating request says -- PutObject, or for  *)
(* parts CreateMultipartUpload -- and else as the bucket does.             *)
StoredUnder(headers) == IF headers.sse = "" THEN BucketDefault ELSE headers
Stores(how, headers) == objects' = objects \cup {[how |-> how, enc |-> StoredUnder(headers)]}

(* The manager hands the headers of its input on to either request. *)
Uploaded(c) ==
  /\ pc[c] \in {"reading", "parts"}
  /\ pc' = [pc EXCEPT ![c] = "manifest"]
  /\ Stores(IF pc[c] = "reading" THEN "PutObject" ELSE "CreateMultipartUpload", input[c])
  /\ UnchangedStore /\ UNCHANGED <<size, input>>

ToIdle(c) ==
  /\ pc' = [pc EXCEPT ![c] = "idle"]
  /\ size' = [size EXCEPT ![c] = 0]
  /\ UnchangedStore /\ UNCHANGED input

Publishes(c) ==
  /\ pc[c] = "manifest"
  /\ Stores("publishManifest", applyEncryption(NoHeaders))
  /\ ToIdle(c)

(* The upload fails or is refused as too large, or the payload or the *)
(* manifest is not accepted.                                          *)
Fails(c) ==
  /\ pc[c] # "idle"
  /\ ToIdle(c) /\ UNCHANGED objects

Next ==
  \/ Open
  \/ \E c \in Callers :
       \/ Begin(c)
       \/ \E n \in Landmarks : Reads(c, n)
       \/ Uploaded(c)
       \/ Publishes(c)
       \/ Fails(c)

Spec == Init /\ [][Next]_vars

-----------------------------------------------------------------------------
(* The transfer manager's part size for an object of n bytes (README.md).  *)
ActualPartSize(n) ==
  IF n \div store.partSize >= MaxUploadParts
    THEN n \div MaxUploadParts + 1 ELSE store.partSize

(* The accounted buffers of a transfer at that part size. *)
AccountedFor(c) == store.threshold + (store.concurrency + 1) * ActualPartSize(size[c])

(***************************************************************************)
(* The accounted figure Open checked against 512 MiB still covers the      *)
(* transfers that run together at the part size the manager then uses:     *)
(* neither a full gate nor an object of the largest accepted size makes    *)
(* the sum of threshold and part buffers exceed it, which takes the check  *)
(* of resolve, the gate's capacity and the object maximum together.  It is *)
(* the steady state of the manager's pools and no bound on the process's   *)
(* memory: a body being read before its pool exists transiently takes more *)
(* than the threshold (README.md, "Buffering before the pool exists").     *)
(***************************************************************************)
AccountedWithinBudget == MapThenSumSet(AccountedFor, Running) <= MemoryBudget

(***************************************************************************)
(* What confirmedByThisModule rests on: whichever request created it, and  *)
(* in whichever SDK type, an object lies in the bucket under the accepted  *)
(* encryption.  Payloads, small or multipart, and manifests are stored     *)
(* alike; under KMS with the configured key and not the bucket's; a        *)
(* delegated choice is the bucket's; and under RequireConfirmedEncryption  *)
(* nothing is plaintext in a bucket that has no default.                   *)
(***************************************************************************)
StoredAsConfigured ==
  /\ \A x, y \in objects : x.enc = y.enc
  /\ \A x \in objects :
       /\ asked.encryption = "aes256" => x.enc.sse = "AES256"
       /\ asked.encryption = "kms" => x.enc.sse = "aws:kms" /\ x.enc.key = asked.kms
       /\ asked.encryption = "bucket-default" => x.enc = BucketDefault
       /\ asked.required => x.enc.sse # ""

(* key.go, blob.go, manifest.go: the lengths a prefix and a name lead to. *)
EncodedLength(n) == (4 * n + 2) \div 3
ManifestKeyLength(p, n) ==
  p + 1 + 9 + 64 + 1 + EncodedLength(n) + (EncodedLength(n) - 1) \div MaxSegment
PayloadKeyLength(p) == p + 1 + 12 + 64 + 1 + 32
ManifestLength(p, n) == ManifestHeader + n + PayloadKeyLength(p)

(***************************************************************************)
(* Once Open has accepted a prefix no valid logical key is refused later   *)
(* for its length: object keys and manifest fit, at the longest name too.  *)
(***************************************************************************)
KeysFit ==
  outcome = "open" =>
    \A n \in 1..MaxName :
      /\ ManifestKeyLength(store.prefix, n) <= MaxObjectKey
      /\ PayloadKeyLength(store.prefix) <= MaxObjectKey
      /\ ManifestLength(store.prefix, n) <= MaxManifest
=============================================================================
