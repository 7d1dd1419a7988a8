--------------------------- MODULE ManifestCodec ---------------------------
(***************************************************************************)
(* The bytes of a manifest (manifest.go): encodeManifest, decodeManifest   *)
(* and the check of an internal object key, against bodies and declared    *)
(* lengths a service can answer with.                                      *)
(*                                                                         *)
(* In miniature: every header field (magic, the two lengths, the size, the *)
(* digest) is one byte wide, and the sizes beyond MaxInt are those beyond  *)
(* int64.  As characters, 2 is the slash, 3 the dot, 0 a character outside *)
(* the grammar and every other byte a letter.                              *)
(***************************************************************************)
EXTENDS Naturals, Sequences, SequencesExt

CONSTANTS
  MaxName,      \* longest logical key storage.ValidateName accepts
  MaxKey,       \* maxS3ObjectKeyBytes
  MaxManifest,  \* maxManifestBytes
  MaxLength,    \* math.MaxUint16, the largest value of a field
  MaxInt,       \* largest size that is not negative as a signed integer
  MaxBody       \* bound on the bodies enumerated

Bytes       == 0..MaxLength
Slash       == 2
Dot         == 3
Magic       == 1
HeaderBytes == 5

(* What an instance must satisfy. *)
CodecAssumption ==
  /\ {MaxName, MaxKey, MaxManifest, MaxBody, MaxLength, MaxInt} \subseteq Nat
  /\ Dot <= MaxLength
  /\ MaxManifest < MaxBody /\ HeaderBytes < MaxManifest

-----------------------------------------------------------------------------
(* The segments of a key: its maximal runs without a slash. *)
Segments(key) ==
  LET cut  == {0, Len(key) + 1} \cup {i \in DOMAIN key : key[i] = Slash}
      ends == {p \in cut \X cut : p[1] < p[2] /\ \A k \in cut : ~(p[1] < k /\ k < p[2])}
  IN {SubSeq(key, p[1] + 1, p[2] - 1) : p \in ends}

Canonical(key) ==
  /\ \A i \in DOMAIN key : key[i] # 0
  /\ \A s \in Segments(key) : s \notin {<<>>, <<Dot>>, <<Dot, Dot>>}

(* storage.ValidateName *)
ValidName(key) == Len(key) \in 1..MaxName /\ Canonical(key)

(* The loop's body: one index past the end closes the last segment. *)
Scan(key, st, i) ==
  LET inside == IF i <= Len(key) THEN key[i] # Slash ELSE FALSE IN
  IF inside
    THEN [st EXCEPT !.ok = @ /\ key[i] # 0]
    ELSE [ok    |-> st.ok /\ SubSeq(key, st.start, i - 1) \notin {<<>>, <<Dot>>, <<Dot, Dot>>},
          start |-> i + 1]

Scanned(key, last) ==
  LET after[i \in 0..last] ==
        IF i = 0 THEN [ok |-> TRUE, start |-> 1] ELSE Scan(key, after[i - 1], i)
  IN after[last]

ScanShort(key) == Len(key) \in 1..MaxKey /\ Scanned(key, Len(key)).ok
ValidInternalObjectKey(key) == Len(key) \in 1..MaxKey /\ Scanned(key, Len(key) + 1).ok

-----------------------------------------------------------------------------
(* encodeManifest: a negative Size is one beyond MaxInt as unsigned. *)

EncodedUnbounded(m) ==
  /\ ValidName(m.logical) /\ ValidInternalObjectKey(m.payload)
  /\ m.size <= MaxInt
  /\ Len(m.logical) <= MaxLength /\ Len(m.payload) <= MaxLength
Encodable(m) ==
  /\ ValidName(m.logical) /\ ValidInternalObjectKey(m.payload)
  /\ m.size <= MaxInt
  /\ Len(m.logical) <= MaxLength /\ Len(m.payload) <= MaxLength
  /\ HeaderBytes + Len(m.logical) + Len(m.payload) <= MaxManifest

Encode(m) ==
  <<Magic, Len(m.logical), Len(m.payload), m.size, m.digest>> \o m.logical \o m.payload

(* decodeManifest: encoded is the body up to the declared length.  The read *)
(* of one more byte is judged by its count alone, so one that fails or      *)
(* answers neither byte nor error, silent, passes for the end.              *)
Fields(encoded) ==
  [logical |-> SubSeq(encoded, HeaderBytes + 1, HeaderBytes + encoded[2]),
   payload |-> SubSeq(encoded, HeaderBytes + encoded[2] + 1, HeaderBytes + encoded[2] + encoded[3]),
   size    |-> encoded[4],
   digest  |-> encoded[5]]

LengthsCover(encoded) == HeaderBytes + encoded[2] + encoded[3] <= Len(encoded)
LengthsAddUp(encoded) == HeaderBytes + encoded[2] + encoded[3] = Len(encoded)

Decodable(body, declared, silent) ==
  /\ declared \in HeaderBytes..MaxManifest
  /\ Len(body) >= declared      \* io.ReadFull
  /\ Len(body) <= declared \/ silent      \* no trailing byte seen
  /\ LET encoded == SubSeq(body, 1, declared) IN
     /\ encoded[1] = Magic
     /\ LengthsAddUp(encoded)
     /\ encoded[4] <= MaxInt
     /\ ValidName(Fields(encoded).logical)
     /\ ValidInternalObjectKey(Fields(encoded).payload)

-----------------------------------------------------------------------------
(* The row of one key: what was published, what the service holds, and     *)
(* what the last read of it answered.                                      *)

Keys == UNION {[1..n -> Bytes \ {0}] : n \in 0..MaxLength}
Manifests == [logical : Keys, payload : Keys, size : Bytes, digest : {0, 1}]
None == [logical |-> <<>>, payload |-> <<>>, size |-> 0, digest |-> 0]

VARIABLES body, wrote, declared, silent, answer
vars == <<body, wrote, declared, silent, answer>>

NoRow == <<>>
Unread == 0

Init ==
  /\ body = NoRow /\ wrote = None
  /\ declared = Unread /\ silent = FALSE /\ answer = None

Stored(b) == body' = b /\ declared' = Unread /\ silent' = FALSE /\ answer' = None

(* publishManifest: nothing is sent when the manifest does not encode. *)
Publish ==
  /\ body = NoRow
  /\ \E m \in Manifests : Encodable(m) /\ Stored(Encode(m)) /\ wrote' = m

(* Foreign data under a manifest's key, byte by byte. *)
Grow ==
  /\ Len(body) < MaxBody
  /\ \E b \in Bytes : Stored(Append(body, b))
  /\ wrote' = None

Deleted == body # NoRow /\ Stored(NoRow) /\ wrote' = None

(* readManifest: the declared length need not be the body's, and the read *)
(* past it may answer nothing at all.                                     *)
ReadRow ==
  /\ body # NoRow /\ declared = Unread
  /\ declared' \in {Len(body), Len(body) - 1, Len(body) + 1} \ {Unread}
  /\ silent' \in BOOLEAN /\ (silent' => declared' < Len(body))
  /\ answer' = IF Decodable(body, declared', silent')
                 THEN Fields(SubSeq(body, 1, declared')) ELSE None
  /\ UNCHANGED <<body, wrote>>

Next == Publish \/ Grow \/ ReadRow \/ Deleted
Spec == Init /\ [][Next]_vars

-----------------------------------------------------------------------------
(***************************************************************************)
(* What publishManifest sends is read back as the manifest it was given,   *)
(* and never refused: a row the encoder can write but the decoder refuses  *)
(* would be an integrity error for a blob that Put acknowledged.           *)
(***************************************************************************)
PublishedReadsBack ==
  wrote # None /\ declared = Len(body) => answer = wrote

(***************************************************************************)
(* The decoder accepts exactly the encoder's images: a manifest it returns *)
(* encodes to the very bytes that were read, to the last one declared.  So *)
(* no two bodies read as one manifest, and no truncated or altered row is  *)
(* taken for the one that was published.  The row ends there too, unless   *)
(* the read past the declared length answered no byte although there was   *)
(* one: decodeManifest ignores that read's error.                          *)
(***************************************************************************)
AcceptedIsCanonical ==
  answer # None =>
    /\ Encodable(answer) /\ Encode(answer) = SubSeq(body, 1, declared)
    /\ declared = Len(body) \/ silent

(***************************************************************************)
(* The hand-written scan of an object key agrees with what it is for: no   *)
(* empty, "." or ".." segment anywhere, the last one included.             *)
(***************************************************************************)
ScanIsExact ==
  ValidInternalObjectKey(body) <=> (Len(body) \in 1..MaxKey /\ Canonical(body))
=============================================================================
