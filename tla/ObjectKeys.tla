----------------------------- MODULE ObjectKeys -----------------------------
(***************************************************************************)
(* The keys of objects in the bucket (key.go, and the payload keys of      *)
(* blob.go): how a logical key becomes a manifest's object key in the      *)
(* current and in v0.1.1's form, how List gets the logical key back, and   *)
(* which payload keys belong to a logical key.                             *)
(*                                                                         *)
(* An object key is the sequence of its '/'-separated segments, a segment  *)
(* a sequence of symbols: 0..63 are the characters of the URL-safe base64  *)
(* alphabet in its order (upper case, lower case, digits, '-' and '_'), 64 *)
(* is a line break and 65 a character outside.  The digest of a name is a  *)
(* short one; SHA-256 is taken as injective on names.                      *)
(***************************************************************************)
EXTENDS Naturals, Sequences, SequencesExt

CONSTANTS
  Deployments,  \* deployment prefixes, sequences of segments
  Names,        \* logical keys that are written, sequences of bytes
  NameBytes,    \* bytes the name grammar allows
  MaxName,      \* longest valid name
  MaxSegment,   \* maxObjectKeySegmentBytes
  Symbols,      \* symbols an edit may write
  MaxEdits      \* bound on edits that turn a row into foreign data

Chars   == 0..63
LineEnd == 64
NoName  == <<>>

(* "blobs/v1", "payloads/v1" and the id of a staged payload. *)
ManifestNamespace == << <<27, 37, 40, 27, 44>>, <<47, 53>> >>
PayloadNamespace  == << <<41, 26, 50, 37, 40, 26, 29, 44>>, <<47, 53>> >>
AttemptLength     == 2
Attempts          == {<<52, 26>>, <<26, 53>>}

(* storage.ValidateName. *)
ValidName(n) == Len(n) \in 1..MaxName /\ \A i \in DOMAIN n : n[i] \in NameBytes

(* A digest of fixed length over hexadecimal symbols, one for each name. *)
DigestLength == MaxName + 1
Digest(n) ==
  [i \in 1..DigestLength |->
     IF i < DigestLength - Len(n) THEN 52
     ELSE IF i = DigestLength - Len(n) THEN 26
     ELSE 52 + (n[i - (DigestLength - Len(n))] % 2)]

ASSUME KeysAssumption ==
  /\ Names \subseteq Seq(NameBytes) /\ \A n \in Names : ValidName(n)
  /\ \A m, n \in Names : Digest(m) = Digest(n) => m = n
  /\ Deployments \subseteq Seq(Seq(Nat))
  /\ Symbols \subseteq 0..65
  /\ NameBytes \subseteq 0..255 /\ MaxName \in Nat
  /\ MaxSegment \in Nat \ {0} /\ MaxEdits \in Nat

-----------------------------------------------------------------------------
(* base64.RawURLEncoding: 8-bit bytes as 6-bit characters, both read as    *)
(* words of w-bit units whose bits are counted from 1.                     *)

Weight == <<1, 2, 4, 8, 16, 32, 64, 128>>

Bit(word, w, b) ==
  IF b > w * Len(word) THEN 0
  ELSE (word[(b - 1) \div w + 1] \div Weight[w - ((b - 1) % w)]) % 2

Character(n, j) ==
  LET B(i) == Bit(n, 8, 6 * (j - 1) + i) IN
  32 * B(1) + 16 * B(2) + 8 * B(3) + 4 * B(4) + 2 * B(5) + B(6)
EncodeToString(n) == [j \in 1..((8 * Len(n) + 5) \div 6) |-> Character(n, j)]

(* Line breaks are skipped, and spare bits of the last character ignored. *)
Significant(e) ==
  LET kept[i \in 0..Len(e)] ==
        IF i = 0 THEN <<>>
        ELSE IF e[i] = LineEnd THEN kept[i - 1] ELSE Append(kept[i - 1], e[i])
  IN kept[Len(e)]
Decodes(e) ==
  /\ Len(Significant(e)) % 4 # 1
  /\ \A i \in DOMAIN e : e[i] \in Chars \cup {LineEnd}

Byte(s, k) ==
  LET B(i) == Bit(s, 6, 8 * (k - 1) + i) IN
  128 * B(1) + 64 * B(2) + 32 * B(3) + 16 * B(4) + 8 * B(5) + 4 * B(6) + 2 * B(7) + B(8)
DecodeString(e) ==
  LET s == Significant(e) IN [k \in 1..((6 * Len(s)) \div 8) |-> Byte(s, k)]

(* hex.DecodeString takes digits of either case. *)
UpperHex == 0..5
LowerHex == 26..31 \cup 52..61
IsHex(s) == \A i \in DOMAIN s : s[i] \in UpperHex \cup LowerHex
HexDecoded(s) == [i \in DOMAIN s |-> IF s[i] \in UpperHex THEN s[i] + 26 ELSE s[i]]

IsDigest(s) == Len(s) = DigestLength /\ IsHex(s)

-----------------------------------------------------------------------------
(* key.go *)

RootWithoutDeployment(d, namespace) == namespace
NamespaceRoot(d, namespace) == d \o namespace

Smaller(a, b) == IF a < b THEN a ELSE b

(* Full segments first, the last one shorter or equal; never an empty one *)
(* unless the encoding is empty.                                          *)
SegmentEager(e) ==
  [i \in 1..(Len(e) \div MaxSegment + 1) |->
     SubSeq(e, (i - 1) * MaxSegment + 1, Smaller(i * MaxSegment, Len(e)))]
SegmentEncoding(e) ==
  IF e = <<>> THEN <<e>>
  ELSE [i \in 1..((Len(e) + MaxSegment - 1) \div MaxSegment) |->
          SubSeq(e, (i - 1) * MaxSegment + 1, Smaller(i * MaxSegment, Len(e)))]

ManifestDigestRoot(d, n) == NamespaceRoot(d, ManifestNamespace) \o <<Digest(n)>>

ManifestObjectKey(d, n) == ManifestDigestRoot(d, n) \o SegmentEncoding(EncodeToString(n))

LegacyDiffers(n) == Len(EncodeToString(n)) > MaxSegment
LegacyManifestObjectKey(d, n) == ManifestDigestRoot(d, n) \o <<EncodeToString(n)>>

(* logicalKeyFromManifestObject: every component is validated. *)
LogicalKeyAnySplit(d, row) ==
  LET root    == NamespaceRoot(d, ManifestNamespace)
      parts   == SubSeq(row, Len(root) + 1, Len(row))
      encoded == FlattenSeq(Tail(parts))
      decoded == DecodeString(encoded)
  IN IF /\ IsPrefix(root, row)
        /\ Len(parts) >= 2 /\ IsDigest(parts[1])
        /\ Decodes(encoded) /\ EncodeToString(decoded) = encoded
        /\ ValidName(decoded) /\ Digest(decoded) = HexDecoded(parts[1])
       THEN decoded ELSE NoName
LogicalKey(d, row) ==
  LET root    == NamespaceRoot(d, ManifestNamespace)
      parts   == SubSeq(row, Len(root) + 1, Len(row))
      encoded == FlattenSeq(Tail(parts))
      decoded == DecodeString(encoded)
  IN IF /\ IsPrefix(root, row)
        /\ Len(parts) >= 2 /\ IsDigest(parts[1])
        /\ Len(parts) > 2 => SegmentEncoding(encoded) = Tail(parts)
        /\ Decodes(encoded) /\ EncodeToString(decoded) = encoded
        /\ ValidName(decoded) /\ Digest(decoded) = HexDecoded(parts[1])
       THEN decoded ELSE NoName

(* blob.go: the payloads of a logical key. *)
PayloadRootShared(d, n) == NamespaceRoot(d, PayloadNamespace) \o <<Digest(NoName)>>
PayloadRoot(d, n) == NamespaceRoot(d, PayloadNamespace) \o <<Digest(n)>>

PayloadObjectKey(d, n, attempt) == PayloadRoot(d, n) \o <<attempt>>

(* The rest of the key after the root is one segment, an id in hexadecimal. *)
PayloadObjectKeyMatches(d, n, key) ==
  /\ IsPrefix(PayloadRoot(d, n), key)
  /\ Len(key) = Len(PayloadRoot(d, n)) + 1
  /\ Len(Last(key)) = AttemptLength /\ IsHex(Last(key))

-----------------------------------------------------------------------------
(* A bucket with one object whose key is looked at: written by a Store of  *)
(* this release or of v0.1.1, or foreign data close to such a key.         *)

VARIABLES row, owner, edits
vars == <<row, owner, edits>>

NoRow   == <<>>
Nobody  == [kind |-> "none", dep |-> <<>>, name |-> NoName]
Init == row = NoRow /\ owner = Nobody /\ edits = 0

Writes(kind, d, n, key) ==
  /\ row = NoRow
  /\ row' = key
  /\ owner' = [kind |-> kind, dep |-> d, name |-> n]
  /\ UNCHANGED edits

WriteManifest == \E d \in Deployments, n \in Names :
  Writes("current", d, n, ManifestObjectKey(d, n))

WriteLegacy == \E d \in Deployments, n \in Names :
  LegacyDiffers(n) /\ Writes("legacy", d, n, LegacyManifestObjectKey(d, n))

WritePayload == \E d \in Deployments, n \in Names, a \in Attempts :
  Writes("payload", d, n, PayloadObjectKey(d, n, a))

Edited(key) ==
  /\ row # NoRow /\ edits < MaxEdits
  /\ row' = key /\ row' # row
  /\ owner' = Nobody
  /\ edits' = edits + 1

SplitSegment == \E i \in DOMAIN row : \E j \in 0..Len(row[i]) :
  Edited(SubSeq(row, 1, i - 1)
           \o <<SubSeq(row[i], 1, j), SubSeq(row[i], j + 1, Len(row[i]))>>
           \o SubSeq(row, i + 1, Len(row)))

JoinSegments == \E i \in 1..(Len(row) - 1) :
  Edited(SubSeq(row, 1, i - 1) \o <<row[i] \o row[i + 1]>> \o SubSeq(row, i + 2, Len(row)))

ChangeSymbol == \E i \in DOMAIN row : \E j \in DOMAIN row[i], s \in Symbols :
  Edited([row EXCEPT ![i][j] = s])

DropSymbol == \E i \in DOMAIN row : \E j \in DOMAIN row[i] :
  Edited([row EXCEPT ![i] = RemoveAt(@, j)])

DeleteObject == row # NoRow /\ row' = NoRow /\ owner' = Nobody /\ edits' = 0

Next == WriteManifest \/ WriteLegacy \/ WritePayload \/ DeleteObject
        \/ SplitSegment \/ JoinSegments \/ ChangeSymbol \/ DropSymbol

Spec == Init /\ [][Next]_vars

-----------------------------------------------------------------------------
(***************************************************************************)
(* A row this module writes lists as its own logical key, has no segment   *)
(* that a service with a segment limit refuses, and is byte for byte what  *)
(* v0.1.1 wrote when that fits one segment; a v0.1.1 row lists too.        *)
(***************************************************************************)
RowsReadBack ==
  /\ owner.kind \in {"current", "legacy"} => LogicalKey(owner.dep, row) = owner.name
  /\ owner.kind = "current" =>
       /\ \A i \in (Len(owner.dep) + 4)..Len(row) : Len(row[i]) \in 1..MaxSegment
       /\ ~LegacyDiffers(owner.name) => row = LegacyManifestObjectKey(owner.dep, owner.name)

(***************************************************************************)
(* The row shapes the comment on logicalKeyFromManifestObject names: the   *)
(* canonical segmentation and v0.1.1's single segment.                     *)
(***************************************************************************)
RowShapes(d, n) == {ManifestObjectKey(d, n), LegacyManifestObjectKey(d, n)}

(***************************************************************************)
(* The decoder accepts the two shapes, in either case of the digest, and   *)
(* nothing else: no other split, no spare bits, line breaks or foreign     *)
(* symbols, and no other key's digest gets through.                        *)
(***************************************************************************)
DecodingCanonical ==
  row # NoRow => \A d \in Deployments :
    LET n  == LogicalKey(d, row)
        at == Len(NamespaceRoot(d, ManifestNamespace)) + 1
    IN n # NoName => [row EXCEPT ![at] = HexDecoded(@)] \in RowShapes(d, n)

(***************************************************************************)
(* Deployments that share a bucket do not see each other, even when one's  *)
(* prefix lies inside the other's manifest namespace: no row or payload of *)
(* one lists in another or counts as a payload of the other.               *)
(***************************************************************************)
DeploymentsIsolated ==
  owner # Nobody =>
    \A d \in Deployments \ {owner.dep} :
      /\ LogicalKey(d, row) = NoName
      /\ \A n \in Names : ~PayloadObjectKeyMatches(d, n, row)

(***************************************************************************)
(* A manifest cannot be made to name the payload of another logical key:   *)
(* any object key, foreign ones included, matches at most one key of one   *)
(* deployment, and what matches is no deployment's manifest row.           *)
(***************************************************************************)
PayloadBound ==
  row # NoRow => \A d \in Deployments, m \in Names :
    PayloadObjectKeyMatches(d, m, row) =>
      /\ \A e \in Deployments, n \in Names :
           PayloadObjectKeyMatches(e, n, row) => d = e /\ m = n
      /\ \A e \in Deployments : LogicalKey(e, row) = NoName
      /\ owner # Nobody => owner = [kind |-> "payload", dep |-> d, name |-> m]
=============================================================================
