---------------------------- MODULE CodecsProofs ----------------------------
(***************************************************************************)
(* Proofs about the two codecs: what publishManifest writes is read back,  *)
(* decodeManifest accepts only what encodeManifest writes, the scan of an  *)
(* object key is exact, and the keys of deployments and blobs never cross. *)
(***************************************************************************)
EXTENDS Codecs, SequenceTheorems, WellFoundedInduction, TLAPS

-----------------------------------------------------------------------------
(* Sequences. *)

(* What lies where when three sequences are put together. *)
LEMMA ThreeInOne ==
  ASSUME NEW S, NEW h \in Seq(S), NEW a \in Seq(S), NEW b \in Seq(S), NEW e, e = h \o a \o b
  PROVE  /\ e \in Seq(S) /\ Len(e) = Len(h) + Len(a) + Len(b)
         /\ \A i \in 1..Len(h) : e[i] = h[i]
         /\ SubSeq(e, Len(h) + 1, Len(h) + Len(a)) = a
         /\ SubSeq(e, Len(h) + Len(a) + 1, Len(h) + Len(a) + Len(b)) = b
<1>1. /\ e \in Seq(S) /\ Len(e) = Len(h) + Len(a) + Len(b)
      /\ Len(h) \in Nat /\ Len(a) \in Nat /\ Len(b) \in Nat
  OBVIOUS
<1>2. \A i \in 1..Len(h) : e[i] = h[i]
  OBVIOUS
<1>3. \A i \in 1..Len(a) : e[Len(h) + i] = a[i]
  OBVIOUS
<1>4. \A i \in 1..Len(b) : e[Len(h) + Len(a) + i] = b[i]
  OBVIOUS
<1>5. SubSeq(e, Len(h) + 1, Len(h) + Len(a)) = a
  BY <1>1, <1>3
<1>6. SubSeq(e, Len(h) + Len(a) + 1, Len(h) + Len(a) + Len(b)) = b
  BY <1>1, <1>4
<1> QED BY <1>1, <1>2, <1>5, <1>6

(* A stretch of a sequence. *)
LEMMA Stretch ==
  ASSUME NEW S, NEW e \in Seq(S), NEW i \in Nat, NEW j \in Nat, i + j <= Len(e)
  PROVE  /\ SubSeq(e, i + 1, i + j) \in Seq(S)
         /\ Len(SubSeq(e, i + 1, i + j)) = j
         /\ \A k \in 1..j : SubSeq(e, i + 1, i + j)[k] = e[i + k]
OBVIOUS

(* A sequence is its three parts put together. *)
LEMMA OneInThree ==
  ASSUME NEW S, NEW e \in Seq(S), NEW i \in Nat, NEW j \in Nat, i + j <= Len(e)
  PROVE  e = SubSeq(e, 1, i) \o SubSeq(e, i + 1, i + j) \o SubSeq(e, i + j + 1, Len(e))
<1> DEFINE h == SubSeq(e, 1, i)
           a == SubSeq(e, i + 1, i + j)
           b == SubSeq(e, i + j + 1, Len(e))
<1>1. h \o a = SubSeq(e, 1, i + j)
  <2>1. 1 \in 1..(Len(e) + 1) /\ i \in (1 - 1)..Len(e) /\ (i + j) \in i..Len(e)
    OBVIOUS
  <2> QED BY <2>1, ConcatAdjacentSubSeq
<1>2. SubSeq(e, 1, i + j) \o b = SubSeq(e, 1, Len(e))
  <2>1. 1 \in 1..(Len(e) + 1) /\ (i + j) \in (1 - 1)..Len(e) /\ Len(e) \in (i + j)..Len(e)
    OBVIOUS
  <2> QED BY <2>1, ConcatAdjacentSubSeq
<1> QED BY <1>1, <1>2, SubSeqFull

-----------------------------------------------------------------------------
(* The body of a manifest. *)

(* The numbers of an instance. *)
LEMMA ManifestNumbers ==
  /\ MaxLogical \in Nat /\ MaxKey \in Nat /\ MaxManifest \in Nat
  /\ MaxBody \in Nat /\ MaxLength \in Nat /\ MaxInt \in Nat
  /\ MaxLength >= 3 /\ MaxManifest > 5
  /\ Manifest!HeaderBytes = 5 /\ Manifest!Magic = 1 /\ Manifest!Bytes = 0..MaxLength
BY ManifestInstance
   DEF Manifest!CodecAssumption, Manifest!HeaderBytes, Manifest!Magic, Manifest!Bytes, Manifest!Dot

(* The keys of a manifest are sequences of bytes, its other fields bytes. *)
LEMMA ManifestFields ==
  ASSUME NEW m \in Manifest!Manifests
  PROVE  /\ m.logical \in Seq(Manifest!Bytes) /\ m.payload \in Seq(Manifest!Bytes)
         /\ m.size \in Manifest!Bytes /\ m.digest \in Manifest!Bytes
<1>1. \A k \in Manifest!Keys : k \in Seq(Manifest!Bytes)
  <2> SUFFICES ASSUME NEW n \in 0..MaxLength, NEW k \in [1..n -> Manifest!Bytes \ {0}]
               PROVE  k \in Seq(Manifest!Bytes)
    BY DEF Manifest!Keys
  <2> QED BY ManifestNumbers
<1> QED BY <1>1, ManifestNumbers DEF Manifest!Manifests

(* Where encodeManifest puts the fields. *)
LEMMA EncodedFields ==
  ASSUME NEW m \in Manifest!Manifests, Manifest!Encodable(m)
  PROVE  LET e == Manifest!Encode(m) IN
         /\ e \in Seq(Manifest!Bytes) /\ Len(e) = 5 + Len(m.logical) + Len(m.payload)
         /\ e[1] = 1 /\ e[2] = Len(m.logical) /\ e[3] = Len(m.payload)
         /\ e[4] = m.size /\ e[5] = m.digest
         /\ SubSeq(e, 5 + 1, 5 + e[2]) = m.logical
         /\ SubSeq(e, 5 + e[2] + 1, 5 + e[2] + e[3]) = m.payload
<1> DEFINE e == Manifest!Encode(m)
           l == m.logical
           p == m.payload
           h == <<1, Len(l), Len(p), m.size, m.digest>>
<1>1. l \in Seq(Manifest!Bytes) /\ p \in Seq(Manifest!Bytes)
  BY ManifestFields
<1>2. Len(l) \in Manifest!Bytes /\ Len(p) \in Manifest!Bytes /\ 1 \in Manifest!Bytes
  BY <1>1, ManifestNumbers DEF Manifest!Encodable
<1>3. h \in Seq(Manifest!Bytes) /\ Len(h) = 5
  BY <1>2, ManifestFields
<1>4. h[1] = 1 /\ h[2] = Len(l) /\ h[3] = Len(p) /\ h[4] = m.size /\ h[5] = m.digest
  OBVIOUS
<1>5. e = h \o l \o p
  BY ManifestNumbers DEF Manifest!Encode
<1> HIDE DEF e, h, l, p
<1>6. /\ e \in Seq(Manifest!Bytes) /\ Len(e) = Len(h) + Len(l) + Len(p)
      /\ \A i \in 1..Len(h) : e[i] = h[i]
      /\ SubSeq(e, Len(h) + 1, Len(h) + Len(l)) = l
      /\ SubSeq(e, Len(h) + Len(l) + 1, Len(h) + Len(l) + Len(p)) = p
  <2>1. h \in Seq(Manifest!Bytes)
    BY <1>3
  <2> QED BY <1>1, <1>5, <2>1, ThreeInOne
<1>7. e[1] = 1 /\ e[2] = Len(l) /\ e[3] = Len(p) /\ e[4] = m.size /\ e[5] = m.digest
  BY <1>3, <1>4, <1>6
<1> QED BY <1>3, <1>6, <1>7 DEF e, l, p

(* decodeManifest takes what encodeManifest writes for what it was. *)
LEMMA DecodesEncoding ==
  ASSUME NEW m \in Manifest!Manifests, Manifest!Encodable(m), NEW s \in BOOLEAN
  PROVE  /\ Manifest!Decodable(Manifest!Encode(m), Len(Manifest!Encode(m)), s)
         /\ Manifest!Fields(SubSeq(Manifest!Encode(m), 1, Len(Manifest!Encode(m)))) = m
<1> DEFINE e == Manifest!Encode(m)
           l == m.logical
           p == m.payload
<1>1. /\ e \in Seq(Manifest!Bytes) /\ Len(e) = 5 + Len(l) + Len(p)
      /\ e[1] = 1 /\ e[2] = Len(l) /\ e[3] = Len(p) /\ e[4] = m.size /\ e[5] = m.digest
      /\ SubSeq(e, 5 + 1, 5 + e[2]) = l
      /\ SubSeq(e, 5 + e[2] + 1, 5 + e[2] + e[3]) = p
  BY EncodedFields
<1>2. Len(l) \in Nat /\ Len(p) \in Nat
  BY ManifestFields
<1> HIDE DEF e
<1>3. SubSeq(e, 1, Len(e)) = e
  BY <1>1, SubSeqFull
<1>4. Manifest!Fields(e) = m
  BY <1>1, ManifestNumbers DEF Manifest!Fields, Manifest!Manifests
<1>5. /\ Manifest!ValidName(l) /\ Manifest!ValidInternalObjectKey(p)
      /\ m.size <= MaxInt /\ 5 + Len(l) + Len(p) <= MaxManifest
  BY ManifestNumbers DEF Manifest!Encodable
<1> HIDE DEF l, p
<1>6. Len(e) \in 5..MaxManifest /\ Len(e) >= Len(e) /\ Len(e) <= Len(e)
  BY <1>1, <1>2, <1>5, ManifestNumbers
<1>7. Manifest!LengthsAddUp(e)
  BY <1>1, <1>2, ManifestNumbers DEF Manifest!LengthsAddUp
<1>8. Manifest!Decodable(e, Len(e), s)
  BY <1>1, <1>3, <1>4, <1>5, <1>6, <1>7, ManifestNumbers DEF Manifest!Decodable, l, p
<1> QED BY <1>3, <1>4, <1>8 DEF e

(* The bytes that decodeManifest takes encode what it answers. *)
LEMMA EncodesDecoding ==
  ASSUME NEW b \in Seq(Manifest!Bytes), Len(b) \in 5..MaxManifest,
         b[1] = 1, Manifest!LengthsAddUp(b), b[4] <= MaxInt,
         Manifest!ValidName(Manifest!Fields(b).logical),
         Manifest!ValidInternalObjectKey(Manifest!Fields(b).payload)
  PROVE  /\ Manifest!Encodable(Manifest!Fields(b))
         /\ Manifest!Encode(Manifest!Fields(b)) = b
<1>1. Len(b) \in 5..MaxManifest
  OBVIOUS
<1> DEFINE m == Manifest!Fields(b)
           h == SubSeq(b, 1, 5)
           l == SubSeq(b, 5 + 1, 5 + b[2])
           p == SubSeq(b, 5 + b[2] + 1, 5 + b[2] + b[3])
<1>3. /\ b[1] = 1 /\ 5 + b[2] + b[3] = Len(b) /\ b[4] <= MaxInt
      /\ Manifest!ValidName(m.logical) /\ Manifest!ValidInternalObjectKey(m.payload)
  BY ManifestNumbers DEF Manifest!LengthsAddUp
<1>4. b[2] \in 0..MaxLength /\ b[3] \in 0..MaxLength
  BY <1>1, ManifestNumbers
<1>5. m.logical = l /\ m.payload = p /\ m.size = b[4] /\ m.digest = b[5]
  BY ManifestNumbers DEF Manifest!Fields
<1>6. b[2] \in Nat /\ b[3] \in Nat /\ Len(b) \in Nat
  BY <1>4, ManifestNumbers
<1>7. 5 + b[2] <= Len(b)
  BY <1>3, <1>6
<1>8. Len(h) = 5 /\ Len(l) = b[2] /\ Len(p) = b[3]
  <2>1. Len(h) = 5 /\ Len(l) = b[2]
    BY <1>6, <1>7
  <2>2. 5 + b[2] + b[3] <= Len(b)
    BY <1>3, <1>6
  <2>3. Len(p) = b[3]
    <3> DEFINE x == 5 + b[2]
               y == b[3]
    <3>1. x \in Nat /\ y \in Nat /\ x + y <= Len(b)
      BY <1>6, <2>2
    <3> HIDE DEF x, y
    <3>2. Len(SubSeq(b, x + 1, x + y)) = y
      BY <3>1, Stretch
    <3> QED BY <3>2 DEF x, y
  <2> QED BY <2>1, <2>3
<1>9. h \in Seq(Manifest!Bytes)
  BY <1>6, <1>7
<1>10. h \o l \o p = b
  <2>1. b = SubSeq(b, 1, 5) \o SubSeq(b, 5 + 1, 5 + b[2]) \o SubSeq(b, 5 + b[2] + 1, Len(b))
    BY <1>6, <1>7, OneInThree
  <2>2. p = SubSeq(b, 5 + b[2] + 1, Len(b))
    BY <1>3
  <2> QED BY <2>1, <2>2, Zenon
<1>11. h = <<1, b[2], b[3], b[4], b[5]>>
  <2>1. h[1] = b[1] /\ h[2] = b[2] /\ h[3] = b[3] /\ h[4] = b[4] /\ h[5] = b[5]
    BY <1>1
  <2> HIDE DEF h
  <2> QED BY <1>3, <1>8, <1>9, <2>1
<1> HIDE DEF m, h, l, p
<1>12. Manifest!Encode(m) = b
  <2>1. <<1, Len(l), Len(p), b[4], b[5]>> \o l \o p = b
    BY <1>8, <1>10, <1>11
  <2> QED BY <1>5, <2>1, ManifestNumbers DEF Manifest!Encode
<1>13. Manifest!Encodable(m)
  <2>1. Len(l) <= MaxLength /\ Len(p) <= MaxLength
    BY <1>4, <1>8, ManifestNumbers
  <2>2. 5 + b[2] + b[3] <= MaxManifest
    <3>1. Len(b) <= MaxManifest
      BY <1>1, ManifestNumbers
    <3> QED BY <1>3, <3>1
  <2>3. 5 + Len(l) + Len(p) <= MaxManifest
    BY <1>8, <2>2
  <2> QED BY <1>3, <1>5, <2>1, <2>3, ManifestNumbers DEF Manifest!Encodable
<1> QED BY <1>12, <1>13 DEF m

(* They are the body up to the declared length, and the body ends there    *)
(* unless the read past them was silent.                                   *)
LEMMA DecodesPrefix ==
  ASSUME NEW b \in Seq(Manifest!Bytes), NEW d \in Nat, NEW s \in BOOLEAN,
         Manifest!Decodable(b, d, s)
  PROVE  /\ Manifest!Encodable(Manifest!Fields(SubSeq(b, 1, d)))
         /\ Manifest!Encode(Manifest!Fields(SubSeq(b, 1, d))) = SubSeq(b, 1, d)
         /\ d = Len(b) \/ s
<1> DEFINE e == SubSeq(b, 1, d)
<1>1. d \in 5..MaxManifest /\ d <= Len(b)
  BY ManifestNumbers DEF Manifest!Decodable
<1>2. d = Len(b) \/ s
  BY DEF Manifest!Decodable
<1>3. e \in Seq(Manifest!Bytes) /\ Len(e) = d
  BY <1>1
<1>4. /\ e[1] = 1 /\ Manifest!LengthsAddUp(e) /\ e[4] <= MaxInt
      /\ Manifest!ValidName(Manifest!Fields(e).logical)
      /\ Manifest!ValidInternalObjectKey(Manifest!Fields(e).payload)
  BY ManifestNumbers DEF Manifest!Decodable
<1> HIDE DEF e
<1>5. Manifest!Encodable(Manifest!Fields(e)) /\ Manifest!Encode(Manifest!Fields(e)) = e
  BY <1>1, <1>3, <1>4, EncodesDecoding
<1> QED BY <1>2, <1>5 DEF e

(***************************************************************************)
(* The row of a manifest: bytes; after a publication, the encoding of what *)
(* was published; and after a read, what decodeManifest makes of it.       *)
(***************************************************************************)
Answers(b, d, s) ==
  IF Manifest!Decodable(b, d, s) THEN Manifest!Fields(SubSeq(b, 1, d)) ELSE Manifest!None

ManifestInv ==
  /\ body \in Seq(Manifest!Bytes)
  /\ wrote # Manifest!None =>
       /\ wrote \in Manifest!Manifests /\ Manifest!Encodable(wrote)
       /\ body = Manifest!Encode(wrote)
  /\ declared \in Nat /\ silent \in BOOLEAN
  /\ answer = IF declared = 0 THEN Manifest!None ELSE Answers(body, declared, silent)

(* There is no row at first. *)
LEMMA ManifestInit == CodecsInit => ManifestInv
<1> SUFFICES ASSUME CodecsInit PROVE ManifestInv
  OBVIOUS
<1>1. silent \in BOOLEAN
  BY Zenon DEF CodecsInit, Manifest!Init
<1> QED BY <1>1 DEF CodecsInit, Manifest!Init, Manifest!NoRow, Manifest!Unread, ManifestInv

(* Every step keeps the row of a manifest right. *)
LEMMA ManifestNext == ManifestInv /\ [CodecsNext]_<<vars, bodyVars>> => ManifestInv'
<1> SUFFICES ASSUME ManifestInv, [CodecsNext]_<<vars, bodyVars>> PROVE ManifestInv'
  OBVIOUS
<1>1. CASE UNCHANGED bodyVars
  BY <1>1 DEF bodyVars, ManifestInv, Answers
<1>2. ASSUME NEW b \in Seq(Manifest!Bytes), Manifest!Stored(b), wrote' = Manifest!None
      PROVE  ManifestInv'
  BY <1>2 DEF ManifestInv, Manifest!Stored, Manifest!Unread
<1>3. CASE Manifest!Publish
  <2>1. PICK m \in Manifest!Manifests :
           Manifest!Encodable(m) /\ Manifest!Stored(Manifest!Encode(m)) /\ wrote' = m
    BY <1>3 DEF Manifest!Publish
  <2>2. Manifest!Encode(m) \in Seq(Manifest!Bytes)
    BY <2>1, EncodedFields
  <2> QED BY <2>1, <2>2 DEF ManifestInv, Manifest!Stored, Manifest!Unread
<1>4. CASE Manifest!Grow
  <2>1. PICK x \in Manifest!Bytes : Manifest!Stored(Append(body, x))
    BY <1>4 DEF Manifest!Grow
  <2>2. Append(body, x) \in Seq(Manifest!Bytes)
    BY DEF ManifestInv
  <2> QED BY <1>2, <1>4, <2>1, <2>2 DEF Manifest!Grow
<1>5. CASE Manifest!Deleted
  <2>1. <<>> \in Seq(Manifest!Bytes)
    OBVIOUS
  <2> QED BY <1>2, <1>5, <2>1 DEF Manifest!Deleted, Manifest!NoRow
<1>6. CASE Manifest!ReadRow
  <2>1. declared' \in {Len(body), Len(body) - 1, Len(body) + 1} \ {0} /\ body # <<>>
    BY <1>6 DEF Manifest!ReadRow, Manifest!Unread, Manifest!NoRow
  <2>2. Len(body) \in Nat /\ Len(body) # 0
    BY <2>1 DEF ManifestInv
  <2>3. declared' \in Nat /\ declared' # 0
    BY <2>1, <2>2
  <2>4. silent' \in BOOLEAN
    BY <1>6, Zenon DEF Manifest!ReadRow
  <2>5. answer' = Answers(body, declared', silent')
    BY <1>6, Zenon DEF Manifest!ReadRow, Answers
  <2>6. UNCHANGED <<body, wrote>>
    BY <1>6 DEF Manifest!ReadRow
  <2> QED BY <2>3, <2>4, <2>5, <2>6 DEF ManifestInv, Answers
<1> QED BY <1>1, <1>3, <1>4, <1>5, <1>6 DEF CodecsNext, Manifest!Next, bodyVars

(* The row of a manifest is always right. *)
LEMMA ManifestAlways == CodecsSpec => []ManifestInv
BY ManifestInit, ManifestNext, PTL DEF CodecsSpec

(***************************************************************************)
(* A row that publishManifest wrote is never refused, and reads as the     *)
(* very manifest it was given, whatever the limits on names, keys and      *)
(* manifests and however wide the fields.                                  *)
(***************************************************************************)
THEOREM PublishedAlwaysReadsBack == CodecsSpec => []PublishedReadsBack
<1>1. ManifestInv => PublishedReadsBack
  <2> SUFFICES ASSUME ManifestInv, wrote # Manifest!None, declared = Len(body)
               PROVE  answer = wrote
    BY DEF PublishedReadsBack, Manifest!PublishedReadsBack
  <2>1. wrote \in Manifest!Manifests /\ Manifest!Encodable(wrote) /\ body = Manifest!Encode(wrote)
    BY DEF ManifestInv
  <2>2. Answers(body, Len(body), silent) = wrote
    BY <2>1, DecodesEncoding DEF Answers, ManifestInv
  <2>3. Len(body) # 0
    <3>1. Len(body) = 5 + Len(wrote.logical) + Len(wrote.payload)
      BY <2>1, EncodedFields
    <3>2. Len(wrote.logical) \in Nat /\ Len(wrote.payload) \in Nat
      BY <2>1, ManifestFields
    <3>3. \A x, y \in Nat : 5 + x + y # 0
      OBVIOUS
    <3> QED BY <3>1, <3>2, <3>3, Zenon
  <2> QED BY <2>2, <2>3 DEF ManifestInv
<1> QED BY <1>1, ManifestAlways, PTL

(***************************************************************************)
(* What decodeManifest accepts is the encoding of what it answers, to the  *)
(* last byte declared, whatever foreign data the service holds under the   *)
(* key; and the row ends there unless the read past it was silent.         *)
(***************************************************************************)
THEOREM AcceptedAlwaysCanonical == CodecsSpec => []AcceptedIsCanonical
<1>1. ManifestInv => AcceptedIsCanonical
  <2> SUFFICES ASSUME ManifestInv, answer # Manifest!None
               PROVE  /\ Manifest!Encodable(answer)
                      /\ Manifest!Encode(answer) = SubSeq(body, 1, declared)
                      /\ declared = Len(body) \/ silent
    BY DEF AcceptedIsCanonical, Manifest!AcceptedIsCanonical
  <2>1. /\ Manifest!Decodable(body, declared, silent)
        /\ answer = Manifest!Fields(SubSeq(body, 1, declared))
    BY DEF ManifestInv, Answers
  <2> QED BY <2>1, DecodesPrefix DEF ManifestInv
<1> QED BY <1>1, ManifestAlways, PTL

-----------------------------------------------------------------------------
(* The scan of an object key. *)

(* A set of natural numbers has a smallest element. *)
LEMMA LeastNatural ==
  ASSUME NEW T \in SUBSET Nat, T # {}
  PROVE  \E m \in T : \A k \in T : m <= k
<1> DEFINE R == OpToRel(<, Nat)
<1>1. IsWellFoundedOn(R, Nat)
  BY NatLessThanWellFounded, Zenon
<1>2. \A x, y \in Nat : <<y, x>> \in R <=> y < x
  BY DEF OpToRel
<1> HIDE DEF R
<1>3. PICK m \in T : \A y \in T : ~(<<y, m>> \in R)
  BY <1>1, WFMin
<1>4. ASSUME NEW k \in T PROVE m <= k
  <2>1. ~(<<k, m>> \in R) /\ k \in Nat /\ m \in Nat
    BY <1>3
  <2>2. ~(k < m)
    BY <1>2, <2>1
  <2> QED BY <2>1, <2>2
<1> QED BY <1>4

(* One with a bound has a largest. *)
LEMMA GreatestNatural ==
  ASSUME NEW T \in SUBSET Nat, T # {}, NEW b \in Nat, \A k \in T : k <= b
  PROVE  \E m \in T : \A k \in T : k <= m
<1> DEFINE U == {d \in 0..b : b - d \in T}
<1>1. PICK t \in T : TRUE
  OBVIOUS
<1>2. b - t \in 0..b /\ b - (b - t) = t
  BY <1>1
<1>3. U \in SUBSET Nat /\ U # {}
  BY <1>2
<1>4. PICK d \in U : \A k \in U : d <= k
  BY <1>3, LeastNatural
<1>5. b - d \in T
  OBVIOUS
<1>6. ASSUME NEW k \in T PROVE k <= b - d
  <2>1. k \in Nat /\ k <= b
    OBVIOUS
  <2>2. b - k \in 0..b /\ b - (b - k) = k
    BY <2>1
  <2>3. b - k \in U
    BY <2>2
  <2>4. d <= b - k /\ d \in 0..b
    BY <1>4, <2>3
  <2> QED BY <2>1, <2>4
<1> QED BY <1>5, <1>6

(***************************************************************************)
(* Where the segments of a key end, where the one open at index i began,   *)
(* and what the scan has found out by then.                                *)
(***************************************************************************)
Cuts(key) == {0, Len(key) + 1} \cup {i \in DOMAIN key : key[i] = 2}

Opened(key, i) == CHOOSE c \in Cuts(key) : c <= i /\ \A k \in Cuts(key) : k <= i => k <= c

Plain(s) == s \notin {<<>>, <<3>>, <<3, 3>>}

SoFar(key, i) ==
  /\ \A j \in 1..i : j <= Len(key) => key[j] # 0
  /\ \A j \in 1..i : j \in Cuts(key) => Plain(SubSeq(key, Opened(key, j - 1) + 1, j - 1))

(* The last cut up to an index. *)
LEMMA OpenedLast ==
  ASSUME NEW key \in Seq(Manifest!Bytes), NEW i \in Nat
  PROVE  /\ Opened(key, i) \in Cuts(key) /\ Opened(key, i) \in Nat /\ Opened(key, i) <= i
         /\ \A k \in Cuts(key) : k <= i => k <= Opened(key, i)
<1> DEFINE T == {c \in Cuts(key) : c <= i}
<1>1. Cuts(key) \in SUBSET Nat
  BY DEF Cuts
<1>2. T \in SUBSET Nat /\ 0 \in T /\ \A k \in T : k <= i
  BY <1>1 DEF Cuts
<1>3. PICK m \in T : \A k \in T : k <= m
  BY <1>2, GreatestNatural
<1>4. m \in Cuts(key) /\ m <= i /\ \A k \in Cuts(key) : k <= i => k <= m
  BY <1>3
<1>5. \E c \in Cuts(key) : c <= i /\ \A k \in Cuts(key) : k <= i => k <= c
  BY <1>4
<1>6. /\ Opened(key, i) \in Cuts(key) /\ Opened(key, i) <= i
      /\ \A k \in Cuts(key) : k <= i => k <= Opened(key, i)
  BY <1>5, Zenon DEF Opened
<1> QED BY <1>1, <1>6

(* It is the only one. *)
LEMMA OpenedOnly ==
  ASSUME NEW key \in Seq(Manifest!Bytes), NEW i \in Nat, NEW c \in Cuts(key), c <= i,
         \A k \in Cuts(key) : k <= i => k <= c
  PROVE  Opened(key, i) = c
<1>1. /\ Opened(key, i) \in Cuts(key) /\ Opened(key, i) \in Nat /\ Opened(key, i) <= i
      /\ \A k \in Cuts(key) : k <= i => k <= Opened(key, i)
  BY OpenedLast
<1>2. c \in Nat
  BY DEF Cuts
<1> QED BY <1>1, <1>2

(* The scan has the closed form to begin with. *)
LEMMA ScanBegins ==
  ASSUME NEW key \in Seq(Manifest!Bytes)
  PROVE  SoFar(key, 0) = TRUE /\ Opened(key, 0) + 1 = 1
<1>1. Opened(key, 0) = 0
  BY OpenedLast
<1>2. SoFar(key, 0)
  BY DEF SoFar
<1>3. SoFar(key, 0) \in BOOLEAN
  BY DEF SoFar
<1> QED BY <1>1, <1>2, <1>3

(* Within a segment only the character is looked at. *)
LEMMA ScanInside ==
  ASSUME NEW key \in Seq(Manifest!Bytes), NEW i \in 1..(Len(key) + 1), i \notin Cuts(key)
  PROVE  /\ i <= Len(key) /\ key[i] # 2
         /\ Opened(key, i) = Opened(key, i - 1)
         /\ SoFar(key, i) <=> SoFar(key, i - 1) /\ key[i] # 0
<1>1. i \in Nat /\ i - 1 \in Nat /\ Len(key) \in Nat
  OBVIOUS
<1>2. i <= Len(key) /\ key[i] # 2
  BY <1>1 DEF Cuts
<1>3. Opened(key, i) = Opened(key, i - 1)
  <2>1. /\ Opened(key, i - 1) \in Cuts(key) /\ Opened(key, i - 1) \in Nat
        /\ Opened(key, i - 1) <= i - 1
        /\ \A k \in Cuts(key) : k <= i - 1 => k <= Opened(key, i - 1)
    BY <1>1, OpenedLast
  <2>2. \A k \in Cuts(key) : k <= i => k <= i - 1
    <3>1. \A k \in Cuts(key) : k \in Nat
      BY DEF Cuts
    <3> QED BY <1>1, <3>1
  <2>3. Opened(key, i - 1) <= i
    BY <1>1, <2>1
  <2> QED BY <1>1, <2>1, <2>2, <2>3, OpenedOnly
<1>4. \A j \in 1..i : j \in 1..(i - 1) \/ j = i
  BY <1>1
<1>5. \A j \in 1..(i - 1) : j \in 1..i
  BY <1>1
<1>6. i \in 1..i
  BY <1>1
<1>7. SoFar(key, i) <=> SoFar(key, i - 1) /\ key[i] # 0
  BY <1>2, <1>4, <1>5, <1>6, Zenon DEF SoFar
<1> QED BY <1>2, <1>3, <1>7

(* At its end the whole segment is, and the next one begins. *)
LEMMA ScanCut ==
  ASSUME NEW key \in Seq(Manifest!Bytes), NEW i \in 1..(Len(key) + 1), i \in Cuts(key)
  PROVE  /\ ~(i <= Len(key) /\ key[i] # 2)
         /\ Opened(key, i) = i
         /\ SoFar(key, i) <=> SoFar(key, i - 1) /\ Plain(SubSeq(key, Opened(key, i - 1) + 1, i - 1))
<1>1. i \in Nat /\ i - 1 \in Nat /\ Len(key) \in Nat /\ i # 0
  OBVIOUS
<1>2. ~(i <= Len(key) /\ key[i] # 2)
  BY <1>1 DEF Cuts
<1>3. Opened(key, i) = i
  <2>1. i <= i
    BY <1>1
  <2> QED BY <1>1, <2>1, OpenedOnly
<1>4. \A j \in 1..i : j \in 1..(i - 1) \/ j = i
  BY <1>1
<1>5. \A j \in 1..(i - 1) : j \in 1..i
  BY <1>1
<1>6. i \in 1..i
  BY <1>1
<1>7. i <= Len(key) => key[i] # 0
  BY <1>2
<1>8. SoFar(key, i) <=> SoFar(key, i - 1) /\ Plain(SubSeq(key, Opened(key, i - 1) + 1, i - 1))
  BY <1>4, <1>5, <1>6, <1>7, Zenon DEF SoFar
<1> QED BY <1>2, <1>3, <1>8

(* One round of the loop, as a step of the closed form. *)
LEMMA ScanRound ==
  ASSUME NEW key \in Seq(Manifest!Bytes), NEW i \in 1..(Len(key) + 1)
  PROVE  Manifest!Scan(key, [ok |-> SoFar(key, i - 1), start |-> Opened(key, i - 1) + 1], i)
           = [ok |-> SoFar(key, i), start |-> Opened(key, i) + 1]
<1>1. \A j : SoFar(key, j) \in BOOLEAN
  BY DEF SoFar
<1>2. CASE i \notin Cuts(key)
  <2>1. /\ i <= Len(key) /\ key[i] # 2
        /\ Opened(key, i) = Opened(key, i - 1)
        /\ SoFar(key, i) <=> SoFar(key, i - 1) /\ key[i] # 0
    BY <1>2, ScanInside
  <2>2. SoFar(key, i) = (SoFar(key, i - 1) /\ key[i] # 0)
    BY <1>1, <2>1, Zenon
  <2> QED BY <2>1, <2>2 DEF Manifest!Scan, Manifest!Slash
<1>3. CASE i \in Cuts(key)
  <2> DEFINE seg == SubSeq(key, Opened(key, i - 1) + 1, i - 1)
  <2>1. /\ ~(i <= Len(key) /\ key[i] # 2)
        /\ Opened(key, i) = i
        /\ SoFar(key, i) <=> SoFar(key, i - 1) /\ Plain(seg)
    BY <1>3, ScanCut
  <2> HIDE DEF seg
  <2>2. SoFar(key, i) = (SoFar(key, i - 1) /\ Plain(seg))
    BY <1>1, <2>1, Zenon DEF Plain
  <2>3. Plain(seg) = (seg \notin {<<>>, <<Manifest!Dot>>, <<Manifest!Dot, Manifest!Dot>>})
    BY Zenon DEF Plain, Manifest!Dot
  <2>4. (IF i <= Len(key) THEN key[i] # 2 ELSE FALSE) = FALSE
    BY <2>1
  <2> QED BY <2>1, <2>2, <2>3, <2>4 DEF Manifest!Scan, Manifest!Slash, seg
<1> QED BY <1>2, <1>3

(* The loop's state is the last value of its recursion, which has a solution. *)
LEMMA ScanRecursion ==
  ASSUME NEW key, NEW last, NEW g,
         g = [i \in 0..last |-> IF i = 0 THEN [ok |-> TRUE, start |-> 1]
                                ELSE Manifest!Scan(key, g[i - 1], i)]
  PROVE  \E f : /\ f = [i \in 0..last |-> IF i = 0 THEN [ok |-> TRUE, start |-> 1]
                                          ELSE Manifest!Scan(key, f[i - 1], i)]
                /\ Manifest!Scanned(key, last) = f[last]
<1> DEFINE Solves(f) == f = [i \in 0..last |-> IF i = 0 THEN [ok |-> TRUE, start |-> 1]
                                               ELSE Manifest!Scan(key, f[i - 1], i)]
<1> DEFINE h == CHOOSE f : Solves(f)
<1>1. Solves(h)
  BY Zenon
<1>2. Manifest!Scanned(key, last) = h[last]
  BY Zenon DEF Manifest!Scanned
<1> QED BY <1>1, <1>2, Zenon

(* The scan computes the closed form. *)
LEMMA ScanComputes ==
  ASSUME NEW key \in Seq(Manifest!Bytes)
  PROVE  Manifest!Scanned(key, Len(key) + 1).ok = SoFar(key, Len(key) + 1)
<1> DEFINE last == Len(key) + 1
           State(i) == [ok |-> SoFar(key, i), start |-> Opened(key, i) + 1]
           g == [i \in 0..last |-> State(i)]
<1>1. last \in Nat /\ last \in 0..last
  OBVIOUS
<1>2. State(0) = [ok |-> TRUE, start |-> 1]
  BY ScanBegins
<1>3. \A i \in 1..last : Manifest!Scan(key, State(i - 1), i) = State(i)
  BY ScanRound
<1> HIDE DEF last, State
<1>4. \A i \in 0..last : i # 0 => i \in 1..last /\ i - 1 \in 0..last
  BY <1>1
<1>5. \A i \in 0..last : g[i] = State(i)
  OBVIOUS
<1>6. \A i \in 0..last : g[i] = IF i = 0 THEN [ok |-> TRUE, start |-> 1]
                                ELSE Manifest!Scan(key, g[i - 1], i)
  BY <1>2, <1>3, <1>4, <1>5
<1>7. g = [i \in 0..last |-> IF i = 0 THEN [ok |-> TRUE, start |-> 1]
                             ELSE Manifest!Scan(key, g[i - 1], i)]
  BY <1>6
<1> HIDE DEF g
<1>8. PICK f : /\ f = [i \in 0..last |-> IF i = 0 THEN [ok |-> TRUE, start |-> 1]
                                         ELSE Manifest!Scan(key, f[i - 1], i)]
               /\ Manifest!Scanned(key, last) = f[last]
  BY <1>7, ScanRecursion, Zenon
<1>9. \A i \in 0..last : f[i] = g[i]
  <2> DEFINE Wrong == {i \in 0..last : f[i] # g[i]}
  <2>1. SUFFICES ASSUME Wrong # {} PROVE FALSE
    OBVIOUS
  <2>2. Wrong \in SUBSET Nat
    OBVIOUS
  <2>3. PICK m \in Wrong : \A k \in Wrong : m <= k
    BY <2>1, <2>2, LeastNatural
  <2>4. m \in 0..last /\ f[m] # g[m]
    OBVIOUS
  <2>5. m # 0 => f[m - 1] = g[m - 1]
    <3>1. ~(m <= m - 1)
      BY <2>2
    <3> QED BY <1>4, <2>3, <2>4, <3>1
  <2>6. f[m] = IF m = 0 THEN [ok |-> TRUE, start |-> 1] ELSE Manifest!Scan(key, f[m - 1], m)
    BY <1>8, <2>4
  <2> QED BY <1>6, <2>4, <2>5, <2>6
<1>10. Manifest!Scanned(key, last) = State(last)
  BY <1>1, <1>5, <1>8, <1>9
<1>11. State(last).ok = SoFar(key, last)
  BY DEF State
<1> QED BY <1>10, <1>11 DEF last

(* The closed form is what the key's segments and characters must satisfy. *)
LEMMA SoFarIsCanonical ==
  ASSUME NEW key \in Seq(Manifest!Bytes)
  PROVE  SoFar(key, Len(key) + 1) <=> Manifest!Canonical(key)
<1> DEFINE C == Cuts(key)
           ends == {p \in C \X C : p[1] < p[2] /\ \A k \in C : ~(p[1] < k /\ k < p[2])}
<1>1. Len(key) \in Nat /\ DOMAIN key = 1..Len(key) /\ C \in SUBSET Nat /\ 0 \in C
  BY DEF Cuts
<1>2. Manifest!Segments(key) = {SubSeq(key, p[1] + 1, p[2] - 1) : p \in ends}
  BY DEF Manifest!Segments, Manifest!Slash, Cuts
<1>3. \A p \in ends : /\ p[1] \in C /\ p[2] \in C /\ p[2] \in 1..(Len(key) + 1)
                      /\ Opened(key, p[2] - 1) = p[1]
  <2> SUFFICES ASSUME NEW x \in C, NEW y \in C, x < y, \A k \in C : ~(x < k /\ k < y)
               PROVE  y \in 1..(Len(key) + 1) /\ Opened(key, y - 1) = x
    BY Zenon
  <2>1. x \in Nat /\ y \in Nat /\ y <= Len(key) + 1
    BY <1>1 DEF Cuts
  <2>2. y - 1 \in Nat /\ x <= y - 1
    BY <2>1
  <2>3. \A k \in C : k <= y - 1 => k <= x
    BY <1>1, <2>1
  <2> QED BY <2>1, <2>2, <2>3, OpenedOnly
<1>4. \A j \in 1..(Len(key) + 1) : j \in C => <<Opened(key, j - 1), j>> \in ends
  <2> SUFFICES ASSUME NEW j \in 1..(Len(key) + 1), j \in C
               PROVE  <<Opened(key, j - 1), j>> \in ends
    OBVIOUS
  <2>1. j \in Nat /\ j - 1 \in Nat
    BY <1>1
  <2>2. /\ Opened(key, j - 1) \in C /\ Opened(key, j - 1) \in Nat /\ Opened(key, j - 1) <= j - 1
        /\ \A k \in C : k <= j - 1 => k <= Opened(key, j - 1)
    BY <2>1, OpenedLast
  <2>3. Opened(key, j - 1) < j
    BY <2>1, <2>2
  <2>4. \A k \in C : ~(Opened(key, j - 1) < k /\ k < j)
    BY <1>1, <2>1, <2>2
  <2> QED BY <2>2, <2>3, <2>4
<1> HIDE DEF ends
<1>5. (\A s \in Manifest!Segments(key) : Plain(s))
        <=> \A j \in 1..(Len(key) + 1) : j \in C => Plain(SubSeq(key, Opened(key, j - 1) + 1, j - 1))
  <2>1. ASSUME \A s \in Manifest!Segments(key) : Plain(s),
               NEW j \in 1..(Len(key) + 1), j \in C
        PROVE  Plain(SubSeq(key, Opened(key, j - 1) + 1, j - 1))
    <3> DEFINE p == <<Opened(key, j - 1), j>>
    <3>1. p \in ends /\ p[1] = Opened(key, j - 1) /\ p[2] = j
      BY <1>4, <2>1
    <3> HIDE DEF p
    <3>2. SubSeq(key, p[1] + 1, p[2] - 1) \in Manifest!Segments(key)
      BY <1>2, <3>1
    <3> QED BY <2>1, <3>1, <3>2
  <2>2. ASSUME \A j \in 1..(Len(key) + 1) : j \in C => Plain(SubSeq(key, Opened(key, j - 1) + 1, j - 1)),
               NEW s \in Manifest!Segments(key)
        PROVE  Plain(s)
    <3>1. PICK p \in ends : s = SubSeq(key, p[1] + 1, p[2] - 1)
      BY <1>2
    <3>2. p[2] \in C /\ p[2] \in 1..(Len(key) + 1) /\ Opened(key, p[2] - 1) = p[1]
      BY <1>3
    <3> QED BY <2>2, <3>1, <3>2
  <2> QED BY <2>1, <2>2
<1>6. (\A i \in DOMAIN key : key[i] # 0) <=> \A j \in 1..(Len(key) + 1) : j <= Len(key) => key[j] # 0
  BY <1>1
<1>7. Manifest!Canonical(key) <=>
        /\ \A i \in DOMAIN key : key[i] # 0
        /\ \A s \in Manifest!Segments(key) : Plain(s)
  BY Zenon DEF Manifest!Canonical, Manifest!Dot, Plain
<1> QED BY <1>5, <1>6, <1>7, Zenon DEF SoFar

(***************************************************************************)
(* validInternalObjectKey's one pass over the characters accepts a key     *)
(* exactly when it is canonical, for keys of every length: no index of the *)
(* loop is off by one, and the last segment is looked at too.              *)
(***************************************************************************)
THEOREM ScanAlwaysExact == CodecsSpec => []ScanIsExact
<1>1. ManifestInv => ScanIsExact
  <2> SUFFICES ASSUME body \in Seq(Manifest!Bytes)
               PROVE  Manifest!Scanned(body, Len(body) + 1).ok <=> Manifest!Canonical(body)
    BY Zenon DEF ManifestInv, ScanIsExact, Manifest!ScanIsExact, Manifest!ValidInternalObjectKey
  <2> QED BY ScanComputes, SoFarIsCanonical
<1> QED BY <1>1, ManifestAlways, PTL

-----------------------------------------------------------------------------
(* The recursions that the decoder of a key rests on: they have a solution *)
(* (built up to the smallest length at which it would be missing), and it  *)
(* is the only one.                                                        *)

(* FlattenSeq is the last value of any solution of its recursion. *)
LEMMA FlattenRecursion ==
  ASSUME NEW s, Len(s) \in Nat \ {0}, NEW g,
         g = [i \in 1..Len(s) |-> IF i = 1 THEN s[i] ELSE g[i - 1] \o s[i]]
  PROVE  FlattenSeq(s) = g[Len(s)]
<1> DEFINE Solves(f) == f = [i \in 1..Len(s) |-> IF i = 1 THEN s[i] ELSE f[i - 1] \o s[i]]
<1> DEFINE h == CHOOSE f : Solves(f)
<1>1. Solves(h)
  BY Zenon
<1>2. FlattenSeq(s) = h[Len(s)]
  BY Zenon DEF FlattenSeq
<1> HIDE DEF h
<1>3. \A i \in 1..Len(s) : h[i] = g[i]
  <2> DEFINE Wrong == {i \in 1..Len(s) : h[i] # g[i]}
  <2>1. SUFFICES ASSUME Wrong # {} PROVE FALSE
    OBVIOUS
  <2>2. Wrong \in SUBSET Nat
    OBVIOUS
  <2>3. PICK m \in Wrong : \A k \in Wrong : m <= k
    BY <2>1, <2>2, LeastNatural
  <2>4. m \in 1..Len(s) /\ h[m] # g[m]
    OBVIOUS
  <2>5. m # 1 => m - 1 \in 1..Len(s)
    BY <2>4
  <2>6. m # 1 => h[m - 1] = g[m - 1]
    <3>1. ~(m <= m - 1)
      BY <2>2
    <3> QED BY <2>3, <2>5, <3>1
  <2>7. h[m] = IF m = 1 THEN s[m] ELSE h[m - 1] \o s[m]
    BY <1>1, <2>4
  <2>8. g[m] = IF m = 1 THEN s[m] ELSE g[m - 1] \o s[m]
    BY <2>4
  <2> QED BY <2>4, <2>6, <2>7, <2>8
<1>4. Len(s) \in 1..Len(s)
  OBVIOUS
<1> QED BY <1>2, <1>3, <1>4

(* Every sequence of sequences can be flattened, to a sequence. *)
LEMMA FlattenExists ==
  ASSUME NEW s \in Seq(Seq(Nat)), Len(s) # 0
  PROVE  FlattenSeq(s) \in Seq(Nat)
<1> DEFINE Upto(n, f) == /\ f \in [1..n -> Seq(Nat)]
                         /\ \A i \in 1..n : f[i] = IF i = 1 THEN s[i] ELSE f[i - 1] \o s[i]
           Wrong == {n \in 1..Len(s) : ~\E f : Upto(n, f)}
<1>1. Len(s) \in Nat \ {0} /\ Wrong \in SUBSET Nat /\ \A i \in 1..Len(s) : s[i] \in Seq(Nat)
  OBVIOUS
<1>2. Wrong = {}
  <2>1. SUFFICES ASSUME Wrong # {} PROVE FALSE
    OBVIOUS
  <2>2. PICK m \in Wrong : \A k \in Wrong : m <= k
    BY <1>1, <2>1, LeastNatural
  <2>3. m \in 1..Len(s) /\ ~\E f : Upto(m, f)
    OBVIOUS
  <2> HIDE DEF Wrong
  <2>4. CASE m = 1
    <3> DEFINE f == [i \in 1..m |-> s[i]]
    <3>1. Upto(m, f)
      BY <1>1, <2>3, <2>4
    <3> QED BY <2>3, <3>1
  <2>5. CASE m # 1
    <3>1. m - 1 \in 1..Len(s) /\ ~(m <= m - 1) /\ m \in Nat
      BY <2>3, <2>5
    <3>2. PICK h : Upto(m - 1, h)
      BY <2>2, <3>1 DEF Wrong
    <3> DEFINE f == [i \in 1..m |-> IF i < m THEN h[i] ELSE h[m - 1] \o s[m]]
    <3>3. m - 1 \in 1..(m - 1) /\ m \in 1..m /\ \A i \in 1..m : i # m => i \in 1..(m - 1) /\ i < m
      BY <2>3, <3>1
    <3>4. h[m - 1] \in Seq(Nat) /\ s[m] \in Seq(Nat)
      BY <1>1, <2>3, <3>2, <3>3
    <3>5. f \in [1..m -> Seq(Nat)]
      BY <3>2, <3>3, <3>4
    <3>6. ASSUME NEW i \in 1..m PROVE f[i] = IF i = 1 THEN s[i] ELSE f[i - 1] \o s[i]
      <4>1. i # 1 => i - 1 \in 1..m /\ i - 1 < m
        BY <3>1
      <4>2. CASE i = m
        <5>1. m \in 1..m /\ ~(m < m) /\ m - 1 \in 1..m /\ m - 1 < m
          BY <2>3, <2>5, <3>1
        <5>2. f[m] = h[m - 1] \o s[m] /\ f[m - 1] = h[m - 1]
          BY <5>1
        <5> QED BY <2>5, <4>2, <5>2, Zenon
      <4>3. CASE i # m
        <5>1. h[i] = IF i = 1 THEN s[i] ELSE h[i - 1] \o s[i]
          BY <3>2, <3>3, <4>3
        <5> QED BY <3>3, <4>1, <4>3, <5>1
      <4> QED BY <4>2, <4>3
    <3>7. Upto(m, f)
      BY <3>5, <3>6
    <3> QED BY <2>3, <3>7
  <2> QED BY <2>4, <2>5
<1>3. Len(s) \in 1..Len(s)
  BY <1>1
<1>4. PICK g : Upto(Len(s), g)
  BY <1>2, <1>3
<1>5. g = [i \in 1..Len(s) |-> IF i = 1 THEN s[i] ELSE g[i - 1] \o s[i]]
  BY <1>4
<1>6. FlattenSeq(s) = g[Len(s)]
  BY <1>1, <1>5, FlattenRecursion
<1> QED BY <1>3, <1>4, <1>6

(* A single sequence is its own flattening. *)
LEMMA FlattenOne ==
  ASSUME NEW s \in Seq(Seq(Nat)), Len(s) = 1
  PROVE  FlattenSeq(s) = s[1]
<1> DEFINE g == [i \in 1..Len(s) |-> s[i]]
<1>1. Len(s) \in Nat \ {0}
  OBVIOUS
<1>2. g = [i \in 1..Len(s) |-> IF i = 1 THEN s[i] ELSE g[i - 1] \o s[i]]
  OBVIOUS
<1>3. g[Len(s)] = s[1]
  OBVIOUS
<1> HIDE DEF g
<1>4. FlattenSeq(s) = g[Len(s)]
  BY <1>1, <1>2, FlattenRecursion, Zenon
<1> QED BY <1>3, <1>4, Zenon

(* The symbols that count are the last value of any solution of the recursion. *)
LEMMA KeptRecursion ==
  ASSUME NEW e, Len(e) \in Nat, NEW g,
         g = [i \in 0..Len(e) |->
                IF i = 0 THEN <<>>
                ELSE IF e[i] = LineEnd THEN g[i - 1] ELSE Append(g[i - 1], e[i])]
  PROVE  Significant(e) = g[Len(e)]
<1> DEFINE Solves(f) ==
             f = [i \in 0..Len(e) |->
                    IF i = 0 THEN <<>>
                    ELSE IF e[i] = LineEnd THEN f[i - 1] ELSE Append(f[i - 1], e[i])]
<1> DEFINE h == CHOOSE f : Solves(f)
<1>1. Solves(h)
  BY Zenon
<1>2. Significant(e) = h[Len(e)]
  BY Zenon DEF Significant
<1> HIDE DEF h
<1>3. \A i \in 0..Len(e) : h[i] = g[i]
  <2> DEFINE Wrong == {i \in 0..Len(e) : h[i] # g[i]}
  <2>1. SUFFICES ASSUME Wrong # {} PROVE FALSE
    OBVIOUS
  <2>2. Wrong \in SUBSET Nat
    OBVIOUS
  <2>3. PICK m \in Wrong : \A k \in Wrong : m <= k
    BY <2>1, <2>2, LeastNatural
  <2>4. m \in 0..Len(e) /\ h[m] # g[m]
    OBVIOUS
  <2>5. m # 0 => m - 1 \in 0..Len(e)
    BY <2>4
  <2>6. m # 0 => h[m - 1] = g[m - 1]
    <3>1. ~(m <= m - 1)
      BY <2>2
    <3> QED BY <2>3, <2>5, <3>1
  <2>7. h[m] = IF m = 0 THEN <<>>
               ELSE IF e[m] = LineEnd THEN h[m - 1] ELSE Append(h[m - 1], e[m])
    BY <1>1, <2>4
  <2>8. g[m] = IF m = 0 THEN <<>>
               ELSE IF e[m] = LineEnd THEN g[m - 1] ELSE Append(g[m - 1], e[m])
    BY <2>4
  <2> QED BY <2>4, <2>6, <2>7, <2>8
<1>4. Len(e) \in 0..Len(e)
  OBVIOUS
<1> QED BY <1>2, <1>3, <1>4

(* The symbols that count are a sequence. *)
LEMMA SignificantExists ==
  ASSUME NEW e \in Seq(Nat)
  PROVE  Significant(e) \in Seq(Nat)
<1> DEFINE Step(f, i) == IF i = 0 THEN <<>>
                         ELSE IF e[i] = LineEnd THEN f[i - 1] ELSE Append(f[i - 1], e[i])
           Upto(n, f) == f \in [0..n -> Seq(Nat)] /\ \A i \in 0..n : f[i] = Step(f, i)
           Wrong == {n \in 0..Len(e) : ~\E f : Upto(n, f)}
<1>1. Len(e) \in Nat /\ Wrong \in SUBSET Nat /\ \A i \in 1..Len(e) : e[i] \in Nat
  OBVIOUS
<1>2. Wrong = {}
  <2>1. SUFFICES ASSUME Wrong # {} PROVE FALSE
    OBVIOUS
  <2>2. PICK m \in Wrong : \A k \in Wrong : m <= k
    BY <1>1, <2>1, LeastNatural
  <2>3. m \in 0..Len(e) /\ ~\E f : Upto(m, f)
    OBVIOUS
  <2> HIDE DEF Wrong
  <2>4. CASE m = 0
    <3> DEFINE f == [i \in 0..m |-> <<>>]
    <3>1. Upto(m, f)
      BY <2>4
    <3> QED BY <2>3, <3>1
  <2>5. CASE m # 0
    <3>1. m - 1 \in 0..Len(e) /\ ~(m <= m - 1) /\ m \in Nat /\ m \in 1..Len(e)
      BY <2>3, <2>5
    <3>2. PICK h : Upto(m - 1, h)
      BY <2>2, <3>1 DEF Wrong
    <3> DEFINE f == [i \in 0..m |-> IF i < m THEN h[i] ELSE Step(h, m)]
    <3>3. m - 1 \in 0..(m - 1) /\ m \in 0..m /\ \A i \in 0..m : i # m => i \in 0..(m - 1) /\ i < m
      BY <3>1
    <3>4. h[m - 1] \in Seq(Nat) /\ e[m] \in Nat
      BY <1>1, <3>1, <3>2, <3>3
    <3>5. Step(h, m) \in Seq(Nat)
      BY <2>5, <3>4
    <3>6. f \in [0..m -> Seq(Nat)]
      BY <3>2, <3>3, <3>5
    <3>7. ASSUME NEW i \in 0..m PROVE f[i] = Step(f, i)
      <4>1. i # 0 => i - 1 \in 0..m /\ i - 1 < m
        BY <3>1
      <4>2. CASE i = m
        <5>1. m \in 0..m /\ ~(m < m) /\ m - 1 \in 0..m /\ m - 1 < m
          BY <2>5, <3>1
        <5>2. f[m] = Step(h, m) /\ f[m - 1] = h[m - 1]
          BY <5>1
        <5> QED BY <2>5, <4>2, <5>2, Zenon
      <4>3. CASE i # m
        <5>1. h[i] = Step(h, i)
          BY <3>2, <3>3, <4>3
        <5>2. f[i] = h[i] /\ (i # 0 => f[i - 1] = h[i - 1])
          BY <3>3, <4>1, <4>3
        <5> QED BY <5>1, <5>2, Zenon
      <4> QED BY <4>2, <4>3
    <3>8. Upto(m, f)
      BY <3>6, <3>7
    <3> QED BY <2>3, <3>8
  <2> QED BY <2>4, <2>5
<1>3. Len(e) \in 0..Len(e)
  BY <1>1
<1>4. PICK g : Upto(Len(e), g)
  BY <1>2, <1>3
<1>5. g = [i \in 0..Len(e) |-> Step(g, i)]
  BY <1>4
<1>6. Significant(e) = g[Len(e)]
  BY <1>1, <1>5, KeptRecursion
<1> QED BY <1>3, <1>4, <1>6

(* Without line breaks they are all of them. *)
LEMMA AllSignificant ==
  ASSUME NEW e \in Seq(Chars)
  PROVE  Significant(e) = e
<1> DEFINE g == [i \in 0..Len(e) |-> SubSeq(e, 1, i)]
<1>1. Len(e) \in Nat /\ \A i \in 1..Len(e) : e[i] # LineEnd
  <2>1. Len(e) \in Nat /\ \A i \in 1..Len(e) : e[i] \in Chars
    OBVIOUS
  <2>2. \A c \in Chars : c # LineEnd
    BY DEF Chars, LineEnd
  <2> QED BY <2>1, <2>2
<1>2. ASSUME NEW i \in 1..Len(e) PROVE SubSeq(e, 1, i) = Append(SubSeq(e, 1, i - 1), e[i])
  <2>1. 1 \in 1..Len(e) /\ i \in 1..Len(e)
    BY <1>1
  <2>2. SubSeq(e, 1, i) = SubSeq(e, 1, i - 1) \o <<e[i]>>
    BY <1>1, <2>1, SubSeqRecursiveSecond
  <2>3. SubSeq(e, 1, i - 1) \in Seq(Chars) /\ e[i] \in Chars
    BY <1>1
  <2> QED BY <2>2, <2>3, AppendIsConcat
<1>3. SubSeq(e, 1, 0) = <<>>
  OBVIOUS
<1>4. \A i \in 0..Len(e) : g[i] = SubSeq(e, 1, i)
  OBVIOUS
<1>5. \A i \in 0..Len(e) : i # 0 => i \in 1..Len(e) /\ i - 1 \in 0..Len(e)
  BY <1>1
<1>6. \A i \in 0..Len(e) :
        g[i] = IF i = 0 THEN <<>> ELSE IF e[i] = LineEnd THEN g[i - 1] ELSE Append(g[i - 1], e[i])
  <2> SUFFICES ASSUME NEW i \in 0..Len(e)
               PROVE  g[i] = IF i = 0 THEN <<>>
                             ELSE IF e[i] = LineEnd THEN g[i - 1] ELSE Append(g[i - 1], e[i])
    OBVIOUS
  <2>1. CASE i = 0
    BY <1>3, <1>4, <2>1, Zenon
  <2>2. CASE i # 0
    <3>1. i \in 1..Len(e) /\ e[i] # LineEnd /\ g[i - 1] = SubSeq(e, 1, i - 1)
      BY <1>1, <1>4, <1>5, <2>2, Zenon
    <3>2. g[i] = Append(g[i - 1], e[i])
      BY <1>2, <1>4, <3>1, Zenon
    <3> QED BY <2>2, <3>1, <3>2, Zenon
  <2> QED BY <2>1, <2>2
<1>7. g = [i \in 0..Len(e) |->
             IF i = 0 THEN <<>>
             ELSE IF e[i] = LineEnd THEN g[i - 1] ELSE Append(g[i - 1], e[i])]
  BY <1>6
<1> HIDE DEF g
<1>8. Significant(e) = g[Len(e)]
  BY <1>1, <1>7, KeptRecursion
<1>9. g[Len(e)] = SubSeq(e, 1, Len(e))
  BY <1>1, <1>4
<1> QED BY <1>8, <1>9, SubSeqFull

-----------------------------------------------------------------------------
(* base64. *)

(* The weights of the bits of a unit. *)
LEMMA Weights ==
  /\ Weight[1] = 1 /\ Weight[2] = 2 /\ Weight[3] = 4 /\ Weight[4] = 8
  /\ Weight[5] = 16 /\ Weight[6] = 32 /\ Weight[7] = 64 /\ Weight[8] = 128
BY DEF Weight

(* Six bits make a character, which has them as its bits. *)
LEMMA SixBits ==
  ASSUME NEW a \in 0..1, NEW b \in 0..1, NEW c \in 0..1, NEW d \in 0..1, NEW e \in 0..1, NEW f \in 0..1
  PROVE  /\ 32 * a + 16 * b + 8 * c + 4 * d + 2 * e + f \in 0..63
         /\ ((32 * a + 16 * b + 8 * c + 4 * d + 2 * e + f) \div 32) % 2 = a
         /\ ((32 * a + 16 * b + 8 * c + 4 * d + 2 * e + f) \div 16) % 2 = b
         /\ ((32 * a + 16 * b + 8 * c + 4 * d + 2 * e + f) \div 8) % 2 = c
         /\ ((32 * a + 16 * b + 8 * c + 4 * d + 2 * e + f) \div 4) % 2 = d
         /\ ((32 * a + 16 * b + 8 * c + 4 * d + 2 * e + f) \div 2) % 2 = e
         /\ ((32 * a + 16 * b + 8 * c + 4 * d + 2 * e + f) \div 1) % 2 = f
OBVIOUS

(* A byte is made of its eight bits. *)
LEMMA EightBits ==
  ASSUME NEW x \in 0..255
  PROVE  x = 128 * ((x \div 128) % 2) + 64 * ((x \div 64) % 2) + 32 * ((x \div 32) % 2)
             + 16 * ((x \div 16) % 2) + 8 * ((x \div 8) % 2) + 4 * ((x \div 4) % 2)
             + 2 * ((x \div 2) % 2) + ((x \div 1) % 2)
OBVIOUS

(* The unit a bit lies in, and its place there. *)
LEMMA BitPlace ==
  ASSUME NEW w \in {6, 8}, NEW b \in Nat \ {0}
  PROVE  /\ (b - 1) \div w \in Nat /\ (b - 1) % w \in 0..(w - 1)
         /\ b = w * ((b - 1) \div w) + ((b - 1) % w) + 1
OBVIOUS

(* A bit is a bit. *)
LEMMA BitType ==
  ASSUME NEW word \in Seq(Nat), NEW w \in {6, 8}, NEW b \in Nat \ {0}
  PROVE  Bit(word, w, b) \in 0..1
<1> DEFINE q == (b - 1) \div w
           r == (b - 1) % w
<1>1. q \in Nat /\ r \in 0..(w - 1) /\ b = w * q + r + 1 /\ Len(word) \in Nat
  BY BitPlace
<1> HIDE DEF q, r
<1>2. CASE b > w * Len(word)
  BY <1>2 DEF Bit
<1>3. CASE ~(b > w * Len(word))
  <2>1. q + 1 \in 1..Len(word)
    BY <1>1, <1>3
  <2>2. w - r \in 1..8
    BY <1>1
  <2>3. Weight[w - r] \in Nat \ {0}
    BY <2>2, Weights
  <2>4. word[q + 1] \in Nat
    BY <2>1
  <2>5. (word[q + 1] \div Weight[w - r]) % 2 \in 0..1
    BY <2>3, <2>4
  <2> QED BY <1>3, <2>5 DEF Bit, q, r
<1> QED BY <1>2, <1>3

(* The characters of an encoding have the bits of the bytes. *)
LEMMA CharacterBits ==
  ASSUME NEW n \in Seq(Nat), NEW q \in Nat
  PROVE  /\ Character(n, q + 1) \in Chars
         /\ \A r \in 0..5 : (Character(n, q + 1) \div Weight[6 - r]) % 2 = Bit(n, 8, 6 * q + r + 1)
<1> DEFINE B(i) == Bit(n, 8, 6 * q + i)
           c == Character(n, q + 1)
<1>1. B(1) \in 0..1 /\ B(2) \in 0..1 /\ B(3) \in 0..1 /\ B(4) \in 0..1 /\ B(5) \in 0..1 /\ B(6) \in 0..1
  BY BitType
<1>2. 6 * ((q + 1) - 1) = 6 * q
  OBVIOUS
<1>3. c = 32 * B(1) + 16 * B(2) + 8 * B(3) + 4 * B(4) + 2 * B(5) + B(6)
  BY <1>2 DEF Character
<1> HIDE DEF B, c
<1>4. /\ c \in 0..63
      /\ (c \div 32) % 2 = B(1) /\ (c \div 16) % 2 = B(2) /\ (c \div 8) % 2 = B(3)
      /\ (c \div 4) % 2 = B(4) /\ (c \div 2) % 2 = B(5) /\ (c \div 1) % 2 = B(6)
  <2>1. PICK x1 \in 0..1, x2 \in 0..1, x3 \in 0..1, x4 \in 0..1, x5 \in 0..1, x6 \in 0..1 :
          B(1) = x1 /\ B(2) = x2 /\ B(3) = x3 /\ B(4) = x4 /\ B(5) = x5 /\ B(6) = x6
    BY <1>1, Zenon
  <2>2. c = 32 * x1 + 16 * x2 + 8 * x3 + 4 * x4 + 2 * x5 + x6
    BY <1>3, <2>1, Zenon
  <2>3. /\ c \in 0..63
        /\ (c \div 32) % 2 = x1 /\ (c \div 16) % 2 = x2 /\ (c \div 8) % 2 = x3
        /\ (c \div 4) % 2 = x4 /\ (c \div 2) % 2 = x5 /\ (c \div 1) % 2 = x6
    BY <2>2
  <2> QED BY <2>1, <2>3, Zenon
<1>5. ASSUME NEW r \in 0..5 PROVE (c \div Weight[6 - r]) % 2 = B(r + 1)
  <2>1. r = 0 \/ r = 1 \/ r = 2 \/ r = 3 \/ r = 4 \/ r = 5
    OBVIOUS
  <2>2. CASE r = 0
    BY <1>4, <2>2, Weights
  <2>3. CASE r = 1
    BY <1>4, <2>3, Weights
  <2>4. CASE r = 2
    BY <1>4, <2>4, Weights
  <2>5. CASE r = 3
    BY <1>4, <2>5, Weights
  <2>6. CASE r = 4
    BY <1>4, <2>6, Weights
  <2>7. CASE r = 5
    BY <1>4, <2>7, Weights
  <2> QED BY <2>1, <2>2, <2>3, <2>4, <2>5, <2>6, <2>7
<1>6. \A r \in 0..5 : B(r + 1) = Bit(n, 8, 6 * q + r + 1)
  BY DEF B
<1> QED BY <1>4, <1>5, <1>6 DEF c, Chars

(* The length of an encoding. *)
LEMMA EncodedLength ==
  ASSUME NEW L \in Nat, NEW m, m = (8 * L + 5) \div 6
  PROVE  m \in Nat /\ 6 * m >= 8 * L /\ 6 * m <= 8 * L + 5 /\ m % 4 # 1 /\ (6 * m) \div 8 = L
<1>1. m \in Nat /\ 6 * m >= 8 * L /\ 6 * m <= 8 * L + 5
  OBVIOUS
<1> QED BY <1>1

(* An encoding is a sequence of characters with the bits of the bytes. *)
LEMMA EncodedBits ==
  ASSUME NEW n \in Seq(Nat)
  PROVE  /\ EncodeToString(n) \in Seq(Chars)
         /\ Len(EncodeToString(n)) = (8 * Len(n) + 5) \div 6
         /\ \A b \in 1..(8 * Len(n)) : Bit(EncodeToString(n), 6, b) = Bit(n, 8, b)
<1> DEFINE L == Len(n)
           m == (8 * L + 5) \div 6
           s == EncodeToString(n)
<1>1. L \in Nat
  OBVIOUS
<1>2. m \in Nat /\ 6 * m >= 8 * L
  BY <1>1, EncodedLength
<1>3. s = [j \in 1..m |-> Character(n, j)]
  BY DEF EncodeToString
<1> HIDE DEF L, m, s
<1>4. \A j \in 1..m : j - 1 \in Nat /\ (j - 1) + 1 = j
  BY <1>2
<1>5. \A j \in 1..m : Character(n, j) \in Chars
  BY <1>4, CharacterBits
<1>6. s \in Seq(Chars) /\ Len(s) = m
  BY <1>2, <1>3, <1>5
<1>7. ASSUME NEW b \in 1..(8 * L) PROVE Bit(s, 6, b) = Bit(n, 8, b)
  <2> DEFINE q == (b - 1) \div 6
             r == (b - 1) % 6
  <2>1. b \in Nat \ {0}
    BY <1>1
  <2>2. q \in Nat /\ r \in 0..(6 - 1) /\ b = 6 * q + r + 1
    BY <2>1, BitPlace
  <2> HIDE DEF q, r
  <2>3. q + 1 \in 1..m /\ ~(b > 6 * m)
    BY <1>1, <1>2, <2>2
  <2>4. s[q + 1] = Character(n, q + 1)
    BY <1>3, <2>3
  <2>5. Bit(s, 6, b) = (s[q + 1] \div Weight[6 - r]) % 2
    BY <1>6, <2>3 DEF Bit, q, r
  <2>6. (Character(n, q + 1) \div Weight[6 - r]) % 2 = Bit(n, 8, 6 * q + r + 1)
    <3>1. r \in 0..5
      BY <2>2
    <3> QED BY <2>2, <3>1, CharacterBits
  <2> QED BY <2>2, <2>4, <2>5, <2>6
<1> QED BY <1>6, <1>7 DEF L, m, s

(* The bytes have the bits of their word. *)
LEMMA ByteBits ==
  ASSUME NEW n \in Seq(Nat), NEW k \in 1..Len(n), NEW i \in 1..8
  PROVE  /\ 8 * (k - 1) + i \in 1..(8 * Len(n))
         /\ Bit(n, 8, 8 * (k - 1) + i) = (n[k] \div Weight[9 - i]) % 2
<1> DEFINE b == 8 * (k - 1) + i
<1>1. Len(n) \in Nat /\ k \in Nat /\ i \in Nat /\ k >= 1 /\ k <= Len(n) /\ i >= 1 /\ i <= 8
  OBVIOUS
<1>2. b \in 1..(8 * Len(n)) /\ ~(b > 8 * Len(n))
  BY <1>1
<1>3. (b - 1) \div 8 + 1 = k /\ 8 - ((b - 1) % 8) = 9 - i
  BY <1>1
<1> HIDE DEF b
<1>4. Bit(n, 8, b) = (n[k] \div Weight[9 - i]) % 2
  BY <1>2, <1>3 DEF Bit
<1> QED BY <1>2, <1>4 DEF b

(* Decoding undoes encoding, for bytes of eight bits. *)
LEMMA DecodesEncoded ==
  ASSUME NEW n \in Seq(0..255)
  PROVE  Decodes(EncodeToString(n)) /\ DecodeString(EncodeToString(n)) = n
<1> DEFINE s == EncodeToString(n)
           L == Len(n)
<1>1. n \in Seq(Nat) /\ L \in Nat /\ \A k \in 1..L : n[k] \in 0..255
  <2>1. 0..255 \subseteq Nat
    OBVIOUS
  <2>2. n \in Seq(Nat)
    BY <2>1, SeqMonotonic, Zenon
  <2> DEFINE S == 0..255
  <2>3. n \in Seq(S)
    OBVIOUS
  <2> HIDE DEF S
  <2>4. L \in Nat /\ \A k \in 1..L : n[k] \in S
    BY <2>3
  <2> QED BY <2>2, <2>4 DEF S
<1>2. /\ s \in Seq(Chars) /\ Len(s) = (8 * L + 5) \div 6
      /\ \A b \in 1..(8 * L) : Bit(s, 6, b) = Bit(n, 8, b)
  BY <1>1, EncodedBits
<1> HIDE DEF s
<1>3. Significant(s) = s
  BY <1>2, AllSignificant
<1>4. Len(s) % 4 # 1 /\ (6 * Len(s)) \div 8 = L
  BY <1>1, <1>2, EncodedLength
<1>5. Decodes(s)
  <2>1. \A i \in DOMAIN s : s[i] \in Chars
    BY <1>2
  <2> QED BY <1>3, <1>4, <2>1 DEF Decodes
<1>6. ASSUME NEW k \in 1..L PROVE Byte(s, k) = n[k]
  <2> DEFINE x == n[k]
             B(i) == Bit(s, 6, 8 * (k - 1) + i)
  <2>1. x \in 0..255
    BY <1>1
  <2>2. ASSUME NEW i \in 1..8 PROVE B(i) = (x \div Weight[9 - i]) % 2
    BY <1>1, <1>2, ByteBits
  <2>3. /\ B(1) = (x \div 128) % 2 /\ B(2) = (x \div 64) % 2 /\ B(3) = (x \div 32) % 2
        /\ B(4) = (x \div 16) % 2 /\ B(5) = (x \div 8) % 2 /\ B(6) = (x \div 4) % 2
        /\ B(7) = (x \div 2) % 2 /\ B(8) = (x \div 1) % 2
    <3> HIDE DEF B, x
    <3> QED BY <2>2, Weights
  <2>4. Byte(s, k) = 128 * B(1) + 64 * B(2) + 32 * B(3) + 16 * B(4) + 8 * B(5) + 4 * B(6) + 2 * B(7) + B(8)
    BY DEF Byte
  <2> HIDE DEF B, x
  <2>5. Byte(s, k) = x
    BY <2>1, <2>3, <2>4, EightBits
  <2> QED BY <2>5 DEF x
<1>7. DecodeString(s) = [k \in 1..L |-> Byte(s, k)]
  BY <1>3, <1>4 DEF DecodeString
<1>8. DecodeString(s) = n
  BY <1>1, <1>6, <1>7
<1> QED BY <1>5, <1>8 DEF s

-----------------------------------------------------------------------------
(* The segments of an encoding. *)

(* Multiples grow with their factor. *)
LEMMA MultiplesGrow ==
  ASSUME NEW i \in Nat, NEW j \in Nat, NEW M \in Nat, i <= j
  PROVE  i * M \in Nat /\ j * M \in Nat /\ i * M <= j * M /\ (i + 1) * M = i * M + M
<1>1. i * M \in Nat /\ j * M \in Nat /\ (j - i) * M \in Nat
  OBVIOUS
<1>2. j * M = i * M + (j - i) * M
  OBVIOUS
<1>3. (i + 1) * M = i * M + M
  OBVIOUS
<1> QED BY <1>1, <1>2, <1>3

(* As many pieces as it takes, and no more. *)
LEMMA PieceCount ==
  ASSUME NEW N \in Nat \ {0}, NEW M \in Nat \ {0}, NEW c, c = (N + M - 1) \div M
  PROVE  c \in Nat \ {0} /\ c * M \in Nat /\ c * M >= N /\ c * M - M < N
<1> DEFINE a == N + M - 1
           r == a % M
<1>1. a \in Nat /\ c \in Nat /\ r \in 0..(M - 1)
  OBVIOUS
<1>2. a = M * c + r
  OBVIOUS
<1>3. c * M \in Nat /\ c * M = M * c
  BY <1>1
<1>4. c * M >= N /\ c * M - M < N
  <2> DEFINE p == c * M
  <2>1. p \in Nat /\ N + M - 1 = p + r
    BY <1>2, <1>3
  <2> HIDE DEF p, r
  <2>2. p >= N /\ p - M < N
    BY <1>1, <2>1
  <2> QED BY <2>2 DEF p
<1>5. c # 0
  BY <1>4
<1> QED BY <1>1, <1>3, <1>4, <1>5

(* Where a piece begins and ends. *)
LEMMA PiecePlace ==
  ASSUME NEW N \in Nat \ {0}, NEW M \in Nat \ {0}, NEW c \in Nat \ {0}, NEW i \in 1..c,
         c * M \in Nat, c * M >= N, c * M - M < N
  PROVE  /\ (i - 1) * M \in 0..(N - 1)
         /\ Smaller(i * M, N) \in ((i - 1) * M + 1)..N
         /\ Smaller(i * M, N) <= (i - 1) * M + M
         /\ i # c => Smaller(i * M, N) = i * M /\ i * M = (i - 1) * M + M
         /\ i = c => Smaller(i * M, N) = N
<1>1. c \in Nat \ {0} /\ c * M \in Nat /\ c * M >= N /\ c * M - M < N
  OBVIOUS
<1>2. i \in Nat /\ i - 1 \in Nat /\ i - 1 <= c - 1 /\ c - 1 \in Nat /\ (c - 1) + 1 = c /\ (i - 1) + 1 = i
  BY <1>1
<1> DEFINE p == (i - 1) * M
           q == i * M
           x == (c - 1) * M
           y == c * M
<1>3. p \in Nat /\ x \in Nat /\ p <= x /\ q = p + M
  BY <1>2, MultiplesGrow
<1>4. y = x + M
  BY <1>2, MultiplesGrow
<1>5. i # c => q <= x
  <2>1. i # c => i <= c - 1
    BY <1>1
  <2> QED BY <1>2, <2>1, MultiplesGrow
<1>6. i = c => q = y
  OBVIOUS
<1> HIDE DEF p, q, x, y
<1>7. x < N /\ y >= N
  BY <1>1, <1>3, <1>4 DEF y
<1>8. /\ p \in 0..(N - 1) /\ Smaller(q, N) \in (p + 1)..N /\ Smaller(q, N) <= p + M
      /\ i # c => Smaller(q, N) = q /\ q = p + M
      /\ i = c => Smaller(q, N) = N
  <2>1. p < N /\ (i # c => q < N) /\ (i = c => q >= N)
    BY <1>3, <1>4, <1>5, <1>6, <1>7
  <2> QED BY <1>3, <2>1 DEF Smaller
<1> QED BY <1>1, <1>8 DEF p, q

(* The segments of an encoding: all but the last are full, none is empty, *)
(* and they make up the encoding.                                         *)
LEMMA SegmentsOf ==
  ASSUME NEW e \in Seq(Nat), e # <<>>
  PROVE  /\ SegmentEncoding(e) \in Seq(Seq(Nat)) /\ Len(SegmentEncoding(e)) \in Nat \ {0}
         /\ \A i \in 1..Len(SegmentEncoding(e)) :
              /\ Len(SegmentEncoding(e)[i]) \in 1..MaxSegment
              /\ i # Len(SegmentEncoding(e)) => Len(SegmentEncoding(e)[i]) = MaxSegment
         /\ FlattenSeq(SegmentEncoding(e)) = e
         /\ Len(e) <= MaxSegment => SegmentEncoding(e) = <<e>>
<1> DEFINE N == Len(e)
           M == MaxSegment
           c == (N + M - 1) \div M
           Ends(i) == Smaller(i * M, N)
           Piece(i) == SubSeq(e, (i - 1) * M + 1, Ends(i))
           s == SegmentEncoding(e)
<1>1. N \in Nat \ {0} /\ M \in Nat \ {0}
  BY KeysAssumption, EmptySeq
<1>2. ASSUME NEW i \in 1..c
      PROVE  /\ (i - 1) * M \in 0..(N - 1)
             /\ Ends(i) \in ((i - 1) * M + 1)..N
             /\ Ends(i) <= (i - 1) * M + M
             /\ i # c => Ends(i) = i * M /\ i * M = (i - 1) * M + M
             /\ i = c => Ends(i) = N
  <2>1. c \in Nat \ {0} /\ c * M \in Nat /\ c * M >= N /\ c * M - M < N
    BY <1>1, PieceCount
  <2> HIDE DEF c, N, M
  <2> QED BY <1>1, <2>1, PiecePlace
<1>3. c \in Nat \ {0}
  BY <1>1, PieceCount
<1>4. s = [i \in 1..c |-> Piece(i)]
  BY DEF SegmentEncoding
<1> HIDE DEF N, M, c, Ends, s
<1>5. ASSUME NEW i \in 1..c
      PROVE  /\ Piece(i) \in Seq(Nat) /\ Len(Piece(i)) = Ends(i) - (i - 1) * M
             /\ Len(Piece(i)) \in 1..M /\ (i # c => Len(Piece(i)) = M)
  <2> DEFINE p == (i - 1) * M
             q == Ends(i)
  <2>1. p \in 0..(N - 1) /\ q \in (p + 1)..N /\ q <= p + M /\ (i # c => q = p + M)
    BY <1>2
  <2> HIDE DEF p, q
  <2>2. p + 1 \in Int /\ q \in Int /\ p + 1 <= q /\ \A j \in (p + 1)..q : e[j] \in Nat
    <3>1. \A j \in 1..N : e[j] \in Nat
      BY DEF N
    <3>2. \A j \in (p + 1)..q : j \in 1..N
      BY <1>1, <2>1
    <3> QED BY <1>1, <2>1, <3>1, <3>2
  <2>3. SubSeq(e, p + 1, q) \in Seq(Nat) /\ Len(SubSeq(e, p + 1, q)) = q - (p + 1) + 1
    BY <2>2, SubSeqProperties
  <2>4. q - (p + 1) + 1 = q - p /\ q - p \in 1..M /\ (i # c => q - p = M)
    BY <1>1, <2>1
  <2>5. Len(SubSeq(e, p + 1, q)) = q - p
    BY <2>3, <2>4
  <2> QED BY <2>3, <2>4, <2>5 DEF p, q
<1>6. s \in Seq(Seq(Nat)) /\ Len(s) = c /\ \A i \in 1..c : s[i] = Piece(i)
  <2> HIDE DEF Piece
  <2> QED BY <1>3, <1>4, <1>5
<1>7. FlattenSeq(s) = e
  <2> DEFINE g == [i \in 1..Len(s) |-> SubSeq(e, 1, Ends(i))]
  <2>1. ASSUME NEW i \in 1..c
        PROVE  SubSeq(e, 1, Ends(i)) = IF i = 1 THEN s[i] ELSE SubSeq(e, 1, Ends(i - 1)) \o s[i]
    <3>1. CASE i = 1
      <4>1. (1 - 1) * M + 1 = 1
        BY <1>1
      <4>2. s[1] = SubSeq(e, (1 - 1) * M + 1, Ends(1))
        BY <1>6, <3>1
      <4>3. s[1] = SubSeq(e, 1, Ends(1))
        BY <4>1, <4>2
      <4> QED BY <3>1, <4>3, Zenon
    <3>2. CASE i # 1
      <4> DEFINE k == Ends(i - 1)
                 q == Ends(i)
      <4>1. i - 1 \in 1..c /\ i - 1 # c
        BY <1>3, <3>2
      <4>2. k = (i - 1) * M
        BY <1>2, <4>1
      <4>3. k \in 0..(N - 1) /\ q \in (k + 1)..N
        BY <1>2, <4>2
      <4>4. s[i] = SubSeq(e, k + 1, q)
        BY <1>6, <4>2
      <4> HIDE DEF k, q
      <4>5. 1 \in 1..(Len(e) + 1) /\ k \in (1 - 1)..Len(e) /\ q \in k..Len(e)
        BY <1>1, <4>3 DEF N
      <4>6. SubSeq(e, 1, k) \o SubSeq(e, k + 1, q) = SubSeq(e, 1, q)
        BY <4>5, ConcatAdjacentSubSeq, Zenon
      <4>7. SubSeq(e, 1, q) = SubSeq(e, 1, k) \o s[i]
        BY <4>4, <4>6, Zenon
      <4> QED BY <3>2, <4>7, Zenon DEF k, q
    <3> QED BY <3>1, <3>2
  <2>2. \A i \in 1..Len(s) : g[i] = SubSeq(e, 1, Ends(i))
    OBVIOUS
  <2>3. \A i \in 1..Len(s) : i # 1 => i - 1 \in 1..Len(s)
    BY <1>3, <1>6
  <2>4. \A i \in 1..Len(s) : g[i] = IF i = 1 THEN s[i] ELSE g[i - 1] \o s[i]
    <3> SUFFICES ASSUME NEW i \in 1..Len(s) PROVE g[i] = IF i = 1 THEN s[i] ELSE g[i - 1] \o s[i]
      OBVIOUS
    <3> HIDE DEF g
    <3>1. SubSeq(e, 1, Ends(i)) = IF i = 1 THEN s[i] ELSE SubSeq(e, 1, Ends(i - 1)) \o s[i]
      BY <1>6, <2>1
    <3> QED BY <2>2, <2>3, <3>1, Zenon
  <2>5. g = [i \in 1..Len(s) |-> IF i = 1 THEN s[i] ELSE g[i - 1] \o s[i]]
    BY <2>4
  <2>6. g[c] = e
    <3>1. c \in 1..Len(s) /\ Ends(c) = Len(e)
      BY <1>2, <1>3, <1>6 DEF N
    <3>2. g[c] = SubSeq(e, 1, Len(e))
      BY <2>2, <3>1
    <3> QED BY <3>2, SubSeqFull
  <2> HIDE DEF g
  <2>7. FlattenSeq(s) = g[Len(s)]
    BY <1>3, <1>6, <2>5, FlattenRecursion
  <2> QED BY <1>6, <2>6, <2>7
<1>8. N <= M => s = <<e>>
  <2> SUFFICES ASSUME N <= M PROVE s = <<e>>
    OBVIOUS
  <2>1. c = 1
    <3>1. CASE c = 1
      BY <3>1
    <3>2. CASE c # 1
      <4>1. 1 \in 1..c /\ 1 # c /\ Ends(1) \in 1..N
        <5>1. 1 \in 1..c /\ (1 - 1) * M = 0
          BY <1>1, <1>3
        <5> QED BY <1>2, <3>2, <5>1
      <4>2. 2 \in 1..c /\ (2 - 1) * M = M
        BY <1>1, <1>3, <3>2
      <4>3. M \in 0..(N - 1)
        BY <1>2, <4>2
      <4> QED BY <1>1, <4>3
    <3> QED BY <3>1, <3>2
  <2>2. 1 \in 1..c /\ (1 - 1) * M + 1 = 1
    BY <1>1, <2>1
  <2>3. s[1] = SubSeq(e, 1, Ends(1)) /\ Ends(1) = N
    BY <1>2, <1>6, <2>1, <2>2
  <2>4. s[1] = e
    BY <2>3, SubSeqFull DEF N
  <2> QED BY <1>6, <2>1, <2>4
<1>9. \A i \in 1..Len(s) : Len(s[i]) \in 1..MaxSegment /\ (i # Len(s) => Len(s[i]) = MaxSegment)
  <2> HIDE DEF Piece
  <2> QED BY <1>5, <1>6 DEF M
<1> QED BY <1>3, <1>6, <1>7, <1>8, <1>9 DEF s, N, M
-----------------------------------------------------------------------------
(* The names and the digests in a key. *)

(* A name that is written, and its encoding, are not empty. *)
LEMMA NameFacts ==
  ASSUME NEW n \in Names
  PROVE  /\ n \in Seq(0..255) /\ n \in Seq(Nat) /\ Len(n) \in 1..MaxName /\ ValidName(n) /\ n # NoName
         /\ EncodeToString(n) \in Seq(Nat) /\ EncodeToString(n) # <<>>
<1>1. n \in Seq(NameBytes) /\ NameBytes \subseteq 0..255 /\ ValidName(n) /\ Len(n) \in 1..MaxName
  BY KeysAssumption DEF ValidName
<1>2. n \in Seq(0..255)
  <2> DEFINE B == 0..255
  <2>1. NameBytes \subseteq B
    BY <1>1
  <2> HIDE DEF B
  <2>2. n \in Seq(B)
    BY <1>1, <2>1, SeqMonotonic
  <2> QED BY <2>2 DEF B
<1>3. 0..255 \subseteq Nat /\ Chars \subseteq Nat
  BY DEF Chars
<1>4. n \in Seq(Nat)
  BY <1>2, <1>3, SeqMonotonic, Zenon
<1>5. EncodeToString(n) \in Seq(Chars) /\ Len(EncodeToString(n)) = (8 * Len(n) + 5) \div 6
  BY <1>4, EncodedBits
<1>6. EncodeToString(n) \in Seq(Nat)
  BY <1>3, <1>5, SeqMonotonic, Zenon
<1>7. Len(n) \in Nat /\ Len(n) # 0
  <2>1. MaxName \in Nat
    BY KeysAssumption
  <2> QED BY <1>1, <2>1
<1>8. Len(EncodeToString(n)) # 0
  <2> DEFINE L == Len(n)
  <2>1. L \in Nat /\ L # 0
    BY <1>7
  <2> HIDE DEF L
  <2>2. (8 * L + 5) \div 6 # 0
    BY <2>1
  <2> QED BY <1>5, <2>2 DEF L
<1>9. Len(<<>>) = 0
  OBVIOUS
<1>10. n # NoName /\ EncodeToString(n) # <<>>
  BY <1>7, <1>8, <1>9, Zenon DEF NoName
<1> QED BY <1>1, <1>2, <1>4, <1>6, <1>10

(* A digest is lower-case hexadecimal, of one length. *)
LEMMA DigestFacts ==
  ASSUME NEW n \in Names
  PROVE  /\ Digest(n) \in Seq(Nat) /\ IsDigest(Digest(n))
         /\ HexDecoded(Digest(n)) = Digest(n)
<1> DEFINE l == Len(n)
           D == DigestLength
           g == Digest(n)
<1>1. MaxName \in Nat /\ l \in Nat /\ l <= MaxName /\ l >= 1 /\ n \in Seq(Nat)
  <2>1. MaxName \in Nat /\ l \in 1..MaxName /\ n \in Seq(Nat)
    BY NameFacts, KeysAssumption
  <2> QED BY <2>1
<1>2. \A k \in 1..l : n[k] \in Nat
  BY <1>1
<1>3. D \in Nat /\ l < D
  BY <1>1 DEF DigestLength
<1>4. g = [i \in 1..D |-> IF i < D - l THEN 52 ELSE IF i = D - l THEN 26 ELSE 52 + (n[i - (D - l)] % 2)]
  BY DEF Digest
<1> HIDE DEF D, l, g
<1>5. ASSUME NEW i \in 1..D PROVE g[i] \in {26, 52, 53}
  <2>1. CASE i < D - l
    BY <1>4, <2>1
  <2>2. CASE i = D - l
    BY <1>1, <1>3, <1>4, <2>2
  <2>3. CASE i > D - l
    <3>1. i - (D - l) \in 1..l
      BY <1>1, <1>3, <2>3
    <3>2. g[i] = 52 + (n[i - (D - l)] % 2)
      BY <1>1, <1>3, <1>4, <2>3
    <3>3. n[i - (D - l)] \in Nat
      BY <1>2, <3>1
    <3>4. \A v \in Nat : v % 2 = 0 \/ v % 2 = 1
      OBVIOUS
    <3>5. n[i - (D - l)] % 2 = 0 \/ n[i - (D - l)] % 2 = 1
      BY <3>3, <3>4, Zenon
    <3> QED BY <3>2, <3>5
  <2> QED BY <1>1, <1>3, <2>1, <2>2, <2>3
<1>6. \A v \in {26, 52, 53} : v \in Nat /\ v \in LowerHex /\ v \notin UpperHex
  BY DEF LowerHex, UpperHex
<1>7. \A i \in 1..D : g[i] \in Nat /\ g[i] \in LowerHex /\ g[i] \notin UpperHex
  BY <1>5, <1>6
<1>8. g \in Seq(Nat) /\ Len(g) = D /\ DOMAIN g = 1..D
  <2>1. DOMAIN g = 1..D /\ g = [i \in 1..D |-> g[i]]
    BY <1>4
  <2> QED BY <1>3, <1>7, <2>1
<1>9. IsHex(g)
  BY <1>7, <1>8 DEF IsHex
<1>10. HexDecoded(g) = g
  <2>1. HexDecoded(g) = [i \in 1..D |-> IF g[i] \in UpperHex THEN g[i] + 26 ELSE g[i]]
    BY <1>8 DEF HexDecoded
  <2>2. [i \in 1..D |-> IF g[i] \in UpperHex THEN g[i] + 26 ELSE g[i]] = [i \in 1..D |-> g[i]]
    BY <1>7
  <2>3. g = [i \in 1..D |-> g[i]]
    BY <1>8
  <2> QED BY <2>1, <2>2, <2>3, Zenon
<1>11. IsDigest(g)
  BY <1>8, <1>9 DEF IsDigest, D
<1> QED BY <1>8, <1>10, <1>11 DEF g

-----------------------------------------------------------------------------
(* The shape of a key. *)

(* The two namespaces: their segments differ in length, and the first is *)
(* not hexadecimal.                                                      *)
Namespaces == {ManifestNamespace, PayloadNamespace}

LEMMA NamespaceFacts ==
  ASSUME NEW s \in Namespaces
  PROVE  /\ s \in Seq(Seq(Nat)) /\ Len(s) = 2
         /\ Len(s[1]) # Len(s[2]) /\ s[1] # s[2] /\ ~IsHex(s[1]) /\ s[2] = <<47, 53>>
<1>1. CASE s = ManifestNamespace
  <2>1. s \in Seq(Seq(Nat)) /\ Len(s) = 2 /\ s[1] = <<27, 37, 40, 27, 44>> /\ s[2] = <<47, 53>>
    BY <1>1 DEF ManifestNamespace
  <2>2. Len(s[1]) = 5 /\ Len(s[2]) = 2
    BY <2>1
  <2>3. 2 \in DOMAIN s[1] /\ s[1][2] = 37
    BY <2>1
  <2>4. ~IsHex(s[1])
    BY <2>3 DEF IsHex, UpperHex, LowerHex
  <2> QED BY <2>1, <2>2, <2>4
<1>2. CASE s = PayloadNamespace
  <2>1. s \in Seq(Seq(Nat)) /\ Len(s) = 2 /\ s[1] = <<41, 26, 50, 37, 40, 26, 29, 44>> /\ s[2] = <<47, 53>>
    BY <1>2 DEF PayloadNamespace
  <2>2. Len(s[1]) = 8 /\ Len(s[2]) = 2
    BY <2>1
  <2>3. 1 \in DOMAIN s[1] /\ s[1][1] = 41
    BY <2>1
  <2>4. ~IsHex(s[1])
    BY <2>3 DEF IsHex, UpperHex, LowerHex
  <2> QED BY <2>1, <2>2, <2>4
<1> QED BY <1>1, <1>2 DEF Namespaces

LEMMA NamespacesDiffer == ManifestNamespace[1] # PayloadNamespace[1] /\ ManifestNamespace # PayloadNamespace
<1>1. ManifestNamespace[1] = <<27, 37, 40, 27, 44>> /\ PayloadNamespace[1] = <<41, 26, 50, 37, 40, 26, 29, 44>>
  BY DEF ManifestNamespace, PayloadNamespace
<1>2. Len(ManifestNamespace[1]) = 5 /\ Len(PayloadNamespace[1]) = 8
  BY <1>1
<1> QED BY <1>2

(* The elements of a concatenation. *)
LEMMA ConcatElements ==
  ASSUME NEW u \in Seq(Seq(Nat)), NEW v \in Seq(Seq(Nat))
  PROVE  /\ u \o v \in Seq(Seq(Nat)) /\ Len(u \o v) = Len(u) + Len(v)
         /\ \A i \in 1..Len(u) : (u \o v)[i] = u[i]
         /\ \A j \in 1..Len(v) : (u \o v)[Len(u) + j] = v[j]
<1>1. Len(u) \in Nat /\ Len(v) \in Nat
  OBVIOUS
<1>2. /\ u \o v \in Seq(Seq(Nat)) /\ Len(u \o v) = Len(u) + Len(v)
      /\ \A i \in 1..(Len(u) + Len(v)) : (u \o v)[i] = IF i <= Len(u) THEN u[i] ELSE v[i - Len(u)]
  BY ConcatProperties
<1>3. \A i \in 1..Len(u) : i \in 1..(Len(u) + Len(v)) /\ i <= Len(u)
  BY <1>1
<1>4. \A j \in 1..Len(v) : /\ Len(u) + j \in 1..(Len(u) + Len(v)) /\ ~(Len(u) + j <= Len(u))
                           /\ (Len(u) + j) - Len(u) = j
  BY <1>1
<1> QED BY <1>2, <1>3, <1>4

(* The segments of a deployment's key: its prefix, the namespace, the *)
(* digest and the rest.                                               *)
Key(d, s, x, t) == ((d \o s) \o <<x>>) \o t

LEMMA KeyShape ==
  ASSUME NEW d \in Seq(Seq(Nat)), NEW s \in Namespaces, NEW x \in Seq(Nat), NEW t \in Seq(Seq(Nat))
  PROVE  /\ Key(d, s, x, t) \in Seq(Seq(Nat))
         /\ Len(Key(d, s, x, t)) = Len(d) + 3 + Len(t)
         /\ \A i \in 1..Len(d) : Key(d, s, x, t)[i] = d[i]
         /\ Key(d, s, x, t)[Len(d) + 1] = s[1]
         /\ Key(d, s, x, t)[Len(d) + 2] = s[2]
         /\ Key(d, s, x, t)[Len(d) + 3] = x
         /\ \A i \in 1..Len(t) : Key(d, s, x, t)[Len(d) + 3 + i] = t[i]
<1> DEFINE D == Len(d)
           a == d \o s
           b == a \o <<x>>
           c == b \o t
<1>1. d \in Seq(Seq(Nat)) /\ s \in Seq(Seq(Nat)) /\ t \in Seq(Seq(Nat)) /\ <<x>> \in Seq(Seq(Nat)) /\ x \in Seq(Nat)
  BY NamespaceFacts
<1>2. D \in Nat /\ Len(t) \in Nat
  BY <1>1
<1>3. a \in Seq(Seq(Nat)) /\ Len(a) = D + 2 /\ (\A i \in 1..D : a[i] = d[i]) /\ a[D + 1] = s[1] /\ a[D + 2] = s[2]
  <2>1. Len(s) = 2 /\ 1 \in 1..Len(s) /\ 2 \in 1..Len(s)
    BY NamespaceFacts
  <2>2. /\ d \o s \in Seq(Seq(Nat)) /\ Len(d \o s) = Len(d) + Len(s)
        /\ \A i \in 1..Len(d) : (d \o s)[i] = d[i]
        /\ \A j \in 1..Len(s) : (d \o s)[Len(d) + j] = s[j]
    BY <1>1, ConcatElements
  <2> QED BY <2>1, <2>2
<1> HIDE DEF a
<1>4. /\ b \in Seq(Seq(Nat)) /\ Len(b) = D + 3 /\ (\A i \in 1..D : b[i] = d[i])
      /\ b[D + 1] = s[1] /\ b[D + 2] = s[2] /\ b[D + 3] = x
  BY <1>1, <1>2, <1>3
<1> HIDE DEF b
<1>5. /\ c \in Seq(Seq(Nat)) /\ Len(c) = D + 3 + Len(t) /\ (\A i \in 1..D : c[i] = d[i])
      /\ c[D + 1] = s[1] /\ c[D + 2] = s[2] /\ c[D + 3] = x
      /\ \A i \in 1..Len(t) : c[D + 3 + i] = t[i]
  <2>1. /\ c \in Seq(Seq(Nat)) /\ Len(c) = Len(b) + Len(t) /\ \A i \in 1..Len(b) : c[i] = b[i]
        /\ \A i \in 1..Len(t) : c[Len(b) + i] = t[i]
    <3>1. b \in Seq(Seq(Nat)) /\ t \in Seq(Seq(Nat))
      BY <1>1, <1>4
    <3> QED BY <3>1, ConcatElements
  <2>2. \A i \in 1..(D + 3) : c[i] = b[i]
    BY <1>4, <2>1
  <2>3. D + 1 \in 1..(D + 3) /\ D + 2 \in 1..(D + 3) /\ D + 3 \in 1..(D + 3) /\ \A i \in 1..D : i \in 1..(D + 3)
    BY <1>2
  <2>4. (\A i \in 1..D : c[i] = d[i]) /\ c[D + 1] = s[1] /\ c[D + 2] = s[2] /\ c[D + 3] = x
    BY <1>4, <2>2, <2>3
  <2> HIDE DEF c
  <2> QED BY <1>4, <2>1, <2>4
<1>6. c = Key(d, s, x, t)
  BY DEF Key, a, b
<1> HIDE DEF c
<1> QED BY <1>5, <1>6, Zenon

(* A key under the root of a deployment's namespace. *)
LEMMA UnderRoot ==
  ASSUME NEW d \in Seq(Seq(Nat)), NEW s \in Seq(Seq(Nat)), Len(s) = 2, NEW r \in Seq(Seq(Nat))
  PROVE  /\ NamespaceRoot(d, s) \in Seq(Seq(Nat)) /\ Len(NamespaceRoot(d, s)) = Len(d) + 2
         /\ IsPrefix(NamespaceRoot(d, s), r) <=>
              /\ Len(r) >= Len(d) + 2 /\ \A i \in 1..Len(d) : r[i] = d[i]
              /\ r[Len(d) + 1] = s[1] /\ r[Len(d) + 2] = s[2]
<1> DEFINE S == Seq(Nat)
           D == Len(d)
           a == NamespaceRoot(d, s)
<1>1. d \in Seq(S) /\ s \in Seq(S) /\ r \in Seq(S)
  OBVIOUS
<1> HIDE DEF S
<1>2. D \in Nat /\ Len(r) \in Nat
  BY <1>1
<1>3. a \in Seq(S) /\ Len(a) = D + 2 /\ (\A i \in 1..D : a[i] = d[i]) /\ a[D + 1] = s[1] /\ a[D + 2] = s[2]
  <2>1. 1 \in 1..Len(s) /\ 2 \in 1..Len(s)
    OBVIOUS
  <2>2. /\ d \o s \in Seq(Seq(Nat)) /\ Len(d \o s) = Len(d) + Len(s)
        /\ \A i \in 1..Len(d) : (d \o s)[i] = d[i]
        /\ \A j \in 1..Len(s) : (d \o s)[Len(d) + j] = s[j]
    BY ConcatElements
  <2>3. a = d \o s
    BY DEF NamespaceRoot
  <2> HIDE DEF a
  <2> QED BY <2>1, <2>2, <2>3 DEF S
<1> HIDE DEF a
<1>4. SubSeq(a, 1, Len(a)) = a
  BY <1>3, SubSeqFull
<1>5. CASE Len(r) >= D + 2
  <2> DEFINE b == SubSeq(r, 1, D + 2)
  <2>1. b \in Seq(S) /\ Len(b) = D + 2 /\ \A i \in 1..(D + 2) : b[i] = r[i]
    BY <1>1, <1>2, <1>5
  <2> HIDE DEF b
  <2>2. IsPrefix(a, r) <=> a = b
    BY <1>2, <1>3, <1>4, <1>5 DEF IsPrefix, b
  <2>3. a = b <=> \A i \in 1..(D + 2) : a[i] = r[i]
    <3>1. (\A i \in 1..(D + 2) : a[i] = r[i]) => a = b
      <4> SUFFICES ASSUME \A i \in 1..(D + 2) : a[i] = r[i] PROVE a = b
        OBVIOUS
      <4>1. Len(a) = Len(b) /\ \A i \in 1..Len(a) : a[i] = b[i]
        BY <1>3, <2>1
      <4> QED BY <1>3, <2>1, <4>1, SeqEqual, Zenon
    <3> QED BY <2>1, <3>1
  <2>4. \A i \in 1..(D + 2) : i \in 1..D \/ i = D + 1 \/ i = D + 2
    BY <1>2
  <2>5. D + 1 \in 1..(D + 2) /\ D + 2 \in 1..(D + 2) /\ \A i \in 1..D : i \in 1..(D + 2)
    BY <1>2
  <2>6. (\A i \in 1..(D + 2) : a[i] = r[i]) <=>
          (\A i \in 1..D : r[i] = d[i]) /\ r[D + 1] = s[1] /\ r[D + 2] = s[2]
    BY <1>3, <2>4, <2>5
  <2> QED BY <1>3, <1>5, <2>2, <2>3, <2>6 DEF S, a
<1>6. CASE ~(Len(r) >= D + 2)
  <2>1. ~IsPrefix(a, r)
    BY <1>2, <1>3, <1>6 DEF IsPrefix
  <2> QED BY <1>3, <1>6, <2>1 DEF S, a
<1> QED BY <1>5, <1>6

-----------------------------------------------------------------------------
(* What the decoder of a key accepts. *)

(* The segments after the digest, and what they encode. *)
Rest(d, r) == SubSeq(r, Len(d) + 4, Len(r))
Encoded(d, r) == FlattenSeq(Rest(d, r))

(* The conditions under which a key lists in a deployment. *)
Listable(d, r) ==
  /\ Len(r) >= Len(d) + 4 /\ \A i \in 1..Len(d) : r[i] = d[i]
  /\ r[Len(d) + 1] = ManifestNamespace[1] /\ r[Len(d) + 2] = ManifestNamespace[2]
  /\ IsDigest(r[Len(d) + 3])
  /\ Len(r) > Len(d) + 4 => SegmentEncoding(Encoded(d, r)) = Rest(d, r)
  /\ Decodes(Encoded(d, r)) /\ EncodeToString(DecodeString(Encoded(d, r))) = Encoded(d, r)
  /\ ValidName(DecodeString(Encoded(d, r)))
  /\ Digest(DecodeString(Encoded(d, r))) = HexDecoded(r[Len(d) + 3])

(* The rest of a key that is long enough. *)
LEMMA RestFacts ==
  ASSUME NEW d \in Seq(Seq(Nat)), NEW r \in Seq(Seq(Nat)), Len(r) >= Len(d) + 4
  PROVE  /\ Rest(d, r) \in Seq(Seq(Nat)) /\ Len(Rest(d, r)) = Len(r) - (Len(d) + 3)
         /\ Len(Rest(d, r)) # 0
         /\ \A i \in 1..(Len(r) - (Len(d) + 3)) : Rest(d, r)[i] = r[Len(d) + 3 + i]
         /\ Encoded(d, r) \in Seq(Nat)
<1> DEFINE S == Seq(Nat)
           D == Len(d)
           N == Len(r)
<1>1. r \in Seq(S) /\ D \in Nat /\ N \in Nat /\ N >= D + 4
  OBVIOUS
<1>2. \A i \in 1..N : r[i] \in S
  BY <1>1
<1> HIDE DEF S, D, N
<1>3. D + 4 \in Int /\ N \in Int /\ D + 4 <= N /\ N - (D + 4) + 1 = N - (D + 3) /\ N - (D + 3) # 0
  BY <1>1
<1>4. \A i \in (D + 4)..N : r[i] \in S
  BY <1>1, <1>2
<1>5. /\ SubSeq(r, D + 4, N) \in Seq(S) /\ Len(SubSeq(r, D + 4, N)) = N - (D + 4) + 1
      /\ \A i \in 1..(N - (D + 4) + 1) : SubSeq(r, D + 4, N)[i] = r[D + 4 + i - 1]
  <2> DEFINE m == D + 4
  <2>1. m \in Int /\ N \in Int /\ m <= N /\ \A i \in m..N : r[i] \in S
    BY <1>3, <1>4
  <2> HIDE DEF m
  <2>2. SubSeq(r, m, N) \in Seq(S) /\ Len(SubSeq(r, m, N)) = N - m + 1
    BY <2>1, SubSeqProperties
  <2>3. \A i \in 1..(N - m + 1) : SubSeq(r, m, N)[i] = r[m + i - 1]
    BY <2>1, SubSeqProperties
  <2> QED BY <2>2, <2>3 DEF m
<1>6. \A i \in 1..(N - (D + 3)) : D + 4 + i - 1 = D + 3 + i
  BY <1>1
<1>7. Rest(d, r) = SubSeq(r, D + 4, N)
  BY DEF Rest, D, N
<1>8. /\ Rest(d, r) \in Seq(S) /\ Len(Rest(d, r)) = N - (D + 3) /\ Len(Rest(d, r)) # 0
      /\ \A i \in 1..(N - (D + 3)) : Rest(d, r)[i] = r[D + 3 + i]
  BY <1>3, <1>5, <1>6, <1>7
<1>9. Encoded(d, r) \in Seq(Nat)
  BY <1>8, FlattenExists DEF S, Encoded
<1> QED BY <1>8, <1>9 DEF S, D, N

(* logicalKeyFromManifestObject answers a name under these conditions only. *)
LEMMA LogicalKeyAnswers ==
  ASSUME NEW d \in Seq(Seq(Nat)), NEW r \in Seq(Seq(Nat))
  PROVE  LogicalKey(d, r) = IF Listable(d, r) THEN DecodeString(Encoded(d, r)) ELSE NoName
<1> DEFINE D == Len(d)
           N == Len(r)
           root == NamespaceRoot(d, ManifestNamespace)
           parts == SubSeq(r, Len(root) + 1, Len(r))
           Under == /\ \A i \in 1..D : r[i] = d[i]
                    /\ r[D + 1] = ManifestNamespace[1] /\ r[D + 2] = ManifestNamespace[2]
<1>1. D \in Nat /\ N \in Nat
  OBVIOUS
<1>2. Len(root) = D + 2 /\ (IsPrefix(root, r) <=> N >= D + 2 /\ Under)
  <2>1. ManifestNamespace \in Seq(Seq(Nat)) /\ Len(ManifestNamespace) = 2
    BY NamespaceFacts DEF Namespaces
  <2>2. Len(root) = D + 2
    BY <2>1, UnderRoot
  <2>3. IsPrefix(root, r) <=> N >= D + 2 /\ Under
    <3> DEFINE s == ManifestNamespace
    <3>1. s \in Seq(Seq(Nat)) /\ Len(s) = 2
      BY <2>1
    <3> HIDE DEF s
    <3>2. IsPrefix(NamespaceRoot(d, s), r) <=>
            /\ Len(r) >= Len(d) + 2 /\ \A i \in 1..Len(d) : r[i] = d[i]
            /\ r[Len(d) + 1] = s[1] /\ r[Len(d) + 2] = s[2]
      BY <3>1, UnderRoot
    <3> QED BY <3>2, Zenon DEF s
  <2> QED BY <2>2, <2>3
<1> HIDE DEF root
<1>3. CASE N >= D + 4
  <2>1. /\ Len(parts) = N - (D + 2) /\ Len(parts) >= 2 /\ (Len(parts) > 2 <=> N > D + 4)
        /\ parts[1] = r[D + 3] /\ Tail(parts) = Rest(d, r)
    <3> DEFINE S == Seq(Nat)
    <3>1. r \in Seq(S)
      OBVIOUS
    <3>2. parts = SubSeq(r, D + 3, N)
      BY <1>1, <1>2
    <3>3. \A i \in 1..N : r[i] \in S
      BY <3>1
    <3> HIDE DEF S, parts, D, N
    <3>4. D + 3 \in 1..N /\ N \in (D + 3)..N /\ (D + 3) + 1 = D + 4
      BY <1>1, <1>3
    <3>5. Head(parts) = r[D + 3] /\ Tail(parts) = SubSeq(r, D + 4, N)
      BY <3>1, <3>2, <3>4, HeadTailOfSubSeq DEF N
    <3>6. Len(parts) = N - (D + 2)
      <4>1. D + 3 \in Int /\ N \in Int /\ D + 3 <= N /\ N - (D + 3) + 1 = N - (D + 2)
        BY <1>1, <1>3
      <4>2. \A i \in (D + 3)..N : r[i] \in S
        BY <1>1, <3>3
      <4>3. Len(SubSeq(r, D + 3, N)) = N - (D + 3) + 1
        BY <4>1, <4>2, SubSeqProperties
      <4> QED BY <3>2, <4>1, <4>3
    <3>7. Head(parts) = parts[1]
      OBVIOUS
    <3>8. Len(parts) >= 2 /\ (Len(parts) > 2 <=> N > D + 4)
      BY <1>1, <1>3, <3>6
    <3>9. Rest(d, r) = SubSeq(r, D + 4, N)
      BY DEF Rest, D, N
    <3> QED BY <3>5, <3>6, <3>7, <3>8, <3>9
  <2>2. N >= D + 2
    BY <1>1, <1>3
  <2>3. Encoded(d, r) = FlattenSeq(Tail(parts))
    BY <2>1 DEF Encoded
  <2> DEFINE encoded == FlattenSeq(Tail(parts))
             decoded == DecodeString(encoded)
             Accepts == /\ IsPrefix(root, r)
                        /\ Len(parts) >= 2 /\ IsDigest(parts[1])
                        /\ Len(parts) > 2 => SegmentEncoding(encoded) = Tail(parts)
                        /\ Decodes(encoded) /\ EncodeToString(decoded) = encoded
                        /\ ValidName(decoded) /\ Digest(decoded) = HexDecoded(parts[1])
  <2>4. LogicalKey(d, r) = IF Accepts THEN decoded ELSE NoName
    BY Zenon DEF LogicalKey, root
  <2> HIDE DEF parts
  <2>5. Accepts <=> Listable(d, r)
    <3> HIDE DEF encoded
    <3>1. Encoded(d, r) = encoded
      BY <2>3 DEF encoded
    <3> QED BY <1>2, <1>3, <2>1, <2>2, <3>1, Zenon DEF Listable
  <2> HIDE DEF Accepts
  <2>6. decoded = DecodeString(Encoded(d, r))
    BY <2>3, Zenon
  <2> QED BY <2>4, <2>5, <2>6, Zenon
<1>4. CASE ~(N >= D + 4)
  <2>1. ~(IsPrefix(root, r) /\ Len(parts) >= 2)
    <3>1. CASE N >= D + 2
      <4> DEFINE S == Seq(Nat)
      <4>1. \A i \in 1..N : r[i] \in S
        OBVIOUS
      <4>2. parts = SubSeq(r, D + 3, N)
        BY <1>1, <1>2
      <4> HIDE DEF S, parts
      <4>3. D + 3 \in Int /\ N \in Int /\ \A i \in (D + 3)..N : r[i] \in S
        BY <1>1, <4>1
      <4> HIDE DEF D, N
      <4>4. Len(SubSeq(r, D + 3, N)) = IF D + 3 <= N THEN N - (D + 3) + 1 ELSE 0
        BY <4>3, SubSeqProperties
      <4>5. Len(parts) < 2
        BY <1>1, <1>4, <3>1, <4>2, <4>4
      <4>6. Len(parts) \in Nat
        BY <1>1, <4>2, <4>4
      <4> QED BY <4>5, <4>6
    <3>2. CASE ~(N >= D + 2)
      BY <1>2, <3>2, Zenon
    <3> QED BY <3>1, <3>2
  <2>2. LogicalKey(d, r) = NoName
    BY <2>1, Zenon DEF LogicalKey, root
  <2>3. ~Listable(d, r)
    BY <1>4, Zenon DEF Listable
  <2> QED BY <2>2, <2>3, Zenon
<1> QED BY <1>3, <1>4

-----------------------------------------------------------------------------
(* The frame that every key of a deployment has: its prefix, a namespace,  *)
(* a hexadecimal segment, and after it only full segments before the last. *)

Framed(d, s, r) ==
  /\ Len(r) >= Len(d) + 4 /\ \A i \in 1..Len(d) : r[i] = d[i]
  /\ r[Len(d) + 1] = s[1] /\ r[Len(d) + 2] = s[2]
  /\ IsHex(r[Len(d) + 3])
  /\ \A i \in (Len(d) + 4)..(Len(r) - 1) : Len(r[i]) = MaxSegment

(* No key has the frame of two deployments, one with the longer prefix: the *)
(* namespace of that one would lie where the other has "v1", its digest, or *)
(* two full segments of one length.                                         *)
LEMMA NoLongerFrame ==
  ASSUME NEW d \in Seq(Seq(Nat)), NEW p \in Seq(Seq(Nat)), NEW s \in Namespaces, NEW z \in Namespaces,
         NEW r \in Seq(Seq(Nat)), Framed(d, s, r), Framed(p, z, r)
  PROVE  ~(Len(d) < Len(p))
<1> DEFINE D == Len(d)
           P == Len(p)
           N == Len(r)
<1>1. D \in Nat /\ P \in Nat /\ N \in Nat
  OBVIOUS
<1>2. /\ N >= D + 4 /\ r[D + 2] = s[2] /\ IsHex(r[D + 3])
      /\ \A i \in (D + 4)..(N - 1) : Len(r[i]) = MaxSegment
  BY DEF Framed
<1>3. N >= P + 4 /\ r[P + 1] = z[1] /\ r[P + 2] = z[2]
  BY DEF Framed
<1>4. Len(z[1]) # Len(z[2]) /\ z[1] # z[2] /\ ~IsHex(z[1]) /\ z[2] = s[2]
  <2>1. Len(z[1]) # Len(z[2]) /\ z[1] # z[2] /\ ~IsHex(z[1]) /\ z[2] = <<47, 53>>
    BY NamespaceFacts, Zenon
  <2>2. s[2] = <<47, 53>>
    BY NamespaceFacts, Zenon
  <2> QED BY <2>1, <2>2, Zenon
<1> HIDE DEF D, P, N
<1>5. SUFFICES ASSUME D < P PROVE FALSE
  BY DEF D, P
<1>6. CASE P = D + 1
  <2>1. P + 1 = D + 2
    BY <1>1, <1>6
  <2> QED BY <1>2, <1>3, <1>4, <2>1, Zenon
<1>7. CASE P = D + 2
  <2>1. P + 1 = D + 3
    BY <1>1, <1>7
  <2> QED BY <1>2, <1>3, <1>4, <2>1, Zenon
<1>8. CASE P >= D + 3
  <2>1. P + 1 \in (D + 4)..(N - 1) /\ P + 2 \in (D + 4)..(N - 1)
    BY <1>1, <1>3, <1>8
  <2>2. Len(r[P + 1]) = MaxSegment /\ Len(r[P + 2]) = MaxSegment
    BY <1>2, <2>1, Zenon
  <2> QED BY <1>3, <1>4, <2>2, Zenon
<1> QED BY <1>1, <1>5, <1>6, <1>7, <1>8

(* A key has the frame of one deployment and of one namespace. *)
LEMMA OneFrame ==
  ASSUME NEW d \in Seq(Seq(Nat)), NEW p \in Seq(Seq(Nat)), NEW s \in Namespaces, NEW z \in Namespaces,
         NEW r \in Seq(Seq(Nat)), Framed(d, s, r), Framed(p, z, r)
  PROVE  d = p /\ s = z
<1>1. ~(Len(d) < Len(p)) /\ ~(Len(p) < Len(d))
  BY NoLongerFrame
<1>2. Len(d) \in Nat /\ Len(p) \in Nat
  OBVIOUS
<1>3. Len(d) = Len(p)
  BY <1>1, <1>2
<1>4. (\A i \in 1..Len(d) : r[i] = d[i]) /\ r[Len(d) + 1] = s[1]
  BY DEF Framed
<1>5. (\A i \in 1..Len(p) : r[i] = p[i]) /\ r[Len(p) + 1] = z[1]
  BY DEF Framed
<1>6. d = p
  <2>1. \A i \in 1..Len(d) : d[i] = p[i]
    BY <1>3, <1>4, <1>5, Zenon
  <2> QED BY <1>3, <2>1, SeqEqual, Zenon
<1>7. s[1] = z[1]
  BY <1>3, <1>4, <1>5, Zenon
<1>8. s = z
  <2>1. s \in {ManifestNamespace, PayloadNamespace} /\ z \in {ManifestNamespace, PayloadNamespace}
    BY DEF Namespaces
  <2> QED BY <1>7, <2>1, NamespacesDiffer
<1> QED BY <1>6, <1>8

(* What lists in a deployment has its manifests' frame. *)
LEMMA ListableFramed ==
  ASSUME NEW d \in Seq(Seq(Nat)), NEW r \in Seq(Seq(Nat)), Listable(d, r)
  PROVE  Framed(d, ManifestNamespace, r)
<1> DEFINE D == Len(d)
           N == Len(r)
           t == Rest(d, r)
           e == Encoded(d, r)
<1>1. D \in Nat /\ N \in Nat /\ N >= D + 4 /\ (N > D + 4 => SegmentEncoding(e) = t) /\ IsHex(r[D + 3])
  BY DEF Listable, IsDigest
<1>2. /\ Len(t) = N - (D + 3) /\ (\A i \in 1..(N - (D + 3)) : t[i] = r[D + 3 + i]) /\ e \in Seq(Nat)
  BY <1>1, RestFacts
<1> HIDE DEF t, e
<1>3. ASSUME NEW i \in (D + 4)..(N - 1) PROVE Len(r[i]) = MaxSegment
  <2> DEFINE k == i - (D + 3)
  <2>1. N > D + 4 /\ k \in 1..(N - (D + 3)) /\ k # N - (D + 3) /\ D + 3 + k = i /\ N - (D + 3) # 1
    BY <1>1
  <2> HIDE DEF k
  <2>2. SegmentEncoding(e) = t
    BY <1>1, <2>1, Zenon
  <2>3. e # <<>>
    <3> SUFFICES ASSUME e = <<>> PROVE FALSE
      OBVIOUS
    <3>1. t = <<e>>
      BY <2>2, Zenon DEF SegmentEncoding
    <3>2. Len(t) = 1
      BY <3>1
    <3> QED BY <1>2, <2>1, <3>2, Zenon
  <2>4. \A j \in 1..Len(SegmentEncoding(e)) :
           j # Len(SegmentEncoding(e)) => Len(SegmentEncoding(e)[j]) = MaxSegment
    BY <1>2, <2>3, SegmentsOf
  <2>5. Len(t[k]) = MaxSegment
    BY <1>2, <2>1, <2>2, <2>4, Zenon
  <2>6. t[k] = r[i]
    BY <1>2, <2>1, Zenon
  <2> QED BY <2>5, <2>6, Zenon
<1> QED BY <1>1, <1>3, Zenon DEF Listable, Framed

-----------------------------------------------------------------------------
(* The keys that are written. *)

(* A key made of a deployment, a namespace, the digest of a name and the *)
(* rest has the frame, and that rest.                                    *)
LEMMA KeyFramed ==
  ASSUME NEW d \in Seq(Seq(Nat)), NEW s \in Namespaces, NEW n \in Names,
         NEW t \in Seq(Seq(Nat)), Len(t) # 0,
         \A i \in 1..Len(t) : i # Len(t) => Len(t[i]) = MaxSegment
  PROVE  /\ Key(d, s, Digest(n), t) \in Seq(Seq(Nat)) /\ Framed(d, s, Key(d, s, Digest(n), t))
         /\ Key(d, s, Digest(n), t)[Len(d) + 3] = Digest(n)
         /\ Len(Key(d, s, Digest(n), t)) = Len(d) + 3 + Len(t)
         /\ Rest(d, Key(d, s, Digest(n), t)) = t
<1> DEFINE D == Len(d)
           r == Key(d, s, Digest(n), t)
           N == Len(r)
           x == Digest(n)
<1>1. s \in Seq(Seq(Nat)) /\ Len(s) = 2 /\ x \in Seq(Nat) /\ IsHex(x)
  BY NamespaceFacts, DigestFacts DEF IsDigest
<1>2. D \in Nat /\ Len(t) \in Nat
  OBVIOUS
<1> HIDE DEF x, r
<1>3. /\ Key(d, s, x, t) \in Seq(Seq(Nat)) /\ Len(Key(d, s, x, t)) = D + 3 + Len(t)
      /\ \A i \in 1..D : Key(d, s, x, t)[i] = d[i]
      /\ Key(d, s, x, t)[D + 1] = s[1] /\ Key(d, s, x, t)[D + 2] = s[2] /\ Key(d, s, x, t)[D + 3] = x
      /\ \A i \in 1..Len(t) : Key(d, s, x, t)[D + 3 + i] = t[i]
  <2>1. x \in Seq(Nat)
    BY <1>1
  <2>2. Key(d, s, x, t)[Len(d) + 1] = s[1]
    BY <2>1, KeyShape
  <2>3. Key(d, s, x, t)[Len(d) + 2] = s[2]
    BY <2>1, KeyShape
  <2>4. Key(d, s, x, t) \in Seq(Seq(Nat)) /\ Len(Key(d, s, x, t)) = D + 3 + Len(t)
    BY <2>1, KeyShape
  <2>5. \A i \in 1..D : Key(d, s, x, t)[i] = d[i]
    BY <2>1, KeyShape
  <2>6. \A i \in 1..Len(t) : Key(d, s, x, t)[D + 3 + i] = t[i]
    BY <2>1, KeyShape
  <2>7. Key(d, s, x, t)[D + 3] = x
    BY <2>1, KeyShape
  <2> QED BY <2>2, <2>3, <2>4, <2>5, <2>6, <2>7, Zenon
<1>4. r = Key(d, s, x, t)
  BY DEF r, x
<1>5. /\ r \in Seq(Seq(Nat)) /\ N = D + 3 + Len(t) /\ (\A i \in 1..D : r[i] = d[i])
      /\ r[D + 1] = s[1] /\ r[D + 2] = s[2] /\ r[D + 3] = x
      /\ \A i \in 1..Len(t) : r[D + 3 + i] = t[i]
  BY <1>3, <1>4, Zenon
<1>6. N \in Nat /\ N >= D + 4 /\ N - (D + 3) = Len(t)
  <2>1. N = D + 3 + Len(t)
    BY <1>5
  <2> HIDE DEF N
  <2> QED BY <1>2, <2>1
<1>7. ASSUME NEW i \in (D + 4)..(N - 1) PROVE Len(r[i]) = MaxSegment
  <2> DEFINE k == i - (D + 3)
  <2>1. k \in 1..Len(t) /\ k # Len(t) /\ D + 3 + k = i
    <3> HIDE DEF N, D
    <3> QED BY <1>2, <1>6
  <2> HIDE DEF k
  <2>2. Len(t[k]) = MaxSegment /\ r[D + 3 + k] = t[k]
    BY <1>5, <2>1, Zenon
  <2> QED BY <2>1, <2>2, Zenon
<1>8. Framed(d, s, r)
  BY <1>1, <1>5, <1>6, <1>7, Zenon DEF Framed
<1>9. Rest(d, r) = t
  <2>1. /\ Rest(d, r) \in Seq(Seq(Nat)) /\ Len(Rest(d, r)) = N - (D + 3)
        /\ \A i \in 1..(N - (D + 3)) : Rest(d, r)[i] = r[D + 3 + i]
    BY <1>5, <1>6, RestFacts
  <2>2. Len(Rest(d, r)) = Len(t) /\ \A i \in 1..Len(Rest(d, r)) : Rest(d, r)[i] = t[i]
    BY <1>5, <1>6, <2>1
  <2> QED BY <2>1, <2>2, SeqEqual, Zenon
<1> QED BY <1>5, <1>8, <1>9, Zenon DEF x, r

(* The key of a manifest in the current form. *)
LEMMA CurrentKey ==
  ASSUME NEW d \in Seq(Seq(Nat)), NEW n \in Names
  PROVE  /\ ManifestObjectKey(d, n) \in Seq(Seq(Nat))
         /\ Framed(d, ManifestNamespace, ManifestObjectKey(d, n))
         /\ ManifestObjectKey(d, n)[Len(d) + 3] = Digest(n)
         /\ Rest(d, ManifestObjectKey(d, n)) = SegmentEncoding(EncodeToString(n))
         /\ Len(ManifestObjectKey(d, n)) = Len(d) + 3 + Len(SegmentEncoding(EncodeToString(n)))
<1> DEFINE t == SegmentEncoding(EncodeToString(n))
<1>1. EncodeToString(n) \in Seq(Nat) /\ EncodeToString(n) # <<>>
  BY NameFacts
<1>2. t \in Seq(Seq(Nat)) /\ Len(t) # 0 /\ \A i \in 1..Len(t) : i # Len(t) => Len(t[i]) = MaxSegment
  BY <1>1, SegmentsOf
<1> HIDE DEF t
<1>3. ManifestObjectKey(d, n) = Key(d, ManifestNamespace, Digest(n), t)
  BY DEF ManifestObjectKey, ManifestDigestRoot, NamespaceRoot, Key, t
<1>4. ManifestNamespace \in Namespaces
  BY DEF Namespaces
<1> DEFINE r == Key(d, ManifestNamespace, Digest(n), t)
<1>5. /\ r \in Seq(Seq(Nat)) /\ Framed(d, ManifestNamespace, r) /\ r[Len(d) + 3] = Digest(n)
      /\ Len(r) = Len(d) + 3 + Len(t) /\ Rest(d, r) = t
  BY <1>2, <1>4, KeyFramed
<1> HIDE DEF r
<1>6. ManifestObjectKey(d, n) = r
  BY <1>3 DEF r
<1> QED BY <1>5, <1>6, Zenon DEF t

(* A key whose rest is one segment. *)
LEMMA SingleKey ==
  ASSUME NEW d \in Seq(Seq(Nat)), NEW s \in Namespaces, NEW n \in Names, NEW e \in Seq(Nat)
  PROVE  /\ Key(d, s, Digest(n), <<e>>) \in Seq(Seq(Nat)) /\ Framed(d, s, Key(d, s, Digest(n), <<e>>))
         /\ Key(d, s, Digest(n), <<e>>)[Len(d) + 3] = Digest(n)
         /\ Rest(d, Key(d, s, Digest(n), <<e>>)) = <<e>>
         /\ Len(Key(d, s, Digest(n), <<e>>)) = Len(d) + 4
<1> DEFINE t == <<e>>
           r == Key(d, s, Digest(n), t)
<1>1. t \in Seq(Seq(Nat)) /\ Len(t) = 1
  OBVIOUS
<1>2. Len(t) # 0 /\ \A i \in 1..Len(t) : i # Len(t) => Len(t[i]) = MaxSegment
  BY <1>1
<1> HIDE DEF t
<1>3. /\ r \in Seq(Seq(Nat)) /\ Framed(d, s, r) /\ r[Len(d) + 3] = Digest(n)
      /\ Len(r) = Len(d) + 3 + Len(t) /\ Rest(d, r) = t
  BY <1>1, <1>2, KeyFramed
<1> HIDE DEF r
<1>4. Len(r) = Len(d) + 4
  <2>1. Len(d) \in Nat
    OBVIOUS
  <2> QED BY <1>1, <1>3, <2>1
<1> QED BY <1>3, <1>4, Zenon DEF t, r

(* The key of a manifest in v0.1.1's form. *)
LEMMA LegacyKey ==
  ASSUME NEW d \in Seq(Seq(Nat)), NEW n \in Names
  PROVE  /\ LegacyManifestObjectKey(d, n) \in Seq(Seq(Nat))
         /\ Framed(d, ManifestNamespace, LegacyManifestObjectKey(d, n))
         /\ LegacyManifestObjectKey(d, n)[Len(d) + 3] = Digest(n)
         /\ Rest(d, LegacyManifestObjectKey(d, n)) = <<EncodeToString(n)>>
         /\ Len(LegacyManifestObjectKey(d, n)) = Len(d) + 4
<1> DEFINE e == EncodeToString(n)
           r == Key(d, ManifestNamespace, Digest(n), <<e>>)
<1>1. LegacyManifestObjectKey(d, n) = r
  BY DEF LegacyManifestObjectKey, ManifestDigestRoot, NamespaceRoot, Key
<1>2. ManifestNamespace \in Namespaces /\ e \in Seq(Nat)
  BY NameFacts DEF Namespaces
<1> HIDE DEF e
<1>3. /\ r \in Seq(Seq(Nat)) /\ Framed(d, ManifestNamespace, r) /\ r[Len(d) + 3] = Digest(n)
      /\ Rest(d, r) = <<e>> /\ Len(r) = Len(d) + 4
  BY <1>2, SingleKey
<1> HIDE DEF r
<1> QED BY <1>1, <1>3, Zenon DEF e

(* The key of a staged payload. *)
LEMMA PayloadKey ==
  ASSUME NEW d \in Seq(Seq(Nat)), NEW n \in Names, NEW a \in Attempts
  PROVE  /\ PayloadObjectKey(d, n, a) \in Seq(Seq(Nat))
         /\ Framed(d, PayloadNamespace, PayloadObjectKey(d, n, a))
         /\ PayloadObjectKey(d, n, a)[Len(d) + 3] = Digest(n)
<1> DEFINE r == Key(d, PayloadNamespace, Digest(n), <<a>>)
<1>1. PayloadObjectKey(d, n, a) = r
  BY DEF PayloadObjectKey, PayloadRoot, NamespaceRoot, Key
<1>2. PayloadNamespace \in Namespaces
  BY DEF Namespaces
<1>3. a \in Seq(Nat)
  <2>1. <<52, 26>> \in Seq(Nat) /\ <<26, 53>> \in Seq(Nat)
    OBVIOUS
  <2> QED BY <2>1, Zenon DEF Attempts
<1>4. r \in Seq(Seq(Nat)) /\ Framed(d, PayloadNamespace, r) /\ r[Len(d) + 3] = Digest(n)
  BY <1>2, <1>3, SingleKey
<1> HIDE DEF r
<1> QED BY <1>1, <1>4, Zenon


(* A written manifest lists as its name: whatever the split of its *)
(* encoding, if it is one segment or the canonical one.            *)
LEMMA WrittenLists ==
  ASSUME NEW d \in Seq(Seq(Nat)), NEW n \in Names, NEW r \in Seq(Seq(Nat)),
         Framed(d, ManifestNamespace, r), r[Len(d) + 3] = Digest(n),
         Encoded(d, r) = EncodeToString(n),
         Len(r) > Len(d) + 4 => SegmentEncoding(EncodeToString(n)) = Rest(d, r)
  PROVE  LogicalKey(d, r) = n
<1>1. n \in Seq(0..255) /\ ValidName(n)
  BY NameFacts
<1>2. Decodes(EncodeToString(n)) /\ DecodeString(EncodeToString(n)) = n
  BY <1>1, DecodesEncoded
<1>3. IsDigest(Digest(n)) /\ HexDecoded(Digest(n)) = Digest(n)
  BY DigestFacts
<1>4. Listable(d, r)
  BY <1>1, <1>2, <1>3, Zenon DEF Framed, Listable
<1>5. LogicalKey(d, r) = DecodeString(Encoded(d, r))
  BY <1>4, LogicalKeyAnswers
<1> QED BY <1>2, <1>5, Zenon

(* Both forms of a manifest's key list as its name. *)
LEMMA BothFormsList ==
  ASSUME NEW d \in Seq(Seq(Nat)), NEW n \in Names
  PROVE  LogicalKey(d, ManifestObjectKey(d, n)) = n /\ LogicalKey(d, LegacyManifestObjectKey(d, n)) = n
<1> DEFINE e == EncodeToString(n)
<1>1. e \in Seq(Nat) /\ e # <<>>
  BY NameFacts
<1> HIDE DEF e
<1>2. LogicalKey(d, ManifestObjectKey(d, n)) = n
  <2> DEFINE r == ManifestObjectKey(d, n)
  <2>1. /\ r \in Seq(Seq(Nat)) /\ Framed(d, ManifestNamespace, r) /\ r[Len(d) + 3] = Digest(n)
        /\ Rest(d, r) = SegmentEncoding(e)
    BY CurrentKey DEF e
  <2> HIDE DEF r
  <2>2. FlattenSeq(SegmentEncoding(e)) = e
    BY <1>1, SegmentsOf
  <2>3. Encoded(d, r) = e
    BY <2>1, <2>2, Zenon DEF Encoded
  <2>4. LogicalKey(d, r) = n
    BY <2>1, <2>3, WrittenLists DEF e
  <2> QED BY <2>4 DEF r
<1>3. LogicalKey(d, LegacyManifestObjectKey(d, n)) = n
  <2> DEFINE r == LegacyManifestObjectKey(d, n)
  <2>1. /\ r \in Seq(Seq(Nat)) /\ Framed(d, ManifestNamespace, r) /\ r[Len(d) + 3] = Digest(n)
        /\ Rest(d, r) = <<e>> /\ Len(r) = Len(d) + 4
    BY LegacyKey DEF e
  <2> HIDE DEF r
  <2>2. <<e>> \in Seq(Seq(Nat)) /\ Len(<<e>>) = 1 /\ <<e>>[1] = e
    BY <1>1
  <2>3. FlattenSeq(<<e>>) = e
    BY <2>2, FlattenOne
  <2>4. Encoded(d, r) = e
    BY <2>1, <2>3, Zenon DEF Encoded
  <2>5. Len(d) \in Nat
    OBVIOUS
  <2>6. ~(Len(r) > Len(d) + 4)
    BY <2>1, <2>5
  <2>7. LogicalKey(d, r) = n
    BY <2>1, <2>4, <2>6, WrittenLists DEF e
  <2> QED BY <2>7 DEF r
<1> QED BY <1>2, <1>3

(* What lists, with its digest in lower case, is one of the two forms. *)
LEMMA ListedIsCanonical ==
  ASSUME NEW d \in Seq(Seq(Nat)), NEW r \in Seq(Seq(Nat)), LogicalKey(d, r) # NoName
  PROVE  [r EXCEPT ![Len(d) + 3] = HexDecoded(@)] \in RowShapes(d, LogicalKey(d, r))
<1> DEFINE D == Len(d)
           N == Len(r)
           n == LogicalKey(d, r)
           e == EncodeToString(n)
           t == Rest(d, r)
           x == HexDecoded(r[D + 3])
           q == [r EXCEPT ![D + 3] = x]
<1>1. Listable(d, r) /\ n = DecodeString(Encoded(d, r))
  BY LogicalKeyAnswers
<1> HIDE DEF n
<1>2. /\ N >= D + 4 /\ (\A i \in 1..D : r[i] = d[i])
      /\ r[D + 1] = ManifestNamespace[1] /\ r[D + 2] = ManifestNamespace[2]
      /\ Encoded(d, r) = e /\ (N > D + 4 => SegmentEncoding(e) = t) /\ Digest(n) = x
  BY <1>1, Zenon DEF Listable
<1>3. D \in Nat /\ N \in Nat
  OBVIOUS
<1>4. /\ t \in Seq(Seq(Nat)) /\ Len(t) = N - (D + 3) /\ e \in Seq(Nat)
      /\ \A i \in 1..(N - (D + 3)) : t[i] = r[D + 3 + i]
  BY <1>2, RestFacts
<1>5. x \in Seq(Nat)
  <2> DEFINE y == r[D + 3]
  <2>1. y \in Seq(Nat)
    BY <1>2, <1>3
  <2> HIDE DEF y
  <2>2. Len(y) \in Nat /\ DOMAIN y = 1..Len(y) /\ \A i \in 1..Len(y) : y[i] \in Nat
    BY <2>1
  <2>3. HexDecoded(y) = [i \in 1..Len(y) |-> IF y[i] \in UpperHex THEN y[i] + 26 ELSE y[i]]
    BY <2>2 DEF HexDecoded
  <2>4. \A i \in 1..Len(y) : (IF y[i] \in UpperHex THEN y[i] + 26 ELSE y[i]) \in Nat
    BY <2>2
  <2>5. HexDecoded(y) \in Seq(Nat)
    BY <2>2, <2>3, <2>4
  <2> QED BY <2>5 DEF y
<1> HIDE DEF t, e, x
<1>6. /\ q \in Seq(Seq(Nat)) /\ Len(q) = N
      /\ \A i \in 1..N : q[i] = IF i = D + 3 THEN x ELSE r[i]
  <2>1. D + 3 \in 1..Len(r)
    BY <1>2, <1>3
  <2> QED BY <1>5, <2>1, ExceptSeq
<1> DEFINE k == Key(d, ManifestNamespace, x, t)
<1>7. q = k
  <2>1. ManifestNamespace \in Namespaces /\ t \in Seq(Seq(Nat)) /\ x \in Seq(Nat)
    BY <1>4, <1>5 DEF Namespaces
  <2>2. k \in Seq(Seq(Nat)) /\ Len(k) = D + 3 + Len(t)
    BY <2>1, KeyShape
  <2>3. \A i \in 1..D : k[i] = d[i]
    BY <2>1, KeyShape
  <2>4. k[D + 1] = ManifestNamespace[1]
    BY <2>1, KeyShape
  <2>5. k[D + 2] = ManifestNamespace[2]
    BY <2>1, KeyShape
  <2>6. k[D + 3] = x
    BY <2>1, KeyShape
  <2>7. \A i \in 1..Len(t) : k[D + 3 + i] = t[i]
    BY <2>1, KeyShape
  <2> HIDE DEF k, q, D, N
  <2>8. Len(q) = Len(k)
    BY <1>3, <1>4, <1>6, <2>2
  <2>9. ASSUME NEW i \in 1..Len(q) PROVE q[i] = k[i]
    <3>1. i \in 1..N
      BY <1>6
    <3>2. CASE i \in 1..D
      <4>1. i # D + 3
        BY <1>3, <3>2
      <4> QED BY <1>2, <1>6, <2>3, <3>1, <3>2, <4>1, Zenon
    <3>3. CASE i = D + 1
      <4>1. i # D + 3
        BY <1>3, <3>3
      <4> QED BY <1>2, <1>6, <2>4, <3>1, <3>3, <4>1, Zenon
    <3>4. CASE i = D + 2
      <4>1. i # D + 3
        BY <1>3, <3>4
      <4> QED BY <1>2, <1>6, <2>5, <3>1, <3>4, <4>1, Zenon
    <3>5. CASE i = D + 3
      BY <1>6, <2>6, <3>1, <3>5, Zenon
    <3>6. CASE i >= D + 4
      <4> DEFINE j == i - (D + 3)
      <4>1. j \in 1..(N - (D + 3)) /\ D + 3 + j = i /\ i # D + 3
        BY <1>3, <3>1, <3>6
      <4> HIDE DEF j
      <4>2. t[j] = r[i] /\ k[i] = t[j]
        BY <1>4, <2>7, <4>1, Zenon
      <4> QED BY <1>6, <3>1, <4>1, <4>2, Zenon
    <3> QED BY <1>3, <3>1, <3>2, <3>3, <3>4, <3>5, <3>6
  <2> QED BY <1>6, <2>2, <2>8, <2>9, SeqEqual, Zenon
<1> HIDE DEF q, k
<1>8. CASE N > D + 4
  <2>1. t = SegmentEncoding(e)
    BY <1>2, <1>8, Zenon
  <2>2. q = ManifestObjectKey(d, n)
    BY <1>2, <1>7, <2>1, Zenon DEF k, Key, ManifestObjectKey, ManifestDigestRoot, NamespaceRoot, e
  <2> QED BY <2>2, Zenon DEF RowShapes, q, n, x
<1>9. CASE ~(N > D + 4)
  <2>1. Len(t) = 1
    BY <1>2, <1>3, <1>4, <1>9
  <2>2. FlattenSeq(t) = t[1]
    BY <1>4, <2>1, FlattenOne
  <2>3. t[1] = e
    BY <1>2, <2>2, Zenon DEF Encoded, t
  <2>4. t = <<e>>
    BY <1>4, <2>1, <2>3
  <2>5. q = LegacyManifestObjectKey(d, n)
    BY <1>2, <1>7, <2>4, Zenon DEF k, Key, LegacyManifestObjectKey, ManifestDigestRoot, NamespaceRoot, e
  <2> QED BY <2>5, Zenon DEF RowShapes, q, n, x
<1> QED BY <1>8, <1>9

(* A payload of a name has the frame of its deployment's payloads, and the *)
(* digest of the name.                                                     *)
LEMMA MatchesFramed ==
  ASSUME NEW d \in Seq(Seq(Nat)), NEW n \in Names, NEW r \in Seq(Seq(Nat)),
         PayloadObjectKeyMatches(d, n, r)
  PROVE  Framed(d, PayloadNamespace, r) /\ r[Len(d) + 3] = Digest(n)
<1> DEFINE D == Len(d)
           N == Len(r)
           root == PayloadRoot(d, n)
           k == Key(d, PayloadNamespace, Digest(n), <<>>)
<1>1. D \in Nat /\ N \in Nat
  OBVIOUS
<1>2. PayloadNamespace \in Namespaces /\ PayloadNamespace \in Seq(Seq(Nat))
  <2>1. PayloadNamespace \in Namespaces
    BY DEF Namespaces
  <2> QED BY <2>1, NamespaceFacts
<1>3. Digest(n) \in Seq(Nat) /\ IsHex(Digest(n)) /\ <<>> \in Seq(Seq(Nat)) /\ Len(<<>>) = 0
  BY DigestFacts DEF IsDigest
<1>4. root = k
  <2> DEFINE a == (d \o PayloadNamespace) \o <<Digest(n)>>
  <2>1. d \o PayloadNamespace \in Seq(Seq(Nat)) /\ <<Digest(n)>> \in Seq(Seq(Nat))
    BY <1>2, <1>3, ConcatElements
  <2>2. a \in Seq(Seq(Nat))
    BY <2>1, ConcatElements
  <2>3. root = a /\ k = a \o <<>>
    BY DEF PayloadRoot, NamespaceRoot, Key
  <2> HIDE DEF a
  <2>4. a \o <<>> = a
    BY <2>2, ConcatEmptySeq
  <2> QED BY <2>3, <2>4, Zenon
<1>5. k \in Seq(Seq(Nat)) /\ Len(k) = D + 3
  <2>1. k \in Seq(Seq(Nat)) /\ Len(k) = D + 3 + Len(<<>>)
    BY <1>2, <1>3, KeyShape
  <2> QED BY <1>1, <1>3, <2>1
<1> DEFINE s == PayloadNamespace
           x == Digest(n)
           t == <<>>
<1> HIDE DEF root, k, s, x, t
<1>6. s \in Namespaces /\ x \in Seq(Nat) /\ t \in Seq(Seq(Nat))
  BY <1>2, <1>3 DEF s, x, t
<1>7. (\A i \in 1..D : Key(d, s, x, t)[i] = d[i]) /\ Key(d, s, x, t)[D + 3] = x
  BY <1>6, KeyShape
<1>8. Key(d, s, x, t)[D + 1] = s[1]
  BY <1>6, KeyShape
<1>9. Key(d, s, x, t)[D + 2] = s[2]
  BY <1>6, KeyShape
<1>10. IsPrefix(k, r) /\ N = Len(k) + 1
  BY <1>4, Zenon DEF PayloadObjectKeyMatches, root
<1>11. N = D + 4
  BY <1>1, <1>5, <1>10
<1>12. ASSUME NEW i \in 1..(D + 3) PROVE r[i] = k[i]
  <2>1. SubSeq(k, 1, Len(k)) = k
    BY <1>5, SubSeqFull
  <2>2. SubSeq(k, 1, Len(k)) = SubSeq(r, 1, Len(k))
    BY <1>10 DEF IsPrefix
  <2>3. k = SubSeq(r, 1, D + 3)
    BY <1>5, <2>1, <2>2, Zenon
  <2> DEFINE S == Seq(Nat)
             m == D + 3
  <2>4. m \in Int /\ \A j \in 1..m : r[j] \in S
    BY <1>1, <1>11
  <2>5. i \in 1..(m - 1 + 1) /\ 1 + i - 1 = i
    BY <1>1
  <2> HIDE DEF S, m
  <2>6. SubSeq(r, 1, m)[i] = r[1 + i - 1]
    BY <2>4, <2>5, SubSeqProperties
  <2>7. SubSeq(r, 1, m)[i] = r[i]
    BY <2>5, <2>6, Zenon
  <2> QED BY <2>3, <2>7, Zenon DEF m
<1>13. D + 1 \in 1..(D + 3) /\ D + 2 \in 1..(D + 3) /\ D + 3 \in 1..(D + 3) /\ \A i \in 1..D : i \in 1..(D + 3)
  BY <1>1
<1>14. /\ (\A i \in 1..D : r[i] = d[i]) /\ r[D + 1] = PayloadNamespace[1] /\ r[D + 2] = PayloadNamespace[2]
       /\ r[D + 3] = Digest(n)
  <2>1. k = Key(d, s, x, t)
    BY DEF k, s, x, t
  <2> QED BY <1>7, <1>8, <1>9, <1>12, <1>13, <2>1, Zenon DEF s, x
<1>15. N >= D + 4 /\ \A i \in (D + 4)..(N - 1) : FALSE
  BY <1>1, <1>11
<1> QED BY <1>3, <1>14, <1>15, Zenon DEF Framed

-----------------------------------------------------------------------------
(* The row in the bucket is a key, and an owned one the key of its owner. *)

Wrote(d, n) ==
  \/ owner = [kind |-> "current", dep |-> d, name |-> n] /\ row = ManifestObjectKey(d, n)
  \/ owner = [kind |-> "legacy", dep |-> d, name |-> n] /\ row = LegacyManifestObjectKey(d, n)
  \/ /\ owner = [kind |-> "payload", dep |-> d, name |-> n]
     /\ \E a \in Attempts : row = PayloadObjectKey(d, n, a)

RowsInv ==
  /\ row \in Seq(Seq(Nat))
  /\ owner = Nobody \/ \E d \in Deployments, n \in Names : Wrote(d, n)

(* A piece of a sequence is one. *)
LEMMA PieceType ==
  ASSUME NEW S, NEW s \in Seq(S), NEW a \in Nat \ {0}, NEW b \in Int, b <= Len(s)
  PROVE  SubSeq(s, a, b) \in Seq(S)
<1>1. Len(s) \in Nat /\ \A i \in 1..Len(s) : s[i] \in S
  OBVIOUS
<1>2. \A i \in a..b : i \in 1..Len(s)
  BY <1>1
<1>3. a \in Int /\ b \in Int /\ \A i \in a..b : s[i] \in S
  BY <1>1, <1>2
<1> QED BY <1>3, SubSeqProperties

(* The prefixes of deployments are sequences of segments. *)
LEMMA DeploymentType == Deployments \subseteq Seq(Seq(Nat))
BY KeysAssumption

(* What an edit makes of a row is a key again. *)
LEMMA EditsType ==
  ASSUME row \in Seq(Seq(Nat)),
         SplitSegment \/ JoinSegments \/ ChangeSymbol \/ DropSymbol
  PROVE  row' \in Seq(Seq(Nat)) /\ owner' = Nobody
<1> DEFINE S == Seq(Nat)
           N == Len(row)
<1>1. row \in Seq(S) /\ N \in Nat /\ DOMAIN row = 1..N /\ \A i \in 1..N : row[i] \in S
  OBVIOUS
<1>2. CASE SplitSegment
  <2>1. PICK i \in DOMAIN row : \E j \in 0..Len(row[i]) :
          Edited(SubSeq(row, 1, i - 1)
                   \o <<SubSeq(row[i], 1, j), SubSeq(row[i], j + 1, Len(row[i]))>>
                   \o SubSeq(row, i + 1, Len(row)))
    BY <1>2 DEF SplitSegment
  <2>2. PICK j \in 0..Len(row[i]) :
          Edited(SubSeq(row, 1, i - 1)
                   \o <<SubSeq(row[i], 1, j), SubSeq(row[i], j + 1, Len(row[i]))>>
                   \o SubSeq(row, i + 1, Len(row)))
    BY <2>1
  <2> DEFINE u == SubSeq(row, 1, i - 1)
             v == SubSeq(row, i + 1, Len(row))
             x == SubSeq(row[i], 1, j)
             y == SubSeq(row[i], j + 1, Len(row[i]))
  <2>3. i \in 1..N /\ row[i] \in Seq(Nat) /\ Len(row[i]) \in Nat
    BY <1>1, <2>1
  <2>4. u \in Seq(S) /\ v \in Seq(S)
    <3>1. i - 1 \in Int /\ i - 1 <= N /\ i + 1 \in Nat \ {0} /\ 1 \in Nat \ {0} /\ N \in Int /\ N <= N
      BY <1>1, <2>3
    <3> HIDE DEF S
    <3> QED BY <1>1, <3>1, PieceType
  <2>5. x \in S /\ y \in S
    <3>1. j \in Int /\ j <= Len(row[i]) /\ j + 1 \in Nat \ {0} /\ Len(row[i]) \in Int /\ Len(row[i]) <= Len(row[i])
      BY <2>2, <2>3
    <3> QED BY <2>3, <3>1, PieceType
  <2>6. <<x, y>> \in Seq(S)
    <3> HIDE DEF x, y, S
    <3> QED BY <2>5
  <2>7. row' = u \o <<x, y>> \o v /\ owner' = Nobody
    BY <2>2 DEF Edited
  <2> HIDE DEF u, v, x, y, S
  <2>8. u \o <<x, y>> \in Seq(S)
    BY <2>4, <2>6, ConcatProperties
  <2>9. (u \o <<x, y>>) \o v \in Seq(S)
    BY <2>4, <2>8, ConcatProperties
  <2> QED BY <2>7, <2>9 DEF S
<1>3. CASE JoinSegments
  <2>1. PICK i \in 1..(Len(row) - 1) :
          Edited(SubSeq(row, 1, i - 1) \o <<row[i] \o row[i + 1]>> \o SubSeq(row, i + 2, Len(row)))
    BY <1>3 DEF JoinSegments
  <2> DEFINE u == SubSeq(row, 1, i - 1)
             v == SubSeq(row, i + 2, Len(row))
             x == row[i] \o row[i + 1]
  <2>2. row[i] \in Seq(Nat) /\ row[i + 1] \in Seq(Nat)
    BY <1>1, <2>1
  <2>3. u \in Seq(S) /\ v \in Seq(S)
    <3>1. i - 1 \in Int /\ i - 1 <= N /\ i + 2 \in Nat \ {0} /\ 1 \in Nat \ {0} /\ N \in Int /\ N <= N
      BY <1>1, <2>1
    <3> HIDE DEF S
    <3> QED BY <1>1, <3>1, PieceType
  <2>4. x \in S
    BY <2>2, ConcatProperties
  <2>5. <<x>> \in Seq(S)
    <3> HIDE DEF x, S
    <3> QED BY <2>4
  <2>6. row' = u \o <<x>> \o v /\ owner' = Nobody
    BY <2>1 DEF Edited
  <2> HIDE DEF u, v, x, S
  <2>7. u \o <<x>> \in Seq(S)
    BY <2>3, <2>5, ConcatProperties
  <2>8. (u \o <<x>>) \o v \in Seq(S)
    BY <2>3, <2>7, ConcatProperties
  <2> QED BY <2>6, <2>8 DEF S
<1>4. CASE ChangeSymbol
  <2>1. PICK i \in DOMAIN row : \E j \in DOMAIN row[i], s \in Symbols : Edited([row EXCEPT ![i][j] = s])
    BY <1>4 DEF ChangeSymbol
  <2>2. PICK j \in DOMAIN row[i], s \in Symbols : Edited([row EXCEPT ![i][j] = s])
    BY <2>1
  <2>3. s \in Nat
    BY KeysAssumption
  <2>4. i \in 1..Len(row) /\ row[i] \in Seq(Nat)
    BY <1>1, <2>1
  <2>5. j \in 1..Len(row[i])
    BY <2>2, <2>4
  <2>6. [row[i] EXCEPT ![j] = s] \in Seq(Nat)
    BY <2>3, <2>4, <2>5, ExceptSeq
  <2> DEFINE x == [row[i] EXCEPT ![j] = s]
  <2>7. [row EXCEPT ![i][j] = s] = [row EXCEPT ![i] = x]
    OBVIOUS
  <2>8. [row EXCEPT ![i] = x] \in Seq(S)
    <3> HIDE DEF x, S
    <3> QED BY <1>1, <2>4, <2>6, ExceptSeq DEF x, S
  <2> QED BY <2>2, <2>7, <2>8 DEF Edited
<1>5. CASE DropSymbol
  <2>1. PICK i \in DOMAIN row : \E j \in DOMAIN row[i] : Edited([row EXCEPT ![i] = RemoveAt(@, j)])
    BY <1>5 DEF DropSymbol
  <2>2. PICK j \in DOMAIN row[i] : Edited([row EXCEPT ![i] = RemoveAt(@, j)])
    BY <2>1
  <2>3. i \in 1..Len(row) /\ row[i] \in Seq(Nat) /\ Len(row[i]) \in Nat
    BY <1>1, <2>1
  <2>4. j \in 1..Len(row[i])
    BY <2>2, <2>3
  <2> DEFINE x == RemoveAt(row[i], j)
             u == SubSeq(row[i], 1, j - 1)
             v == SubSeq(row[i], j + 1, Len(row[i]))
  <2>5. u \in Seq(Nat) /\ v \in Seq(Nat)
    <3>1. /\ j - 1 \in Int /\ j - 1 <= Len(row[i]) /\ 1 \in Nat \ {0} /\ j + 1 \in Nat \ {0}
          /\ Len(row[i]) \in Int /\ Len(row[i]) <= Len(row[i])
      BY <2>3, <2>4
    <3> QED BY <2>3, <3>1, PieceType
  <2>6. x \in Seq(Nat)
    <3>1. x = u \o v
      BY DEF RemoveAt
    <3> HIDE DEF x, u, v
    <3> QED BY <2>5, <3>1, ConcatProperties
  <2>7. row' = [row EXCEPT ![i] = x] /\ owner' = Nobody
    BY <2>2 DEF Edited
  <2> HIDE DEF x
  <2>8. [row EXCEPT ![i] = x] \in Seq(S)
    BY <1>1, <2>3, <2>6, ExceptSeq
  <2> QED BY <2>7, <2>8
<1> QED BY <1>2, <1>3, <1>4, <1>5

LEMMA RowsInit == CodecsInit => RowsInv
<1>1. <<>> \in Seq(Seq(Nat))
  OBVIOUS
<1> QED BY <1>1 DEF CodecsInit, Init, NoRow, RowsInv

LEMMA RowsNext == RowsInv /\ [CodecsNext]_<<vars, bodyVars>> => RowsInv'
<1> SUFFICES ASSUME RowsInv, [CodecsNext]_<<vars, bodyVars>> PROVE RowsInv'
  OBVIOUS
<1>1. row \in Seq(Seq(Nat))
  BY DEF RowsInv
<1>2. CASE UNCHANGED vars
  BY <1>2 DEF vars, RowsInv, Wrote
<1>3. CASE WriteManifest
  <2>1. PICK d \in Deployments, n \in Names : Writes("current", d, n, ManifestObjectKey(d, n))
    BY <1>3 DEF WriteManifest
  <2>2. row' = ManifestObjectKey(d, n) /\ owner' = [kind |-> "current", dep |-> d, name |-> n]
    BY <2>1 DEF Writes
  <2>3. row' \in Seq(Seq(Nat))
    BY <2>2, CurrentKey, DeploymentType
  <2>4. Wrote(d, n)'
    BY <2>2, Zenon DEF Wrote
  <2> QED BY <2>3, <2>4, Zenon DEF RowsInv
<1>4. CASE WriteLegacy
  <2>1. PICK d \in Deployments, n \in Names : Writes("legacy", d, n, LegacyManifestObjectKey(d, n))
    BY <1>4 DEF WriteLegacy
  <2>2. row' = LegacyManifestObjectKey(d, n) /\ owner' = [kind |-> "legacy", dep |-> d, name |-> n]
    BY <2>1 DEF Writes
  <2>3. row' \in Seq(Seq(Nat))
    BY <2>2, LegacyKey, DeploymentType
  <2>4. Wrote(d, n)'
    BY <2>2, Zenon DEF Wrote
  <2> QED BY <2>3, <2>4, Zenon DEF RowsInv
<1>5. CASE WritePayload
  <2>1. PICK d \in Deployments, n \in Names, a \in Attempts : Writes("payload", d, n, PayloadObjectKey(d, n, a))
    BY <1>5 DEF WritePayload
  <2>2. row' = PayloadObjectKey(d, n, a) /\ owner' = [kind |-> "payload", dep |-> d, name |-> n]
    BY <2>1 DEF Writes
  <2>3. row' \in Seq(Seq(Nat))
    BY <2>2, PayloadKey, DeploymentType
  <2>4. Wrote(d, n)'
    BY <2>2, Zenon DEF Wrote
  <2> QED BY <2>3, <2>4, Zenon DEF RowsInv
<1>6. CASE DeleteObject
  <2>1. row' = <<>> /\ owner' = Nobody /\ <<>> \in Seq(Seq(Nat))
    BY <1>6 DEF DeleteObject, NoRow
  <2> QED BY <2>1 DEF RowsInv
<1>7. CASE SplitSegment \/ JoinSegments \/ ChangeSymbol \/ DropSymbol
  <2>1. row' \in Seq(Seq(Nat)) /\ owner' = Nobody
    BY <1>1, <1>7, EditsType
  <2>2. Nobody' = Nobody
    BY DEF Nobody, NoName
  <2> QED BY <2>1, <2>2, Zenon DEF RowsInv
<1> QED BY <1>2, <1>3, <1>4, <1>5, <1>6, <1>7, Zenon DEF CodecsNext, Next, vars, bodyVars

LEMMA RowsAlways == CodecsSpec => []RowsInv
BY RowsInit, RowsNext, PTL DEF CodecsSpec

(* The owner of a row, and the frame of the row. *)
LEMMA OwnedRow ==
  ASSUME RowsInv, owner # Nobody
  PROVE  \E p \in Deployments, m \in Names, s \in Namespaces :
           /\ Framed(p, s, row) /\ row[Len(p) + 3] = Digest(m)
           /\ owner.dep = p /\ owner.name = m
           /\ s = PayloadNamespace => owner = [kind |-> "payload", dep |-> p, name |-> m]
<1>1. PICK p \in Deployments, m \in Names : Wrote(p, m)
  BY Zenon DEF RowsInv
<1>2. p \in Seq(Seq(Nat))
  BY DeploymentType
<1>3. ManifestNamespace \in Namespaces /\ PayloadNamespace \in Namespaces /\ ManifestNamespace # PayloadNamespace
  BY NamespacesDiffer DEF Namespaces
<1>4. CASE owner = [kind |-> "current", dep |-> p, name |-> m] /\ row = ManifestObjectKey(p, m)
  <2>1. owner.dep = p /\ owner.name = m
    BY <1>4
  <2>2. Framed(p, ManifestNamespace, row) /\ row[Len(p) + 3] = Digest(m)
    BY <1>2, <1>4, CurrentKey
  <2> QED BY <1>3, <2>1, <2>2, Zenon
<1>5. CASE owner = [kind |-> "legacy", dep |-> p, name |-> m] /\ row = LegacyManifestObjectKey(p, m)
  <2>1. owner.dep = p /\ owner.name = m
    BY <1>5
  <2>2. Framed(p, ManifestNamespace, row) /\ row[Len(p) + 3] = Digest(m)
    BY <1>2, <1>5, LegacyKey
  <2> QED BY <1>3, <2>1, <2>2, Zenon
<1>6. CASE /\ owner = [kind |-> "payload", dep |-> p, name |-> m]
           /\ \E a \in Attempts : row = PayloadObjectKey(p, m, a)
  <2>1. owner.dep = p /\ owner.name = m
    BY <1>6
  <2>2. PICK a \in Attempts : row = PayloadObjectKey(p, m, a)
    BY <1>6
  <2>3. Framed(p, PayloadNamespace, row) /\ row[Len(p) + 3] = Digest(m)
    BY <1>2, <2>2, PayloadKey
  <2> QED BY <1>3, <1>6, <2>1, <2>3, Zenon
<1> QED BY <1>1, <1>4, <1>5, <1>6, Zenon DEF Wrote

(* What lists has the frame of a manifest of the deployment. *)
LEMMA NamedFramed ==
  ASSUME NEW d \in Seq(Seq(Nat)), NEW r \in Seq(Seq(Nat)), LogicalKey(d, r) # NoName
  PROVE  Framed(d, ManifestNamespace, r)
<1>1. Listable(d, r)
  BY LogicalKeyAnswers
<1> QED BY <1>1, ListableFramed

(***************************************************************************)
(* Every row that a Store writes, in the current form (key.go,             *)
(* manifestObjectKey) or in v0.1.1's, is listed under its own logical key, *)
(* in segments no longer than the limit, and a name whose encoding fits    *)
(* one segment has the same row in both forms.                             *)
(***************************************************************************)
THEOREM RowsAlwaysReadBack == CodecsSpec => []RowsReadBack
<1>1. RowsInv => RowsReadBack
  <2> SUFFICES ASSUME RowsInv PROVE RowsReadBack
    OBVIOUS
  <2>1. CASE owner = Nobody
    <3>1. owner.kind = "none"
      BY <2>1 DEF Nobody
    <3> QED BY <3>1 DEF RowsReadBack
  <2>2. CASE owner # Nobody
    <3>1. PICK d \in Deployments, n \in Names : Wrote(d, n)
      BY <2>2, Zenon DEF RowsInv
    <3>2. d \in Seq(Seq(Nat))
      BY DeploymentType
    <3>3. CASE owner = [kind |-> "current", dep |-> d, name |-> n] /\ row = ManifestObjectKey(d, n)
      <4> DEFINE e == EncodeToString(n)
                 t == SegmentEncoding(e)
      <4>1. owner.kind = "current" /\ owner.dep = d /\ owner.name = n
        BY <3>3
      <4>2. LogicalKey(d, row) = n
        BY <3>2, <3>3, BothFormsList
      <4>3. e \in Seq(Nat) /\ e # <<>>
        BY NameFacts
      <4>4. /\ row \in Seq(Seq(Nat)) /\ Framed(d, ManifestNamespace, row)
            /\ Rest(d, row) = t /\ Len(row) = Len(d) + 3 + Len(t)
        BY <3>2, <3>3, CurrentKey
      <4> HIDE DEF e
      <4>5. Len(t) \in Nat /\ \A i \in 1..Len(t) : Len(t[i]) \in 1..MaxSegment
        BY <4>3, SegmentsOf
      <4>6. Len(e) <= MaxSegment => t = <<e>>
        BY <4>3, SegmentsOf
      <4> HIDE DEF t
      <4>7. ASSUME NEW i \in (Len(d) + 4)..Len(row) PROVE Len(row[i]) \in 1..MaxSegment
        <5> DEFINE k == i - (Len(d) + 3)
        <5>1. Len(d) \in Nat /\ Len(row) >= Len(d) + 4
          BY <3>2, <4>4 DEF Framed
        <5>2. k \in 1..Len(t) /\ k \in 1..(Len(row) - (Len(d) + 3)) /\ Len(d) + 3 + k = i
          BY <4>4, <4>5, <5>1
        <5> HIDE DEF k
        <5>3. \A j \in 1..(Len(row) - (Len(d) + 3)) : Rest(d, row)[j] = row[Len(d) + 3 + j]
          BY <3>2, <4>4, <5>1, RestFacts
        <5>4. row[i] = t[k]
          BY <4>4, <5>2, <5>3, Zenon
        <5> QED BY <4>5, <5>2, <5>4, Zenon
      <4>8. ~LegacyDiffers(n) => row = LegacyManifestObjectKey(d, n)
        <5> SUFFICES ASSUME ~LegacyDiffers(n) PROVE row = LegacyManifestObjectKey(d, n)
          OBVIOUS
        <5>1. ~(Len(e) > MaxSegment)
          BY DEF LegacyDiffers, e
        <5>2. Len(e) \in Nat /\ MaxSegment \in Nat
          BY <4>3, KeysAssumption
        <5>3. t = <<e>>
          BY <4>6, <5>1, <5>2
        <5> QED BY <3>3, <5>3, Zenon DEF ManifestObjectKey, LegacyManifestObjectKey, t, e
      <4> QED BY <4>1, <4>2, <4>7, <4>8, Zenon DEF RowsReadBack
    <3>4. CASE owner = [kind |-> "legacy", dep |-> d, name |-> n] /\ row = LegacyManifestObjectKey(d, n)
      <4>1. owner.kind = "legacy" /\ owner.kind # "current" /\ owner.dep = d /\ owner.name = n
        BY <3>4
      <4>2. LogicalKey(d, row) = n
        BY <3>2, <3>4, BothFormsList
      <4> QED BY <4>1, <4>2, Zenon DEF RowsReadBack
    <3>5. CASE owner = [kind |-> "payload", dep |-> d, name |-> n]
      <4>1. owner.kind \notin {"current", "legacy"} /\ owner.kind # "current"
        BY <3>5
      <4> QED BY <4>1, Zenon DEF RowsReadBack
    <3> QED BY <3>1, <3>3, <3>4, <3>5, Zenon DEF Wrote
  <2> QED BY <2>1, <2>2
<1> QED BY <1>1, RowsAlways, PTL

(***************************************************************************)
(* Whatever is in the bucket, logicalKeyFromManifestObject accepts the two *)
(* forms of a name's key and nothing else, up to the case of the digest.   *)
(***************************************************************************)
THEOREM DecodingAlwaysCanonical == CodecsSpec => []DecodingCanonical
<1>1. RowsInv => DecodingCanonical
  <2> SUFFICES ASSUME RowsInv, NEW d \in Deployments, LogicalKey(d, row) # NoName
               PROVE  [row EXCEPT ![Len(NamespaceRoot(d, ManifestNamespace)) + 1] = HexDecoded(@)]
                        \in RowShapes(d, LogicalKey(d, row))
    BY Zenon DEF DecodingCanonical
  <2>1. d \in Seq(Seq(Nat)) /\ row \in Seq(Seq(Nat))
    BY DeploymentType DEF RowsInv
  <2>2. ManifestNamespace \in Seq(Seq(Nat)) /\ Len(ManifestNamespace) = 2
    BY NamespaceFacts DEF Namespaces
  <2>3. Len(NamespaceRoot(d, ManifestNamespace)) = Len(d) + 2 /\ Len(d) \in Nat
    BY <2>1, <2>2, UnderRoot
  <2>4. Len(NamespaceRoot(d, ManifestNamespace)) + 1 = Len(d) + 3
    BY <2>3
  <2>5. [row EXCEPT ![Len(d) + 3] = HexDecoded(@)] \in RowShapes(d, LogicalKey(d, row))
    BY <2>1, ListedIsCanonical
  <2> QED BY <2>4, <2>5, Zenon
<1> QED BY <1>1, RowsAlways, PTL

(***************************************************************************)
(* Deployments that share a bucket never see each other's rows or payloads *)
(* (options.go accepts any prefix, nested ones too).                       *)
(***************************************************************************)
THEOREM DeploymentsAlwaysIsolated == CodecsSpec => []DeploymentsIsolated
<1>1. RowsInv => DeploymentsIsolated
  <2> SUFFICES ASSUME RowsInv, owner # Nobody, NEW d \in Deployments, d # owner.dep
               PROVE  LogicalKey(d, row) = NoName /\ \A n \in Names : ~PayloadObjectKeyMatches(d, n, row)
    BY Zenon DEF DeploymentsIsolated
  <2>1. PICK p \in Deployments, m \in Names, s \in Namespaces : Framed(p, s, row) /\ owner.dep = p
    BY OwnedRow, Zenon
  <2>2. d \in Seq(Seq(Nat)) /\ p \in Seq(Seq(Nat)) /\ row \in Seq(Seq(Nat)) /\ d # p
    BY <2>1, DeploymentType DEF RowsInv
  <2>3. ManifestNamespace \in Namespaces /\ PayloadNamespace \in Namespaces
    BY DEF Namespaces
  <2>4. LogicalKey(d, row) = NoName
    <3> SUFFICES ASSUME LogicalKey(d, row) # NoName PROVE FALSE
      OBVIOUS
    <3>1. Framed(d, ManifestNamespace, row)
      BY <2>2, NamedFramed
    <3> QED BY <2>1, <2>2, <2>3, <3>1, OneFrame
  <2>5. ASSUME NEW n \in Names, PayloadObjectKeyMatches(d, n, row) PROVE FALSE
    <3>1. Framed(d, PayloadNamespace, row)
      BY <2>2, <2>5, MatchesFramed
    <3> QED BY <2>1, <2>2, <2>3, <3>1, OneFrame
  <2> QED BY <2>4, <2>5
<1> QED BY <1>1, RowsAlways, PTL

(***************************************************************************)
(* An object key that blob.go takes for a payload of a logical key is one  *)
(* of no other key and no other deployment, is nobody's manifest row, and  *)
(* was written by no one else.                                             *)
(***************************************************************************)
THEOREM PayloadAlwaysBound == CodecsSpec => []PayloadBound
<1>1. RowsInv => PayloadBound
  <2> SUFFICES ASSUME RowsInv, NEW d \in Deployments, NEW m \in Names,
                      PayloadObjectKeyMatches(d, m, row)
               PROVE  /\ \A e \in Deployments, n \in Names :
                           PayloadObjectKeyMatches(e, n, row) => d = e /\ m = n
                      /\ \A e \in Deployments : LogicalKey(e, row) = NoName
                      /\ owner # Nobody => owner = [kind |-> "payload", dep |-> d, name |-> m]
    BY Zenon DEF PayloadBound
  <2>1. /\ d \in Seq(Seq(Nat)) /\ row \in Seq(Seq(Nat))
        /\ \A e \in Deployments : e \in Seq(Seq(Nat))
    BY DeploymentType DEF RowsInv
  <2>2. Framed(d, PayloadNamespace, row) /\ row[Len(d) + 3] = Digest(m)
    BY <2>1, MatchesFramed
  <2>3. ManifestNamespace \in Namespaces /\ PayloadNamespace \in Namespaces /\ ManifestNamespace # PayloadNamespace
    BY NamespacesDiffer DEF Namespaces
  <2>4. \A a, b \in Names : Digest(a) = Digest(b) => a = b
    BY KeysAssumption
  <2>5. ASSUME NEW e \in Deployments, NEW n \in Names, PayloadObjectKeyMatches(e, n, row)
        PROVE  d = e /\ m = n
    <3>1. Framed(e, PayloadNamespace, row) /\ row[Len(e) + 3] = Digest(n)
      BY <2>1, <2>5, MatchesFramed
    <3>2. d = e
      BY <2>1, <2>2, <2>3, <3>1, OneFrame
    <3> QED BY <2>2, <2>4, <3>1, <3>2, Zenon
  <2>6. ASSUME NEW e \in Deployments PROVE LogicalKey(e, row) = NoName
    <3> SUFFICES ASSUME LogicalKey(e, row) # NoName PROVE FALSE
      OBVIOUS
    <3>1. Framed(e, ManifestNamespace, row)
      BY <2>1, NamedFramed
    <3> QED BY <2>1, <2>2, <2>3, <3>1, OneFrame
  <2>7. ASSUME owner # Nobody PROVE owner = [kind |-> "payload", dep |-> d, name |-> m]
    <3>1. PICK p \in Deployments, k \in Names, s \in Namespaces :
             /\ Framed(p, s, row) /\ row[Len(p) + 3] = Digest(k)
             /\ s = PayloadNamespace => owner = [kind |-> "payload", dep |-> p, name |-> k]
      BY <2>7, OwnedRow, Zenon
    <3>2. p \in Seq(Seq(Nat))
      BY DeploymentType
    <3>3. p = d /\ s = PayloadNamespace
      BY <2>1, <2>2, <2>3, <3>1, <3>2, OneFrame
    <3>4. k = m
      BY <2>2, <2>4, <3>1, <3>3, Zenon
    <3> QED BY <3>1, <3>3, <3>4, Zenon
  <2> QED BY <2>5, <2>6, <2>7
<1> QED BY <1>1, RowsAlways, PTL
=============================================================================
