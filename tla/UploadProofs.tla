---------------------------- MODULE UploadProofs ----------------------------
(***************************************************************************)
(* What one upload leaves at the service and what its reader accounts for, *)
(* proved for every size and every number of attempts.                     *)
(***************************************************************************)
EXTENDS Upload, SequenceTheorems, WellFoundedInduction, TLAPS

(***************************************************************************)
(* The uploads of the service.  Ids are drawn in order, one per attempt at *)
(* a creation that took effect, so they stay below the one that another    *)
(* process uses; and the manager is done only when the upload it knows of  *)
(* was completed or aborted, or the abort was given up.                    *)
(***************************************************************************)
IdsInv ==
  /\ DOMAIN uploads = Ids
  /\ pc \in {"read", "put", "create", "complete", "abort", "done"}
  /\ tries \in 0..(MaxAttempts - 1)
  /\ nextID \in 1..(MaxAttempts + 1)
  /\ id \in 0..MaxAttempts
  /\ pc = "read" /\ id = NoId => tries = 0 /\ nextID = 1
  /\ pc = "create" => nextID <= tries + 1
  /\ pc \in {"put", "create"} => id = NoId
  /\ pc \in {"complete", "abort"} => id # NoId

LeftInv ==
  /\ uploads[Foreign] # NoUpload
  /\ pc = "done" => id = NoId \/ uploads[id] = NoUpload \/ unheard

(***************************************************************************)
(* The reader: what it has handed out are the first bytes of the source,   *)
(* in order; it has seen the end only of a source within the maximum, and  *)
(* one byte past it only of a larger one.                                  *)
(***************************************************************************)
ReaderInv ==
  /\ source \in 0..MaxSource /\ size \in 0..Maximum /\ size <= source
  /\ got = [i \in 1..size |-> i]
  /\ eof => size = source
  /\ fault # "toolarge" => taken = size
  /\ fault = "toolarge" => source > Maximum /\ pc \in {"abort", "done"} /\ object = NoObject
  /\ res = "toolarge" => fault = "toolarge"

(***************************************************************************)
(* A source of n bytes, cut into parts of PartSize and put together again, *)
(* is what it was: the fact about data that the completion of a multipart  *)
(* upload rests on.                                                        *)
(***************************************************************************)
SourcePart(n, p) ==
  [i \in 1..(Least(p * PartSize, n) - (p - 1) * PartSize) |-> (p - 1) * PartSize + i]

PartsMakeWhole ==
  \A n \in 0..MaxSource :
    FlattenSeq([p \in Parts |-> SourcePart(n, p)]) = [i \in 1..n |-> i]

(***************************************************************************)
(* The parts: an upload in progress holds, under each number, nothing or   *)
(* that part of the source; what was acknowledged is there, and when it is *)
(* completed every part was acknowledged.                                  *)
(***************************************************************************)
InProgress == id # NoId /\ uploads[id] # NoUpload

PartsInv ==
  /\ acked \subseteq Parts
  /\ id = NoId => acked = {}
  /\ pc = "read" /\ id # NoId => uploads[id] # NoUpload
  /\ pc \in {"put", "complete"} => eof
  /\ pc = "complete" => \A p \in Parts : Queued(p) => p \in acked
  /\ InProgress =>
       /\ uploads[id] = [p \in Parts |-> uploads[id][p]]
       /\ \A p \in Parts : /\ uploads[id][p] \in {<<>>, SourcePart(source, p)}
                           /\ ~Queued(p) => uploads[id][p] = <<>>
                           /\ p \in acked => uploads[id][p] = SourcePart(source, p)

(* The object: whole, and there when success is reported. *)
ObjectInv ==
  /\ object # NoObject => object = Whole /\ source <= Maximum
  /\ pc \in {"read", "create"} => object = NoObject
  /\ res = "ok" => object = Whole /\ size = source

-----------------------------------------------------------------------------
(* An upload with its first part missing differs from no upload. *)
LEMMA UploadsDiffer ==
  /\ MaxParts \in Nat /\ 1 \in Parts
  /\ NoParts # NoUpload
<1>1. PartSize \in Nat \ {0} /\ MaxSource \in Nat \ {0}
  BY UploadAssumption
<1>2. ASSUME NEW a \in Nat, NEW b \in Nat \ {0}, a >= b
      PROVE  a \div b \in Nat /\ a \div b >= 1
  BY <1>2
<1>3. MaxParts \in Nat /\ MaxParts >= 1
  <2>1. /\ MaxSource + PartSize - 1 \in Nat /\ MaxSource + PartSize - 1 >= PartSize
    BY <1>1
  <2> QED BY <1>1, <1>2, <2>1 DEF MaxParts
<1>4. 1 \in Parts
  BY <1>3 DEF Parts
<1>5. NoParts[1] = <<>> /\ NoUpload[1] = <<0>>
  BY <1>4 DEF NoParts, NoUpload
<1>6. <<>> # <<0>>
  OBVIOUS
<1> QED BY <1>3, <1>4, <1>5, <1>6

-----------------------------------------------------------------------------
(* The uploads, and what one upload leaves behind. *)

(* The numbers of attempts, and the id of another process's upload. *)
LEMMA AttemptFacts ==
  /\ MaxAttempts \in Nat /\ MaxAttempts >= 1
  /\ Foreign = MaxAttempts + 1 /\ Ids = 1..(MaxAttempts + 1) /\ NoId = 0
BY UploadAssumption DEF Foreign, Ids, NoId

(* Where an error leads. *)
LEMMA FailsLeads ==
  ASSUME NEW f, Fails(f)
  PROVE  /\ tries' = 0 /\ fault' = f
         /\ id = NoId => pc' = "done"
         /\ id # NoId => pc' = "abort"
BY DEF Fails

(* A failed attempt is repeated, or is an error. *)
LEMMA AgainLeads ==
  ASSUME IdsInv, Again
  PROVE  \/ /\ tries' = tries + 1 /\ tries + 1 < MaxAttempts
            /\ pc' = pc /\ fault' = fault /\ res' = res
         \/ Fails("backend")
BY DEF Again

(* At first only another process has an upload. *)
LEMMA UploadsInit == Init => IdsInv /\ LeftInv
<1> SUFFICES ASSUME Init PROVE IdsInv /\ LeftInv
  OBVIOUS
<1>1. IdsInv
  BY AttemptFacts DEF Init, IdsInv
<1>2. LeftInv
  <2>1. uploads[Foreign] = NoParts
    BY AttemptFacts DEF Init
  <2> QED BY <2>1, UploadsDiffer DEF Init, LeftInv
<1> QED BY <1>1, <1>2

(* Reading and choosing touch no upload. *)
LEMMA UploadsRead ==
  ASSUME IdsInv, LeftInv,
         ReadBytes \/ ReadEof \/ Probe \/ SourceFails \/ Choose \/ Finish \/ Expire
  PROVE  IdsInv' /\ LeftInv'
<1>1. CASE ReadBytes \/ ReadEof \/ Expire
  <2>1. UNCHANGED <<pc, tries, id, uploads, nextID, unheard>>
    BY <1>1 DEF ReadBytes, ReadEof, Expire, service
  <2> QED BY <2>1 DEF IdsInv, LeftInv, InProgress
<1>2. CASE Probe \/ SourceFails
  <2>1. UNCHANGED <<id, uploads, nextID, unheard>> /\ pc = "read"
    BY <1>2 DEF Probe, SourceFails, service, Wanted
  <2>2. \/ UNCHANGED <<pc, tries>>
        \/ tries' = 0 /\ (IF id = NoId THEN pc' = "done" ELSE pc' = "abort")
    BY <1>2 DEF Probe, SourceFails, Fails
  <2>3. IdsInv'
    BY <2>1, <2>2, AttemptFacts DEF IdsInv
  <2> QED BY <2>1, <2>2, <2>3 DEF LeftInv
<1>3. CASE Choose \/ Finish
  <2>1. UNCHANGED <<tries, id, uploads, nextID, unheard>> /\ pc = "read"
    BY <1>3 DEF Choose, Finish, service
  <2>2. \/ id = NoId /\ pc' \in {"put", "create"}
        \/ id # NoId /\ pc' = "complete"
    BY <1>3 DEF Choose, Finish
  <2>3. IdsInv'
    BY <2>1, <2>2, AttemptFacts DEF IdsInv
  <2> QED BY <2>1, <2>2, <2>3 DEF LeftInv
<1> QED BY <1>1, <1>2, <1>3

(* A single PUT has no upload. *)
LEMMA UploadsPut ==
  ASSUME IdsInv, LeftInv, PutOk \/ PutFails
  PROVE  IdsInv' /\ LeftInv'
<1>1. UNCHANGED <<id, uploads, nextID, unheard>> /\ pc = "put" /\ id = NoId
  BY DEF PutOk, PutFails, IdsInv
<1>2. \/ pc' = "done" /\ UNCHANGED tries
      \/ pc' = "done" /\ tries' = 0
      \/ pc' = "put" /\ tries' = tries + 1 /\ tries + 1 < MaxAttempts
  BY <1>1, AgainLeads, FailsLeads DEF PutOk, PutFails, Succeeds
<1>3. IdsInv'
  BY <1>1, <1>2, AttemptFacts DEF IdsInv
<1> QED BY <1>1, <1>2, <1>3 DEF LeftInv

(* A creation draws the next id, below the one of another process. *)
LEMMA UploadsCreate ==
  ASSUME IdsInv, LeftInv, CreateOk \/ CreateFails
  PROVE  IdsInv' /\ LeftInv'
<1>1. /\ pc = "create" /\ id = NoId /\ unheard' = unheard
      /\ nextID \in Nat /\ 1 <= nextID /\ nextID <= tries + 1
      /\ tries \in Nat /\ tries <= MaxAttempts - 1
  BY AttemptFacts DEF CreateOk, CreateFails, IdsInv
<1>2. nextID \in Ids /\ nextID < Foreign /\ nextID # Foreign /\ Foreign \in Ids
  BY <1>1, AttemptFacts
<1>3. \/ UNCHANGED <<uploads, nextID>>
      \/ uploads' = [uploads EXCEPT ![nextID] = NoParts] /\ nextID' = nextID + 1
  BY DEF CreateOk, CreateFails, Created
<1>4. DOMAIN uploads' = Ids /\ uploads'[Foreign] = uploads[Foreign]
  BY <1>2, <1>3 DEF IdsInv
<1>5. CASE CreateOk
  <2>1. id' = nextID /\ pc' = "read" /\ tries' = 0 /\ nextID' = nextID + 1
    BY <1>5 DEF CreateOk, Created
  <2>2. IdsInv'
    BY <1>1, <1>4, <2>1, AttemptFacts DEF IdsInv
  <2> QED BY <1>4, <2>1, <2>2 DEF LeftInv
<1>6. CASE CreateFails
  <2>1. /\ id' = id
        /\ \/ pc' = "done" /\ tries' = 0
           \/ pc' = "create" /\ tries' = tries + 1 /\ tries + 1 < MaxAttempts
    BY <1>1, <1>6, AgainLeads, FailsLeads DEF CreateFails
  <2>2. nextID' \in Nat /\ 1 <= nextID' /\ nextID' <= tries + 2
    BY <1>1, <1>3
  <2>3. IdsInv'
    BY <1>1, <1>4, <2>1, <2>2, AttemptFacts DEF IdsInv
  <2> QED BY <1>1, <1>4, <2>1, <2>3 DEF LeftInv
<1> QED BY <1>5, <1>6

(* Parts are stored in the upload the manager knows of, its own. *)
LEMMA UploadsPart ==
  ASSUME IdsInv, LeftInv, NEW p, PartOk(p) \/ PartFails(p)
  PROVE  IdsInv' /\ LeftInv'
<1>1. /\ pc = "read" /\ id # NoId /\ UNCHANGED <<id, nextID, unheard>>
  BY DEF PartOk, PartFails, Sendable
<1>2. id # Foreign /\ Foreign \in Ids
  BY AttemptFacts DEF IdsInv
<1>3. UNCHANGED uploads \/ uploads' = [uploads EXCEPT ![id][p] = Part(p)]
  BY DEF PartOk, PartFails, Stored
<1>4. DOMAIN uploads' = Ids /\ uploads'[Foreign] = uploads[Foreign]
  BY <1>2, <1>3 DEF IdsInv
<1>5. UNCHANGED <<pc, tries>> \/ (pc' = "abort" /\ tries' = 0)
  BY <1>1, FailsLeads DEF PartOk, PartFails
<1>6. IdsInv'
  BY <1>1, <1>4, <1>5, AttemptFacts DEF IdsInv
<1> QED BY <1>1, <1>4, <1>5, <1>6 DEF LeftInv

(* Completing or aborting ends the upload the manager knows of. *)
LEMMA UploadsEnd ==
  ASSUME IdsInv, LeftInv, CompleteOk \/ CompleteFails \/ AbortOk \/ AbortFails
  PROVE  IdsInv' /\ LeftInv'
<1>1. /\ pc \in {"complete", "abort"} /\ id # NoId /\ UNCHANGED <<id, nextID>>
  BY DEF CompleteOk, CompleteFails, AbortOk, AbortFails, IdsInv
<1>2. id # Foreign /\ Foreign \in Ids /\ id \in Ids
  BY <1>1, AttemptFacts DEF IdsInv
<1>3. UNCHANGED uploads \/ uploads' = [uploads EXCEPT ![id] = NoUpload]
  BY DEF CompleteOk, CompleteFails, AbortOk, AbortFails, Completed
<1>4. DOMAIN uploads' = Ids /\ uploads'[Foreign] = uploads[Foreign]
  BY <1>2, <1>3 DEF IdsInv
<1>5. /\ \/ UNCHANGED tries
         \/ tries' = 0
         \/ tries' = tries + 1 /\ tries + 1 < MaxAttempts
      /\ pc' \in {pc, "abort", "done"}
  BY <1>1, AgainLeads, FailsLeads
     DEF CompleteOk, CompleteFails, AbortOk, AbortFails, Succeeds
<1>6. IdsInv'
  BY <1>1, <1>4, <1>5, AttemptFacts DEF IdsInv
<1>7. ASSUME pc' = "done" PROVE uploads'[id] = NoUpload \/ unheard'
  <2>1. CASE CompleteOk
    BY <1>1, <1>2, <1>7, <2>1, FailsLeads DEF CompleteOk, Completed, IdsInv
  <2>2. CASE CompleteFails
    BY <1>1, <1>7, <2>2, AgainLeads, FailsLeads DEF CompleteFails
  <2>3. CASE AbortOk
    BY <1>2, <2>3 DEF AbortOk, IdsInv
  <2>4. CASE AbortFails
    BY <1>7, <2>4 DEF AbortFails
  <2> QED BY <2>1, <2>2, <2>3, <2>4
<1> QED BY <1>1, <1>4, <1>6, <1>7 DEF LeftInv

(* Every step of Next keeps the uploads right. *)
LEMMA UploadsNext == IdsInv /\ LeftInv /\ [Next]_vars => IdsInv' /\ LeftInv'
<1> SUFFICES ASSUME IdsInv, LeftInv, [Next]_vars PROVE IdsInv' /\ LeftInv'
  OBVIOUS
<1>1. CASE ReadStep \/ SourceFails \/ Expire
  BY <1>1, UploadsRead DEF ReadStep
<1>2. CASE ManagerStep
  BY <1>2, UploadsRead, UploadsPut, UploadsCreate, UploadsPart, UploadsEnd DEF ManagerStep
<1>3. CASE UNCHANGED vars
  BY <1>3 DEF vars, service, IdsInv, LeftInv
<1> QED BY <1>1, <1>2, <1>3 DEF Next

(***************************************************************************)
(* "A failed transfer must not leave an upload behind", for every number   *)
(* of attempts, parts and workers: when the manager returns, the upload it *)
(* knows of is completed or aborted unless the abort itself was given up,  *)
(* and an upload of another process is never ended.                        *)
(***************************************************************************)
THEOREM NoUploadLeftBehind == Spec => []NothingLeftBehind
<1>1. IdsInv /\ LeftInv => NothingLeftBehind
  BY AttemptFacts DEF IdsInv, LeftInv, NothingLeftBehind
<1> QED BY <1>1, UploadsInit, UploadsNext, PTL DEF Spec

-----------------------------------------------------------------------------
(* The bytes: what the reader hands out, and the parts cut from it. *)

TransferInv == IdsInv /\ ReaderInv /\ PartsInv /\ ObjectInv

(* The sizes are numbers. *)
LEMMA SizeFacts ==
  /\ PartSize \in Nat /\ PartSize >= 1 /\ Threshold \in Nat /\ Maximum \in Nat
  /\ MaxSource \in Nat
BY UploadAssumption

(* The first s bytes and the next n are the first s + n. *)
LEMMA BytesExtend ==
  ASSUME NEW s \in Nat, NEW n \in Nat
  PROVE  [i \in 1..s |-> i] \o [i \in 1..n |-> s + i] = [i \in 1..(s + n) |-> i]
<1> DEFINE a == [i \in 1..s |-> i]
<1> DEFINE b == [i \in 1..n |-> s + i]
<1> DEFINE c == [i \in 1..(s + n) |-> i]
<1>1. a \in Seq(Nat) /\ b \in Seq(Nat) /\ c \in Seq(Nat) /\ Len(a) = s /\ Len(b) = n /\ Len(c) = s + n
  OBVIOUS
<1>2. \A i \in 1..s : a[i] = i
  OBVIOUS
<1>3. \A i \in 1..n : b[i] = s + i
  OBVIOUS
<1>4. \A i \in 1..(s + n) : c[i] = i
  OBVIOUS
<1> HIDE DEF a, b, c
<1>5. /\ a \o b \in Seq(Nat) /\ Len(a \o b) = Len(a) + Len(b)
      /\ \A i \in 1..(Len(a) + Len(b)) :
           (a \o b)[i] = IF i <= Len(a) THEN a[i] ELSE b[i - Len(a)]
  BY <1>1, ConcatProperties
<1>6. ASSUME NEW i \in 1..(s + n) PROVE (a \o b)[i] = c[i]
  <2>1. (a \o b)[i] = IF i <= s THEN a[i] ELSE b[i - s]
    BY <1>1, <1>5
  <2>2. i <= s => a[i] = i
    BY <1>2
  <2>3. ~(i <= s) => i - s \in 1..n
    OBVIOUS
  <2>4. ~(i <= s) => b[i - s] = s + (i - s)
    BY <1>3, <2>3
  <2>5. c[i] = i /\ s + (i - s) = i
    BY <1>4
  <2> QED BY <2>1, <2>2, <2>4, <2>5
<1>7. a \o b = c
  BY <1>1, <1>5, <1>6, SeqEqual
<1> QED BY <1>7 DEF a, b, c

(* A piece of the first s bytes. *)
LEMMA BytesCut ==
  ASSUME NEW s \in Nat, NEW l \in Nat, NEW h \in Nat, h <= s
  PROVE  SubSeq([i \in 1..s |-> i], l + 1, h) = [i \in 1..(h - l) |-> l + i]
<1> DEFINE a == [i \in 1..s |-> i]
<1>1. SubSeq(a, l + 1, h) = [i \in 1..(h - (l + 1) + 1) |-> a[i + (l + 1) - 1]]
  OBVIOUS
<1>2. h - (l + 1) + 1 = h - l
  OBVIOUS
<1>3. \A i \in 1..(h - l) : i + (l + 1) - 1 = l + i /\ l + i \in 1..s
  OBVIOUS
<1>4. \A i \in 1..(h - l) : a[i + (l + 1) - 1] = l + i
  BY <1>3
<1> QED BY <1>1, <1>2, <1>4

(* The place of a part is a number. *)
LEMMA PartPlace ==
  ASSUME NEW p \in Parts
  PROVE  /\ p \in Nat /\ p >= 1
         /\ (p - 1) * PartSize \in Nat /\ p * PartSize \in Nat
         /\ p * PartSize = (p - 1) * PartSize + PartSize
<1>1. p \in Nat /\ p >= 1
  BY UploadsDiffer DEF Parts
<1>2. p - 1 \in Nat
  BY <1>1
<1>3. PartSize \in Nat
  BY SizeFacts
<1>4. ASSUME NEW a \in Nat, NEW b \in Nat PROVE a * b \in Nat /\ (a + 1) * b = a * b + b
  OBVIOUS
<1>5. (p - 1) + 1 = p
  BY <1>1
<1>6. (p - 1) * PartSize \in Nat /\ ((p - 1) + 1) * PartSize = (p - 1) * PartSize + PartSize
  BY <1>2, <1>3, <1>4
<1> QED BY <1>1, <1>3, <1>5, <1>6

(* A part is sent as soon as what was read decides it. *)
LEMMA PartIsSourcePart ==
  ASSUME ReaderInv, NEW p \in Parts, Queued(p)
  PROVE  Part(p) = SourcePart(source, p)
<1> DEFINE l == (p - 1) * PartSize
<1> DEFINE h == p * PartSize
<1>1. l \in Nat /\ h \in Nat
  BY PartPlace
<1>2. size \in Nat /\ source \in Nat /\ size <= source /\ Len(got) = size
      /\ got = [i \in 1..size |-> i]
  BY SizeFacts DEF ReaderInv
<1>3. h <= size \/ size = source
  BY <1>2 DEF Queued, ReaderInv
<1>4. Part(p) = SubSeq([i \in 1..size |-> i], l + 1, Least(h, size))
  BY <1>2 DEF Part
<1>5. SourcePart(source, p) = [i \in 1..(Least(h, source) - l) |-> l + i]
  BY DEF SourcePart
<1> HIDE DEF l, h
<1>6. Least(h, size) = Least(h, source) /\ Least(h, size) \in Nat /\ Least(h, size) <= size
  BY <1>1, <1>2, <1>3 DEF Least
<1> QED BY <1>1, <1>2, <1>4, <1>5, <1>6, BytesCut

(* Past the end of the source there is nothing. *)
LEMMA NoSourcePart ==
  ASSUME ReaderInv, eof, NEW p \in Parts, ~Queued(p)
  PROVE  SourcePart(source, p) = <<>>
<1> DEFINE l == (p - 1) * PartSize
<1> DEFINE h == p * PartSize
<1>1. l \in Nat /\ h \in Nat
  BY PartPlace
<1>2. source \in Nat /\ Len(got) = source
  BY SizeFacts DEF ReaderInv
<1>3. l >= source
  BY <1>1, <1>2 DEF Queued
<1>4. SourcePart(source, p) = [i \in 1..(Least(h, source) - l) |-> l + i]
  BY DEF SourcePart
<1> HIDE DEF l, h
<1>5. Least(h, source) \in Nat /\ Least(h, source) <= source
  BY <1>1, <1>2 DEF Least
<1>6. 1..(Least(h, source) - l) = {}
  BY <1>1, <1>2, <1>3, <1>5
<1> QED BY <1>4, <1>6

(* No part of a source looks like the mark of a missing upload. *)
LEMMA SourcePartNotMark ==
  ASSUME NEW n \in Nat, NEW p \in Parts
  PROVE  SourcePart(n, p) # <<0>>
<1> DEFINE l == (p - 1) * PartSize
<1> DEFINE m == Least(p * PartSize, n) - l
<1>1. l \in Nat
  BY PartPlace
<1>2. SourcePart(n, p) = [i \in 1..m |-> l + i]
  BY DEF SourcePart
<1> HIDE DEF l, m
<1>3. SourcePart(n, p) = <<0>> =>
        1 \in DOMAIN SourcePart(n, p) /\ SourcePart(n, p)[1] = 0
  OBVIOUS
<1>4. 1 \in DOMAIN SourcePart(n, p) => SourcePart(n, p)[1] = l + 1
  BY <1>2
<1> QED BY <1>1, <1>3, <1>4

-----------------------------------------------------------------------------
(* The parts make the whole: by induction on the parts, in the form of a   *)
(* smallest part where the flattening would go wrong.                      *)

(* A set of natural numbers has a smallest element. *)
LEMMA LeastNatural ==
  ASSUME NEW T \in SUBSET Nat, T # {}
  PROVE  \E m \in T : \A k \in T : m <= k
<1> DEFINE R == OpToRel(<, Nat)
<1>1. IsWellFoundedOn(R, Nat)
  BY NatLessThanWellFounded, Zenon
<1>2. \A x, y \in Nat : <<y, x>> \in R <=> y < x
  BY DEF OpToRel
<1> HIDE DEF R
<1>3. PICK m \in T : \A y \in T : ~(<<y, m>> \in R)
  BY <1>1, WFMin
<1>4. ASSUME NEW k \in T PROVE m <= k
  <2>1. ~(<<k, m>> \in R) /\ k \in Nat /\ m \in Nat
    BY <1>3
  <2>2. ~(k < m)
    BY <1>2, <2>1
  <2> QED BY <2>1, <2>2
<1> QED BY <1>4

(* A division rounded down misses less than one divisor. *)
LEMMA DivCovers ==
  ASSUME NEW a \in Nat, NEW b \in Nat \ {0}
  PROVE  a \div b \in Nat /\ (a \div b) * b + b > a
<1> DEFINE q == a \div b
<1>1. q \in Nat
  OBVIOUS
<1>2. a = b * q + (a % b) /\ a % b \in 0..(b - 1)
  OBVIOUS
<1> HIDE DEF q
<1>3. b * q \in Nat /\ b * q = q * b
  BY <1>1
<1>4. q * b + b > a
  BY <1>2, <1>3
<1> QED BY <1>1, <1>4 DEF q

(* FlattenSeq is the last value of its recursion, when that has a solution. *)
LEMMA FlattenRecursion ==
  ASSUME NEW s, Len(s) # 0, NEW g,
         g = [i \in 1..Len(s) |-> IF i = 1 THEN s[i] ELSE g[i - 1] \o s[i]]
  PROVE  \E f : /\ f = [i \in 1..Len(s) |-> IF i = 1 THEN s[i] ELSE f[i - 1] \o s[i]]
                /\ FlattenSeq(s) = f[Len(s)]
<1> DEFINE Solves(f) == f = [i \in 1..Len(s) |-> IF i = 1 THEN s[i] ELSE f[i - 1] \o s[i]]
<1> DEFINE h == CHOOSE f : Solves(f)
<1>1. Solves(h)
  BY Zenon
<1>2. FlattenSeq(s) = h[Len(s)]
  BY Zenon DEF FlattenSeq
<1> QED BY <1>1, <1>2, Zenon

(* The first n bytes up to the end of part p. *)
UpTo(n, p) == [k \in 1..Least(p * PartSize, n) |-> k]

(* The first part, and how the next one extends those before it. *)
LEMMA UpToSteps ==
  ASSUME NEW n \in Nat, NEW p \in Parts
  PROVE  UpTo(n, p) = IF p = 1 THEN SourcePart(n, p) ELSE UpTo(n, p - 1) \o SourcePart(n, p)
<1> DEFINE l == (p - 1) * PartSize
<1> DEFINE h == p * PartSize
<1>1. l \in Nat /\ h \in Nat /\ h = l + PartSize /\ PartSize \in Nat /\ p \in Nat /\ p >= 1
  BY PartPlace, SizeFacts
<1>2. p = 1 => l = 0
  BY <1>1
<1>3. /\ SourcePart(n, p) = [i \in 1..(Least(h, n) - l) |-> l + i]
      /\ UpTo(n, p) = [k \in 1..Least(h, n) |-> k]
      /\ UpTo(n, p - 1) = [k \in 1..Least(l, n) |-> k]
  BY DEF SourcePart, UpTo
<1> HIDE DEF l, h
<1>4. Least(h, n) \in Nat /\ Least(l, n) \in Nat
  BY <1>1 DEF Least
<1>5. CASE p = 1
  BY <1>2, <1>3, <1>4, <1>5
<1>6. CASE p # 1 /\ l <= n
  <2>1. Least(l, n) = l /\ Least(h, n) - l \in Nat /\ l + (Least(h, n) - l) = Least(h, n)
    BY <1>1, <1>4, <1>6 DEF Least
  <2>2. [k \in 1..l |-> k] \o [i \in 1..(Least(h, n) - l) |-> l + i]
          = [k \in 1..(l + (Least(h, n) - l)) |-> k]
    BY <1>1, <2>1, BytesExtend
  <2> QED BY <1>3, <1>6, <2>1, <2>2
<1>7. CASE p # 1 /\ ~(l <= n)
  <2>1. Least(l, n) = n /\ Least(h, n) = n /\ n - l < 0
    BY <1>1, <1>7 DEF Least
  <2>2. SourcePart(n, p) = <<>>
    <3>1. 1..(n - l) = {}
      BY <1>1, <2>1
    <3> QED BY <1>3, <2>1, <3>1
  <2>3. UpTo(n, p - 1) \in Seq(Nat)
    BY <1>3, <1>4
  <2>4. UpTo(n, p - 1) \o <<>> = UpTo(n, p - 1)
    BY <2>3, ConcatEmptySeq
  <2> QED BY <1>3, <1>7, <2>1, <2>2, <2>4
<1> QED BY <1>5, <1>6, <1>7

(* A source cut into parts and put together again is what it was. *)
LEMMA PartsPutTogether == PartsMakeWhole
<1> SUFFICES ASSUME NEW n \in 0..MaxSource
             PROVE  FlattenSeq([p \in Parts |-> SourcePart(n, p)]) = [i \in 1..n |-> i]
  BY DEF PartsMakeWhole
<1> DEFINE s == [p \in Parts |-> SourcePart(n, p)]
<1> DEFINE g == [p \in Parts |-> UpTo(n, p)]
<1>1. MaxParts \in Nat /\ MaxParts >= 1 /\ 1 \in Parts /\ MaxParts \in Parts /\ n \in Nat
  BY UploadsDiffer, SizeFacts DEF Parts
<1>2. Len(s) = MaxParts /\ 1..Len(s) = Parts /\ \A p \in Parts : s[p] = SourcePart(n, p)
  BY <1>1 DEF Parts
<1>3. \A p \in Parts : g[p] = UpTo(n, p)
  OBVIOUS
<1>4. \A p \in Parts : p # 1 => p - 1 \in Parts
  BY <1>1 DEF Parts
<1>5. \A p \in Parts : g[p] = IF p = 1 THEN s[p] ELSE g[p - 1] \o s[p]
  BY <1>1, <1>2, <1>3, <1>4, UpToSteps
<1>6. g = [p \in Parts |-> IF p = 1 THEN s[p] ELSE g[p - 1] \o s[p]]
  BY <1>5
<1> HIDE DEF s, g
<1>7. PICK f : /\ f = [p \in Parts |-> IF p = 1 THEN s[p] ELSE f[p - 1] \o s[p]]
               /\ FlattenSeq(s) = f[MaxParts]
  <2>1. Len(s) # 0
    BY <1>1, <1>2
  <2>2. g = [p \in 1..Len(s) |-> IF p = 1 THEN s[p] ELSE g[p - 1] \o s[p]]
    BY <1>2, <1>6
  <2>3. \E f : /\ f = [p \in 1..Len(s) |-> IF p = 1 THEN s[p] ELSE f[p - 1] \o s[p]]
               /\ FlattenSeq(s) = f[Len(s)]
    BY <2>1, <2>2, FlattenRecursion
  <2> QED BY <1>2, <2>3
<1>8. \A p \in Parts : f[p] = g[p]
  <2> DEFINE Wrong == {p \in Parts : f[p] # g[p]}
  <2>1. SUFFICES ASSUME Wrong # {} PROVE FALSE
    OBVIOUS
  <2>2. Wrong \in SUBSET Nat
    BY <1>1 DEF Parts
  <2>3. PICK m \in Wrong : \A k \in Wrong : m <= k
    BY <2>1, <2>2, LeastNatural
  <2>4. m \in Parts /\ f[m] # g[m]
    OBVIOUS
  <2>5. m # 1 => f[m - 1] = g[m - 1]
    <3>1. ~(m <= m - 1)
      BY <2>2
    <3> QED BY <1>4, <2>3, <2>4, <3>1
  <2>6. f[m] = IF m = 1 THEN s[m] ELSE f[m - 1] \o s[m]
    BY <1>7, <2>4
  <2> QED BY <1>5, <2>4, <2>5, <2>6
<1>9. FlattenSeq(s) = UpTo(n, MaxParts)
  BY <1>1, <1>3, <1>7, <1>8
<1>10. UpTo(n, MaxParts) = [i \in 1..n |-> i]
  <2>1. MaxSource + PartSize - 1 \in Nat /\ PartSize \in Nat \ {0}
    BY UploadAssumption
  <2>2. MaxParts * PartSize + PartSize > MaxSource + PartSize - 1
    BY <2>1, DivCovers DEF MaxParts
  <2>3. MaxParts * PartSize \in Nat
    BY <1>1, PartPlace
  <2>4. MaxParts * PartSize >= n
    BY <1>1, <2>1, <2>2, <2>3, SizeFacts
  <2>5. Least(MaxParts * PartSize, n) = n
    BY <1>1, <2>3, <2>4 DEF Least
  <2> QED BY <2>5 DEF UpTo
<1> QED BY <1>9, <1>10 DEF s

-----------------------------------------------------------------------------
(* Each step keeps the reader, the parts and the object right. *)

(* The numbers of the reader. *)
LEMMA ReaderFacts ==
  ASSUME ReaderInv
  PROVE  /\ source \in Nat /\ size \in Nat /\ size <= source /\ size <= Maximum
         /\ Len(got) = size /\ got = [i \in 1..size |-> i]
BY SizeFacts DEF ReaderInv

(* The object of a source is not the mark of a missing one. *)
LEMMA WholeNotMark ==
  ASSUME ReaderInv
  PROVE  Whole # NoObject
<1>1. ~(1 \in DOMAIN Whole /\ Whole[1] = 0)
  BY DEF Whole
<1>2. 1 \in DOMAIN NoObject /\ NoObject[1] = 0
  BY DEF NoObject
<1> QED BY <1>1, <1>2

(* Nothing was read, sent or stored at first. *)
LEMMA TransferInit == Init => TransferInv
<1> SUFFICES ASSUME Init PROVE TransferInv
  OBVIOUS
<1>1. IdsInv
  BY UploadsInit
<1>2. ReaderInv
  <2>1. got = [i \in 1..0 |-> i]
    BY DEF Init
  <2> QED BY <2>1, SizeFacts DEF Init, ReaderInv
<1>3. PartsInv
  BY DEF Init, PartsInv, InProgress
<1>4. ObjectInv
  BY DEF Init, ObjectInv
<1> QED BY <1>1, <1>2, <1>3, <1>4 DEF TransferInv

(* A Read takes the next bytes, within the source and the maximum. *)
LEMMA ReadTakes ==
  ASSUME TransferInv, ReadBytes
  PROVE  \E n \in Nat \ {0} :
           /\ taken = size /\ size + n <= source /\ size + n <= Maximum
           /\ size' = size + n /\ taken' = size + n
           /\ got' = [i \in 1..(size + n) |-> i]
           /\ eof' => size + n = source
<1>0. ReaderInv
  BY DEF TransferInv
<1>1. PICK n \in 1..Least(Limit, source - taken) :
        /\ taken' = taken + n
        /\ size' = size + n
        /\ got' = got \o [i \in 1..n |-> taken + i]
        /\ eof' \in {FALSE, taken + n = source}
  BY DEF ReadBytes
<1>2. pc = "read" /\ size < Maximum
  BY DEF ReadBytes, Wanted
<1>3. taken = size
  BY <1>0, <1>2 DEF ReaderInv
<1>4. Limit \in Int /\ Limit <= Maximum - size
  BY <1>0, ReaderFacts, SizeFacts DEF Limit, Room, Least
<1>5. n \in Nat \ {0} /\ n <= source - size /\ n <= Maximum - size
  <2>1. source - taken \in Nat
    BY <1>0, <1>3, ReaderFacts
  <2>2. /\ Least(Limit, source - taken) \in Int
        /\ Least(Limit, source - taken) <= source - taken
        /\ Least(Limit, source - taken) <= Limit
    BY <1>4, <2>1 DEF Least
  <2> QED BY <1>0, <1>3, <1>4, <2>1, <2>2, ReaderFacts, SizeFacts
<1>6. got' = [i \in 1..(size + n) |-> i]
  <2>1. got' = [i \in 1..size |-> i] \o [i \in 1..n |-> taken + i]
    BY <1>0, <1>1, ReaderFacts
  <2>2. got' = [i \in 1..size |-> i] \o [i \in 1..n |-> size + i]
    BY <1>3, <2>1
  <2>3. size \in Nat /\ n \in Nat
    BY <1>0, <1>5, ReaderFacts
  <2> QED BY <2>2, <2>3, BytesExtend
<1>7. eof' => size + n = source
  BY <1>1, <1>3
<1>8. size + n <= source /\ size + n <= Maximum
  BY <1>0, <1>5, ReaderFacts, SizeFacts
<1> QED BY <1>1, <1>3, <1>5, <1>6, <1>7, <1>8

(* More bytes queue more parts. *)
LEMMA QueuedGrows ==
  ASSUME ReaderInv, NEW p \in Parts, Queued(p),
         size' \in Nat, size <= size', Len(got') = size', eof => eof'
  PROVE  Queued(p)'
<1>1. (p - 1) * PartSize \in Nat /\ p * PartSize \in Nat
  BY PartPlace
<1>2. Queued(p)' <=> \/ p * PartSize <= size'
                     \/ eof' /\ (p - 1) * PartSize < size'
  BY DEF Queued
<1>3. \/ p * PartSize <= size
      \/ eof /\ (p - 1) * PartSize < size
  BY ReaderFacts DEF Queued
<1> QED BY <1>1, <1>2, <1>3, ReaderFacts

(* The accounted reader's steps. *)
LEMMA TransferRead ==
  ASSUME TransferInv, ReadBytes \/ ReadEof
  PROVE  ReaderInv' /\ PartsInv' /\ ObjectInv'
<1>0. IdsInv /\ ReaderInv /\ PartsInv /\ ObjectInv
  BY DEF TransferInv
<1>1. /\ pc = "read" /\ ~eof
      /\ UNCHANGED <<source, pc, acked, id, fault, res, uploads, object>>
  BY DEF ReadBytes, ReadEof, Wanted, service
<1>2. fault # "toolarge" /\ object = NoObject /\ res # "toolarge"
  BY <1>0, <1>1 DEF ReaderInv, ObjectInv
<1>3. /\ size' \in Nat /\ size <= size' /\ size' <= source /\ size' <= Maximum
      /\ taken' = size' /\ got' = [i \in 1..size' |-> i]
      /\ eof' => size' = source
  <2>1. CASE ReadBytes
    BY <1>0, <2>1, ReadTakes, ReaderFacts
  <2>2. CASE ReadEof
    <3>1. UNCHANGED <<size, taken, got>> /\ taken = source /\ taken = size
      BY <1>0, <1>2, <2>2 DEF ReadEof, ReaderInv
    <3> QED BY <1>0, <3>1, ReaderFacts
  <2> QED BY <2>1, <2>2
<1>4. ReaderInv'
  <2>1. source' \in 0..MaxSource /\ size' \in 0..Maximum /\ size' <= source'
    BY <1>0, <1>1, <1>3, SizeFacts DEF ReaderInv
  <2> QED BY <1>0, <1>1, <1>2, <1>3, <2>1 DEF ReaderInv
<1>5. \A p \in Parts : Queued(p) => Queued(p)'
  BY <1>0, <1>1, <1>3, QueuedGrows
<1>6. PartsInv'
  <2>1. InProgress' <=> InProgress
    BY <1>1 DEF InProgress
  <2> QED BY <1>0, <1>1, <1>5, <2>1 DEF PartsInv
<1>7. ObjectInv'
  <2>1. res # "ok"
    BY <1>0, <1>2, WholeNotMark DEF ObjectInv
  <2> QED BY <1>0, <1>1, <1>2, <2>1 DEF ObjectInv
<1> QED BY <1>4, <1>6, <1>7

(* What an error is called, and where it leads. *)
LEMMA OutcomeNames ==
  ASSUME NEW f
  PROVE  Outcome(f) # "ok" /\ (Outcome(f) = "toolarge" <=> f = "toolarge")
BY DEF Outcome

(* An error ends the call or begins the abort; only it can be "too large". *)
LEMMA FailsTells ==
  ASSUME NEW f, Fails(f)
  PROVE  /\ pc' \in {"abort", "done"} /\ fault' = f
         /\ res' = res \/ (res' # "ok" /\ (res' = "toolarge" => f = "toolarge"))
BY OutcomeNames DEF Fails

(* A failed attempt is never a success, and never "too large". *)
LEMMA AgainTells ==
  ASSUME Again
  PROVE  \/ UNCHANGED <<pc, fault, res>>
         \/ /\ pc' \in {"abort", "done"} /\ fault' = "backend"
            /\ res' = res \/ res' \notin {"ok", "toolarge"}
BY FailsTells DEF Again

(* Steps that read nothing. *)
LEMMA QuietReader ==
  ASSUME ReaderInv, UNCHANGED reader,
         fault' = fault \/ (fault # "toolarge" /\ fault' = "backend"),
         res' = res \/ res' # "toolarge" \/ fault' = "toolarge",
         fault = "toolarge" => pc' \in {"abort", "done"} /\ object' = object
  PROVE  ReaderInv'
<1>1. UNCHANGED <<source, taken, size, got, eof>>
  BY DEF reader
<1> QED BY <1>1 DEF ReaderInv

(* Steps that store no part. *)
LEMMA QuietParts ==
  ASSUME IdsInv, PartsInv, UNCHANGED <<got, eof, source, acked, id>>,
         \/ UNCHANGED uploads
         \/ /\ id # NoId /\ pc' # "read"
            /\ uploads' = [uploads EXCEPT ![id] = NoUpload],
         pc' = pc \/ pc' \in {"create", "abort", "done"}
  PROVE  PartsInv'
<1>1. \A p : Queued(p)' <=> Queued(p)
  BY DEF Queued
<1>2. CASE UNCHANGED uploads
  BY <1>1, <1>2 DEF PartsInv, InProgress
<1>3. CASE /\ id # NoId /\ pc' # "read"
           /\ uploads' = [uploads EXCEPT ![id] = NoUpload]
  <2>1. id \in Ids
    BY <1>3, AttemptFacts DEF IdsInv
  <2>2. ~InProgress'
    BY <1>3, <2>1 DEF InProgress, IdsInv
  <2> QED BY <1>1, <1>3, <2>2 DEF PartsInv
<1> QED BY <1>2, <1>3

(* Steps that leave the object alone, or store the whole of it. *)
LEMMA QuietObject ==
  ASSUME ReaderInv, ObjectInv, UNCHANGED <<source, size>>,
         object' = object \/ (object' = Whole /\ source <= Maximum),
         pc' \in {"read", "create"} => pc \in {"read", "create"} /\ object' = object,
         res' = res \/ res' # "ok" \/ (object' = Whole /\ size = source)
  PROVE  ObjectInv'
<1>1. Whole' = Whole
  BY DEF Whole
<1> QED BY <1>1 DEF ObjectInv

(* At the maximum one byte more decides. *)
LEMMA TransferProbe ==
  ASSUME TransferInv, Probe \/ SourceFails
  PROVE  ReaderInv' /\ PartsInv' /\ ObjectInv'
<1>0. IdsInv /\ ReaderInv /\ PartsInv /\ ObjectInv
  BY DEF TransferInv
<1>1. /\ pc = "read" /\ ~eof
      /\ UNCHANGED <<source, size, got, acked, id, uploads, object>>
  BY DEF Probe, SourceFails, Wanted, service, reader
<1>2. fault # "toolarge" /\ object = NoObject /\ res # "toolarge" /\ taken = size
  BY <1>0, <1>1 DEF ReaderInv, ObjectInv
<1>3. CASE SourceFails \/ (Probe /\ taken # source)
  <2>1. eof' = eof
    BY <1>3 DEF SourceFails, Probe, reader
  <2>2. /\ pc' \in {"abort", "done"} /\ fault' \in {"toolarge", "backend"}
        /\ res' = res \/ (res' # "ok" /\ (res' = "toolarge" => fault' = "toolarge"))
    BY <1>3, FailsTells DEF SourceFails, Probe
  <2>3. fault' = "toolarge" => source > Maximum
    BY <1>0, <1>2, <1>3, FailsTells, ReaderFacts, SizeFacts DEF SourceFails, Probe
  <2>4. fault' # "toolarge" => taken' = size'
    <3>1. CASE SourceFails
      BY <1>1, <1>2, <3>1 DEF SourceFails, reader
    <3>2. CASE Probe /\ taken # source
      BY <3>2, FailsTells DEF Probe
    <3> QED BY <1>3, <3>1, <3>2
  <2>5. ReaderInv'
    BY <1>0, <1>1, <1>2, <2>1, <2>2, <2>3, <2>4 DEF ReaderInv
  <2>6. PartsInv'
    BY <1>0, <1>1, <2>1, <2>2, QuietParts
  <2>7. ObjectInv'
    BY <1>0, <1>1, <2>2, QuietObject
  <2> QED BY <2>5, <2>6, <2>7
<1>4. CASE Probe /\ taken = source
  <2>0. ~(taken < source)
    BY <1>0, <1>4, ReaderFacts
  <2>1. eof' = TRUE /\ taken = source /\ UNCHANGED <<taken, pc, fault, res>>
    BY <1>4, <2>0 DEF Probe
  <2>2. ReaderInv'
    BY <1>0, <1>1, <1>2, <2>1 DEF ReaderInv
  <2>3. \A p \in Parts : Queued(p) => Queued(p)'
    <3>1. size' \in Nat /\ size <= size' /\ Len(got') = size'
      BY <1>0, <1>1, ReaderFacts
    <3> QED BY <1>0, <2>1, <3>1, QueuedGrows
  <2>4. PartsInv'
    <3>1. InProgress' <=> InProgress
      BY <1>1 DEF InProgress
    <3> QED BY <1>0, <1>1, <2>1, <2>3, <3>1 DEF PartsInv
  <2>5. ObjectInv'
    BY <1>0, <1>1, <2>1, QuietObject
  <2> QED BY <2>2, <2>4, <2>5
<1> QED BY <1>3, <1>4

(* The manager's choice, and the end of the context. *)
LEMMA TransferChoose ==
  ASSUME TransferInv, Choose \/ Finish \/ Expire
  PROVE  ReaderInv' /\ PartsInv' /\ ObjectInv'
<1>0. IdsInv /\ ReaderInv /\ PartsInv /\ ObjectInv
  BY DEF TransferInv
<1>1. UNCHANGED <<reader, source, size, got, eof, acked, id, fault, res, uploads, object>>
  BY DEF Choose, Finish, Expire, reader, service
<1>2. /\ pc' = pc \/ (pc = "read" /\ pc' \in {"put", "create", "complete"})
      /\ pc' = "create" => pc \in {"read", "create"}
  BY DEF Choose, Finish, Expire
<1>3. fault = "toolarge" => pc' = pc
  BY <1>0, <1>2 DEF ReaderInv
<1>4. ReaderInv'
  BY <1>0, <1>1, <1>3, QuietReader DEF ReaderInv
<1>5. ObjectInv'
  BY <1>0, <1>1, <1>2, QuietObject
<1>6. PartsInv'
  <2>1. CASE pc' = pc \/ pc' \in {"create", "abort", "done"}
    BY <1>0, <1>1, <2>1, QuietParts
  <2>2. CASE pc' \in {"put", "complete"} /\ pc' # pc
    <3>1. \A p : Queued(p)' <=> Queued(p)
      BY <1>1 DEF Queued
    <3>2. /\ InProgress' <=> InProgress
      BY <1>1 DEF InProgress
    <3>3. eof
      BY <2>2 DEF Choose, Finish, Expire
    <3>4. pc' = "complete" => \A p \in Parts : Queued(p) => p \in acked
      BY <2>2 DEF Choose, Finish, Expire
    <3> QED BY <1>0, <1>1, <2>2, <3>1, <3>2, <3>3, <3>4 DEF PartsInv
  <2> QED BY <1>2, <2>1, <2>2
<1> QED BY <1>4, <1>5, <1>6

(* A single PUT stores the whole source or nothing. *)
LEMMA TransferPut ==
  ASSUME TransferInv, PutOk \/ PutFails
  PROVE  ReaderInv' /\ PartsInv' /\ ObjectInv'
<1>0. IdsInv /\ ReaderInv /\ PartsInv /\ ObjectInv
  BY DEF TransferInv
<1>1. /\ UNCHANGED <<reader, source, size, got, eof, acked, id, uploads>> /\ pc = "put"
  BY DEF PutOk, PutFails, reader
<1>2. fault # "toolarge" /\ size = source /\ got = Whole /\ source <= Maximum
  BY <1>0, <1>1, ReaderFacts DEF ReaderInv, PartsInv, Whole
<1>3. object' = object \/ object' = Whole
  BY <1>2 DEF PutOk, PutFails
<1>4. /\ pc' \in {"put", "abort", "done"}
      /\ fault' = fault \/ fault' = "backend"
      /\ \/ res' = res
         \/ res' \notin {"ok", "toolarge"}
         \/ res' = "ok" /\ object' = Whole
  <2>1. CASE PutOk
    BY <1>1, <1>2, <2>1, FailsTells DEF PutOk, Succeeds
  <2>2. CASE PutFails
    BY <1>1, <2>2, AgainTells DEF PutFails
  <2> QED BY <2>1, <2>2
<1>5. ReaderInv'
  BY <1>0, <1>1, <1>2, <1>4, QuietReader
<1>6. PartsInv'
  BY <1>0, <1>1, <1>4, QuietParts
<1>7. ObjectInv'
  BY <1>0, <1>1, <1>2, <1>3, <1>4, QuietObject
<1> QED BY <1>5, <1>6, <1>7

(* A creation that is answered starts an upload without parts. *)
LEMMA TransferCreate ==
  ASSUME TransferInv, CreateOk \/ CreateFails
  PROVE  ReaderInv' /\ PartsInv' /\ ObjectInv'
<1>0. IdsInv /\ ReaderInv /\ PartsInv /\ ObjectInv
  BY DEF TransferInv
<1>1. UNCHANGED <<reader, source, size, got, eof, acked, object>> /\ pc = "create"
  BY DEF CreateOk, CreateFails, reader
<1>2. fault # "toolarge" /\ id = NoId /\ acked = {} /\ object = NoObject
  BY <1>0, <1>1 DEF IdsInv, ReaderInv, PartsInv, ObjectInv
<1>3. /\ pc' \in {"read", "create", "abort", "done"}
      /\ fault' = fault \/ fault' = "backend"
      /\ res' = res \/ res' \notin {"ok", "toolarge"}
  BY <1>1, AgainTells DEF CreateOk, CreateFails
<1>4. ReaderInv'
  BY <1>0, <1>1, <1>2, <1>3, QuietReader
<1>5. ObjectInv'
  BY <1>0, <1>1, <1>3, QuietObject
<1>6. PartsInv'
  <2>1. CASE CreateFails
    <3>1. id' = NoId /\ pc' \in {"create", "abort", "done"}
      BY <1>1, <1>2, <2>1, AgainTells DEF CreateFails
    <3> QED BY <1>1, <1>2, <3>1 DEF PartsInv, InProgress
  <2>2. CASE CreateOk
    <3>1. id' = nextID /\ pc' = "read" /\ uploads' = [uploads EXCEPT ![nextID] = NoParts]
      BY <2>2 DEF CreateOk, Created
    <3>2. nextID \in Ids
      BY <1>0, AttemptFacts DEF IdsInv
    <3>3. uploads'[id'] = NoParts
      BY <1>0, <3>1, <3>2 DEF IdsInv
    <3>4. NoParts = [p \in Parts |-> NoParts[p]] /\ \A p \in Parts : NoParts[p] = <<>>
      BY DEF NoParts
    <3> QED BY <1>1, <1>2, <3>1, <3>3, <3>4, UploadsDiffer DEF PartsInv
  <2> QED BY <2>1, <2>2
<1> QED BY <1>4, <1>5, <1>6

(* A part that is sent is that part of the source, acknowledged or not. *)
LEMMA TransferPart ==
  ASSUME TransferInv, NEW p \in Parts, PartOk(p) \/ PartFails(p)
  PROVE  ReaderInv' /\ PartsInv' /\ ObjectInv'
<1>0. IdsInv /\ ReaderInv /\ PartsInv /\ ObjectInv
  BY DEF TransferInv
<1>1. /\ UNCHANGED <<reader, source, size, got, eof, id, object>>
      /\ pc = "read" /\ id # NoId /\ Queued(p)
  BY DEF PartOk, PartFails, Sendable, reader
<1>2. fault # "toolarge" /\ uploads[id] # NoUpload /\ InProgress
  BY <1>0, <1>1 DEF ReaderInv, PartsInv, InProgress
<1>3. /\ pc' \in {"read", "abort", "done"}
      /\ fault' = fault \/ fault' = "backend"
      /\ res' = res \/ res' \notin {"ok", "toolarge"}
  BY <1>1, FailsTells DEF PartOk, PartFails
<1>4. ReaderInv'
  BY <1>0, <1>1, <1>2, <1>3, QuietReader
<1>5. ObjectInv'
  BY <1>0, <1>1, <1>3, QuietObject
<1>6. PartsInv'
  <2>1. CASE UNCHANGED <<uploads, acked>>
    BY <1>0, <1>1, <1>3, <2>1, QuietParts
  <2>2. CASE Stored(p) /\ acked' \in {acked, acked \cup {p}}
    <3>1. id \in Ids /\ DOMAIN uploads[id] = Parts
      BY <1>0, <1>1, <1>2, AttemptFacts DEF IdsInv, PartsInv
    <3>2. uploads' = [uploads EXCEPT ![id] = [uploads[id] EXCEPT ![p] = SourcePart(source, p)]]
      BY <1>0, <1>1, <2>2, PartIsSourcePart DEF Stored
    <3>3. uploads'[id'] = [uploads[id] EXCEPT ![p] = SourcePart(source, p)]
      BY <1>0, <1>1, <3>1, <3>2 DEF IdsInv
    <3>4. /\ uploads'[id'] = [q \in Parts |-> uploads'[id'][q]]
          /\ uploads'[id'][p] = SourcePart(source, p)
          /\ \A q \in Parts \ {p} : uploads'[id'][q] = uploads[id][q]
      BY <3>1, <3>3
    <3>5. uploads'[id'] # NoUpload
      <4>1. SourcePart(source, p) # <<0>>
        BY <1>0, ReaderFacts, SourcePartNotMark
      <4>2. NoUpload[p] = <<0>>
        BY DEF NoUpload
      <4> QED BY <3>4, <4>1, <4>2
    <3>6. \A q : Queued(q)' <=> Queued(q)
      BY <1>1 DEF Queued
    <3>7. \A q \in Parts : SourcePart(source, q)' = SourcePart(source, q)
      BY <1>1 DEF SourcePart
    <3>8. \A q \in Parts : /\ uploads'[id'][q] \in {<<>>, SourcePart(source, q)}
                           /\ ~Queued(q) => uploads'[id'][q] = <<>>
                           /\ q \in acked' => uploads'[id'][q] = SourcePart(source, q)
      BY <1>0, <1>1, <1>2, <2>2, <3>4 DEF PartsInv
    <3>9. acked' \subseteq Parts
      BY <1>0, <2>2 DEF PartsInv
    <3> QED BY <1>1, <1>3, <3>4, <3>5, <3>6, <3>7, <3>8, <3>9 DEF PartsInv, InProgress
  <2>3. \/ UNCHANGED <<uploads, acked>>
        \/ Stored(p) /\ acked' \in {acked, acked \cup {p}}
    BY DEF PartOk, PartFails
  <2> QED BY <2>1, <2>2, <2>3
<1> QED BY <1>4, <1>5, <1>6

(* What is completed is the source cut into parts, and so the whole of it. *)
LEMMA CompletedIsWhole ==
  ASSUME TransferInv, pc = "complete", uploads[id] # NoUpload
  PROVE  FlattenSeq(uploads[id]) = Whole
<1>0. IdsInv /\ ReaderInv /\ PartsInv
  BY DEF TransferInv
<1>1. eof /\ InProgress /\ \A p \in Parts : Queued(p) => p \in acked
  BY <1>0 DEF IdsInv, PartsInv, InProgress
<1>2. \A p \in Parts : uploads[id][p] = SourcePart(source, p)
  BY <1>0, <1>1, NoSourcePart DEF PartsInv
<1>3. uploads[id] = [p \in Parts |-> uploads[id][p]]
  BY <1>0, <1>1 DEF PartsInv
<1>4. uploads[id] = [p \in Parts |-> SourcePart(source, p)]
  BY <1>2, <1>3
<1>5. source \in 0..MaxSource
  BY <1>0 DEF ReaderInv
<1> QED BY <1>4, <1>5, PartsPutTogether DEF PartsMakeWhole, Whole

(* A completion stores the whole source or finds no upload. *)
LEMMA TransferComplete ==
  ASSUME TransferInv, CompleteOk \/ CompleteFails
  PROVE  ReaderInv' /\ PartsInv' /\ ObjectInv'
<1>0. IdsInv /\ ReaderInv /\ PartsInv /\ ObjectInv
  BY DEF TransferInv
<1>1. /\ UNCHANGED <<reader, source, size, got, eof, acked, id>>
      /\ pc = "complete" /\ id # NoId
  BY <1>0 DEF CompleteOk, CompleteFails, reader, IdsInv
<1>2. fault # "toolarge" /\ size = source /\ source <= Maximum
  BY <1>0, <1>1, ReaderFacts DEF ReaderInv, PartsInv
<1>3. \/ UNCHANGED <<object, uploads>>
      \/ object' = Whole /\ uploads' = [uploads EXCEPT ![id] = NoUpload]
  BY <1>1, CompletedIsWhole DEF CompleteOk, CompleteFails, Completed
<1>4. /\ pc' \in {"complete", "abort", "done"}
      /\ fault' = fault \/ fault' = "backend"
      /\ \/ res' = res
         \/ res' \notin {"ok", "toolarge"}
         \/ res' = "ok" /\ object' = Whole
  <2>1. CASE CompleteOk
    <3>1. CASE uploads[id] # NoUpload
      BY <1>1, <2>1, <3>1, CompletedIsWhole DEF CompleteOk, Completed, Succeeds
    <3>2. CASE uploads[id] = NoUpload
      BY <2>1, <3>2, FailsTells DEF CompleteOk
    <3> QED BY <3>1, <3>2
  <2>2. CASE CompleteFails
    BY <1>1, <2>2, AgainTells DEF CompleteFails
  <2> QED BY <2>1, <2>2
<1>5. ReaderInv'
  BY <1>0, <1>1, <1>2, <1>4, QuietReader
<1>6. PartsInv'
  BY <1>0, <1>1, <1>3, <1>4, QuietParts
<1>7. ObjectInv'
  BY <1>0, <1>1, <1>2, <1>3, <1>4, QuietObject
<1> QED BY <1>5, <1>6, <1>7

(* An abort drops the upload and stores nothing. *)
LEMMA TransferAbort ==
  ASSUME TransferInv, AbortOk \/ AbortFails
  PROVE  ReaderInv' /\ PartsInv' /\ ObjectInv'
<1>0. IdsInv /\ ReaderInv /\ PartsInv /\ ObjectInv
  BY DEF TransferInv
<1>1. /\ UNCHANGED <<reader, source, size, got, eof, acked, id, fault, object>>
      /\ pc = "abort" /\ id # NoId
  BY <1>0 DEF AbortOk, AbortFails, reader, IdsInv
<1>2. UNCHANGED uploads \/ uploads' = [uploads EXCEPT ![id] = NoUpload]
  BY DEF AbortOk, AbortFails
<1>3. /\ pc' \in {"abort", "done"}
      /\ res' = res \/ (res' # "ok" /\ (res' = "toolarge" => fault = "toolarge"))
  BY <1>1, OutcomeNames DEF AbortOk, AbortFails
<1>4. ReaderInv'
  BY <1>0, <1>1, <1>3, QuietReader
<1>5. PartsInv'
  BY <1>0, <1>1, <1>2, <1>3, QuietParts
<1>6. ObjectInv'
  BY <1>0, <1>1, <1>3, QuietObject
<1> QED BY <1>4, <1>5, <1>6

(* Every step of Next keeps the transfer right. *)
LEMMA TransferNext ==
  TransferInv /\ LeftInv /\ [Next]_vars => TransferInv'
<1> SUFFICES ASSUME TransferInv, LeftInv, [Next]_vars PROVE TransferInv'
  OBVIOUS
<1>1. IdsInv'
  BY UploadsNext DEF TransferInv
<1>2. ReaderInv' /\ PartsInv' /\ ObjectInv'
  <2>1. CASE ReadStep
    BY <2>1, TransferRead, TransferProbe DEF ReadStep
  <2>2. CASE SourceFails \/ Expire
    BY <2>2, TransferProbe, TransferChoose
  <2>3. CASE ManagerStep
    BY <2>3, TransferChoose, TransferPut, TransferCreate, TransferPart, TransferComplete,
       TransferAbort DEF ManagerStep
  <2>4. CASE UNCHANGED vars
    <3>1. /\ UNCHANGED <<reader, pc, acked, id, fault, res, uploads, object>>
          /\ UNCHANGED <<source, size, got, eof>>
      BY <2>4 DEF vars, reader, service
    <3>2. IdsInv /\ ReaderInv /\ PartsInv /\ ObjectInv
      BY DEF TransferInv
    <3>3. ReaderInv'
      BY <3>1, <3>2, QuietReader DEF ReaderInv
    <3>4. PartsInv'
      BY <3>1, <3>2, QuietParts
    <3>5. ObjectInv'
      BY <3>1, <3>2, QuietObject
    <3> QED BY <3>3, <3>4, <3>5
  <2> QED BY <2>1, <2>2, <2>3, <2>4 DEF Next
<1> QED BY <1>1, <1>2 DEF TransferInv

(* The reader, the parts and the object are right in every reachable state. *)
LEMMA TransferAlways == Spec => []TransferInv
<1>1. Init => LeftInv /\ TransferInv
  BY UploadsInit, TransferInit
<1>2. (LeftInv /\ TransferInv) /\ [Next]_vars => (LeftInv /\ TransferInv)'
  BY UploadsNext, TransferNext DEF TransferInv
<1> QED BY <1>1, <1>2, PTL DEF Spec

(***************************************************************************)
(* A payload object is never visible in part, for every size of source,    *)
(* part and maximum and every failure of the parts: it is the whole source *)
(* in order and within the accounted maximum.                              *)
(***************************************************************************)
THEOREM ObjectAlwaysWhole == Spec => []ObjectWhole
<1>1. TransferInv => ObjectWhole
  BY DEF TransferInv, ObjectInv, ObjectWhole
<1> QED BY <1>1, TransferAlways, PTL

(***************************************************************************)
(* What Put is told of an upload is true: on success the object is stored  *)
(* and was accounted in full; "too large" means that the source exceeds    *)
(* the maximum, never reaches it exactly, and that nothing is visible.     *)
(***************************************************************************)
THEOREM OutcomeAlwaysTrue == Spec => []OutcomeTrue
<1>1. TransferInv => OutcomeTrue
  BY DEF TransferInv, ReaderInv, ObjectInv, OutcomeTrue
<1> QED BY <1>1, TransferAlways, PTL

-----------------------------------------------------------------------------
(* What the invariants above do not say of the types. *)
CountersTyped ==
  /\ taken \in 0..source /\ eof \in BOOLEAN
  /\ ptries \in [Parts -> 0..(MaxAttempts - 1)]
  /\ res \in {"none", "ok", "toolarge", "ctx", "backend", "integrity"}

(* Every step keeps the types of the counters and of the result. *)
LEMMA CountersNext ==
  TransferInv /\ CountersTyped /\ [Next]_vars => CountersTyped'
<1> SUFFICES ASSUME TransferInv, CountersTyped, [Next]_vars PROVE CountersTyped'
  OBVIOUS
<1> DEFINE Results == {"none", "ok", "toolarge", "ctx", "backend", "integrity"}
<1>0. ReaderInv
  BY DEF TransferInv
<1>1. ASSUME NEW f PROVE Outcome(f) \in Results
  BY DEF Outcome
<1>2. ASSUME NEW f, Fails(f) PROVE res' \in Results
  BY <1>1, <1>2 DEF Fails, CountersTyped
<1>3. Again \/ Succeeds => res' \in Results
  BY <1>2 DEF Again, Succeeds, CountersTyped
<1>4. res' \in Results
  <2>1. CASE ReadStep \/ SourceFails \/ Expire
    BY <1>2, <2>1 DEF ReadStep, ReadBytes, ReadEof, Probe, SourceFails, Expire, CountersTyped
  <2>2. CASE Choose \/ Finish \/ CreateOk
    BY <2>2 DEF Choose, Finish, CreateOk, CountersTyped
  <2>3. CASE PutOk \/ PutFails \/ CreateFails \/ CompleteOk \/ CompleteFails
    BY <1>2, <1>3, <2>3 DEF PutOk, PutFails, CreateFails, CompleteOk, CompleteFails
  <2>4. CASE AbortOk \/ AbortFails
    BY <1>1, <2>4 DEF AbortOk, AbortFails, CountersTyped
  <2>5. CASE \E p \in Parts : PartOk(p) \/ PartFails(p)
    BY <1>2, <2>5 DEF PartOk, PartFails, CountersTyped
  <2>6. CASE UNCHANGED vars
    BY <2>6 DEF vars, CountersTyped
  <2> QED BY <2>1, <2>2, <2>3, <2>4, <2>5, <2>6 DEF Next, ManagerStep
<1>5. ptries' \in [Parts -> 0..(MaxAttempts - 1)]
  <2>1. CASE \E p \in Parts : PartFails(p)
    <3>1. PICK p \in Parts : \/ ptries' = ptries
                             \/ /\ ptries[p] + 1 < MaxAttempts
                                /\ ptries' = [ptries EXCEPT ![p] = ptries[p] + 1]
      BY <2>1 DEF PartFails
    <3>2. ptries[p] + 1 < MaxAttempts => ptries[p] + 1 \in 0..(MaxAttempts - 1)
      BY AttemptFacts DEF CountersTyped
    <3> QED BY <3>1, <3>2 DEF CountersTyped
  <2>2. CASE ~\E p \in Parts : PartFails(p)
    <3>1. ptries' = ptries
      BY <2>2 DEF Next, ReadStep, ManagerStep, ReadBytes, ReadEof, Probe, SourceFails, Expire,
         Choose, PutOk, PutFails, CreateOk, CreateFails, PartOk, Finish, CompleteOk,
         CompleteFails, AbortOk, AbortFails, vars
    <3> QED BY <3>1 DEF CountersTyped
  <2> QED BY <2>1, <2>2
<1>6. taken' \in 0..source' /\ eof' \in BOOLEAN
  <2>1. CASE ReadBytes
    <3>1. source' = source
      BY <2>1 DEF ReadBytes
    <3>2. taken' \in 0..source'
      BY <1>0, <2>1, <3>1, ReadTakes, ReaderFacts
    <3>3. eof' \in BOOLEAN
      BY <2>1, Zenon DEF ReadBytes
    <3> QED BY <3>2, <3>3
  <2>2. CASE ReadEof \/ Probe
    <3>1. source' = source /\ (taken' = taken \/ (taken' = taken + 1 /\ taken < source))
      BY <2>2 DEF ReadEof, Probe
    <3>2. taken' \in 0..source'
      BY <1>0, <3>1, ReaderFacts DEF CountersTyped
    <3>3. eof' = TRUE \/ eof' = eof
      BY <2>2, Zenon DEF ReadEof, Probe
    <3> QED BY <3>2, <3>3, Zenon DEF CountersTyped
  <2>3. CASE SourceFails \/ ManagerStep \/ Expire \/ UNCHANGED vars
    <3>1. UNCHANGED <<source, taken, eof>>
      BY <2>3 DEF ManagerStep, SourceFails, Expire,
         Choose, PutOk, PutFails, CreateOk, CreateFails, PartOk, PartFails, Finish, CompleteOk,
         CompleteFails, AbortOk, AbortFails, vars, reader
    <3> QED BY <3>1 DEF CountersTyped
  <2> QED BY <2>1, <2>2, <2>3 DEF Next, ReadStep
<1> QED BY <1>4, <1>5, <1>6 DEF CountersTyped

(* The types of an upload's state: the counters of attempts stay below the *)
(* maximum and upload ids below the one of another process.                *)
THEOREM UploadTypeCorrect == Spec => []TypeOK
<1>1. Init => CountersTyped
  <2> SUFFICES ASSUME Init PROVE CountersTyped
    OBVIOUS
  <2>1. source \in Nat /\ taken = 0 /\ eof = FALSE /\ res = "none"
    BY SizeFacts DEF Init
  <2>2. 0 \in 0..(MaxAttempts - 1)
    BY AttemptFacts
  <2>3. ptries \in [Parts -> 0..(MaxAttempts - 1)]
    BY <2>2 DEF Init
  <2>4. taken \in 0..source
    BY <2>1
  <2>5. eof \in BOOLEAN
    BY <2>1, Zenon
  <2> QED BY <2>1, <2>3, <2>4, <2>5, Zenon DEF CountersTyped
<1>2. TransferInv /\ CountersTyped => TypeOK
  <2> SUFFICES ASSUME TransferInv, CountersTyped PROVE TypeOK
    OBVIOUS
  <2>1. got \in Seq(1..MaxSource)
    <3>1. size \in Nat /\ size <= MaxSource /\ got = [i \in 1..size |-> i]
      BY SizeFacts DEF TransferInv, ReaderInv
    <3>2. \A i \in 1..size : i \in 1..MaxSource
      BY <3>1, SizeFacts
    <3> QED BY <3>1, <3>2
  <2>2. id \in {NoId} \cup Ids
    BY AttemptFacts DEF TransferInv, IdsInv
  <2> QED BY <2>1, <2>2 DEF TransferInv, IdsInv, ReaderInv, PartsInv, CountersTyped, TypeOK
<1> QED BY <1>1, <1>2, CountersNext, TransferAlways, PTL DEF Spec

=============================================================================
