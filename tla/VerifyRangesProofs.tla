------------------------ MODULE VerifyRangesProofs ------------------------
(***************************************************************************)
(* verifyPayload accepts only the payload that was sent, for every payload *)
(* size and every size of a range.                                         *)
(***************************************************************************)
EXTENDS VerifyRanges, TLAPS

(***************************************************************************)
(* What holds between two requests: the bytes below offset were asked for, *)
(* hashed, and none of them was wrong if the hasher is still clean.        *)
(***************************************************************************)
Reading ==
  /\ length = size
  /\ offset < size
  /\ asked = 0..(offset - 1)
  /\ hashed = offset
  /\ clean => wrong \cap (0..(offset - 1)) = {}

RangeInv ==
  /\ TypeOK
  /\ pc = "head" => offset = 0 /\ hashed = 0 /\ clean /\ asked = {}
  /\ pc = "range" => Reading
  /\ pc # "done" => res = "none"
  /\ asked \subseteq 0..(size - 1)
  /\ res = "ok" => /\ length = size
                   /\ wrong \cap (0..(size - 1)) = {}
                   /\ asked = 0..(size - 1)

(***************************************************************************)
(* A range starts where the last one ended, stays inside the payload, and  *)
(* is not empty; the loop goes on exactly while bytes are left.            *)
(***************************************************************************)
LEMMA RangeBounds ==
  ASSUME TypeOK, offset < size
  PROVE  /\ End \in Nat /\ Expected \in Nat
         /\ offset <= End /\ End <= size - 1 /\ End <= offset + RangeBytes - 1
         /\ Expected = End - offset + 1
         /\ (offset + RangeBytes < size) => End = offset + RangeBytes - 1
         /\ ~(offset + RangeBytes < size) => End = size - 1
BY RangeAssumption DEF TypeOK, End, Least, Expected

(***************************************************************************)
(* Asking for one more range extends the bytes asked for to its last byte. *)
(***************************************************************************)
LEMMA AskedExtends ==
  ASSUME NEW o \in Nat, NEW l \in Nat, o <= l
  PROVE  (0..(o - 1)) \cup (o..l) = 0..l
OBVIOUS

(* Before the HEAD nothing was asked for. *)
LEMMA InitRange == Init => RangeInv
BY RangeAssumption DEF Init, RangeInv, TypeOK, Results

(***************************************************************************)
(* The step over one range, its bytes right (ok) or not.                   *)
(***************************************************************************)
LEMMA RangeStep ==
  ASSUME RangeInv, pc = "range", NEW ok \in BOOLEAN,
         ok => (clean /\ (offset..End) \cap wrong = {}),
         asked' = asked \cup (offset..End),
         offset' = offset + RangeBytes,
         hashed' = hashed + Expected,
         clean' = ok,
         Continue(offset + RangeBytes, hashed + Expected, ok),
         UNCHANGED object
  PROVE  RangeInv'
<1>1. Reading /\ TypeOK /\ res = "none" /\ UNCHANGED <<size, length, wrong>>
  BY DEF RangeInv, object
<1>2. /\ End \in Nat /\ Expected \in Nat
      /\ offset <= End /\ End <= size - 1 /\ Expected = End - offset + 1
      /\ (offset + RangeBytes < size) => End = offset + RangeBytes - 1
      /\ ~(offset + RangeBytes < size) => End = size - 1
  BY <1>1, RangeBounds DEF Reading
<1>3. offset \in Nat /\ size \in Nat /\ length \in Nat /\ hashed \in Nat /\ RangeBytes \in Nat \ {0}
  BY <1>1, RangeAssumption DEF TypeOK
<1>4. asked' = 0..End
  BY <1>1, <1>2, <1>3, AskedExtends DEF Reading
<1>5. ok => wrong \cap (0..End) = {}
  BY <1>1, <1>2, <1>3, AskedExtends DEF Reading
<1>6. hashed' = End + 1
  BY <1>1, <1>2, <1>3 DEF Reading
<1>7. CASE offset + RangeBytes < size
  <2>1. pc' = "range" /\ res' = "none"
    BY <1>1, <1>7 DEF Continue
  <2>2. End = offset' - 1 /\ hashed' = offset' /\ offset' < size'
    BY <1>1, <1>2, <1>3, <1>6, <1>7
  <2>3. Reading'
    BY <1>1, <1>4, <1>5, <2>2 DEF Reading
  <2>4. TypeOK'
    BY <1>1, <1>2, <1>3, <1>4, <1>6, <2>1 DEF TypeOK, Results
  <2>5. asked' \subseteq 0..(size' - 1)
    BY <1>1, <1>2, <1>3, <1>4
  <2> QED BY <2>1, <2>3, <2>4, <2>5 DEF RangeInv
<1>8. CASE ~(offset + RangeBytes < size)
  <2>1. pc' = "done" /\ res' = (IF ok /\ hashed + Expected = size THEN "ok" ELSE "integrity")
    BY <1>8 DEF Continue, Ends
  <2>2. asked' = 0..(size' - 1)
    BY <1>1, <1>2, <1>4, <1>8
  <2>3. res' = "ok" => wrong' \cap (0..(size' - 1)) = {}
    BY <1>1, <1>2, <1>5, <1>8, <2>1
  <2>4. TypeOK'
    BY <1>1, <1>2, <1>3, <1>4, <1>6, <2>1 DEF TypeOK, Results
  <2>5. length' = size'
    BY <1>1 DEF Reading
  <2> QED BY <2>1, <2>2, <2>3, <2>4, <2>5 DEF RangeInv
<1> QED BY <1>7, <1>8

(***************************************************************************)
(* Every step of verifyPayload preserves the invariant.                    *)
(***************************************************************************)
LEMMA NextRange == RangeInv /\ [Next]_vars => RangeInv'
<1> SUFFICES ASSUME RangeInv, [Next]_vars PROVE RangeInv'
  OBVIOUS
<1>1. CASE HeadLength
  <2>1. UNCHANGED <<size, length, wrong, offset, hashed, clean, asked>> /\ pc = "head"
    BY <1>1 DEF HeadLength, object
  <2>2. /\ TypeOK /\ offset = 0 /\ hashed = 0 /\ clean /\ asked = {} /\ res = "none"
    BY <2>1 DEF RangeInv
  <2>3. CASE length = size /\ 0 < size
    <3>1. pc' = "range" /\ res' = "none"
      BY <1>1, <2>2, <2>3 DEF HeadLength, Continue
    <3>2. Reading'
      BY <2>1, <2>2, <2>3 DEF Reading, TypeOK
    <3> QED BY <2>1, <2>2, <3>1, <3>2 DEF RangeInv, TypeOK, Results
  <2>4. CASE length = size /\ ~(0 < size)
    <3>1. pc' = "done" /\ size = 0
      BY <1>1, <2>2, <2>4 DEF HeadLength, Continue, Ends, TypeOK
    <3>2. res' \in Results
      BY <1>1, <2>4 DEF HeadLength, Continue, Ends, Results
    <3>3. 0..(size - 1) = {}
      BY <3>1
    <3> QED BY <2>1, <2>2, <2>4, <3>1, <3>2, <3>3 DEF RangeInv, TypeOK
  <2>5. CASE length # size
    <3>1. pc' = "done" /\ res' = "integrity"
      BY <1>1, <2>5 DEF HeadLength, Ends
    <3> QED BY <2>1, <2>2, <3>1 DEF RangeInv, TypeOK, Results
  <2> QED BY <2>3, <2>4, <2>5
<1>2. CASE RangeOk
  <2> DEFINE ok == clean /\ hashed = offset /\ (offset..End) \cap wrong = {}
  <2>1. ok \in BOOLEAN /\ (ok => clean /\ (offset..End) \cap wrong = {})
    BY DEF RangeInv, TypeOK
  <2>2. /\ pc = "range" /\ asked' = asked \cup (offset..End)
        /\ offset' = offset + RangeBytes /\ hashed' = hashed + Expected
        /\ clean' = ok /\ Continue(offset + RangeBytes, hashed + Expected, ok)
        /\ UNCHANGED object
    BY <1>2 DEF RangeOk
  <2> HIDE DEF ok
  <2> QED BY <2>1, <2>2, RangeStep
<1>3. CASE RangeGarbled
  BY <1>3, RangeStep DEF RangeGarbled
<1>4. CASE RangeMisframed
  <2>1. /\ pc = "range" /\ pc' = "done" /\ res' = "integrity" /\ asked' = asked \cup (offset..End)
        /\ UNCHANGED <<size, length, wrong, offset, hashed, clean>>
    BY <1>4 DEF RangeMisframed, Ends, object
  <2>2. TypeOK /\ Reading
    BY <2>1 DEF RangeInv
  <2>3. End \in Nat /\ End <= size - 1 /\ offset \in Nat /\ size \in Nat /\ offset <= End
    BY <2>2, RangeBounds DEF Reading, TypeOK
  <2>4. asked' = 0..End
    BY <2>1, <2>2, <2>3, AskedExtends DEF Reading
  <2>5. asked' \subseteq Nat /\ asked' \subseteq 0..(size' - 1)
    BY <2>1, <2>3, <2>4
  <2> QED BY <2>1, <2>2, <2>5 DEF RangeInv, TypeOK, Results
<1>5. CASE Refused
  <2>1. /\ pc' = "done" /\ res' \in {"backend", "ctx"}
        /\ UNCHANGED <<size, length, wrong, offset, hashed, clean, asked>>
    BY <1>5 DEF Refused, Ends, object
  <2> QED BY <2>1 DEF RangeInv, TypeOK, Results
<1>6. CASE UNCHANGED vars
  BY <1>6 DEF vars, RangeInv, TypeOK, Reading
<1> QED BY <1>1, <1>2, <1>3, <1>4, <1>5, <1>6 DEF Next

(***************************************************************************)
(* The invariant holds throughout verifyPayload.                           *)
(***************************************************************************)
THEOREM RangesInvariant == Spec => []RangeInv
<1>1. Init => RangeInv
  BY InitRange
<1>2. RangeInv /\ [Next]_vars => RangeInv'
  BY NextRange
<1> QED BY <1>1, <1>2, PTL DEF Spec

(***************************************************************************)
(* verifyPayload returns nil only for an object of the accounted size all  *)
(* of whose bytes are the ones sent.                                       *)
(***************************************************************************)
THEOREM OnlyExactAccepted == Spec => []AcceptedIsExact
<1>1. RangeInv => AcceptedIsExact
  BY DEF RangeInv, AcceptedIsExact
<1> QED BY <1>1, RangesInvariant, PTL

(***************************************************************************)
(* Its ranges tile the payload, whatever the two sizes are.                *)
(***************************************************************************)
THEOREM RangesTilePayload == Spec => []RangesTile
<1>1. RangeInv => RangesTile
  BY DEF RangeInv, RangesTile, Reading
<1> QED BY <1>1, RangesInvariant, PTL

(***************************************************************************)
(* An intact payload whose ranges arrive intact is never refused.          *)
(***************************************************************************)
THEOREM IntactAccepted == Spec => IntactNotAccused
<1> DEFINE Intact == /\ length = size /\ wrong \cap (0..(size - 1)) = {} /\ clean
                     /\ (HeadLength \/ RangeOk)
<1>1. ASSUME RangeInv, HeadLength, length = size PROVE res' \in {"none", "ok"}
  BY <1>1 DEF RangeInv, TypeOK, HeadLength, Continue, Ends
<1>2. ASSUME RangeInv, RangeOk, length = size, wrong \cap (0..(size - 1)) = {}, clean
      PROVE  res' \in {"none", "ok"}
  <2>1. pc = "range" /\ Reading /\ TypeOK /\ res = "none"
    BY <1>2 DEF RangeOk, RangeInv
  <2>2. /\ End \in Nat /\ Expected \in Nat /\ offset <= End /\ End <= size - 1
        /\ Expected = End - offset + 1
        /\ ~(offset + RangeBytes < size) => End = size - 1
    BY <2>1, RangeBounds DEF Reading
  <2>3. offset \in Nat /\ size \in Nat /\ hashed = offset
    BY <2>1 DEF TypeOK, Reading
  <2>4. (offset..End) \cap wrong = {}
    BY <1>2, <2>2, <2>3
  <2>5. ~(offset + RangeBytes < size) => hashed + Expected = size
    BY <2>2, <2>3
  <2> HIDE DEF RangeInv
  <2> QED BY <1>2, <2>1, <2>3, <2>4, <2>5 DEF RangeOk, Continue, Ends
<1>3. RangeInv /\ [Next]_vars => [Intact => res' \in {"none", "ok"}]_vars
  BY <1>1, <1>2
<1> QED BY <1>3, RangesInvariant, PTL DEF Spec, IntactNotAccused
=============================================================================
