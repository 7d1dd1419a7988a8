------------------------ MODULE ConfigurationProofs ------------------------
(***************************************************************************)
(* What Open accepts is kept, for every limit, every request and any       *)
(* number of callers: the encryption of stored objects, the accounted      *)
(* buffers of concurrent transfers and the lengths of keys.                *)
(***************************************************************************)
EXTENDS Configuration, SequenceTheorems, FiniteSetTheorems, WellFoundedInduction, TLAPS

-----------------------------------------------------------------------------
(* The smallest element of a set of numbers, and so Min of FiniteSetsExt. *)
LEMMA LeastNatural ==
  ASSUME NEW T \in SUBSET Nat, T # {}
  PROVE  \E m \in T : \A k \in T : m <= k
<1> DEFINE R == OpToRel(<, Nat)
<1>1. IsWellFoundedOn(R, Nat)
  BY NatLessThanWellFounded, Zenon
<1>2. \A x, y \in Nat : <<y, x>> \in R <=> y < x
  BY DEF OpToRel
<1> HIDE DEF R
<1>3. PICK m \in T : \A y \in T : ~(<<y, m>> \in R)
  BY <1>1, WFMin
<1>4. ASSUME NEW k \in T PROVE m <= k
  <2>1. ~(<<k, m>> \in R) /\ k \in Nat /\ m \in Nat
    BY <1>3
  <2>2. ~(k < m)
    BY <1>2, <2>1
  <2> QED BY <2>1, <2>2
<1> QED BY <1>4

(* Min picks an element of the set. *)
LEMMA MinIsElement ==
  ASSUME NEW T \in SUBSET Nat, T # {}
  PROVE  Min(T) \in T
<1>1. \E m \in T : \A k \in T : m <= k
  BY LeastNatural
<1> QED BY <1>1, Zenon DEF Min

-----------------------------------------------------------------------------
(* Options.resolve: a request without a refusal passed every check. *)

(* The checks, one after the other. *)
LEMMA ChecksInOrder ==
  ASSUME NEW o
  PROVE  /\ DOMAIN Checks(o) = 1..15
         /\ \A i \in 1..5 : Checks(o)[i] = IdentityChecks(o)[i]
         /\ \A i \in 1..3 : Checks(o)[5 + i] = PostureChecks(o)[i]
         /\ \A i \in 1..7 : Checks(o)[8 + i] = SizingChecks(o, Resolved(o))[i]
<1> DEFINE a == IdentityChecks(o)
<1> DEFINE b == PostureChecks(o)
<1> DEFINE c == SizingChecks(o, Resolved(o))
<1> DEFINE S == {a[i] : i \in 1..5} \cup {b[i] : i \in 1..3} \cup {c[i] : i \in 1..7}
<1>1. DOMAIN a = 1..5 /\ DOMAIN b = 1..3 /\ DOMAIN c = 1..7
  BY DEF IdentityChecks, PostureChecks, SizingChecks
<1>2. a = [i \in 1..5 |-> a[i]] /\ b = [i \in 1..3 |-> b[i]] /\ c = [i \in 1..7 |-> c[i]]
  BY DEF IdentityChecks, PostureChecks, SizingChecks
<1>3. Checks(o) = (a \o b) \o c
  BY Zenon DEF Checks
<1> HIDE DEF a, b, c
<1>4. a \in Seq(S) /\ b \in Seq(S) /\ c \in Seq(S) /\ Len(a) = 5 /\ Len(b) = 3 /\ Len(c) = 7
  BY <1>1, <1>2
<1> HIDE DEF S
<1>5. /\ a \o b \in Seq(S) /\ Len(a \o b) = Len(a) + Len(b)
      /\ \A i \in 1..(Len(a) + Len(b)) :
           (a \o b)[i] = IF i <= Len(a) THEN a[i] ELSE b[i - Len(a)]
  BY <1>4, ConcatProperties
<1> DEFINE ab == a \o b
<1>6. ab \in Seq(S) /\ Len(ab) = 8 /\ \A i \in 1..8 : ab[i] = IF i <= 5 THEN a[i] ELSE b[i - 5]
  BY <1>4, <1>5
<1> HIDE DEF ab
<1>7. /\ ab \o c \in Seq(S) /\ Len(ab \o c) = Len(ab) + Len(c)
      /\ \A i \in 1..(Len(ab) + Len(c)) :
           (ab \o c)[i] = IF i <= Len(ab) THEN ab[i] ELSE c[i - Len(ab)]
  BY <1>4, <1>6, ConcatProperties
<1> DEFINE d == ab \o c
<1>8. d \in Seq(S) /\ Len(d) = 15 /\ \A i \in 1..15 : d[i] = IF i <= 8 THEN ab[i] ELSE c[i - 8]
  <2>1. Len(ab) = 8 /\ Len(c) = 7 /\ Len(ab) + Len(c) = 15
    BY <1>4, <1>6
  <2> HIDE DEF d
  <2>2. /\ d \in Seq(S) /\ Len(d) = Len(ab) + Len(c)
        /\ \A i \in 1..(Len(ab) + Len(c)) :
             d[i] = IF i <= Len(ab) THEN ab[i] ELSE c[i - Len(ab)]
    BY <1>7 DEF d
  <2> QED BY <2>1, <2>2
<1> HIDE DEF d
<1>9. DOMAIN d = 1..15
  BY <1>8
<1>10. ASSUME NEW i \in 1..5 PROVE d[i] = a[i]
  <2>1. i \in 1..8 /\ i \in 1..15 /\ i <= 5 /\ i <= 8
    OBVIOUS
  <2> QED BY <1>6, <1>8, <2>1
<1>11. ASSUME NEW i \in 1..3 PROVE d[5 + i] = b[i]
  <2>1. 5 + i \in 1..8 /\ 5 + i \in 1..15 /\ ~(5 + i <= 5) /\ 5 + i <= 8 /\ (5 + i) - 5 = i
    OBVIOUS
  <2>2. d[5 + i] = ab[5 + i]
    BY <1>8, <2>1
  <2>3. ab[5 + i] = b[(5 + i) - 5]
    BY <1>6, <2>1
  <2> QED BY <2>1, <2>2, <2>3
<1>12. ASSUME NEW i \in 1..7 PROVE d[8 + i] = c[i]
  <2>1. 8 + i \in 1..15 /\ ~(8 + i <= 8) /\ (8 + i) - 8 = i
    OBVIOUS
  <2>2. d[8 + i] = c[(8 + i) - 8]
    BY <1>8, <2>1
  <2> QED BY <2>1, <2>2
<1>13. Checks(o) = d
  BY <1>3 DEF ab, d
<1>14. /\ \A i \in 1..5 : d[i] = a[i]
       /\ \A i \in 1..3 : d[5 + i] = b[i]
       /\ \A i \in 1..7 : d[8 + i] = c[i]
  BY <1>10, <1>11, <1>12
<1> QED BY <1>9, <1>13, <1>14 DEF a, b, c

(* No check has the name of an outcome. *)
LEMMA ChecksNamed ==
  ASSUME NEW o
  PROVE  \A i \in 1..15 : Checks(o)[i][1] \notin {"none", "open"}
<1>1. \A i \in 1..5 : IdentityChecks(o)[i][1] \notin {"none", "open"}
  BY DEF IdentityChecks
<1>2. \A i \in 1..3 : PostureChecks(o)[i][1] \notin {"none", "open"}
  BY DEF PostureChecks
<1>3. ASSUME NEW i \in 1..7 PROVE SizingChecks(o, Resolved(o))[i][1] \notin {"none", "open"}
  <2> DEFINE c == SizingChecks(o, Resolved(o))
  <2>1. /\ c[1][1] = "MultipartThreshold" /\ c[2][1] = "MultipartPartSize"
        /\ c[3][1] = "MultipartThreshold" /\ c[4][1] = "Concurrency"
        /\ c[5][1] = "MaxConcurrentTransfers" /\ c[6][1] = "DefaultOperationTimeout"
        /\ c[7][1] = "TransferMemoryBudget"
    BY DEF SizingChecks
  <2> HIDE DEF c
  <2>2. i = 1 \/ i = 2 \/ i = 3 \/ i = 4 \/ i = 5 \/ i = 6 \/ i = 7
    OBVIOUS
  <2>3. c[i][1] \notin {"none", "open"}
    BY <2>1, <2>2
  <2> QED BY <2>3 DEF c
<1>4. ASSUME NEW i \in 1..15 PROVE Checks(o)[i][1] \notin {"none", "open"}
  <2>1. CASE i \in 1..5
    BY <1>1, <2>1, ChecksInOrder
  <2>2. CASE i \in 6..8
    <3>1. i - 5 \in 1..3 /\ 5 + (i - 5) = i
      BY <2>2
    <3>2. Checks(o)[5 + (i - 5)] = PostureChecks(o)[i - 5]
      BY <3>1, ChecksInOrder
    <3> QED BY <1>2, <3>1, <3>2
  <2>3. CASE i \in 9..15
    <3>1. i - 8 \in 1..7 /\ 8 + (i - 8) = i
      BY <2>3
    <3>2. Checks(o)[8 + (i - 8)] = SizingChecks(o, Resolved(o))[i - 8]
      BY <3>1, ChecksInOrder
    <3> QED BY <1>3, <3>1, <3>2
  <2> QED BY <2>1, <2>2, <2>3
<1> QED BY <1>4

(* A refusal names the check that failed first. *)
LEMMA RefusalNames ==
  ASSUME NEW o, \E i \in DOMAIN Checks(o) : Checks(o)[i][2]
  PROVE  Refusal(o) \notin {"none", "open"}
<1> DEFINE failed == {i \in DOMAIN Checks(o) : Checks(o)[i][2]}
<1>1. failed # {}
  BY Zenon
<1>2. Refusal(o) = Checks(o)[Min(failed)][1]
  BY <1>1, Zenon DEF Refusal
<1>3. failed \in SUBSET Nat /\ failed \subseteq 1..15
  BY ChecksInOrder
<1> HIDE DEF failed
<1>4. Min(failed) \in 1..15
  BY <1>1, <1>3, MinIsElement
<1> QED BY <1>2, <1>4, ChecksNamed

(* A refusal is never reported as success. *)
LEMMA RefusalNotOpen ==
  ASSUME NEW o
  PROVE  Refusal(o) # "open"
<1>1. CASE \E i \in DOMAIN Checks(o) : Checks(o)[i][2]
  BY <1>1, RefusalNames
<1>2. CASE ~\E i \in DOMAIN Checks(o) : Checks(o)[i][2]
  <2>1. {i \in DOMAIN Checks(o) : Checks(o)[i][2]} = {}
    BY <1>2, Zenon
  <2>2. Refusal(o) = "none"
    BY <2>1, Zenon DEF Refusal
  <2> QED BY <2>2
<1> QED BY <1>1, <1>2

(* Without a refusal no check failed. *)
LEMMA NoneFailed ==
  ASSUME NEW o, Refusal(o) = "none"
  PROVE  /\ \A i \in 1..5 : ~IdentityChecks(o)[i][2]
         /\ \A i \in 1..3 : ~PostureChecks(o)[i][2]
         /\ \A i \in 1..7 : ~SizingChecks(o, Resolved(o))[i][2]
<1>1. ~\E i \in DOMAIN Checks(o) : Checks(o)[i][2]
  BY RefusalNames
<1>2. \A i \in 1..15 : ~Checks(o)[i][2]
  BY <1>1, ChecksInOrder, Zenon
<1>3. ASSUME NEW i \in 1..5 PROVE ~IdentityChecks(o)[i][2]
  <2>1. i \in 1..15
    OBVIOUS
  <2>2. Checks(o)[i] = IdentityChecks(o)[i]
    BY ChecksInOrder
  <2> QED BY <1>2, <2>1, <2>2, Zenon
<1>4. ASSUME NEW i \in 1..3 PROVE ~PostureChecks(o)[i][2]
  <2>1. 5 + i \in 1..15
    OBVIOUS
  <2>2. Checks(o)[5 + i] = PostureChecks(o)[i]
    BY ChecksInOrder
  <2> QED BY <1>2, <2>1, <2>2, Zenon
<1>5. ASSUME NEW i \in 1..7 PROVE ~SizingChecks(o, Resolved(o))[i][2]
  <2>1. 8 + i \in 1..15
    OBVIOUS
  <2>2. Checks(o)[8 + i] = SizingChecks(o, Resolved(o))[i]
    BY ChecksInOrder
  <2> QED BY <1>2, <2>1, <2>2, Zenon
<1> QED BY <1>3, <1>4, <1>5

(* What an accepted request is known to be. *)
LEMMA AcceptedPasses ==
  ASSUME NEW o, Refusal(o) = "none"
  PROVE  /\ ~PrefixRefused(o)
         /\ o.encryption \notin {"unspecified", "unknown"}
         /\ ~validateKMSKeyRefused(o) /\ ~PolicyRefused(o)
         /\ ~SizeRefused(o.threshold) /\ ~SizeRefused(o.partSize)
         /\ ~CountRefused(o.concurrency, DefaultConcurrency, MaxConcurrency)
         /\ ~CountRefused(o.transfers, DefaultTransfers, MaxTransfers)
         /\ ~BudgetRefused(Resolved(o))
<1>1. 4 \in 1..5 /\ 1 \in 1..3 /\ 2 \in 1..3 /\ 3 \in 1..3
      /\ 1 \in 1..7 /\ 2 \in 1..7 /\ 4 \in 1..7 /\ 5 \in 1..7 /\ 7 \in 1..7
  OBVIOUS
<1>2. ~IdentityChecks(o)[4][2]
  BY <1>1, NoneFailed, Zenon
<1>3. ~PostureChecks(o)[1][2] /\ ~PostureChecks(o)[2][2] /\ ~PostureChecks(o)[3][2]
  BY <1>1, NoneFailed, Zenon
<1> DEFINE c == SizingChecks(o, Resolved(o))
<1>4. ~c[1][2] /\ ~c[2][2] /\ ~c[4][2] /\ ~c[5][2] /\ ~c[7][2]
  BY <1>1, NoneFailed, Zenon
<1>5. IdentityChecks(o)[4][2] = PrefixRefused(o)
  BY DEF IdentityChecks
<1>6. /\ PostureChecks(o)[1][2] = (o.encryption \in {"unspecified", "unknown"})
      /\ PostureChecks(o)[2][2] = validateKMSKeyRefused(o)
      /\ PostureChecks(o)[3][2] = PolicyRefused(o)
  BY DEF PostureChecks
<1>7. /\ c[1][2] = SizeRefused(o.threshold)
      /\ c[2][2] = SizeRefused(o.partSize)
      /\ c[4][2] = CountRefused(o.concurrency, DefaultConcurrency, MaxConcurrency)
      /\ c[5][2] = CountRefused(o.transfers, DefaultTransfers, MaxTransfers)
      /\ c[7][2] = BudgetRefused(Resolved(o))
  BY DEF SizingChecks
<1> HIDE DEF c
<1>8. ~PrefixRefused(o)
  BY <1>2, <1>5, Zenon
<1>9. /\ o.encryption \notin {"unspecified", "unknown"}
      /\ ~validateKMSKeyRefused(o) /\ ~PolicyRefused(o)
  BY <1>3, <1>6, Zenon
<1>10. /\ ~SizeRefused(o.threshold) /\ ~SizeRefused(o.partSize)
       /\ ~CountRefused(o.concurrency, DefaultConcurrency, MaxConcurrency)
       /\ ~CountRefused(o.transfers, DefaultTransfers, MaxTransfers)
       /\ ~BudgetRefused(Resolved(o))
  BY <1>4, <1>7, Zenon
<1> QED BY <1>8, <1>9, <1>10

(* The limits are numbers. *)
LEMMA LimitFacts ==
  /\ MinMultipart \in Nat /\ MinMultipart >= 1 /\ MaxMultipart \in Nat
  /\ DefaultThreshold \in Nat /\ DefaultThreshold >= 1
  /\ DefaultPartSize \in Nat /\ DefaultPartSize >= 1
  /\ DefaultConcurrency \in Nat /\ DefaultConcurrency >= 1 /\ MaxConcurrency \in Nat
  /\ DefaultTransfers \in Nat /\ DefaultTransfers >= 1 /\ MaxTransfers \in Nat
  /\ MemoryBudget \in Nat /\ MaxUploadParts \in Nat /\ MaxUploadParts > 1
BY ConfigurationAssumption

(* What an accepted request resolves to. *)
LEMMA ResolvedSizes ==
  ASSUME NEW o \in Requests, Refusal(o) = "none", NEW r, r = Resolved(o)
  PROVE  /\ r.threshold \in Nat /\ r.partSize \in Nat /\ r.partSize >= 1
         /\ r.concurrency \in Nat /\ r.transfers \in Nat /\ r.transfers >= 1
         /\ r.maxObject = r.partSize * MaxUploadParts - 1
         /\ PerTransferMemory(r) * r.transfers <= MemoryBudget
         /\ PerTransferMemory(r) \in Nat
<1>1. /\ o.threshold \in Int /\ o.partSize \in Int
      /\ o.concurrency \in Int /\ o.transfers \in Int
  BY ConfigurationAssumption
<1>2. /\ r.threshold = OrDefault(o.threshold, DefaultThreshold)
      /\ r.partSize = OrDefault(o.partSize, DefaultPartSize)
      /\ r.concurrency = OrDefault(o.concurrency, DefaultConcurrency)
      /\ r.transfers = OrDefault(o.transfers, DefaultTransfers)
      /\ r.maxObject = r.partSize * MaxUploadParts - 1
  BY DEF Resolved, accountedObjectSize
<1>3. r.threshold \in Nat
  BY <1>1, <1>2, AcceptedPasses, LimitFacts DEF SizeRefused, OrDefault
<1>4. r.partSize \in Nat /\ r.partSize >= 1
  BY <1>1, <1>2, AcceptedPasses, LimitFacts DEF SizeRefused, OrDefault
<1>5. r.concurrency \in Nat
  BY <1>1, <1>2, AcceptedPasses, LimitFacts DEF CountRefused, OrDefault
<1>6. r.transfers \in Nat /\ r.transfers >= 1
  BY <1>1, <1>2, AcceptedPasses, LimitFacts DEF CountRefused, OrDefault
<1>7. PerTransferMemory(r) \in Nat
  <2>1. ASSUME NEW x \in Nat, NEW y \in Nat, NEW z \in Nat PROVE x + (y + 1) * z \in Nat
    OBVIOUS
  <2> QED BY <1>3, <1>4, <1>5, <2>1 DEF PerTransferMemory
<1>8. PerTransferMemory(r) * r.transfers \in Nat
  <2>1. ASSUME NEW x \in Nat, NEW y \in Nat PROVE x * y \in Nat
    OBVIOUS
  <2> QED BY <1>6, <1>7, <2>1
<1>9. PerTransferMemory(r) * r.transfers <= MemoryBudget
  <2>1. ~BudgetRefused(r)
    BY AcceptedPasses
  <2> QED BY <1>8, <2>1, LimitFacts DEF BudgetRefused
<1> QED BY <1>2, <1>3, <1>4, <1>5, <1>6, <1>7, <1>9

-----------------------------------------------------------------------------
(***************************************************************************)
(* The Store: nothing happens before Open has accepted the options it was  *)
(* given; then they are kept, the gate's capacity bounds the callers, no   *)
(* reader counts past the maximum, and what a running Put's input and the  *)
(* stored objects have of encryption is that of the resolved mode.         *)
(***************************************************************************)
OpenInv ==
  /\ asked \in Requests /\ store = Resolved(asked)
  /\ outcome = "open" => Refusal(asked) = "none"
  /\ outcome # "open" => objects = {}

Headers == applyEncryption(NoHeaders)

StoredInv ==
  /\ DOMAIN pc = Callers /\ DOMAIN input = Callers
  /\ \A c \in Callers : pc[c] # "idle" => input[c] = Headers
  /\ \A x \in objects : x.enc = StoredUnder(Headers)

GateInv ==
  /\ DOMAIN pc = Callers /\ size \in [Callers -> Nat]
  /\ IsFiniteSet(Running)
  /\ outcome # "open" => Running = {} /\ \A c \in Callers : size[c] = 0
  /\ outcome = "open" => /\ Cardinality(Running) <= store.transfers
                         /\ \A c \in Callers : size[c] <= store.maxObject

(* Before the first Open there is nothing to go wrong. *)
LEMMA ConfigInit == Init => OpenInv /\ StoredInv /\ GateInv
<1> SUFFICES ASSUME Init PROVE OpenInv /\ StoredInv /\ GateInv
  OBVIOUS
<1>1. Running = {}
  BY DEF Init, Running
<1> QED BY <1>1, FS_EmptySet DEF Init, OpenInv, StoredInv, GateInv

(* Open is called until it succeeds, with the same options. *)
LEMMA OpenReturns ==
  ASSUME OpenInv, Open
  PROVE  /\ outcome # "open" /\ UNCHANGED <<asked, pc, size, input, objects>> /\ store' = Resolved(asked)
         /\ outcome' = "open" => Refusal(asked) = "none"
BY RefusalNotOpen
   DEF Open, OpenRefused, OpenNilContext, OpenConfigFails, OpenOk, Returns

(* Nothing happens before Open has accepted its options. *)
LEMMA OpenNext == OpenInv /\ StoredInv /\ GateInv /\ [Next]_vars => OpenInv'
<1> SUFFICES ASSUME OpenInv, StoredInv, GateInv, [Next]_vars PROVE OpenInv'
  OBVIOUS
<1>1. CASE Open
  BY <1>1, OpenReturns DEF OpenInv
<1>2. CASE \E c \in Callers : Begin(c)
  BY <1>2 DEF Begin, UnchangedStore, OpenInv
<1>3. ASSUME NEW c \in Callers, pc[c] # "idle" PROVE outcome = "open"
  BY <1>3 DEF GateInv, Running
<1>4. ASSUME NEW c \in Callers, (\E n \in Landmarks : Reads(c, n)) \/ Uploaded(c)
                                  \/ Publishes(c) \/ Fails(c)
      PROVE  OpenInv'
  <2>1. pc[c] # "idle" /\ UNCHANGED <<asked, outcome, store>>
    BY <1>4 DEF Reads, Uploaded, Publishes, Fails, ToIdle, UnchangedStore
  <2> QED BY <1>3, <2>1 DEF OpenInv
<1>5. CASE UNCHANGED vars
  BY <1>5 DEF vars, OpenInv
<1> QED BY <1>1, <1>2, <1>4, <1>5 DEF Next

(* The two functions set the same headers in their two inputs. *)
LEMMA SameHeaders == applyTransferEncryption(NoHeaders) = Headers
BY Zenon DEF applyTransferEncryption, applyEncryption, Headers

(* An object is stored under the headers of the resolved mode. *)
LEMMA StoredNext == OpenInv /\ StoredInv /\ [Next]_vars => StoredInv'
<1> SUFFICES ASSUME OpenInv, StoredInv, [Next]_vars PROVE StoredInv'
  OBVIOUS
<1>1. ASSUME store' = store
      PROVE  Headers' = Headers /\ StoredUnder(Headers)' = StoredUnder(Headers)
  BY <1>1, Zenon DEF Headers, applyEncryption, StoredUnder
<1> HIDE DEF Headers
<1>2. CASE Open
  <2>1. UNCHANGED <<pc, input, objects>> /\ store' = store
    BY <1>2, OpenReturns DEF OpenInv
  <2> QED BY <1>1, <2>1 DEF StoredInv
<1>3. ASSUME NEW c \in Callers, Begin(c) PROVE StoredInv'
  <2>1. /\ pc' = [pc EXCEPT ![c] = "reading"] /\ input' = [input EXCEPT ![c] = Headers]
        /\ objects' = objects /\ store' = store
    BY <1>3, SameHeaders DEF Begin, UnchangedStore
  <2> QED BY <1>1, <2>1 DEF StoredInv
<1>4. ASSUME NEW c \in Callers, NEW n \in Landmarks, Reads(c, n) PROVE StoredInv'
  <2>1. /\ pc[c] # "idle" /\ \E to : pc' = [pc EXCEPT ![c] = to]
        /\ input' = input /\ objects' = objects /\ store' = store
    BY <1>4 DEF Reads, UnchangedStore
  <2> QED BY <1>1, <2>1 DEF StoredInv
<1>5. ASSUME NEW c \in Callers, Uploaded(c) PROVE StoredInv'
  <2>1. /\ pc[c] # "idle" /\ pc' = [pc EXCEPT ![c] = "manifest"]
        /\ input' = input /\ store' = store
        /\ \E how : objects' = objects \cup {[how |-> how, enc |-> StoredUnder(input[c])]}
    BY <1>5 DEF Uploaded, UnchangedStore, Stores
  <2>2. StoredUnder(input[c]) = StoredUnder(Headers)
    BY <2>1 DEF StoredInv
  <2> QED BY <1>1, <2>1, <2>2 DEF StoredInv
<1>6. ASSUME NEW c \in Callers, Publishes(c) \/ Fails(c) PROVE StoredInv'
  <2>1. /\ pc' = [pc EXCEPT ![c] = "idle"] /\ input' = input /\ store' = store
        /\ \/ objects' = objects
           \/ \E how : objects' = objects \cup {[how |-> how, enc |-> StoredUnder(Headers)]}
    BY <1>6 DEF Publishes, Fails, ToIdle, UnchangedStore, Stores, Headers
  <2> QED BY <1>1, <2>1 DEF StoredInv
<1>7. CASE UNCHANGED vars
  <2>1. UNCHANGED <<pc, input, objects, store>>
    BY <1>7 DEF vars
  <2> QED BY <1>1, <2>1 DEF StoredInv
<1> QED BY <1>2, <1>3, <1>4, <1>5, <1>6, <1>7 DEF Next

(* The maximum is a number. *)
LEMMA StoreSizes ==
  ASSUME OpenInv, Refusal(asked) = "none"
  PROVE  /\ store.threshold \in Nat /\ store.partSize \in Nat /\ store.partSize >= 1
         /\ store.transfers \in Nat /\ store.transfers >= 1
         /\ store.maxObject = store.partSize * MaxUploadParts - 1
         /\ store.maxObject \in Nat
<1>1. asked \in Requests /\ store = Resolved(asked)
  BY DEF OpenInv
<1>2. /\ store.threshold \in Nat /\ store.partSize \in Nat /\ store.partSize >= 1
      /\ store.transfers \in Nat /\ store.transfers >= 1
      /\ store.maxObject = store.partSize * MaxUploadParts - 1
  BY <1>1, ResolvedSizes
<1>3. ASSUME NEW x \in Nat, NEW y \in Nat, x >= 1, y > 1 PROVE x * y - 1 \in Nat
  <2>1. PICK z \in Nat : x = z + 1
    <3>1. x - 1 \in Nat /\ x = (x - 1) + 1
      BY <1>3
    <3> QED BY <3>1
  <2>2. (z + 1) * y = z * y + y /\ z * y \in Nat
    OBVIOUS
  <2> QED BY <1>3, <2>1, <2>2
<1> QED BY <1>2, <1>3, LimitFacts

(* The gate's capacity bounds the callers, and the maximum their readers. *)
LEMMA GateNext == OpenInv /\ GateInv /\ [Next]_vars => GateInv'
<1> SUFFICES ASSUME OpenInv, GateInv, [Next]_vars PROVE GateInv'
  OBVIOUS
<1>1. CASE Open
  <2>1. /\ outcome # "open" /\ UNCHANGED <<pc, size>> /\ store' = store
        /\ outcome' = "open" => Refusal(asked) = "none"
    BY <1>1, OpenReturns DEF OpenInv
  <2>2. Running' = {} /\ IsFiniteSet({}) /\ Cardinality({}) = 0
    BY <2>1, FS_EmptySet DEF GateInv, Running
  <2>3. outcome' = "open" => 0 <= store.transfers /\ 0 <= store.maxObject
    BY <2>1, StoreSizes
  <2> QED BY <2>1, <2>2, <2>3 DEF GateInv
<1>2. ASSUME NEW c \in Callers, Begin(c) PROVE GateInv'
  <2>1. /\ outcome = "open" /\ pc[c] = "idle" /\ Cardinality(Running) < store.transfers
        /\ pc' = [pc EXCEPT ![c] = "reading"] /\ size' = [size EXCEPT ![c] = 0]
        /\ UNCHANGED <<outcome, store>>
    BY <1>2 DEF Begin, UnchangedStore
  <2>2. Running' = Running \cup {c} /\ c \notin Running
    BY <2>1 DEF GateInv, Running
  <2>3. /\ IsFiniteSet(Running \cup {c}) /\ Cardinality(Running) \in Nat
        /\ Cardinality(Running \cup {c}) = Cardinality(Running) + 1
    BY <2>2, FS_AddElement, FS_CardinalityType DEF GateInv
  <2>4. store.transfers \in Nat /\ store.maxObject \in Nat
    BY <2>1, StoreSizes DEF OpenInv
  <2>5. Cardinality(Running') <= store.transfers
    BY <2>1, <2>2, <2>3, <2>4
  <2>6. /\ size' \in [Callers -> Nat] /\ DOMAIN pc' = Callers
        /\ \A d \in Callers : size'[d] <= store.maxObject
    BY <2>1, <2>4 DEF GateInv
  <2> QED BY <2>1, <2>2, <2>3, <2>5, <2>6 DEF GateInv
<1>3. ASSUME NEW c \in Callers, pc[c] # "idle"
      PROVE  outcome = "open" /\ c \in Running /\ Refusal(asked) = "none"
  BY <1>3 DEF GateInv, Running, OpenInv
<1>4. ASSUME NEW c \in Callers, NEW n \in Landmarks, Reads(c, n) PROVE GateInv'
  <2>1. /\ pc[c] # "idle" /\ size[c] < n /\ n <= store.maxObject
        /\ size' = [size EXCEPT ![c] = n]
        /\ \E to \in {"reading", "parts"} : pc' = [pc EXCEPT ![c] = to]
        /\ UNCHANGED <<outcome, store>>
    BY <1>4 DEF Reads, UnchangedStore
  <2>2. n \in Nat
    <3>1. store.threshold \in Nat /\ store.maxObject \in Nat
      BY <1>3, <2>1, StoreSizes
    <3>2. n \in Int
      BY <3>1 DEF Landmarks
    <3> QED BY <2>1, <3>2 DEF GateInv
  <2>3. Running' = Running
    BY <2>1 DEF GateInv, Running
  <2>4. /\ size' \in [Callers -> Nat] /\ DOMAIN pc' = Callers
        /\ \A d \in Callers : size'[d] <= store.maxObject
    BY <1>3, <2>1, <2>2 DEF GateInv
  <2> QED BY <1>3, <2>1, <2>3, <2>4 DEF GateInv
<1>5. ASSUME NEW c \in Callers, Uploaded(c) PROVE GateInv'
  <2>1. /\ pc[c] # "idle" /\ pc' = [pc EXCEPT ![c] = "manifest"]
        /\ UNCHANGED <<outcome, store, size>>
    BY <1>5 DEF Uploaded, UnchangedStore
  <2>2. Running' = Running
    BY <2>1 DEF GateInv, Running
  <2> QED BY <2>1, <2>2 DEF GateInv
<1>6. ASSUME NEW c \in Callers, Publishes(c) \/ Fails(c) PROVE GateInv'
  <2>1. /\ pc[c] # "idle" /\ pc' = [pc EXCEPT ![c] = "idle"]
        /\ size' = [size EXCEPT ![c] = 0]
        /\ UNCHANGED <<outcome, store>>
    BY <1>6 DEF Publishes, Fails, ToIdle, UnchangedStore
  <2>2. Running' = Running \ {c}
    BY <2>1 DEF GateInv, Running
  <2>3. /\ IsFiniteSet(Running \ {c}) /\ Cardinality(Running) \in Nat
        /\ Cardinality(Running \ {c}) = Cardinality(Running) - 1
    BY <1>3, <2>1, FS_RemoveElement, FS_CardinalityType DEF GateInv
  <2>4. outcome = "open" /\ store.transfers \in Nat /\ store.maxObject \in Nat
    BY <1>3, <2>1, StoreSizes
  <2>5. Cardinality(Running') <= store.transfers
    BY <2>2, <2>3, <2>4 DEF GateInv
  <2>6. /\ size' \in [Callers -> Nat] /\ DOMAIN pc' = Callers
        /\ \A d \in Callers : size'[d] <= store.maxObject
    BY <2>1, <2>4 DEF GateInv
  <2> QED BY <2>1, <2>2, <2>3, <2>4, <2>5, <2>6 DEF GateInv
<1>7. CASE UNCHANGED vars
  <2>1. UNCHANGED <<pc, size, outcome, store, Running>>
    BY <1>7 DEF vars, Running
  <2> QED BY <2>1 DEF GateInv
<1> QED BY <1>1, <1>2, <1>4, <1>5, <1>6, <1>7 DEF Next

(* The three together are inductive. *)
LEMMA ConfigAlways == Spec => [](OpenInv /\ StoredInv /\ GateInv)
<1>1. (OpenInv /\ StoredInv /\ GateInv) /\ [Next]_vars => (OpenInv /\ StoredInv /\ GateInv)'
  BY OpenNext, StoredNext, GateNext
<1> QED BY <1>1, ConfigInit, PTL DEF Spec

-----------------------------------------------------------------------------
(***************************************************************************)
(* Every object a Store creates, by either of the two functions that set   *)
(* encryption headers (blob.go, applyTransferEncryption, applyEncryption)  *)
(* and by any of the three requests, is stored under the encryption that   *)
(* Open accepted, whatever the bucket's default: for all options a caller  *)
(* may try and any number of callers.                                      *)
(***************************************************************************)
THEOREM ObjectsStoredAsConfigured == Spec => []StoredAsConfigured
<1>1. OpenInv /\ StoredInv => StoredAsConfigured
  <2> SUFFICES ASSUME OpenInv, StoredInv, NEW x \in objects
               PROVE  /\ x.enc = StoredUnder(Headers)
                      /\ asked.encryption = "aes256" => x.enc.sse = "AES256"
                      /\ asked.encryption = "kms" => x.enc.sse = "aws:kms" /\ x.enc.key = asked.kms
                      /\ asked.encryption = "bucket-default" => x.enc = BucketDefault
                      /\ asked.required => x.enc.sse # ""
    BY DEF StoredAsConfigured
  <2>1. Refusal(asked) = "none" /\ store = Resolved(asked) /\ x.enc = StoredUnder(Headers)
    BY DEF OpenInv, StoredInv
  <2>2. store.encryption = asked.encryption /\ store.kms = asked.kms
    BY <2>1 DEF Resolved
  <2>3. /\ asked.encryption = "aes256" => Headers.sse = "AES256"
        /\ asked.encryption = "kms" => Headers.sse = "aws:kms" /\ Headers.key = asked.kms
        /\ asked.encryption \notin {"aes256", "kms"} => Headers.sse = ""
    BY <2>2 DEF Headers, applyEncryption, NoHeaders
  <2>4. asked.required => asked.encryption \in {"aes256", "kms"}
    BY <2>1, AcceptedPasses DEF PolicyRefused, confirmedByThisModule
  <2> HIDE DEF Headers
  <2>5. ASSUME asked.encryption = "aes256" PROVE x.enc.sse = "AES256"
    <3>1. Headers.sse = "AES256"
      BY <2>3, <2>5
    <3> QED BY <2>1, <3>1 DEF StoredUnder
  <2>6. ASSUME asked.encryption = "kms" PROVE x.enc.sse = "aws:kms" /\ x.enc.key = asked.kms
    <3>1. Headers.sse = "aws:kms" /\ Headers.key = asked.kms
      BY <2>3, <2>6
    <3> QED BY <2>1, <3>1 DEF StoredUnder
  <2>7. ASSUME asked.encryption = "bucket-default" PROVE x.enc = BucketDefault
    <3>1. Headers.sse = ""
      BY <2>3, <2>7
    <3> QED BY <2>1, <3>1 DEF StoredUnder
  <2>8. ASSUME asked.required PROVE x.enc.sse # ""
    BY <2>4, <2>5, <2>6, <2>8
  <2> QED BY <2>1, <2>5, <2>6, <2>7, <2>8
<1> QED BY <1>1, ConfigAlways, PTL

(***************************************************************************)
(* Once Open has accepted a prefix, no valid logical key is refused later  *)
(* for its length: object keys and the manifest fit the service's limit.   *)
(***************************************************************************)
THEOREM AcceptedKeysFit == Spec => []KeysFit
<1>1. OpenInv => KeysFit
  <2> SUFFICES ASSUME OpenInv, outcome = "open", NEW n \in 1..MaxName
               PROVE  /\ ManifestKeyLength(store.prefix, n) <= MaxObjectKey
                      /\ PayloadKeyLength(store.prefix) <= MaxObjectKey
                      /\ ManifestLength(store.prefix, n) <= MaxManifest
    BY DEF KeysFit
  <2>1. asked \in Requests /\ Refusal(asked) = "none" /\ store.prefix = asked.prefix
    BY DEF OpenInv, Resolved
  <2>2. store.prefix \in Nat /\ store.prefix <= 256
    BY <2>1, AcceptedPasses, ConfigurationAssumption DEF PrefixRefused, MaxDeploymentPrefix
  <2>3. n \in Nat /\ n >= 1 /\ n <= 512
    BY DEF MaxName
  <2>4. EncodedLength(n) \in Nat /\ EncodedLength(n) >= 1 /\ EncodedLength(n) <= 683
    BY <2>3 DEF EncodedLength
  <2>5. (EncodedLength(n) - 1) \div MaxSegment \in 0..2
    <3>1. ASSUME NEW e \in Nat, e >= 1, e <= 683 PROVE (e - 1) \div 255 \in 0..2
      BY <3>1
    <3> QED BY <2>4, <3>1 DEF MaxSegment
  <2>6. ManifestKeyLength(store.prefix, n) <= MaxObjectKey
    BY <2>2, <2>4, <2>5 DEF ManifestKeyLength, MaxObjectKey
  <2>7. PayloadKeyLength(store.prefix) <= MaxObjectKey
    BY <2>2 DEF PayloadKeyLength, MaxObjectKey
  <2>8. ManifestLength(store.prefix, n) <= MaxManifest
    BY <2>2, <2>3 DEF ManifestLength, PayloadKeyLength, ManifestHeader, MaxManifest
  <2> QED BY <2>6, <2>7, <2>8
<1> QED BY <1>1, ConfigAlways, PTL

-----------------------------------------------------------------------------
(* The accounted buffers of the transfers that run together. *)

(* If each member of a finite set accounts for m, together they account for m *)
(* times their number.                                                        *)
LEMMA SumOfEqual ==
  ASSUME NEW S, IsFiniteSet(S), NEW m \in Nat, \A c \in S : AccountedFor(c) = m
  PROVE  MapThenSumSet(AccountedFor, S) = m * Cardinality(S)
<1> DEFINE one(s) == CHOOSE x \in s : TRUE
<1> DEFINE g == [s \in SUBSET S |-> m * Cardinality(s)]
<1>1. \A s \in SUBSET S : IsFiniteSet(s) /\ Cardinality(s) \in Nat
  BY FS_Subset, FS_CardinalityType
<1>2. ASSUME NEW s \in SUBSET S, s # {}
      PROVE  /\ one(s) \in s /\ s \ {one(s)} \in SUBSET S
             /\ AccountedFor(one(s)) = m
             /\ Cardinality(s) = Cardinality(s \ {one(s)}) + 1
  <2>1. one(s) \in s
    BY <1>2
  <2> HIDE DEF one
  <2>2. s \ {one(s)} \in SUBSET S /\ AccountedFor(one(s)) = m
    BY <2>1
  <2>3. IsFiniteSet(s) /\ Cardinality(s) \in Nat
    BY <1>1
  <2>4. Cardinality(s \ {one(s)}) = Cardinality(s) - 1
    BY <2>1, <2>3, FS_RemoveElement
  <2> QED BY <2>1, <2>2, <2>3, <2>4
<1>3. ASSUME NEW s \in SUBSET S
      PROVE  g[s] = IF s = {} THEN 0 ELSE AccountedFor(one(s)) + g[s \ {one(s)}]
  <2>1. g[s] = m * Cardinality(s)
    OBVIOUS
  <2>2. CASE s = {}
    BY <2>1, <2>2, FS_EmptySet
  <2>3. CASE s # {}
    <3> DEFINE r == s \ {one(s)}
    <3>1. r \in SUBSET S /\ Cardinality(s) = Cardinality(r) + 1 /\ AccountedFor(one(s)) = m
      BY <1>2, <2>3
    <3>2. g[r] = m * Cardinality(r) /\ Cardinality(r) \in Nat
      BY <1>1, <3>1
    <3> HIDE DEF g, r, one
    <3>3. ASSUME NEW k \in Nat PROVE m * (k + 1) = m + m * k
      OBVIOUS
    <3>4. g[s] = AccountedFor(one(s)) + g[r]
      BY <2>1, <3>1, <3>2, <3>3
    <3> QED BY <2>3, <3>4 DEF r
  <2> QED BY <2>2, <2>3
<1>4. g = [s \in SUBSET S |-> IF s = {} THEN 0 ELSE AccountedFor(one(s)) + g[s \ {one(s)}]]
  <2>1. g = [s \in SUBSET S |-> g[s]]
    OBVIOUS
  <2> HIDE DEF g, one
  <2> QED BY <1>3, <2>1
<1> DEFINE Solves(h) == h = [s \in SUBSET S |->
                               IF s = {} THEN 0 ELSE AccountedFor(one(s)) + h[s \ {one(s)}]]
<1> DEFINE f == CHOOSE h : Solves(h)
<1>5. Solves(f) /\ MapThenSumSet(AccountedFor, S) = f[S]
  <2> HIDE DEF g
  <2>1. Solves(g)
    BY <1>4, Zenon
  <2>2. Solves(f)
    BY <2>1, Zenon
  <2>3. MapThenSumSet(AccountedFor, S) = f[S]
    BY Zenon DEF MapThenSumSet, MapThenFoldSet
  <2> QED BY <2>2, <2>3, Zenon
<1> HIDE DEF f
<1>6. \A s \in SUBSET S :
        f[s] = IF s = {} THEN 0 ELSE AccountedFor(one(s)) + f[s \ {one(s)}]
  <2> HIDE DEF one
  <2> QED BY <1>5
<1> HIDE DEF g, one
<1>7. \A s \in SUBSET S : f[s] = g[s]
  <2> DEFINE Wrong == {s \in SUBSET S : f[s] # g[s]}
  <2> DEFINE Sizes == {Cardinality(s) : s \in Wrong}
  <2>1. SUFFICES ASSUME Wrong # {} PROVE FALSE
    OBVIOUS
  <2>2. Sizes \in SUBSET Nat /\ Sizes # {}
    BY <1>1, <2>1
  <2>3. PICK k \in Sizes : \A j \in Sizes : k <= j
    BY <2>2, LeastNatural
  <2>4. PICK s \in Wrong : k = Cardinality(s)
    OBVIOUS
  <2>5. s \in SUBSET S /\ f[s] # g[s]
    OBVIOUS
  <2>6. s # {}
    BY <1>3, <1>6, <2>5
  <2>7. s \ {one(s)} \in SUBSET S /\ Cardinality(s) = Cardinality(s \ {one(s)}) + 1
    BY <1>2, <2>5, <2>6
  <2>8. s \ {one(s)} \notin Wrong
    <3>1. Cardinality(s \ {one(s)}) \in Nat
      BY <1>1, <2>7
    <3>2. Cardinality(s \ {one(s)}) \notin Sizes
      <4> DEFINE e == Cardinality(s \ {one(s)})
      <4>1. e \in Nat /\ k = e + 1
        BY <2>4, <2>7, <3>1
      <4> HIDE DEF e
      <4>2. e \notin Sizes
        <5>1. ~(k <= e)
          BY <4>1
        <5> QED BY <2>3, <5>1
      <4> QED BY <4>2 DEF e
    <3> QED BY <3>2
  <2>9. f[s \ {one(s)}] = g[s \ {one(s)}]
    BY <2>7, <2>8
  <2> QED BY <1>3, <1>6, <2>5, <2>6, <2>9
<1>8. g[S] = m * Cardinality(S)
  BY DEF g
<1> QED BY <1>5, <1>7, <1>8

(* A reader within the accounted maximum never makes the parts grow. *)
LEMMA PartsStaySmall ==
  ASSUME NEW n \in Nat, NEW p \in Nat, p >= 1, NEW u \in Nat, n <= p * u - 1
  PROVE  ~(n \div p >= u)
<1> DEFINE q == n \div p
<1>1. q \in Nat /\ n = p * q + (n % p) /\ n % p \in 0..(p - 1)
  OBVIOUS
<1> HIDE DEF q
<1>2. SUFFICES ASSUME q >= u PROVE FALSE
  BY DEF q
<1>3. PICK d \in Nat : q = u + d
  <2>1. q - u \in Nat /\ q = u + (q - u)
    BY <1>1, <1>2
  <2> QED BY <2>1
<1>4. p * (u + d) = p * u + p * d /\ p * u \in Nat /\ p * d \in Nat
  OBVIOUS
<1> QED BY <1>1, <1>3, <1>4

(***************************************************************************)
(* The figure that Open accounted for and checked covers the transfers     *)
(* that run together at the part size the manager uses for their objects,  *)
(* whatever options were accepted and however many callers there are: the  *)
(* budget check of resolve and the gate's capacity bound the sum, and the  *)
(* maximum of the accounted reader keeps the parts from growing.  It says  *)
(* nothing of the memory a process holds, in particular of what a body     *)
(* takes before the manager's pool exists.                                 *)
(***************************************************************************)
THEOREM AccountedStaysWithinBudget == Spec => []AccountedWithinBudget
<1>1. OpenInv /\ GateInv => AccountedWithinBudget
  <2> SUFFICES ASSUME OpenInv, GateInv PROVE AccountedWithinBudget
    OBVIOUS
  <2>1. CASE outcome # "open"
    <3>1. Running = {}
      BY <2>1 DEF GateInv
    <3>2. IsFiniteSet(Running) /\ 0 \in Nat /\ \A c \in Running : AccountedFor(c) = 0
      BY <3>1 DEF GateInv
    <3>3. MapThenSumSet(AccountedFor, Running) = 0
      <4>1. MapThenSumSet(AccountedFor, Running) = 0 * Cardinality(Running)
        BY <3>2, SumOfEqual
      <4>2. Cardinality(Running) = 0
        BY <3>1, FS_EmptySet
      <4> QED BY <4>1, <4>2
    <3> QED BY <3>3, LimitFacts DEF AccountedWithinBudget
  <2>2. CASE outcome = "open"
    <3> DEFINE m == PerTransferMemory(store)
    <3> DEFINE k == Cardinality(Running)
    <3>1. asked \in Requests /\ Refusal(asked) = "none" /\ store = Resolved(asked)
      BY <2>2 DEF OpenInv
    <3>2. m \in Nat /\ m * store.transfers <= MemoryBudget /\ store.transfers \in Nat
      BY <3>1, ResolvedSizes
    <3>3. ASSUME NEW c \in Running PROVE AccountedFor(c) = m
      <4>1. c \in Callers /\ size[c] \in Nat /\ size[c] <= store.partSize * MaxUploadParts - 1
        BY <2>2, <3>1, StoreSizes DEF Running, GateInv
      <4>2. ActualPartSize(size[c]) = store.partSize
        BY <3>1, <4>1, StoreSizes, LimitFacts, PartsStaySmall DEF ActualPartSize
      <4> QED BY <4>2 DEF AccountedFor, PerTransferMemory
    <3>4. IsFiniteSet(Running) /\ k \in Nat /\ k <= store.transfers
      BY <2>2, FS_CardinalityType DEF GateInv
    <3> HIDE DEF m
    <3>5. MapThenSumSet(AccountedFor, Running) = m * k
      BY <3>2, <3>3, <3>4, SumOfEqual
    <3> HIDE DEF k
    <3>6. m * k <= m * store.transfers
      <4>1. PICK d \in Nat : store.transfers = k + d
        <5>1. store.transfers - k \in Nat /\ store.transfers = k + (store.transfers - k)
          BY <3>2, <3>4
        <5> QED BY <5>1
      <4>2. m * (k + d) = m * k + m * d /\ m * k \in Nat /\ m * d \in Nat
        BY <3>2, <3>4
      <4> QED BY <4>1, <4>2
    <3>7. m * k \in Nat /\ m * store.transfers \in Nat
      <4>1. ASSUME NEW x \in Nat, NEW y \in Nat PROVE x * y \in Nat
        OBVIOUS
      <4> QED BY <3>2, <3>4, <4>1
    <3> QED BY <3>2, <3>5, <3>6, <3>7, LimitFacts DEF AccountedWithinBudget
  <2> QED BY <2>1, <2>2
<1> QED BY <1>1, ConfigAlways, PTL

=============================================================================
