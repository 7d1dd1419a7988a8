-------------------------- MODULE LateWritesProofs --------------------------
(***************************************************************************)
(* What survives requests that take effect late, for every value of the    *)
(* constants: blobs stay immutable whatever is given up when; and when     *)
(* only the end of a context makes a call give up a request, rows keep     *)
(* their payloads.                                                         *)
(*                                                                         *)
(* A call that gives up a request does what it does when the service       *)
(* refused it, so every step is one of BlobStore's or an arrival: the      *)
(* invariants of BlobStore carry over once arrivals preserve them, which   *)
(* is what the facts about the wire below are for.                         *)
(***************************************************************************)
EXTENDS LateWrites, BlobStoreProofs

(* A request on the wire is one of the two kinds. *)
Publishing(w) ==
  /\ w.kind = "publish" /\ w.enc = "current" /\ w.key \in Keys
  /\ w.row \in [data: Contents, pay: Payloads]

Removing(w) ==
  w.kind = "remove" /\ w.enc \in Encodings /\ w.key \in Keys /\ w.row = NoRow

WireTyped == \A w \in wire : Publishing(w) \/ Removing(w)

LateBase == TypeOK /\ LocalsInv /\ PointsInv /\ WireTyped

(* A manifest about to arrive meets no legacy row, a removal no damaged row. *)
WireRows ==
  \A w \in wire :
    /\ w.kind = "publish" => rows["legacy"][w.key] = NoRow
    /\ w.kind = "remove" => rows[w.enc][w.key] # BadRow

(* The Put that gave up this manifest for its context's end: its payload id *)
(* is drawn for good, its bytes are its content or removed, and while the   *)
(* call still runs it neither reads the row nor cleans up.                  *)
GivenUpBy(r, w) ==
  /\ r.op = "put" /\ r.key = w.key /\ r.cand = "current"
  /\ ~r.live /\ ~r.safe /\ r.pc \in {"head", "done"}

OwnedRequest(w) ==
  /\ w.row.pay \in used
  /\ payloads[w.row.pay] \in {w.row.data, NoData}
  /\ \A c \in Clients : call[c].pay = w.row.pay => GivenUpBy(call[c], w)

WireOwned == \A w \in wire : w.kind = "publish" => OwnedRequest(w)

LateOwned == ~hasty => CleanupInv /\ WireOwned

(* Such a manifest is the only one to name its payload, which is intact. *)
PendingRequest(w) ==
  /\ Unreferenced(w.row.pay)
  /\ \A c \in Clients : call[c].tag.pay # w.row.pay
  /\ payloads[w.row.pay] = w.row.data

WirePending ==
  \A w \in wire : w.kind = "publish" =>
    PendingRequest(w) /\ \A v \in wire : v.row.pay = w.row.pay => v = w

LatePending == ~hasty => DanglingInv /\ WirePending

-----------------------------------------------------------------------------
(* Steps. *)

(* A request that is given up is one that was refused, but for the wire. *)
LEMMA GivenUpFails ==
  ASSUME TypeOK, NEW c \in Clients
  PROVE  /\ PublishGivenUp(c) => PublishRefused(c)
         /\ RemoveRowGivenUp(c) => RemoveRowRefused(c)
<1> DEFINE q == [call[c] EXCEPT !.live = FALSE]
<1>1. [call[c] EXCEPT !.live = FALSE, !.tries = 0] = [q EXCEPT !.tries = 0]
  BY DEF TypeOK, Call
<1>2. ASSUME Step(c, StartResolve([call[c] EXCEPT !.live = FALSE, !.tries = 0]))
      PROVE  FailedAttempt(c, StartResolve)
  <2>1. Step(c, StartResolve([q EXCEPT !.tries = 0]))
    BY <1>1, <1>2
  <2> QED BY <2>1, Zenon DEF FailedAttempt
<1>3. ASSUME Step(c, DeleteFailed([call[c] EXCEPT !.live = FALSE, !.tries = 0]))
      PROVE  FailedAttempt(c, DeleteFailed)
  <2>1. Step(c, DeleteFailed([q EXCEPT !.tries = 0]))
    BY <1>1, <1>3
  <2> QED BY <2>1, Zenon DEF FailedAttempt
<1>4. ASSUME PublishGivenUp(c)
      PROVE  PublishRefused(c)
  <2>1. FailedAttempt(c, StartResolve)
    BY <1>2, <1>4, Zenon DEF PublishGivenUp, GivenUp
  <2> QED BY <1>4, <2>1, Zenon DEF PublishGivenUp, PublishRefused
<1>5. ASSUME RemoveRowGivenUp(c)
      PROVE  RemoveRowRefused(c)
  <2>1. FailedAttempt(c, DeleteFailed)
    BY <1>3, <1>5, Zenon DEF RemoveRowGivenUp, GivenUp
  <2> QED BY <1>5, <2>1, Zenon DEF RemoveRowGivenUp, RemoveRowRefused
<1> QED BY <1>4, <1>5

(* What arrives: one request, applied to its row. *)
Arrives(w) ==
  /\ wire' = wire \ {w}
  /\ rows' = [rows EXCEPT ![w.enc][w.key] = Applied(w)]
  /\ UNCHANGED <<payloads, used, held, call, hasty>>
  /\ Observe

(* The three kinds of step. *)
LEMMA LateSteps ==
  ASSUME TypeOK, [LateNext]_lateVars
  PROVE  \/ [Next]_vars /\ wire' = wire /\ hasty' = hasty
         \/ \E c \in Clients :
              /\ Next /\ CodeStep(c)
              /\ \/ PublishGivenUp(c) /\ wire' = wire \cup {PublishRequest(call[c])}
                 \/ RemoveRowGivenUp(c) /\ wire' = wire \cup {RemoveRequest(call[c])}
         \/ \E w \in wire : Arrives(w)
<1>1. CASE UNCHANGED lateVars
  BY <1>1 DEF lateVars
<1>2. CASE Next /\ UNCHANGED <<wire, hasty>>
  BY <1>2
<1>3. ASSUME NEW c \in Clients, PublishGivenUp(c)
      PROVE  Next /\ CodeStep(c) /\ wire' = wire \cup {PublishRequest(call[c])}
  <2>1. CodeStep(c)
    BY <1>3, GivenUpFails DEF CodeStep, PutStep
  <2> QED BY <1>3, <2>1 DEF Next, PublishGivenUp, Sent
<1>4. ASSUME NEW c \in Clients, RemoveRowGivenUp(c)
      PROVE  Next /\ CodeStep(c) /\ wire' = wire \cup {RemoveRequest(call[c])}
  <2>1. CodeStep(c)
    BY <1>4, GivenUpFails DEF CodeStep, DeleteStep
  <2> QED BY <1>4, <2>1 DEF Next, RemoveRowGivenUp, Sent
<1>5. CASE LateArrives
  BY <1>5 DEF LateArrives, Arrives
<1> QED BY <1>1, <1>2, <1>3, <1>4, <1>5 DEF LateNext

(* What an arrival does to the rows. *)
ArrivalMove(w) ==
  \A e \in Encodings, k \in Keys :
    \/ rows'[e][k] = rows[e][k]
    \/ /\ w.kind = "publish" /\ e = "current" /\ k = w.key
       /\ rows[e][k] = NoRow /\ rows'[e][k] = w.row
    \/ w.kind = "remove" /\ e = w.enc /\ k = w.key /\ rows'[e][k] = NoRow

(* Arrivals change the rows in these ways only. *)
LEMMA ArrivalRows ==
  ASSUME TypeOK, WireTyped, NEW w \in wire, Arrives(w)
  PROVE  ArrivalMove(w) /\ rows' \in [Encodings -> [Keys -> Row]]
<1>1. Publishing(w) \/ Removing(w)
  BY DEF WireTyped
<1>2. w.enc \in Encodings /\ w.key \in Keys /\ w.row \in Row
  BY <1>1, SentinelType DEF Publishing, Removing, Row, Encodings
<1>3. rows \in [Encodings -> [Keys -> Row]] /\ Applied(w) \in Row
  BY <1>2 DEF TypeOK, Applied
<1>4. rows' = [rows EXCEPT ![w.enc][w.key] = Applied(w)]
  BY DEF Arrives
<1>5. rows' \in [Encodings -> [Keys -> Row]]
  BY <1>2, <1>3, <1>4
<1>6. ASSUME NEW e \in Encodings, NEW k \in Keys
      PROVE  rows'[e][k] = IF e = w.enc /\ k = w.key THEN Applied(w) ELSE rows[e][k]
  BY <1>2, <1>3, <1>4
<1>7. ArrivalMove(w)
  BY <1>1, <1>6 DEF ArrivalMove, Applied, Publishing, Removing
<1> QED BY <1>5, <1>7

-----------------------------------------------------------------------------
(* Types. *)

(* The request a call gives up is of one of the two kinds. *)
LEMMA RequestTyped ==
  ASSUME TypeOK, LocalsInv, NEW c \in Clients
  PROVE  /\ PublishGivenUp(c) => Publishing(PublishRequest(call[c]))
         /\ RemoveRowGivenUp(c) => Removing(RemoveRequest(call[c]))
<1>1. call[c] \in Call /\ LocalInv(call[c])
  BY LocalsFacts
<1>2. ASSUME PublishGivenUp(c)
      PROVE  Publishing(PublishRequest(call[c]))
  <2>1. /\ call[c].key \in Keys /\ call[c].data \in Contents /\ call[c].pay \in Payloads
    BY <1>1, <1>2 DEF PublishGivenUp, LocalInv, Call
  <2> QED BY <2>1 DEF Publishing, PublishRequest, OwnRow
<1>3. ASSUME RemoveRowGivenUp(c)
      PROVE  Removing(RemoveRequest(call[c]))
  <2>1. call[c].key \in Keys /\ call[c].cand \in Encodings
    BY <1>1, <1>3 DEF RemoveRowGivenUp, LocalInv, Call
  <2> QED BY <2>1 DEF Removing, RemoveRequest
<1> QED BY <1>2, <1>3

(* An arrival keeps what BlobStore's proofs need of the types and locals. *)
LEMMA ArrivalTyped ==
  ASSUME LateBase, NEW w \in wire, Arrives(w)
  PROVE  LateBase'
<1>1. rows' \in [Encodings -> [Keys -> Row]]
  BY ArrivalRows DEF LateBase
<1>2. payloads' = payloads /\ used' = used /\ held' = held /\ call' = call /\ Observe
  BY DEF Arrives
<1>3. seen' \in [Clients -> SUBSET (Contents \cup {NoData, Garbage})]
  BY <1>1, <1>2, ObserveType DEF LateBase, TypeOK
<1>4. TypeOK'
  BY <1>1, <1>2, <1>3 DEF LateBase, TypeOK
<1>5. WireTyped'
  BY DEF LateBase, WireTyped, Publishing, Removing, Arrives
<1> QED BY <1>2, <1>4, <1>5 DEF LateBase, LocalsInv, PointsInv

(* A step of BlobStore does too. *)
LEMMA BaseStep ==
  ASSUME TypeOK, LocalsInv, PointsInv, [Next]_vars
  PROVE  TypeOK' /\ LocalsInv' /\ PointsInv'
<1>1. CASE UNCHANGED vars
  BY <1>1, LocalsPreserved DEF vars, PointsInv
<1>2. ASSUME NEW c \in Clients, NEW s \in Call, Moves(c, s), PointInv(s)
      PROVE  PointsInv'
  BY <1>2 DEF Moves, PointsInv, TypeOK
<1> QED BY <1>1, <1>2, StepCases, LocalsPreserved

(* So does every step. *)
LEMMA BasePreserved ==
  ASSUME LateBase, [LateNext]_lateVars
  PROVE  LateBase'
<1>0. TypeOK /\ LocalsInv /\ PointsInv /\ WireTyped
  BY DEF LateBase
<1>1. ASSUME [Next]_vars, \A w \in wire' : w \in wire \/ Publishing(w) \/ Removing(w)
      PROVE  LateBase'
  <2>1. WireTyped'
    BY <1>0, <1>1 DEF WireTyped, Publishing, Removing
  <2> QED BY <1>0, <1>1, <2>1, BaseStep DEF LateBase
<1>2. ASSUME NEW c \in Clients, Next,
             \/ PublishGivenUp(c) /\ wire' = wire \cup {PublishRequest(call[c])}
             \/ RemoveRowGivenUp(c) /\ wire' = wire \cup {RemoveRequest(call[c])}
      PROVE  LateBase'
  <2>1. \A w \in wire' : w \in wire \/ Publishing(w) \/ Removing(w)
    BY <1>0, <1>2, RequestTyped
  <2> QED BY <1>1, <1>2, <2>1
<1>3. ASSUME NEW w \in wire, Arrives(w)
      PROVE  LateBase'
  BY <1>3, ArrivalTyped
<1> QED BY <1>0, <1>1, <1>2, <1>3, LateSteps

(* Types and locals hold throughout. *)
LEMMA BaseHolds == LateSpec => []LateBase
<1>1. LateInit => LateBase
  BY InitEstablishes, PointsInit DEF LateInit, LateBase, WireTyped, CleanupInv, LocalsInv
<1>2. LateBase /\ [LateNext]_lateVars => LateBase'
  BY BasePreserved
<1> QED BY <1>1, <1>2, PTL DEF LateSpec

-----------------------------------------------------------------------------
(* Rows and values. *)

(* An arrival keeps the two encodings of a key apart. *)
LEMMA ArrivalKeepsRows ==
  ASSUME LateBase, RowInv, WireRows, NEW w \in wire, Arrives(w)
  PROVE  RowInv' /\ WireRows'
<1>0. /\ TypeOK /\ LocalsInv /\ WireTyped /\ Encodings = {"current", "legacy"}
      /\ Publishing(w) \/ Removing(w)
  BY DEF LateBase, WireTyped, Encodings
<1>1. ArrivalMove(w)
  BY <1>0, ArrivalRows
<1>2. call' = call /\ wire' \subseteq wire
  BY DEF Arrives
<1>3. \A k \in Keys : rows'["legacy"][k] \in {rows["legacy"][k], NoRow}
  BY <1>0, <1>1 DEF ArrivalMove
<1>4. \A e \in Encodings, k \in Keys : rows[e][k] # BadRow => rows'[e][k] # BadRow
  <2>1. w.kind = "publish" => w.row # BadRow
    BY <1>0, SentinelAssumption DEF Publishing, Removing, BadRow
  <2> QED BY <1>1, <2>1, RowsDiffer DEF ArrivalMove
<1>5. LegacyRefused' /\ (\A k \in Keys \ LongKeys : rows'["legacy"][k] = NoRow)
  BY <1>3, RowsDiffer DEF RowInv, LegacyRefused
<1>6. \A k \in Keys : rows'["legacy"][k] # NoRow => rows'["current"][k] = NoRow
  <2> SUFFICES ASSUME NEW k \in Keys, rows'["legacy"][k] # NoRow
               PROVE  rows'["current"][k] = NoRow
    OBVIOUS
  <2>1. rows["legacy"][k] # NoRow /\ rows["current"][k] = NoRow
    BY <1>3 DEF RowInv
  <2>2. ~(w.kind = "publish" /\ k = w.key)
    BY <2>1 DEF WireRows
  <2> QED BY <1>0, <1>1, <2>1, <2>2 DEF ArrivalMove
<1>7. ASSUME NEW d \in Clients
      PROVE  /\ call'[d].pc = "publish" => rows'["legacy"][call'[d].key] = NoRow
             /\ call'[d].pc = "rmrow" => rows'[call'[d].cand][call'[d].key] # BadRow
  <2>1. call[d] \in Call /\ LocalInv(call[d])
    BY <1>0, LocalsFacts
  <2>2. call[d].pc \in {"publish", "rmrow"} => call[d].key \in Keys /\ call[d].cand \in Encodings
    BY <2>1 DEF LocalInv, Call
  <2> QED BY <1>2, <1>3, <1>4, <2>2 DEF RowInv, RowAt
<1>8. WireRows'
  <2> SUFFICES ASSUME NEW v \in wire'
               PROVE  /\ v.kind = "publish" => rows'["legacy"][v.key] = NoRow
                      /\ v.kind = "remove" => rows'[v.enc][v.key] # BadRow
    BY DEF WireRows
  <2>1. v \in wire /\ v.key \in Keys /\ v.enc \in Encodings
    BY <1>0, <1>2 DEF WireTyped, Publishing, Removing
  <2> QED BY <1>3, <1>4, <2>1 DEF WireRows
<1> QED BY <1>5, <1>6, <1>7, <1>8 DEF RowInv, RowAt

(* A step of BlobStore keeps what requests on the wire rest on. *)
LEMMA StepKeepsWireRows ==
  ASSUME TypeOK, LocalsInv, PointsInv, [Next]_vars, NEW k \in Keys, NEW e \in Encodings
  PROVE  /\ rows["legacy"][k] = NoRow => rows'["legacy"][k] = NoRow
         /\ rows[e][k] # BadRow => rows'[e][k] # BadRow
<1>1. CASE UNCHANGED vars
  BY <1>1 DEF vars
<1>2. ASSUME NEW c \in Clients, NEW s \in Call, Moves(c, s)
      PROVE  /\ rows["legacy"][k] = NoRow => rows'["legacy"][k] = NoRow
             /\ rows[e][k] # BadRow => rows'[e][k] # BadRow
  <2>1. RowsMove(call[c])
    BY <1>2, RowsMoved
  <2>2. call[c].pc = "publish" => OwnRow(call[c]) # BadRow
    BY OwnRowFacts
  <2> QED BY <2>1, <2>2, RowsDiffer DEF RowsMove, Encodings
<1> QED BY <1>1, <1>2, StepCases

(* Every step keeps the rows as RowInv and the wire as WireRows says. *)
LEMMA LateRowsPreserved ==
  ASSUME LateBase, RowInv, WireRows, [LateNext]_lateVars
  PROVE  RowInv' /\ WireRows'
<1>0. TypeOK /\ LocalsInv /\ PointsInv /\ WireTyped
  BY DEF LateBase
<1>1. ASSUME [Next]_vars,
             \A w \in wire' : \/ w \in wire
                              \/ /\ w.key \in Keys /\ w.enc \in Encodings
                                 /\ w.kind = "publish" => rows["legacy"][w.key] = NoRow
                                 /\ w.kind = "remove" => rows[w.enc][w.key] # BadRow
      PROVE  RowInv' /\ WireRows'
  <2>1. RowInv'
    BY <1>0, <1>1, RowInvPreserved
  <2>2. ASSUME NEW w \in wire'
        PROVE  /\ w.kind = "publish" => rows'["legacy"][w.key] = NoRow
               /\ w.kind = "remove" => rows'[w.enc][w.key] # BadRow
    <3>1. /\ w.key \in Keys /\ w.enc \in Encodings
          /\ w.kind = "publish" => rows["legacy"][w.key] = NoRow
          /\ w.kind = "remove" => rows[w.enc][w.key] # BadRow
      BY <1>0, <1>1 DEF WireTyped, Publishing, Removing, WireRows, Encodings
    <3> QED BY <1>0, <1>1, <3>1, StepKeepsWireRows
  <2> QED BY <2>1, <2>2 DEF WireRows
<1>2. ASSUME NEW c \in Clients, Next,
             \/ PublishGivenUp(c) /\ wire' = wire \cup {PublishRequest(call[c])}
             \/ RemoveRowGivenUp(c) /\ wire' = wire \cup {RemoveRequest(call[c])}
      PROVE  RowInv' /\ WireRows'
  <2>1. CASE PublishGivenUp(c) /\ wire' = wire \cup {PublishRequest(call[c])}
    <3> DEFINE w == PublishRequest(call[c])
    <3>1. w.key \in Keys /\ w.enc \in Encodings
      BY <1>0, <2>1, RequestTyped DEF Publishing, Encodings
    <3>2. w.kind = "publish" /\ rows["legacy"][w.key] = NoRow
      BY <2>1 DEF PublishGivenUp, PublishRequest, RowInv
    <3> HIDE DEF w
    <3> QED BY <1>1, <1>2, <2>1, <3>1, <3>2 DEF w
  <2>2. CASE RemoveRowGivenUp(c) /\ wire' = wire \cup {RemoveRequest(call[c])}
    <3> DEFINE w == RemoveRequest(call[c])
    <3>1. w.key \in Keys /\ w.enc \in Encodings
      BY <1>0, <2>2, RequestTyped DEF Removing
    <3>2. w.kind = "remove" /\ rows[w.enc][w.key] # BadRow
      BY <2>2 DEF RemoveRowGivenUp, RemoveRequest, RowInv, RowAt
    <3> HIDE DEF w
    <3> QED BY <1>1, <1>2, <2>2, <3>1, <3>2 DEF w
  <2> QED BY <1>2, <2>1, <2>2
<1>3. ASSUME NEW w \in wire, Arrives(w)
      PROVE  RowInv' /\ WireRows'
  BY <1>3, ArrivalKeepsRows
<1>4. ([Next]_vars /\ wire' = wire) => RowInv' /\ WireRows'
  BY <1>1
<1> QED BY <1>0, <1>2, <1>3, <1>4, LateSteps

(* An arrival changes the value of its key between absent and present only. *)
LEMMA ArrivalValue ==
  ASSUME LateBase, RowInv, WireRows, NEW w \in wire, Arrives(w), NEW k \in Keys,
         ValueIn(rows', k) # ValueIn(rows, k)
  PROVE  \/ ValueIn(rows, k) = NoData /\ ValueIn(rows', k) \in Contents
         \/ ValueIn(rows, k) \in Contents /\ ValueIn(rows', k) = NoData
<1>0. /\ TypeOK /\ WireTyped /\ Encodings = {"current", "legacy"}
      /\ Publishing(w) \/ Removing(w)
      /\ \A e \in Encodings : rows[e][k] \in Row
  BY DEF LateBase, WireTyped, Encodings, TypeOK
<1>1. ArrivalMove(w)
  BY <1>0, ArrivalRows
<1>2. rows'["current"][k] # rows["current"][k] \/ rows'["legacy"][k] # rows["legacy"][k]
  BY DEF ValueIn
<1>3. k = w.key
  BY <1>0, <1>1, <1>2 DEF ArrivalMove
<1>4. CASE Publishing(w)
  <2>1. rows["legacy"][k] = NoRow /\ rows'["legacy"][k] = NoRow
    BY <1>0, <1>1, <1>3, <1>4 DEF ArrivalMove, Publishing, WireRows
  <2>2. rows["current"][k] = NoRow /\ rows'["current"][k] = w.row
    BY <1>0, <1>1, <1>2, <1>4, <2>1 DEF ArrivalMove, Publishing
  <2>3. w.row.data \in Contents /\ w.row # NoRow
    BY <1>4, SentinelAssumption DEF Publishing, NoRow
  <2> QED BY <2>1, <2>2, <2>3, RowsDiffer DEF ValueIn
<1>5. CASE Removing(w)
  <2>1. rows[w.enc][k] \notin {BadRow, NoRow} /\ rows'[w.enc][k] = NoRow
    BY <1>0, <1>1, <1>2, <1>3, <1>5 DEF ArrivalMove, Removing, WireRows
  <2>2. rows[w.enc][k].data \in Contents
    BY <1>0, <1>5, <2>1, RowsDiffer DEF Removing
  <2>3. CASE w.enc = "current"
    <3>1. rows["legacy"][k] = NoRow /\ rows'["legacy"][k] = NoRow
      BY <1>0, <1>1, <1>5, <2>1, <2>3 DEF ArrivalMove, Removing, RowInv
    <3> QED BY <2>1, <2>2, <2>3, <3>1, RowsDiffer DEF ValueIn
  <2>4. CASE w.enc = "legacy"
    <3>1. rows["current"][k] = NoRow /\ rows'["current"][k] = NoRow
      BY <1>0, <1>1, <1>5, <2>1, <2>4 DEF ArrivalMove, Removing, RowInv
    <3> QED BY <2>1, <2>2, <2>4, <3>1, RowsDiffer DEF ValueIn
  <2> QED BY <1>0, <1>5, <2>3, <2>4 DEF Removing
<1> QED BY <1>0, <1>4, <1>5

(***************************************************************************)
(* Blobs are immutable also when manifests are created and deleted after   *)
(* their calls gave up (blob.go: If-None-Match on publish, and the order   *)
(* in which Put consults the legacy row): a late request takes a key's     *)
(* value from absent to present or back, at whatever moment it arrives.    *)
(***************************************************************************)
THEOREM BlobsImmutableLate == LateSpec /\ LegacyRefused => LateImmutable
<1> DEFINE Rows == RowInv /\ WireRows
<1>1. LateInit /\ LegacyRefused => Rows
  BY RowInvInit DEF LateInit, WireRows
<1>2. LateBase /\ Rows /\ [LateNext]_lateVars => Rows'
  BY LateRowsPreserved
<1>3. ASSUME LateBase, Rows, [LateNext]_lateVars
      PROVE  [\A k \in Keys :
                Value(k)' # Value(k) => /\ NoData \in {Value(k), Value(k)'}
                                        /\ Garbage \notin {Value(k), Value(k)'}]_lateVars
  <2>0. TypeOK /\ LocalsInv /\ PointsInv /\ RowInv
    BY <1>3 DEF LateBase
  <2> SUFFICES ASSUME NEW k \in Keys, Value(k)' # Value(k)
               PROVE  NoData \in {Value(k), Value(k)'} /\ Garbage \notin {Value(k), Value(k)'}
    OBVIOUS
  <2>1. Value(k)' = ValueIn(rows', k) /\ Value(k) = ValueIn(rows, k)
    BY DEF Value, ValueIn
  <2>2. ASSUME NEW c \in Clients, NEW s, Moves(c, s)
        PROVE  NoData \in {Value(k), Value(k)'} /\ Garbage \notin {Value(k), Value(k)'}
    <3>1. ValueMove(call[c])
      BY <2>0, <2>2, ValuesMoved
    <3> QED BY <2>1, <3>1, SentinelAssumption DEF ValueMove
  <2>3. CASE [Next]_vars
    <3>1. ~UNCHANGED vars
      BY <2>1 DEF vars
    <3> QED BY <2>0, <2>2, <2>3, <3>1, StepCases
  <2>4. ASSUME NEW w \in wire, Arrives(w)
        PROVE  NoData \in {Value(k), Value(k)'} /\ Garbage \notin {Value(k), Value(k)'}
    BY <1>3, <2>1, <2>4, ArrivalValue, SentinelAssumption
  <2> QED BY <1>3, <2>0, <2>3, <2>4, LateSteps
<1> HIDE DEF Rows
<1> QED BY <1>1, <1>2, <1>3, BaseHolds, PTL DEF LateSpec, LateImmutable

-----------------------------------------------------------------------------
(* Cleanups. *)

(* A Put whose context has ended while it published reads nothing any more: *)
(* it ends, without a cleanup.                                              *)
LEMMA GivenUpEnds ==
  ASSUME TypeOK, NEW c \in Clients, NEW w, GivenUpBy(call[c], w),
         CodeStep(c) \/ CallerStep(c)
  PROVE  GivenUpBy(call'[c], w) \/ call'[c] = NoCall
<1> DEFINE r == call[c]
           q == [call[c] EXCEPT !.live = FALSE]
<1>0. r \in Call /\ DOMAIN call = Clients
  BY DEF TypeOK
<1>1. r.pc \in {"head", "done"} /\ ~r.live /\ r.op = "put" /\ r.cand = "current"
  BY DEF GivenUpBy
<1>2. HeadRefused(c) \/ Return(c)
  BY <1>1 DEF CodeStep, CallerStep, StreamStep, PutStep, ReadStep, DeleteStep,
     Acquire, AcquireNoIdentity, AcquireTimeout, UploadOk, UploadTooLarge, UploadFailed,
     VerifyOk, VerifyFailed, PublishCreated, PublishConflict, PublishRefused, PublishLost,
     Cleanup, HeadFound, HeadAbsent, HeadDamaged, GetRowOk, GetRowRefused, RemoveRow,
     RemoveRowRefused, RemoveRowLost, RemovePayload, FetchOk, FetchRefused, StreamEnd,
     StreamBroken, Begin, Reject
<1>3. CASE Return(c)
  BY <1>0, <1>3 DEF Return
<1>4. CASE HeadRefused(c)
  <2>1. PICK live \in {r.live, FALSE} :
          Step(c, AfterRead([call[c] EXCEPT !.live = live], ErrFor(live)))
    BY <1>4 DEF HeadRefused
  <2>2. r.live = FALSE
    BY <1>0, <1>1, Zenon DEF Call
  <2>3. Step(c, AfterRead(q, ErrFor(FALSE)))
    BY <2>1, <2>2
  <2>4. /\ q.op = "put" /\ q.cand = "current" /\ q.key = r.key /\ q.live = FALSE
        /\ q.safe = r.safe /\ q \in Call
    BY <1>0, <1>1 DEF Call
  <2>5. ErrFor(FALSE) = "ctx"
    BY DEF ErrFor
  <2> HIDE DEF q
  <2>6. AfterRead(q, "ctx") = PutEnded(q, ErrFor(q.live))
    BY <2>4 DEF AfterRead, Resolve
  <2>7. LET s == PutEnded(q, ErrFor(q.live)) IN
        /\ s.op = "put" /\ s.cand = "current" /\ s.key = r.key /\ s.live = FALSE
        /\ s.safe = r.safe /\ s.pc = "done"
    BY <2>4 DEF PutEnded, Call
  <2>8. call'[c] = PutEnded(q, ErrFor(q.live))
    BY <1>0, <2>3, <2>5, <2>6 DEF Step
  <2> DEFINE s == call'[c]
  <2>9. /\ s.op = "put" /\ s.cand = "current" /\ s.key = r.key /\ s.live = FALSE
        /\ s.safe = r.safe /\ s.pc = "done"
    BY <2>7, <2>8
  <2> HIDE DEF s
  <2>10. GivenUpBy(s, w)
    BY <2>9 DEF GivenUpBy
  <2> QED BY <2>10 DEF s
<1> QED BY <1>2, <1>3, <1>4

(* A step of BlobStore keeps what is known of a request given up. *)
LEMMA StepKeepsOwned ==
  ASSUME TypeOK, LocalsInv, PointsInv, [Next]_vars, NEW w, Publishing(w), OwnedRequest(w)
  PROVE  OwnedRequest(w)'
<1>0. w.row.pay \in Payloads /\ w.row.pay # NoPayload /\ w.row.pay \in used
  BY SentinelAssumption DEF Publishing, OwnedRequest
<1>1. CASE UNCHANGED vars
  BY <1>1 DEF vars, OwnedRequest, GivenUpBy
<1>2. ASSUME NEW c \in Clients, NEW s \in Call, Moves(c, s), CodeStep(c) \/ CallerStep(c)
      PROVE  OwnedRequest(w)'
  <2>1. call'[c] = s /\ \A d \in Clients : d # c => call'[d] = call[d]
    BY <1>2 DEF Moves, TypeOK
  <2>2. PayloadsMove(call[c]) /\ used \subseteq used'
    BY <1>2, PayloadsMoved
  <2>3. call[c].pay = w.row.pay => GivenUpBy(call[c], w)
    BY DEF OwnedRequest
  <2>4. payloads'[w.row.pay] \in {w.row.data, NoData}
    BY <1>0, <2>2, <2>3 DEF PayloadsMove, GivenUpBy, OwnedRequest
  <2>5. s.pay = w.row.pay => call[c].pay = w.row.pay
    <3>1. Move(call[c], s)
      BY <1>2 DEF Moves
    <3>2. s.pay = call[c].pay \/ s.pay \notin used \/ s.pay = NoPayload
      <4>1. call[c].pc = "idle" /\ s.pc = "acquire" => s.pay = NoPayload
        BY <1>2, <2>1, BaseStep DEF LocalsInv, LocalInv, Next
      <4> QED BY <3>1, <4>1 DEF Move, Fails, Begins, Returns, NoCall, Takes, GoesOn, Kept,
                SameCall, Published, Finishes, LooksAtLegacy, BeginsPublish, NotesRow, RunsOut,
                Finds, Streams, Delivers
    <3> QED BY <1>0, <3>2
  <2>6. s.pay = w.row.pay => GivenUpBy(s, w)
    <3>1. s # NoCall \/ s.pay = NoPayload
      BY DEF NoCall
    <3> QED BY <1>0, <1>2, <2>1, <2>3, <2>5, <3>1, GivenUpEnds
  <2>7. \A d \in Clients : call'[d].pay = w.row.pay => GivenUpBy(call'[d], w)
    BY <2>1, <2>6 DEF OwnedRequest
  <2> QED BY <1>0, <2>2, <2>4, <2>7 DEF OwnedRequest, GivenUpBy
<1> QED BY <1>1, <1>2, StepCases

(* The Put that gives up its manifest for its context's end owns the request. *)
LEMMA RequestOwned ==
  ASSUME TypeOK, CleanupInv, PointsInv, NEW c \in Clients, PublishGivenUp(c), ~hasty',
         NEW w, w = PublishRequest(call[c])
  PROVE  /\ OwnedRequest(w)'
         /\ call'[c].tag = NoRow /\ payloads' = payloads /\ rows' = rows
<1> DEFINE r == call[c]
           s == StartResolve([call[c] EXCEPT !.live = FALSE, !.tries = 0])
<1>0. /\ r \in Call /\ LocalInv(r) /\ PointInv(r) /\ r.pc = "publish"
      /\ IdsUsed /\ OwnersDistinct /\ VerifiedBytes
  BY CallFacts DEF CleanupInv, PointsInv, PublishGivenUp
<1>1. Step(c, s) /\ rows' = rows /\ payloads' = payloads /\ used' = used
  BY DEF PublishGivenUp, GivenUp, store
<1>2. /\ s.op = r.op /\ s.key = r.key /\ s.cand = r.cand /\ s.pay = r.pay /\ s.tag = r.tag
      /\ s.live = FALSE /\ s.safe = r.safe /\ s.pc = "head"
  BY <1>0 DEF StartResolve, Call
<1>3. w.kind = "publish" /\ w.key = r.key /\ w.row.pay = r.pay /\ w.row.data = r.data
  BY DEF PublishRequest, OwnRow
<1>4. call'[c] = s /\ \A d \in Clients : d # c => call'[d] = call[d]
  BY <1>1 DEF Step, TypeOK
<1> HIDE DEF s
<1>5. r.op = "put" /\ r.pay # NoPayload /\ ~r.safe /\ r.cand = "current" /\ r.tag = NoRow
  BY <1>0 DEF LocalInv, PointInv
<1>6. GivenUpBy(s, w)
  BY <1>2, <1>3, <1>5 DEF GivenUpBy
<1>7. \A d \in Clients : call'[d].pay = w.row.pay => GivenUpBy(call'[d], w)
  BY <1>0, <1>3, <1>4, <1>5, <1>6 DEF OwnersDistinct
<1>8. w.row.pay \in used' /\ payloads'[w.row.pay] \in {w.row.data, NoData}
  BY <1>0, <1>1, <1>3, <1>5 DEF IdsUsed, VerifiedBytes
<1>9. /\ w.row.pay \in used' /\ payloads'[w.row.pay] \in {w.row.data, NoData}
      /\ \A d \in Clients : call'[d].pay = w.row.pay => GivenUpBy(call'[d], w)
  BY <1>7, <1>8
<1>10. call'[c].tag = NoRow
  BY <1>2, <1>4, <1>5
<1> QED BY <1>1, <1>9, <1>10 DEF OwnedRequest, GivenUpBy

(* An arrival keeps what Put's cleanup rests on: nobody who still runs, and *)
(* might clean up, owns the payload that the manifest names.                *)
LEMMA ArrivalKeepsOwned ==
  ASSUME LateBase, CleanupInv, WireOwned, NEW w \in wire, Arrives(w)
  PROVE  CleanupInv' /\ WireOwned'
<1>0. /\ TypeOK /\ WireTyped
      /\ Publishing(w) \/ Removing(w)
      /\ IdsUsed /\ RowsOwned /\ SafeUnreferenced /\ PayloadNeverWrong
  BY DEF LateBase, WireTyped, CleanupInv
<1>1. ArrivalMove(w)
  BY <1>0, ArrivalRows DEF LateBase
<1>2. call' = call /\ wire' \subseteq wire /\ payloads' = payloads /\ used' = used
  BY DEF Arrives
<1>3. ASSUME NEW e \in Encodings, NEW k \in Keys, rows'[e][k].pay # NoPayload
      PROVE  \/ rows'[e][k] = rows[e][k]
             \/ /\ OwnedRequest(w) /\ e = "current" /\ k = w.key /\ rows'[e][k] = w.row
  BY <1>1, <1>3 DEF ArrivalMove, WireOwned, NoRow
<1>4. IdsUsed'
  BY <1>0, <1>2, <1>3 DEF IdsUsed, OwnedRequest
<1>5. RowsOwned'
  <2> SUFFICES ASSUME NEW c \in Clients, NEW e \in Encodings, NEW k \in Keys,
                      call[c].pay # NoPayload, rows'[e][k].pay = call[c].pay
               PROVE  e = "current" /\ k = call[c].key
    BY <1>2 DEF RowsOwned
  <2> QED BY <1>0, <1>3 DEF RowsOwned, OwnedRequest, GivenUpBy
<1>6. SafeUnreferenced'
  <2> SUFFICES ASSUME NEW c \in Clients, call[c].safe \/ call[c].pc = "upload",
                      NEW e \in Encodings, NEW k \in Keys, rows'[e][k].pay = call[c].pay
               PROVE  FALSE
    BY <1>2 DEF SafeUnreferenced, Unreferenced
  <2>1. rows[e][k].pay # call[c].pay
    BY <1>0 DEF SafeUnreferenced, Unreferenced
  <2>2. call[c].pay # NoPayload
    BY LocalsFacts DEF LateBase, LocalInv
  <2>3. ~GivenUpBy(call[c], w)
    BY Zenon DEF GivenUpBy
  <2> QED BY <1>3, <2>1, <2>2, <2>3 DEF OwnedRequest
<1>7. PayloadNeverWrong'
  BY <1>0, <1>2, <1>3 DEF PayloadNeverWrong, OwnedRequest
<1>8. WireOwned'
  BY <1>2 DEF WireOwned, OwnedRequest, GivenUpBy
<1>9. OwnersDistinct' /\ VerifiedBytes' /\ (\A c \in Clients : LocalInv(call[c]))'
  BY <1>2 DEF CleanupInv, OwnersDistinct, VerifiedBytes
<1> QED BY <1>4, <1>5, <1>6, <1>7, <1>8, <1>9 DEF CleanupInv

(* No step makes up for a request that was given up in haste. *)
LEMMA HasteStays ==
  ASSUME TypeOK, [LateNext]_lateVars, ~hasty'
  PROVE  ~hasty
BY Zenon DEF LateNext, lateVars, PublishGivenUp, RemoveRowGivenUp, GivenUp, LateArrives

(* While nobody is hasty, every step keeps CleanupInv and WireOwned. *)
LEMMA OwnedPreserved ==
  ASSUME LateBase, LateOwned, [LateNext]_lateVars
  PROVE  LateOwned'
<1> SUFFICES ASSUME ~hasty' PROVE CleanupInv' /\ WireOwned'
  BY Zenon DEF LateOwned
<1>0. TypeOK /\ LocalsInv /\ PointsInv /\ WireTyped /\ CleanupInv /\ WireOwned
  BY HasteStays, Zenon DEF LateBase, LateOwned
<1>1. ASSUME [Next]_vars
      PROVE  CleanupInv' /\ \A w \in wire : w.kind = "publish" => OwnedRequest(w)'
  <2>1. CleanupInv'
    BY <1>0, <1>1, NextPreserves
  <2>2. ASSUME NEW w \in wire, w.kind = "publish"
        PROVE  OwnedRequest(w)'
    <3>1. Publishing(w) /\ OwnedRequest(w)
      BY <1>0, <2>2 DEF WireTyped, WireOwned, Removing
    <3> QED BY <1>0, <1>1, <3>1, StepKeepsOwned
  <2> QED BY <2>1, <2>2
<1>2. CASE [Next]_vars /\ wire' = wire
  BY <1>1, <1>2 DEF WireOwned
<1>3. ASSUME NEW c \in Clients, Next, PublishGivenUp(c),
             wire' = wire \cup {PublishRequest(call[c])}
      PROVE  CleanupInv' /\ WireOwned'
  <2>1. ASSUME NEW w, w = PublishRequest(call[c])
        PROVE  OwnedRequest(w)'
    BY <1>0, <1>3, <2>1, RequestOwned
  <2>2. \A w \in wire' : w.kind = "publish" => OwnedRequest(w)'
    BY <1>1, <1>3, <2>1
  <2> QED BY <1>1, <1>3, <2>2 DEF WireOwned
<1>4. ASSUME NEW c \in Clients, Next, wire' = wire \cup {RemoveRequest(call[c])}
      PROVE  CleanupInv' /\ WireOwned'
  <2>1. RemoveRequest(call[c]).kind # "publish"
    BY DEF RemoveRequest
  <2>2. \A w \in wire' : w.kind = "publish" => OwnedRequest(w)'
    BY <1>1, <1>4, <2>1
  <2> QED BY <1>1, <1>4, <2>2 DEF WireOwned
<1>5. ASSUME NEW w \in wire, Arrives(w)
      PROVE  CleanupInv' /\ WireOwned'
  BY <1>0, <1>5, ArrivalKeepsOwned
<1> QED BY <1>0, <1>2, <1>3, <1>4, <1>5, LateSteps

(* So they hold for as long as nobody is. *)
LEMMA OwnedHolds == LateSpec => [](LateBase /\ LateOwned)
<1>1. LateInit => LateOwned
  BY InitEstablishes DEF LateInit, LateOwned, WireOwned
<1>2. LateBase /\ LateOwned /\ [LateNext]_lateVars => LateOwned'
  BY OwnedPreserved
<1> QED BY <1>1, <1>2, BaseHolds, PTL DEF LateSpec

-----------------------------------------------------------------------------
(* Rows and their payloads. *)

(* A step of BlobStore does not touch the payload of a manifest on the wire. *)
LEMMA StepKeepsPending ==
  ASSUME TypeOK, LocalsInv, PointsInv, [Next]_vars,
         NEW w, Publishing(w), OwnedRequest(w), PendingRequest(w)
  PROVE  PendingRequest(w)'
<1>0. w.row.pay \in Payloads /\ w.row.pay # NoPayload
  BY SentinelAssumption DEF Publishing
<1>1. CASE UNCHANGED vars
  BY <1>1 DEF vars, PendingRequest, Unreferenced
<1>2. ASSUME NEW c \in Clients, NEW s \in Call, Moves(c, s), CodeStep(c) \/ CallerStep(c)
      PROVE  PendingRequest(w)'
  <2> DEFINE r == call[c]
  <2>1. /\ call'[c] = s /\ \A d \in Clients : d # c => call'[d] = call[d]
        /\ r \in Call /\ LocalInv(r) /\ Move(r, s)
    BY <1>2, LocalsFacts DEF Moves, TypeOK
  <2>2. r.pay = w.row.pay => r.pc \in {"head", "done"}
    BY DEF OwnedRequest, GivenUpBy
  <2>3. r.tag.pay # w.row.pay /\ \A e \in Encodings, k \in Keys : rows[e][k].pay # w.row.pay
    BY DEF PendingRequest, Unreferenced
  <2>4. \A e \in Encodings, k \in Keys : rows'[e][k].pay # w.row.pay
    <3>1. RowsMove(r)
      BY <1>2, RowsMoved
    <3> QED BY <1>0, <2>2, <2>3, <3>1 DEF RowsMove, OwnRow, NoRow
  <2>5. payloads'[w.row.pay] = w.row.data
    <3>1. PayloadsMove(r)
      BY <1>2, PayloadsMoved
    <3> QED BY <1>0, <2>2, <2>3, <3>1 DEF PayloadsMove, PendingRequest
  <2>6. s.tag.pay # w.row.pay
    <3>1. s.tag = r.tag \/ s.tag = NoRow \/ (s.tag = RowAt(r) /\ s.pc = "get" /\ s.key = r.key)
      BY <2>1, TagMoved
    <3>2. CASE s.tag = RowAt(r) /\ s.pc = "get" /\ s.key = r.key
      <4>1. LocalInv(s)
        BY <1>2, <2>1, BaseStep DEF LocalsInv, Next
      <4>2. r.key \in Keys /\ r.cand \in Encodings
        BY <2>1, <3>2, <4>1 DEF LocalInv, Call
      <4> QED BY <2>3, <3>2, <4>2 DEF RowAt
    <3> QED BY <1>0, <2>3, <3>1, <3>2 DEF NoRow
  <2>7. \A d \in Clients : call'[d].tag.pay # w.row.pay
    BY <2>1, <2>6 DEF PendingRequest
  <2> QED BY <2>4, <2>5, <2>7 DEF PendingRequest, Unreferenced
<1> QED BY <1>1, <1>2, StepCases

(* A manifest that is given up is the only one to name its payload. *)
LEMMA RequestPending ==
  ASSUME TypeOK, CleanupInv, PointsInv, WireTyped, WireOwned, DanglingInv,
         NEW c \in Clients, PublishGivenUp(c), ~hasty',
         NEW w, w = PublishRequest(call[c])
  PROVE  PendingRequest(w)' /\ \A v \in wire : v.row.pay # w.row.pay
<1> DEFINE r == call[c]
<1>0. /\ LocalInv(r) /\ PointInv(r) /\ r.pc = "publish" /\ w.row.pay = r.pay /\ w.row.data = r.data
      /\ DOMAIN call = Clients
  BY CallFacts DEF PointsInv, PublishGivenUp, PublishRequest, OwnRow, TypeOK
<1>1. PrePublish(r) /\ r.pay # NoPayload
  BY <1>0 DEF LocalInv, PrePublish
<1>2. /\ Unreferenced(r.pay) /\ payloads[r.pay] = r.data
      /\ \A d \in Clients : call[d].tag.pay # r.pay
  BY <1>0, <1>1 DEF DanglingInv, Unpublished
<1>3. call'[c].tag = NoRow /\ payloads' = payloads /\ rows' = rows
  BY RequestOwned
<1>4. \A d \in Clients : d # c => call'[d] = call[d]
  <2>1. Step(c, StartResolve([call[c] EXCEPT !.live = FALSE, !.tries = 0]))
    BY Zenon DEF PublishGivenUp, GivenUp
  <2> QED BY <1>0, <2>1 DEF Step
<1>5. \A d \in Clients : call'[d].tag.pay # w.row.pay
  BY <1>0, <1>1, <1>2, <1>3, <1>4 DEF NoRow
<1>6. \A e \in Encodings, k \in Keys : rows'[e][k].pay # w.row.pay
  BY <1>0, <1>2, <1>3 DEF Unreferenced
<1>7. \A v \in wire : v.row.pay # w.row.pay
  <2> SUFFICES ASSUME NEW v \in wire, v.row.pay = r.pay PROVE FALSE
    BY <1>0
  <2>1. v.kind = "publish"
    BY <1>1 DEF WireTyped, Publishing, Removing, NoRow
  <2> QED BY <1>0, <2>1 DEF WireOwned, OwnedRequest, GivenUpBy
<1> QED BY <1>0, <1>2, <1>3, <1>5, <1>6, <1>7 DEF PendingRequest, Unreferenced

(* A manifest arrives together with its intact payload. *)
LEMMA ArrivalKeepsPending ==
  ASSUME LateBase, WireOwned, DanglingInv, WirePending, NEW w \in wire, Arrives(w)
  PROVE  DanglingInv' /\ WirePending'
<1>0. /\ TypeOK /\ WireTyped
      /\ Publishing(w) \/ Removing(w)
      /\ Unpublished /\ TagsHonest /\ RowsDistinct /\ NoDangling
  BY DEF LateBase, WireTyped, DanglingInv
<1>1. ArrivalMove(w)
  BY <1>0, ArrivalRows
<1>2. call' = call /\ wire' = wire \ {w} /\ payloads' = payloads /\ used' = used
  BY DEF Arrives
<1>3. ASSUME NEW e \in Encodings, NEW k \in Keys, rows'[e][k].pay # NoPayload
      PROVE  \/ rows'[e][k] = rows[e][k]
             \/ /\ w.kind = "publish" /\ e = "current" /\ k = w.key /\ rows'[e][k] = w.row
  BY <1>1, <1>3 DEF ArrivalMove, NoRow
<1>4. ASSUME w.kind = "publish"
      PROVE  /\ OwnedRequest(w) /\ PendingRequest(w) /\ w.row.pay # NoPayload
             /\ \A v \in wire : v.row.pay = w.row.pay => v = w
  BY <1>0, <1>4, SentinelAssumption DEF WireOwned, WirePending, Publishing, Removing
<1>5. Unpublished'
  <2> SUFFICES ASSUME NEW c \in Clients, PrePublish(call[c])
               PROVE  /\ Unreferenced(call[c].pay)'
                      /\ \A d \in Clients : call[d].tag.pay # call[c].pay
                      /\ call[c].pc \notin {"upload", "verify"} =>
                           payloads[call[c].pay] = call[c].data
    BY <1>2 DEF Unpublished, PrePublish, Unreferenced
  <2>1. call[c].pay # NoPayload
    BY LocalsFacts DEF LateBase, LocalInv, PrePublish
  <2>2. w.kind = "publish" => w.row.pay # call[c].pay
    BY <1>4 DEF OwnedRequest, GivenUpBy, PrePublish
  <2>3. /\ Unreferenced(call[c].pay)
        /\ \A d \in Clients : call[d].tag.pay # call[c].pay
        /\ call[c].pc \notin {"upload", "verify"} => payloads[call[c].pay] = call[c].data
    BY <1>0 DEF Unpublished
  <2>4. \A e \in Encodings, k \in Keys : rows'[e][k].pay # call[c].pay
    BY <1>3, <2>1, <2>2, <2>3 DEF Unreferenced
  <2> QED BY <1>2, <2>3, <2>4 DEF Unreferenced
<1>6. TagsHonest'
  <2> SUFFICES ASSUME NEW c \in Clients, call[c].tag.pay # NoPayload
               PROVE  /\ call[c].tag.pay \in used
                      /\ call[c].pc \in {"get", "rmrow"} =>
                           \A e \in Encodings, k \in Keys :
                             rows'[e][k].pay = call[c].tag.pay => e = call[c].cand /\ k = call[c].key
                      /\ call[c].pc = "rmpay" =>
                           \A e \in Encodings, k \in Keys : rows'[e][k].pay # call[c].tag.pay
    BY <1>2 DEF TagsHonest, Unreferenced
  <2>1. w.kind = "publish" => w.row.pay # call[c].tag.pay
    BY <1>4 DEF PendingRequest
  <2>2. \A e \in Encodings, k \in Keys :
          rows'[e][k].pay = call[c].tag.pay => rows'[e][k] = rows[e][k]
    BY <1>3, <2>1
  <2> QED BY <1>0, <2>2 DEF TagsHonest, Unreferenced
<1>7. RowsDistinct'
  <2> SUFFICES ASSUME NEW e \in Encodings, NEW f \in Encodings, NEW j \in Keys, NEW k \in Keys,
                      rows'[e][j].pay = rows'[f][k].pay, rows'[e][j].pay # NoPayload
               PROVE  e = f /\ j = k
    BY DEF RowsDistinct
  <2> QED BY <1>0, <1>3, <1>4 DEF RowsDistinct, PendingRequest, Unreferenced
<1>8. NoDangling'
  BY <1>0, <1>2, <1>3, <1>4 DEF NoDangling, PendingRequest
<1>9. WirePending'
  <2> SUFFICES ASSUME NEW v \in wire', v.kind = "publish"
               PROVE  /\ \A e \in Encodings, k \in Keys : rows'[e][k].pay # v.row.pay
                      /\ \A c \in Clients : call[c].tag.pay # v.row.pay
                      /\ payloads[v.row.pay] = v.row.data
                      /\ \A u \in wire' : u.row.pay = v.row.pay => u = v
    BY <1>2 DEF WirePending, PendingRequest, Unreferenced
  <2>1. v \in wire /\ v # w /\ PendingRequest(v) /\ \A u \in wire : u.row.pay = v.row.pay => u = v
    BY <1>2 DEF WirePending
  <2>2. v.row.pay # NoPayload
    BY <1>0, <2>1, SentinelAssumption DEF WireTyped, Publishing, Removing
  <2>3. \A e \in Encodings, k \in Keys : rows'[e][k].pay # v.row.pay
    BY <1>3, <2>1, <2>2 DEF PendingRequest, Unreferenced
  <2> QED BY <1>2, <2>1, <2>3 DEF PendingRequest
<1> QED BY <1>5, <1>6, <1>7, <1>8, <1>9 DEF DanglingInv

(* While nobody is hasty, rows keep their payloads. *)
LEMMA PendingPreserved ==
  ASSUME LateBase, LateOwned, LatePending, PublishedOnce, [LateNext]_lateVars
  PROVE  LatePending'
<1> SUFFICES ASSUME ~hasty' PROVE DanglingInv' /\ WirePending'
  BY Zenon DEF LatePending
<1>0. /\ TypeOK /\ LocalsInv /\ PointsInv /\ WireTyped /\ CleanupInv /\ WireOwned
      /\ DanglingInv /\ WirePending
  BY HasteStays, Zenon DEF LateBase, LateOwned, LatePending
<1>1. ASSUME [Next]_vars
      PROVE  DanglingInv' /\ \A w \in wire : w.kind = "publish" => PendingRequest(w)'
  <2>1. DanglingInv'
    <3>1. CASE UNCHANGED vars
      BY <1>0, <3>1 DEF vars, DanglingInv, Unpublished, PrePublish, Unreferenced, TagsHonest,
                        RowsDistinct, NoDangling
    <3>2. TypeOK' /\ CleanupInv'
      BY <1>0, <1>1, NextPreserves
    <3>3. ASSUME NEW c \in Clients, NEW s \in Call, Moves(c, s), LocalInv(s),
                 CodeStep(c) \/ CallerStep(c)
          PROVE  DanglingInv'
      BY <1>0, <3>2, <3>3, PayloadsMoved, DanglingMove
    <3> QED BY <1>0, <1>1, <3>1, <3>3, StepCases
  <2>2. ASSUME NEW w \in wire, w.kind = "publish"
        PROVE  PendingRequest(w)'
    <3>1. Publishing(w) /\ OwnedRequest(w) /\ PendingRequest(w)
      BY <1>0, <2>2 DEF WireTyped, WireOwned, WirePending, Removing
    <3> QED BY <1>0, <1>1, <3>1, StepKeepsPending
  <2> QED BY <2>1, <2>2
<1>2. CASE [Next]_vars /\ wire' = wire
  BY <1>0, <1>1, <1>2 DEF WirePending
<1>3. ASSUME NEW c \in Clients, Next, PublishGivenUp(c),
             wire' = wire \cup {PublishRequest(call[c])}
      PROVE  DanglingInv' /\ WirePending'
  <2>1. ASSUME NEW w, w = PublishRequest(call[c])
        PROVE  PendingRequest(w)' /\ \A v \in wire : v.row.pay # w.row.pay
    BY <1>0, <1>3, <2>1, RequestPending
  <2>2. ASSUME NEW w \in wire', w.kind = "publish"
        PROVE  PendingRequest(w)' /\ \A v \in wire' : v.row.pay = w.row.pay => v = w
    BY <1>0, <1>1, <1>3, <2>1, <2>2 DEF WirePending
  <2> QED BY <1>1, <1>3, <2>2 DEF WirePending
<1>4. ASSUME NEW c \in Clients, Next, wire' = wire \cup {RemoveRequest(call[c])}
      PROVE  DanglingInv' /\ WirePending'
  <2>1. RemoveRequest(call[c]).kind = "remove" /\ RemoveRequest(call[c]).row.pay = NoPayload
    BY DEF RemoveRequest, NoRow
  <2>2. ASSUME NEW w \in wire', w.kind = "publish"
        PROVE  PendingRequest(w)' /\ \A v \in wire' : v.row.pay = w.row.pay => v = w
    <3>1. w \in wire /\ w.row.pay # NoPayload
      BY <1>0, <1>4, <2>1, <2>2, SentinelAssumption DEF WireTyped, Publishing, Removing
    <3> QED BY <1>0, <1>1, <1>4, <2>1, <2>2, <3>1 DEF WirePending
  <2> QED BY <1>1, <1>4, <2>2 DEF WirePending
<1>5. ASSUME NEW w \in wire, Arrives(w)
      PROVE  DanglingInv' /\ WirePending'
  BY <1>0, <1>5, ArrivalKeepsPending
<1> QED BY <1>0, <1>2, <1>3, <1>4, <1>5, LateSteps

(***************************************************************************)
(* A row that can be read has its payload (blob.go, Put and Delete) also   *)
(* when manifests are created and deleted late, as long as calls give up   *)
(* requests only when their context ends and no publish that took effect   *)
(* is sent again.                                                          *)
(***************************************************************************)
THEOREM RowsHavePayloadsLate == LateSpec /\ PublishedOnce => []NoDanglingUnlessHasty
<1>1. LateInit => LatePending
  BY DanglingInit DEF LateInit, LatePending, WirePending
<1>2. LateBase /\ LateOwned /\ LatePending /\ PublishedOnce /\ [LateNext]_lateVars => LatePending'
  BY PendingPreserved
<1>3. PublishedOnce => PublishedOnce'
  BY DEF PublishedOnce
<1>4. LatePending => NoDanglingUnlessHasty
  BY Zenon DEF LatePending, NoDanglingUnlessHasty, DanglingInv
<1> QED BY <1>1, <1>2, <1>3, <1>4, OwnedHolds, PTL DEF LateSpec

=============================================================================
