--------------------------- MODULE BlobStoreProofs ---------------------------
(***************************************************************************)
(* Proofs about BlobStore, for every value of its constants: any number of *)
(* clients, keys, contents and attempts, with or without lost answers and  *)
(* spurious 400s.                                                          *)
(*                                                                         *)
(* The first half is about payloads: no cleanup removes a published one,   *)
(* and every published byte was verified.  The second is about what        *)
(* callers are promised: slots balance, blobs are immutable, results are   *)
(* true, the protocol implements the contract Blobs, and rows have their   *)
(* payloads.  It goes through Move, a summary of what one step of a call   *)
(* does to its locals and to the rows.                                     *)
(***************************************************************************)
EXTENDS BlobStoreRefinement, FiniteSetTheorems, TLAPS

(* The outcomes of readManifestAt. *)
Outcomes == {"found", "notfound", "integrity", "backend", "ctx"}

(* The locals of a Put that has drawn its payload id. *)
PutLocals(r) ==
  r.op = "put" /\ r.pay # NoPayload /\ r.key # NoKey /\ r.data \in Contents

(* The step from locals r to s stays inside one call. *)
SameCall(r, s) == s.op = r.op /\ s.key = r.key /\ s.pay = r.pay

(* What a step of readManifestAt's caller does to the locals r. *)
ReadsOn(r, s, o) ==
  /\ s \in Call
  /\ SameCall(r, s)
  /\ s.data = r.data
  /\ s.pc \notin {"idle", "acquire", "upload", "verify"}
  /\ LocalInv(s)
  /\ s.safe => \/ r.safe
               \/ /\ r.op = "put" /\ r.cand = "current"
                  /\ o = "found" /\ r.tag.pay # r.pay

-----------------------------------------------------------------------------
(* The sentinels have their types. *)
LEMMA SentinelType ==
  /\ NoRow \in Row
  /\ BadRow \in Row
  /\ NoCall \in Call
  /\ LocalInv(NoCall)
BY BoundAssumption
   DEF NoRow, BadRow, Row, NoCall, Call, Pcs, Results, Encodings, LocalInv

(* The fields of a row; only absent and damaged rows name no payload. *)
LEMMA RowFields ==
  ASSUME NEW t \in Row
  PROVE  /\ t.data \in Contents \cup {NoData, Garbage}
         /\ t.pay \in Payloads \cup {NoPayload}
         /\ t \notin {NoRow, BadRow} => t.data \in Contents /\ t.pay \in Payloads
<1>1. CASE t \in [data: Contents, pay: Payloads]
  BY <1>1
<1>2. CASE t \in {NoRow, BadRow}
  BY <1>2 DEF NoRow, BadRow
<1> QED BY <1>1, <1>2 DEF Row

(* The error a call reports is one of its results. *)
LEMMA ErrForType ==
  ASSUME NEW live
  PROVE  ErrFor(live) \in {"backend", "ctx"} /\ ErrFor(live) \in Results
                                             /\ ErrFor(live) \in Outcomes
BY DEF ErrFor, Results, Outcomes

(* Returning keeps every local but pc and res. *)
LEMMA EndedFacts ==
  ASSUME NEW r \in Call, NEW res \in Results, LocalInv(r)
  PROVE  LET s == Ended(r, res) IN
         /\ s \in Call /\ SameCall(r, s) /\ LocalInv(s)
         /\ s.pc = "done" /\ s.safe = r.safe /\ s.data = r.data
<1> DEFINE s == Ended(r, res)
<1>1. s \in Call
  BY DEF Ended, Call, Pcs
<1>2. SameCall(r, s) /\ s.pc = "done" /\ s.safe = r.safe /\ s.data = r.data
  BY DEF Ended, Call, SameCall
<1>3. LocalInv(s)
  <2> HIDE DEF s
  <2> QED BY <1>2 DEF LocalInv, SameCall
<1> QED BY <1>1, <1>2, <1>3

(* Put's return keeps them too; it passes through cleanup only when safe. *)
LEMMA PutEndedFacts ==
  ASSUME NEW r \in Call, NEW res \in Results, PutLocals(r)
  PROVE  LET s == PutEnded(r, res) IN
         /\ s \in Call /\ SameCall(r, s) /\ LocalInv(s)
         /\ s.pc \in {"cleanup", "done"} /\ s.safe = r.safe /\ s.data = r.data
BY DEF PutEnded, Call, Pcs, SameCall, LocalInv, PutLocals

(* Publishing starts with cleanup forbidden. *)
LEMMA StartPublishFacts ==
  ASSUME NEW r \in Call, PutLocals(r)
  PROVE  LET s == StartPublish(r) IN
         /\ s \in Call /\ SameCall(r, s) /\ LocalInv(s)
         /\ s.pc = "publish" /\ ~s.safe /\ s.data = r.data
BY SentinelType DEF StartPublish, Call, Pcs, Encodings, SameCall, LocalInv, PutLocals

(* Going on to the legacy encoding. *)
LEMMA NextCandidateFacts ==
  ASSUME NEW r \in Call, LocalInv(r),
         r.pc \notin {"idle", "acquire", "done"}
  PROVE  LET s == NextCandidate(r) IN
         /\ s \in Call /\ SameCall(r, s) /\ LocalInv(s)
         /\ s.pc = "head" /\ s.safe = r.safe /\ s.data = r.data
<1> DEFINE s == NextCandidate(r)
<1>1. s \in Call
  BY SentinelType DEF NextCandidate, Call, Pcs, Encodings
<1>2. SameCall(r, s) /\ s.pc = "head" /\ s.safe = r.safe /\ s.data = r.data
  BY DEF NextCandidate, Call, SameCall
<1>3. LocalInv(s)
  <2> HIDE DEF s
  <2> QED BY <1>2 DEF LocalInv, SameCall
<1> QED BY <1>1, <1>2, <1>3

(* A legacy row decides the Put without making an unsafe cleanup safe *)
(* (settleAgainstLegacyManifest). *)
LEMMA SettleFacts ==
  ASSUME NEW r \in Call, NEW o \in Outcomes, PutLocals(r)
  PROVE  ReadsOn(r, Settle(r, o), o)
<1>1. CASE o = "found"
  <2>1. Verdict(r) \in Results
    BY DEF Verdict, Results
  <2>2. Settle(r, o) = PutEnded(r, Verdict(r))
    BY <1>1, Zenon DEF Settle
  <2> QED BY <2>1, <2>2, PutEndedFacts DEF ReadsOn
<1>2. CASE o = "notfound"
  <2>1. Settle(r, o) = StartPublish(r)
    BY <1>2 DEF Settle
  <2> QED BY <2>1, StartPublishFacts DEF ReadsOn
<1>3. CASE o \notin {"found", "notfound"}
  <2>1. Settle(r, o) = PutEnded(r, o)
    BY <1>3 DEF Settle
  <2>2. o \in Results
    BY <1>3 DEF Outcomes, Results
  <2> QED BY <2>1, <2>2, PutEndedFacts DEF ReadsOn
<1> QED BY <1>1, <1>2, <1>3

(* Resolving a publish makes cleanup safe only when the manifest that was *)
(* read names another payload. *)
LEMMA ResolveFacts ==
  ASSUME NEW r \in Call, NEW o \in Outcomes, PutLocals(r), r.cand = "current"
  PROVE  ReadsOn(r, Resolve(r, o), o)
<1>1. CASE o = "found"
  <2> DEFINE q == [r EXCEPT !.safe = r.tag.pay # r.pay]
  <2>1. q \in Call /\ SameCall(r, q) /\ q.data = r.data /\ q.safe = (r.tag.pay # r.pay)
    BY DEF Call, SameCall
  <2>2. Verdict(r) \in Results
    BY DEF Verdict, Results
  <2>3. Resolve(r, o) = PutEnded(q, Verdict(r))
    BY <1>1 DEF Resolve
  <2> HIDE DEF q
  <2>4. ReadsOn(r, PutEnded(q, Verdict(r)), o)
    BY <1>1, <2>1, <2>2, PutEndedFacts DEF ReadsOn, SameCall, PutLocals
  <2> QED BY <2>3, <2>4
<1>2. CASE o # "found"
  <2>1. Resolve(r, o) = PutEnded(r, ErrFor(r.live))
    BY <1>2 DEF Resolve
  <2> QED BY <2>1, ErrForType, PutEndedFacts DEF ReadsOn
<1> QED BY <1>1, <1>2

(* Delete goes on to the next encoding, or returns. *)
LEMMA ScanNextFacts ==
  ASSUME NEW r \in Call, LocalInv(r), r.pc \notin {"idle", "acquire", "done"}
  PROVE  LET s == ScanNext(r) IN
         /\ s \in Call /\ SameCall(r, s) /\ LocalInv(s)
         /\ s.pc \in {"head", "done"} /\ s.safe = r.safe /\ s.data = r.data
BY NextCandidateFacts, EndedFacts DEF ScanNext, Results

(* Moving on with only pc changed, in a call that is not a Put. *)
LEMMA MovedFacts ==
  ASSUME NEW r \in Call, LocalInv(r), r.op # "put", r.pc \notin {"idle", "done"},
         r.tag \notin {NoRow, BadRow},
         NEW p \in {"fetch", "rmrow", "rmpay", "stream"}
  PROVE  LET s == [r EXCEPT !.pc = p] IN
         /\ s \in Call /\ SameCall(r, s) /\ LocalInv(s)
         /\ s.pc = p /\ s.safe = r.safe /\ s.data = r.data
<1> DEFINE s == [r EXCEPT !.pc = p]
<1>1. s \in Call
  BY DEF Call, Pcs
<1>2. SameCall(r, s) /\ s.pc = p /\ s.safe = r.safe /\ s.data = r.data /\ s.tag = r.tag
  BY DEF Call, SameCall
<1>3. LocalInv(s)
  <2> HIDE DEF s
  <2> QED BY <1>2 DEF LocalInv, SameCall
<1> QED BY <1>1, <1>2, <1>3

(* Get goes on to the payload, the next encoding, or returns (locateManifest). *)
LEMMA LocateFacts ==
  ASSUME NEW r \in Call, NEW o \in Outcomes, LocalInv(r), r.op = "get",
         r.pc \in {"head", "get"}, o = "found" => r.tag \notin {NoRow, BadRow}
  PROVE  ReadsOn(r, Locate(r, o), o)
<1>1. CASE o = "found"
  <2> DEFINE s == [r EXCEPT !.pc = "fetch"]
  <2>1. Locate(r, o) = s
    BY <1>1 DEF Locate
  <2>2. /\ s \in Call /\ SameCall(r, s) /\ LocalInv(s)
        /\ s.pc = "fetch" /\ s.safe = r.safe /\ s.data = r.data
    BY <1>1, MovedFacts
  <2> HIDE DEF s
  <2> QED BY <2>1, <2>2 DEF ReadsOn
<1>2. CASE o = "notfound" /\ HasNextCandidate(r)
  <2>1. Locate(r, o) = NextCandidate(r)
    BY <1>2 DEF Locate
  <2> QED BY <2>1, NextCandidateFacts DEF ReadsOn
<1>3. CASE o # "found" /\ ~(o = "notfound" /\ HasNextCandidate(r))
  <2>1. Locate(r, o) = Ended(r, o)
    BY <1>3 DEF Locate
  <2>2. o \in Results
    BY <1>3 DEF Outcomes, Results
  <2> QED BY <2>1, <2>2, EndedFacts DEF ReadsOn
<1> QED BY <1>1, <1>2, <1>3

(* Delete goes on to remove the row, to the next encoding, or returns. *)
LEMMA ScanFacts ==
  ASSUME NEW r \in Call, NEW o \in Outcomes, LocalInv(r), r.op # "put",
         r.pc \in {"head", "get"}, o = "found" => r.tag \notin {NoRow, BadRow}
  PROVE  ReadsOn(r, Scan(r, o), o)
<1>1. CASE o = "found"
  <2> DEFINE s == [r EXCEPT !.pc = "rmrow"]
  <2>1. Scan(r, o) = s
    BY <1>1 DEF Scan
  <2>2. /\ s \in Call /\ SameCall(r, s) /\ LocalInv(s)
        /\ s.pc = "rmrow" /\ s.safe = r.safe /\ s.data = r.data
    BY <1>1, MovedFacts
  <2> HIDE DEF s
  <2> QED BY <2>1, <2>2 DEF ReadsOn
<1>2. CASE o = "notfound"
  <2>1. Scan(r, o) = ScanNext(r)
    BY <1>2 DEF Scan
  <2> QED BY <2>1, ScanNextFacts DEF ReadsOn
<1>3. CASE o \notin {"found", "notfound"}
  <2>1. Scan(r, o) = Ended(r, o)
    BY <1>3 DEF Scan
  <2>2. o \in Results
    BY <1>3 DEF Outcomes, Results
  <2> QED BY <2>1, <2>2, EndedFacts DEF ReadsOn
<1> QED BY <1>1, <1>2, <1>3

(* Whatever readManifestAt answers, its caller goes on within its call, and *)
(* only the resolution of a publish can make cleanup safe.                  *)
LEMMA AfterReadFacts ==
  ASSUME NEW r \in Call, NEW o \in Outcomes, LocalInv(r),
         r.pc \in {"head", "get"}, o = "found" => r.tag \notin {NoRow, BadRow}
  PROVE  ReadsOn(r, AfterRead(r, o), o)
<1>0. r.cand \in {"current", "legacy"}
  BY DEF Call, Encodings
<1>1. r.op = "put" => PutLocals(r)
  BY DEF LocalInv, PutLocals
<1>2. CASE r.op = "put" /\ r.cand = "legacy"
  <2>1. AfterRead(r, o) = Settle(r, o)
    BY <1>2 DEF AfterRead
  <2> QED BY <1>1, <1>2, <2>1, SettleFacts
<1>3. CASE r.op = "put" /\ r.cand = "current"
  <2>1. AfterRead(r, o) = Resolve(r, o)
    BY <1>3 DEF AfterRead
  <2> QED BY <1>1, <1>3, <2>1, ResolveFacts
<1>4. CASE r.op = "get"
  <2>1. AfterRead(r, o) = Locate(r, o)
    BY <1>4 DEF AfterRead
  <2> QED BY <1>4, <2>1, LocateFacts
<1>5. CASE r.op \notin {"put", "get"}
  <2>1. AfterRead(r, o) = Scan(r, o)
    BY <1>5 DEF AfterRead
  <2> QED BY <1>5, <2>1, ScanFacts
<1> QED BY <1>0, <1>2, <1>3, <1>4, <1>5

-----------------------------------------------------------------------------
(* The history variable keeps its type. *)
LEMMA ObserveType ==
  ASSUME TypeOK, Observe,
         rows' \in [Encodings -> [Keys -> Row]], call' \in [Clients -> Call]
  PROVE  seen' \in [Clients -> SUBSET (Contents \cup {NoData, Garbage})]
<1> DEFINE Data == Contents \cup {NoData, Garbage}
<1>1. \A k \in Keys : ValueIn(rows', k) \in Data
  BY RowFields DEF ValueIn, Encodings
<1>2. \A c \in Clients : call'[c].key \in Keys \cup {NoKey}
  BY DEF Call
<1>3. \A c \in Clients : seen[c] \in SUBSET Data
  BY DEF TypeOK
<1>4. ASSUME NEW c \in Clients
      PROVE  (CASE call'[c].key = NoKey -> {}
               [] call'[c].key # NoKey /\ call[c].pc \in {"stream", "cleanup", "done"} -> seen[c]
               [] OTHER -> seen[c] \cup {ValueIn(rows', call'[c].key)}) \in SUBSET Data
  <2> HIDE DEF Data
  <2>1. CASE call'[c].key = NoKey
    BY <2>1
  <2>2. CASE call'[c].key # NoKey /\ call[c].pc \in {"stream", "cleanup", "done"}
    BY <2>2, <1>3
  <2>3. CASE call'[c].key # NoKey /\ call[c].pc \notin {"stream", "cleanup", "done"}
    BY <2>3, <1>1, <1>2, <1>3
  <2> QED BY <2>1, <2>2, <2>3
<1> HIDE DEF Data
<1>5. seen' \in [Clients -> SUBSET Data]
  BY <1>4, Zenon DEF Observe
<1> QED BY <1>5 DEF Data

-----------------------------------------------------------------------------
(***************************************************************************)
(* The effect of a step of client c, to locals s, that CleanupInv allows:  *)
(* rows are removed, or its own row is written while it publishes; a       *)
(* payload is removed, or its own one is written while it uploads; and     *)
(* cleanup becomes safe only for an unreferenced payload.                  *)
(***************************************************************************)
RowsEffect(c) ==
  /\ rows' \in [Encodings -> [Keys -> Row]]
  /\ \A e \in Encodings, k \in Keys :
       \/ rows'[e][k] = rows[e][k]
       \/ rows'[e][k] = NoRow
       \/ /\ call[c].pc = "publish" /\ e = "current" /\ k = call[c].key
          /\ rows'[e][k] = OwnRow(call[c])

PayloadsEffect(c) ==
  /\ payloads' \in [Payloads -> Contents \cup {NoData, Garbage}]
  /\ \A p \in Payloads :
       \/ payloads'[p] = payloads[p]
       \/ payloads'[p] = NoData
       \/ call[c].pc = "upload" /\ p = call[c].pay

Effect(c, s) ==
  /\ call' = [call EXCEPT ![c] = s]
  /\ s \in Call /\ SameCall(call[c], s) /\ LocalInv(s)
  /\ s.pc # "upload"
  /\ used' = used
  /\ held' \subseteq Clients
  /\ RowsEffect(c)
  /\ PayloadsEffect(c)
  /\ s.safe => Unreferenced(call[c].pay)'
  /\ s.op = "put" /\ s.pc \in {"head", "get", "publish"}
       => payloads'[s.pay] \in {s.data, NoData}
  /\ Observe

(* Such a step preserves the types and the invariant. *)
LEMMA EffectPreserves ==
  ASSUME TypeOK, CleanupInv, NEW c \in Clients, NEW s, Effect(c, s)
  PROVE  TypeOK' /\ CleanupInv'
<1> USE DEF Effect
<1>1. /\ call' \in [Clients -> Call]
      /\ call'[c] = s
      /\ \A d \in Clients : d # c => call'[d] = call[d]
  BY DEF TypeOK
<1>2. \A d \in Clients : call'[d].pay = call[d].pay /\ call'[d].key = call[d].key
  BY <1>1 DEF SameCall
<1>3. TypeOK'
  BY <1>1, ObserveType DEF TypeOK, RowsEffect, PayloadsEffect
<1>4. \A d \in Clients : LocalInv(call'[d])
  BY <1>1 DEF CleanupInv
<1>5. \A d \in Clients : call[d].pay \in Payloads \cup {NoPayload}
  BY DEF TypeOK, Call
(* a row after the step that names a payload *)
<1>6. ASSUME NEW e \in Encodings, NEW k \in Keys, rows'[e][k].pay # NoPayload
      PROVE  \/ rows'[e][k] = rows[e][k]
             \/ /\ call[c].pc = "publish" /\ e = "current" /\ k = call[c].key
                /\ rows'[e][k].pay = call[c].pay /\ rows'[e][k].data = call[c].data
                /\ call[c].op = "put" /\ ~call[c].safe
  BY <1>6 DEF RowsEffect, OwnRow, NoRow, CleanupInv, LocalInv
<1>7. IdsUsed'
  <2>1. \A d \in Clients : call'[d].pay # NoPayload => call'[d].pay \in used'
    BY <1>2 DEF CleanupInv, IdsUsed
  <2>2. ASSUME NEW e \in Encodings, NEW k \in Keys, rows'[e][k].pay # NoPayload
        PROVE  rows'[e][k].pay \in used'
    BY <1>6, <2>2 DEF CleanupInv, IdsUsed
  <2> QED BY <2>1, <2>2 DEF IdsUsed
<1>8. OwnersDistinct'
  BY <1>2 DEF CleanupInv, OwnersDistinct
<1>9. RowsOwned'
  <2> SUFFICES ASSUME NEW d \in Clients, NEW e \in Encodings, NEW k \in Keys,
                      call[d].pay # NoPayload, rows'[e][k].pay = call[d].pay
               PROVE  e = "current" /\ k = call[d].key
    BY <1>2 DEF RowsOwned
  <2>1. CASE rows'[e][k] = rows[e][k]
    BY <2>1 DEF CleanupInv, RowsOwned
  <2>2. CASE rows'[e][k] # rows[e][k]
    BY <2>2, <1>6 DEF CleanupInv, OwnersDistinct
  <2> QED BY <2>1, <2>2
<1>10. SafeUnreferenced'
  <2> SUFFICES ASSUME NEW d \in Clients, call'[d].safe \/ call'[d].pc = "upload",
                      NEW e \in Encodings, NEW k \in Keys
               PROVE  rows'[e][k].pay # call[d].pay
    BY <1>2 DEF SafeUnreferenced, Unreferenced
  <2>1. CASE d = c
    BY <2>1, <1>1, <1>2 DEF Unreferenced
  <2>2. CASE d # c
    <3>1. (call[d].safe \/ call[d].pc = "upload") /\ call[d].pay # NoPayload
      BY <2>2, <1>1 DEF CleanupInv, LocalInv
    <3>2. rows[e][k].pay # call[d].pay
      BY <3>1 DEF CleanupInv, SafeUnreferenced, Unreferenced
    <3>3. call[c].pay # call[d].pay
      BY <3>1, <2>2 DEF CleanupInv, OwnersDistinct
    <3> QED BY <1>6, <3>1, <3>2, <3>3
  <2> QED BY <2>1, <2>2
<1>11. VerifiedBytes'
  <2> SUFFICES ASSUME NEW d \in Clients, call'[d].op = "put",
                      call'[d].pc \in {"head", "get", "publish"}
               PROVE  payloads'[call'[d].pay] \in {call'[d].data, NoData}
    BY DEF VerifiedBytes
  <2>1. CASE d = c
    BY <2>1, <1>1
  <2>2. CASE d # c
    <3>1. call'[d] = call[d] /\ call[d].pay # NoPayload
      BY <2>2, <1>1 DEF CleanupInv, LocalInv
    <3>2. call[c].pay # call[d].pay
      BY <3>1, <2>2 DEF CleanupInv, OwnersDistinct
    <3>3. payloads[call[d].pay] \in {call[d].data, NoData}
      BY <3>1 DEF CleanupInv, VerifiedBytes
    <3> QED BY <3>1, <3>2, <3>3, <1>5 DEF PayloadsEffect
  <2> QED BY <2>1, <2>2
<1>12. PayloadNeverWrong'
  <2> SUFFICES ASSUME NEW e \in Encodings, NEW k \in Keys, rows'[e][k].pay # NoPayload
               PROVE  payloads'[rows'[e][k].pay] \in {rows'[e][k].data, NoData}
    BY DEF PayloadNeverWrong
  <2>1. rows'[e][k].pay \in Payloads
    BY RowFields DEF RowsEffect
  <2>2. CASE rows'[e][k] = rows[e][k]
    <3>1. payloads[rows[e][k].pay] \in {rows[e][k].data, NoData}
      BY <2>2 DEF CleanupInv, PayloadNeverWrong
    <3>2. call[c].pc = "upload" => rows[e][k].pay # call[c].pay
      BY DEF CleanupInv, SafeUnreferenced, Unreferenced
    <3> QED BY <2>1, <2>2, <3>1, <3>2 DEF PayloadsEffect
  <2>3. CASE rows'[e][k] # rows[e][k]
    <3>1. /\ call[c].pc = "publish" /\ call[c].op = "put"
          /\ rows'[e][k].pay = call[c].pay /\ rows'[e][k].data = call[c].data
      BY <2>3, <1>6
    <3>2. payloads[call[c].pay] \in {call[c].data, NoData}
      BY <3>1 DEF CleanupInv, VerifiedBytes
    <3> QED BY <2>1, <3>1, <3>2 DEF PayloadsEffect
  <2> QED BY <2>2, <2>3
<1> QED BY <1>3, <1>4, <1>7, <1>8, <1>9, <1>10, <1>11, <1>12 DEF CleanupInv

-----------------------------------------------------------------------------
(* The locals of a running call. *)
LEMMA CallFacts ==
  ASSUME TypeOK, CleanupInv, NEW c \in Clients
  PROVE  /\ call[c] \in Call /\ LocalInv(call[c])
         /\ call[c].live \in BOOLEAN /\ call[c].data \in Contents \cup {NoData, Garbage}
         /\ call[c].key \in Keys \cup {NoKey}
         /\ call[c].pay \in Payloads \cup {NoPayload}
BY DEF TypeOK, CleanupInv, Call

(* The context of a call expires. *)
LEMMA LiveFacts ==
  ASSUME NEW r \in Call, LocalInv(r), NEW live \in BOOLEAN
  PROVE  LET s == [r EXCEPT !.live = live] IN
         /\ s \in Call /\ SameCall(r, s) /\ LocalInv(s)
         /\ s.pc = r.pc /\ s.safe = r.safe /\ s.data = r.data
         /\ s.cand = r.cand /\ s.tag = r.tag /\ s.tries = r.tries
<1> DEFINE s == [r EXCEPT !.live = live]
<1>1. s \in Call
  BY DEF Call
<1>2. /\ SameCall(r, s) /\ s.pc = r.pc /\ s.safe = r.safe /\ s.data = r.data
      /\ s.cand = r.cand /\ s.tag = r.tag /\ s.tries = r.tries
  BY DEF Call, SameCall
<1>3. LocalInv(s)
  <2> HIDE DEF s
  <2> QED BY <1>2 DEF LocalInv, SameCall
<1> QED BY <1>1, <1>2, <1>3

(* A step that leaves rows and payloads alone. *)
LEMMA QuietStep ==
  ASSUME TypeOK, CleanupInv, NEW c \in Clients, NEW s \in Call,
         SameCall(call[c], s), LocalInv(s), s.pc # "upload",
         s.safe => call[c].safe \/ Unreferenced(call[c].pay),
         s.op = "put" /\ s.pc \in {"head", "get", "publish"}
           => payloads[s.pay] \in {s.data, NoData},
         Step(c, s), UNCHANGED store, Observe
  PROVE  TypeOK' /\ CleanupInv'
<1>1. s.safe => Unreferenced(call[c].pay)
  BY DEF CleanupInv, SafeUnreferenced
<1>2. call' = [call EXCEPT ![c] = s] /\ held' \subseteq Clients
  BY DEF Step, Release, TypeOK
<1>3. call'[c].pay = call[c].pay
  BY <1>2 DEF SameCall, TypeOK
<1>4. s.safe => Unreferenced(call[c].pay)'
  BY <1>1, <1>3 DEF Unreferenced, store
<1>5. RowsEffect(c) /\ PayloadsEffect(c) /\ used' = used
  BY DEF RowsEffect, PayloadsEffect, TypeOK, store
<1>6. Effect(c, s)
  BY <1>2, <1>4, <1>5 DEF Effect, store
<1> QED BY <1>6, EffectPreserves

(* A call that returns without touching the store. *)
LEMMA EndStep ==
  ASSUME TypeOK, CleanupInv, NEW c \in Clients, NEW live \in BOOLEAN, NEW res \in Results,
         Step(c, Ended([call[c] EXCEPT !.live = live], res)), UNCHANGED store, Observe
  PROVE  TypeOK' /\ CleanupInv'
<1> DEFINE r == [call[c] EXCEPT !.live = live]
<1>1. r \in Call /\ SameCall(call[c], r) /\ LocalInv(r) /\ r.safe = call[c].safe
  BY CallFacts, LiveFacts
<1> HIDE DEF r
<1> DEFINE s == Ended(r, res)
<1>2. /\ s \in Call /\ SameCall(r, s) /\ LocalInv(s)
      /\ s.pc = "done" /\ s.safe = r.safe
  BY <1>1, EndedFacts
<1>3. Step(c, s)
  BY DEF r
<1> HIDE DEF s
<1>4. SameCall(call[c], s)
  BY <1>1, <1>2 DEF SameCall
<1> QED BY <1>1, <1>2, <1>3, <1>4, QuietStep

(* A Put that returns without touching the store. *)
LEMMA PutEndStep ==
  ASSUME TypeOK, CleanupInv, NEW c \in Clients, NEW live \in BOOLEAN, NEW res \in Results,
         call[c].pc \in {"upload", "verify", "publish"},
         Step(c, PutEnded([call[c] EXCEPT !.live = live], res)), UNCHANGED store, Observe
  PROVE  TypeOK' /\ CleanupInv'
<1> DEFINE r == [call[c] EXCEPT !.live = live]
<1>1. /\ r \in Call /\ SameCall(call[c], r) /\ LocalInv(r)
      /\ r.safe = call[c].safe /\ r.pc = call[c].pc
  BY CallFacts, LiveFacts
<1> HIDE DEF r
<1> DEFINE s == PutEnded(r, res)
<1>2. PutLocals(r)
  BY <1>1 DEF LocalInv, PutLocals
<1>3. /\ s \in Call /\ SameCall(r, s) /\ LocalInv(s)
      /\ s.pc \in {"cleanup", "done"} /\ s.safe = r.safe
  BY <1>1, <1>2, PutEndedFacts
<1>4. Step(c, s)
  BY DEF r
<1> HIDE DEF s
<1>5. SameCall(call[c], s)
  BY <1>1, <1>3 DEF SameCall
<1> QED BY <1>1, <1>3, <1>4, <1>5, QuietStep

(* A step of readManifestAt that ends with outcome o. *)
LEMMA ReadStepPreserves ==
  ASSUME TypeOK, CleanupInv, NEW c \in Clients, NEW live \in BOOLEAN, NEW o \in Outcomes,
         call[c].pc \in {"head", "get"},
         o = "found" => RowAt(call[c]) = call[c].tag /\ call[c].tag \notin {NoRow, BadRow},
         Step(c, AfterRead([call[c] EXCEPT !.live = live], o)), UNCHANGED store, Observe
  PROVE  TypeOK' /\ CleanupInv'
<1> DEFINE r == [call[c] EXCEPT !.live = live]
<1>1. /\ r \in Call /\ SameCall(call[c], r) /\ LocalInv(r)
      /\ r.safe = call[c].safe /\ r.pc = call[c].pc /\ r.data = call[c].data
      /\ r.cand = call[c].cand /\ r.tag = call[c].tag
  BY CallFacts, LiveFacts
<1> HIDE DEF r
<1> DEFINE s == AfterRead(r, o)
<1>2. ReadsOn(r, s, o)
  BY <1>1, AfterReadFacts
<1>3. Step(c, s)
  BY DEF r
<1> HIDE DEF s
<1>4. s \in Call /\ SameCall(call[c], s) /\ LocalInv(s) /\ s.pc # "upload" /\ s.data = call[c].data
  BY <1>1, <1>2 DEF ReadsOn, SameCall
<1>5. s.safe => call[c].safe \/ Unreferenced(call[c].pay)
  <2> SUFFICES ASSUME s.safe, ~call[c].safe
               PROVE  Unreferenced(call[c].pay)
    OBVIOUS
  <2>1. /\ call[c].op = "put" /\ call[c].cand = "current"
        /\ o = "found" /\ call[c].tag.pay # call[c].pay
    BY <1>1, <1>2 DEF ReadsOn, SameCall
  <2>2. rows["current"][call[c].key].pay # call[c].pay
    BY <2>1 DEF RowAt
  <2>3. call[c].pay # NoPayload
    BY <2>1 DEF CleanupInv, LocalInv
  <2> QED BY <2>2, <2>3 DEF Unreferenced, CleanupInv, RowsOwned
<1>6. s.op = "put" /\ s.pc \in {"head", "get", "publish"}
        => payloads[s.pay] \in {s.data, NoData}
  BY <1>4 DEF CleanupInv, VerifiedBytes, SameCall
<1> QED BY <1>3, <1>4, <1>5, <1>6, QuietStep

-----------------------------------------------------------------------------
(* Steps of a call that owns no payload id, and whose locals may be replaced. *)
LEMMA OutsideStep ==
  ASSUME TypeOK, CleanupInv, NEW c \in Clients, NEW s \in Call,
         LocalInv(s), s.pay = NoPayload, s.pc \notin {"upload", "publish"},
         s.op = "put" => s.pc \notin {"head", "get"},
         call' = [call EXCEPT ![c] = s], held' \subseteq Clients,
         UNCHANGED store, Observe
  PROVE  TypeOK' /\ CleanupInv'
<1>1. /\ call' \in [Clients -> Call]
      /\ call'[c] = s
      /\ \A d \in Clients : d # c => call'[d] = call[d]
  BY DEF TypeOK
<1>2. rows' = rows /\ payloads' = payloads /\ used' = used
  BY DEF store
<1>3. TypeOK'
  BY <1>1, <1>2, ObserveType DEF TypeOK
<1>4. \A d \in Clients : LocalInv(call'[d])
  BY <1>1 DEF CleanupInv
<1>5. ~s.safe
  BY DEF LocalInv
<1>6. IdsUsed'
  BY <1>1, <1>2 DEF CleanupInv, IdsUsed
<1>7. OwnersDistinct'
  BY <1>1 DEF CleanupInv, OwnersDistinct
<1>8. RowsOwned'
  BY <1>1, <1>2 DEF CleanupInv, RowsOwned
<1>9. SafeUnreferenced'
  BY <1>1, <1>2, <1>5 DEF CleanupInv, SafeUnreferenced, Unreferenced
<1>10. VerifiedBytes'
  BY <1>1, <1>2 DEF CleanupInv, VerifiedBytes
<1>11. PayloadNeverWrong'
  BY <1>2 DEF CleanupInv, PayloadNeverWrong
<1> QED BY <1>3, <1>4, <1>6, <1>7, <1>8, <1>9, <1>10, <1>11 DEF CleanupInv

(* A call begins with no payload id. *)
LEMMA BeginPreserves ==
  ASSUME TypeOK, CleanupInv, NEW c \in Clients, Begin(c)
  PROVE  TypeOK' /\ CleanupInv'
<1>1. PICK k \in Keys, o \in {"put", "get", "delete"}, d \in Contents :
        call' = [call EXCEPT ![c] =
                  [call[c] EXCEPT !.pc = "acquire", !.op = o, !.key = k,
                                  !.data = IF o = "put" THEN d ELSE NoData]]
  BY DEF Begin
<1> DEFINE x == IF o = "put" THEN d ELSE NoData
           s == [call[c] EXCEPT !.pc = "acquire", !.op = o, !.key = k, !.data = x]
<1>2. call[c] \in Call /\ call[c].pay = NoPayload /\ ~call[c].safe
  BY CallFacts DEF Begin, LocalInv
<1>3. x \in Contents \cup {NoData, Garbage}
  OBVIOUS
<1> HIDE DEF x
<1>4. s \in Call
  BY <1>2, <1>3 DEF Call, Pcs
<1>5. /\ s.pc = "acquire" /\ s.pay = NoPayload /\ ~s.safe /\ s.key # NoKey
      /\ s.op = "put" => s.data \in Contents
  BY <1>2, SentinelAssumption DEF Call, x
<1>6. call' = [call EXCEPT ![c] = s]
  BY <1>1 DEF x
<1>7. held' \subseteq Clients /\ UNCHANGED store /\ Observe
  BY DEF Begin, TypeOK
<1> HIDE DEF s
<1>8. LocalInv(s)
  BY <1>5 DEF LocalInv
<1> QED BY <1>4, <1>5, <1>6, <1>7, <1>8, OutsideStep

(* A call that has returned is forgotten. *)
LEMMA ReturnPreserves ==
  ASSUME TypeOK, CleanupInv, NEW c \in Clients, Return(c)
  PROVE  TypeOK' /\ CleanupInv'
<1>1. NoCall.pay = NoPayload /\ NoCall.pc = "idle"
  BY DEF NoCall
<1>2. held' \subseteq Clients /\ UNCHANGED store /\ Observe /\ call' = [call EXCEPT ![c] = NoCall]
  BY DEF Return, TypeOK
<1> QED BY <1>1, <1>2, SentinelType, OutsideStep

(* Refusals before a payload id is drawn. *)
LEMMA RefusedPreserves ==
  ASSUME TypeOK, CleanupInv, NEW c \in Clients,
         Reject(c) \/ AcquireNoIdentity(c) \/ AcquireTimeout(c)
  PROVE  TypeOK' /\ CleanupInv'
<1>1. call[c] \in Call /\ LocalInv(call[c]) /\ call[c].pay = NoPayload
  BY CallFacts DEF Reject, AcquireNoIdentity, AcquireTimeout, LocalInv
<1>2. held' \subseteq Clients /\ UNCHANGED store /\ Observe
  BY DEF Reject, AcquireNoIdentity, AcquireTimeout, TypeOK
<1>3. ASSUME NEW r \in Call, LocalInv(r), r.pay = NoPayload, NEW res \in Results,
             call' = [call EXCEPT ![c] = Ended(r, res)]
      PROVE  TypeOK' /\ CleanupInv'
  <2> DEFINE s == Ended(r, res)
  <2>1. s \in Call /\ SameCall(r, s) /\ LocalInv(s) /\ s.pc = "done"
    BY <1>3, EndedFacts
  <2>2. call' = [call EXCEPT ![c] = s]
    BY <1>3
  <2> HIDE DEF s
  <2> QED BY <1>2, <1>3, <2>1, <2>2, OutsideStep DEF SameCall
<1>4. CASE Reject(c)
  BY <1>1, <1>3, <1>4 DEF Reject, Results
<1>5. CASE AcquireNoIdentity(c)
  BY <1>1, <1>3, <1>5 DEF AcquireNoIdentity, Results
<1>6. CASE AcquireTimeout(c)
  <2> DEFINE r == [call[c] EXCEPT !.live = FALSE]
  <2>1. r \in Call /\ LocalInv(r) /\ r.pay = NoPayload
    BY <1>1, LiveFacts DEF SameCall
  <2>2. call' = [call EXCEPT ![c] = Ended(r, "ctx")]
    BY <1>6 DEF AcquireTimeout
  <2> HIDE DEF r
  <2> QED BY <2>1, <2>2, <1>3 DEF Results
<1> QED BY <1>4, <1>5, <1>6

(* A slot is taken; a Put draws an id that no row and no other call has. *)
LEMMA AcquirePreserves ==
  ASSUME TypeOK, CleanupInv, NEW c \in Clients, Acquire(c)
  PROVE  TypeOK' /\ CleanupInv'
<1>1. /\ call[c] \in Call /\ call[c].pay = NoPayload /\ ~call[c].safe /\ call[c].key # NoKey
      /\ call[c].op = "put" => call[c].data \in Contents
  BY CallFacts DEF Acquire, LocalInv
<1>2. held' \subseteq Clients /\ Observe /\ rows' = rows /\ payloads' = payloads
  BY DEF Acquire, TypeOK
<1>3. CASE call[c].op # "put"
  <2> DEFINE s == [call[c] EXCEPT !.pc = "head"]
  <2>1. s \in Call
    BY <1>1 DEF Call, Pcs
  <2>2. s.pc = "head" /\ s.pay = NoPayload /\ ~s.safe /\ s.op # "put" /\ s.key # NoKey
    BY <1>1, <1>3 DEF Call
  <2>3. call' = [call EXCEPT ![c] = s] /\ UNCHANGED store
    BY <1>2, <1>3 DEF Acquire, store
  <2> HIDE DEF s
  <2>4. LocalInv(s)
    BY <2>2 DEF LocalInv
  <2> QED BY <1>2, <2>1, <2>2, <2>3, <2>4, OutsideStep
<1>4. CASE call[c].op = "put"
  <2>1. PICK p \in Payloads \ used :
          /\ used' = used \cup {p}
          /\ call' = [call EXCEPT ![c] = [call[c] EXCEPT !.pc = "upload", !.pay = p]]
    BY <1>4 DEF Acquire
  <2> DEFINE s == [call[c] EXCEPT !.pc = "upload", !.pay = p]
  <2>2. s \in Call
    BY <1>1 DEF Call, Pcs
  <2>3. s.pc = "upload" /\ s.pay = p /\ ~s.safe /\ s.op = "put" /\ s.key # NoKey
        /\ s.data \in Contents
    BY <1>1, <1>4 DEF Call
  <2>4. call' = [call EXCEPT ![c] = s]
    BY <2>1
  <2>5. p # NoPayload /\ p \in used' /\ p \notin used /\ used' \subseteq Payloads
    BY <2>1, SentinelAssumption DEF TypeOK
  <2> HIDE DEF s
  <2>6. LocalInv(s)
    BY <2>3, <2>5 DEF LocalInv
  <2>7. /\ call' \in [Clients -> Call]
        /\ call'[c] = s
        /\ \A d \in Clients : d # c => call'[d] = call[d]
    BY <2>2, <2>4 DEF TypeOK
  <2>8. TypeOK'
    BY <1>2, <2>5, <2>7, ObserveType DEF TypeOK
  <2>9. \A d \in Clients : LocalInv(call'[d])
    BY <2>6, <2>7 DEF CleanupInv
  <2>10. \A e \in Encodings, k \in Keys : rows[e][k].pay # p
    BY <2>5 DEF CleanupInv, IdsUsed
  <2>11. \A d \in Clients : call[d].pay # p
    BY <2>5 DEF CleanupInv, IdsUsed
  <2>12. IdsUsed'
    BY <1>2, <2>1, <2>3, <2>5, <2>7 DEF CleanupInv, IdsUsed
  <2>13. OwnersDistinct'
    BY <2>3, <2>7, <2>11 DEF CleanupInv, OwnersDistinct
  <2>14. RowsOwned'
    BY <1>2, <2>3, <2>7, <2>10 DEF CleanupInv, RowsOwned
  <2>15. SafeUnreferenced'
    BY <1>2, <2>3, <2>7, <2>10 DEF CleanupInv, SafeUnreferenced, Unreferenced
  <2>16. VerifiedBytes'
    BY <1>2, <2>3, <2>7 DEF CleanupInv, VerifiedBytes
  <2>17. PayloadNeverWrong'
    BY <1>2 DEF CleanupInv, PayloadNeverWrong
  <2> QED BY <2>8, <2>9, <2>12, <2>13, <2>14, <2>15, <2>16, <2>17 DEF CleanupInv
<1> QED BY <1>3, <1>4

-----------------------------------------------------------------------------
(* Put's steps. *)

(* Assigning a local its own value changes nothing. *)
LEMMA SameLive ==
  ASSUME NEW r \in Call
  PROVE  [r EXCEPT !.live = r.live] = r
BY DEF Call

(* An acknowledged upload writes only the Put's own, still unnamed payload. *)
LEMMA UploadOkPreserves ==
  ASSUME TypeOK, CleanupInv, NEW c \in Clients, UploadOk(c)
  PROVE  TypeOK' /\ CleanupInv'
<1> DEFINE r == [call[c] EXCEPT !.safe = TRUE]
<1>1. /\ call[c] \in Call /\ call[c].pc = "upload" /\ call[c].op = "put"
      /\ PutLocals(call[c]) /\ call[c].pay \in Payloads
  BY CallFacts DEF UploadOk, LocalInv, PutLocals
<1>2. /\ r \in Call /\ SameCall(call[c], r) /\ r.safe
      /\ PutLocals(r)
  BY <1>1 DEF Call, SameCall, PutLocals
<1>3. PICK d \in {call[c].data, Garbage} :
        /\ payloads' = [payloads EXCEPT ![call[c].pay] = d]
        /\ \/ Step(c, [r EXCEPT !.pc = "verify"])
           \/ Step(c, PutEnded(r, "integrity"))
  BY DEF UploadOk
<1> HIDE DEF r
<1>4. rows' = rows /\ used' = used /\ Observe
  BY DEF UploadOk
<1>5. PICK s \in Call :
        /\ Step(c, s) /\ SameCall(r, s) /\ LocalInv(s)
        /\ s.pc \in {"verify", "cleanup", "done"}
  <2>1. CASE Step(c, [r EXCEPT !.pc = "verify"])
    <3> DEFINE s == [r EXCEPT !.pc = "verify"]
    <3>1. s \in Call
      BY <1>2 DEF Call, Pcs
    <3>2. SameCall(r, s) /\ s.pc = "verify" /\ s.safe /\ PutLocals(s)
      BY <1>2 DEF Call, SameCall, PutLocals
    <3> HIDE DEF s
    <3>3. LocalInv(s)
      BY <3>2 DEF LocalInv, PutLocals
    <3>4. Step(c, s)
      BY <2>1 DEF s
    <3> QED BY <3>1, <3>2, <3>3, <3>4
  <2>2. CASE Step(c, PutEnded(r, "integrity"))
    BY <1>2, <2>2, PutEndedFacts DEF Results
  <2> QED BY <1>3, <2>1, <2>2
<1>6. SameCall(call[c], s) /\ s.pay = call[c].pay
  BY <1>2, <1>5 DEF SameCall
<1>7. call' = [call EXCEPT ![c] = s] /\ held' \subseteq Clients /\ call'[c].pay = call[c].pay
  BY <1>5, <1>6 DEF Step, Release, TypeOK
<1>8. Unreferenced(call[c].pay)'
  <2>1. Unreferenced(call[c].pay)
    BY <1>1 DEF CleanupInv, SafeUnreferenced
  <2> QED BY <1>4, <1>7, <2>1 DEF Unreferenced
<1>9. RowsEffect(c)
  BY <1>4 DEF RowsEffect, TypeOK
<1>10. PayloadsEffect(c)
  BY <1>1, <1>3, CallFacts DEF PayloadsEffect, TypeOK
<1>11. Effect(c, s)
  BY <1>4, <1>5, <1>6, <1>7, <1>8, <1>9, <1>10 DEF Effect
<1> QED BY <1>11, EffectPreserves

(* A failed upload writes at most the Put's own payload, and ends the Put. *)
LEMMA UploadFailedPreserves ==
  ASSUME TypeOK, CleanupInv, NEW c \in Clients, UploadFailed(c)
  PROVE  TypeOK' /\ CleanupInv'
<1>1. PICK live \in {call[c].live, FALSE} :
        Step(c, PutEnded([call[c] EXCEPT !.live = live], ErrFor(live)))
  BY DEF UploadFailed
<1>0. live \in BOOLEAN /\ call[c].pc = "upload"
  BY CallFacts DEF UploadFailed
<1> DEFINE r == [call[c] EXCEPT !.live = live]
<1>2. /\ r \in Call /\ SameCall(call[c], r) /\ LocalInv(r)
      /\ r.safe = call[c].safe /\ r.pc = "upload"
  BY <1>0, CallFacts, LiveFacts
<1> HIDE DEF r
<1> DEFINE s == PutEnded(r, ErrFor(live))
<1>3. PutLocals(r)
  BY <1>2 DEF LocalInv, PutLocals
<1>4. /\ s \in Call /\ SameCall(r, s) /\ LocalInv(s)
      /\ s.pc \in {"cleanup", "done"} /\ s.safe = r.safe
  BY <1>2, <1>3, PutEndedFacts, ErrForType
<1>5. Step(c, s)
  BY <1>1 DEF r
<1> HIDE DEF s
<1>6. SameCall(call[c], s) /\ s.pay = call[c].pay
  BY <1>2, <1>4 DEF SameCall
<1>7. call' = [call EXCEPT ![c] = s] /\ held' \subseteq Clients /\ call'[c].pay = call[c].pay
  BY <1>4, <1>5, <1>6 DEF Step, Release, TypeOK
<1>8. rows' = rows /\ used' = used /\ Observe
  BY DEF UploadFailed
<1>9. Unreferenced(call[c].pay)'
  <2>1. Unreferenced(call[c].pay)
    BY DEF UploadFailed, CleanupInv, SafeUnreferenced
  <2> QED BY <1>7, <1>8, <2>1 DEF Unreferenced
<1>10. RowsEffect(c)
  BY <1>8 DEF RowsEffect, TypeOK
<1>11. PayloadsEffect(c)
  BY CallFacts DEF PayloadsEffect, TypeOK, UploadFailed
<1>12. Effect(c, s)
  BY <1>4, <1>6, <1>7, <1>8, <1>9, <1>10, <1>11 DEF Effect
<1> QED BY <1>12, EffectPreserves

(* An oversized source ends the Put before anything is stored. *)
LEMMA UploadTooLargePreserves ==
  ASSUME TypeOK, CleanupInv, NEW c \in Clients, UploadTooLarge(c)
  PROVE  TypeOK' /\ CleanupInv'
<1>1. [call[c] EXCEPT !.live = call[c].live] = call[c] /\ call[c].live \in BOOLEAN
  BY CallFacts, SameLive
<1> QED BY <1>1, PutEndStep DEF UploadTooLarge, Results

(* A Put passes verifyPayload only when its payload holds its content. *)
LEMMA VerifyPreserves ==
  ASSUME TypeOK, CleanupInv, NEW c \in Clients, VerifyOk(c) \/ VerifyFailed(c)
  PROVE  TypeOK' /\ CleanupInv'
<1>1. /\ call[c] \in Call /\ LocalInv(call[c]) /\ call[c].pc = "verify" /\ call[c].op = "put"
      /\ PutLocals(call[c]) /\ call[c].live \in BOOLEAN
  BY CallFacts DEF VerifyOk, VerifyFailed, LocalInv, PutLocals
<1>2. [call[c] EXCEPT !.live = call[c].live] = call[c]
  BY <1>1, SameLive
<1>3. UNCHANGED store /\ Observe
  BY DEF VerifyOk, VerifyFailed
<1>4. CASE VerifyFailed(c)
  <2>0. PICK live \in {call[c].live, FALSE} :
          \E o \in {ErrFor(live), "integrity"} :
            Step(c, PutEnded([call[c] EXCEPT !.live = live], o))
    BY <1>4 DEF VerifyFailed
  <2>1. PICK o \in {ErrFor(live), "integrity"} :
          Step(c, PutEnded([call[c] EXCEPT !.live = live], o))
    BY <2>0
  <2>2. o \in Results /\ live \in BOOLEAN
    BY <1>1, ErrForType DEF Results
  <2> QED BY <1>1, <1>3, <2>1, <2>2, PutEndStep
<1>5. CASE VerifyOk(c) /\ payloads[call[c].pay] # call[c].data
  <2>1. Step(c, PutEnded(call[c], "integrity"))
    BY <1>5 DEF VerifyOk
  <2> QED BY <1>1, <1>2, <1>3, <2>1, PutEndStep DEF Results
<1>6. CASE VerifyOk(c) /\ payloads[call[c].pay] = call[c].data
  <2> DEFINE s == AfterVerify(call[c])
  <2>1. Step(c, s)
    BY <1>6 DEF VerifyOk
  <2>2. /\ s \in Call /\ SameCall(call[c], s) /\ LocalInv(s)
        /\ s.pc \in {"head", "publish"} /\ (s.safe => call[c].safe) /\ s.data = call[c].data
    BY <1>1, StartPublishFacts, NextCandidateFacts DEF AfterVerify
  <2> HIDE DEF s
  <2>3. payloads[s.pay] \in {s.data, NoData}
    BY <1>6, <2>2 DEF SameCall
  <2> QED BY <1>3, <2>1, <2>2, <2>3, QuietStep
<1> QED BY <1>4, <1>5, <1>6

(* After a failed attempt the SDK tries again or the call handles the error. *)
LEMMA AttemptFacts ==
  ASSUME NEW r \in Call, LocalInv(r), r.pc \in {"publish", "rmrow"}, AttemptsLeft(r)
  PROVE  LET s == [r EXCEPT !.tries = @ + 1] IN
         /\ s \in Call /\ SameCall(r, s) /\ LocalInv(s)
         /\ s.pc = r.pc /\ s.safe = r.safe /\ s.data = r.data
<1> DEFINE s == [r EXCEPT !.tries = @ + 1]
<1>1. r.tries + 1 \in 0..(MaxAttempts - 1)
  BY BoundAssumption DEF Call, AttemptsLeft
<1>2. s \in Call
  BY <1>1 DEF Call
<1>3. SameCall(r, s) /\ s.pc = r.pc /\ s.safe = r.safe /\ s.data = r.data /\ s.tag = r.tag
  BY DEF Call, SameCall
<1>4. LocalInv(s)
  <2> HIDE DEF s
  <2> QED BY <1>3 DEF LocalInv, SameCall
<1> QED BY <1>2, <1>3, <1>4

(* Resetting the attempt counter keeps every other local. *)
LEMMA ResetFacts ==
  ASSUME NEW r \in Call, LocalInv(r)
  PROVE  LET s == [r EXCEPT !.tries = 0] IN
         /\ s \in Call /\ SameCall(r, s) /\ LocalInv(s)
         /\ s.pc = r.pc /\ s.safe = r.safe /\ s.data = r.data
<1> DEFINE s == [r EXCEPT !.tries = 0]
<1>1. s \in Call
  BY BoundAssumption DEF Call
<1>2. SameCall(r, s) /\ s.pc = r.pc /\ s.safe = r.safe /\ s.data = r.data /\ s.tag = r.tag
  BY DEF Call, SameCall
<1>3. LocalInv(s)
  <2> HIDE DEF s
  <2> QED BY <1>2 DEF LocalInv, SameCall
<1> QED BY <1>1, <1>2, <1>3

(* Going on to read the row after a publish that was not acknowledged. *)
LEMMA StartResolveFacts ==
  ASSUME NEW r \in Call, LocalInv(r), r.pc = "publish"
  PROVE  LET s == StartResolve(r) IN
         /\ s \in Call /\ SameCall(r, s) /\ LocalInv(s)
         /\ s.pc = "head" /\ s.safe = r.safe /\ s.data = r.data
<1> DEFINE s == StartResolve(r)
<1>0. 0 \in 0..(MaxAttempts - 1)
  BY BoundAssumption
<1>1. s \in Call
  BY <1>0 DEF Call, Pcs, StartResolve
<1>2. SameCall(r, s) /\ s.pc = "head" /\ s.safe = r.safe /\ s.data = r.data
  BY DEF Call, SameCall, StartResolve
<1>3. LocalInv(s)
  <2> HIDE DEF s
  <2> QED BY <1>2 DEF LocalInv, SameCall
<1> QED BY <1>1, <1>2, <1>3

(* What a publishing Put's locals become, whichever way the attempt ends. *)
PublishesOn(r, s) ==
  /\ s \in Call /\ SameCall(r, s) /\ LocalInv(s)
  /\ s.pc \in {"publish", "head", "cleanup", "done"}
  /\ s.safe = r.safe /\ s.data = r.data

(* A failed attempt at publishing repeats the request or resolves the outcome. *)
LEMMA PublishAttempt ==
  ASSUME TypeOK, CleanupInv, NEW c \in Clients, call[c].pc = "publish",
         FailedAttempt(c, StartResolve)
  PROVE  \E s : Step(c, s) /\ PublishesOn(call[c], s)
<1>1. PICK live \in {call[c].live, FALSE} :
        \/ /\ AttemptsLeft([call[c] EXCEPT !.live = live])
           /\ Step(c, [[call[c] EXCEPT !.live = live] EXCEPT !.tries = @ + 1])
        \/ Step(c, StartResolve([[call[c] EXCEPT !.live = live] EXCEPT !.tries = 0]))
  BY DEF FailedAttempt
<1>2. live \in BOOLEAN /\ call[c] \in Call /\ LocalInv(call[c])
  BY CallFacts
<1> DEFINE r == [call[c] EXCEPT !.live = live]
<1>3. /\ r \in Call /\ SameCall(call[c], r) /\ LocalInv(r)
      /\ r.safe = call[c].safe /\ r.pc = "publish" /\ r.data = call[c].data
  BY <1>2, LiveFacts
<1>4. \/ AttemptsLeft(r) /\ Step(c, [r EXCEPT !.tries = @ + 1])
      \/ Step(c, StartResolve([r EXCEPT !.tries = 0]))
  BY <1>1
<1> HIDE DEF r
<1>5. CASE AttemptsLeft(r) /\ Step(c, [r EXCEPT !.tries = @ + 1])
  <2> DEFINE s == [r EXCEPT !.tries = @ + 1]
  <2>1. /\ s \in Call /\ SameCall(r, s) /\ LocalInv(s)
        /\ s.pc = r.pc /\ s.safe = r.safe /\ s.data = r.data
    BY <1>3, <1>5, AttemptFacts
  <2>2. Step(c, s)
    BY <1>5
  <2> HIDE DEF s
  <2> QED BY <1>3, <2>1, <2>2 DEF PublishesOn, SameCall
<1>6. CASE Step(c, StartResolve([r EXCEPT !.tries = 0]))
  <2> DEFINE q == [r EXCEPT !.tries = 0]
  <2>1. /\ q \in Call /\ SameCall(r, q) /\ LocalInv(q)
        /\ q.pc = r.pc /\ q.safe = r.safe /\ q.data = r.data
    BY <1>3, ResetFacts
  <2>2. Step(c, StartResolve(q))
    BY <1>6
  <2> HIDE DEF q
  <2> DEFINE s == StartResolve(q)
  <2>3. /\ s \in Call /\ SameCall(q, s) /\ LocalInv(s)
        /\ s.pc = "head" /\ s.safe = q.safe /\ s.data = q.data
    BY <1>3, <2>1, StartResolveFacts
  <2>4. Step(c, s)
    BY <2>2
  <2> HIDE DEF s
  <2> QED BY <1>3, <2>1, <2>3, <2>4 DEF PublishesOn, SameCall
<1> QED BY <1>4, <1>5, <1>6

(* The row of the publishing Put is created, or left alone. *)
LEMMA PublishEffect ==
  ASSUME TypeOK, CleanupInv, NEW c \in Clients, call[c].pc = "publish",
         NEW s, Step(c, s), PublishesOn(call[c], s),
         \/ rows' = rows
         \/ rows' = [rows EXCEPT !["current"][call[c].key] = OwnRow(call[c])],
         UNCHANGED <<payloads, used>>, Observe
  PROVE  TypeOK' /\ CleanupInv'
<1>1. /\ call[c].op = "put" /\ call[c].pay \in Payloads /\ ~call[c].safe
      /\ call[c].data \in Contents
  BY CallFacts DEF LocalInv
<1>2. call' = [call EXCEPT ![c] = s] /\ held' \subseteq Clients
  BY DEF Step, Release, TypeOK
<1>3. OwnRow(call[c]) \in Row
  BY <1>1 DEF OwnRow, Row
<1>4. RowsEffect(c)
  BY <1>3 DEF RowsEffect, TypeOK, Encodings
<1>5. PayloadsEffect(c)
  BY DEF PayloadsEffect, TypeOK
<1>6. payloads[call[c].pay] \in {call[c].data, NoData}
  BY <1>1 DEF CleanupInv, VerifiedBytes
<1>7. Effect(c, s)
  BY <1>1, <1>2, <1>4, <1>5, <1>6 DEF Effect, PublishesOn, SameCall
<1> QED BY <1>7, EffectPreserves

(* publishManifest, acknowledged, refused, conflicting or lost. *)
LEMMA PublishPreserves ==
  ASSUME TypeOK, CleanupInv, NEW c \in Clients,
         PublishCreated(c) \/ PublishConflict(c) \/ PublishRefused(c) \/ PublishLost(c)
  PROVE  TypeOK' /\ CleanupInv'
<1>1. /\ call[c] \in Call /\ LocalInv(call[c]) /\ call[c].pc = "publish"
      /\ PutLocals(call[c])
  BY CallFacts
     DEF PublishCreated, PublishConflict, PublishRefused, PublishLost, LocalInv, PutLocals
<1>2. /\ Observe /\ UNCHANGED <<payloads, used>>
      /\ \/ rows' = rows
         \/ rows' = [rows EXCEPT !["current"][call[c].key] = OwnRow(call[c])]
  BY DEF PublishCreated, PublishConflict, PublishRefused, PublishLost, store
<1>3. \E s : Step(c, s) /\ PublishesOn(call[c], s)
  <2>1. CASE PublishCreated(c)
    BY <1>1, <2>1, PutEndedFacts DEF PublishCreated, PublishesOn, Results
  <2>2. CASE PublishConflict(c)
    BY <1>1, <2>2, StartResolveFacts DEF PublishConflict, PublishesOn
  <2>3. CASE PublishRefused(c) \/ PublishLost(c)
    <3>1. FailedAttempt(c, StartResolve)
      BY <2>3 DEF PublishRefused, PublishLost
    <3> QED BY <1>1, <3>1, PublishAttempt
  <2> QED BY <2>1, <2>2, <2>3
<1> QED BY <1>1, <1>2, <1>3, PublishEffect

(* Put's deferred deletion removes only a payload that no row names. *)
LEMMA CleanupPreserves ==
  ASSUME TypeOK, CleanupInv, NEW c \in Clients, Cleanup(c)
  PROVE  TypeOK' /\ CleanupInv'
<1> DEFINE s == [call[c] EXCEPT !.pc = "done"]
<1>1. call[c] \in Call /\ LocalInv(call[c]) /\ call[c].pc = "cleanup" /\ call[c].safe
  BY CallFacts DEF Cleanup, LocalInv
<1>2. s \in Call
  BY <1>1 DEF Call, Pcs
<1>3. /\ SameCall(call[c], s) /\ s.pc = "done" /\ s.safe = call[c].safe
      /\ s.pay = call[c].pay /\ s.data = call[c].data
  BY <1>1 DEF Call, SameCall
<1>4. Step(c, s) /\ rows' = rows /\ used' = used /\ Observe
  BY DEF Cleanup
<1> HIDE DEF s
<1>5. LocalInv(s)
  BY <1>1, <1>3 DEF LocalInv, SameCall
<1>6. call' = [call EXCEPT ![c] = s] /\ held' \subseteq Clients /\ call'[c].pay = call[c].pay
  BY <1>2, <1>3, <1>4 DEF Step, Release, TypeOK
<1>7. Unreferenced(call[c].pay)'
  <2>1. Unreferenced(call[c].pay)
    BY <1>1 DEF CleanupInv, SafeUnreferenced
  <2> QED BY <1>4, <1>6, <2>1 DEF Unreferenced
<1>8. RowsEffect(c)
  BY <1>4 DEF RowsEffect, TypeOK
<1>9. PayloadsEffect(c)
  BY DEF PayloadsEffect, TypeOK, Cleanup
<1>10. Effect(c, s)
  BY <1>2, <1>3, <1>4, <1>5, <1>6, <1>7, <1>8, <1>9 DEF Effect
<1> QED BY <1>10, EffectPreserves

-----------------------------------------------------------------------------
(* readManifestAt's steps. *)

(* HEAD of an existing row notes its ETag. *)
LEMMA HeadFoundPreserves ==
  ASSUME TypeOK, CleanupInv, NEW c \in Clients, HeadFound(c)
  PROVE  TypeOK' /\ CleanupInv'
<1> DEFINE t == RowAt(call[c])
           s == [call[c] EXCEPT !.pc = "get", !.tag = t]
<1>1. call[c] \in Call /\ LocalInv(call[c]) /\ call[c].pc = "head" /\ call[c].key \in Keys
  BY CallFacts DEF HeadFound, LocalInv
<1>2. t \in Row
  BY <1>1 DEF RowAt, TypeOK, Call
<1>2a. t # NoRow
  BY DEF HeadFound
<1>3. Step(c, s) /\ UNCHANGED store /\ Observe
  BY DEF HeadFound
<1> HIDE DEF t
<1>4. s \in Call
  BY <1>1, <1>2 DEF Call, Pcs
<1>5. /\ SameCall(call[c], s) /\ s.pc = "get" /\ s.safe = call[c].safe
      /\ s.data = call[c].data /\ s.tag # NoRow
  BY <1>1, <1>2a DEF Call, SameCall
<1> HIDE DEF s
<1>6. LocalInv(s)
  BY <1>1, <1>5 DEF LocalInv, SameCall
<1>7. s.op = "put" => payloads[s.pay] \in {s.data, NoData}
  BY <1>1, <1>5 DEF SameCall, CleanupInv, VerifiedBytes
<1> QED BY <1>3, <1>4, <1>5, <1>6, <1>7, QuietStep

(* Every step of readManifestAt. *)
LEMMA ReadPreserves ==
  ASSUME TypeOK, CleanupInv, NEW c \in Clients, ReadStep(c)
  PROVE  TypeOK' /\ CleanupInv'
<1>1. call[c] \in Call /\ call[c].live \in BOOLEAN
  BY CallFacts
<1>2. [call[c] EXCEPT !.live = call[c].live] = call[c]
  BY <1>1, SameLive
<1>3. CASE HeadFound(c)
  BY <1>3, HeadFoundPreserves
<1>4. CASE HeadAbsent(c)
  BY <1>1, <1>2, <1>4, ReadStepPreserves DEF HeadAbsent, Outcomes
<1>5. CASE HeadDamaged(c)
  BY <1>1, <1>2, <1>5, ReadStepPreserves DEF HeadDamaged, Outcomes
<1>6. CASE HeadRefused(c)
  <2>1. PICK live \in {call[c].live, FALSE} :
          Step(c, AfterRead([call[c] EXCEPT !.live = live], ErrFor(live)))
    BY <1>6 DEF HeadRefused
  <2>2. ErrFor(live) \in Outcomes /\ ErrFor(live) # "found" /\ live \in BOOLEAN
    BY <1>1, ErrForType
  <2> QED BY <1>6, <2>1, <2>2, ReadStepPreserves DEF HeadRefused
<1>7. CASE GetRowOk(c)
  <2> DEFINE o == CASE RowAt(call[c]) = NoRow -> "integrity"
                    [] RowAt(call[c]) # NoRow /\ RowAt(call[c]) # call[c].tag -> "backend"
                    [] OTHER -> IF call[c].tag = BadRow THEN "integrity" ELSE "found"
  <2>1. o \in Outcomes
    BY DEF Outcomes
  <2>2. o = "found" => RowAt(call[c]) = call[c].tag /\ call[c].tag \notin {NoRow, BadRow}
    OBVIOUS
  <2>3. Step(c, AfterRead(call[c], o)) /\ call[c].pc = "get" /\ UNCHANGED store /\ Observe
    BY <1>7 DEF GetRowOk
  <2> HIDE DEF o
  <2> QED BY <1>1, <1>2, <2>1, <2>2, <2>3, ReadStepPreserves
<1>8. CASE GetRowRefused(c)
  <2>1. PICK live \in {call[c].live, FALSE} :
          \E o \in {ErrFor(live), "integrity"} :
            Step(c, AfterRead([call[c] EXCEPT !.live = live], o))
    BY <1>8 DEF GetRowRefused
  <2>2. PICK o \in {ErrFor(live), "integrity"} :
          Step(c, AfterRead([call[c] EXCEPT !.live = live], o))
    BY <2>1
  <2>3. o \in Outcomes /\ o # "found" /\ live \in BOOLEAN
    BY <1>1, ErrForType DEF Outcomes
  <2> QED BY <1>8, <2>2, <2>3, ReadStepPreserves DEF GetRowRefused
<1> QED BY <1>3, <1>4, <1>5, <1>6, <1>7, <1>8 DEF ReadStep

-----------------------------------------------------------------------------
(* Delete's steps, and Get's beyond its manifest. *)

(* A step of a call that is no Put may remove rows and payloads. *)
LEMMA ReaderEffect ==
  ASSUME TypeOK, CleanupInv, NEW c \in Clients, call[c].op # "put",
         NEW s \in Call, SameCall(call[c], s), LocalInv(s), s.pc # "upload",
         s.safe = call[c].safe,
         Step(c, s), used' = used, Observe, RowsEffect(c), PayloadsEffect(c)
  PROVE  TypeOK' /\ CleanupInv'
<1>1. call' = [call EXCEPT ![c] = s] /\ held' \subseteq Clients
  BY DEF Step, Release, TypeOK
<1>2. call'[c].pay = call[c].pay
  BY <1>1 DEF SameCall, TypeOK
<1>3. call[c].pc # "publish"
  BY DEF CleanupInv, LocalInv
<1>4. s.safe => Unreferenced(call[c].pay)'
  <2> SUFFICES ASSUME s.safe, NEW e \in Encodings, NEW k \in Keys
               PROVE  rows'[e][k].pay # call[c].pay
    BY <1>2 DEF Unreferenced
  <2>1. rows[e][k].pay # call[c].pay /\ call[c].pay # NoPayload
    BY DEF CleanupInv, SafeUnreferenced, Unreferenced, LocalInv
  <2> QED BY <1>3, <2>1 DEF RowsEffect, NoRow
<1>5. Effect(c, s)
  BY <1>1, <1>4 DEF Effect, SameCall
<1> QED BY <1>5, EffectPreserves

(* What Delete's locals become after an attempt at removing a row. *)
LEMMA RemoveRowPreserves ==
  ASSUME TypeOK, CleanupInv, NEW c \in Clients,
         RemoveRow(c) \/ RemoveRowRefused(c) \/ RemoveRowLost(c)
  PROVE  TypeOK' /\ CleanupInv'
<1>1. /\ call[c] \in Call /\ LocalInv(call[c]) /\ call[c].pc = "rmrow" /\ call[c].op # "put"
      /\ call[c].live \in BOOLEAN
  BY CallFacts DEF RemoveRow, RemoveRowRefused, RemoveRowLost, LocalInv
<1>2. used' = used /\ Observe /\ payloads' = payloads
  BY DEF RemoveRow, RemoveRowRefused, RemoveRowLost, store
<1>3. \/ rows' = rows
      \/ rows' = [rows EXCEPT ![call[c].cand][call[c].key] = NoRow]
  BY DEF RemoveRow, RemoveRowRefused, RemoveRowLost, store
<1>4. RowsEffect(c)
  <2>1. call[c].cand \in Encodings
    BY <1>1 DEF Call
  <2>2. rows' \in [Encodings -> [Keys -> Row]]
    BY <1>3, <2>1, SentinelType DEF TypeOK
  <2>3. \A e \in Encodings, k \in Keys : rows'[e][k] = rows[e][k] \/ rows'[e][k] = NoRow
    BY <1>3, <2>1 DEF TypeOK
  <2> QED BY <2>2, <2>3 DEF RowsEffect
<1>5. PayloadsEffect(c)
  BY <1>2 DEF PayloadsEffect, TypeOK
<1>6. \E s \in Call : /\ Step(c, s) /\ SameCall(call[c], s) /\ LocalInv(s)
                      /\ s.pc # "upload" /\ s.safe = call[c].safe
  <2>1. CASE RemoveRow(c)
    <3> DEFINE s == [call[c] EXCEPT !.pc = "rmpay", !.tries = 0]
    <3>1. 0 \in 0..(MaxAttempts - 1)
      BY BoundAssumption
    <3>2. s \in Call
      BY <1>1, <3>1 DEF Call, Pcs
    <3>3. /\ SameCall(call[c], s) /\ s.pc = "rmpay" /\ s.safe = call[c].safe
          /\ s.tag = call[c].tag
      BY <1>1 DEF Call, SameCall
    <3>4. Step(c, s)
      BY <2>1 DEF RemoveRow
    <3> HIDE DEF s
    <3>5. LocalInv(s)
      BY <1>1, <3>3 DEF LocalInv, SameCall
    <3> QED BY <3>2, <3>3, <3>4, <3>5
  <2>2. CASE RemoveRowRefused(c) \/ RemoveRowLost(c)
    <3>1. FailedAttempt(c, DeleteFailed)
      BY <2>2 DEF RemoveRowRefused, RemoveRowLost
    <3>2. PICK live \in {call[c].live, FALSE} :
            \/ /\ AttemptsLeft([call[c] EXCEPT !.live = live])
               /\ Step(c, [[call[c] EXCEPT !.live = live] EXCEPT !.tries = @ + 1])
            \/ Step(c, DeleteFailed([[call[c] EXCEPT !.live = live] EXCEPT !.tries = 0]))
      BY <3>1 DEF FailedAttempt
    <3> DEFINE r == [call[c] EXCEPT !.live = live]
    <3>3. live \in BOOLEAN
      BY <1>1
    <3>4. /\ r \in Call /\ SameCall(call[c], r) /\ LocalInv(r)
          /\ r.safe = call[c].safe /\ r.pc = "rmrow"
      BY <1>1, <3>3, LiveFacts
    <3>5. \/ AttemptsLeft(r) /\ Step(c, [r EXCEPT !.tries = @ + 1])
          \/ Step(c, DeleteFailed([r EXCEPT !.tries = 0]))
      BY <3>2
    <3> HIDE DEF r
    <3>6. CASE AttemptsLeft(r) /\ Step(c, [r EXCEPT !.tries = @ + 1])
      <4> DEFINE s == [r EXCEPT !.tries = @ + 1]
      <4>1. /\ s \in Call /\ SameCall(r, s) /\ LocalInv(s)
            /\ s.pc = r.pc /\ s.safe = r.safe
        BY <3>4, <3>6, AttemptFacts
      <4>2. Step(c, s)
        BY <3>6
      <4> HIDE DEF s
      <4> QED BY <3>4, <4>1, <4>2 DEF SameCall
    <3>7. CASE Step(c, DeleteFailed([r EXCEPT !.tries = 0]))
      <4> DEFINE q == [r EXCEPT !.tries = 0]
      <4>1. q \in Call /\ SameCall(r, q) /\ LocalInv(q) /\ q.safe = r.safe
        BY <3>4, ResetFacts
      <4>2. Step(c, Ended(q, ErrFor(q.live)))
        BY <3>7 DEF DeleteFailed
      <4> HIDE DEF q
      <4> DEFINE s == Ended(q, ErrFor(q.live))
      <4>3. s \in Call /\ SameCall(q, s) /\ LocalInv(s) /\ s.pc = "done" /\ s.safe = q.safe
        BY <4>1, EndedFacts, ErrForType
      <4>4. Step(c, s)
        BY <4>2
      <4> HIDE DEF s
      <4> QED BY <3>4, <4>1, <4>3, <4>4 DEF SameCall
    <3> QED BY <3>5, <3>6, <3>7
  <2> QED BY <2>1, <2>2
<1> QED BY <1>1, <1>2, <1>4, <1>5, <1>6, ReaderEffect

(* Delete removes the payload of the manifest it read. *)
LEMMA RemovePayloadPreserves ==
  ASSUME TypeOK, CleanupInv, NEW c \in Clients, RemovePayload(c)
  PROVE  TypeOK' /\ CleanupInv'
<1> DEFINE s == ScanNext(call[c])
<1>1. call[c] \in Call /\ LocalInv(call[c]) /\ call[c].pc = "rmpay" /\ call[c].op # "put"
  BY CallFacts DEF RemovePayload, LocalInv
<1>2. /\ s \in Call /\ SameCall(call[c], s) /\ LocalInv(s)
      /\ s.pc \in {"head", "done"} /\ s.safe = call[c].safe
  BY <1>1, ScanNextFacts
<1>3. Step(c, s) /\ used' = used /\ Observe /\ rows' = rows
  BY DEF RemovePayload
<1>4. RowsEffect(c)
  BY <1>3 DEF RowsEffect, TypeOK
<1>5. PayloadsEffect(c)
  BY DEF PayloadsEffect, TypeOK, RemovePayload
<1> HIDE DEF s
<1> QED BY <1>1, <1>2, <1>3, <1>4, <1>5, ReaderEffect

(* Fetching, draining and closing a stream leaves the bucket alone. *)
LEMMA StreamPreserves ==
  ASSUME TypeOK, CleanupInv, NEW c \in Clients,
         FetchOk(c) \/ FetchRefused(c) \/ StreamStep(c)
  PROVE  TypeOK' /\ CleanupInv'
<1>1. /\ call[c] \in Call /\ LocalInv(call[c]) /\ call[c].op # "put"
      /\ call[c].pc \in {"fetch", "stream"} /\ call[c].live \in BOOLEAN
  BY CallFacts DEF FetchOk, FetchRefused, StreamStep, StreamEnd, StreamBroken, LocalInv
<1>2. [call[c] EXCEPT !.live = call[c].live] = call[c]
  BY <1>1, SameLive
<1>3. UNCHANGED store /\ Observe
  BY DEF FetchOk, FetchRefused, StreamStep, StreamEnd, StreamBroken
<1>4. ASSUME NEW live \in {call[c].live, FALSE}, NEW res \in Results,
             Step(c, Ended([call[c] EXCEPT !.live = live], res))
      PROVE  TypeOK' /\ CleanupInv'
  <2>1. live \in BOOLEAN
    BY <1>1
  <2> QED BY <1>3, <1>4, <2>1, EndStep
<1>5. ASSUME NEW res \in Results, Step(c, Ended(call[c], res))
      PROVE  TypeOK' /\ CleanupInv'
  BY <1>2, <1>4, <1>5
<1>6. ASSUME NEW d \in Contents \cup {NoData, Garbage},
             Step(c, [call[c] EXCEPT !.pc = "stream", !.data = d])
      PROVE  TypeOK' /\ CleanupInv'
  <2> DEFINE s == [call[c] EXCEPT !.pc = "stream", !.data = d]
  <2>1. s \in Call
    BY <1>1 DEF Call, Pcs
  <2>2. /\ SameCall(call[c], s) /\ s.pc = "stream" /\ s.safe = call[c].safe
        /\ s.tag = call[c].tag
    BY <1>1 DEF Call, SameCall
  <2>3. Step(c, s)
    BY <1>6
  <2> HIDE DEF s
  <2>4. LocalInv(s)
    BY <1>1, <2>2 DEF LocalInv, SameCall
  <2> QED BY <1>1, <1>3, <2>1, <2>2, <2>3, <2>4, QuietStep
<1>7. CASE FetchOk(c)
  <2>1. \/ Step(c, Ended(call[c], "integrity"))
        \/ \E d \in {payloads[call[c].tag.pay], Garbage} :
             /\ payloads[call[c].tag.pay] # NoData
             /\ Step(c, [call[c] EXCEPT !.pc = "stream", !.data = d])
    BY <1>7 DEF FetchOk
  <2>2. CASE Step(c, Ended(call[c], "integrity"))
    BY <2>2, <1>5 DEF Results
  <2>3. call[c].tag.pay \in Payloads
    BY <1>1, RowFields DEF LocalInv, Call
  <2>4. payloads[call[c].tag.pay] \in Contents \cup {NoData, Garbage}
    BY <2>3 DEF TypeOK
  <2> QED BY <2>1, <2>2, <2>4, <1>6
<1>8. CASE FetchRefused(c)
  BY <1>8, <1>4, ErrForType DEF FetchRefused
<1>9. CASE StreamEnd(c)
  BY <1>9, <1>5 DEF StreamEnd, Results
<1>10. CASE StreamBroken(c)
  <2>1. CASE Step(c, Ended(call[c], "closed"))
    BY <2>1, <1>5 DEF Results
  <2>2. CASE \E live \in {call[c].live, FALSE} :
               Step(c, Ended([call[c] EXCEPT !.live = live], ErrFor(live)))
    BY <2>2, <1>4, ErrForType
  <2> QED BY <1>10, <2>1, <2>2 DEF StreamBroken
<1> QED BY <1>7, <1>8, <1>9, <1>10 DEF StreamStep

-----------------------------------------------------------------------------
(* Every initial bucket, legacy rows and damaged rows included, satisfies them. *)
LEMMA InitEstablishes ==
  ASSUME Init
  PROVE  TypeOK /\ CleanupInv
<1>1. PICK f \in LegacyRows, bad \in SUBSET BadKeys :
        /\ rows = [e \in Encodings |->
                    IF e = "legacy" THEN f
                    ELSE [k \in Keys |-> IF k \in bad THEN BadRow ELSE NoRow]]
        /\ used = {f[k].pay : k \in Keys} \ {NoPayload}
        /\ payloads = [p \in Payloads |->
                        IF \E k \in Keys : f[k].pay = p
                          THEN f[CHOOSE k \in Keys : f[k].pay = p].data
                          ELSE NoData]
  BY DEF Init
<1>2. call = [c \in Clients |-> NoCall] /\ held = {} /\ seen = [c \in Clients |-> {}]
  BY DEF Init
<1>3. /\ f \in [Keys -> Row]
      /\ \A j, k \in Keys : f[j].pay # NoPayload /\ f[j].pay = f[k].pay => j = k
  BY DEF LegacyRows
<1>4. \A k \in Keys : /\ f[k].pay \in Payloads \cup {NoPayload}
                      /\ f[k].data \in Contents \cup {NoData, Garbage}
                      /\ f[k].pay # NoPayload => f[k] # NoRow
  BY <1>3, RowFields DEF NoRow
<1>5. TypeOK
  <2>1. rows \in [Encodings -> [Keys -> Row]]
    BY <1>1, <1>3, SentinelType
  <2>2. used \subseteq Payloads
    BY <1>1, <1>4
  <2>3. payloads \in [Payloads -> Contents \cup {NoData, Garbage}]
    BY <1>1, <1>4
  <2>4. call \in [Clients -> Call]
    BY <1>2, SentinelType
  <2> QED BY <1>2, <2>1, <2>2, <2>3, <2>4 DEF TypeOK
<1>6. \A c \in Clients : /\ call[c] = NoCall /\ call[c].pay = NoPayload /\ ~call[c].safe
                         /\ call[c].pc = "idle" /\ call[c].op # "put"
  BY <1>2 DEF NoCall
<1>7. ASSUME NEW e \in Encodings, NEW k \in Keys, rows[e][k].pay # NoPayload
      PROVE  e = "legacy" /\ rows[e][k] = f[k]
  BY <1>1, <1>7 DEF BadRow, NoRow
<1>8. IdsUsed
  BY <1>1, <1>6, <1>7 DEF IdsUsed
<1>9. PayloadNeverWrong
  <2> SUFFICES ASSUME NEW e \in Encodings, NEW k \in Keys, rows[e][k].pay # NoPayload
               PROVE  payloads[rows[e][k].pay] = rows[e][k].data
    BY DEF PayloadNeverWrong
  <2>1. rows[e][k] = f[k] /\ f[k].pay \in Payloads /\ f[k] # NoRow
    BY <1>4, <1>7
  <2> DEFINE j == CHOOSE i \in Keys : f[i].pay = f[k].pay
  <2>2. j \in Keys /\ f[j].pay = f[k].pay
    OBVIOUS
  <2>3. payloads[f[k].pay] = f[j].data
    BY <1>1, <2>1
  <2> HIDE DEF j
  <2>4. j = k
    BY <1>3, <2>1, <2>2
  <2> QED BY <2>1, <2>3, <2>4
<1>10. OwnersDistinct /\ RowsOwned /\ SafeUnreferenced /\ VerifiedBytes
  BY <1>6 DEF OwnersDistinct, RowsOwned, SafeUnreferenced, VerifiedBytes
<1>11. \A c \in Clients : LocalInv(call[c])
  BY <1>6, SentinelType
<1> QED BY <1>5, <1>8, <1>9, <1>10, <1>11 DEF CleanupInv

(* Every step, of any client, preserves them. *)
LEMMA NextPreserves ==
  ASSUME TypeOK, CleanupInv, [Next]_vars
  PROVE  TypeOK' /\ CleanupInv'
<1>1. CASE UNCHANGED vars
  BY <1>1 DEF vars, TypeOK, CleanupInv, IdsUsed, OwnersDistinct, RowsOwned,
              SafeUnreferenced, Unreferenced, VerifiedBytes, PayloadNeverWrong
<1>2. ASSUME NEW c \in Clients, CodeStep(c)
      PROVE  TypeOK' /\ CleanupInv'
  <2>1. CASE Acquire(c)
    BY <2>1, AcquirePreserves
  <2>2. CASE AcquireNoIdentity(c) \/ AcquireTimeout(c)
    BY <2>2, RefusedPreserves
  <2>3. CASE PutStep(c)
    BY <2>3, UploadOkPreserves, UploadTooLargePreserves, UploadFailedPreserves,
       VerifyPreserves, PublishPreserves, CleanupPreserves DEF PutStep
  <2>4. CASE ReadStep(c)
    BY <2>4, ReadPreserves
  <2>5. CASE DeleteStep(c)
    BY <2>5, RemoveRowPreserves, RemovePayloadPreserves DEF DeleteStep
  <2>6. CASE FetchOk(c) \/ FetchRefused(c)
    BY <2>6, StreamPreserves
  <2> QED BY <1>2, <2>1, <2>2, <2>3, <2>4, <2>5, <2>6 DEF CodeStep
<1>3. ASSUME NEW c \in Clients, CallerStep(c)
      PROVE  TypeOK' /\ CleanupInv'
  <2>1. CASE Begin(c)
    BY <2>1, BeginPreserves
  <2>2. CASE Reject(c)
    BY <2>2, RefusedPreserves
  <2>3. CASE StreamStep(c)
    BY <2>3, StreamPreserves
  <2>4. CASE Return(c)
    BY <2>4, ReturnPreserves
  <2> QED BY <1>3, <2>1, <2>2, <2>3, <2>4 DEF CallerStep
<1> QED BY <1>1, <1>2, <1>3 DEF Next

(***************************************************************************)
(* The inductive invariant holds of every execution of the protocol.       *)
(***************************************************************************)
THEOREM Invariance == Spec => [](TypeOK /\ CleanupInv)
<1>1. Init => TypeOK /\ CleanupInv
  BY InitEstablishes
<1>2. (TypeOK /\ CleanupInv) /\ [Next]_vars => (TypeOK /\ CleanupInv)'
  BY NextPreserves
<1> QED BY <1>1, <1>2, PTL DEF Spec

(***************************************************************************)
(* Type correctness: the locals of Put, Get and Delete and the bucket stay *)
(* in their types, whatever the requests answer.                           *)
(***************************************************************************)
THEOREM TypeCorrect == Spec => []TypeOK
BY Invariance, PTL

(***************************************************************************)
(* Put's deferred cleanup (blob.go, cleanupSafe) never deletes a payload   *)
(* that a published manifest names: not after a lost acknowledgement, any  *)
(* number of SDK retries, lost races, deletes and republications.          *)
(***************************************************************************)
THEOREM CleanupNeverDestroys == Spec => []CleanupSafe
<1>1. TypeOK /\ CleanupInv => CleanupSafe
  BY DEF CleanupInv, SafeUnreferenced, LocalInv, CleanupSafe
<1> QED BY <1>1, Invariance, PTL

(***************************************************************************)
(* A published manifest never names other bytes than the ones Put verified *)
(* (blob.go, verifyPayload): its payload is intact or removed.             *)
(***************************************************************************)
THEOREM PublishedBytesVerified == Spec => []PayloadNeverWrong
<1>1. TypeOK /\ CleanupInv => PayloadNeverWrong
  BY DEF CleanupInv
<1> QED BY <1>1, Invariance, PTL

-----------------------------------------------------------------------------
(* What callers are promised. *)

Errs == {"integrity", "backend", "ctx", "toolarge", "rejected", "closed"}

(* Everything but pc, safe, tries and live stays. *)
Kept(r, s) ==
  SameCall(r, s) /\ s.data = r.data /\ s.cand = r.cand /\ s.tag = r.tag /\ s.res = r.res

(* The call has its result; a Put may have its cleanup before it. *)
Finishes(r, s, res) ==
  /\ SameCall(r, s) /\ s.data = r.data /\ s.cand = r.cand /\ s.tag = r.tag
  /\ s.res = res
  /\ s.pc = "done" \/ (s.pc = "cleanup" /\ r.op = "put")

RowCreated(r) ==
  /\ rows["current"][r.key] = NoRow
  /\ rows' = [rows EXCEPT !["current"][r.key] = OwnRow(r)]

RowRemoved(r) == rows' = [rows EXCEPT ![r.cand][r.key] = NoRow]

(* readManifestAt may answer that there is no row. *)
AbsentAt(r) == RowAt(r) = NoRow \/ (r.cand = "legacy" /\ Legacy400)

(* The kinds of step, from locals r to locals s. *)
Fails(r, s) ==
  /\ r.pc \notin {"done", "cleanup"}
  /\ \E res \in Errs : Finishes(r, s, res)
  /\ rows' = rows \/ (r.pc = "rmrow" /\ RowRemoved(r))

Begins(r, s) ==
  /\ r.pc = "idle" /\ s.pc = "acquire"
  /\ s.op \in {"put", "get", "delete"} /\ s.key \in Keys
  /\ IF s.op = "put" THEN s.data \in Contents ELSE s.data = NoData
  /\ s.cand = r.cand /\ s.tag = r.tag /\ s.res = r.res
  /\ rows' = rows

Returns(r, s) == r.pc = "done" /\ s = NoCall /\ rows' = rows

Takes(r, s) ==
  /\ r.pc = "acquire"
  /\ s.pc = IF r.op = "put" THEN "upload" ELSE "head"
  /\ IF r.op = "put" THEN s.pay \notin used ELSE s.pay = r.pay
  /\ s.op = r.op /\ s.key = r.key /\ s.data = r.data
  /\ s.cand = r.cand /\ s.tag = r.tag /\ s.res = r.res
  /\ rows' = rows

(* A failed attempt that is followed by another one had the effect E or none. *)
Repeated(r, E) == MaxAttempts > 1 /\ (rows' = rows \/ (LostAcks /\ E))

GoesOn(r, s) ==
  /\ Kept(r, s)
  /\ \/ r.pc = "upload" /\ s.pc = "verify" /\ rows' = rows
     \/ r.pc = "cleanup" /\ s.pc = "done" /\ rows' = rows
     \/ r.pc = "publish" /\ s.pc = "publish" /\ Repeated(r, RowCreated(r))
     \/ r.pc = "publish" /\ s.pc = "head" /\ (rows' = rows \/ RowCreated(r))
     \/ r.pc = "rmrow" /\ s.pc = "rmrow" /\ Repeated(r, RowRemoved(r))
     \/ r.pc = "rmrow" /\ s.pc = "rmpay" /\ RowRemoved(r)

Published(r, s) == r.pc = "publish" /\ RowCreated(r) /\ Finishes(r, s, "ok")

(* From a verified payload, an absent row or a removed one, on to the legacy row. *)
LooksAtLegacy(r, s) ==
  /\ SameCall(r, s) /\ s.data = r.data /\ s.res = r.res
  /\ s.pc = "head" /\ s.cand = "legacy" /\ s.tag = NoRow
  /\ r.key \in LongKeys
  /\ \/ r.pc = "verify" /\ payloads[r.pay] = r.data
     \/ /\ r.op # "put" /\ r.cand = "current"
        /\ (r.pc = "head" /\ AbsentAt(r)) \/ r.pc = "rmpay"
  /\ rows' = rows

BeginsPublish(r, s) ==
  /\ SameCall(r, s) /\ s.data = r.data /\ s.res = r.res
  /\ s.pc = "publish" /\ s.cand = "current" /\ s.tag = NoRow
  /\ r.op = "put"
  /\ \/ r.pc = "verify" /\ r.key \notin LongKeys /\ payloads[r.pay] = r.data
     \/ r.pc = "head" /\ r.cand = "legacy" /\ AbsentAt(r)
  /\ rows' = rows

NotesRow(r, s) ==
  /\ SameCall(r, s) /\ s.data = r.data /\ s.res = r.res /\ s.cand = r.cand
  /\ r.pc = "head" /\ s.pc = "get"
  /\ s.tag = RowAt(r) /\ RowAt(r) # NoRow
  /\ rows' = rows

(* No candidate is left: Get has found nothing, Delete is through. *)
RunsOut(r, s) ==
  /\ r.op # "put" /\ (r.cand = "legacy" \/ r.key \notin LongKeys)
  /\ (r.pc = "head" /\ AbsentAt(r)) \/ r.pc = "rmpay"
  /\ Finishes(r, s, IF r.op = "get" /\ r.pc = "head" THEN "notfound" ELSE "ok")
  /\ rows' = rows

Finds(r, s) ==
  /\ r.pc = "get" /\ RowAt(r) = r.tag /\ r.tag \notin {NoRow, BadRow}
  /\ IF r.op = "put" THEN Finishes(r, s, Verdict(r))
     ELSE Kept(r, s) /\ s.pc = IF r.op = "get" THEN "fetch" ELSE "rmrow"
  /\ rows' = rows

Streams(r, s) ==
  /\ SameCall(r, s) /\ s.res = r.res /\ s.cand = r.cand /\ s.tag = r.tag
  /\ r.pc = "fetch" /\ s.pc = "stream"
  /\ rows' = rows

Delivers(r, s) ==
  /\ r.pc = "stream" /\ r.data = r.tag.data
  /\ Finishes(r, s, "value")
  /\ rows' = rows

Move(r, s) ==
  \/ Fails(r, s) \/ Begins(r, s) \/ Returns(r, s) \/ Takes(r, s) \/ GoesOn(r, s)
  \/ Published(r, s) \/ LooksAtLegacy(r, s) \/ BeginsPublish(r, s) \/ NotesRow(r, s)
  \/ RunsOut(r, s) \/ Finds(r, s) \/ Streams(r, s) \/ Delivers(r, s)

(* The transfer gate: a slot is taken, kept, or given back on return. *)
GateMove(c, r, s) ==
  \/ /\ r.pc = "acquire" /\ s.pc \in {"upload", "head"}
     /\ Cardinality(held) < MaxTransfers /\ held' = held \cup {c}
  \/ /\ r.pc \in {"idle", "acquire", "done"} /\ s.pc \in {"idle", "acquire", "done"}
     /\ held' = held
  \/ /\ r.pc \notin {"idle", "acquire", "done"} /\ s.pc \notin {"idle", "acquire"}
     /\ Release(c, s)

(* A step of client c, to locals s. *)
Moves(c, s) ==
  /\ call' = [call EXCEPT ![c] = s]
  /\ Move(call[c], s)
  /\ GateMove(c, call[c], s)
  /\ Observe

(* q is r but for the flags safe, live and tries. *)
Flagged(r, q) == q \in Call /\ Kept(r, q) /\ q.pc = r.pc

LocalsInv == \A c \in Clients : LocalInv(call[c])

(* The locals of a call. *)
LEMMA LocalsFacts ==
  ASSUME TypeOK, LocalsInv, NEW c \in Clients
  PROVE  /\ call[c] \in Call /\ LocalInv(call[c])
         /\ call[c].live \in BOOLEAN /\ call[c].data \in Contents \cup {NoData, Garbage}
         /\ call[c].key \in Keys \cup {NoKey}
         /\ call[c].pay \in Payloads \cup {NoPayload}
BY DEF TypeOK, LocalsInv, Call

-----------------------------------------------------------------------------
(* Local code: the operators that give a call its next locals. *)

(* Changing the flags changes nothing else. *)
LEMMA FlagFacts ==
  ASSUME NEW r \in Call, NEW live \in BOOLEAN
  PROVE  /\ Flagged(r, [r EXCEPT !.live = live])
         /\ Flagged(r, [r EXCEPT !.safe = live])
         /\ Flagged(r, [r EXCEPT !.tries = 0])
         /\ AttemptsLeft(r) => Flagged(r, [r EXCEPT !.tries = @ + 1])
<1>1. Flagged(r, [r EXCEPT !.live = live])
  BY DEF Flagged, Kept, SameCall, Call
<1>2. Flagged(r, [r EXCEPT !.safe = live])
  BY DEF Flagged, Kept, SameCall, Call
<1>3. Flagged(r, [r EXCEPT !.tries = 0])
  BY BoundAssumption DEF Flagged, Kept, SameCall, Call
<1>4. AttemptsLeft(r) => Flagged(r, [r EXCEPT !.tries = @ + 1])
  <2> SUFFICES ASSUME AttemptsLeft(r)
               PROVE  Flagged(r, [r EXCEPT !.tries = r.tries + 1])
    BY DEF Call
  <2>1. r.tries + 1 \in 0..(MaxAttempts - 1)
    BY BoundAssumption DEF AttemptsLeft, Call
  <2> QED BY <2>1 DEF Flagged, Kept, SameCall, Call
<1> QED BY <1>1, <1>2, <1>3, <1>4

(* Flags may change twice. *)
LEMMA FlaggedTwice ==
  ASSUME NEW r, NEW q, NEW s, Flagged(r, q), Flagged(q, s)
  PROVE  Flagged(r, s)
BY DEF Flagged, Kept, SameCall

(* Ended and PutEnded give the call its result. *)
LEMMA EndedFinishes ==
  ASSUME NEW r, NEW q, Flagged(r, q), NEW res
  PROVE  Finishes(r, Ended(q, res), res) /\ Ended(q, res).pc = "done"
BY DEF Flagged, Kept, SameCall, Call, Ended, Finishes

(* A Put finishes too when its cleanup comes first. *)
LEMMA PutEndedFinishes ==
  ASSUME NEW r, NEW q, Flagged(r, q), NEW res, r.op = "put"
  PROVE  Finishes(r, PutEnded(q, res), res)
BY DEF Flagged, Kept, SameCall, Call, PutEnded, Finishes

(* The legacy row comes next. *)
LEMMA NextCandidateMoves ==
  ASSUME NEW r, NEW q, Flagged(r, q)
  PROVE  LET s == NextCandidate(q) IN
         /\ SameCall(r, s) /\ s.data = r.data /\ s.res = r.res
         /\ s.pc = "head" /\ s.cand = "legacy" /\ s.tag = NoRow
BY DEF Flagged, Kept, SameCall, Call, NextCandidate

(* Publishing comes next. *)
LEMMA StartPublishMoves ==
  ASSUME NEW r, NEW q, Flagged(r, q)
  PROVE  LET s == StartPublish(q) IN
         /\ SameCall(r, s) /\ s.data = r.data /\ s.res = r.res
         /\ s.pc = "publish" /\ s.cand = "current" /\ s.tag = NoRow
BY DEF Flagged, Kept, SameCall, Call, StartPublish

(* Only pc changes. *)
LEMMA PcMoves ==
  ASSUME NEW r, NEW q, Flagged(r, q), NEW pc
  PROVE  Kept(r, [q EXCEPT !.pc = pc]) /\ [q EXCEPT !.pc = pc].pc = pc
BY DEF Flagged, Kept, SameCall, Call

(* Delete is through with one encoding. *)
LEMMA ScanNextMoves ==
  ASSUME NEW r, NEW q, Flagged(r, q), r.op \notin {"put", "get"}, r.cand \in Encodings,
         (r.pc = "head" /\ AbsentAt(r)) \/ r.pc = "rmpay",
         rows' = rows
  PROVE  Move(r, ScanNext(q))
<1>1. q.cand = r.cand /\ q.key = r.key
  BY DEF Flagged, Kept, SameCall
<1>2. CASE HasNextCandidate(q)
  <2>1. ScanNext(q) = NextCandidate(q)
    BY <1>2 DEF ScanNext
  <2>2. r.cand = "current" /\ r.key \in LongKeys
    BY <1>1, <1>2 DEF HasNextCandidate, HasLegacyKey
  <2>3. LooksAtLegacy(r, NextCandidate(q))
    BY <2>2, NextCandidateMoves DEF LooksAtLegacy
  <2> QED BY <2>1, <2>3 DEF Move
<1>3. CASE ~HasNextCandidate(q)
  <2>1. ScanNext(q) = Ended(q, "ok")
    BY <1>3 DEF ScanNext
  <2>2. r.cand = "legacy" \/ r.key \notin LongKeys
    BY <1>1, <1>3 DEF HasNextCandidate, HasLegacyKey, Encodings
  <2>3. RunsOut(r, Ended(q, "ok"))
    BY <2>2, EndedFinishes DEF RunsOut
  <2> QED BY <2>1, <2>3 DEF Move
<1> QED BY <1>2, <1>3

(* An outcome of readManifestAt, and when the bucket allows it. *)
Answered(r, o) ==
  /\ o \in Outcomes
  /\ o = "found" => r.pc = "get" /\ RowAt(r) = r.tag /\ r.tag \notin {NoRow, BadRow}
  /\ o = "notfound" => r.pc = "head" /\ AbsentAt(r)

(* settleAgainstLegacyManifest and the resolution of a publish. *)
LEMMA PutReadMoves ==
  ASSUME NEW r, NEW q, Flagged(r, q), NEW o, Answered(r, o), rows' = rows,
         r.pc \in {"head", "get"}, r.op = "put"
  PROVE  /\ r.cand = "legacy" => Move(r, Settle(q, o))
         /\ r.cand = "current" => Move(r, Resolve(q, o))
<1>0. Verdict(q) = Verdict(r)
  BY DEF Flagged, Kept, Verdict, ManifestsMatch
<1>1. CASE o = "found"
  <2>1. Settle(q, o) = PutEnded(q, Verdict(r))
    BY <1>0, <1>1, Zenon DEF Settle
  <2>2. Move(r, Settle(q, o))
    BY <1>1, <2>1, PutEndedFinishes DEF Move, Finds, Answered
  <2> DEFINE z == [q EXCEPT !.safe = q.tag.pay # q.pay]
  <2>3. Resolve(q, o) = PutEnded(z, Verdict(r))
    BY <1>0, <1>1 DEF Resolve
  <2>4. Flagged(r, z)
    <3>1. (q.tag.pay # q.pay) \in BOOLEAN /\ q \in Call
      BY DEF Flagged
    <3>2. Flagged(q, z)
      BY <3>1, FlagFacts
    <3> QED BY <3>2, FlaggedTwice
  <2> HIDE DEF z
  <2>5. Move(r, Resolve(q, o))
    BY <1>1, <2>3, <2>4, PutEndedFinishes DEF Move, Finds, Answered
  <2> QED BY <2>2, <2>5
<1>2. ASSUME o # "found" PROVE Move(r, Resolve(q, o))
  <2>1. Resolve(q, o) = PutEnded(q, ErrFor(q.live))
    BY <1>2 DEF Resolve
  <2>2. ErrFor(q.live) \in Errs
    BY ErrForType DEF Errs
  <2> QED BY <2>1, <2>2, PutEndedFinishes DEF Move, Fails
<1>3. ASSUME o = "notfound", r.cand = "legacy" PROVE Move(r, Settle(q, o))
  <2>1. Settle(q, o) = StartPublish(q)
    BY <1>3 DEF Settle
  <2> QED BY <1>3, <2>1, StartPublishMoves DEF Move, BeginsPublish, Answered
<1>4. ASSUME o \notin {"found", "notfound"} PROVE Move(r, Settle(q, o))
  <2>1. Settle(q, o) = PutEnded(q, o)
    BY <1>4 DEF Settle
  <2>2. o \in Errs
    BY <1>4 DEF Errs, Answered, Outcomes
  <2> QED BY <2>1, <2>2, PutEndedFinishes DEF Move, Fails
<1> QED BY <1>1, <1>2, <1>3, <1>4

(* locateManifest. *)
LEMMA LocateMoves ==
  ASSUME NEW r, NEW q, Flagged(r, q), NEW o, Answered(r, o), rows' = rows,
         r.pc \in {"head", "get"}, r.op = "get", r.cand \in Encodings
  PROVE  Move(r, Locate(q, o))
<1>0. q.cand = r.cand /\ q.key = r.key
  BY DEF Flagged, Kept, SameCall
<1>1. CASE o = "found"
  <2> DEFINE s == [q EXCEPT !.pc = "fetch"]
  <2>1. Locate(q, o) = s
    BY <1>1 DEF Locate
  <2>2. Kept(r, s) /\ s.pc = "fetch"
    BY PcMoves
  <2> HIDE DEF s
  <2>3. Finds(r, s)
    BY <1>1, <2>2 DEF Finds, Answered
  <2> QED BY <2>1, <2>3 DEF Move
<1>2. CASE o = "notfound" /\ HasNextCandidate(q)
  <2>1. Locate(q, o) = NextCandidate(q)
    BY <1>2 DEF Locate
  <2>2. r.cand = "current" /\ r.key \in LongKeys
    BY <1>0, <1>2 DEF HasNextCandidate, HasLegacyKey
  <2>3. LooksAtLegacy(r, NextCandidate(q))
    BY <1>2, <2>2, NextCandidateMoves DEF LooksAtLegacy, Answered
  <2> QED BY <2>1, <2>3 DEF Move
<1>3. CASE o = "notfound" /\ ~HasNextCandidate(q)
  <2>1. Locate(q, o) = Ended(q, "notfound")
    BY <1>3 DEF Locate
  <2>2. r.cand = "legacy" \/ r.key \notin LongKeys
    BY <1>0, <1>3 DEF HasNextCandidate, HasLegacyKey, Encodings
  <2>3. RunsOut(r, Ended(q, "notfound"))
    BY <1>3, <2>2, EndedFinishes DEF RunsOut, Answered
  <2> QED BY <2>1, <2>3 DEF Move
<1>4. CASE o \notin {"found", "notfound"}
  <2>1. Locate(q, o) = Ended(q, o)
    BY <1>4 DEF Locate
  <2>2. o \in Errs
    BY <1>4 DEF Errs, Answered, Outcomes
  <2> QED BY <2>1, <2>2, EndedFinishes DEF Move, Fails
<1> QED BY <1>1, <1>2, <1>3, <1>4

(* Delete's scan of the candidates. *)
LEMMA ScanMoves ==
  ASSUME NEW r, NEW q, Flagged(r, q), NEW o, Answered(r, o), rows' = rows,
         r.pc \in {"head", "get"}, r.op \notin {"put", "get"}, r.cand \in Encodings
  PROVE  Move(r, Scan(q, o))
<1>1. CASE o = "found"
  <2> DEFINE s == [q EXCEPT !.pc = "rmrow"]
  <2>1. Scan(q, o) = s
    BY <1>1 DEF Scan
  <2>2. Kept(r, s) /\ s.pc = "rmrow"
    BY PcMoves
  <2> HIDE DEF s
  <2>3. Finds(r, s)
    BY <1>1, <2>2 DEF Finds, Answered
  <2> QED BY <2>1, <2>3 DEF Move
<1>2. CASE o = "notfound"
  <2>1. Scan(q, o) = ScanNext(q)
    BY <1>2 DEF Scan
  <2> QED BY <1>2, <2>1, ScanNextMoves DEF Answered
<1>3. CASE o \notin {"found", "notfound"}
  <2>1. Scan(q, o) = Ended(q, o)
    BY <1>3 DEF Scan
  <2>2. o \in Errs
    BY <1>3 DEF Errs, Answered, Outcomes
  <2> QED BY <2>1, <2>2, EndedFinishes DEF Move, Fails
<1> QED BY <1>1, <1>2, <1>3

(* Whatever readManifestAt answers, its caller makes one of the moves. *)
LEMMA AfterReadMoves ==
  ASSUME NEW r \in Call, NEW q, Flagged(r, q), NEW o, Answered(r, o), rows' = rows,
         r.pc \in {"head", "get"}
  PROVE  Move(r, AfterRead(q, o))
<1>0. q.op = r.op /\ q.cand = r.cand /\ r.cand \in {"current", "legacy"}
  BY DEF Flagged, Kept, SameCall, Call, Encodings
<1>1. CASE r.op = "put" /\ r.cand = "legacy"
  <2>1. AfterRead(q, o) = Settle(q, o)
    BY <1>0, <1>1 DEF AfterRead
  <2> QED BY <1>1, <2>1, PutReadMoves
<1>2. CASE r.op = "put" /\ r.cand = "current"
  <2>1. AfterRead(q, o) = Resolve(q, o)
    BY <1>0, <1>2 DEF AfterRead
  <2> QED BY <1>2, <2>1, PutReadMoves
<1>3. CASE r.op = "get"
  <2>1. AfterRead(q, o) = Locate(q, o)
    BY <1>0, <1>3 DEF AfterRead
  <2> QED BY <1>0, <1>3, <2>1, LocateMoves DEF Encodings
<1>4. CASE r.op \notin {"put", "get"}
  <2>1. AfterRead(q, o) = Scan(q, o)
    BY <1>0, <1>4 DEF AfterRead
  <2> QED BY <1>0, <1>4, <2>1, ScanMoves DEF Encodings
<1> QED BY <1>0, <1>1, <1>2, <1>3, <1>4

-----------------------------------------------------------------------------
(* Every step of a client is one of the moves. *)

(* A running call goes on running, or returns and gives its slot back. *)
LEMMA RunningMoves ==
  ASSUME NEW c \in Clients, NEW s, Step(c, s), Move(call[c], s), Observe,
         call[c].pc \notin {"idle", "acquire", "done"}
  PROVE  Moves(c, s)
<1>1. s.pc \notin {"idle", "acquire"}
  BY DEF Move, Fails, Begins, Returns, Takes, GoesOn, Published, LooksAtLegacy,
         BeginsPublish, NotesRow, RunsOut, Finds, Streams, Delivers, Finishes
<1>2. GateMove(c, call[c], s)
  BY <1>1 DEF GateMove, Step
<1> QED BY <1>2 DEF Moves, Step

(* Begin, Reject and Return. *)
LEMMA CallerMoves ==
  ASSUME TypeOK, NEW c \in Clients, Begin(c) \/ Reject(c) \/ Return(c)
  PROVE  \E s : Moves(c, s)
<1>0. call[c] \in Call
  BY DEF TypeOK
<1>1. CASE Begin(c)
  <2>1. PICK k \in Keys, o \in {"put", "get", "delete"}, d \in Contents :
          call' = [call EXCEPT ![c] =
                     [@ EXCEPT !.pc = "acquire", !.op = o, !.key = k,
                               !.data = IF o = "put" THEN d ELSE NoData]]
    BY <1>1 DEF Begin
  <2> DEFINE s == [call[c] EXCEPT !.pc = "acquire", !.op = o, !.key = k,
                                  !.data = IF o = "put" THEN d ELSE NoData]
  <2>2. call' = [call EXCEPT ![c] = s]
    BY <2>1 DEF TypeOK
  <2>3. /\ s.pc = "acquire" /\ s.op = o /\ s.key = k
        /\ s.data = IF o = "put" THEN d ELSE NoData
        /\ s.cand = call[c].cand /\ s.tag = call[c].tag /\ s.res = call[c].res
    BY <1>0 DEF Call
  <2> HIDE DEF s
  <2>4. call[c].pc = "idle" /\ rows' = rows /\ held' = held /\ Observe
    BY <1>1 DEF Begin, store
  <2>5. Move(call[c], s)
    BY <2>3, <2>4 DEF Move, Begins
  <2> QED BY <2>2, <2>3, <2>4, <2>5 DEF Moves, GateMove
<1>2. CASE Reject(c)
  <2> DEFINE s == Ended(call[c], "rejected")
  <2>1. call' = [call EXCEPT ![c] = s]
    BY <1>2 DEF Reject, TypeOK
  <2>2. Flagged(call[c], call[c])
    BY <1>0 DEF Flagged, Kept, SameCall
  <2>3. Finishes(call[c], s, "rejected") /\ s.pc = "done"
    BY <2>2, EndedFinishes
  <2> HIDE DEF s
  <2>4. call[c].pc = "idle" /\ rows' = rows /\ held' = held /\ Observe
    BY <1>2 DEF Reject, store
  <2>5. Move(call[c], s)
    BY <2>3, <2>4 DEF Move, Fails, Errs
  <2> QED BY <2>1, <2>3, <2>4, <2>5 DEF Moves, GateMove
<1>3. CASE Return(c)
  <2>1. call' = [call EXCEPT ![c] = NoCall] /\ call[c].pc = "done"
    BY <1>3 DEF Return
  <2>2. rows' = rows /\ held' = held /\ Observe /\ NoCall.pc = "idle"
    BY <1>3 DEF Return, store, NoCall
  <2> QED BY <2>1, <2>2 DEF Moves, GateMove, Move, Returns
<1> QED BY <1>1, <1>2, <1>3

(* The transfer gate: a slot, no payload id, or the deadline. *)
LEMMA GateMoves ==
  ASSUME TypeOK, NEW c \in Clients,
         Acquire(c) \/ AcquireNoIdentity(c) \/ AcquireTimeout(c)
  PROVE  \E s : Moves(c, s)
<1>0. call[c] \in Call
  BY DEF TypeOK
<1>1. CASE Acquire(c)
  <2>1. /\ call[c].pc = "acquire" /\ rows' = rows /\ Observe
        /\ Cardinality(held) < MaxTransfers /\ held' = held \cup {c}
    BY <1>1 DEF Acquire
  <2>2. CASE call[c].op = "put"
    <3>1. PICK p \in Payloads \ used :
            call' = [call EXCEPT ![c] = [@ EXCEPT !.pc = "upload", !.pay = p]]
      BY <1>1, <2>2 DEF Acquire
    <3> DEFINE s == [call[c] EXCEPT !.pc = "upload", !.pay = p]
    <3>2. call' = [call EXCEPT ![c] = s]
      BY <3>1 DEF TypeOK
    <3>3. /\ s.pc = "upload" /\ s.pay = p /\ s.op = call[c].op /\ s.key = call[c].key
          /\ s.data = call[c].data /\ s.cand = call[c].cand
          /\ s.tag = call[c].tag /\ s.res = call[c].res
      BY <1>0 DEF Call
    <3> HIDE DEF s
    <3>4. Move(call[c], s)
      BY <2>1, <2>2, <3>3 DEF Move, Takes
    <3> QED BY <2>1, <3>2, <3>3, <3>4 DEF Moves, GateMove
  <2>3. CASE call[c].op # "put"
    <3> DEFINE s == [call[c] EXCEPT !.pc = "head"]
    <3>2. call' = [call EXCEPT ![c] = s]
      BY <1>1, <2>3 DEF Acquire, TypeOK
    <3>3. /\ s.pc = "head" /\ s.pay = call[c].pay /\ s.op = call[c].op /\ s.key = call[c].key
          /\ s.data = call[c].data /\ s.cand = call[c].cand
          /\ s.tag = call[c].tag /\ s.res = call[c].res
      BY <1>0 DEF Call
    <3> HIDE DEF s
    <3>4. Move(call[c], s)
      BY <2>1, <2>3, <3>3 DEF Move, Takes
    <3> QED BY <2>1, <3>2, <3>3, <3>4 DEF Moves, GateMove
  <2> QED BY <2>2, <2>3
<1>2. CASE AcquireNoIdentity(c) \/ AcquireTimeout(c)
  <2>1. call[c].pc = "acquire" /\ rows' = rows /\ held' = held /\ Observe
    BY <1>2 DEF AcquireNoIdentity, AcquireTimeout, store
  <2>2. ASSUME NEW q, NEW res \in {"backend", "ctx"}, Flagged(call[c], q),
               call' = [call EXCEPT ![c] = Ended(q, res)]
        PROVE  \E s : Moves(c, s)
    <3> DEFINE s == Ended(q, res)
    <3>1. Finishes(call[c], s, res) /\ s.pc = "done"
      BY <2>2, EndedFinishes
    <3>2. call' = [call EXCEPT ![c] = s]
      BY <2>2
    <3> HIDE DEF s
    <3>3. Move(call[c], s)
      BY <2>1, <3>1 DEF Move, Fails, Errs
    <3> QED BY <2>1, <3>1, <3>2, <3>3 DEF Moves, GateMove
  <2>3. Flagged(call[c], call[c]) /\ Flagged(call[c], [call[c] EXCEPT !.live = FALSE])
    BY <1>0, FlagFacts DEF Flagged, Kept, SameCall
  <2>4. \/ call' = [call EXCEPT ![c] = Ended(call[c], "backend")]
        \/ call' = [call EXCEPT ![c] = Ended([call[c] EXCEPT !.live = FALSE], "ctx")]
    BY <1>2 DEF AcquireNoIdentity, AcquireTimeout, TypeOK
  <2> QED BY <2>2, <2>3, <2>4
<1> QED BY <1>1, <1>2

(* A running call that ends with an error, its flags being what they may. *)
LEMMA FailedMoves ==
  ASSUME NEW c \in Clients, NEW q, Flagged(call[c], q), NEW res \in Errs, rows' = rows, Observe,
         call[c].pc \notin {"idle", "acquire", "cleanup", "done"},
         \/ Step(c, Ended(q, res))
         \/ call[c].op = "put" /\ Step(c, PutEnded(q, res))
  PROVE  \E s : Moves(c, s)
<1>1. ASSUME NEW s, Finishes(call[c], s, res), Step(c, s)
      PROVE  Moves(c, s)
  <2>1. Move(call[c], s)
    BY <1>1 DEF Move, Fails
  <2> QED BY <1>1, <2>1, RunningMoves
<1> QED BY <1>1, EndedFinishes, PutEndedFinishes

(* The locals of a call with its context's state as the step leaves it. *)
LEMMA LiveFlagged ==
  ASSUME TypeOK, NEW c \in Clients
  PROVE  /\ call[c] \in Call
         /\ Flagged(call[c], call[c])
         /\ \A live \in {call[c].live, FALSE} : Flagged(call[c], [call[c] EXCEPT !.live = live])
<1>1. call[c] \in Call /\ call[c].live \in BOOLEAN
  BY DEF TypeOK, Call
<1>2. Flagged(call[c], call[c])
  BY <1>1 DEF Flagged, Kept, SameCall
<1>3. \A live \in {call[c].live, FALSE} : Flagged(call[c], [call[c] EXCEPT !.live = live])
  BY <1>1, FlagFacts
<1> QED BY <1>1, <1>2, <1>3

(* The upload and its verification. *)
LEMMA UploadMoves ==
  ASSUME TypeOK, LocalsInv, NEW c \in Clients,
         \/ UploadOk(c) \/ UploadTooLarge(c) \/ UploadFailed(c)
         \/ VerifyOk(c) \/ VerifyFailed(c)
  PROVE  \E s : Moves(c, s)
<1>0. /\ rows' = rows /\ Observe /\ call[c].pc \in {"upload", "verify"} /\ call[c].op = "put"
      /\ Errs = {"integrity", "backend", "ctx", "toolarge", "rejected", "closed"}
      /\ \A live : ErrFor(live) \in Errs
  BY LocalsFacts DEF UploadOk, UploadTooLarge, UploadFailed, VerifyOk, VerifyFailed, store,
                   LocalInv, Errs, ErrFor
<1>1. CASE UploadOk(c)
  <2> DEFINE r == [call[c] EXCEPT !.safe = TRUE]
  <2>1. Flagged(call[c], r)
    BY LiveFlagged, FlagFacts
  <2>2. \/ Step(c, [r EXCEPT !.pc = "verify"])
        \/ Step(c, PutEnded(r, "integrity"))
    BY <1>1 DEF UploadOk
  <2> HIDE DEF r
  <2>3. ASSUME Step(c, [r EXCEPT !.pc = "verify"])
        PROVE  \E s : Moves(c, s)
    <3> DEFINE s == [r EXCEPT !.pc = "verify"]
    <3>1. Kept(call[c], s) /\ s.pc = "verify"
      BY <2>1, PcMoves
    <3>2. Step(c, s)
      BY <2>3
    <3> HIDE DEF s
    <3>3. Move(call[c], s)
      BY <1>0, <1>1, <3>1 DEF Move, GoesOn, UploadOk
    <3> QED BY <1>0, <3>2, <3>3, RunningMoves
  <2> QED BY <1>0, <2>1, <2>2, <2>3, FailedMoves
<1>2. CASE UploadTooLarge(c)
  <2>1. Step(c, PutEnded(call[c], "toolarge"))
    BY <1>2 DEF UploadTooLarge
  <2> QED BY <1>0, <2>1, LiveFlagged, FailedMoves
<1>3. CASE UploadFailed(c)
  <2>1. PICK live \in {call[c].live, FALSE} :
          Step(c, PutEnded([call[c] EXCEPT !.live = live], ErrFor(live)))
    BY <1>3 DEF UploadFailed
  <2> QED BY <1>0, <2>1, LiveFlagged, FailedMoves
<1>4. CASE VerifyOk(c)
  <2>0. call[c].pc = "verify"
    BY <1>4 DEF VerifyOk
  <2>1. CASE payloads[call[c].pay] # call[c].data
    <3>1. Step(c, PutEnded(call[c], "integrity"))
      BY <1>4, <2>1 DEF VerifyOk
    <3> QED BY <1>0, <3>1, LiveFlagged, FailedMoves
  <2>2. CASE payloads[call[c].pay] = call[c].data /\ HasLegacyKey(call[c].key)
    <3>1. Step(c, NextCandidate(call[c]))
      BY <1>4, <2>2 DEF VerifyOk, AfterVerify
    <3>2. LooksAtLegacy(call[c], NextCandidate(call[c]))
      BY <1>0, <2>0, <2>2, LiveFlagged, NextCandidateMoves DEF LooksAtLegacy, HasLegacyKey
    <3> QED BY <1>0, <3>1, <3>2, RunningMoves DEF Move
  <2>3. CASE payloads[call[c].pay] = call[c].data /\ ~HasLegacyKey(call[c].key)
    <3>1. Step(c, StartPublish(call[c]))
      BY <1>4, <2>3 DEF VerifyOk, AfterVerify
    <3>2. BeginsPublish(call[c], StartPublish(call[c]))
      BY <1>0, <2>0, <2>3, LiveFlagged, StartPublishMoves DEF BeginsPublish, HasLegacyKey
    <3> QED BY <1>0, <3>1, <3>2, RunningMoves DEF Move
  <2> QED BY <2>1, <2>2, <2>3
<1>5. CASE VerifyFailed(c)
  <2>1. PICK live \in {call[c].live, FALSE} : \E o \in {ErrFor(live), "integrity"} :
          Step(c, PutEnded([call[c] EXCEPT !.live = live], o))
    BY <1>5 DEF VerifyFailed
  <2>2. PICK o \in {ErrFor(live), "integrity"} :
          Step(c, PutEnded([call[c] EXCEPT !.live = live], o))
    BY <2>1
  <2>3. o \in Errs
    BY <1>0
  <2> QED BY <1>0, <2>2, <2>3, LiveFlagged, FailedMoves
<1> QED BY <1>1, <1>2, <1>3, <1>4, <1>5

(* A failed attempt: another one follows, or the code that handles the error. *)
LEMMA AttemptMoves ==
  ASSUME TypeOK, NEW c \in Clients, NEW q, Flagged(call[c], q)
  PROVE  /\ Flagged(call[c], [q EXCEPT !.tries = 0])
         /\ AttemptsLeft(q) =>
              MaxAttempts > 1 /\ Flagged(call[c], [q EXCEPT !.tries = @ + 1])
<1>1. q \in Call
  BY DEF Flagged
<1>2. AttemptsLeft(q) => MaxAttempts > 1
  BY <1>1, BoundAssumption DEF AttemptsLeft, Call
<1> QED BY <1>1, <1>2, FlagFacts, FlaggedTwice

(* Publishing the row: created, conflict, or an attempt that failed. *)
LEMMA PublishMoves ==
  ASSUME TypeOK, LocalsInv, NEW c \in Clients,
         PublishCreated(c) \/ PublishConflict(c) \/ PublishRefused(c) \/ PublishLost(c)
  PROVE  \E s : Moves(c, s)
<1>0. Observe /\ call[c].pc = "publish" /\ call[c].op = "put"
  BY LocalsFacts DEF PublishCreated, PublishConflict, PublishRefused, PublishLost, LocalInv
<1>1. ASSUME NEW q, Flagged(call[c], q), Step(c, StartResolve(q)),
             rows' = rows \/ RowCreated(call[c])
      PROVE  \E s : Moves(c, s)
  <2> DEFINE s == StartResolve(q)
  <2>1. Kept(call[c], s) /\ s.pc = "head"
    BY <1>1 DEF StartResolve, Flagged, Kept, SameCall, Call
  <2>2. Step(c, s)
    BY <1>1
  <2> HIDE DEF s
  <2>3. Move(call[c], s)
    BY <1>0, <1>1, <2>1 DEF Move, GoesOn
  <2> QED BY <1>0, <2>2, <2>3, RunningMoves
<1>2. CASE PublishCreated(c)
  <2>1. RowCreated(call[c]) /\ Step(c, PutEnded(call[c], "ok"))
    BY <1>2 DEF PublishCreated, RowCreated
  <2>2. Finishes(call[c], PutEnded(call[c], "ok"), "ok")
    BY <1>0, LiveFlagged, PutEndedFinishes
  <2>3. Move(call[c], PutEnded(call[c], "ok"))
    BY <1>0, <2>1, <2>2 DEF Move, Published
  <2> QED BY <1>0, <2>1, <2>3, RunningMoves
<1>3. CASE PublishConflict(c)
  <2>1. Step(c, StartResolve(call[c])) /\ rows' = rows
    BY <1>3 DEF PublishConflict, store
  <2> QED BY <1>1, <2>1, LiveFlagged
<1>4. CASE PublishRefused(c) \/ PublishLost(c)
  <2>1. rows' = rows \/ (LostAcks /\ RowCreated(call[c]))
    BY <1>4 DEF PublishRefused, PublishLost, RowCreated, store
  <2>2. FailedAttempt(c, StartResolve)
    BY <1>4 DEF PublishRefused, PublishLost
  <2>3. PICK live \in {call[c].live, FALSE} :
          \/ /\ AttemptsLeft([call[c] EXCEPT !.live = live])
             /\ Step(c, [[call[c] EXCEPT !.live = live] EXCEPT !.tries = @ + 1])
          \/ Step(c, StartResolve([[call[c] EXCEPT !.live = live] EXCEPT !.tries = 0]))
    BY <2>2 DEF FailedAttempt
  <2> DEFINE q == [call[c] EXCEPT !.live = live]
  <2>4. Flagged(call[c], q)
    BY LiveFlagged
  <2>5. \/ AttemptsLeft(q) /\ Step(c, [q EXCEPT !.tries = @ + 1])
        \/ Step(c, StartResolve([q EXCEPT !.tries = 0]))
    BY <2>3
  <2> HIDE DEF q
  <2>6. ASSUME AttemptsLeft(q), Step(c, [q EXCEPT !.tries = @ + 1])
        PROVE  \E s : Moves(c, s)
    <3> DEFINE s == [q EXCEPT !.tries = @ + 1]
    <3>1. MaxAttempts > 1 /\ Flagged(call[c], s)
      BY <2>4, <2>6, AttemptMoves
    <3>2. Step(c, s)
      BY <2>6
    <3> HIDE DEF s
    <3>3. Move(call[c], s)
      BY <1>0, <2>1, <3>1 DEF Move, GoesOn, Flagged, Repeated
    <3> QED BY <1>0, <3>2, <3>3, RunningMoves
  <2> QED BY <1>1, <2>1, <2>4, <2>5, <2>6, AttemptMoves
<1> QED BY <1>2, <1>3, <1>4

(* The deferred cleanup. *)
LEMMA CleanupMoves ==
  ASSUME TypeOK, NEW c \in Clients, Cleanup(c)
  PROVE  \E s : Moves(c, s)
<1> DEFINE s == [call[c] EXCEPT !.pc = "done"]
<1>1. Kept(call[c], s) /\ s.pc = "done"
  BY LiveFlagged, PcMoves
<1>2. Step(c, s) /\ rows' = rows /\ Observe /\ call[c].pc = "cleanup"
  BY DEF Cleanup
<1> HIDE DEF s
<1>3. Move(call[c], s)
  BY <1>1, <1>2 DEF Move, GoesOn
<1> QED BY <1>2, <1>3, RunningMoves

(* A step of readManifestAt that ends with outcome o. *)
LEMMA AnsweredMoves ==
  ASSUME TypeOK, NEW c \in Clients, NEW q, Flagged(call[c], q), NEW o, Answered(call[c], o),
         call[c].pc \in {"head", "get"}, Step(c, AfterRead(q, o)), UNCHANGED store, Observe
  PROVE  \E s : Moves(c, s)
<1>1. Move(call[c], AfterRead(q, o))
  BY AfterReadMoves, LiveFlagged DEF store
<1> QED BY <1>1, RunningMoves

(* readManifestAt: HEAD, then GET of exactly that object. *)
LEMMA ReadMoves ==
  ASSUME TypeOK, NEW c \in Clients, ReadStep(c)
  PROVE  \E s : Moves(c, s)
<1>0. UNCHANGED store /\ Observe /\ call[c].pc \in {"head", "get"}
  BY DEF ReadStep, HeadFound, HeadAbsent, HeadDamaged, HeadRefused, GetRowOk, GetRowRefused
<1>1. CASE HeadFound(c)
  <2> DEFINE s == [call[c] EXCEPT !.pc = "get", !.tag = RowAt(call[c])]
  <2>1. /\ SameCall(call[c], s) /\ s.data = call[c].data /\ s.res = call[c].res
        /\ s.cand = call[c].cand /\ s.pc = "get" /\ s.tag = RowAt(call[c])
    BY LiveFlagged DEF SameCall, Call
  <2>2. Step(c, s) /\ call[c].pc = "head" /\ RowAt(call[c]) # NoRow
    BY <1>1 DEF HeadFound
  <2> HIDE DEF s
  <2>3. Move(call[c], s)
    BY <1>0, <2>1, <2>2 DEF Move, NotesRow, store
  <2> QED BY <1>0, <2>2, <2>3, RunningMoves
<1>2. CASE HeadAbsent(c)
  <2>1. Answered(call[c], "notfound") /\ Step(c, AfterRead(call[c], "notfound"))
    BY <1>2 DEF HeadAbsent, Answered, Outcomes, AbsentAt
  <2> QED BY <1>0, <2>1, LiveFlagged, AnsweredMoves
<1>3. CASE HeadDamaged(c)
  <2>1. Answered(call[c], "integrity") /\ Step(c, AfterRead(call[c], "integrity"))
    BY <1>3 DEF HeadDamaged, Answered, Outcomes
  <2> QED BY <1>0, <2>1, LiveFlagged, AnsweredMoves
<1>4. CASE HeadRefused(c)
  <2>1. PICK live \in {call[c].live, FALSE} :
          Step(c, AfterRead([call[c] EXCEPT !.live = live], ErrFor(live)))
    BY <1>4 DEF HeadRefused
  <2>2. Answered(call[c], ErrFor(live))
    BY ErrForType DEF Answered
  <2> QED BY <1>0, <2>1, <2>2, LiveFlagged, AnsweredMoves
<1>5. CASE GetRowOk(c)
  <2> DEFINE o == CASE RowAt(call[c]) = NoRow -> "integrity"
                    [] RowAt(call[c]) # NoRow /\ RowAt(call[c]) # call[c].tag -> "backend"
                    [] OTHER -> IF call[c].tag = BadRow THEN "integrity" ELSE "found"
  <2>1. Step(c, AfterRead(call[c], o)) /\ call[c].pc = "get"
    BY <1>5 DEF GetRowOk
  <2>2. Answered(call[c], o)
    BY <2>1 DEF Answered, Outcomes
  <2> HIDE DEF o
  <2> QED BY <1>0, <2>1, <2>2, LiveFlagged, AnsweredMoves
<1>6. CASE GetRowRefused(c)
  <2>1. PICK live \in {call[c].live, FALSE} : \E o \in {ErrFor(live), "integrity"} :
          Step(c, AfterRead([call[c] EXCEPT !.live = live], o))
    BY <1>6 DEF GetRowRefused
  <2>2. PICK o \in {ErrFor(live), "integrity"} :
          Step(c, AfterRead([call[c] EXCEPT !.live = live], o))
    BY <2>1
  <2>3. Answered(call[c], o)
    BY ErrForType DEF Answered, Outcomes
  <2> QED BY <1>0, <2>2, <2>3, LiveFlagged, AnsweredMoves
<1> QED BY <1>1, <1>2, <1>3, <1>4, <1>5, <1>6 DEF ReadStep

(* Delete's requests. *)
LEMMA DeleteMoves ==
  ASSUME TypeOK, LocalsInv, NEW c \in Clients, DeleteStep(c), call[c].op = "delete"
  PROVE  \E s : Moves(c, s)
<1>0. Observe /\ call[c].pc \in {"rmrow", "rmpay"} /\ call[c].cand \in Encodings
  BY LiveFlagged DEF DeleteStep, RemoveRow, RemoveRowRefused, RemoveRowLost, RemovePayload, Call
<1>1. CASE RemoveRow(c)
  <2> DEFINE s == [call[c] EXCEPT !.pc = "rmpay", !.tries = 0]
  <2>1. Kept(call[c], s) /\ s.pc = "rmpay"
    BY LiveFlagged DEF Kept, SameCall, Call
  <2>2. Step(c, s) /\ RowRemoved(call[c]) /\ call[c].pc = "rmrow"
    BY <1>1 DEF RemoveRow, RowRemoved
  <2> HIDE DEF s
  <2>3. Move(call[c], s)
    BY <2>1, <2>2 DEF Move, GoesOn
  <2> QED BY <1>0, <2>2, <2>3, RunningMoves
<1>2. CASE RemoveRowRefused(c) \/ RemoveRowLost(c)
  <2>1. /\ rows' = rows \/ (LostAcks /\ RowRemoved(call[c]))
        /\ call[c].pc = "rmrow"
    BY <1>2 DEF RemoveRowRefused, RemoveRowLost, RowRemoved, store
  <2>2. FailedAttempt(c, DeleteFailed)
    BY <1>2 DEF RemoveRowRefused, RemoveRowLost
  <2>3. PICK live \in {call[c].live, FALSE} :
          \/ /\ AttemptsLeft([call[c] EXCEPT !.live = live])
             /\ Step(c, [[call[c] EXCEPT !.live = live] EXCEPT !.tries = @ + 1])
          \/ Step(c, DeleteFailed([[call[c] EXCEPT !.live = live] EXCEPT !.tries = 0]))
    BY <2>2 DEF FailedAttempt
  <2> DEFINE q == [call[c] EXCEPT !.live = live]
  <2>4. Flagged(call[c], q)
    BY LiveFlagged
  <2>5. \/ AttemptsLeft(q) /\ Step(c, [q EXCEPT !.tries = @ + 1])
        \/ Step(c, DeleteFailed([q EXCEPT !.tries = 0]))
    BY <2>3
  <2> HIDE DEF q
  <2>6. ASSUME AttemptsLeft(q), Step(c, [q EXCEPT !.tries = @ + 1])
        PROVE  \E s : Moves(c, s)
    <3> DEFINE s == [q EXCEPT !.tries = @ + 1]
    <3>1. MaxAttempts > 1 /\ Flagged(call[c], s)
      BY <2>4, <2>6, AttemptMoves
    <3>2. Step(c, s)
      BY <2>6
    <3> HIDE DEF s
    <3>3. Move(call[c], s)
      BY <2>1, <3>1 DEF Move, GoesOn, Flagged, Repeated
    <3> QED BY <1>0, <3>2, <3>3, RunningMoves
  <2>7. ASSUME Step(c, DeleteFailed([q EXCEPT !.tries = 0]))
        PROVE  \E s : Moves(c, s)
    <3> DEFINE z == [q EXCEPT !.tries = 0]
    <3>1. Flagged(call[c], z)
      BY <2>4, AttemptMoves
    <3>2. Step(c, Ended(z, ErrFor(z.live)))
      BY <2>7 DEF DeleteFailed
    <3> HIDE DEF z
    <3> DEFINE s == Ended(z, ErrFor(z.live))
    <3>3. Finishes(call[c], s, ErrFor(z.live)) /\ ErrFor(z.live) \in Errs
      BY <3>1, EndedFinishes, ErrForType DEF Errs
    <3>4. Step(c, s)
      BY <3>2
    <3> HIDE DEF s
    <3>5. Move(call[c], s)
      BY <2>1, <3>3 DEF Move, Fails
    <3> QED BY <1>0, <3>4, <3>5, RunningMoves
  <2> QED BY <2>5, <2>6, <2>7
<1>3. CASE RemovePayload(c)
  <2>1. Step(c, ScanNext(call[c])) /\ rows' = rows /\ call[c].pc = "rmpay"
    BY <1>3 DEF RemovePayload
  <2>2. Move(call[c], ScanNext(call[c]))
    BY <1>0, <2>1, LiveFlagged, ScanNextMoves
  <2> QED BY <1>0, <2>1, <2>2, RunningMoves
<1> QED BY <1>1, <1>2, <1>3 DEF DeleteStep

(* Get's payload request and its stream. *)
LEMMA StreamMoves ==
  ASSUME TypeOK, NEW c \in Clients, FetchOk(c) \/ FetchRefused(c) \/ StreamStep(c)
  PROVE  \E s : Moves(c, s)
<1>0. rows' = rows /\ Observe /\ call[c].pc \in {"fetch", "stream"}
  BY DEF FetchOk, FetchRefused, StreamStep, StreamEnd, StreamBroken, store
<1>1. ASSUME NEW live \in {call[c].live, FALSE}, NEW res \in Errs,
             Step(c, Ended([call[c] EXCEPT !.live = live], res))
      PROVE  \E s : Moves(c, s)
  BY <1>0, <1>1, LiveFlagged, FailedMoves
<1>2. ASSUME NEW res \in Errs, Step(c, Ended(call[c], res))
      PROVE  \E s : Moves(c, s)
  BY <1>0, <1>2, LiveFlagged, FailedMoves
<1>3. ASSUME NEW d, Step(c, [call[c] EXCEPT !.pc = "stream", !.data = d]), call[c].pc = "fetch"
      PROVE  \E s : Moves(c, s)
  <2> DEFINE s == [call[c] EXCEPT !.pc = "stream", !.data = d]
  <2>1. /\ SameCall(call[c], s) /\ s.res = call[c].res /\ s.pc = "stream"
        /\ s.cand = call[c].cand /\ s.tag = call[c].tag
    BY LiveFlagged DEF SameCall, Call
  <2>2. Step(c, s)
    BY <1>3
  <2> HIDE DEF s
  <2>3. Move(call[c], s)
    BY <1>0, <1>3, <2>1 DEF Move, Streams
  <2> QED BY <1>0, <2>2, <2>3, RunningMoves
<1>4. CASE FetchOk(c)
  <2>1. \/ Step(c, Ended(call[c], "integrity"))
        \/ \E d : Step(c, [call[c] EXCEPT !.pc = "stream", !.data = d])
    BY <1>4 DEF FetchOk
  <2>2. call[c].pc = "fetch" /\ "integrity" \in Errs
    BY <1>4 DEF FetchOk, Errs
  <2> QED BY <2>1, <2>2, <1>2, <1>3
<1>5. CASE FetchRefused(c)
  <2>1. \A live : ErrFor(live) \in Errs
    BY ErrForType DEF Errs
  <2> QED BY <1>5, <2>1, <1>1 DEF FetchRefused
<1>6. CASE StreamEnd(c)
  <2>1. CASE call[c].data = call[c].tag.data
    <3>1. Step(c, Ended(call[c], "value")) /\ call[c].pc = "stream"
      BY <1>6, <2>1 DEF StreamEnd
    <3>2. Finishes(call[c], Ended(call[c], "value"), "value")
      BY LiveFlagged, EndedFinishes
    <3>3. Move(call[c], Ended(call[c], "value"))
      BY <1>0, <2>1, <3>1, <3>2 DEF Move, Delivers
    <3> QED BY <1>0, <3>1, <3>3, RunningMoves
  <2>2. CASE call[c].data # call[c].tag.data
    <3>1. Step(c, Ended(call[c], "integrity")) /\ "integrity" \in Errs
      BY <1>6, <2>2 DEF StreamEnd, Errs
    <3> QED BY <3>1, <1>2
  <2> QED BY <2>1, <2>2
<1>7. CASE StreamBroken(c)
  <2>1. "closed" \in Errs /\ \A live : ErrFor(live) \in Errs
    BY ErrForType DEF Errs
  <2> QED BY <1>7, <2>1, <1>1, <1>2 DEF StreamBroken
<1> QED BY <1>4, <1>5, <1>6, <1>7 DEF StreamStep

-----------------------------------------------------------------------------
(* The locals of a call at each of its points, beyond LocalInv. *)
PointInv(r) ==
  /\ r.pc = "idle" => r = NoCall
  /\ r.pc \notin {"done", "cleanup"} => r.res = "none"
  /\ r.pc \notin {"idle", "done"} => r.op \in {"put", "get", "delete"}
  /\ r.op = "none" <=> r.key = NoKey
  /\ r.pc = "publish" => r.cand = "current" /\ r.tag = NoRow
  /\ r.pc = "acquire" => r.cand = "current"
  /\ r.pc \in {"fetch", "stream"} => r.op = "get"
  /\ r.pc \in {"rmrow", "rmpay"} => r.op = "delete"
  /\ r.pc = "done" => r.res \in Results \ {"none"}
  /\ r.pc = "cleanup" => r.res \in Results \ {"none"}

(***************************************************************************)
(* A service that answers 400 for v0.1.1's single-segment key "could never *)
(* have stored the row" (readLegacyManifest, blob.go:437): the store takes *)
(* the 400 for absence on that ground, and the theorems about values say   *)
(* so of the bucket they start from.  Without such a service it is TRUE.   *)
(***************************************************************************)
LegacyRefused == Legacy400 => \A k \in Keys : rows["legacy"][k] = NoRow

(* The rows of the two encodings: what a key's value rests on. *)
RowInv ==
  /\ LegacyRefused
  /\ \A k \in Keys \ LongKeys : rows["legacy"][k] = NoRow
  /\ \A k \in Keys : rows["legacy"][k] # NoRow => rows["current"][k] = NoRow
  /\ \A c \in Clients : call[c].pc = "publish" => rows["legacy"][call[c].key] = NoRow
  /\ \A c \in Clients : call[c].pc = "rmrow" => RowAt(call[c]) # BadRow

PointsInv == \A c \in Clients : PointInv(call[c])

(* What a call has seen of its key so far. *)
SeenInv(r, values) ==
  /\ r.pc \in {"fetch", "stream"} => r.tag.data \in values
  /\ r.op # "put" /\ r.cand = "legacy" /\ r.pc \in {"head", "get", "rmrow"}
       => NoData \in values \/ rows["legacy"][r.key] # NoRow
  /\ r.pc = "rmpay"
       => \/ NoData \in values
          \/ r.cand = "current" /\ rows["legacy"][r.key] # NoRow
  /\ r.pc \in {"cleanup", "done"} =>
       /\ r.res = "value" => r.op = "get" /\ r.data \in values \cap Contents
       /\ r.res = "notfound" => r.op = "get" /\ NoData \in values
       /\ r.res = "ok" => r.op \in {"put", "delete"}
       /\ r.res = "ok" /\ r.op = "put" => r.data \in values
       /\ r.res = "ok" /\ r.op = "delete" => NoData \in values
       /\ r.res = "conflict" => r.op = "put" /\ values \cap (Contents \ {r.data}) # {}

TruthInv == \A c \in Clients : SeenInv(call[c], seen[c])

-----------------------------------------------------------------------------
(* Every step leaves well-formed locals. *)

(* Local code of a Put that has its payload id. *)
LEMMA PutStepLocals ==
  ASSUME TypeOK, LocalsInv, NEW c \in Clients, PutStep(c)
  PROVE  call'[c] \in Call /\ LocalInv(call'[c])
<1>0. /\ call[c] \in Call /\ LocalInv(call[c]) /\ call[c].live \in BOOLEAN
      /\ call[c].pc \in {"upload", "verify", "publish", "cleanup"} /\ PutLocals(call[c])
  BY LocalsFacts DEF PutStep, UploadOk, UploadTooLarge, UploadFailed, VerifyOk, VerifyFailed,
     PublishCreated, PublishConflict, PublishRefused, PublishLost, Cleanup, LocalInv, PutLocals
<1>1. ASSUME NEW s \in Call, LocalInv(s), Step(c, s)
      PROVE  call'[c] \in Call /\ LocalInv(call'[c])
  BY <1>1 DEF Step, TypeOK
<1>2. ASSUME NEW q \in Call, PutLocals(q), NEW res \in Results, Step(c, PutEnded(q, res))
      PROVE  call'[c] \in Call /\ LocalInv(call'[c])
  BY <1>1, <1>2, PutEndedFacts
<1>3. ASSUME NEW live \in {call[c].live, FALSE}
      PROVE  LET q == [call[c] EXCEPT !.live = live] IN
             q \in Call /\ LocalInv(q) /\ PutLocals(q) /\ q.pc = call[c].pc
  <2>1. live \in BOOLEAN
    BY <1>0
  <2> QED BY <1>0, <2>1, LiveFacts DEF PutLocals, SameCall
<1>4. \A live : ErrFor(live) \in Results
  BY ErrForType
<1>5. CASE UploadOk(c)
  <2> DEFINE q == [call[c] EXCEPT !.safe = TRUE]
  <2>1. q \in Call /\ PutLocals(q) /\ q.pc = call[c].pc
    BY <1>0 DEF Call, PutLocals
  <2>2. Step(c, [q EXCEPT !.pc = "verify"]) \/ Step(c, PutEnded(q, "integrity"))
    BY <1>5 DEF UploadOk
  <2> HIDE DEF q
  <2>3. ASSUME Step(c, [q EXCEPT !.pc = "verify"])
        PROVE  call'[c] \in Call /\ LocalInv(call'[c])
    <3> DEFINE s == [q EXCEPT !.pc = "verify"]
    <3>1. s \in Call /\ s.pc = "verify" /\ PutLocals(s)
      BY <2>1 DEF Call, Pcs, PutLocals
    <3>2. Step(c, s)
      BY <2>3
    <3> HIDE DEF s
    <3>3. LocalInv(s)
      BY <3>1 DEF LocalInv, PutLocals
    <3> QED BY <1>1, <3>1, <3>2, <3>3
  <2> QED BY <1>2, <2>1, <2>2, <2>3 DEF Results
<1>6. CASE UploadTooLarge(c)
  BY <1>0, <1>2, <1>6 DEF UploadTooLarge, Results
<1>7. CASE UploadFailed(c)
  BY <1>2, <1>3, <1>4, <1>7 DEF UploadFailed
<1>8. CASE VerifyOk(c)
  <2>1. \/ Step(c, NextCandidate(call[c])) \/ Step(c, StartPublish(call[c]))
        \/ Step(c, PutEnded(call[c], "integrity"))
    BY <1>8 DEF VerifyOk, AfterVerify
  <2>2. call[c].pc = "verify"
    BY <1>8 DEF VerifyOk
  <2> QED BY <1>0, <1>1, <1>2, <2>1, <2>2, NextCandidateFacts, StartPublishFacts DEF Results
<1>9. CASE VerifyFailed(c)
  <2>1. PICK live \in {call[c].live, FALSE} : \E o \in {ErrFor(live), "integrity"} :
          Step(c, PutEnded([call[c] EXCEPT !.live = live], o))
    BY <1>9 DEF VerifyFailed
  <2> QED BY <1>2, <1>3, <1>4, <2>1 DEF Results
<1>10. CASE PublishCreated(c)
  BY <1>0, <1>2, <1>10 DEF PublishCreated, Results
<1>11. CASE PublishConflict(c)
  BY <1>0, <1>1, <1>11, StartResolveFacts DEF PublishConflict
<1>12. CASE PublishRefused(c) \/ PublishLost(c)
  <2>1. FailedAttempt(c, StartResolve) /\ call[c].pc = "publish"
    BY <1>12 DEF PublishRefused, PublishLost
  <2>2. PICK live \in {call[c].live, FALSE} :
          \/ /\ AttemptsLeft([call[c] EXCEPT !.live = live])
             /\ Step(c, [[call[c] EXCEPT !.live = live] EXCEPT !.tries = @ + 1])
          \/ Step(c, StartResolve([[call[c] EXCEPT !.live = live] EXCEPT !.tries = 0]))
    BY <2>1 DEF FailedAttempt
  <2> DEFINE q == [call[c] EXCEPT !.live = live]
  <2>3. q \in Call /\ LocalInv(q) /\ q.pc = "publish"
    BY <1>3, <2>1
  <2>4. \/ AttemptsLeft(q) /\ Step(c, [q EXCEPT !.tries = @ + 1])
        \/ Step(c, StartResolve([q EXCEPT !.tries = 0]))
    BY <2>2
  <2> HIDE DEF q
  <2>5. [q EXCEPT !.tries = 0] \in Call /\ LocalInv([q EXCEPT !.tries = 0])
        /\ [q EXCEPT !.tries = 0].pc = "publish"
    BY <2>3, ResetFacts
  <2> QED BY <1>1, <2>3, <2>4, <2>5, AttemptFacts, StartResolveFacts
<1>13. CASE Cleanup(c)
  <2> DEFINE s == [call[c] EXCEPT !.pc = "done"]
  <2>1. s \in Call /\ s.pc = "done" /\ PutLocals(s)
    BY <1>0 DEF Call, Pcs, PutLocals
  <2>2. Step(c, s)
    BY <1>13 DEF Cleanup
  <2> HIDE DEF s
  <2>3. LocalInv(s)
    BY <2>1 DEF LocalInv, PutLocals
  <2> QED BY <1>1, <2>1, <2>2, <2>3
<1> QED BY <1>5, <1>6, <1>7, <1>8, <1>9, <1>10, <1>11, <1>12, <1>13 DEF PutStep

(* readManifestAt. *)
LEMMA ReadStepLocals ==
  ASSUME TypeOK, LocalsInv, NEW c \in Clients, ReadStep(c)
  PROVE  call'[c] \in Call /\ LocalInv(call'[c])
<1>0. /\ call[c] \in Call /\ LocalInv(call[c]) /\ call[c].live \in BOOLEAN
      /\ call[c].pc \in {"head", "get"}
  BY LocalsFacts DEF ReadStep, HeadFound, HeadAbsent, HeadDamaged, HeadRefused, GetRowOk,
                     GetRowRefused
<1>1. ASSUME NEW s \in Call, LocalInv(s), Step(c, s)
      PROVE  call'[c] \in Call /\ LocalInv(call'[c])
  BY <1>1 DEF Step, TypeOK
<1>2. ASSUME NEW live \in {call[c].live, FALSE}, NEW o, Answered(call[c], o),
             Step(c, AfterRead([call[c] EXCEPT !.live = live], o))
      PROVE  call'[c] \in Call /\ LocalInv(call'[c])
  <2> DEFINE q == [call[c] EXCEPT !.live = live]
  <2>1. q \in Call /\ LocalInv(q) /\ q.pc = call[c].pc /\ q.tag = call[c].tag
    <3>1. live \in BOOLEAN
      BY <1>0
    <3> QED BY <1>0, <3>1, LiveFacts
  <2>2. Step(c, AfterRead(q, o))
    BY <1>2
  <2> HIDE DEF q
  <2>3. ReadsOn(q, AfterRead(q, o), o)
    BY <1>0, <1>2, <2>1, AfterReadFacts DEF Answered
  <2> QED BY <1>1, <2>2, <2>3 DEF ReadsOn
<1>3. [call[c] EXCEPT !.live = call[c].live] = call[c]
  BY <1>0, SameLive
<1>4. CASE HeadFound(c)
  <2> DEFINE s == [call[c] EXCEPT !.pc = "get", !.tag = RowAt(call[c])]
  <2>1. call[c].pc = "head" /\ RowAt(call[c]) # NoRow /\ Step(c, s)
    BY <1>4 DEF HeadFound
  <2>2. RowAt(call[c]) \in Row
    BY <1>0 DEF LocalInv, Call, RowAt, TypeOK
  <2>3. /\ s \in Call /\ SameCall(call[c], s) /\ s.pc = "get" /\ s.tag = RowAt(call[c])
        /\ s.safe = call[c].safe /\ s.data = call[c].data
    BY <1>0, <2>2 DEF Call, Pcs, SameCall
  <2> HIDE DEF s
  <2>4. LocalInv(s)
    BY <1>0, <2>1, <2>3 DEF LocalInv, SameCall
  <2> QED BY <1>1, <2>1, <2>3, <2>4
<1>5. CASE HeadAbsent(c)
  <2>1. Answered(call[c], "notfound") /\ Step(c, AfterRead(call[c], "notfound"))
    BY <1>5 DEF HeadAbsent, Answered, Outcomes, AbsentAt
  <2> QED BY <1>2, <1>3, <2>1
<1>6. CASE HeadDamaged(c)
  <2>1. Answered(call[c], "integrity") /\ Step(c, AfterRead(call[c], "integrity"))
    BY <1>6 DEF HeadDamaged, Answered, Outcomes
  <2> QED BY <1>2, <1>3, <2>1
<1>7. CASE HeadRefused(c)
  <2>1. PICK live \in {call[c].live, FALSE} :
          Step(c, AfterRead([call[c] EXCEPT !.live = live], ErrFor(live)))
    BY <1>7 DEF HeadRefused
  <2>2. Answered(call[c], ErrFor(live))
    BY ErrForType DEF Answered
  <2> QED BY <1>2, <2>1, <2>2
<1>8. CASE GetRowOk(c)
  <2> DEFINE o == CASE RowAt(call[c]) = NoRow -> "integrity"
                    [] RowAt(call[c]) # NoRow /\ RowAt(call[c]) # call[c].tag -> "backend"
                    [] OTHER -> IF call[c].tag = BadRow THEN "integrity" ELSE "found"
  <2>1. Step(c, AfterRead(call[c], o)) /\ call[c].pc = "get"
    BY <1>8 DEF GetRowOk
  <2>2. Answered(call[c], o)
    BY <2>1 DEF Answered, Outcomes
  <2> HIDE DEF o
  <2> QED BY <1>2, <1>3, <2>1, <2>2
<1>9. CASE GetRowRefused(c)
  <2>1. PICK live \in {call[c].live, FALSE} : \E o \in {ErrFor(live), "integrity"} :
          Step(c, AfterRead([call[c] EXCEPT !.live = live], o))
    BY <1>9 DEF GetRowRefused
  <2>2. PICK o \in {ErrFor(live), "integrity"} :
          Step(c, AfterRead([call[c] EXCEPT !.live = live], o))
    BY <2>1
  <2>3. Answered(call[c], o)
    BY ErrForType DEF Answered, Outcomes
  <2> QED BY <1>2, <2>2, <2>3
<1> QED BY <1>4, <1>5, <1>6, <1>7, <1>8, <1>9 DEF ReadStep

(* Delete's requests, Get's payload request and its stream. *)
LEMMA DeleteGetLocals ==
  ASSUME TypeOK, LocalsInv, NEW c \in Clients,
         DeleteStep(c) \/ FetchOk(c) \/ FetchRefused(c) \/ StreamStep(c)
  PROVE  call'[c] \in Call /\ LocalInv(call'[c])
<1>0. /\ call[c] \in Call /\ LocalInv(call[c]) /\ call[c].live \in BOOLEAN
      /\ call[c].pc \in {"rmrow", "rmpay", "fetch", "stream"}
  BY LocalsFacts DEF DeleteStep, RemoveRow, RemoveRowRefused, RemoveRowLost, RemovePayload,
                     FetchOk, FetchRefused, StreamStep, StreamEnd, StreamBroken
<1>1. ASSUME NEW s \in Call, LocalInv(s), Step(c, s)
      PROVE  call'[c] \in Call /\ LocalInv(call'[c])
  BY <1>1 DEF Step, TypeOK
<1>2. ASSUME NEW live \in {call[c].live, FALSE}
      PROVE  LET q == [call[c] EXCEPT !.live = live] IN
             q \in Call /\ LocalInv(q) /\ q.pc = call[c].pc
  <2>1. live \in BOOLEAN
    BY <1>0
  <2> QED BY <1>0, <2>1, LiveFacts
<1>3. ASSUME NEW q \in Call, LocalInv(q), NEW res \in Results, Step(c, Ended(q, res))
      PROVE  call'[c] \in Call /\ LocalInv(call'[c])
  BY <1>1, <1>3, EndedFacts
<1>4. \A live : ErrFor(live) \in Results
  BY ErrForType
<1>5. CASE RemoveRow(c)
  <2> DEFINE s == [call[c] EXCEPT !.pc = "rmpay", !.tries = 0]
  <2>1. 0 \in 0..(MaxAttempts - 1)
    BY BoundAssumption
  <2>2. s \in Call
    BY <1>0, <2>1 DEF Call, Pcs
  <2>3. /\ SameCall(call[c], s) /\ s.pc = "rmpay" /\ s.safe = call[c].safe
        /\ s.tag = call[c].tag /\ s.data = call[c].data
    BY <1>0 DEF Call, SameCall
  <2>4. Step(c, s) /\ call[c].pc = "rmrow"
    BY <1>5 DEF RemoveRow
  <2> HIDE DEF s
  <2>5. LocalInv(s)
    BY <1>0, <2>3, <2>4 DEF LocalInv, SameCall
  <2> QED BY <1>1, <2>2, <2>4, <2>5
<1>6. CASE RemoveRowRefused(c) \/ RemoveRowLost(c)
  <2>1. FailedAttempt(c, DeleteFailed) /\ call[c].pc = "rmrow"
    BY <1>6 DEF RemoveRowRefused, RemoveRowLost
  <2>2. PICK live \in {call[c].live, FALSE} :
          \/ /\ AttemptsLeft([call[c] EXCEPT !.live = live])
             /\ Step(c, [[call[c] EXCEPT !.live = live] EXCEPT !.tries = @ + 1])
          \/ Step(c, DeleteFailed([[call[c] EXCEPT !.live = live] EXCEPT !.tries = 0]))
    BY <2>1 DEF FailedAttempt
  <2> DEFINE q == [call[c] EXCEPT !.live = live]
  <2>3. q \in Call /\ LocalInv(q) /\ q.pc = "rmrow"
    BY <1>2, <2>1
  <2>4. \/ AttemptsLeft(q) /\ Step(c, [q EXCEPT !.tries = @ + 1])
        \/ Step(c, DeleteFailed([q EXCEPT !.tries = 0]))
    BY <2>2
  <2> HIDE DEF q
  <2> DEFINE z == [q EXCEPT !.tries = 0]
  <2>5. z \in Call /\ LocalInv(z)
    BY <2>3, ResetFacts
  <2>6. \/ AttemptsLeft(q) /\ Step(c, [q EXCEPT !.tries = @ + 1])
        \/ Step(c, Ended(z, ErrFor(z.live)))
    BY <2>4 DEF DeleteFailed
  <2> HIDE DEF z
  <2> QED BY <1>1, <1>3, <1>4, <2>3, <2>5, <2>6, AttemptFacts
<1>7. CASE RemovePayload(c)
  <2>1. Step(c, ScanNext(call[c])) /\ call[c].pc = "rmpay"
    BY <1>7 DEF RemovePayload
  <2> QED BY <1>0, <1>1, <2>1, ScanNextFacts
<1>8. CASE FetchOk(c)
  <2>1. call[c].tag.pay \in Payloads /\ call[c].op # "put" /\ call[c].pc = "fetch"
    BY <1>0, <1>8, RowFields DEF FetchOk, LocalInv, Call
  <2>2. \/ Step(c, Ended(call[c], "integrity"))
        \/ \E d \in {payloads[call[c].tag.pay], Garbage} :
             Step(c, [call[c] EXCEPT !.pc = "stream", !.data = d])
    BY <1>8 DEF FetchOk
  <2>3. ASSUME NEW d \in {payloads[call[c].tag.pay], Garbage},
               Step(c, [call[c] EXCEPT !.pc = "stream", !.data = d])
        PROVE  call'[c] \in Call /\ LocalInv(call'[c])
    <3> DEFINE s == [call[c] EXCEPT !.pc = "stream", !.data = d]
    <3>1. d \in Contents \cup {NoData, Garbage}
      BY <2>1 DEF TypeOK
    <3>2. s \in Call
      BY <1>0, <3>1 DEF Call, Pcs
    <3>3. /\ SameCall(call[c], s) /\ s.pc = "stream" /\ s.safe = call[c].safe
          /\ s.tag = call[c].tag
      BY <1>0 DEF Call, SameCall
    <3>4. Step(c, s)
      BY <2>3
    <3> HIDE DEF s
    <3>5. LocalInv(s)
      BY <1>0, <2>1, <3>3 DEF LocalInv, SameCall
    <3> QED BY <1>1, <3>2, <3>4, <3>5
  <2> QED BY <1>0, <1>3, <2>2, <2>3 DEF Results
<1>9. CASE FetchRefused(c)
  BY <1>2, <1>3, <1>4, <1>9 DEF FetchRefused
<1>10. CASE StreamEnd(c)
  BY <1>0, <1>3, <1>10 DEF StreamEnd, Results
<1>11. CASE StreamBroken(c)
  <2>1. CASE Step(c, Ended(call[c], "closed"))
    BY <1>0, <1>3, <2>1 DEF Results
  <2>2. CASE \E live \in {call[c].live, FALSE} :
               Step(c, Ended([call[c] EXCEPT !.live = live], ErrFor(live)))
    BY <1>2, <1>3, <1>4, <2>2
  <2> QED BY <1>11, <2>1, <2>2 DEF StreamBroken
<1> QED BY <1>5, <1>6, <1>7, <1>8, <1>9, <1>10, <1>11 DEF DeleteStep, StreamStep

(* The caller's side and the transfer gate. *)
LEMMA CallerGateLocals ==
  ASSUME TypeOK, LocalsInv, NEW c \in Clients,
         \/ Begin(c) \/ Reject(c) \/ Return(c)
         \/ Acquire(c) \/ AcquireNoIdentity(c) \/ AcquireTimeout(c)
  PROVE  call'[c] \in Call /\ LocalInv(call'[c])
<1>0. call[c] \in Call /\ LocalInv(call[c])
  BY LocalsFacts
<1>1. ASSUME NEW s \in Call, LocalInv(s), call' = [call EXCEPT ![c] = s]
      PROVE  call'[c] \in Call /\ LocalInv(call'[c])
  BY <1>1 DEF TypeOK
<1>2. CASE Begin(c)
  <2>1. PICK k \in Keys, o \in {"put", "get", "delete"}, d \in Contents :
          call' = [call EXCEPT ![c] =
                     [call[c] EXCEPT !.pc = "acquire", !.op = o, !.key = k,
                                     !.data = IF o = "put" THEN d ELSE NoData]]
    BY <1>2 DEF Begin
  <2> DEFINE x == IF o = "put" THEN d ELSE NoData
             s == [call[c] EXCEPT !.pc = "acquire", !.op = o, !.key = k, !.data = x]
  <2>2. x \in Contents \cup {NoData, Garbage} /\ (o = "put" => x \in Contents)
    OBVIOUS
  <2>3. call' = [call EXCEPT ![c] = s]
    BY <2>1
  <2> HIDE DEF x
  <2>4. s \in Call
    BY <1>0, <2>2 DEF Call, Pcs
  <2>5. /\ s.pc = "acquire" /\ s.op = o /\ s.key = k /\ s.data = x
        /\ s.pay = call[c].pay /\ s.safe = call[c].safe
    BY <1>0 DEF Call
  <2> HIDE DEF s
  <2>6. call[c].pay = NoPayload /\ ~call[c].safe
    BY <1>0, <1>2 DEF Begin, LocalInv
  <2>7. LocalInv(s)
    BY <2>2, <2>5, <2>6, SentinelAssumption DEF LocalInv
  <2> QED BY <1>1, <2>3, <2>4, <2>7
<1>3. CASE Return(c)
  BY <1>1, <1>3, SentinelType DEF Return
<1>4. CASE Reject(c) \/ AcquireNoIdentity(c)
  <2>1. \E res \in Results : call' = [call EXCEPT ![c] = Ended(call[c], res)]
    BY <1>4 DEF Reject, AcquireNoIdentity, Results
  <2> QED BY <1>0, <1>1, <2>1, EndedFacts
<1>5. CASE AcquireTimeout(c)
  <2> DEFINE q == [call[c] EXCEPT !.live = FALSE]
  <2>1. call' = [call EXCEPT ![c] = Ended(q, "ctx")]
    BY <1>5 DEF AcquireTimeout
  <2>2. q \in Call /\ LocalInv(q)
    BY <1>0, LiveFacts
  <2> HIDE DEF q
  <2> QED BY <1>1, <2>1, <2>2, EndedFacts DEF Results
<1>6. CASE Acquire(c)
  <2>0. call[c].pc = "acquire"
    BY <1>6 DEF Acquire
  <2>1. \/ \E p \in Payloads : /\ call[c].op = "put"
                               /\ call' = [call EXCEPT ![c] = [call[c] EXCEPT !.pc = "upload", !.pay = p]]
        \/ call[c].op # "put" /\ call' = [call EXCEPT ![c] = [call[c] EXCEPT !.pc = "head"]]
    BY <1>6 DEF Acquire
  <2>2. ASSUME NEW p \in Payloads, call[c].op = "put",
               call' = [call EXCEPT ![c] = [call[c] EXCEPT !.pc = "upload", !.pay = p]]
        PROVE  call'[c] \in Call /\ LocalInv(call'[c])
    <3> DEFINE s == [call[c] EXCEPT !.pc = "upload", !.pay = p]
    <3>1. s \in Call
      BY <1>0 DEF Call, Pcs
    <3>2. /\ s.pc = "upload" /\ s.op = "put" /\ s.key = call[c].key /\ s.data = call[c].data
          /\ s.pay = p /\ s.safe = call[c].safe
      BY <1>0, <2>2 DEF Call
    <3>3. call' = [call EXCEPT ![c] = s]
      BY <2>2
    <3> HIDE DEF s
    <3>4. LocalInv(s)
      BY <1>0, <2>0, <2>2, <3>2, SentinelAssumption DEF LocalInv
    <3> QED BY <1>1, <3>1, <3>3, <3>4
  <2>3. ASSUME call[c].op # "put", call' = [call EXCEPT ![c] = [call[c] EXCEPT !.pc = "head"]]
        PROVE  call'[c] \in Call /\ LocalInv(call'[c])
    <3> DEFINE s == [call[c] EXCEPT !.pc = "head"]
    <3>1. s \in Call
      BY <1>0 DEF Call, Pcs
    <3>2. /\ s.pc = "head" /\ s.op = call[c].op /\ s.key = call[c].key /\ s.data = call[c].data
          /\ s.pay = call[c].pay /\ s.safe = call[c].safe
      BY <1>0 DEF Call
    <3>3. call' = [call EXCEPT ![c] = s]
      BY <2>3
    <3> HIDE DEF s
    <3>4. LocalInv(s)
      BY <1>0, <2>0, <2>3, <3>2 DEF LocalInv
    <3> QED BY <1>1, <3>1, <3>3, <3>4
  <2> QED BY <2>1, <2>2, <2>3
<1> QED BY <1>2, <1>3, <1>4, <1>5, <1>6

(* What one step does to the payloads: an upload writes the own one, a cleanup *)
(* removes it, and a Delete removes the one its manifest names.                *)
PayloadsMove(r) ==
  \A p \in Payloads :
    \/ payloads'[p] = payloads[p]
    \/ r.pc = "upload" /\ p = r.pay
    \/ r.pc = "cleanup" /\ p = r.pay /\ payloads'[p] = NoData
    \/ r.pc = "rmpay" /\ p = r.tag.pay /\ payloads'[p] = NoData

(* Every step does no more than that, and ids stay drawn. *)
LEMMA PayloadsMoved ==
  ASSUME TypeOK, NEW c \in Clients, CodeStep(c) \/ CallerStep(c)
  PROVE  /\ PayloadsMove(call[c])
         /\ payloads' \in [Payloads -> Contents \cup {NoData, Garbage}]
         /\ used \subseteq used' /\ used' \subseteq Payloads
<1>0. /\ payloads \in [Payloads -> Contents \cup {NoData, Garbage}] /\ used \subseteq Payloads
      /\ call[c].data \in Contents \cup {NoData, Garbage}
  BY DEF TypeOK, Call
<1>1. CASE \/ Begin(c) \/ Reject(c) \/ Return(c)
           \/ Acquire(c) \/ AcquireNoIdentity(c) \/ AcquireTimeout(c)
  BY <1>0, <1>1 DEF Begin, Reject, Return, Acquire, AcquireNoIdentity, AcquireTimeout, store,
                    PayloadsMove
<1>2. CASE \/ VerifyOk(c) \/ VerifyFailed(c) \/ UploadTooLarge(c) \/ PublishCreated(c)
           \/ PublishConflict(c) \/ PublishRefused(c) \/ PublishLost(c)
  BY <1>0, <1>2 DEF VerifyOk, VerifyFailed, UploadTooLarge, PublishCreated, PublishConflict,
                    PublishRefused, PublishLost, store, PayloadsMove
<1>3. CASE UploadOk(c) \/ UploadFailed(c)
  <2>1. used' = used /\ call[c].pc = "upload"
    BY <1>3 DEF UploadOk, UploadFailed
  <2>2. \/ payloads' = payloads
        \/ \E x \in {call[c].data, Garbage} : payloads' = [payloads EXCEPT ![call[c].pay] = x]
    BY <1>3 DEF UploadOk, UploadFailed
  <2> QED BY <1>0, <2>1, <2>2 DEF PayloadsMove
<1>4. CASE Cleanup(c)
  BY <1>0, <1>4 DEF Cleanup, PayloadsMove
<1>5. CASE ReadStep(c)
  BY <1>0, <1>5 DEF ReadStep, HeadFound, HeadAbsent, HeadDamaged, HeadRefused, GetRowOk,
                    GetRowRefused, store, PayloadsMove
<1>6. CASE RemoveRow(c) \/ RemoveRowRefused(c) \/ RemoveRowLost(c)
  BY <1>0, <1>6 DEF RemoveRow, RemoveRowRefused, RemoveRowLost, store, PayloadsMove
<1>7. CASE RemovePayload(c)
  BY <1>0, <1>7 DEF RemovePayload, PayloadsMove
<1>8. CASE FetchOk(c) \/ FetchRefused(c) \/ StreamStep(c)
  BY <1>0, <1>8 DEF FetchOk, FetchRefused, StreamStep, StreamEnd, StreamBroken, store, PayloadsMove
<1> QED BY <1>1, <1>2, <1>3, <1>4, <1>5, <1>6, <1>7, <1>8
       DEF CodeStep, CallerStep, PutStep, DeleteStep

(* Every step of a client is a move, and leaves well-formed locals. *)
LEMMA StepMoves ==
  ASSUME TypeOK, LocalsInv, NEW c \in Clients, PointInv(call[c]),
         CodeStep(c) \/ CallerStep(c)
  PROVE  \E s \in Call : Moves(c, s) /\ LocalInv(s)
<1>1. \E s : Moves(c, s)
  <2>1. CASE DeleteStep(c)
    <3>1. call[c].pc \in {"rmrow", "rmpay"}
      BY <2>1 DEF DeleteStep, RemoveRow, RemoveRowRefused, RemoveRowLost, RemovePayload
    <3> QED BY <2>1, <3>1, DeleteMoves DEF PointInv
  <2>2. CASE PutStep(c)
    BY <2>2, UploadMoves, PublishMoves, CleanupMoves DEF PutStep
  <2>3. CASE CodeStep(c) /\ ~DeleteStep(c) /\ ~PutStep(c)
    BY <2>3, GateMoves, ReadMoves, StreamMoves DEF CodeStep
  <2>4. CASE CallerStep(c)
    BY <2>4, CallerMoves, StreamMoves DEF CallerStep
  <2> QED BY <2>1, <2>2, <2>3, <2>4
<1>2. call'[c] \in Call /\ LocalInv(call'[c])
  BY PutStepLocals, ReadStepLocals, DeleteGetLocals, CallerGateLocals DEF CodeStep, CallerStep
<1>3. PICK s : Moves(c, s)
  BY <1>1
<1>4. call'[c] = s
  BY <1>3 DEF Moves, TypeOK
<1> QED BY <1>2, <1>3, <1>4

(* A move keeps the locals as PointInv says. *)
LEMMA PointMove ==
  ASSUME NEW r \in Call, LocalInv(r), PointInv(r), NEW s \in Call, LocalInv(s), Move(r, s)
  PROVE  PointInv(s)
<1>0. \A res \in Errs : res \in Results \ {"none"}
  BY DEF Errs, Results
<1>1. CASE Fails(r, s)
  BY <1>0, <1>1 DEF Fails, Finishes, SameCall, PointInv
<1>2. CASE Begins(r, s)
  BY <1>2, SentinelAssumption DEF Begins, PointInv, NoCall
<1>3. CASE Returns(r, s)
  BY <1>3 DEF Returns, PointInv, NoCall
<1>4. CASE Takes(r, s)
  BY <1>4 DEF Takes, PointInv
<1>5. CASE GoesOn(r, s)
  BY <1>5 DEF GoesOn, Kept, SameCall, PointInv
<1>6. CASE Published(r, s) \/ RunsOut(r, s) \/ Delivers(r, s)
  BY <1>6 DEF Published, RunsOut, Delivers, Finishes, SameCall, PointInv, Results
<1>7. CASE LooksAtLegacy(r, s) \/ BeginsPublish(r, s) \/ NotesRow(r, s)
  BY <1>7 DEF LooksAtLegacy, BeginsPublish, NotesRow, SameCall, PointInv
<1>8. CASE Finds(r, s)
  BY <1>8 DEF Finds, Kept, Finishes, SameCall, Verdict, PointInv, Results
<1>9. CASE Streams(r, s)
  BY <1>9 DEF Streams, SameCall, PointInv
<1> QED BY <1>1, <1>2, <1>3, <1>4, <1>5, <1>6, <1>7, <1>8, <1>9 DEF Move

-----------------------------------------------------------------------------
(* Slots. *)

(* Every move keeps the gate balanced. *)
LEMMA SlotsMove ==
  ASSUME TypeOK, SlotsBalanced, NEW c \in Clients, NEW s \in Call, Moves(c, s)
  PROVE  SlotsBalanced'
<1> DEFINE Outside == {"idle", "acquire", "done"}
<1>1. call'[c] = s /\ \A d \in Clients : d # c => call'[d] = call[d]
  BY DEF Moves, TypeOK
<1>2. /\ \A d : d \in held <=> d \in Clients /\ call[d].pc \notin Outside
      /\ Cardinality(held) <= MaxTransfers
  BY DEF SlotsBalanced
<1>3. IsFiniteSet(held) /\ Cardinality(held) \in Nat /\ MaxTransfers \in Nat
  BY BoundAssumption, FS_Subset, FS_CardinalityType DEF TypeOK
<1>4. CASE /\ call[c].pc = "acquire" /\ s.pc \in {"upload", "head"}
           /\ Cardinality(held) < MaxTransfers /\ held' = held \cup {c}
  <2>1. c \notin held
    BY <1>2, <1>4
  <2>2. Cardinality(held') = Cardinality(held) + 1
    BY <1>3, <1>4, <2>1, FS_AddElement
  <2>3. Cardinality(held') <= MaxTransfers
    BY <1>3, <1>4, <2>2
  <2>4. held' = {d \in Clients : call'[d].pc \notin Outside}
    BY <1>1, <1>2, <1>4
  <2> QED BY <2>3, <2>4 DEF SlotsBalanced
<1>5. CASE call[c].pc \in Outside /\ s.pc \in Outside /\ held' = held
  <2>1. held' = {d \in Clients : call'[d].pc \notin Outside}
    BY <1>1, <1>2, <1>5
  <2> QED BY <1>2, <1>5, <2>1 DEF SlotsBalanced
<1>6. CASE call[c].pc \notin Outside /\ s.pc \notin {"idle", "acquire"} /\ Release(c, s)
  <2>1. held' = {d \in Clients : call'[d].pc \notin Outside}
    BY <1>1, <1>2, <1>6 DEF Release
  <2>2. held' \subseteq held
    BY <1>6 DEF Release
  <2>3. Cardinality(held') <= Cardinality(held) /\ Cardinality(held') \in Nat
    BY <1>3, <2>2, FS_Subset, FS_CardinalityType
  <2>4. Cardinality(held') <= MaxTransfers
    BY <1>2, <1>3, <2>3
  <2> QED BY <2>1, <2>4 DEF SlotsBalanced
<1> QED BY <1>4, <1>5, <1>6 DEF Moves, GateMove

(* Initially nobody calls. *)
LEMMA PointsInit ==
  ASSUME Init
  PROVE  PointsInv /\ SlotsBalanced
<1>1. held = {} /\ \A c \in Clients : call[c] = NoCall
  BY DEF Init
<1>2. PointsInv
  <2>1. PointInv(NoCall)
    BY DEF PointInv, NoCall
  <2> QED BY <1>1, <2>1 DEF PointsInv
<1>3. Cardinality({}) <= MaxTransfers
  BY FS_EmptySet, BoundAssumption
<1>4. held = {c \in Clients : call[c].pc \notin {"idle", "acquire", "done"}}
  BY <1>1 DEF NoCall
<1> QED BY <1>1, <1>2, <1>3, <1>4 DEF SlotsBalanced

(* What every step of the protocol is, stated once for the proofs below. *)
LEMMA StepCases ==
  ASSUME TypeOK, LocalsInv, PointsInv, [Next]_vars
  PROVE  \/ UNCHANGED vars
         \/ \E c \in Clients, s \in Call :
              /\ Moves(c, s) /\ LocalInv(s) /\ PointInv(s)
              /\ CodeStep(c) \/ CallerStep(c)
<1>1. ASSUME NEW c \in Clients, CodeStep(c) \/ CallerStep(c)
      PROVE  \E s \in Call : Moves(c, s) /\ LocalInv(s) /\ PointInv(s)
  <2>1. PICK s \in Call : Moves(c, s) /\ LocalInv(s)
    BY <1>1, StepMoves DEF PointsInv
  <2>2. call[c] \in Call /\ LocalInv(call[c])
    BY LocalsFacts
  <2>3. PointInv(s)
    BY <2>1, <2>2, PointMove DEF Moves, PointsInv
  <2> QED BY <2>1, <2>3
<1> QED BY <1>1 DEF Next

(* The locals stay as PointInv says, and the gate balanced. *)
LEMMA PointsPreserved ==
  ASSUME TypeOK, LocalsInv, PointsInv, SlotsBalanced, [Next]_vars
  PROVE  PointsInv' /\ SlotsBalanced'
<1>1. CASE UNCHANGED vars
  BY <1>1 DEF vars, PointsInv, SlotsBalanced
<1>2. ASSUME NEW c \in Clients, NEW s \in Call, Moves(c, s), PointInv(s)
      PROVE  PointsInv' /\ SlotsBalanced'
  <2>1. PointsInv'
    BY <1>2 DEF Moves, PointsInv, TypeOK
  <2> QED BY <1>2, <2>1, SlotsMove
<1> QED BY <1>1, <1>2, StepCases

(***************************************************************************)
(* The locals of every call, and the gate, at every moment.                *)
(***************************************************************************)
THEOREM PointsInvariant == Spec => [](TypeOK /\ CleanupInv /\ PointsInv /\ SlotsBalanced)
<1>1. Init => TypeOK /\ CleanupInv /\ PointsInv /\ SlotsBalanced
  BY InitEstablishes, PointsInit
<1>2. (TypeOK /\ CleanupInv /\ PointsInv /\ SlotsBalanced) /\ [Next]_vars
        => (TypeOK /\ CleanupInv /\ PointsInv /\ SlotsBalanced)'
  BY NextPreserves, PointsPreserved DEF CleanupInv, LocalsInv
<1> QED BY <1>1, <1>2, PTL DEF Spec

(***************************************************************************)
(* The transfer gate (transfer.go): the slots that are taken are those of  *)
(* the calls between acquireTransfer and their return, on every path, and  *)
(* never more than MaxConcurrentTransfers.                                 *)
(***************************************************************************)
THEOREM SlotsAlwaysBalanced == Spec => []SlotsBalanced
BY PointsInvariant, PTL

-----------------------------------------------------------------------------
(* Rows and values. *)

(* What one move does to the rows. *)
RowsMove(r) ==
  \A e \in Encodings, k \in Keys :
    \/ rows'[e][k] = rows[e][k]
    \/ /\ r.pc = "publish" /\ e = "current" /\ k = r.key
       /\ rows[e][k] = NoRow /\ rows'[e][k] = OwnRow(r)
    \/ r.pc = "rmrow" /\ e = r.cand /\ k = r.key /\ rows'[e][k] = NoRow

(* A move writes the own row of a Put that publishes, or removes one row. *)
LEMMA RowsMoved ==
  ASSUME TypeOK, NEW c \in Clients, NEW s, Moves(c, s)
  PROVE  RowsMove(call[c])
<1>1. \/ rows' = rows
      \/ call[c].pc = "publish" /\ RowCreated(call[c])
      \/ call[c].pc = "rmrow" /\ RowRemoved(call[c])
  BY DEF Moves, Move, Fails, Begins, Returns, Takes, GoesOn, Repeated, Published,
         LooksAtLegacy, BeginsPublish, NotesRow, RunsOut, Finds, Streams, Delivers
<1> QED BY <1>1 DEF RowsMove, RowCreated, RowRemoved, TypeOK, Encodings

(* The rows a call names exist and its own row is no sentinel. *)
LEMMA OwnRowFacts ==
  ASSUME TypeOK, LocalsInv, NEW c \in Clients, call[c].pc = "publish"
  PROVE  /\ OwnRow(call[c]) \notin {NoRow, BadRow}
         /\ OwnRow(call[c]).data = call[c].data /\ call[c].data \in Contents
         /\ call[c].key \in Keys
<1>1. /\ call[c].data \in Contents /\ call[c].pay # NoPayload /\ call[c].key \in Keys
  BY LocalsFacts DEF LocalInv
<1> QED BY <1>1 DEF OwnRow, NoRow, BadRow

(* Rows stay rows. *)
LEMMA RowsTyped ==
  ASSUME TypeOK, LocalsInv, NEW c \in Clients, NEW s, Moves(c, s)
  PROVE  rows' \in [Encodings -> [Keys -> Row]]
<1>1. /\ rows \in [Encodings -> [Keys -> Row]] /\ NoRow \in Row
      /\ call[c].cand \in Encodings
  BY SentinelType, LocalsFacts DEF TypeOK, Call
<1>2. call[c].pc = "publish" => OwnRow(call[c]) \in Row
  BY LocalsFacts DEF LocalInv, OwnRow, Row
<1>3. \/ rows' = rows
      \/ call[c].pc = "publish" /\ RowCreated(call[c])
      \/ call[c].pc = "rmrow" /\ RowRemoved(call[c])
  BY DEF Moves, Move, Fails, Begins, Returns, Takes, GoesOn, Repeated, Published,
         LooksAtLegacy, BeginsPublish, NotesRow, RunsOut, Finds, Streams, Delivers
<1> QED BY <1>1, <1>2, <1>3 DEF RowCreated, RowRemoved

(* Every step keeps the types and the locals well-formed. *)
LEMMA LocalsPreserved ==
  ASSUME TypeOK, LocalsInv, PointsInv, [Next]_vars
  PROVE  TypeOK' /\ LocalsInv'
<1>1. CASE UNCHANGED vars
  BY <1>1 DEF vars, TypeOK, LocalsInv
<1>2. ASSUME NEW c \in Clients, NEW s \in Call, Moves(c, s), LocalInv(s),
             CodeStep(c) \/ CallerStep(c)
      PROVE  TypeOK' /\ LocalsInv'
  <2>1. call' \in [Clients -> Call] /\ LocalsInv'
    BY <1>2 DEF Moves, TypeOK, LocalsInv
  <2>2. payloads' \in [Payloads -> Contents \cup {NoData, Garbage}] /\ used' \subseteq Payloads
    BY <1>2, PayloadsMoved
  <2>3. held' \subseteq Clients
    BY <1>2 DEF Moves, GateMove, Release, TypeOK
  <2>4. rows' \in [Encodings -> [Keys -> Row]]
    BY <1>2, RowsTyped
  <2>5. seen' \in [Clients -> SUBSET (Contents \cup {NoData, Garbage})]
    BY <1>2, <2>1, <2>4, ObserveType DEF Moves
  <2> QED BY <2>1, <2>2, <2>3, <2>4, <2>5 DEF TypeOK
<1> QED BY <1>1, <1>2, StepCases

(* The sentinels differ. *)
LEMMA RowsDiffer ==
  /\ NoRow # BadRow /\ NoRow.data = NoData /\ BadRow.data = Garbage
  /\ \A t \in Row : t \notin {NoRow, BadRow} => t.data \in Contents
BY SentinelAssumption, RowFields DEF NoRow, BadRow

(* A move keeps the two encodings of a key apart. *)
LEMMA RowInvMove ==
  ASSUME TypeOK, LocalsInv, RowInv, NEW c \in Clients, NEW s \in Call,
         Moves(c, s), LocalInv(s)
  PROVE  RowInv'
<1>1. call'[c] = s /\ \A d \in Clients : d # c => call'[d] = call[d]
  BY DEF Moves, TypeOK
<1>2. RowsMove(call[c])
  BY RowsMoved
<1>3. call[c] \in Call /\ LocalInv(call[c]) /\ Encodings = {"current", "legacy"}
  BY LocalsFacts DEF Encodings
<1>4. call[c].pc = "publish" => OwnRow(call[c]) \notin {NoRow, BadRow}
  BY OwnRowFacts
<1>5. \A k \in Keys : rows'["legacy"][k] \in {rows["legacy"][k], NoRow}
  BY <1>2, <1>3 DEF RowsMove
<1>6. LegacyRefused' /\ (\A k \in Keys \ LongKeys : rows'["legacy"][k] = NoRow)
  BY <1>5, RowsDiffer DEF RowInv, LegacyRefused
<1>7. \A k \in Keys : rows'["legacy"][k] # NoRow => rows'["current"][k] = NoRow
  <2> SUFFICES ASSUME NEW k \in Keys, rows'["legacy"][k] # NoRow
               PROVE  rows'["current"][k] = NoRow
    OBVIOUS
  <2>1. rows["legacy"][k] # NoRow /\ rows["current"][k] = NoRow
    BY <1>5 DEF RowInv
  <2>2. ~(call[c].pc = "publish" /\ k = call[c].key)
    BY <2>1 DEF RowInv
  <2> QED BY <1>2, <1>3, <2>1, <2>2 DEF RowsMove
<1>8. ASSUME NEW d \in Clients, call'[d].pc = "publish"
      PROVE  rows'["legacy"][call'[d].key] = NoRow
  <2>1. call'[d].key \in Keys
    <3>1. call[d] \in Call /\ LocalInv(call[d])
      BY LocalsFacts
    <3> QED BY <1>1, <1>8, <3>1 DEF LocalInv, Call
  <2>2. CASE d # c \/ call[c].pc = "publish"
    <3>1. call[d].pc = "publish" /\ call'[d].key = call[d].key
      BY <1>1, <1>8, <2>2 DEF Moves, Move, Fails, Begins, Returns, Takes, GoesOn, Kept, SameCall,
         Published, Finishes, LooksAtLegacy, BeginsPublish, NotesRow, RunsOut, Finds, Streams, Delivers
    <3> QED BY <1>5, <2>1, <3>1 DEF RowInv
  <2>3. CASE d = c /\ call[c].pc # "publish"
    <3>1. BeginsPublish(call[c], s)
      BY <1>1, <1>8, <2>3 DEF Moves, Move, Fails, Begins, Returns, Takes, GoesOn, NoCall,
         Published, Finishes, LooksAtLegacy, NotesRow, RunsOut, Finds, Streams, Delivers
    <3>2. s.key = call[c].key /\ rows' = rows
      BY <3>1 DEF BeginsPublish, SameCall
    <3>3. rows["legacy"][call[c].key] = NoRow
      <4>1. CASE call[c].key \notin LongKeys
        BY <1>1, <2>1, <2>3, <3>2, <4>1 DEF RowInv
      <4>2. CASE call[c].key \in LongKeys
        BY <1>1, <2>1, <2>3, <3>1, <3>2, <4>2 DEF BeginsPublish, AbsentAt, RowAt, RowInv, LegacyRefused
      <4> QED BY <4>1, <4>2
    <3> QED BY <1>1, <2>3, <3>2, <3>3
  <2> QED BY <2>2, <2>3
<1>9. ASSUME NEW d \in Clients, call'[d].pc = "rmrow"
      PROVE  rows'[call'[d].cand][call'[d].key] # BadRow
  <2>1. call'[d].key \in Keys /\ call'[d].cand \in Encodings
    <3>1. call[d] \in Call /\ LocalInv(call[d])
      BY LocalsFacts
    <3> QED BY <1>1, <1>9, <3>1 DEF LocalInv, Call
  <2>2. ASSUME rows[call'[d].cand][call'[d].key] # BadRow
        PROVE  rows'[call'[d].cand][call'[d].key] # BadRow
    BY <1>2, <1>4, <2>1, <2>2, RowsDiffer DEF RowsMove
  <2>3. CASE d # c \/ call[c].pc = "rmrow"
    <3>1. /\ call[d].pc = "rmrow" /\ call'[d].key = call[d].key
          /\ call'[d].cand = call[d].cand
      BY <1>1, <1>9, <2>3 DEF Moves, Move, Fails, Begins, Returns, Takes, GoesOn, Kept, SameCall,
         Published, Finishes, LooksAtLegacy, BeginsPublish, NotesRow, RunsOut, Finds, Streams, Delivers
    <3> QED BY <2>2, <3>1 DEF RowInv, RowAt
  <2>4. CASE d = c /\ call[c].pc # "rmrow"
    <3>1. Finds(call[c], s) /\ s.pc = "rmrow"
      BY <1>1, <1>9, <2>4 DEF Moves, Move, Fails, Begins, Returns, Takes, GoesOn, NoCall,
         Published, Finishes, LooksAtLegacy, BeginsPublish, NotesRow, RunsOut, Streams, Delivers
    <3>2. Kept(call[c], s) /\ RowAt(call[c]) = call[c].tag /\ call[c].tag # BadRow
      BY <3>1 DEF Finds, Finishes
    <3> QED BY <1>1, <2>2, <2>4, <3>2 DEF Kept, SameCall, RowAt
  <2> QED BY <2>3, <2>4
<1> QED BY <1>6, <1>7, <1>8, <1>9 DEF RowInv, RowAt

(* What one move does to the values: a publishing Put of an absent key, or a *)
(* Delete of a present one, changes the value of its own key.                *)
ValueMove(r) ==
  \A k \in Keys :
    \/ ValueIn(rows', k) = Value(k)
    \/ /\ k = r.key /\ r.pc = "publish"
       /\ Value(k) = NoData /\ ValueIn(rows', k) = r.data /\ r.data \in Contents
    \/ /\ k = r.key /\ r.pc = "rmrow"
       /\ Value(k) \in Contents /\ ValueIn(rows', k) = NoData

(* Every move changes values in these ways only. *)
LEMMA ValuesMoved ==
  ASSUME TypeOK, LocalsInv, RowInv, NEW c \in Clients, NEW s, Moves(c, s)
  PROVE  ValueMove(call[c])
<1> SUFFICES ASSUME NEW k \in Keys, ValueIn(rows', k) # ValueIn(rows, k)
             PROVE  \/ /\ k = call[c].key /\ call[c].pc = "publish"
                       /\ ValueIn(rows, k) = NoData
                       /\ ValueIn(rows', k) = call[c].data /\ call[c].data \in Contents
                    \/ /\ k = call[c].key /\ call[c].pc = "rmrow"
                       /\ ValueIn(rows, k) \in Contents /\ ValueIn(rows', k) = NoData
  BY DEF ValueMove, Value
<1>0. /\ call[c].cand \in {"current", "legacy"} /\ Encodings = {"current", "legacy"}
      /\ \A e \in Encodings, j \in Keys : rows[e][j] \in Row
  BY LocalsFacts DEF Call, Encodings, TypeOK
<1>1. RowsMove(call[c])
  BY RowsMoved
<1>2. rows'["current"][k] # rows["current"][k] \/ rows'["legacy"][k] # rows["legacy"][k]
  BY DEF ValueIn
<1>3. k = call[c].key /\ call[c].pc \in {"publish", "rmrow"}
  BY <1>0, <1>1, <1>2 DEF RowsMove
<1>4. CASE call[c].pc = "publish"
  <2>1. rows["legacy"][k] = NoRow /\ rows'["legacy"][k] = NoRow
    BY <1>0, <1>1, <1>3, <1>4 DEF RowsMove, RowInv
  <2>2. rows["current"][k] = NoRow /\ rows'["current"][k] = OwnRow(call[c])
    BY <1>0, <1>1, <1>2, <1>4, <2>1 DEF RowsMove
  <2> QED BY <1>3, <1>4, <2>1, <2>2, OwnRowFacts, RowsDiffer DEF ValueIn
<1>5. CASE call[c].pc = "rmrow"
  <2>1. rows[call[c].cand][k] \notin {BadRow, NoRow} /\ rows'[call[c].cand][k] = NoRow
    BY <1>0, <1>1, <1>2, <1>3, <1>5 DEF RowsMove, RowInv, RowAt
  <2>2. rows[call[c].cand][k].data \in Contents
    BY <1>0, <2>1, RowsDiffer
  <2>3. CASE call[c].cand = "current"
    <3>1. rows["legacy"][k] = NoRow /\ rows'["legacy"][k] = NoRow
      BY <1>0, <1>1, <1>5, <2>1, <2>3 DEF RowsMove, RowInv
    <3> QED BY <1>3, <1>5, <2>1, <2>2, <2>3, <3>1, RowsDiffer DEF ValueIn
  <2>4. CASE call[c].cand = "legacy"
    <3>1. rows["current"][k] = NoRow /\ rows'["current"][k] = NoRow
      BY <1>0, <1>1, <1>5, <2>1, <2>4 DEF RowsMove, RowInv
    <3> QED BY <1>3, <1>5, <2>1, <2>2, <2>4, <3>1, RowsDiffer DEF ValueIn
  <2> QED BY <1>0, <2>3, <2>4
<1> QED BY <1>3, <1>4, <1>5

(* The bucket earlier processes left satisfies RowInv. *)
LEMMA RowInvInit ==
  ASSUME Init, LegacyRefused
  PROVE  RowInv
<1>1. PICK f \in LegacyRows, bad \in SUBSET BadKeys :
        /\ \A k \in bad : f[k] = NoRow
        /\ rows = [e \in Encodings |->
                    IF e = "legacy" THEN f
                    ELSE [k \in Keys |-> IF k \in bad THEN BadRow ELSE NoRow]]
  BY DEF Init
<1>3. \A k \in Keys \ LongKeys : f[k] = NoRow
  BY DEF LegacyRows
<1>4. rows["legacy"] = f /\ rows["current"] = [k \in Keys |-> IF k \in bad THEN BadRow ELSE NoRow]
  BY <1>1 DEF Encodings
<1>5. \A c \in Clients : call[c].pc = "idle"
  BY DEF Init, NoCall
<1> QED BY <1>1, <1>3, <1>4, <1>5 DEF RowInv

(* Every step preserves it. *)
LEMMA RowInvPreserved ==
  ASSUME TypeOK, LocalsInv, PointsInv, RowInv, [Next]_vars
  PROVE  RowInv'
<1>1. CASE UNCHANGED vars
  BY <1>1 DEF vars, RowInv, RowAt, LegacyRefused
<1>2. ASSUME NEW c \in Clients, NEW s \in Call, Moves(c, s), LocalInv(s)
      PROVE  RowInv'
  BY <1>2, RowInvMove
<1> QED BY <1>1, <1>2, StepCases

(* The invariants that what callers see rests on. *)
Inv == TypeOK /\ LocalsInv /\ PointsInv /\ RowInv

(* They hold of every execution on a service that stores the legacy rows it *)
(* answers for: "such a service could never have stored the row" (blob.go). *)
LEMMA InvHolds == Spec /\ LegacyRefused => []Inv
<1>1. Init /\ LegacyRefused => Inv
  BY InitEstablishes, PointsInit, RowInvInit DEF Inv, CleanupInv, LocalsInv
<1>2. Inv /\ [Next]_vars => Inv'
  <2> SUFFICES ASSUME Inv, [Next]_vars PROVE Inv'
    OBVIOUS
  <2>1. TypeOK /\ LocalsInv /\ PointsInv /\ RowInv
    BY DEF Inv
  <2>2. TypeOK' /\ LocalsInv'
    BY <2>1, LocalsPreserved
  <2>3. RowInv'
    BY <2>1, RowInvPreserved
  <2>4. PointsInv'
    <3>1. CASE UNCHANGED vars
      BY <2>1, <3>1 DEF vars, PointsInv
    <3>2. ASSUME NEW c \in Clients, NEW s \in Call, Moves(c, s), PointInv(s)
          PROVE  PointsInv'
      BY <2>1, <3>2 DEF Moves, PointsInv, TypeOK
    <3> QED BY <2>1, <3>1, <3>2, StepCases
  <2> QED BY <2>2, <2>3, <2>4 DEF Inv
<1> QED BY <1>1, <1>2, PTL DEF Spec

(***************************************************************************)
(* Blobs are immutable (blob.go, Put's If-None-Match and the resolution of *)
(* a conflict): no interleaving of Puts and Deletes, with either encoding, *)
(* lost answers and retries, turns one content of a key into another.      *)
(***************************************************************************)
THEOREM BlobsImmutable == Spec /\ LegacyRefused => Immutable
<1>1. ASSUME Inv, [Next]_vars
      PROVE  [\A k \in Keys :
                Value(k)' # Value(k) => /\ NoData \in {Value(k), Value(k)'}
                                        /\ Garbage \notin {Value(k), Value(k)'}]_vars
  <2>1. ASSUME NEW c \in Clients, NEW s, Moves(c, s), NEW k \in Keys, Value(k)' # Value(k)
        PROVE  NoData \in {Value(k), Value(k)'} /\ Garbage \notin {Value(k), Value(k)'}
    <3>1. ValueMove(call[c])
      BY <1>1, <2>1, ValuesMoved DEF Inv
    <3>2. Value(k)' = ValueIn(rows', k)
      BY DEF Value, ValueIn
    <3> QED BY <2>1, <3>1, <3>2, SentinelAssumption DEF ValueMove
  <2> QED BY <1>1, <2>1, StepCases DEF Inv
<1> QED BY <1>1, InvHolds, PTL DEF Spec, Immutable

-----------------------------------------------------------------------------
(* Results. *)

(* What a call has seen grows while it runs, by the value of its key. *)
LEMMA SeenGrows ==
  ASSUME TypeOK, Observe, NEW d \in Clients
  PROVE  /\ call'[d].key = NoKey => seen'[d] = {}
         /\ call'[d].key # NoKey => seen[d] \subseteq seen'[d]
         /\ call'[d].key # NoKey =>
              seen'[d] \subseteq seen[d] \cup {ValueIn(rows', call'[d].key)}
         /\ call'[d].key # NoKey /\ call[d].pc \notin {"stream", "cleanup", "done"}
              => ValueIn(rows', call'[d].key) \in seen'[d]
         /\ call'[d].key # NoKey /\ call[d].pc \in {"stream", "cleanup", "done"}
              => seen'[d] = seen[d]
<1>1. seen'[d] = CASE call'[d].key = NoKey -> {}
                   [] call'[d].key # NoKey /\ call[d].pc \in {"stream", "cleanup", "done"} -> seen[d]
                   [] OTHER -> seen[d] \cup {ValueIn(rows', call'[d].key)}
  BY DEF Observe
<1>2. CASE call'[d].key = NoKey
  BY <1>1, <1>2
<1>3. CASE call'[d].key # NoKey /\ call[d].pc \in {"stream", "cleanup", "done"}
  BY <1>1, <1>3
<1>4. CASE call'[d].key # NoKey /\ call[d].pc \notin {"stream", "cleanup", "done"}
  BY <1>1, <1>4
<1> QED BY <1>2, <1>3, <1>4

(* A legacy row that a move removes leaves its key absent. *)
LEMMA LegacyGone ==
  ASSUME TypeOK, RowInv, NEW c \in Clients, NEW s, Moves(c, s), NEW k \in Keys,
         rows["legacy"][k] # NoRow, rows'["legacy"][k] = NoRow
  PROVE  ValueIn(rows', k) = NoData
<1>1. RowsMove(call[c]) /\ rows["current"][k] = NoRow
  BY RowsMoved DEF RowInv
<1>2. call[c].pc = "rmrow"
  BY <1>1 DEF RowsMove, Encodings
<1>3. rows'["current"][k] = NoRow
  BY <1>1, <1>2 DEF RowsMove, Encodings
<1> QED BY <1>3, RowsDiffer DEF ValueIn

(* A step of another call leaves what a call has seen true. *)
LEMMA BystanderSeen ==
  ASSUME Inv, NEW c \in Clients, NEW s, Moves(c, s),
         NEW d \in Clients, d # c, SeenInv(call[d], seen[d])
  PROVE  SeenInv(call[d], seen[d])'
<1>1. call'[d] = call[d] /\ Observe
  BY DEF Moves, Inv, TypeOK
<1>2. PointInv(call[d]) /\ LocalInv(call[d]) /\ call[d].key \in Keys \cup {NoKey}
  BY LocalsFacts DEF Inv, PointsInv
<1>3. CASE call[d].key = NoKey
  <2>1. call[d].op = "none" /\ call[d].pc \in {"idle", "done"}
    BY <1>2, <1>3 DEF PointInv, LocalInv
  <2>2. call[d].pc = "idle" => call[d].res = "none"
    BY <1>2 DEF PointInv
  <2> QED BY <1>1, <2>1, <2>2 DEF SeenInv
<1>4. CASE call[d].key # NoKey
  <2>1. seen[d] \subseteq seen'[d]
    BY <1>1, <1>4, SeenGrows DEF Inv
  <2>2. ASSUME call[d].pc \in {"head", "get", "rmrow", "rmpay"},
               rows["legacy"][call[d].key] # NoRow
        PROVE  NoData \in seen'[d] \/ rows'["legacy"][call[d].key] # NoRow
    <3>1. ValueIn(rows', call[d].key) \in seen'[d]
      BY <1>1, <1>4, <2>2, SeenGrows DEF Inv
    <3>2. rows'["legacy"][call[d].key] = NoRow => ValueIn(rows', call[d].key) = NoData
      BY <1>2, <1>4, <2>2, LegacyGone DEF Inv
    <3> QED BY <3>1, <3>2
  <2>3. \A X : seen[d] \cap X # {} => seen'[d] \cap X # {}
    BY <2>1
  <2> QED BY <1>1, <2>1, <2>2, <2>3 DEF SeenInv
<1> QED BY <1>3, <1>4

(* The value of a key whose row the call has just read, or found absent. *)
LEMMA ValueRead ==
  ASSUME Inv, NEW r \in Call, r.key \in Keys
  PROVE  /\ RowAt(r) # NoRow => Value(r.key) = RowAt(r).data
         /\ r.cand = "legacy" /\ AbsentAt(r) => rows["legacy"][r.key] = NoRow
         /\ r.cand = "current" /\ AbsentAt(r) /\ rows["legacy"][r.key] = NoRow
              => Value(r.key) = NoData
         /\ r.key \notin LongKeys => rows["legacy"][r.key] = NoRow
         /\ rows["current"][r.key] = NoRow /\ rows["legacy"][r.key] = NoRow
              => Value(r.key) = NoData
<1>1. r.cand \in {"current", "legacy"}
  BY DEF Call, Encodings
<1> QED BY <1>1, RowsDiffer DEF Inv, RowInv, LegacyRefused, RowAt, AbsentAt, Value, ValueIn

(* The call that moves has seen what it goes on with. *)
LEMMA MoverSeen ==
  ASSUME Inv, NEW c \in Clients, NEW s \in Call, Moves(c, s), LocalInv(s), PointInv(s),
         SeenInv(call[c], seen[c])
  PROVE  SeenInv(call[c], seen[c])'
<1> DEFINE r == call[c]
           V == seen'[c]
           L == rows'["legacy"][s.key]
<1>1. call'[c] = s /\ Observe /\ Move(r, s)
  BY DEF Moves, Inv, TypeOK
<1>2. r \in Call /\ LocalInv(r) /\ PointInv(r) /\ r.cand \in {"current", "legacy"}
  BY LocalsFacts DEF Inv, PointsInv, Call, Encodings
<1>3. /\ s.key # NoKey => seen[c] \subseteq V
      /\ s.key # NoKey /\ r.pc \notin {"stream", "cleanup", "done"} => ValueIn(rows', s.key) \in V
      /\ s.key \in Keys \cup {NoKey} /\ r.key \in Keys \cup {NoKey}
  BY <1>1, <1>2, SeenGrows DEF Inv, Call
<1>4. SeenInv(r, seen[c])
  OBVIOUS
<1>5. rows' = rows => \A k : ValueIn(rows', k) = Value(k)
  BY DEF Value, ValueIn
<1> SUFFICES
      /\ s.pc \in {"fetch", "stream"} => s.tag.data \in V
      /\ s.op # "put" /\ s.cand = "legacy" /\ s.pc \in {"head", "get", "rmrow"}
           => NoData \in V \/ L # NoRow
      /\ s.pc = "rmpay" => NoData \in V \/ (s.cand = "current" /\ L # NoRow)
      /\ s.pc \in {"cleanup", "done"} =>
           /\ s.res = "value" => s.op = "get" /\ s.data \in V \cap Contents
           /\ s.res = "notfound" => s.op = "get" /\ NoData \in V
           /\ s.res = "ok" => s.op \in {"put", "delete"}
           /\ s.res = "ok" /\ s.op = "put" => s.data \in V
           /\ s.res = "ok" /\ s.op = "delete" => NoData \in V
           /\ s.res = "conflict" => s.op = "put" /\ V \cap (Contents \ {s.data}) # {}
  BY <1>1 DEF SeenInv
<1> HIDE DEF r, V
<1>6. CASE Fails(r, s)
  BY <1>6 DEF Fails, Finishes, Errs
<1>7. CASE Begins(r, s) \/ Takes(r, s)
  BY <1>2, <1>7 DEF Begins, Takes, PointInv, NoCall
<1>8. CASE Returns(r, s)
  BY <1>8 DEF Returns, NoCall
<1>9. CASE GoesOn(r, s)
  <2>1. /\ s.op = r.op /\ s.key = r.key /\ s.data = r.data /\ s.cand = r.cand
        /\ s.tag = r.tag /\ s.res = r.res
    BY <1>9 DEF GoesOn, Kept, SameCall
  <2>2. CASE r.pc \in {"upload", "publish"}
    BY <1>2, <1>9, <2>1, <2>2 DEF GoesOn, LocalInv
  <2>3. CASE r.pc = "cleanup"
    <3>1. r.key # NoKey /\ s.pc = "done" /\ seen[c] \subseteq V
      BY <1>2, <1>3, <1>9, <2>1, <2>3 DEF GoesOn, LocalInv
    <3> QED BY <1>4, <2>1, <2>3, <3>1 DEF SeenInv
  <2>4. CASE r.pc = "rmrow"
    <3>1. r.key \in Keys /\ seen[c] \subseteq V /\ ValueIn(rows', r.key) \in V
      BY <1>2, <1>3, <2>1, <2>4 DEF LocalInv
    <3>2. CASE rows' = rows /\ s.pc = "rmrow"
      BY <1>4, <2>1, <2>4, <3>1, <3>2 DEF SeenInv
    <3>3. CASE RowRemoved(r)
      <4>1. rows'[r.cand][r.key] = NoRow
        BY <1>2, <3>1, <3>3 DEF RowRemoved, Inv, TypeOK, Encodings
      <4>2. CASE r.cand = "legacy"
        <5>1. NoData \in V
          <6>1. rows["legacy"][r.key] # NoRow => ValueIn(rows', r.key) = NoData
            BY <3>1, <4>1, <4>2, LegacyGone DEF Inv
          <6> QED BY <1>2, <1>4, <2>4, <3>1, <4>2, <6>1 DEF SeenInv, PointInv
        <5> QED BY <1>9, <2>1, <2>4, <5>1 DEF GoesOn
      <4>3. CASE r.cand = "current"
        <5>1. L = NoRow => ValueIn(rows', r.key) = NoData
          BY <2>1, <4>1, <4>3, RowsDiffer DEF ValueIn
        <5> QED BY <1>9, <2>1, <2>4, <3>1, <4>3, <5>1 DEF GoesOn
      <4> QED BY <1>2, <4>2, <4>3
    <3> QED BY <1>9, <2>4, <3>2, <3>3 DEF GoesOn, Repeated
  <2> QED BY <1>9, <2>2, <2>3, <2>4 DEF GoesOn
<1>10. CASE Published(r, s)
  <2>1. /\ s.op = r.op /\ s.key = r.key /\ s.data = r.data /\ s.res = "ok"
        /\ s.pc \in {"cleanup", "done"} /\ r.pc = "publish" /\ RowCreated(r)
    BY <1>10 DEF Published, Finishes, SameCall
  <2>2. r.op = "put" /\ r.key \in Keys
    BY <1>2, <1>3, <2>1 DEF LocalInv
  <2>3. rows'["current"][r.key] = OwnRow(r)
    BY <2>1, <2>2 DEF RowCreated, Inv, TypeOK, Encodings
  <2>4. ValueIn(rows', r.key) = r.data
    BY <2>1, <2>3, OwnRowFacts DEF ValueIn, Inv, r
  <2>5. ValueIn(rows', r.key) \in V
    BY <1>3, <2>1, <2>2, SentinelAssumption
  <2> QED BY <2>1, <2>2, <2>4, <2>5
<1>11. CASE LooksAtLegacy(r, s)
  <2>1. /\ s.op = r.op /\ s.key = r.key /\ s.pc = "head" /\ s.cand = "legacy" /\ rows' = rows
        /\ r.key \in Keys
    BY <1>11, SetAssumption DEF LooksAtLegacy, SameCall
  <2>2. CASE r.pc = "verify"
    BY <1>2, <2>1, <2>2 DEF LocalInv
  <2>3. CASE r.pc = "head" /\ AbsentAt(r) /\ r.cand = "current"
    <3>1. L = NoRow => Value(r.key) = NoData
      BY <1>2, <2>1, <2>3, ValueRead
    <3>2. Value(r.key) \in V
      BY <1>3, <1>5, <2>1, <2>3, SentinelAssumption
    <3> QED BY <2>1, <3>1, <3>2
  <2>4. CASE r.pc = "rmpay"
    <3>1. seen[c] \subseteq V
      BY <1>3, <2>1, SentinelAssumption
    <3> QED BY <1>4, <2>1, <2>4, <3>1 DEF SeenInv
  <2> QED BY <1>11, <2>2, <2>3, <2>4 DEF LooksAtLegacy
<1>12. CASE BeginsPublish(r, s)
  BY <1>12 DEF BeginsPublish
<1>13. CASE NotesRow(r, s)
  <2>1. /\ s.op = r.op /\ s.key = r.key /\ s.cand = r.cand /\ s.pc = "get" /\ r.pc = "head"
        /\ rows' = rows
    BY <1>13 DEF NotesRow, SameCall
  <2>2. seen[c] \subseteq V
    BY <1>2, <1>3, <2>1 DEF LocalInv
  <2> QED BY <1>4, <2>1, <2>2 DEF SeenInv
<1>14. CASE RunsOut(r, s)
  <2>1. /\ s.op = r.op /\ s.key = r.key /\ s.data = r.data /\ rows' = rows
        /\ s.res = IF r.op = "get" /\ r.pc = "head" THEN "notfound" ELSE "ok"
        /\ s.pc \in {"cleanup", "done"} /\ r.op # "put"
        /\ r.pc \in {"head", "rmpay"}
    BY <1>14 DEF RunsOut, Finishes, SameCall
  <2>2. r.op \in {"get", "delete"} /\ (r.pc = "rmpay" => r.op = "delete") /\ r.key \in Keys
    BY <1>2, <1>3, <2>1 DEF PointInv, LocalInv
  <2>3. seen[c] \subseteq V /\ Value(r.key) \in V
    BY <1>3, <1>5, <2>1, <2>2, SentinelAssumption
  <2>4. NoData \in V
    <3>1. CASE r.pc = "head" /\ r.cand = "legacy"
      BY <1>2, <1>4, <1>14, <2>1, <2>2, <2>3, <3>1, ValueRead DEF RunsOut, SeenInv
    <3>2. CASE r.pc = "head" /\ r.cand = "current"
      BY <1>2, <1>14, <2>1, <2>2, <2>3, <3>2, ValueRead DEF RunsOut
    <3>3. CASE r.pc = "rmpay"
      BY <1>2, <1>4, <1>14, <2>1, <2>2, <2>3, <3>3, ValueRead DEF RunsOut, SeenInv
    <3> QED BY <1>2, <2>1, <3>1, <3>2, <3>3
  <2> QED BY <2>1, <2>2, <2>4
<1>15. CASE Finds(r, s)
  <2>1. /\ r.pc = "get" /\ rows' = rows /\ RowAt(r) = r.tag /\ r.tag \notin {NoRow, BadRow}
        /\ s.op = r.op /\ s.key = r.key /\ s.data = r.data /\ s.tag = r.tag /\ s.cand = r.cand
    BY <1>15 DEF Finds, Kept, Finishes, SameCall
  <2>2. r.key \in Keys /\ r.tag \in Row
    BY <1>2, <1>3, <2>1 DEF LocalInv, Call
  <2>3. seen[c] \subseteq V /\ r.tag.data \in V /\ r.tag.data \in Contents
    <3>1. Value(r.key) = r.tag.data
      BY <1>2, <2>1, <2>2, ValueRead
    <3>2. Value(r.key) \in V /\ seen[c] \subseteq V
      BY <1>3, <1>5, <2>1, <2>2, SentinelAssumption
    <3> QED BY <2>1, <2>2, <3>1, <3>2, RowsDiffer
  <2>4. CASE r.op = "put"
    <3>1. /\ s.res = IF r.tag.data = r.data THEN "ok" ELSE "conflict"
          /\ s.pc \in {"cleanup", "done"}
      BY <1>15, <2>4 DEF Finds, Finishes, Verdict, ManifestsMatch
    <3> QED BY <2>1, <2>3, <2>4, <3>1
  <2>5. CASE r.op # "put"
    <3>1. s.pc = IF r.op = "get" THEN "fetch" ELSE "rmrow"
      BY <1>15, <2>5 DEF Finds
    <3>2. s.cand = "legacy" => NoData \in V \/ L # NoRow
      BY <1>4, <2>1, <2>3, <2>5 DEF SeenInv
    <3> QED BY <2>1, <2>3, <3>1, <3>2
  <2> QED BY <2>4, <2>5
<1>16. CASE Streams(r, s)
  <2>1. s.tag = r.tag /\ s.pc = "stream" /\ r.pc = "fetch" /\ s.key = r.key
    BY <1>16 DEF Streams, SameCall
  <2>2. seen[c] \subseteq V
    BY <1>2, <1>3, <2>1 DEF LocalInv
  <2> QED BY <1>4, <2>1, <2>2 DEF SeenInv
<1>17. CASE Delivers(r, s)
  <2>1. /\ s.op = r.op /\ s.key = r.key /\ s.data = r.data /\ s.res = "value"
        /\ r.pc = "stream" /\ r.data = r.tag.data /\ s.pc \in {"cleanup", "done"}
    BY <1>17 DEF Delivers, Finishes, SameCall
  <2>2. r.op = "get" /\ seen[c] \subseteq V /\ r.tag \in Row /\ r.tag \notin {NoRow, BadRow}
    BY <1>2, <1>3, <2>1 DEF LocalInv, PointInv, Call
  <2>3. r.tag.data \in seen[c] /\ r.tag.data \in Contents
    BY <1>4, <2>1, <2>2, RowsDiffer DEF SeenInv
  <2> QED BY <2>1, <2>2, <2>3
<1> QED BY <1>1, <1>6, <1>7, <1>8, <1>9, <1>10, <1>11, <1>12, <1>13, <1>14, <1>15, <1>16, <1>17
       DEF Move

(* A call that still decides its result has seen the value its key has now. *)
CurrentSeen ==
  \A c \in Clients :
    /\ call[c].key = NoKey => seen[c] = {}
    /\ call[c].key # NoKey /\ call[c].pc \notin {"stream", "cleanup", "done"}
         => Value(call[c].key) \in seen[c]

(* Both hold initially. *)
LEMMA TruthInit ==
  ASSUME Init
  PROVE  TruthInv /\ CurrentSeen
<1>1. \A c \in Clients : call[c] = NoCall
  BY DEF Init
<1>2. \A c \in Clients : SeenInv(call[c], seen[c])
  BY <1>1 DEF SeenInv, NoCall
<1>3. \A c \in Clients : seen[c] = {}
  BY DEF Init
<1> QED BY <1>1, <1>2, <1>3 DEF TruthInv, CurrentSeen, NoCall

(* Every step preserves both. *)
LEMMA TruthPreserved ==
  ASSUME Inv, TruthInv, CurrentSeen, [Next]_vars
  PROVE  TruthInv' /\ CurrentSeen'
<1>1. CASE UNCHANGED vars
  BY <1>1 DEF vars, TruthInv, SeenInv, CurrentSeen, Value, ValueIn
<1>2. ASSUME NEW c \in Clients, NEW s \in Call, Moves(c, s), LocalInv(s), PointInv(s)
      PROVE  TruthInv' /\ CurrentSeen'
  <2>1. \A d \in Clients : SeenInv(call[d], seen[d])
    BY DEF TruthInv
  <2>2. \A d \in Clients : SeenInv(call[d], seen[d])'
    BY <1>2, <2>1, BystanderSeen, MoverSeen
  <2>3. ASSUME NEW d \in Clients, call'[d].key # NoKey,
               call'[d].pc \notin {"stream", "cleanup", "done"}
        PROVE  ValueIn(rows', call'[d].key) \in seen'[d]
    <3>1. call[d].pc \notin {"stream", "cleanup", "done"}
      <4>1. CASE d # c
        BY <1>2, <2>3, <4>1 DEF Moves, Inv, TypeOK
      <4>2. CASE d = c
        <5>1. call'[c] = s
          BY <1>2 DEF Moves, Inv, TypeOK
        <5> QED BY <1>2, <2>3, <4>2, <5>1
            DEF Moves, Move, Fails, Begins, Returns, NoCall, Takes, GoesOn, Published, Finishes,
                LooksAtLegacy, BeginsPublish, NotesRow, RunsOut, Finds, Streams, Delivers,
                Inv, PointsInv, PointInv
      <4> QED BY <4>1, <4>2
    <3> QED BY <1>2, <2>3, <3>1, SeenGrows DEF Moves, Inv
  <2>4. CurrentSeen'
    <3>1. \A d \in Clients : call'[d].key = NoKey => seen'[d] = {}
      BY <1>2, SeenGrows DEF Moves, Inv
    <3> QED BY <2>3, <3>1 DEF CurrentSeen, Value, ValueIn
  <2> QED BY <2>2, <2>4 DEF TruthInv
<1> QED BY <1>1, <1>2, StepCases DEF Inv

(* Hence they hold of every execution. *)
LEMMA TruthHolds == Spec /\ LegacyRefused => [](Inv /\ TruthInv /\ CurrentSeen)
<1>1. Init => TruthInv /\ CurrentSeen
  BY TruthInit
<1>2. Inv /\ TruthInv /\ CurrentSeen /\ [Next]_vars => TruthInv' /\ CurrentSeen'
  BY TruthPreserved
<1> QED BY <1>1, <1>2, InvHolds, PTL DEF Spec

(***************************************************************************)
(* Every result was true at some moment of its call: Get's bytes and not   *)
(* found, Put's success and conflict, Delete's success, whatever other     *)
(* calls did between the requests of this one.                             *)
(***************************************************************************)
THEOREM ResultsAlwaysTruthful == Spec /\ LegacyRefused => []ResultsTruthful
<1>1. TruthInv => ResultsTruthful
  BY DEF TruthInv, SeenInv, ResultsTruthful
<1> QED BY <1>1, TruthHolds, PTL

-----------------------------------------------------------------------------
(* The refinement. *)

(* The bucket a process starts with is a map from keys to contents. *)
LEMMA ContractInit ==
  ASSUME Init
  PROVE  Contract!Init
<1>1. \A k \in Keys : Value(k) \in Contents \cup {NoData, Garbage}
  <2>1. TypeOK
    BY InitEstablishes
  <2> QED BY <2>1, RowFields DEF TypeOK, Value, ValueIn, Encodings
<1>2. AbstractValues \in [Keys -> Contents \cup {NoData, Garbage}]
  BY <1>1 DEF AbstractValues
<1>3. AbstractCall(NoCall) = Contract!NoCall
  BY DEF AbstractCall, AbstractResult, NoCall, Contract!NoCall
<1>4. AbstractCalls = [c \in Clients |-> Contract!NoCall]
  BY <1>3 DEF Init, AbstractCalls
<1> QED BY <1>2, <1>4 DEF Init, Contract!Init

(* What callers have seen evolves as the contract lets it. *)
LEMMA ContractObserve ==
  ASSUME TypeOK, Observe, call' \in [Clients -> Call]
  PROVE  Contract!Observe
<1>1. DOMAIN seen' = Clients
  BY DEF Observe
<1>2. ASSUME NEW c \in Clients
      PROVE  /\ AbstractCalls'[c].key = call'[c].key
             /\ call'[c].key # NoKey
                  => AbstractValues'[call'[c].key] = ValueIn(rows', call'[c].key)
  <2>1. call'[c].key \in Keys \cup {NoKey}
    BY DEF Call
  <2> QED BY <2>1 DEF AbstractCalls, AbstractCall, AbstractValues, Value, ValueIn
<1> QED BY <1>1, <1>2, SeenGrows DEF Contract!Observe

(* The fields of the abstract call, at its point r. *)
LEMMA AbstractFields ==
  ASSUME NEW r
  PROVE  LET a == AbstractCall(r) IN
         /\ a.op = r.op /\ a.key = r.key /\ a.res = AbstractResult(r.res)
         /\ a.data = IF r.op = "put" \/ r.res = "value" THEN r.data ELSE NoData
         /\ a \in [op : {a.op}, key : {a.key}, data : {a.data}, res : {a.res}]
BY DEF AbstractCall

(* A running call acts, with or without a result. *)
LEMMA ContractAct ==
  ASSUME Inv, TruthInv', call' \in [Clients -> Call], NEW c \in Clients, NEW s \in Call,
         Moves(c, s), PointInv(s), call[c].pc \notin {"idle", "cleanup", "done"}
  PROVE  Contract!Act(c)
<1> DEFINE r == call[c]
<1>1. /\ r \in Call /\ LocalInv(r) /\ PointInv(r) /\ call'[c] = s /\ Move(r, s) /\ Observe
      /\ \A d \in Clients : d # c => call'[d] = call[d]
  BY LocalsFacts DEF Inv, PointsInv, Moves, TypeOK
<1>2. r.op \in {"put", "get", "delete"} /\ r.res = "none" /\ r.key \in Keys
  BY <1>1 DEF PointInv, LocalInv, Call
<1>3. s.op = r.op /\ s.key = r.key /\ (r.op = "put" => s.data = r.data)
  BY <1>1 DEF Move, Fails, Begins, Returns, Takes, GoesOn, Kept, SameCall, Published, Finishes,
     LooksAtLegacy, BeginsPublish, NotesRow, RunsOut, Finds, Streams, Delivers, PointInv, LocalInv
<1>4. SeenInv(call[c], seen[c])'
  BY DEF TruthInv
<1>5. AbstractCalls[c] = AbstractCall(r)
  BY DEF AbstractCalls
<1>6. AbstractCalls' = [AbstractCalls EXCEPT ![c] = AbstractCall(s)]
  BY <1>1 DEF AbstractCalls
<1>7. Contract!Running(c)
  BY <1>2, <1>5, AbstractFields DEF Contract!Running, AbstractResult
<1>8. Contract!Effect(c)
  <2>1. ValueMove(r)
    BY ValuesMoved DEF Inv
  <2>2. /\ AbstractValues = [k \in Keys |-> Value(k)]
        /\ AbstractValues' = [k \in Keys |-> ValueIn(rows', k)]
    BY DEF AbstractValues, Value, ValueIn
  <2>3. r.pc = "publish" => r.op = "put"
    BY <1>1 DEF LocalInv
  <2>4. r.pc = "rmrow" => r.op = "delete"
    BY <1>1 DEF PointInv
  <2>5. r.op = "put" => AbstractCalls[c].data = r.data
    BY <1>5, AbstractFields
  <2>6. AbstractCalls[c].op = r.op /\ AbstractCalls[c].key = r.key
    BY <1>5, AbstractFields
  <2> HIDE DEF r
  <2> QED BY <1>2, <2>1, <2>2, <2>3, <2>4, <2>5, <2>6 DEF ValueMove, Contract!Effect
<1>9. Contract!Observe
  BY <1>1, ContractObserve DEF Inv
<1>10. CASE s.res = "none"
  <2>1. AbstractCall(s) = AbstractCall(r)
    BY <1>2, <1>3, <1>10 DEF AbstractCall
  <2>2. AbstractCalls' = AbstractCalls
    BY <1>5, <1>6, <2>1 DEF AbstractCalls
  <2> QED BY <1>7, <1>8, <1>9, <2>2 DEF Contract!Act
<1>11. CASE s.res # "none"
  <2> DEFINE res == AbstractResult(s.res)
             d   == AbstractCall(s).data
  <2>0. s.pc \in {"cleanup", "done"} /\ s.res \in Results \ {"none"}
    BY <1>11 DEF PointInv
  <2>1. res \in {"ok", "conflict", "value", "notfound", "error"}
    BY <2>0 DEF AbstractResult, Results
  <2>2. (res = "value" <=> s.res = "value") /\ (res = "ok" <=> s.res = "ok")
        /\ (res = "conflict" <=> s.res = "conflict") /\ (res = "notfound" <=> s.res = "notfound")
    BY <2>0 DEF AbstractResult, Results
  <2>3. /\ s.res = "value" => s.op = "get" /\ s.data \in seen'[c] \cap Contents
        /\ s.res = "notfound" => s.op = "get" /\ NoData \in seen'[c]
        /\ s.res = "ok" => s.op \in {"put", "delete"}
        /\ s.res = "ok" /\ s.op = "put" => s.data \in seen'[c]
        /\ s.res = "ok" /\ s.op = "delete" => NoData \in seen'[c]
        /\ s.res = "conflict" => s.op = "put" /\ seen'[c] \cap (Contents \ {s.data}) # {}
    BY <1>1, <1>4, <2>0 DEF SeenInv
  <2>4. d \in IF res = "value" THEN Contents ELSE {AbstractCalls[c].data}
    BY <1>2, <1>3, <1>5, <2>2, <2>3 DEF AbstractCall
  <2>5. AbstractCalls' = [AbstractCalls EXCEPT ![c].res = res, ![c].data = d]
    BY <1>3, <1>5, <1>6 DEF AbstractCalls, AbstractCall
  <2>6. Contract!Justified(c, res, d)
    <3>1. AbstractCalls[c].op = r.op /\ (r.op = "put" => AbstractCalls[c].data = s.data)
      BY <1>3, <1>5, AbstractFields
    <3>2. s.res = "value" => d = s.data
      BY AbstractFields
    <3> HIDE DEF res, d, r
    <3> QED BY <1>3, <2>1, <2>2, <2>3, <3>1, <3>2 DEF Contract!Justified
  <2> HIDE DEF res, d
  <2> QED BY <1>7, <1>8, <1>9, <2>1, <2>4, <2>5, <2>6 DEF Contract!Act
<1> QED BY <1>10, <1>11

(* Every step of the protocol is a step of the contract, or none. *)
LEMMA ContractStep ==
  ASSUME Inv, TruthInv, CurrentSeen, Inv', TruthInv', [Next]_vars
  PROVE  [Contract!Next]_(Contract!vars)
<1>0. call' \in [Clients -> Call]
  BY DEF Inv, TypeOK
<1>1. CASE UNCHANGED vars
  <2>1. AbstractValues' = AbstractValues /\ AbstractCalls' = AbstractCalls /\ seen' = seen
    BY <1>1 DEF vars, AbstractValues, AbstractCalls, Value, ValueIn
  <2> QED BY <2>1 DEF Contract!vars
<1>2. ASSUME NEW c \in Clients, NEW s \in Call, Moves(c, s), PointInv(s)
      PROVE  [Contract!Next]_(Contract!vars)
  <2> DEFINE r == call[c]
  <2>1. /\ r \in Call /\ LocalInv(r) /\ PointInv(r) /\ call'[c] = s /\ Move(r, s) /\ Observe
        /\ \A d \in Clients : d # c => call'[d] = call[d]
    BY <1>2, LocalsFacts DEF Inv, PointsInv, Moves, TypeOK
  <2>2. AbstractCalls[c] = AbstractCall(r)
    BY DEF AbstractCalls
  <2>3. AbstractCalls' = [AbstractCalls EXCEPT ![c] = AbstractCall(s)]
    BY <2>1 DEF AbstractCalls
  <2>4. rows' = rows => AbstractValues' = AbstractValues
    BY DEF AbstractValues, Value, ValueIn
  <2>5. Contract!Observe
    BY <1>0, <2>1, ContractObserve DEF Inv
  <2>6. AbstractCall(NoCall) = Contract!NoCall
    BY DEF AbstractCall, AbstractResult, NoCall, Contract!NoCall
  <2>7. CASE r.pc \notin {"idle", "cleanup", "done"}
    <3>1. Contract!Act(c)
      BY <1>0, <1>2, <2>7, ContractAct
    <3> QED BY <3>1 DEF Contract!Next
  <2>8. CASE r.pc = "idle"
    <3>1. r = NoCall /\ (Begins(r, s) \/ Fails(r, s))
      BY <2>1, <2>8 DEF PointInv, Move, Returns, Takes, GoesOn, Published, LooksAtLegacy,
                        BeginsPublish, NotesRow, RunsOut, Finds, Streams, Delivers
    <3>2. AbstractCalls[c] = Contract!NoCall /\ rows' = rows
      BY <2>2, <2>6, <2>8, <3>1 DEF Begins, Fails
    <3>3. CASE Begins(r, s)
      <4>1. /\ s.op \in {"put", "get", "delete"} /\ s.key \in Keys /\ s.res = "none"
            /\ IF s.op = "put" THEN s.data \in Contents ELSE s.data = NoData
        BY <3>1, <3>3 DEF Begins, NoCall
      <4>2. AbstractCall(s) = [op |-> s.op, key |-> s.key, data |-> s.data, res |-> "none"]
        BY <4>1 DEF AbstractCall, AbstractResult
      <4>3. Contract!Invoke(c)
        BY <2>3, <2>4, <2>5, <3>2, <4>1, <4>2 DEF Contract!Invoke
      <4> QED BY <4>3 DEF Contract!Next
    <3>4. CASE Fails(r, s)
      <4>1. s.op = "none" /\ s.key = NoKey /\ s.res \in Errs
        BY <3>1, <3>4 DEF Fails, Finishes, SameCall, NoCall
      <4>2. AbstractCall(s) = [op |-> "none", key |-> NoKey, data |-> NoData, res |-> "error"]
        BY <4>1 DEF AbstractCall, AbstractResult, Errs
      <4>3. AbstractCalls' = [AbstractCalls EXCEPT ![c].res = "error"]
        <5>1. AbstractCall(s) = [AbstractCalls[c] EXCEPT !.res = "error"]
          BY <3>2, <4>2 DEF Contract!NoCall
        <5> QED BY <2>3, <5>1, Zenon
      <4>4. Contract!Refuse(c)
        BY <2>4, <2>5, <3>2, <4>3 DEF Contract!Refuse
      <4> QED BY <4>4 DEF Contract!Next
    <3> QED BY <3>1, <3>3, <3>4
  <2>9. CASE r.pc = "done"
    <3>1. s = NoCall /\ rows' = rows
      BY <2>1, <2>9 DEF Move, Fails, Begins, Returns, Takes, GoesOn, Published, LooksAtLegacy,
                        BeginsPublish, NotesRow, RunsOut, Finds, Streams, Delivers
    <3>2. AbstractCalls[c].res # "none"
      BY <2>1, <2>2, <2>9, AbstractFields DEF PointInv, AbstractResult
    <3>3. Contract!Return(c)
      BY <2>3, <2>4, <2>5, <2>6, <3>1, <3>2 DEF Contract!Return
    <3> QED BY <3>3 DEF Contract!Next
  <2>10. CASE r.pc = "cleanup"
    <3>1. Kept(r, s) /\ s.pc = "done" /\ rows' = rows
      BY <2>1, <2>10 DEF Move, Fails, Begins, Returns, Takes, GoesOn, Published, LooksAtLegacy,
                         BeginsPublish, NotesRow, RunsOut, Finds, Streams, Delivers
    <3>2. AbstractCall(s) = AbstractCall(r)
      BY <3>1 DEF Kept, SameCall, AbstractCall
    <3>3. AbstractCalls' = AbstractCalls
      BY <2>2, <2>3, <3>2 DEF AbstractCalls
    <3>4. ASSUME NEW d \in Clients
          PROVE  seen'[d] = seen[d]
      <4>1. call'[d].key = call[d].key
        BY <2>1, <3>1 DEF Kept, SameCall
      <4>2. CASE call[d].key = NoKey
        BY <2>1, <4>1, <4>2, SeenGrows DEF Inv, CurrentSeen
      <4>3. CASE call[d].key # NoKey /\ call[d].pc \in {"stream", "cleanup", "done"}
        BY <2>1, <4>1, <4>3, SeenGrows DEF Inv
      <4>4. CASE call[d].key # NoKey /\ call[d].pc \notin {"stream", "cleanup", "done"}
        <5>1. ValueIn(rows', call[d].key) \in seen[d]
          BY <3>1, <4>4 DEF CurrentSeen, Value
        <5>2. /\ seen[d] \subseteq seen'[d]
              /\ seen'[d] \subseteq seen[d] \cup {ValueIn(rows', call[d].key)}
          BY <2>1, <4>1, <4>4, SeenGrows DEF Inv
        <5> QED BY <5>1, <5>2
      <4> QED BY <4>2, <4>3, <4>4
    <3>5. seen' = seen
      <4>1. seen \in [Clients -> SUBSET (Contents \cup {NoData, Garbage})]
            /\ seen' \in [Clients -> SUBSET (Contents \cup {NoData, Garbage})]
        BY DEF Inv, TypeOK
      <4> QED BY <3>4, <4>1
    <3> QED BY <2>4, <3>1, <3>3, <3>5 DEF Contract!vars
  <2> QED BY <2>7, <2>8, <2>9, <2>10
<1> QED BY <1>1, <1>2, StepCases DEF Inv

(***************************************************************************)
(* The protocol implements its contract: on any number of clients and keys *)
(* every execution of Put, Get and Delete is one in which they act         *)
(* atomically between call and return on a map of immutable contents.      *)
(***************************************************************************)
THEOREM ProtocolImplementsContract == Spec /\ LegacyRefused => ImplementsBlobs
<1>1. Init => Contract!Init
  BY ContractInit
<1>2. Inv /\ TruthInv /\ CurrentSeen /\ Inv' /\ TruthInv' /\ [Next]_vars
        => [Contract!Next]_(Contract!vars)
  BY ContractStep
<1> QED BY <1>1, <1>2, TruthHolds, PTL DEF Spec, ImplementsBlobs, Contract!Spec

-----------------------------------------------------------------------------
(***************************************************************************)
(* No row without its payload.  This holds as long as no publish is sent   *)
(* again after it took effect: when answers are not lost, or the SDK does  *)
(* not repeat requests.  (Run DanglingManifest shows that it fails         *)
(* otherwise.)                                                             *)
(***************************************************************************)
PublishedOnce == MaxAttempts = 1 \/ ~LostAcks

(* A Put that has drawn its payload id and not published yet. *)
PrePublish(r) ==
  /\ r.op = "put"
  /\ \/ r.pc \in {"upload", "verify", "publish"}
     \/ r.pc \in {"head", "get"} /\ r.cand = "legacy"

(* Such a payload is named nowhere; it is intact once it has been verified. *)
Unpublished ==
  \A c \in Clients : PrePublish(call[c]) =>
    /\ Unreferenced(call[c].pay)
    /\ \A d \in Clients : call[d].tag.pay # call[c].pay
    /\ call[c].pc \notin {"upload", "verify"} => payloads[call[c].pay] = call[c].data

(* The manifests that calls have read name payloads that were drawn, and *)
(* a Delete that goes on to the payload has made it unreferenced.        *)
TagsHonest ==
  \A c \in Clients : LET r == call[c] IN
    r.tag.pay # NoPayload =>
      /\ r.tag.pay \in used
      /\ r.pc \in {"get", "rmrow"} =>
           \A e \in Encodings, k \in Keys :
             rows[e][k].pay = r.tag.pay => e = r.cand /\ k = r.key
      /\ r.pc = "rmpay" => Unreferenced(r.tag.pay)

RowsDistinct ==
  \A e, f \in Encodings, j, k \in Keys :
    rows[e][j].pay = rows[f][k].pay /\ rows[e][j].pay # NoPayload => e = f /\ j = k

DanglingInv == Unpublished /\ TagsHonest /\ RowsDistinct /\ NoDangling

(* The manifest a call has read stays, is forgotten, or is the row it sees now. *)
LEMMA TagMoved ==
  ASSUME NEW r, NEW s, Move(r, s)
  PROVE  \/ s.tag = r.tag
         \/ s.tag = NoRow
         \/ /\ s.tag = RowAt(r) /\ s.pc = "get" /\ rows' = rows
            /\ s.cand = r.cand /\ s.key = r.key
BY DEF Move, Fails, Begins, Returns, NoCall, Takes, GoesOn, Kept, SameCall, Published, Finishes,
       LooksAtLegacy, BeginsPublish, NotesRow, RunsOut, Finds, Streams, Delivers

(* A Put becomes unpublished by drawing a fresh id; while it stays so, the rows *)
(* do too, and its payload has been verified once it is past "verify".          *)
LEMMA PrePublishMoved ==
  ASSUME NEW r, LocalInv(r), PointInv(r), NEW s, LocalInv(s), Move(r, s), PrePublish(s),
         PublishedOnce
  PROVE  /\ rows' = rows
         /\ \/ /\ PrePublish(r) /\ s.pay = r.pay /\ s.data = r.data
               /\ r.pc = "upload" => s.pc = "verify"
               /\ r.pc = "verify" => payloads[r.pay] = r.data
            \/ s.pc = "upload" /\ s.pay \notin used /\ s.tag = r.tag
<1>0. s.op = "put" /\ s.pc \in {"upload", "verify", "publish", "head", "get"}
  BY DEF PrePublish
<1>1. CASE Takes(r, s)
  BY <1>0, <1>1 DEF Takes
<1>2. CASE GoesOn(r, s)
  <2>1. SameCall(r, s) /\ s.data = r.data /\ s.cand = r.cand
    BY <1>2 DEF GoesOn, Kept
  <2>2. r.pc = "publish" => s.pc = "publish"
    BY <1>2, <2>1 DEF GoesOn, PrePublish, PointInv
  <2>3. r.pc \in {"upload", "publish"} /\ rows' = rows /\ (r.pc = "upload" => s.pc = "verify")
    BY <1>0, <1>2, <2>2, BoundAssumption DEF GoesOn, Repeated, PublishedOnce
  <2> QED BY <1>0, <2>1, <2>3 DEF SameCall, PrePublish
<1>3. CASE LooksAtLegacy(r, s)
  BY <1>0, <1>3 DEF LooksAtLegacy, SameCall, PrePublish
<1>4. CASE BeginsPublish(r, s)
  BY <1>0, <1>4 DEF BeginsPublish, SameCall, PrePublish
<1>5. CASE NotesRow(r, s)
  BY <1>0, <1>5 DEF NotesRow, SameCall, PrePublish
<1>6. CASE Begins(r, s) \/ Returns(r, s) \/ Streams(r, s) \/ Finds(r, s)
  BY <1>0, <1>6 DEF Begins, Returns, NoCall, Streams, Finds, Finishes, Kept, SameCall
<1>7. CASE Fails(r, s) \/ Published(r, s) \/ RunsOut(r, s) \/ Delivers(r, s)
  BY <1>0, <1>7 DEF Fails, Published, RunsOut, Delivers, Finishes
<1> QED BY <1>1, <1>2, <1>3, <1>4, <1>5, <1>6, <1>7 DEF Move

(* A move keeps every row's payload. *)
LEMMA DanglingMove ==
  ASSUME TypeOK, CleanupInv, PointsInv, DanglingInv, PublishedOnce, CleanupInv', TypeOK',
         NEW c \in Clients, NEW s \in Call, Moves(c, s), LocalInv(s),
         PayloadsMove(call[c]), used \subseteq used'
  PROVE  DanglingInv'
<1> DEFINE r == call[c]
<1>1. /\ r \in Call /\ LocalInv(r) /\ PointInv(r) /\ call'[c] = s /\ Move(r, s)
      /\ \A d \in Clients : d # c => call'[d] = call[d]
  BY CallFacts DEF PointsInv, Moves, TypeOK
<1>2. RowsMove(r)
  BY RowsMoved
<1>3. /\ Unpublished /\ TagsHonest /\ RowsDistinct /\ NoDangling
      /\ IdsUsed /\ OwnersDistinct /\ SafeUnreferenced
  BY DEF DanglingInv, CleanupInv
<1>4. r.pc = "publish" => PrePublish(r) /\ r.pay # NoPayload
  BY <1>1 DEF PrePublish, LocalInv
<1>5. ASSUME NEW e \in Encodings, NEW k \in Keys, rows'[e][k].pay # NoPayload
      PROVE  \/ rows'[e][k] = rows[e][k]
             \/ /\ r.pc = "publish" /\ e = "current" /\ k = r.key
                /\ rows'[e][k].pay = r.pay /\ rows'[e][k].data = r.data
  BY <1>2, <1>5 DEF RowsMove, OwnRow, NoRow
<1>6. /\ s.tag = r.tag \/ s.tag = NoRow
           \/ (s.tag = RowAt(r) /\ s.pc = "get" /\ rows' = rows /\ s.cand = r.cand /\ s.key = r.key)
      /\ r.cand \in Encodings
  BY <1>1, TagMoved DEF Call
<1>7. ASSUME NEW d \in Clients, PrePublish(call'[d])
      PROVE  /\ \A e \in Encodings, k \in Keys : rows'[e][k].pay # call'[d].pay
             /\ \A b \in Clients : call'[b].tag.pay # call'[d].pay
             /\ call'[d].pc \notin {"upload", "verify"} => payloads'[call'[d].pay] = call'[d].data
  <2>0. call'[d].pay \in Payloads /\ call'[d].pay # NoPayload
    <3>1. call'[d] \in Call /\ LocalInv(call'[d])
      BY DEF TypeOK, CleanupInv
    <3> QED BY <1>7, <3>1 DEF PrePublish, LocalInv, Call
  <2>1. CASE d # c
    <3>1. call'[d] = call[d] /\ PrePublish(call[d])
      BY <1>1, <1>7, <2>1
    <3>2. /\ \A e \in Encodings, k \in Keys : rows[e][k].pay # call[d].pay
          /\ \A b \in Clients : call[b].tag.pay # call[d].pay
          /\ call[d].pc \notin {"upload", "verify"} => payloads[call[d].pay] = call[d].data
      BY <1>3, <3>1 DEF Unpublished, Unreferenced
    <3>3. r.pay # call[d].pay
      BY <1>3, <2>0, <2>1, <3>1 DEF OwnersDistinct
    <3>4. \A e \in Encodings, k \in Keys : rows'[e][k].pay # call'[d].pay
      BY <1>5, <2>0, <3>1, <3>2, <3>3
    <3>5. s.tag.pay # call[d].pay
      <4>1. RowAt(r).pay # call[d].pay \/ s.tag # RowAt(r)
        <5>1. CASE s.tag = r.tag \/ s.tag = NoRow
          BY <2>0, <3>1, <3>2, <5>1 DEF NoRow
        <5>2. CASE s.tag = RowAt(r) /\ s.pc = "get" /\ s.key = r.key
          <6>1. r.key \in Keys
            BY <5>2 DEF LocalInv, Call
          <6> QED BY <1>6, <3>2, <6>1 DEF RowAt
        <5> QED BY <1>6, <5>1, <5>2
      <4> QED BY <1>6, <2>0, <3>1, <3>2, <4>1 DEF NoRow
    <3>6. \A b \in Clients : call'[b].tag.pay # call'[d].pay
      BY <1>1, <3>1, <3>2, <3>5
    <3>7. payloads'[call[d].pay] = payloads[call[d].pay]
      BY <2>0, <3>1, <3>2, <3>3 DEF PayloadsMove
    <3> QED BY <3>1, <3>2, <3>4, <3>6, <3>7
  <2>2. CASE d = c
    <3>1. PrePublish(s) /\ call'[d] = s
      BY <1>1, <1>7, <2>2
    <3>2. /\ rows' = rows
          /\ \/ /\ PrePublish(r) /\ s.pay = r.pay /\ s.data = r.data
                /\ r.pc = "upload" => s.pc = "verify"
                /\ r.pc = "verify" => payloads[r.pay] = r.data
             \/ s.pc = "upload" /\ s.pay \notin used /\ s.tag = r.tag
      BY <1>1, <3>1, PrePublishMoved
    <3>3. CASE s.pc = "upload" /\ s.pay \notin used /\ s.tag = r.tag
      <4>1. \A e \in Encodings, k \in Keys : rows'[e][k].pay # s.pay
        BY <1>3, <2>0, <3>1, <3>2, <3>3 DEF IdsUsed
      <4>2. \A b \in Clients : call[b].tag.pay # s.pay
        BY <1>3, <2>0, <3>1, <3>3 DEF TagsHonest
      <4> QED BY <1>1, <3>1, <3>3, <4>1, <4>2
    <3>4. CASE /\ PrePublish(r) /\ s.pay = r.pay /\ s.data = r.data
               /\ r.pc = "upload" => s.pc = "verify"
               /\ r.pc = "verify" => payloads[r.pay] = r.data
      <4>1. /\ \A e \in Encodings, k \in Keys : rows[e][k].pay # r.pay
            /\ \A b \in Clients : call[b].tag.pay # r.pay
            /\ r.pc \notin {"upload", "verify"} => payloads[r.pay] = r.data
        BY <1>3, <3>4 DEF Unpublished, Unreferenced
      <4>2. s.tag.pay # s.pay
        <5>1. r.key \in Keys
          BY <1>1, <3>4 DEF PrePublish, LocalInv, Call
        <5>2. RowAt(r).pay # r.pay
          BY <1>6, <4>1, <5>1 DEF RowAt
        <5> QED BY <1>6, <2>0, <3>1, <3>4, <4>1, <5>2 DEF NoRow
      <4>3. s.pc \notin {"upload", "verify"} => payloads'[s.pay] = s.data
        <5> SUFFICES ASSUME s.pc \notin {"upload", "verify"}
                     PROVE  payloads'[s.pay] = s.data
          OBVIOUS
        <5>1. payloads[r.pay] = r.data /\ r.pc \notin {"upload", "cleanup", "rmpay"}
          BY <3>4, <4>1 DEF PrePublish
        <5>2. payloads'[r.pay] = payloads[r.pay]
          BY <2>0, <3>1, <3>4, <5>1 DEF PayloadsMove
        <5> QED BY <3>4, <5>1, <5>2
      <4> QED BY <1>1, <3>1, <3>2, <3>4, <4>1, <4>2, <4>3
    <3> QED BY <3>2, <3>3, <3>4
  <2> QED BY <2>1, <2>2
<1>8. Unpublished'
  BY <1>7 DEF Unpublished, Unreferenced, PrePublish
<1>9. r.pc = "publish" =>
        /\ \A e \in Encodings, k \in Keys : rows[e][k].pay # r.pay
        /\ \A b \in Clients : call[b].tag.pay # r.pay
        /\ payloads[r.pay] = r.data
  BY <1>3, <1>4 DEF Unpublished, Unreferenced
<1>10. ASSUME NEW d \in Clients, call'[d].tag.pay # NoPayload
       PROVE  /\ call'[d].tag.pay \in used'
              /\ call'[d].pc \in {"get", "rmrow"} =>
                   \A e \in Encodings, k \in Keys : rows'[e][k].pay = call'[d].tag.pay
                     => e = call'[d].cand /\ k = call'[d].key
              /\ call'[d].pc = "rmpay" =>
                   \A e \in Encodings, k \in Keys : rows'[e][k].pay # call'[d].tag.pay
  <2>1. CASE d # c
    <3>1. call'[d] = call[d] /\ call[d].tag.pay # NoPayload
      BY <1>1, <1>10, <2>1
    <3>2. /\ call[d].tag.pay \in used
          /\ call[d].pc \in {"get", "rmrow"} =>
               \A e \in Encodings, k \in Keys : rows[e][k].pay = call[d].tag.pay
                 => e = call[d].cand /\ k = call[d].key
          /\ call[d].pc = "rmpay" =>
               \A e \in Encodings, k \in Keys : rows[e][k].pay # call[d].tag.pay
      BY <1>3, <3>1 DEF TagsHonest, Unreferenced
    <3>3. ASSUME NEW e \in Encodings, NEW k \in Keys, rows'[e][k].pay = call[d].tag.pay
          PROVE  rows[e][k].pay = call[d].tag.pay
      BY <1>5, <1>9, <3>1, <3>3
    <3> QED BY <3>1, <3>2, <3>3
  <2>2. CASE d = c
    <3>0. call'[d] = s /\ s.tag.pay # NoPayload
      BY <1>1, <1>10, <2>2
    <3>1. CASE s.tag = RowAt(r) /\ s.pc = "get" /\ rows' = rows /\ s.cand = r.cand /\ s.key = r.key
      <4>1. r.key \in Keys /\ r.cand \in Encodings /\ s.tag = rows[r.cand][r.key]
        BY <1>6, <3>1 DEF LocalInv, Call, RowAt
      <4> QED BY <1>3, <3>0, <3>1, <4>1 DEF IdsUsed, RowsDistinct
    <3>2. CASE s.tag = r.tag
      <4>1. s.pc \in {"get", "rmrow"} /\ ~(s.tag = RowAt(r) /\ s.pc = "get" /\ rows' = rows
                                            /\ s.cand = r.cand /\ s.key = r.key)
              => r.pc \in {"get", "rmrow"} /\ s.cand = r.cand /\ s.key = r.key
        BY <1>1 DEF Move, Fails, Begins, Returns, NoCall, Takes, GoesOn, Kept, SameCall, Published,
             Finishes, LooksAtLegacy, BeginsPublish, NotesRow, RunsOut, Finds, Streams, Delivers
      <4>2. s.pc = "rmpay" => r.pc = "rmrow" /\ RowRemoved(r)
        BY <1>1 DEF Move, Fails, Begins, Returns, NoCall, Takes, GoesOn, Published,
             Finishes, LooksAtLegacy, BeginsPublish, NotesRow, RunsOut, Finds, Streams, Delivers
      <4>3. /\ r.tag.pay \in used
            /\ r.pc \in {"get", "rmrow"} =>
                 \A e \in Encodings, k \in Keys : rows[e][k].pay = r.tag.pay
                   => e = r.cand /\ k = r.key
        BY <1>3, <3>0, <3>2 DEF TagsHonest
      <4>4. ASSUME NEW e \in Encodings, NEW k \in Keys, rows'[e][k].pay = r.tag.pay
            PROVE  rows[e][k].pay = r.tag.pay
        BY <1>5, <1>9, <3>0, <3>2, <4>4
      <4>5. CASE s.pc = "rmpay"
        <5>1. r.key \in Keys /\ rows'[r.cand][r.key] = NoRow
          BY <1>1, <1>6, <4>2, <4>5 DEF LocalInv, Call, RowRemoved, TypeOK
        <5>2. ASSUME NEW e \in Encodings, NEW k \in Keys, rows'[e][k].pay = r.tag.pay
              PROVE  FALSE
          <6>1. e = r.cand /\ k = r.key
            BY <4>2, <4>3, <4>4, <4>5, <5>2
          <6> QED BY <3>0, <3>2, <5>1, <5>2, <6>1 DEF NoRow
        <5> QED BY <3>0, <3>2, <4>3, <4>5, <5>2
      <4>6. CASE s.pc # "rmpay"
        BY <3>0, <3>1, <3>2, <4>1, <4>3, <4>4, <4>6
      <4> QED BY <4>5, <4>6
    <3> QED BY <1>6, <3>0, <3>1, <3>2 DEF NoRow
  <2> QED BY <2>1, <2>2
<1>11. TagsHonest'
  BY <1>10 DEF TagsHonest, Unreferenced
<1>12. RowsDistinct'
  <2> SUFFICES ASSUME NEW e \in Encodings, NEW f \in Encodings, NEW j \in Keys, NEW k \in Keys,
                      rows'[e][j].pay = rows'[f][k].pay, rows'[e][j].pay # NoPayload
               PROVE  e = f /\ j = k
    BY DEF RowsDistinct
  <2> QED BY <1>3, <1>5, <1>9 DEF RowsDistinct
<1>13. NoDangling'
  <2> SUFFICES ASSUME NEW e \in Encodings, NEW k \in Keys, rows'[e][k].pay # NoPayload
               PROVE  payloads'[rows'[e][k].pay] = rows'[e][k].data
    BY DEF NoDangling
  <2>1. rows'[e][k].pay \in Payloads
    BY RowFields DEF TypeOK
  <2>2. CASE rows'[e][k] # rows[e][k]
    <3>1. r.pc = "publish" /\ rows'[e][k].pay = r.pay /\ rows'[e][k].data = r.data
      BY <1>5, <2>2
    <3> QED BY <1>9, <2>1, <3>1 DEF PayloadsMove
  <2>3. CASE rows'[e][k] = rows[e][k]
    <3>1. payloads[rows[e][k].pay] = rows[e][k].data
      BY <1>3, <2>3 DEF NoDangling
    <3>2. r.pc \in {"upload", "cleanup"} => rows[e][k].pay # r.pay
      BY <1>1, <1>3 DEF SafeUnreferenced, Unreferenced, LocalInv
    <3>3. r.pc = "rmpay" => rows[e][k].pay # r.tag.pay
      BY <1>3, <2>3 DEF TagsHonest, Unreferenced
    <3> QED BY <2>1, <2>3, <3>1, <3>2, <3>3 DEF PayloadsMove
  <2> QED BY <2>2, <2>3
<1> QED BY <1>8, <1>11, <1>12, <1>13 DEF DanglingInv

(* Every initial bucket has the payloads its rows name. *)
LEMMA DanglingInit ==
  ASSUME Init
  PROVE  DanglingInv
<1>1. PICK f \in LegacyRows, bad \in SUBSET BadKeys :
        /\ rows = [e \in Encodings |->
                    IF e = "legacy" THEN f
                    ELSE [k \in Keys |-> IF k \in bad THEN BadRow ELSE NoRow]]
        /\ payloads = [p \in Payloads |->
                        IF \E k \in Keys : f[k].pay = p
                          THEN f[CHOOSE k \in Keys : f[k].pay = p].data
                          ELSE NoData]
  BY DEF Init
<1>2. TypeOK
  BY InitEstablishes
<1>3. \A c \in Clients : call[c].pc = "idle" /\ call[c].tag.pay = NoPayload
  BY DEF Init, NoCall, NoRow
<1>4. \A j, k \in Keys : f[j].pay # NoPayload /\ f[j].pay = f[k].pay => j = k
  BY DEF LegacyRows
<1>5. ASSUME NEW e \in Encodings, NEW k \in Keys, rows[e][k].pay # NoPayload
      PROVE  e = "legacy" /\ rows[e][k] = f[k] /\ f[k] # NoRow /\ f[k].pay \in Payloads
  <2>1. e = "legacy" /\ rows[e][k] = f[k]
    BY <1>1, <1>5 DEF BadRow, NoRow
  <2>2. rows[e][k].pay \in Payloads
    BY <1>2, <1>5, RowFields DEF TypeOK
  <2> QED BY <1>5, <2>1, <2>2 DEF NoRow
<1>6. Unpublished /\ TagsHonest
  BY <1>3 DEF Unpublished, PrePublish, TagsHonest
<1>7. RowsDistinct
  BY <1>4, <1>5 DEF RowsDistinct
<1>8. NoDangling
  <2> SUFFICES ASSUME NEW e \in Encodings, NEW k \in Keys, rows[e][k].pay # NoPayload
               PROVE  payloads[rows[e][k].pay] = rows[e][k].data
    BY DEF NoDangling
  <2>1. rows[e][k] = f[k] /\ f[k].pay \in Payloads /\ f[k] # NoRow
    BY <1>5
  <2> DEFINE j == CHOOSE i \in Keys : f[i].pay = f[k].pay
  <2>2. j \in Keys /\ f[j].pay = f[k].pay
    OBVIOUS
  <2>3. payloads[f[k].pay] = f[j].data
    BY <1>1, <2>1
  <2> HIDE DEF j
  <2>4. j = k
    BY <1>4, <2>1, <2>2
  <2> QED BY <2>1, <2>3, <2>4
<1> QED BY <1>6, <1>7, <1>8 DEF DanglingInv

(***************************************************************************)
(* A row that can be read has its payload ("verifies the committed bytes,  *)
(* then atomically publishes the logical manifest"), for any number of     *)
(* concurrent Puts and Deletes, provided that a publish that took effect   *)
(* is not sent again.                                                      *)
(***************************************************************************)
THEOREM RowsHavePayloads == Spec /\ PublishedOnce => []NoDangling
<1> DEFINE Sound == TypeOK /\ CleanupInv /\ PointsInv
<1>1. Spec => []Sound
  BY PointsInvariant, PTL
<1>2. Init => DanglingInv
  BY DanglingInit
<1>3. ASSUME Sound, Sound', DanglingInv, PublishedOnce, [Next]_vars
      PROVE  DanglingInv'
  <2>1. CASE UNCHANGED vars
    BY <1>3, <2>1 DEF vars, DanglingInv, Unpublished, PrePublish, Unreferenced, TagsHonest,
                      RowsDistinct, NoDangling
  <2>2. ASSUME NEW c \in Clients, NEW s \in Call, Moves(c, s), LocalInv(s),
               CodeStep(c) \/ CallerStep(c)
        PROVE  DanglingInv'
    BY <1>3, <2>2, PayloadsMoved, DanglingMove
  <2>3. LocalsInv
    BY <1>3 DEF CleanupInv, LocalsInv
  <2> QED BY <1>3, <2>1, <2>2, <2>3, StepCases
<1>4. PublishedOnce => PublishedOnce'
  BY DEF PublishedOnce
<1>5. DanglingInv => NoDangling
  BY DEF DanglingInv
<1> HIDE DEF Sound
<1> QED BY <1>1, <1>2, <1>3, <1>4, <1>5, PTL DEF Spec
=============================================================================
