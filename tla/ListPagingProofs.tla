-------------------------- MODULE ListPagingProofs --------------------------
(***************************************************************************)
(* What a listing is worth, proved for every table of rows, page limit and *)
(* number of changes between two pages.                                    *)
(***************************************************************************)
EXTENDS ListPaging, FiniteSetTheorems, TLAPS

(* Row i has gone by: it lies before the continuation token. *)
Passed(i) == IF service = "fixture" THEN Rank(i) < call.token ELSE i <= call.token

(* What the locals of a running listing amount to so far. *)
SoFar ==
  /\ call.seen \subseteq Found(ever, call.prefix)
  /\ \A i \in kept : Passed(i) => Found({i}, call.prefix) \subseteq call.seen

(***************************************************************************)
(* The inductive invariant: rows that stayed are still there; everything   *)
(* found was there once, and what stayed and has gone by was found; at the *)
(* end nothing that stayed is missing.                                     *)
(***************************************************************************)
PagingInv ==
  /\ kept \subseteq present
  /\ call.pc \in {"acquire", "page"} => present \subseteq ever
  /\ call.pc \in {"idle", "acquire"} => call.token = NoToken /\ call.seen = {}
  /\ call.pc # "done" => call.res = "none"
  /\ service # "rogue" =>
       /\ call.res # "integrity"
       /\ call.pc = "page" => SoFar
       /\ call.pc = "done" /\ call.res = "ok" =>
            /\ call.seen \subseteq Found(ever, call.prefix)
            /\ Found(kept, call.prefix) \subseteq call.seen

-----------------------------------------------------------------------------
(* Positions and ranks. *)

(* There are finitely many rows; tokens are natural numbers. *)
LEMMA PositionFacts ==
  /\ Len(Table) \in Nat /\ IsFiniteSet(Positions) /\ Cardinality(Positions) = Len(Table)
  /\ Tokens \cup {NoToken} = 0..(Len(Table) + 1)
<1>1. Len(Table) \in Nat
  BY ListAssumption
<1>2. IsFiniteSet(Positions) /\ Cardinality(Positions) = Len(Table)
  <2>1. /\ IsFiniteSet(1..Len(Table))
        /\ Cardinality(1..Len(Table)) = IF 1 > Len(Table) THEN 0 ELSE Len(Table) - 1 + 1
    BY <1>1, FS_Interval
  <2> QED BY <1>1, <2>1 DEF Positions
<1> QED BY <1>1, <1>2 DEF Tokens, NoToken

(* How many rows of a set lie before position i. *)
Before(rows, i) == {j \in rows : j < i}

(* It is a number that grows with the set and with the position. *)
LEMMA BeforeFacts ==
  ASSUME NEW S \in SUBSET Positions, NEW i \in Positions
  PROVE  /\ IsFiniteSet(Before(S, i))
         /\ Cardinality(Before(S, i)) \in Nat /\ Cardinality(Before(S, i)) <= Len(Table)
         /\ \A T \in SUBSET S : Cardinality(Before(T, i)) <= Cardinality(Before(S, i))
         /\ \A j \in S : j < i => Cardinality(Before(S, j)) < Cardinality(Before(S, i))
<1>1. IsFiniteSet(Before(S, i))
  BY PositionFacts, FS_Subset DEF Before
<1>2. Cardinality(Before(S, i)) \in Nat /\ Cardinality(Before(S, i)) <= Len(Table)
  <2>1. Before(S, i) \subseteq Positions
    BY DEF Before
  <2> QED BY <1>1, <2>1, PositionFacts, FS_Subset, FS_CardinalityType
<1>3. ASSUME NEW T \in SUBSET S
      PROVE  Cardinality(Before(T, i)) <= Cardinality(Before(S, i))
  <2>1. Before(T, i) \subseteq Before(S, i)
    BY DEF Before
  <2> QED BY <1>1, <2>1, FS_Subset
<1>4. ASSUME NEW j \in S, j < i
      PROVE  Cardinality(Before(S, j)) < Cardinality(Before(S, i))
  <2>0. i \in Nat /\ j \in Nat
    BY PositionFacts DEF Positions
  <2>1. Before(S, j) \cup {j} \subseteq Before(S, i) /\ j \notin Before(S, j)
    <3>1. \A x \in S : x \in Nat
      BY PositionFacts DEF Positions
    <3>2. ASSUME NEW x \in Before(S, j) PROVE x \in Before(S, i)
      BY <1>4, <2>0, <3>1 DEF Before
    <3>3. j \in Before(S, i) /\ j \notin Before(S, j)
      BY <1>4, <2>0 DEF Before
    <3> QED BY <3>2, <3>3
  <2>2. IsFiniteSet(Before(S, j))
    BY <1>1, <2>1, FS_Subset
  <2>3. Cardinality(Before(S, j) \cup {j}) = Cardinality(Before(S, j)) + 1
    BY <2>1, <2>2, FS_AddElement
  <2>4. Cardinality(Before(S, j) \cup {j}) <= Cardinality(Before(S, i))
    BY <1>1, <2>1, FS_Subset
  <2>5. Cardinality(Before(S, j)) \in Nat
    BY <2>2, FS_CardinalityType
  <2> QED BY <1>2, <2>3, <2>4, <2>5
<1> QED BY <1>1, <1>2, <1>3, <1>4

(* The order of the page's rows is the order of the tokens after them. *)
LEMMA TokenFacts ==
  ASSUME TypeOK, NEW last \in Rest(call.token)
  PROVE  /\ last \in present /\ TokenAfter(last) \in Tokens
         /\ ~TokenRefused(TokenAfter(last), call)
<1>1. last \in present /\ last \in Positions /\ Rank(last) = Cardinality(Before(present, last))
  BY DEF Rest, TypeOK, Rank, Before
<1>2. Rank(last) \in Nat /\ Rank(last) <= Len(Table) /\ last \in 1..Len(Table)
  BY <1>1, BeforeFacts DEF TypeOK, Positions
<1>3. call.token \in Nat /\ Len(Table) \in Nat
  BY PositionFacts DEF TypeOK, Call
<1>4. TokenAfter(last) > call.token /\ TokenAfter(last) \in Tokens
  BY <1>2, <1>3 DEF Rest, TokenAfter, Tokens
<1> QED BY <1>1, <1>3, <1>4 DEF TokenRefused, NoToken, Tokens

(* Pages are cut between positions, so a row has gone by when its page has. *)
LEMMA PassedAfter ==
  ASSUME TypeOK, NEW last \in Rest(call.token), NEW i \in present,
         IF service = "fixture" THEN Rank(i) < TokenAfter(last) ELSE i <= TokenAfter(last)
  PROVE  Passed(i) \/ (i \in Rest(call.token) /\ i <= last)
<1>1. /\ last \in present /\ last \in Positions /\ i \in Positions /\ present \in SUBSET Positions
      /\ Rank(last) = Cardinality(Before(present, last))
      /\ Rank(i) = Cardinality(Before(present, i))
  BY DEF Rest, TypeOK, Rank, Before
<1>2. /\ Rank(last) \in Nat /\ Rank(i) \in Nat /\ last \in Nat /\ i \in Nat
      /\ last < i => Rank(last) < Rank(i)
  <2>1. \A x \in Positions : x \in Nat
    BY PositionFacts DEF Positions
  <2>2. Rank(last) \in Nat /\ Rank(i) \in Nat
    BY <1>1, BeforeFacts
  <2>3. last < i => Rank(last) < Rank(i)
    BY <1>1, BeforeFacts
  <2> QED BY <1>1, <2>1, <2>2, <2>3
<1>3. call.token \in Nat
  BY PositionFacts DEF TypeOK, Call
<1>4. i <= last
  BY <1>2 DEF TokenAfter
<1> QED BY <1>2, <1>3, <1>4 DEF Passed, Rest

(* Found is monotone. *)
LEMMA FoundMonotone ==
  ASSUME NEW S, NEW T, NEW prefix, S \subseteq T
  PROVE  Found(S, prefix) \subseteq Found(T, prefix)
BY DEF Found

(* It works row by row. *)
LEMMA FoundFacts ==
  ASSUME NEW S, NEW prefix
  PROVE  /\ Found(S, prefix) \subseteq Under[prefix]
         /\ \A i \in S : Found({i}, prefix) \subseteq Found(S, prefix)
         /\ \A n \in Found(S, prefix) :
              \E i \in S : Found({i}, prefix) = {n}
         /\ \A n \in Found(S, prefix) :
              \E i \in S : Table[i].shape # "foreign" /\ Table[i].name = n
         /\ \A i \in S : Table[i].shape # "foreign" /\ Table[i].name \in Under[prefix]
              => Table[i].name \in Found(S, prefix)
         /\ S \subseteq Positions => Found(S, prefix) \subseteq Names
BY DEF Found, Names

-----------------------------------------------------------------------------
(* Types. *)

(* The locals a page leads to are well formed. *)
LEMMA PageType ==
  ASSUME TypeOK, NEW rows \in SUBSET Positions, NEW truncated, NEW next,
         PageRead(rows, truncated, next), truncated => next \in Tokens \cup {NoToken}
  PROVE  call' \in Call
<1> DEFINE c == [call EXCEPT !.seen = @ \cup Found(rows, call.prefix)]
<1>1. Found(rows, call.prefix) \subseteq Names
  BY FoundFacts
<1>2. c \in Call
  BY <1>1 DEF TypeOK, Call
<1>3. \/ call' = [c EXCEPT !.pc = "done", !.res = "ok"]
      \/ call' = [[c EXCEPT !.seen = {}] EXCEPT !.pc = "done", !.res = "integrity"]
      \/ next \in Tokens \cup {NoToken} /\ call' = [c EXCEPT !.token = next]
  BY DEF PageRead, Ends
<1> HIDE DEF c
<1>4. [c EXCEPT !.seen = {}] \in Call
  BY <1>2 DEF Call
<1> QED BY <1>2, <1>3, <1>4 DEF Call, Results

(* A page gives back the slot exactly when the listing ends with it. *)
LEMMA PageSlots ==
  ASSUME TypeOK, NEW rows, NEW truncated, NEW next, PageRead(rows, truncated, next),
         call.pc = "page"
  PROVE  \/ call'.pc = "done" /\ slots' = slots - 1
         \/ call'.pc = "page" /\ slots' = slots
<1> DEFINE c == [call EXCEPT !.seen = @ \cup Found(rows, call.prefix)]
<1>1. c.pc = "page" /\ DOMAIN c = DOMAIN call
  BY DEF TypeOK, Call
<1>2. \/ call' = [c EXCEPT !.pc = "done", !.res = "ok"] /\ slots' = slots - 1
      \/ /\ call' = [[c EXCEPT !.seen = {}] EXCEPT !.pc = "done", !.res = "integrity"]
         /\ slots' = slots - 1
      \/ call' = [c EXCEPT !.token = next] /\ slots' = slots
  BY DEF PageRead, Ends
<1> HIDE DEF c
<1> QED BY <1>1, <1>2 DEF TypeOK, Call

(* What a page of an honest service is. *)
LEMMA PageShape ==
  ASSUME TypeOK, PageOk
  PROVE  \E rows \in SUBSET Rest(call.token), next \in Tokens \cup {NoToken} :
           /\ PageRead(rows, rows # Rest(call.token), next)
           /\ rows # Rest(call.token) =>
                \E last \in Rest(call.token) :
                  next = TokenAfter(last) /\ rows = {i \in Rest(call.token) : i <= last}
<1> DEFINE rest == Rest(call.token)
<1>1. CASE rest = {} /\ PageRead({}, FALSE, NoToken)
  <2>1. FALSE = ({} # Rest(call.token))
    BY <1>1
  <2> QED BY <1>1, <2>1
<1>2. ASSUME NEW last \in rest, NEW rows, rows = {i \in rest : i <= last},
             PageRead(rows, rows # rest, TokenAfter(last))
      PROVE  \E R \in SUBSET Rest(call.token), next \in Tokens \cup {NoToken} :
               /\ PageRead(R, R # Rest(call.token), next)
               /\ R # Rest(call.token) =>
                    \E l \in Rest(call.token) :
                      next = TokenAfter(l) /\ R = {i \in Rest(call.token) : i <= l}
  <2>1. TokenAfter(last) \in Tokens
    BY TokenFacts
  <2> QED BY <1>2, <2>1
<1> QED BY <1>1, <1>2 DEF PageOk

-----------------------------------------------------------------------------
(* The slots. *)

(* Every step keeps the types and the gate's account. *)
LEMMA SlotsPreserved ==
  ASSUME TypeOK, SlotReturned, [Next]_vars
  PROVE  TypeOK' /\ SlotReturned'
<1>0. /\ slots \in Nat /\ others \in Nat /\ slots <= MaxTransfers /\ call \in Call
      /\ slots = others + (IF call.pc = "page" THEN 1 ELSE 0) /\ MaxTransfers \in Nat
      /\ changes \in 0..MaxChanges /\ MaxChanges \in Nat
  BY ListAssumption DEF TypeOK, SlotReturned
<1>1. CASE UNCHANGED vars
  BY <1>1 DEF vars, TypeOK, SlotReturned
<1>2. CASE OtherTakes \/ OtherReturns
  <2>1. /\ slots' \in Nat /\ others' \in Nat /\ slots' <= MaxTransfers /\ others' <= MaxTransfers
        /\ slots' = others' + (IF call.pc = "page" THEN 1 ELSE 0)
    BY <1>0, <1>2 DEF OtherTakes, OtherReturns
  <2>2. UNCHANGED <<service, present, call, changes, kept, ever>>
    BY <1>2 DEF OtherTakes, OtherReturns, bucket
  <2>3. slots' \in 0..MaxTransfers /\ others' \in 0..MaxTransfers
    <3>1. /\ slots' \in Nat /\ others' \in Nat /\ MaxTransfers \in Nat
          /\ slots' <= MaxTransfers /\ others' <= MaxTransfers
      BY <1>0, <2>1
    <3> QED BY <3>1
  <2> QED BY <2>1, <2>2, <2>3 DEF TypeOK, SlotReturned
<1>3. CASE RowPublished \/ RowDeleted
  <2>1. changes' \in 0..MaxChanges
    BY <1>0, <1>3 DEF RowPublished, RowDeleted, Busy
  <2>2. present' \subseteq Positions /\ kept' \subseteq ever' /\ ever' \subseteq Positions
    BY <1>3 DEF RowPublished, RowDeleted, TypeOK
  <2> QED BY <1>3, <2>1, <2>2 DEF RowPublished, RowDeleted, TypeOK, SlotReturned
<1>4. CASE Begin
  <2>1. PICK p \in Prefixes :
          call' = IF p \in BadPrefixes
                    THEN [call EXCEPT !.pc = "done", !.prefix = p, !.res = "rejected"]
                    ELSE [call EXCEPT !.pc = "acquire", !.prefix = p]
    BY <1>4 DEF Begin
  <2>2. call' \in Call /\ call'.pc # "page"
    BY <1>0, <2>1 DEF Call, Results
  <2> QED BY <1>0, <1>4, <2>2 DEF Begin, TypeOK, SlotReturned
<1>5. CASE Return
  <2>1. NoCall \in Call /\ NoCall.pc = "idle"
    BY ListAssumption DEF NoCall, Call, Results
  <2> QED BY <1>0, <1>5, <2>1 DEF Return, TypeOK, SlotReturned
<1>6. CASE Expire \/ AcquireTimeout
  <2>1. call' \in Call /\ (call'.pc = "page" <=> call.pc = "page")
    BY <1>0, <1>6 DEF Expire, AcquireTimeout, Call, Results
  <2> QED BY <1>6, <2>1 DEF Expire, AcquireTimeout, bucket, TypeOK, SlotReturned
<1>7. CASE Acquire
  <2>1. call' \in Call /\ call'.pc = "page" /\ call.pc # "page"
    BY <1>0, <1>7 DEF Acquire, Call
  <2> QED BY <1>0, <1>7, <2>1 DEF Acquire, bucket, TypeOK, SlotReturned
<1>8. ASSUME NEW rows \in SUBSET Positions, NEW truncated, NEW next \in Tokens \cup {NoToken},
             PageRead(rows, truncated, next), call.pc = "page", UNCHANGED <<bucket, others>>
      PROVE  TypeOK' /\ SlotReturned'
  <2>1. call' \in Call
    BY <1>8, PageType
  <2>2. slots' \in 0..MaxTransfers /\ slots' = others + (IF call'.pc = "page" THEN 1 ELSE 0)
    BY <1>0, <1>8, PageSlots
  <2> QED BY <1>8, <2>1, <2>2 DEF bucket, TypeOK, SlotReturned
<1>9. CASE PageOk
  <2>1. PICK rows \in SUBSET Rest(call.token), next \in Tokens \cup {NoToken} :
          PageRead(rows, rows # Rest(call.token), next)
    BY <1>9, PageShape
  <2>2. rows \in SUBSET Positions
    BY DEF Rest, TypeOK
  <2> QED BY <1>8, <1>9, <2>1, <2>2 DEF PageOk
<1>10. CASE PageRogue
  <2>1. PICK i \in present, next \in Tokens \cup {NoToken} : PageRead({i}, TRUE, next)
    BY <1>10 DEF PageRogue
  <2>2. {i} \in SUBSET Positions
    BY DEF TypeOK
  <2> QED BY <1>8, <1>10, <2>1, <2>2 DEF PageRogue
<1>11. CASE PageRefused
  <2>1. call' \in Call /\ call'.pc = "done" /\ slots' = slots - 1
    <3> DEFINE c == [call EXCEPT !.seen = {}]
    <3>1. c \in Call
      BY <1>0 DEF Call
    <3> HIDE DEF c
    <3>2. \E res \in Results : call' = [c EXCEPT !.pc = "done", !.res = res]
      BY <1>11 DEF PageRefused, Ends, Results, c
    <3> QED BY <1>11, <3>1, <3>2 DEF PageRefused, Ends, Call
  <2> QED BY <1>0, <1>11, <2>1 DEF PageRefused, bucket, TypeOK, SlotReturned
<1> QED BY <1>1, <1>2, <1>3, <1>4, <1>5, <1>6, <1>7, <1>9, <1>10, <1>11 DEF Next, ListStep

(* The types and the gate's account hold throughout. *)
LEMMA SlotsHold == Spec => [](TypeOK /\ SlotReturned)
<1>1. Init => TypeOK /\ SlotReturned
  <2>1. NoCall \in Call /\ NoCall.pc = "idle"
    BY ListAssumption DEF NoCall, Call, Results
  <2> QED BY <2>1, ListAssumption DEF Init, TypeOK, SlotReturned
<1>2. TypeOK /\ SlotReturned /\ [Next]_vars => TypeOK' /\ SlotReturned'
  BY SlotsPreserved
<1> QED BY <1>1, <1>2, PTL DEF Spec

(***************************************************************************)
(* List's slot in the transfer gate (blob.go, the deferred releaseTransfer)*)
(* is taken while pages are read and given back on every way out.          *)
(***************************************************************************)
THEOREM ListReturnsItsSlot == Spec => []SlotReturned
BY SlotsHold, PTL

-----------------------------------------------------------------------------
(* Pages. *)

(* A row is behind the token or among the rest. *)
LEMMA PassedOrRest ==
  ASSUME TypeOK, NEW i \in present
  PROVE  Passed(i) \/ i \in Rest(call.token)
<1>1. i \in Positions /\ Rank(i) = Cardinality(Before(present, i)) /\ present \in SUBSET Positions
  BY DEF TypeOK, Rank, Before
<1>2. Rank(i) \in Nat /\ i \in Nat
  <2>1. i \in Nat
    BY <1>1, PositionFacts DEF Positions
  <2> QED BY <1>1, <2>1, BeforeFacts
<1>3. call.token \in Nat
  BY PositionFacts DEF TypeOK, Call
<1> QED BY <1>2, <1>3 DEF Passed, Rest

(* Rows that appear do not bring a row of the fixture behind the token. *)
LEMMA PassedStays ==
  ASSUME TypeOK, TypeOK', call' = call, service' = service, NEW i \in present,
         service = "fixture" => present \subseteq present', Passed(i)'
  PROVE  Passed(i)
<1>1. /\ i \in Positions /\ present \in SUBSET Positions /\ present' \in SUBSET Positions
      /\ Rank(i) = Cardinality(Before(present, i)) /\ Rank(i)' = Cardinality(Before(present', i))
  BY DEF TypeOK, Rank, Before
<1>2. Rank(i) \in Nat /\ Rank(i)' \in Nat
  <2>1. Cardinality(Before(present, i)) \in Nat
    BY <1>1, BeforeFacts
  <2>2. Cardinality(Before(present', i)) \in Nat
    BY <1>1, BeforeFacts
  <2> QED BY <1>1, <2>1, <2>2
<1>3. service = "fixture" => Rank(i) <= Rank(i)'
  BY <1>1, BeforeFacts
<1>4. call.token \in Nat
  BY PositionFacts DEF TypeOK, Call
<1> QED BY <1>2, <1>3, <1>4 DEF Passed

(* A page of an honest service: the listing ends with all that stayed, or *)
(* goes on with all that stayed and has gone by.                          *)
LEMMA PageSound ==
  ASSUME TypeOK, PagingInv, PageOk, service # "rogue"
  PROVE  /\ call'.prefix = call.prefix
         /\ call'.seen \subseteq Found(ever, call.prefix)
         /\ \/ /\ call'.pc = "done" /\ call'.res = "ok"
               /\ Found(kept, call.prefix) \subseteq call'.seen
            \/ /\ call'.pc = "page" /\ call'.res = "none"
               /\ \A i \in kept : Passed(i)' => Found({i}, call.prefix) \subseteq call'.seen
<1> DEFINE rest == Rest(call.token)
           prefix == call.prefix
<1>0. /\ call \in Call /\ call.pc = "page" /\ call.res = "none"
      /\ kept \subseteq present /\ present \subseteq ever
      /\ call.seen \subseteq Found(ever, prefix)
      /\ \A i \in kept : Passed(i) => Found({i}, prefix) \subseteq call.seen
      /\ UNCHANGED <<service, present, kept, ever>>
  BY DEF TypeOK, PagingInv, SoFar, PageOk, bucket
<1>1. PICK rows \in SUBSET rest, next \in Tokens \cup {NoToken} :
        /\ PageRead(rows, rows # rest, next)
        /\ rows # rest => \E last \in rest :
                            next = TokenAfter(last) /\ rows = {i \in rest : i <= last}
  BY PageShape
<1> DEFINE c == [call EXCEPT !.seen = @ \cup Found(rows, call.prefix)]
<1>2. /\ c.seen = call.seen \cup Found(rows, prefix) /\ c.token = call.token
      /\ c.prefix = prefix /\ c.pc = "page" /\ c.res = "none"
  BY <1>0 DEF Call
<1>3. \/ rows = rest /\ call' = [c EXCEPT !.pc = "done", !.res = "ok"]
      \/ rows # rest /\ TokenRefused(next, c)
      \/ rows # rest /\ call' = [c EXCEPT !.token = next]
  BY <1>1 DEF PageRead, Ends
<1>4. c \in [pc: {"page"}, prefix: {c.prefix}, token: {c.token}, seen: {c.seen},
             live: {c.live}, res: {"none"}]
  BY <1>0 DEF Call
<1> HIDE DEF c
<1>5. c.seen \subseteq Found(ever, prefix)
  <2>1. rows \subseteq ever
    BY <1>0 DEF Rest
  <2>2. Found(rows, prefix) \subseteq Found(ever, prefix)
    BY <2>1, FoundMonotone
  <2> QED BY <1>0, <1>2, <2>2
<1>6. \A i \in kept : Passed(i) \/ i \in rows => Found({i}, prefix) \subseteq c.seen
  <2>1. \A i \in rows : Found({i}, prefix) \subseteq Found(rows, prefix)
    BY FoundFacts
  <2> QED BY <1>0, <1>2, <2>1
<1>7. CASE rows = rest /\ call' = [c EXCEPT !.pc = "done", !.res = "ok"]
  <2>1. /\ call'.seen = c.seen /\ call'.prefix = c.prefix
        /\ call'.pc = "done" /\ call'.res = "ok"
    BY <1>4, <1>7
  <2>2. \A i \in kept : Found({i}, prefix) \subseteq c.seen
    BY <1>0, <1>6, <1>7, PassedOrRest
  <2>3. Found(kept, prefix) \subseteq c.seen
    <3>1. \A n \in Found(kept, prefix) : \E i \in kept : Found({i}, prefix) = {n}
      BY FoundFacts
    <3> QED BY <2>2, <3>1
  <2> QED BY <1>2, <1>5, <2>1, <2>3
<1>8. CASE rows # rest /\ TokenRefused(next, c)
  <2>1. PICK last \in rest : next = TokenAfter(last)
    BY <1>1, <1>8
  <2>2. ~TokenRefused(next, call)
    BY <2>1, TokenFacts
  <2> QED BY <1>2, <1>8, <2>2 DEF TokenRefused
<1>9. CASE rows # rest /\ call' = [c EXCEPT !.token = next]
  <2>1. /\ call'.seen = c.seen /\ call'.prefix = c.prefix /\ call'.token = next
        /\ call'.pc = "page" /\ call'.res = "none"
    BY <1>4, <1>9
  <2>2. PICK last \in rest : next = TokenAfter(last) /\ rows = {i \in rest : i <= last}
    BY <1>1, <1>9
  <2>3. ASSUME NEW i \in kept, Passed(i)'
        PROVE  Found({i}, prefix) \subseteq call'.seen
    <3>1. i \in present /\ Rank(i)' = Rank(i)
      BY <1>0 DEF Rank
    <3>2. IF service = "fixture" THEN Rank(i) < TokenAfter(last) ELSE i <= TokenAfter(last)
      <4>1. IF service' = "fixture" THEN Rank(i)' < call'.token ELSE i <= call'.token
        BY <2>3 DEF Passed
      <4> QED BY <1>0, <2>1, <2>2, <3>1, <4>1
    <3>3. Passed(i) \/ (i \in rest /\ i <= last)
      BY <3>1, <3>2, PassedAfter
    <3> QED BY <1>6, <2>1, <2>2, <3>3
  <2> QED BY <1>2, <1>5, <2>1, <2>3
<1> QED BY <1>3, <1>7, <1>8, <1>9

(* Rows that appear or disappear between two pages. *)
LEMMA ChangeSound ==
  ASSUME TypeOK, TypeOK', PagingInv, RowPublished \/ RowDeleted
  PROVE  PagingInv'
<1>1. /\ call' = call /\ service' = service /\ call.pc \in {"acquire", "page"}
      /\ kept' \subseteq kept /\ ever \subseteq ever' /\ kept' \subseteq present'
      /\ present' \subseteq ever' /\ kept \subseteq present
      /\ service = "fixture" => present \subseteq present'
  BY DEF RowPublished, RowDeleted, Busy, PagingInv
<1>2. ASSUME SoFar
      PROVE  SoFar'
  <2>1. Found(ever, call.prefix) \subseteq Found(ever', call.prefix)
    BY <1>1, FoundMonotone
  <2>2. \A i \in kept' : Passed(i)' => Found({i}, call.prefix) \subseteq call.seen
    BY <1>1, <1>2, PassedStays DEF SoFar
  <2> QED BY <1>1, <1>2, <2>1, <2>2 DEF SoFar, Found
<1> QED BY <1>1, <1>2 DEF PagingInv

(* Every step preserves the invariant. *)
LEMMA PagingPreserved ==
  ASSUME TypeOK, TypeOK', PagingInv, [Next]_vars
  PROVE  PagingInv'
<1>0. call \in Call /\ kept \subseteq present
  BY DEF TypeOK, PagingInv
<1>1. CASE UNCHANGED vars \/ OtherTakes \/ OtherReturns
  <2>1. UNCHANGED <<service, present, call, kept, ever>>
    BY <1>1 DEF vars, OtherTakes, OtherReturns, bucket
  <2> QED BY <2>1 DEF PagingInv, SoFar, Passed, Rank, Found
<1>2. CASE RowPublished \/ RowDeleted
  BY <1>2, ChangeSound
<1>3. CASE Begin
  <2>1. /\ call.token = NoToken /\ call.seen = {} /\ call.res = "none"
        /\ kept' = present' /\ ever' = present'
    BY <1>3 DEF Begin, PagingInv
  <2>2. \/ call'.pc = "done" /\ call'.res = "rejected"
        \/ call'.pc = "acquire" /\ call'.token = NoToken /\ call'.seen = {} /\ call'.res = "none"
    BY <1>0, <1>3, <2>1 DEF Begin, Call
  <2> QED BY <2>1, <2>2 DEF PagingInv
<1>4. CASE Return
  <2>1. call' = NoCall /\ kept' = {}
    BY <1>4 DEF Return
  <2>2. /\ NoCall.pc = "idle" /\ NoCall.token = NoToken /\ NoCall.seen = {}
        /\ NoCall.res = "none"
    BY DEF NoCall
  <2> QED BY <2>1, <2>2 DEF PagingInv
<1>5. CASE Expire
  <2>1. /\ call'.pc = call.pc /\ call'.token = call.token /\ call'.seen = call.seen
        /\ call'.res = call.res /\ call'.prefix = call.prefix
    BY <1>0, <1>5 DEF Expire, Call
  <2>2. UNCHANGED <<service, present, kept, ever>>
    BY <1>5 DEF Expire, bucket
  <2> QED BY <2>1, <2>2 DEF PagingInv, SoFar, Passed, Rank, Found
<1>6. CASE AcquireTimeout
  <2>1. call'.pc = "done" /\ call'.res = "ctx" /\ UNCHANGED <<service, present, kept, ever>>
    BY <1>0, <1>6 DEF AcquireTimeout, Call, bucket
  <2> QED BY <1>0, <2>1 DEF PagingInv
<1>7. CASE Acquire
  <2>1. /\ call'.pc = "page" /\ call'.res = "none" /\ call'.seen = {} /\ call'.token = NoToken
        /\ present \subseteq ever /\ UNCHANGED <<service, present, kept, ever>>
    BY <1>0, <1>7 DEF Acquire, PagingInv, Call, bucket
  <2>2. \A i \in kept : ~Passed(i)'
    <3> SUFFICES ASSUME NEW i \in kept, Passed(i)' PROVE FALSE
      OBVIOUS
    <3>1. i \in Positions /\ i \in Nat /\ i > 0
      BY <1>0, PositionFacts DEF TypeOK, Positions
    <3>2. Rank(i)' \in Nat
      <4>1. Rank(i)' = Cardinality(Before(present', i)) /\ present' \in SUBSET Positions
        BY DEF Rank, Before, TypeOK
      <4> QED BY <3>1, <4>1, BeforeFacts
    <3> QED BY <2>1, <3>1, <3>2 DEF Passed, NoToken
  <2> QED BY <1>0, <2>1, <2>2 DEF PagingInv, SoFar
<1>8. CASE PageOk /\ service # "rogue"
  <2>1. UNCHANGED <<service, present, kept, ever>> /\ present \subseteq ever
    BY <1>8 DEF PageOk, bucket, PagingInv
  <2> QED BY <1>0, <1>8, <2>1, PageSound DEF PagingInv, SoFar, Found
<1>9. ASSUME NEW rows, NEW truncated, NEW next, PageRead(rows, truncated, next),
             service = "rogue", call.pc = "page", UNCHANGED <<bucket, others>>
      PROVE  PagingInv'
  <2> DEFINE c == [call EXCEPT !.seen = @ \cup Found(rows, call.prefix)]
  <2>1. c.pc = "page" /\ c.res = "none"
    BY <1>0, <1>9 DEF Call, PagingInv
  <2>2. \/ call' = [c EXCEPT !.pc = "done", !.res = "ok"]
        \/ call' = [[c EXCEPT !.seen = {}] EXCEPT !.pc = "done", !.res = "integrity"]
        \/ call' = [c EXCEPT !.token = next]
    BY <1>9 DEF PageRead, Ends
  <2>3. DOMAIN c = {"pc", "prefix", "token", "seen", "live", "res"}
    BY <1>0 DEF Call
  <2> HIDE DEF c
  <2>4. call'.pc = "done" \/ (call'.pc = "page" /\ call'.res = "none")
    BY <2>1, <2>2, <2>3
  <2> QED BY <1>0, <1>9, <2>4 DEF PagingInv, bucket
<1>10. CASE (PageOk \/ PageRogue) /\ service = "rogue"
  <2>1. /\ \E rows, truncated, next : PageRead(rows, truncated, next)
        /\ call.pc = "page" /\ UNCHANGED <<bucket, others>>
    BY <1>10 DEF PageOk, PageRogue
  <2> QED BY <1>9, <1>10, <2>1
<1>11. CASE PageRefused
  <2> DEFINE c == [call EXCEPT !.seen = {}]
  <2>1. DOMAIN c = {"pc", "prefix", "token", "seen", "live", "res"}
    BY <1>0 DEF Call
  <2>2. \E res \in {"backend", "ctx"} : call' = [c EXCEPT !.pc = "done", !.res = res]
    BY <1>11 DEF PageRefused, Ends
  <2> HIDE DEF c
  <2>3. call'.pc = "done" /\ call'.res \in {"backend", "ctx"}
    BY <2>1, <2>2
  <2> QED BY <1>0, <1>11, <2>3 DEF PageRefused, PagingInv, bucket
<1> QED BY <1>1, <1>2, <1>3, <1>4, <1>5, <1>6, <1>7, <1>8, <1>10, <1>11
       DEF Next, ListStep, PageRogue

(* It holds of every listing. *)
LEMMA PagingHolds == Spec => []PagingInv
<1>1. Init => PagingInv
  BY DEF Init, PagingInv, NoCall
<1>2. TypeOK /\ TypeOK' /\ PagingInv /\ [Next]_vars => PagingInv'
  BY PagingPreserved
<1> QED BY <1>1, <1>2, SlotsHold, PTL DEF Spec

(***************************************************************************)
(* List (blob.go) against a bucket that changes between its pages: a key   *)
(* with a row that stayed is listed, a key without a row at any moment, or *)
(* outside the prefix, is not.                                             *)
(***************************************************************************)
THEOREM ListIsFaithful == Spec => []ListedFaithfully
<1>1. PagingInv => ListedFaithfully
  <2> SUFFICES ASSUME PagingInv, service # "rogue", call.pc = "done", call.res = "ok"
               PROVE  /\ \A i \in kept :
                           Table[i].shape # "foreign" /\ Table[i].name \in Under[call.prefix]
                             => Table[i].name \in call.seen
                      /\ \A n \in call.seen :
                           /\ n \in Under[call.prefix]
                           /\ \E i \in ever : Table[i].shape # "foreign" /\ Table[i].name = n
    BY DEF ListedFaithfully
  <2>1. call.seen \subseteq Found(ever, call.prefix) /\ Found(kept, call.prefix) \subseteq call.seen
    BY DEF PagingInv
  <2> QED BY <2>1, FoundFacts
<1> QED BY <1>1, PagingHolds, PTL

(***************************************************************************)
(* The check of continuation tokens (blob.go, List: a missing or repeated  *)
(* token) accuses no service that pages honestly, neither S3 nor the       *)
(* fixture, however rows come and go.                                      *)
(***************************************************************************)
THEOREM HonestServicesAccepted == Spec => []HonestPagesAccepted
<1>1. PagingInv => HonestPagesAccepted
  BY DEF PagingInv, HonestPagesAccepted
<1> QED BY <1>1, PagingHolds, PTL

=============================================================================
