----------------------------- MODULE ListPaging -----------------------------
(***************************************************************************)
(* Store.List: a listing read page by page while other calls publish and   *)
(* delete manifest rows (blob.go, List; key.go; the service's ListObjectsV2*)
(* as the fixture in internal/testserver implements it).                   *)
(*                                                                         *)
(* Table lists, in the order of their object keys, all the rows that may   *)
(* ever lie under the manifest namespace: the current and the legacy row   *)
(* of a logical key, and foreign rows that do not decode.  A row is known  *)
(* by its position.  Between two pages any row may appear or disappear.    *)
(*                                                                         *)
(* A continuation token of S3 is the position after which the next page    *)
(* starts; a token of the fixture says how many rows of the then-current   *)
(* listing to skip, which is the same only while no row is deleted; and a  *)
(* rogue service answers with any row and any token.  Short variants       *)
(* before a definition are faulty forms of it that a property is known to  *)
(* catch.                                                                  *)
(***************************************************************************)
EXTENDS Naturals, Sequences, FiniteSets

CONSTANTS
  Table,         \* sequence of [name, shape], shape "current", "legacy" or "foreign"
  Under,         \* Under[prefix]: the logical keys that start with the prefix
  BadPrefixes,   \* prefixes that validateListPrefix refuses
  PageLimit,     \* most rows in one page
  Services,      \* the services looked at: "s3", "fixture", "rogue"
  MaxTransfers,  \* capacity of the transfer gate
  MaxChanges     \* bound on changes to the bucket during one listing

Positions == 1..Len(Table)
Names     == {Table[i].name : i \in Positions}
Prefixes  == DOMAIN Under
NoToken   == 0
Tokens    == 1..(Len(Table) + 1)

ASSUME ListAssumption ==
  /\ PageLimit \in Nat \ {0}
  /\ MaxTransfers \in Nat \ {0}
  /\ MaxChanges \in Nat
  /\ Services \subseteq {"s3", "fixture", "rogue"}
  /\ Prefixes # {}
  /\ Table \in Seq([name: Names, shape: {"current", "legacy", "foreign"}])

VARIABLES
  service,  \* which service answers
  present,  \* positions of the rows that are in the bucket now
  call,     \* the listing: where it is, and its locals
  slots,    \* slots taken in the transfer gate
  others,   \* how many of them other calls hold
  changes,  \* changes to the bucket since the listing began
  kept,     \* history: rows present at every moment of the listing
  ever      \* history: rows present at some moment of the listing

vars == <<service, present, call, slots, others, changes, kept, ever>>
bucket == <<service, present, changes, kept, ever>>

Results == {"none", "ok", "ctx", "backend", "integrity", "rejected"}

(* token is continuation (NoToken for nil), seen the set of keys found. *)
NoCall == [pc |-> "idle", prefix |-> CHOOSE p \in Prefixes : TRUE, token |-> NoToken,
           seen |-> {}, live |-> TRUE, res |-> "none"]

Call == [pc: {"idle", "acquire", "page", "done"}, prefix: Prefixes,
         token: Tokens \cup {NoToken}, seen: SUBSET Names, live: BOOLEAN, res: Results]

Init ==
  /\ service \in Services
  /\ present \in SUBSET Positions
  /\ call = NoCall
  /\ slots = 0 /\ others = 0 /\ changes = 0
  /\ kept = {} /\ ever = {}

-----------------------------------------------------------------------------
(* The rest of the program: calls that take slots, publish and delete rows. *)

OtherTakes ==
  /\ slots < MaxTransfers
  /\ slots' = slots + 1 /\ others' = others + 1
  /\ UNCHANGED <<bucket, call>>

OtherReturns ==
  /\ others > 0
  /\ slots' = slots - 1 /\ others' = others - 1
  /\ UNCHANGED <<bucket, call>>

Busy == call.pc \in {"acquire", "page"} /\ changes < MaxChanges

RowPublished ==
  /\ Busy
  /\ \E i \in Positions \ present :
       /\ present' = present \cup {i}
       /\ ever' = ever \cup {i}
  /\ changes' = changes + 1
  /\ UNCHANGED <<service, call, slots, others, kept>>

RowDeleted ==
  /\ Busy /\ service # "fixture"
  /\ \E i \in present :
       /\ present' = present \ {i}
       /\ kept' = kept \ {i}
  /\ changes' = changes + 1
  /\ UNCHANGED <<service, call, slots, others, ever>>

-----------------------------------------------------------------------------
(* The listing itself. *)

Begin ==
  /\ call.pc = "idle"
  /\ \E p \in Prefixes :
       call' = IF p \in BadPrefixes
                 THEN [call EXCEPT !.pc = "done", !.prefix = p, !.res = "rejected"]
                 ELSE [call EXCEPT !.pc = "acquire", !.prefix = p]
  /\ kept' = present /\ ever' = present /\ changes' = 0
  /\ UNCHANGED <<service, present, slots, others>>

Return ==
  /\ call.pc = "done"
  /\ call' = NoCall
  /\ kept' = {} /\ ever' = {} /\ changes' = 0
  /\ UNCHANGED <<service, present, slots, others>>

(* guard.Bound: every context has a deadline, and it passes. *)
ExpireNever == FALSE /\ UNCHANGED vars
Expire ==
  /\ call.pc \in {"acquire", "page"} /\ call.live
  /\ call' = [call EXCEPT !.live = FALSE]
  /\ UNCHANGED <<bucket, slots, others>>

Acquire ==
  /\ call.pc = "acquire"
  /\ slots < MaxTransfers
  /\ slots' = slots + 1
  /\ call' = [call EXCEPT !.pc = "page"]
  /\ UNCHANGED <<bucket, others>>

AcquireTimeout ==
  /\ call.pc = "acquire" /\ ~call.live
  /\ call' = [call EXCEPT !.pc = "done", !.res = "ctx"]
  /\ UNCHANGED <<bucket, slots, others>>

(* The listing returns; its deferred releaseTransfer runs. *)
EndsLeaking(c, res) ==
  /\ call' = [c EXCEPT !.pc = "done", !.res = res]
  /\ slots' = IF res = "integrity" THEN slots ELSE slots - 1
Ends(c, res) ==
  /\ call' = [c EXCEPT !.pc = "done", !.res = res]
  /\ slots' = slots - 1

(* logicalKeyFromManifestObject and the prefix filter, row by row: a row *)
(* that does not decode is skipped, both shapes name the same key.       *)
FoundStopping(rows, prefix) ==
  IF \E i \in rows : Table[i].shape = "foreign" THEN {}
  ELSE {Table[i].name : i \in rows} \cap Under[prefix]
Found(rows, prefix) ==
  {Table[i].name : i \in {j \in rows : Table[j].shape # "foreign"}} \cap Under[prefix]

(* A token is refused when missing or when it repeats the one just sent. *)
TokenRefusedIfEmptyPage(next, c) == next \in {NoToken, c.token} \/ c.seen = {}
TokenRefused(next, c) == next \in {NoToken, c.token}

(* One answered request: rows of the page, then stop or go on. *)
PageRead(rows, truncated, next) ==
  LET c == [call EXCEPT !.seen = @ \cup Found(rows, call.prefix)] IN
  \/ /\ ~truncated
     /\ Ends(c, "ok")
  \/ /\ truncated /\ TokenRefused(next, c)
     /\ Ends([c EXCEPT !.seen = {}], "integrity")
  \/ /\ truncated /\ ~TokenRefused(next, c)
     /\ call' = [c EXCEPT !.token = next]
     /\ UNCHANGED slots

(***************************************************************************)
(* ListObjectsV2: the rows after the token, cut after at most PageLimit of *)
(* them, and a token for the rest.                                         *)
(***************************************************************************)
Rank(i) == Cardinality({j \in present : j < i})

Rest(token) == {i \in present : IF service = "fixture" THEN Rank(i) >= token ELSE i > token}

TokenAfter(last) == IF service = "fixture" THEN Rank(last) + 1 ELSE last

PageOk ==
  LET rest == Rest(call.token) IN
  /\ call.pc = "page" /\ call.live
  /\ service = "fixture" => call.token <= Cardinality(present)
  /\ \/ /\ rest = {}
        /\ PageRead({}, FALSE, NoToken)
     \/ \E last \in rest :
          LET rows == {i \in rest : i <= last} IN
          /\ Cardinality(rows) <= PageLimit
          /\ PageRead(rows, rows # rest, TokenAfter(last))
  /\ UNCHANGED <<bucket, others>>

PageRogue ==
  /\ call.pc = "page" /\ call.live /\ service = "rogue"
  /\ \E i \in present, next \in Tokens \cup {NoToken} : PageRead({i}, TRUE, next)
  /\ UNCHANGED <<bucket, others>>

(* A failed request: ctx.Err() if the context has ended, else a backend error. *)
PageRefused ==
  /\ call.pc = "page"
  /\ Ends([call EXCEPT !.seen = {}], IF call.live THEN "backend" ELSE "ctx")
  /\ UNCHANGED <<bucket, others>>

-----------------------------------------------------------------------------
ListStep == Acquire \/ AcquireTimeout \/ PageOk \/ PageRogue \/ PageRefused

Next ==
  \/ OtherTakes \/ OtherReturns \/ RowPublished \/ RowDeleted
  \/ Begin \/ Return \/ Expire \/ ListStep

Spec == Init /\ [][Next]_vars

(* Deadlines pass, and the code goes on; nothing is assumed of the service *)
(* and of other calls.                                                     *)
FairSpec == Spec /\ WF_vars(Expire) /\ WF_vars(ListStep)

-----------------------------------------------------------------------------
TypeOK ==
  /\ service \in Services
  /\ present \in SUBSET Positions
  /\ call \in Call
  /\ slots \in 0..MaxTransfers
  /\ others \in 0..MaxTransfers
  /\ changes \in 0..MaxChanges
  /\ kept \subseteq ever
  /\ ever \subseteq Positions

(***************************************************************************)
(* What a listing is worth although the bucket changes between its pages:  *)
(* a key with a row that stayed there throughout is listed, wherever pages *)
(* were cut and whatever foreign rows lie around it, and a key that had no *)
(* row at any moment is not; so is a key outside the prefix not.           *)
(***************************************************************************)
ListedFaithfully ==
  service # "rogue" /\ call.pc = "done" /\ call.res = "ok" =>
    /\ \A i \in kept :
         Table[i].shape # "foreign" /\ Table[i].name \in Under[call.prefix]
           => Table[i].name \in call.seen
    /\ \A n \in call.seen :
         /\ n \in Under[call.prefix]
         /\ \E i \in ever : Table[i].shape # "foreign" /\ Table[i].name = n

(***************************************************************************)
(* The guard on continuation tokens never accuses a service that pages     *)
(* honestly, however rows move between two pages.                          *)
(***************************************************************************)
HonestPagesAccepted == service # "rogue" => call.res # "integrity"

(***************************************************************************)
(* The slot of a listing is given back on every way out of it, and the     *)
(* gate never holds more than its capacity.                                *)
(***************************************************************************)
SlotReturned ==
  /\ slots = others + (IF call.pc = "page" THEN 1 ELSE 0)
  /\ slots <= MaxTransfers

(***************************************************************************)
(* A listing ends even if the service hands out tokens in a circle, which  *)
(* the comparison with the last token alone does not notice, or if other   *)
(* calls never give their slots back.                                      *)
(***************************************************************************)
ListEnds == call.pc = "acquire" ~> call.pc = "done"
=============================================================================
