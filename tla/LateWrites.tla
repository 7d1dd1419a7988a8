----------------------------- MODULE LateWrites -----------------------------
(***************************************************************************)
(* BlobStore with requests that take effect late: an attempt at publishing *)
(* or deleting a manifest row is given up by its call -- the connection    *)
(* broke, a gateway answered 504, the context ended -- while the service   *)
(* still has it, and is applied at any later moment, or never.  The rest   *)
(* of the protocol is BlobStore's, unchanged.                              *)
(***************************************************************************)
EXTENDS BlobStore

CONSTANT MaxLate   \* bound on requests that are on the wire at once

ASSUME LateAssumption == MaxLate \in Nat

VARIABLES
  wire,     \* requests given up by their calls, not yet applied
  hasty,    \* history: one was given up although its context was live
  cleaned   \* history: the payloads that a Put's cleanup has removed

lateVars == <<vars, wire, hasty, cleaned>>

(* A request for one row: creating it if it is absent, or removing it. *)
PublishRequest(r) == [kind |-> "publish", enc |-> "current", key |-> r.key, row |-> OwnRow(r)]
RemoveRequest(r)  == [kind |-> "remove", enc |-> r.cand, key |-> r.key, row |-> NoRow]

LateInit == Init /\ wire = {} /\ hasty = FALSE /\ cleaned = {}

(* The attempt is given up: the context ends, or an error ends the attempt *)
(* as in BlobStore's Refused steps.                                        *)
GivenUp(c, Go(_)) ==
  \/ /\ Step(c, Go([call[c] EXCEPT !.live = FALSE, !.tries = 0]))
     /\ UNCHANGED hasty
  \/ /\ FailedAttempt(c, Go)
     /\ hasty' = TRUE

Sent(w) ==
  /\ Cardinality(wire) < MaxLate
  /\ wire' = wire \cup {w}

PublishGivenUp(c) ==
  /\ call[c].pc = "publish" /\ call[c].live
  /\ Sent(PublishRequest(call[c]))
  /\ GivenUp(c, StartResolve)
  /\ UNCHANGED <<store, cleaned>>
  /\ Observe

RemoveRowGivenUp(c) ==
  /\ call[c].pc = "rmrow" /\ call[c].live
  /\ Sent(RemoveRequest(call[c]))
  /\ GivenUp(c, DeleteFailed)
  /\ UNCHANGED <<store, cleaned>>
  /\ Observe

(* The service applies a request: PUT If-None-Match, or DELETE. *)
AppliedUnconditionally(w) == w.row
Applied(w) ==
  IF w.kind = "publish" /\ rows[w.enc][w.key] # NoRow THEN rows[w.enc][w.key] ELSE w.row

LateArrives ==
  \E w \in wire :
    /\ wire' = wire \ {w}
    /\ rows' = [rows EXCEPT ![w.enc][w.key] = Applied(w)]
    /\ UNCHANGED <<payloads, used, held, call, hasty, cleaned>>
    /\ Observe

(* What a step of BlobStore deletes in a Put's deferred cleanup. *)
RemovedByCleanup ==
  {p \in Payloads : /\ payloads[p] # NoData /\ payloads'[p] = NoData
                    /\ \E c \in Clients : call[c].pc = "cleanup" /\ call[c].pay = p}

LateNext ==
  \/ Next /\ UNCHANGED <<wire, hasty>> /\ cleaned' = cleaned \cup RemovedByCleanup
  \/ \E c \in Clients : PublishGivenUp(c) \/ RemoveRowGivenUp(c)
  \/ LateArrives

LateSpec == LateInit /\ [][LateNext]_lateVars

-----------------------------------------------------------------------------
(***************************************************************************)
(* "Preserve this payload until a successful read proves that the manifest *)
(* points somewhere else" (blob.go, Put): what the read is taken to prove  *)
(* is that nobody will need the payload again, so no manifest, then or     *)
(* later, names one that a cleanup has removed.                            *)
(***************************************************************************)
CleanupFinal == \A e \in Encodings, k \in Keys : rows[e][k].pay \notin cleaned

(***************************************************************************)
(* A row that can be read has its payload: as long as a publish is sent    *)
(* once, neither lost answers nor requests that outlive their call's       *)
(* context lead to a row whose payload a Delete or a cleanup has removed.  *)
(***************************************************************************)
NoDanglingUnlessHasty == ~hasty => NoDangling

(***************************************************************************)
(* A late request neither replaces a blob by another one nor revives one   *)
(* under other content: the value of a key goes only between absent and    *)
(* present, whenever the service gets to the request.                      *)
(***************************************************************************)
LateImmutable ==
  [][\A k \in Keys :
       Value(k)' # Value(k) => /\ NoData \in {Value(k), Value(k)'}
                               /\ Garbage \notin {Value(k), Value(k)'}]_lateVars
=============================================================================
