-------------------------------- MODULE Blobs --------------------------------
(***************************************************************************)
(* What s3store promises its callers, without manifests, payloads, slots   *)
(* or retries: a map from keys to immutable contents on which Put, Get and *)
(* Delete act atomically at some moment between call and return.           *)
(*                                                                         *)
(* The map changes only through a running call: a Put of d turns an absent *)
(* key into d, a Delete makes a key absent.  seen[c] is the set of values  *)
(* the key is known to have had while c's call was running; a call returns *)
(* only what seen[c] justifies, or an error, which promises nothing about  *)
(* whether the call took effect.                                           *)
(***************************************************************************)
CONSTANTS Clients, Keys, Contents, NoKey, NoData, Garbage

VARIABLES
  value,   \* value[k]: the content of k, NoData, or Garbage (damaged)
  call,    \* call[c]: the operation c runs and its result
  seen

vars == <<value, call, seen>>

NoCall == [op |-> "none", key |-> NoKey, data |-> NoData, res |-> "none"]

Running(c) == call[c].op # "none" /\ call[c].res = "none"

Init ==
  /\ value \in [Keys -> Contents \cup {NoData, Garbage}]
  /\ call = [c \in Clients |-> NoCall]
  /\ seen = [c \in Clients |-> {}]

(* Running calls may take note of the value their key has after the step. *)
Observe ==
  /\ DOMAIN seen' = Clients
  /\ \A c \in Clients :
       IF call'[c].key = NoKey THEN seen'[c] = {}
       ELSE /\ seen'[c] \subseteq seen[c] \cup {value'[call'[c].key]}
            /\ seen[c] \subseteq seen'[c]

Invoke(c) ==
  /\ call[c] = NoCall
  /\ \E k \in Keys, o \in {"put", "get", "delete"} :
       \E d \in IF o = "put" THEN Contents ELSE {NoData} :
         call' = [call EXCEPT ![c] = [op |-> o, key |-> k, data |-> d, res |-> "none"]]
  /\ UNCHANGED value
  /\ Observe

(* The effect a running call may have on its key. *)
Effect(c) ==
  LET k == call[c].key IN
  \/ UNCHANGED value
  \/ /\ call[c].op = "put" /\ value[k] = NoData
     /\ value' = [value EXCEPT ![k] = call[c].data]
  \/ /\ call[c].op = "delete" /\ value[k] \in Contents
     /\ value' = [value EXCEPT ![k] = NoData]

(* The results a call may return, d being the bytes Get delivers. *)
Justified(c, res, d) ==
  \/ res = "error"
  \/ call[c].op = "put" /\ res = "ok" /\ call[c].data \in seen'[c]
  \/ call[c].op = "put" /\ res = "conflict" /\ seen'[c] \cap (Contents \ {call[c].data}) # {}
  \/ call[c].op = "get" /\ res = "value" /\ d \in seen'[c] \cap Contents
  \/ call[c].op = "get" /\ res = "notfound" /\ NoData \in seen'[c]
  \/ call[c].op = "delete" /\ res = "ok" /\ NoData \in seen'[c]

Act(c) ==
  /\ Running(c)
  /\ Effect(c)
  /\ \/ UNCHANGED call
     \/ \E res \in {"ok", "conflict", "value", "notfound", "error"} :
          \E d \in IF res = "value" THEN Contents ELSE {call[c].data} :
            /\ call' = [call EXCEPT ![c].res = res, ![c].data = d]
            /\ Justified(c, res, d)
  /\ Observe

(* Refused without running: nil context, invalid name, nil source. *)
Refuse(c) ==
  /\ call[c] = NoCall
  /\ call' = [call EXCEPT ![c].res = "error"]
  /\ UNCHANGED value
  /\ Observe

Return(c) ==
  /\ call[c].res # "none"
  /\ call' = [call EXCEPT ![c] = NoCall]
  /\ UNCHANGED value
  /\ Observe

Next == \E c \in Clients : Invoke(c) \/ Act(c) \/ Refuse(c) \/ Return(c)

Spec == Init /\ [][Next]_vars
=============================================================================
