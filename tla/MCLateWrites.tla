---------------------------- MODULE MCLateWrites ----------------------------
(* Small instances of LateWrites; symmetry as in MCBlobStore. *)
EXTENDS LateWrites, TLC

Symmetry == Permutations(Clients) \cup Permutations(Contents) \cup Permutations(Payloads)

(* The histories seen and cleaned guard no action; a run whose properties *)
(* mention neither views its states without them.                         *)
LateView == <<rows, payloads, used, held, call, wire, hasty>>
=============================================================================
