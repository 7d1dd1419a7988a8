---------------------------- MODULE MCListPaging ----------------------------
(***************************************************************************)
(* Two logical keys, "a" with both row shapes on either side of a foreign  *)
(* row, and "b" outside the prefix "p".                                    *)
(***************************************************************************)
EXTENDS ListPaging

MCTable ==
  <<[name |-> "a", shape |-> "current"], [name |-> "x", shape |-> "foreign"],
    [name |-> "a", shape |-> "legacy"], [name |-> "b", shape |-> "current"]>>

MCUnder == [p \in {"", "p", "bad"} |-> IF p = "p" THEN {"a"} ELSE {"a", "b", "x"}]
=============================================================================
