-------------------------- MODULE MCPackedHistory --------------------------
(* Small instances of PackedHistory: one message of every shape Pack tells *)
(* apart, with two ids so that rounds can be partly answered.              *)
EXTENDS PackedHistory

CONSTANTS id1, id2  \* tool call ids

Msg(role, calls, id, cost) == [role |-> role, calls |-> calls, id |-> id, cost |-> cost]

AnyMessage ==
  {Msg("system", {}, NoID, 9), Msg("user", {}, NoID, 10), Msg("assistant", {}, NoID, 9)}
  \cup {Msg("assistant", calls, NoID, 12) : calls \in {{id1}, {id1, id2}, {NoID}}}
  \cup {Msg("tool", {}, id, 20) : id \in {id1, id2, NoID}}
=============================================================================
