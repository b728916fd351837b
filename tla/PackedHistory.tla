--------------------------- MODULE PackedHistory ---------------------------
(***************************************************************************)
(* A conversation that grows one message at a time and is packed again for *)
(* every request, with the budget of the moment: Pack must be right for    *)
(* each history and consistent from one request to the next.               *)
(***************************************************************************)
EXTENDS Packing

CONSTANTS
  Messages,  \* the messages that may be appended
  Budgets,   \* the budgets a request may be packed with
  MaxLength  \* bound: messages in a history

ASSUME PackedHistoryAssumption ==
  /\ \A m \in Messages : m.cost \in Nat
  /\ Budgets \subseteq Int

VARIABLE history

(* runPrompt starts from the system prompt and the task. Here every        *)
(* history grows from none, its own among them.                            *)
Init == history = <<>>

Append1(m) ==
  /\ Len(history) < MaxLength
  /\ history' = Append(history, m)

Next == \E m \in Messages : Append1(m)

Spec == Init /\ [][Next]_history

-----------------------------------------------------------------------------
(* Properties *)

(* The promises of Pack, with every budget. *)
RoundsWhole == \A b \in Budgets : RoundsWholeIn(history, b)
WithinBudget == \A b \in Budgets : WithinBudgetIn(history, b)
TailKept == \A b \in Budgets : NewestKeptIn(history, b) /\ NoGapIn(history, b)
SystemLeads == \A b \in Budgets : SystemLeadsIn(history, b)
PassesIdle == \A b \in Budgets : PassesIdleIn(history, b)

(* "appending a turn cannot mutate bytes already advertised as             *)
(* StablePrefix": the prefix is the same messages with the same roles for  *)
(* ever, all of them sent.                                                 *)
PrefixPinned ==
  [][Users(history) # {} /\ CleanPrefix(history) =>
       /\ Prefix(history') = Prefix(history)
       /\ \A i \in Prefix(history) : RoleOf(history', i) = RoleOf(history, i)
       /\ \A b \in Budgets : Prefix(history') \subseteq Kept(history', b)]_history
=============================================================================
