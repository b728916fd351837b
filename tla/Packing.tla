------------------------------ MODULE Packing ------------------------------
(***************************************************************************)
(* internal/ctx/ctx.go: choosing the messages of a history that go into    *)
(* the next request. A history is a sequence of messages; what is kept is  *)
(* a set of its indices, since no operation here reorders messages.        *)
(*                                                                         *)
(* A message has its role, the set of ids of the tool calls it makes       *)
(* (empty but for assistants), the id of the call it answers (NoID but for *)
(* tools) and its cost, the result of Message.Tokens.                      *)
(***************************************************************************)
EXTENDS Integers, Sequences, FiniteSets, FiniteSetsExt

CONSTANT NoID  \* the empty tool call id, legal on the wire but unpairable

-----------------------------------------------------------------------------
(* Token arithmetic *)

FixedSystem == 4000
FixedTools == 1500
ImageTokenEstimate == 1200
BudgetHeadroomDivisor == 10

(* Message.Tokens of a message without tool calls, of n bytes of text and   *)
(* so many images. Of one with tool calls the cost is any number.           *)
MessageTokens(n, images) == (n + 3) \div 4 + images * ImageTokenEstimate + 8

ResponseReserve(ctxSize) == IF ctxSize \div 8 > 8000 THEN ctxSize \div 8 ELSE 8000

Budget(ctxSize) ==
  LET b == ctxSize - FixedSystem - FixedTools - ResponseReserve(ctxSize)
  IN  IF b < 0 THEN 0 ELSE b - b \div BudgetHeadroomDivisor

Cost(h, S) == MapThenSumSet(LAMBDA i : h[i].cost, S)

-----------------------------------------------------------------------------
(* The stable prefix and the roles sent *)

Users(h) == {i \in DOMAIN h : h[i].role = "user"}

(* Faulty variant: the prefix ends with the latest user message.           *)
PrefixToLatest(h) == {i \in DOMAIN h : \E u \in Users(h) : i <= u}

(* Everything up to the first user message, the original task; nothing     *)
(* when there is none. The search looks at the roles before normalization. *)
Prefix(h) == IF Users(h) = {} THEN {}
             ELSE {i \in DOMAIN h : \A u \in Users(h) : i <= u}

(* Faulty variant: system notes keep their role.                           *)
RawRole(h, i) == h[i].role

(* normalizeSystemMessages: a system message after any other is sent as a  *)
(* user message.                                                           *)
RoleOf(h, i) ==
  IF h[i].role = "system" /\ \E j \in 1..(i - 1) : h[j].role # "system"
  THEN "user" ELSE h[i].role

-----------------------------------------------------------------------------
(* Packing units *)

IsOwner(h, i) == h[i].role = "assistant" /\ h[i].calls # {}

(* The tool messages that follow i without interruption ... *)
Block(h, i) == {j \in DOMAIN h : j > i /\ \A k \in (i + 1)..j : h[k].role = "tool"}

(* ... and answer one of its calls. *)
Results(h, i) == {j \in Block(h, i) : h[j].id \in h[i].calls}

(* Faulty variant: one answered call makes the whole round complete. *)
PartlyComplete(h, i) ==
  NoID \notin h[i].calls /\ \E c \in h[i].calls : \E j \in Results(h, i) : h[j].id = c

Complete(h, i) ==
  NoID \notin h[i].calls /\ \A c \in h[i].calls : \E j \in Results(h, i) : h[j].id = c

(* Faulty variant: incomplete rounds are packed too.                       *)
HeadsOfAnyRound(h) == {i \in DOMAIN h \ Prefix(h) : h[i].role # "tool"}

(* The first messages of the units: a tool message is taken with its owner *)
(* or not at all, and an incomplete round is discarded whole.              *)
Heads(h) ==
  {i \in DOMAIN h \ Prefix(h) : h[i].role # "tool" /\ (IsOwner(h, i) => Complete(h, i))}

Unit(h, i) == IF IsOwner(h, i) THEN {i} \cup Results(h, i) ELSE {i}

UnitsFrom(h, i) == UNION {Unit(h, j) : j \in {k \in Heads(h) : k >= i}}
Newest(h, i) == \A j \in Heads(h) : j <= i

-----------------------------------------------------------------------------
(* Pack *)

(* Faulty variant: a unit that does not fit is skipped, not the end.       *)
FittingUnits(h, budget) ==
  {i \in Heads(h) : Newest(h, i) \/ Cost(h, Prefix(h) \cup Unit(h, i)) <= budget}

(* Faulty variant: the newest unit has to fit like any other.              *)
StrictUnits(h, budget) ==
  {i \in Heads(h) : Cost(h, Prefix(h) \cup UnitsFrom(h, i)) <= budget}

(* Units are taken newest first until one no longer fits; the newest is    *)
(* taken even over budget.                                                 *)
Selected(h, budget) ==
  {i \in Heads(h) : \A j \in Heads(h) :
     j >= i => Newest(h, j) \/ Cost(h, Prefix(h) \cup UnitsFrom(h, j)) <= budget}

Chosen(h, budget) == Prefix(h) \cup UNION {Unit(h, i) : i \in Selected(h, budget)}

(* dropDanglingToolCalls, on the messages K of h *)
WithoutDangling(h, K) ==
  LET answered == {h[i].id : i \in {j \in K : h[j].role = "tool"}} \ {NoID}
  IN  {i \in K : IsOwner(h, i) => h[i].calls \subseteq answered}

(* dropOrphanTools, on the messages K of h *)
WithoutOrphans(h, K) ==
  LET seen(i) == UNION {h[j].calls : j \in {k \in K : k < i /\ h[k].role = "assistant"}}
  IN  {i \in K : h[i].role = "tool" => h[i].id \in seen(i) \ {NoID}}

Kept(h, budget) == WithoutOrphans(h, WithoutDangling(h, Chosen(h, budget)))

(* The request in the order it is sent. *)
StablePrefix(h) == Cardinality(Prefix(h))

-----------------------------------------------------------------------------
(* What Pack promises of a history h *)

(* "A tool-producing assistant and all of its tool results are one         *)
(* indivisible unit": outside the prefix a kept message is in a kept whole *)
(* round, every call of which is answered right behind it.                 *)
RoundsWholeIn(h, budget) ==
  \A i \in Kept(h, budget) \ Prefix(h) :
    /\ IsOwner(h, i) => Complete(h, i) /\ Results(h, i) \subseteq Kept(h, budget)
    /\ h[i].role = "tool" =>
         \E o \in Kept(h, budget) \ Prefix(h) : IsOwner(h, o) /\ i \in Results(h, o)

(* "The newest valid unit is retained even over budget." *)
NewestKeptIn(h, budget) ==
  \A i \in Heads(h) : Newest(h, i) => Unit(h, i) \subseteq Kept(h, budget)

(* The request exceeds the budget only when it is the prefix and the       *)
(* newest unit, which are sent whatever they cost.                         *)
WithinBudgetIn(h, budget) ==
  \/ Cost(h, Kept(h, budget)) <= budget
  \/ \E i \in Heads(h) : Newest(h, i) /\ Kept(h, budget) \subseteq Prefix(h) \cup Unit(h, i)
  \/ Heads(h) = {}

(* What is kept after the prefix has no gap: no valid unit is left out     *)
(* between two that are sent.                                              *)
NoGapIn(h, budget) ==
  \A i, j \in Heads(h) : i < j /\ i \in Kept(h, budget) => j \in Kept(h, budget)

(* Only leading messages are sent in the system role. *)
SystemLeadsIn(h, budget) ==
  \A i, j \in Kept(h, budget) :
    i < j /\ RoleOf(h, j) = "system" => RoleOf(h, i) = "system"

(* A history like the ones the agent builds, whose prefix holds neither    *)
(* tool calls nor tool results.                                            *)
CleanPrefix(h) == \A i \in Prefix(h) : h[i].role # "tool" /\ ~IsOwner(h, i)

(* "completePackingUnits already emits paired groups": the two clean-up    *)
(* passes at the end of Pack have nothing to do.                           *)
PassesIdleIn(h, budget) == CleanPrefix(h) => Kept(h, budget) = Chosen(h, budget)
=============================================================================
