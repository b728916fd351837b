--------------------------- MODULE PackingProofs ---------------------------
(***************************************************************************)
(* Proofs about Pack for histories of any length, any messages and any     *)
(* budget.                                                                 *)
(***************************************************************************)
EXTENDS PackedHistory, NatSets, FiniteSetTheorems, TLAPS

(* A unit is its head and tool messages behind it, all after the prefix.   *)
LEMMA UnitShape ==
  ASSUME NEW h, NEW n \in Nat, DOMAIN h = 1..n, NEW i \in Heads(h), NEW j \in Unit(h, i)
  PROVE  /\ i \in DOMAIN h \ Prefix(h) /\ h[i].role # "tool"
         /\ j \in DOMAIN h \ Prefix(h)
         /\ j # i => h[j].role = "tool" /\ j > i /\ IsOwner(h, i) /\ j \in Results(h, i)
<1>1. i \in DOMAIN h \ Prefix(h) /\ h[i].role # "tool"
  BY DEF Heads
<1>2. ASSUME j # i
      PROVE  h[j].role = "tool" /\ j > i /\ IsOwner(h, i) /\ j \in Results(h, i) /\ j \in DOMAIN h
  <2>1. j \in Results(h, i) /\ IsOwner(h, i)
    BY <1>2 DEF Unit
  <2>2. j \in DOMAIN h /\ j > i /\ \A k \in (i + 1)..j : h[k].role = "tool"
    BY <2>1 DEF Results, Block
  <2>3. j \in (i + 1)..j
    BY <1>1, <2>2
  <2> QED
    BY <2>1, <2>2, <2>3
<1>3. j \notin Prefix(h)
  BY <1>1, <1>2 DEF Prefix, Users
<1> QED
  BY <1>1, <1>2, <1>3

(* The passes at the end of Pack never break up a selected unit.           *)
LEMMA UnitsSurvive ==
  ASSUME NEW h, NEW n \in Nat, DOMAIN h = 1..n, NEW budget, NEW i \in Selected(h, budget)
  PROVE  Unit(h, i) \subseteq Kept(h, budget)
<1> DEFINE C == Chosen(h, budget)
           W == WithoutDangling(h, C)
<1>1. i \in Heads(h) /\ i \in Unit(h, i) /\ Unit(h, i) \subseteq C
  BY DEF Selected, Chosen, Unit
<1>2. i \in W
  <2>1. CASE ~IsOwner(h, i)
    BY <1>1, <2>1 DEF WithoutDangling
  <2>2. CASE IsOwner(h, i)
    <3>1. Complete(h, i) /\ Results(h, i) \subseteq C
      BY <1>1, <2>2 DEF Heads, Unit
    <3>2. \A j \in Results(h, i) : h[j].role = "tool"
      <4>1. \A j \in Results(h, i) : j \in Unit(h, i) /\ j # i
        BY <1>1, <2>2 DEF Unit, Results, Block, Heads
      <4> QED
        BY <1>1, <4>1, UnitShape
    <3>3. h[i].calls \subseteq {h[j].id : j \in {k \in C : h[k].role = "tool"}} \ {NoID}
      BY <3>1, <3>2 DEF Complete
    <3> QED
      BY <1>1, <3>3 DEF WithoutDangling
  <2> QED
    BY <2>1, <2>2
<1>3. ASSUME NEW j \in Unit(h, i) PROVE j \in Kept(h, budget)
  <2>1. CASE j = i
    BY <1>1, <1>2, <2>1, UnitShape DEF Kept, WithoutOrphans
  <2>2. CASE j # i
    <3>1. /\ h[j].role = "tool" /\ j > i /\ i \in Nat /\ j \in Nat
          /\ IsOwner(h, i) /\ j \in Results(h, i)
      BY <1>1, <2>2, UnitShape
    <3>2. h[j].id \in h[i].calls /\ NoID \notin h[i].calls
      BY <1>1, <3>1 DEF Results, Heads, Complete
    <3>3. j \in W
      BY <1>1, <3>1 DEF WithoutDangling, IsOwner
    <3>4. i \in {k \in W : k < j /\ h[k].role = "assistant"}
      BY <1>2, <3>1 DEF IsOwner
    <3> QED
      BY <3>2, <3>3, <3>4 DEF Kept, WithoutOrphans
  <2> QED
    BY <2>1, <2>2
<1> QED
  BY <1>3

(* What is kept outside the prefix belongs to a selected unit.             *)
LEMMA KeptInUnits ==
  ASSUME NEW h, NEW budget, NEW k \in Kept(h, budget) \ Prefix(h)
  PROVE  \E i \in Selected(h, budget) : k \in Unit(h, i)
BY DEF Kept, WithoutOrphans, WithoutDangling, Chosen

(* What Pack keeps are messages of the history. *)
LEMMA KeptIsOfHistory ==
  ASSUME NEW h, NEW budget
  PROVE  Kept(h, budget) \subseteq DOMAIN h
<1>1. Prefix(h) \subseteq DOMAIN h
  BY DEF Prefix
<1>2. \A i \in Heads(h) : Unit(h, i) \subseteq DOMAIN h
  BY DEF Heads, Unit, Results, Block
<1> QED
  BY <1>1, <1>2 DEF Kept, WithoutOrphans, WithoutDangling, Chosen, Selected

(* Every history that TLC or the agent builds is a sequence.               *)
LEMMA DomainOfHistory ==
  ASSUME NEW S, NEW h \in Seq(S)
  PROVE  DOMAIN h = 1..Len(h) /\ Len(h) \in Nat
OBVIOUS

-----------------------------------------------------------------------------
(* Rounds are sent whole or not at all, whatever was imported.             *)
THEOREM PackKeepsRoundsWhole ==
  ASSUME NEW S, NEW h \in Seq(S), NEW budget
  PROVE  RoundsWholeIn(h, budget)
<1> SUFFICES ASSUME NEW k \in Kept(h, budget) \ Prefix(h)
             PROVE  /\ IsOwner(h, k) => Complete(h, k) /\ Results(h, k) \subseteq Kept(h, budget)
                    /\ h[k].role = "tool" =>
                         \E o \in Kept(h, budget) \ Prefix(h) : IsOwner(h, o) /\ k \in Results(h, o)
  BY DEF RoundsWholeIn
<1>1. PICK i \in Selected(h, budget) : k \in Unit(h, i)
  BY KeptInUnits
<1>2. /\ i \in Heads(h) /\ i \in Unit(h, i)
      /\ Unit(h, i) \subseteq Kept(h, budget)
  BY DomainOfHistory, UnitsSurvive DEF Selected, Unit
<1>3. CASE k = i
  BY <1>2, <1>3 DEF Heads, Unit
<1>4. CASE k # i
  <2>1. h[k].role = "tool" /\ IsOwner(h, i) /\ k \in Results(h, i) /\ i \notin Prefix(h)
    BY <1>1, <1>2, <1>4, DomainOfHistory, UnitShape
  <2> QED
    BY <1>2, <2>1 DEF IsOwner
<1> QED
  BY <1>3, <1>4

(* The newest valid unit is always sent.                                   *)
THEOREM PackKeepsNewest ==
  ASSUME NEW S, NEW h \in Seq(S), NEW budget
  PROVE  NewestKeptIn(h, budget)
<1> SUFFICES ASSUME NEW i \in Heads(h), Newest(h, i) PROVE Unit(h, i) \subseteq Kept(h, budget)
  BY DEF NewestKeptIn
<1>1. ASSUME NEW j \in Heads(h), j >= i PROVE j = i
  BY <1>1, DomainOfHistory DEF Newest, Heads
<1>2. i \in Selected(h, budget)
  BY <1>1 DEF Selected
<1> QED
  BY <1>2, DomainOfHistory, UnitsSurvive

(* What is sent after the prefix is a suffix of the valid units.           *)
THEOREM PackLeavesNoGap ==
  ASSUME NEW S, NEW h \in Seq(S), NEW budget
  PROVE  NoGapIn(h, budget)
<1> SUFFICES ASSUME NEW i \in Heads(h), NEW j \in Heads(h), i < j, i \in Kept(h, budget)
             PROVE  j \in Kept(h, budget)
  BY DEF NoGapIn
<1>1. PICK k \in Selected(h, budget) : i \in Unit(h, k)
  BY KeptInUnits DEF Heads
<1>2. i = k
  BY <1>1, DomainOfHistory, UnitShape DEF Selected, Heads
<1>3. j \in Selected(h, budget)
  BY <1>1, <1>2, DomainOfHistory DEF Selected, Heads
<1> QED
  BY <1>3, DomainOfHistory, UnitsSurvive DEF Unit

(* For the agent's own histories the two clean-up passes change nothing,   *)
(* as the comment in Pack says.                                            *)
THEOREM PackPassesAreIdle ==
  ASSUME NEW S, NEW h \in Seq(S), NEW budget
  PROVE  PassesIdleIn(h, budget)
<1> SUFFICES ASSUME CleanPrefix(h) PROVE Kept(h, budget) = Chosen(h, budget)
  BY DEF PassesIdleIn
<1>1. Kept(h, budget) \subseteq Chosen(h, budget)
  BY DEF Kept, WithoutOrphans, WithoutDangling
<1>2. Prefix(h) \subseteq Kept(h, budget)
  BY DEF CleanPrefix, Kept, WithoutOrphans, WithoutDangling, Chosen
<1>3. \A i \in Selected(h, budget) : Unit(h, i) \subseteq Kept(h, budget)
  BY DomainOfHistory, UnitsSurvive
<1> QED
  BY <1>1, <1>2, <1>3 DEF Chosen

(* Nothing but leading messages is sent in the system role.                *)
THEOREM PackSystemLeads ==
  ASSUME NEW S, NEW h \in Seq(S), NEW budget
  PROVE  SystemLeadsIn(h, budget)
<1> SUFFICES ASSUME NEW i \in Kept(h, budget), NEW j \in Kept(h, budget),
                    i < j, RoleOf(h, j) = "system"
             PROVE  RoleOf(h, i) = "system"
  BY DEF SystemLeadsIn
<1>1. i \in 1..(j - 1) /\ j \in DOMAIN h
  BY KeptIsOfHistory, DomainOfHistory
<1>2. \A k \in 1..(j - 1) : h[k].role = "system"
  BY DEF RoleOf
<1>3. 1..(i - 1) \subseteq 1..(j - 1)
  BY <1>1, DomainOfHistory
<1> QED
  BY <1>1, <1>2, <1>3 DEF RoleOf

-----------------------------------------------------------------------------
(* The sum of the costs. Cost picks the messages of a set one by one; sum  *)
(* is the function of the subsets of S that it evaluates at S.             *)
Picked(s) == CHOOSE x \in s : TRUE
Sums(h, S, sum) ==
  sum = [s \in SUBSET S |-> IF s = {} THEN 0 ELSE h[Picked(s)].cost + sum[s \ {Picked(s)}]]

LEMMA CostDef ==
  ASSUME NEW h, NEW S
  PROVE  Cost(h, S) = (CHOOSE sum : Sums(h, S, sum))[S]
BY DEF Cost, MapThenSumSet, MapThenFoldSet, Sums, Picked
(* Removing the message picked leaves a smaller subset.                    *)
LEMMA PickedRemoved ==
  ASSUME NEW S, IsFiniteSet(S), NEW s \in SUBSET S
  PROVE  /\ IsFiniteSet(s) /\ Cardinality(s) \in Nat /\ Cardinality(s) <= Cardinality(S)
         /\ s = {} <=> Cardinality(s) = 0
         /\ s # {} => Picked(s) \in s
         /\ \A x \in s : s \ {x} \in SUBSET S /\ Cardinality(s \ {x}) = Cardinality(s) - 1
<1>1. IsFiniteSet(s) /\ Cardinality(s) <= Cardinality(S)
  BY FS_Subset
<1>2. Cardinality(s) \in Nat /\ (s = {} <=> Cardinality(s) = 0)
  BY <1>1, FS_CardinalityType, FS_EmptySet
<1>3. s # {} => Picked(s) \in s
  BY DEF Picked
<1>4. \A x \in s : Cardinality(s \ {x}) = Cardinality(s) - 1
  BY <1>1, FS_RemoveElement
<1> QED
  BY <1>1, <1>2, <1>3, <1>4

(* The function exists for a finite set: it is made for ever larger        *)
(* subsets.                                                                *)
LEMMA SumsExist ==
  ASSUME NEW h, NEW S, IsFiniteSet(S)
  PROVE  \E sum : Sums(h, S, sum)
<1> DEFINE rhs(g, s) == IF s = {} THEN 0 ELSE h[Picked(s)].cost + g[s \ {Picked(s)}]
           UpTo(g, n) == \A s \in SUBSET S : Cardinality(s) <= n => g[s] = rhs(g, s)
           Built == {n \in Nat : \E g : UpTo(g, n)}
<1>1. 0 \in Built
  <2> DEFINE g == [s \in SUBSET S |-> 0]
  <2>1. \A s \in SUBSET S : Cardinality(s) <= 0 => s = {}
    BY PickedRemoved
  <2>2. UpTo(g, 0)
    BY <2>1
  <2> QED
    BY <2>2
<1>2. ASSUME NEW n \in Nat, n \in Built PROVE n + 1 \in Built
  <2>1. PICK g : UpTo(g, n)
    BY <1>2
  <2> DEFINE next == [s \in SUBSET S |-> rhs(g, s)]
  <2>2. ASSUME NEW s \in SUBSET S, Cardinality(s) <= n + 1 PROVE next[s] = rhs(next, s)
    <3>1. CASE s = {}
      BY <3>1
    <3>2. CASE s # {}
      <4> DEFINE r == s \ {Picked(s)}
      <4>1. r \in SUBSET S /\ Cardinality(r) <= n
        BY <2>2, <3>2, PickedRemoved
      <4>2. next[r] = rhs(g, r) /\ g[r] = rhs(g, r)
        BY <2>1, <4>1
      <4> HIDE DEF next
      <4>3. next[r] = g[r]
        BY <4>2
      <4>4. next[s] = rhs(g, s)
        BY DEF next
      <4> QED
        BY <3>2, <4>3, <4>4
    <3> QED
      BY <3>1, <3>2
  <2>3. UpTo(next, n + 1)
    BY <2>2
  <2> HIDE DEF next, UpTo
  <2> QED
    BY <2>3
<1>3. Cardinality(S) \in Built
  <2> HIDE DEF Built
  <2>1. \A n \in Nat : n \in Built
    BY <1>1, <1>2, Induction
  <2> QED
    BY <2>1, FS_CardinalityType
<1>4. PICK g : UpTo(g, Cardinality(S))
  BY <1>3
<1> DEFINE sum == [s \in SUBSET S |-> g[s]]
<1>5. ASSUME NEW s \in SUBSET S PROVE sum[s] = rhs(sum, s)
  <2>1. g[s] = rhs(g, s)
    BY <1>4, PickedRemoved
  <2>2. s # {} => s \ {Picked(s)} \in SUBSET S
    BY PickedRemoved
  <2> QED
    BY <2>1, <2>2
<1>6. sum = [s \in SUBSET S |-> rhs(sum, s)]
  <2> DEFINE alike == [s \in SUBSET S |-> rhs(sum, s)]
  <2>1. \A s \in SUBSET S : sum[s] = alike[s]
    BY <1>5
  <2> QED
    BY <2>1
<1> QED
  BY <1>6 DEF Sums

(* Such functions agree where they are both defined. *)
LEMMA SumsAgree ==
  ASSUME NEW h, NEW S, IsFiniteSet(S), NEW T, IsFiniteSet(T),
         NEW f, Sums(h, S, f), NEW g, Sums(h, T, g)
  PROVE  \A s \in SUBSET S : s \in SUBSET T => f[s] = g[s]
<1> DEFINE Agreed == {n \in Nat : \A s \in SUBSET S :
                        s \in SUBSET T /\ Cardinality(s) = n => f[s] = g[s]}
<1>1. ASSUME NEW s \in SUBSET S, s \in SUBSET T
      PROVE  /\ s = {} => f[s] = g[s]
             /\ s # {} => /\ f[s] = h[Picked(s)].cost + f[s \ {Picked(s)}]
                          /\ g[s] = h[Picked(s)].cost + g[s \ {Picked(s)}]
  BY <1>1 DEF Sums
<1>2. 0 \in Agreed
  BY <1>1, PickedRemoved
<1>3. ASSUME NEW n \in Nat, n \in Agreed PROVE n + 1 \in Agreed
  <2> SUFFICES ASSUME NEW s \in SUBSET S, s \in SUBSET T, Cardinality(s) = n + 1
               PROVE  f[s] = g[s]
    OBVIOUS
  <2> DEFINE r == s \ {Picked(s)}
  <2>1. s # {} /\ r \in SUBSET S /\ r \in SUBSET T /\ Cardinality(r) = n
    BY PickedRemoved
  <2>2. f[r] = g[r]
    BY <1>3, <2>1
  <2> QED
    BY <1>1, <2>1, <2>2
<1>4. \A n \in Nat : n \in Agreed
  <2> HIDE DEF Agreed
  <2> QED
    BY <1>2, <1>3, Induction
<1> QED
  BY <1>4, PickedRemoved

(* The cost of a set is the cost of the message picked and of the rest.    *)
LEMMA CostOfPicked ==
  ASSUME NEW h, NEW S, IsFiniteSet(S)
  PROVE  /\ S = {} => Cost(h, S) = 0
         /\ S # {} => Cost(h, S) = h[Picked(S)].cost + Cost(h, S \ {Picked(S)})
<1> DEFINE T == S \ {Picked(S)}
           f == CHOOSE sum : Sums(h, S, sum)
           g == CHOOSE sum : Sums(h, T, sum)
<1>1. IsFiniteSet(T)
  BY FS_RemoveElement
<1>2. Sums(h, S, f) /\ Sums(h, T, g)
  BY <1>1, SumsExist
<1>3. Cost(h, S) = f[S] /\ Cost(h, T) = g[T]
  BY CostDef
<1> HIDE DEF f, g
<1>4. f[T] = g[T]
  BY <1>1, <1>2, SumsAgree
<1>5. f[S] = IF S = {} THEN 0 ELSE h[Picked(S)].cost + f[T]
  BY <1>2 DEF Sums
<1> QED
  BY <1>3, <1>4, <1>5

(* A finite set of messages costs a number of tokens. D are the messages   *)
(* of the history.                                                         *)
LEMMA CostType ==
  ASSUME NEW h, NEW D, \A i \in D : h[i].cost \in Nat
  PROVE  \A S \in SUBSET D : IsFiniteSet(S) => Cost(h, S) \in Nat
<1> DEFINE Typed == {S \in SUBSET D : Cost(h, S) \in Nat}
<1>1. ASSUME NEW S \in SUBSET D, IsFiniteSet(S), \A x \in S : S \ {x} \in Typed
      PROVE  S \in Typed
  <2>1. CASE S = {}
    <3>1. Cost(h, S) = 0
      BY <1>1, <2>1, CostOfPicked
    <3> QED
      BY <3>1
  <2>2. CASE S # {}
    <3>1. Picked(S) \in S
      BY <2>2 DEF Picked
    <3>2. Cost(h, S \ {Picked(S)}) \in Nat /\ h[Picked(S)].cost \in Nat
      BY <1>1, <3>1
    <3>3. Cost(h, S) = h[Picked(S)].cost + Cost(h, S \ {Picked(S)})
      BY <1>1, <2>2, CostOfPicked
    <3> QED
      BY <3>2, <3>3
  <2> QED
    BY <2>1, <2>2
<1> HIDE DEF Typed
<1>2. \A S \in SUBSET D : IsFiniteSet(S) => S \in Typed
  BY <1>1, SubsetInduction
<1> QED
  BY <1>2 DEF Typed

(* Any message of a set can be taken out of the sum, not only the picked.  *)
SumsUp(h, S) == \A x \in S : Cost(h, S) = h[x].cost + Cost(h, S \ {x})

(* The sum does not depend on the order. *)
LEMMA CostOfAny ==
  ASSUME NEW h, NEW D, \A i \in D : h[i].cost \in Nat
  PROVE  \A S \in SUBSET D : IsFiniteSet(S) => SumsUp(h, S)
<1> DEFINE Fine == {S \in SUBSET D : SumsUp(h, S)}
<1>1. ASSUME NEW S \in SUBSET D, IsFiniteSet(S), \A x \in S : S \ {x} \in Fine
      PROVE  S \in Fine
  <2> SUFFICES ASSUME NEW x \in S
               PROVE  Cost(h, S) = h[x].cost + Cost(h, S \ {x})
    BY DEF SumsUp
  <2> DEFINE p == Picked(S)
             rest == (S \ {p}) \ {x}
  <2>1. p \in S /\ Cost(h, S) = h[p].cost + Cost(h, S \ {p})
    BY <1>1, CostOfPicked DEF Picked
  <2> HIDE DEF p
  <2>2. CASE x = p
    BY <2>1, <2>2
  <2>3. CASE x # p
    <3>1. Cost(h, S \ {p}) = h[x].cost + Cost(h, rest)
      <4>1. S \ {p} \in Fine /\ x \in S \ {p}
        BY <1>1, <2>1, <2>3
      <4> QED
        BY <4>1 DEF SumsUp
    <3>2. Cost(h, S \ {x}) = h[p].cost + Cost(h, rest)
      <4>1. S \ {x} \in Fine /\ p \in S \ {x} /\ (S \ {x}) \ {p} = rest
        BY <1>1, <2>1, <2>3
      <4> QED
        BY <4>1 DEF SumsUp
    <3>3. Cost(h, rest) \in Nat
      <4>1. IsFiniteSet(rest) /\ rest \in SUBSET D
        BY <1>1, FS_Subset
      <4> QED
        BY <4>1, CostType
    <3>4. h[x].cost \in Nat /\ h[p].cost \in Nat
      BY <2>1
    <3> HIDE DEF rest
    <3> QED
      BY <2>1, <3>1, <3>2, <3>3, <3>4
  <2> QED
    BY <2>2, <2>3
<1> HIDE DEF Fine
<1>2. \A S \in SUBSET D : IsFiniteSet(S) => S \in Fine
  BY <1>1, SubsetInduction
<1> QED
  BY <1>2 DEF Fine

(* A subset does not cost more. *)
LEMMA CostMonotone ==
  ASSUME NEW h, NEW D, \A i \in D : h[i].cost \in Nat
  PROVE  \A T \in SUBSET D : IsFiniteSet(T) => \A S \in SUBSET T : Cost(h, S) <= Cost(h, T)
<1>0. \A S \in SUBSET D : IsFiniteSet(S) => SumsUp(h, S)
  BY CostOfAny
<1> DEFINE Fine == {T \in SUBSET D : \A S \in SUBSET T : Cost(h, S) <= Cost(h, T)}
<1>1. ASSUME NEW T \in SUBSET D, IsFiniteSet(T), \A x \in T : T \ {x} \in Fine
      PROVE  T \in Fine
  <2> SUFFICES ASSUME NEW S \in SUBSET T PROVE Cost(h, S) <= Cost(h, T)
    OBVIOUS
  <2>1. IsFiniteSet(S) /\ S \in SUBSET D
    BY <1>1, FS_Subset
  <2>2. Cost(h, S) \in Nat
    BY <2>1, CostType
  <2>3. CASE S = T
    BY <2>2, <2>3
  <2>4. CASE S # T
    <3>1. PICK x \in T : x \notin S
      BY <2>4
    <3> DEFINE U == T \ {x}
    <3>2. Cost(h, S) <= Cost(h, U)
      <4>1. U \in Fine /\ S \in SUBSET U
        BY <1>1, <3>1
      <4> QED
        BY <4>1
    <3>3. IsFiniteSet(U) /\ U \in SUBSET D
      BY <1>1, FS_Subset
    <3>4. Cost(h, U) \in Nat
      <4>1. \A V \in SUBSET D : IsFiniteSet(V) => Cost(h, V) \in Nat
        BY CostType
      <4> HIDE DEF U
      <4> QED
        BY <3>3, <4>1
    <3>5. Cost(h, T) = h[x].cost + Cost(h, U)
      <4>1. IsFiniteSet(T) /\ T \in SUBSET D /\ x \in T
        BY <1>1
      <4> HIDE DEF U
      <4>2. Cost(h, T) = h[x].cost + Cost(h, T \ {x})
        BY <1>0, <4>1 DEF SumsUp
      <4> QED
        BY <4>2 DEF U
    <3>6. h[x].cost \in Nat
      BY <3>1
    <3> HIDE DEF U
    <3> QED
      BY <2>2, <3>2, <3>4, <3>5, <3>6
  <2> QED
    BY <2>3, <2>4
<1> HIDE DEF Fine
<1>2. \A T \in SUBSET D : IsFiniteSet(T) => T \in Fine
  BY <1>1, SubsetInduction
<1> QED
  BY <1>2 DEF Fine

(* A request larger than the budget is the prefix and the newest unit.     *)
THEOREM PackWithinBudget ==
  ASSUME NEW S, \A m \in S : m.cost \in Nat, NEW h \in Seq(S), NEW budget \in Int
  PROVE  WithinBudgetIn(h, budget)
<1>1. Heads(h) \subseteq Nat /\ Kept(h, budget) \subseteq Chosen(h, budget)
  BY DomainOfHistory DEF Heads, Kept, WithoutOrphans, WithoutDangling
<1>0. /\ IsFiniteSet(Chosen(h, budget)) /\ Chosen(h, budget) \subseteq DOMAIN h
      /\ Cost(h, Kept(h, budget)) <= Cost(h, Chosen(h, budget))
      /\ Cost(h, Kept(h, budget)) \in Int /\ Cost(h, Chosen(h, budget)) \in Int
  <2>1. \A i \in DOMAIN h : h[i].cost \in Nat
    OBVIOUS
  <2>2. DOMAIN h = 1..Len(h) /\ Len(h) \in Nat /\ IsFiniteSet(DOMAIN h)
    BY FS_Interval
  <2>3. Chosen(h, budget) \subseteq DOMAIN h
    <3>1. Prefix(h) \subseteq DOMAIN h
      BY DEF Prefix
    <3>2. \A i \in Selected(h, budget) : Unit(h, i) \subseteq DOMAIN h
      BY DEF Selected, Heads, Unit, Results, Block
    <3> QED
      BY <3>1, <3>2 DEF Chosen
  <2>4. IsFiniteSet(Chosen(h, budget)) /\ IsFiniteSet(Kept(h, budget))
    BY <1>1, <2>2, <2>3, FS_Subset
  <2>5. Cost(h, Kept(h, budget)) <= Cost(h, Chosen(h, budget))
    BY <1>1, <2>1, <2>3, <2>4, CostMonotone
  <2>6. Cost(h, Kept(h, budget)) \in Nat /\ Cost(h, Chosen(h, budget)) \in Nat
    BY <1>1, <2>1, <2>3, <2>4, CostType
  <2> QED
    BY <2>3, <2>4, <2>5, <2>6
<1>2. CASE Selected(h, budget) # {}
  <2>1. PICK m \in Selected(h, budget) : \A k \in Selected(h, budget) : m <= k
    BY <1>1, <1>2, LeastElement DEF Selected
  <2>2. Selected(h, budget) = {k \in Heads(h) : k >= m}
    BY <1>1, <2>1 DEF Selected
  <2>3. Chosen(h, budget) = Prefix(h) \cup UnitsFrom(h, m)
    BY <2>2 DEF Chosen, UnitsFrom
  <2>4. CASE Newest(h, m)
    <3>1. Selected(h, budget) = {m}
      BY <1>1, <2>1, <2>2, <2>4 DEF Newest
    <3> QED
      BY <1>1, <2>4, <3>1 DEF Chosen, WithinBudgetIn, Selected
  <2>5. CASE ~Newest(h, m)
    <3>1. Cost(h, Prefix(h) \cup UnitsFrom(h, m)) <= budget
      BY <1>1, <2>1, <2>5 DEF Selected
    <3>2. Cost(h, Kept(h, budget)) <= budget
      BY <1>0, <2>3, <3>1
    <3> QED
      BY <3>2 DEF WithinBudgetIn
  <2> QED
    BY <2>4, <2>5
<1>3. CASE Selected(h, budget) = {}
  <2> DEFINE Behind == {Len(h) - i : i \in Heads(h)}
  <2>1. CASE Heads(h) # {}
    <3>1. Behind \subseteq Nat /\ Behind # {}
      BY <2>1, DomainOfHistory DEF Heads
    <3>2. PICK d \in Behind : \A e \in Behind : d <= e
      BY <3>1, LeastElement
    <3>3. PICK i \in Heads(h) : d = Len(h) - i
      OBVIOUS
    <3>4. ASSUME NEW j \in Heads(h) PROVE j <= i
      <4>1. Len(h) - i <= Len(h) - j
        BY <3>2, <3>3
      <4>2. Len(h) \in Nat /\ i \in Nat /\ j \in Nat
        BY <1>1, DomainOfHistory
      <4> QED
        BY <4>1, <4>2
    <3>5. Newest(h, i)
      BY <3>4 DEF Newest
    <3> QED
      BY <1>1, <1>3, <3>5 DEF Selected, Newest
  <2> QED
    BY <2>1 DEF WithinBudgetIn
<1> QED
  BY <1>2, <1>3

-----------------------------------------------------------------------------
(* Every history of the specification, packed with every budget of it.     *)
LEMMA HistoryType == Spec => [](history \in Seq(Messages))
<1>1. Init => history \in Seq(Messages)
  BY DEF Init
<1>2. history \in Seq(Messages) /\ [Next]_history => (history \in Seq(Messages))'
  BY DEF Next, Append1
<1> QED
  BY <1>1, <1>2, PTL DEF Spec

(* However a conversation grows, every request Pack makes of it sends      *)
(* whole rounds, the newest valid unit and no gap.                         *)
THEOREM RequestsCorrect ==
  Spec => [](RoundsWhole /\ TailKept /\ SystemLeads /\ PassesIdle)
<1>1. history \in Seq(Messages) => RoundsWhole /\ TailKept /\ SystemLeads /\ PassesIdle
  BY PackKeepsRoundsWhole, PackKeepsNewest, PackLeavesNoGap, PackSystemLeads,
     PackPassesAreIdle
     DEF RoundsWhole, TailKept, SystemLeads, PassesIdle
<1> QED
  BY <1>1, HistoryType, PTL

(* Whatever is said and whatever the budgets are, a request of the         *)
(* conversation is over its budget only when all it has is the prefix and  *)
(* the newest unit.                                                        *)
THEOREM RequestsFit == Spec => []WithinBudget
<1>1. history \in Seq(Messages) => WithinBudget
  BY PackWithinBudget, PackedHistoryAssumption DEF WithinBudget
<1> QED
  BY <1>1, HistoryType, PTL

(* Of the units behind the prefix every request sends the newest and all   *)
(* that lie between two that are sent.                                     *)
THEOREM TailIsKept == Spec => []TailKept
BY RequestsCorrect, PTL

(* No request of a growing conversation has the system role behind others. *)
THEOREM SystemAlwaysLeads == Spec => []SystemLeads
BY RequestsCorrect, PTL

(* The clean-up passes of Pack never change a request of the agent.        *)
THEOREM PassesStayIdle == Spec => []PassesIdle
BY RequestsCorrect, PTL

(* Appending to a history leaves the stable prefix what it was: the same   *)
(* messages in the same roles, all of them in every later request.         *)
LEMMA PrefixPinnedStep ==
  ASSUME history \in Seq(Messages), NEW m \in Messages, Append1(m),
         Users(history) # {}, CleanPrefix(history)
  PROVE  /\ Prefix(history') = Prefix(history)
         /\ \A i \in Prefix(history) : RoleOf(history', i) = RoleOf(history, i)
         /\ \A b \in Budgets : Prefix(history') \subseteq Kept(history', b)
<1> DEFINE n == Len(history) + 1
<1>1. /\ history' \in Seq(Messages)
      /\ DOMAIN history = 1..Len(history) /\ DOMAIN history' = DOMAIN history \cup {n}
      /\ \A i \in DOMAIN history : history'[i] = history[i] /\ i < n
  BY DEF Append1
<1>2. Users(history) \subseteq Users(history') /\ Users(history') \subseteq Users(history) \cup {n}
  BY <1>1 DEF Users
<1>3. Users(history) \subseteq DOMAIN history
  BY DEF Users
<1>4. Prefix(history') = Prefix(history)
  <2> PICK u \in Users(history) : TRUE
    OBVIOUS
  <2>1. /\ Prefix(history) = {i \in DOMAIN history : \A v \in Users(history) : i <= v}
        /\ Prefix(history') = {i \in DOMAIN history' : \A v \in Users(history') : i <= v}
    BY <1>2 DEF Prefix
  <2>2. u < n /\ u \in Users(history') /\ \A i \in DOMAIN history : i <= n
    BY <1>1, <1>2, <1>3
  <2>3. n \notin Prefix(history')
    <3>1. u \in Nat /\ n \in Nat /\ ~ (n <= u)
      BY <1>1, <1>3, <2>2
    <3> QED
      BY <2>1, <2>2, <3>1
  <2>4. Prefix(history') \subseteq Prefix(history)
    BY <1>1, <1>2, <2>1, <2>3
  <2>5. Prefix(history) \subseteq Prefix(history')
    BY <1>1, <1>2, <2>1, <2>2
  <2> QED
    BY <2>4, <2>5
<1>5. \A i \in Prefix(history) : i \in DOMAIN history /\ 1..(i - 1) \subseteq DOMAIN history
  BY <1>1 DEF Prefix
<1>6. \A i \in Prefix(history) : RoleOf(history', i) = RoleOf(history, i)
  BY <1>1, <1>5 DEF RoleOf
<1>7. CleanPrefix(history')
  BY <1>1, <1>4, <1>5 DEF CleanPrefix, IsOwner
<1>8. \A b \in Budgets : Prefix(history') \subseteq Kept(history', b)
  BY <1>1, <1>7, PackPassesAreIdle DEF PassesIdleIn, Chosen
<1> QED
  BY <1>4, <1>6, <1>8

(* The part of the request the provider caches stays byte for byte the     *)
(* same while the agent's history grows.                                   *)
THEOREM PrefixIsPinned == Spec => PrefixPinned
<1>1. history \in Seq(Messages) /\ [Next]_history =>
        [Users(history) # {} /\ CleanPrefix(history) =>
           /\ Prefix(history') = Prefix(history)
           /\ \A i \in Prefix(history) : RoleOf(history', i) = RoleOf(history, i)
           /\ \A b \in Budgets : Prefix(history') \subseteq Kept(history', b)]_history
  BY PrefixPinnedStep DEF Next
<1> QED
  BY <1>1, HistoryType, PTL DEF Spec, PrefixPinned

-----------------------------------------------------------------------------
(* The reservations fit: a window that leaves any history budget at all    *)
(* has room for the history, the fixed parts and the response together.    *)
THEOREM BudgetFitsWindow ==
  ASSUME NEW c \in Nat
  PROVE  /\ Budget(c) \in Nat
         /\ Budget(c) > 0 => Budget(c) + FixedSystem + FixedTools + ResponseReserve(c) <= c
BY DEF Budget, FixedSystem, FixedTools, ResponseReserve, BudgetHeadroomDivisor

(* A larger window never leaves a smaller budget, so adopting a larger     *)
(* window from the broker never evicts history.                            *)
THEOREM BudgetMonotone ==
  ASSUME NEW c \in Nat, NEW d \in Nat, c <= d
  PROVE  Budget(c) <= Budget(d)
<1> DEFINE rest(x) == x - FixedSystem - FixedTools - ResponseReserve(x)
<1>1. rest(c) \in Int /\ rest(d) \in Int /\ rest(c) <= rest(d)
  BY DEF FixedSystem, FixedTools, ResponseReserve
<1>2. \A x, y \in Nat : x <= y => x - x \div 10 <= y - y \div 10
  OBVIOUS
<1> QED
  BY <1>1, <1>2 DEF Budget, BudgetHeadroomDivisor
=============================================================================
