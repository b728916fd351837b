--------------------------- MODULE FileEditProofs ---------------------------
(* FileEdit implements its contract, and its hint about white space is     *)
(* right, whatever the texts and the appends.                              *)
EXTENDS FileEdit, SequenceTheorems, NatSets, TLAPS

(* A suffix of a text grows with it. *)
LEMMA SuffixGrows ==
  ASSUME NEW s \in Text, NEW a \in Text, NEW t \in Suffixes(s)
  PROVE  t \in Text /\ t \o a \in Suffixes(s \o a)
<1>1. CASE t = <<>>
  <2>1. t \o a = a /\ t \in Text
    BY <1>1 DEF Text
  <2>2. CASE a = <<>>
    BY <2>1, <2>2 DEF Suffixes
  <2>3. CASE a # <<>>
    <3>1. Len(s) + 1 \in 1..Len(s \o a)
      BY <2>3 DEF Text
    <3>2. a = SubSeq(s \o a, Len(s) + 1, Len(s \o a))
      BY DEF Text
    <3>3. QED
      BY <2>1, <3>1, <3>2 DEF Suffixes
  <2>4. QED
    BY <2>2, <2>3, <2>1
<1>2. ASSUME NEW k \in 1..Len(s), t = SubSeq(s, k, Len(s))
      PROVE  t \in Text /\ t \o a \in Suffixes(s \o a)
  <2>1. k \in 1..Len(s \o a) /\ t \in Text
    BY <1>2 DEF Text
  <2>2. t \o a = SubSeq(s \o a, k, Len(s \o a))
    BY <1>2 DEF Text
  <2>3. QED
    BY <2>1, <2>2 DEF Suffixes
<1>3. QED
  BY <1>1, <1>2 DEF Suffixes

(* The rest of a suffix is a suffix. *)
LEMMA SuffixOfSuffix ==
  ASSUME NEW s \in Text, NEW t \in Suffixes(s), NEW n \in Nat
  PROVE  SubSeq(t, n + 1, Len(t)) \in Suffixes(s)
<1>1. CASE t = <<>>
  BY <1>1 DEF Suffixes
<1>2. ASSUME NEW k \in 1..Len(s), t = SubSeq(s, k, Len(s))
      PROVE  SubSeq(t, n + 1, Len(t)) \in Suffixes(s)
  <2>1. CASE n >= Len(t)
    <3>1. SubSeq(t, n + 1, Len(t)) = <<>>
      BY <1>2, <2>1 DEF Text
    <3>2. QED
      BY <3>1 DEF Suffixes
  <2>2. CASE n < Len(t)
    <3>1. k + n \in 1..Len(s)
      BY <1>2, <2>2 DEF Text
    <3>2. SubSeq(t, n + 1, Len(t)) = SubSeq(s, k + n, Len(s))
      BY <1>2, <2>2 DEF Text
    <3>3. QED
      BY <3>1, <3>2 DEF Suffixes
  <2>3. QED
    BY <1>2, <2>1, <2>2 DEF Text
<1>3. QED
  BY <1>1, <1>2 DEF Suffixes

(* Replacing a place of a text by a text gives a text. *)
LEMMA SpliceType ==
  ASSUME NEW s \in Text, NEW old \in Text, NEW new \in Text, NEW p \in Occurrences(s, old)
  PROVE  Contract!Splice(s, p, old, new) \in Text
<1>1. p \in 1..(Len(s) - Len(old) + 1)
  BY DEF Occurrences, Contract!Occurrences
<1>2. QED
  BY <1>1 DEF Contract!Splice, Text

(* Places are counted from 1. *)
LEMMA OccurrencesType ==
  ASSUME NEW s \in Text, NEW old \in Text
  PROVE  Occurrences(s, old) \subseteq Nat /\ Len(old) \in Nat
BY DEF Occurrences, Contract!Occurrences, Text

(* Min picks one of the places. *)
LEMMA FirstOccurrence ==
  ASSUME NEW s \in Text, NEW old \in Text, Occurrences(s, old) # {}
  PROVE  /\ Min(Occurrences(s, old)) \in Occurrences(s, old)
         /\ \A p \in Occurrences(s, old) : Min(Occurrences(s, old)) <= p
BY OccurrencesType, MinExists

-----------------------------------------------------------------------------
TypeOK ==
  /\ file \in Text \cup {NoFile} /\ hidden \in Text \cup {NoFile} /\ seen \in Text \cup {NoFile}
  /\ call \in Call /\ update \in Text /\ since \in Text
  /\ pc \in {"called", "read", "ready", "writing", "returned"}
  /\ result = "none" <=> pc # "returned"

(* What is about to be written is made of what was read, and what is in    *)
(* the truncated file is the end of what others appended.                  *)
Underway ==
  /\ pc = "read" => call.tool = "edit_file" /\ seen # NoFile
  /\ pc \in {"ready", "writing"} => update \in Contract!Effects
  /\ pc = "writing" => file \in Text /\ file \in Suffixes(since)

(* An edit was only made of a file read, and only where Count found one    *)
(* place.                                                                  *)
Judged ==
  /\ call.tool = "edit_file" /\ (pc \in {"ready", "writing"} \/ result = "done") =>
       seen # NoFile /\ Count(seen, call.old) = 1
  /\ result = "ambiguous" => seen # NoFile /\ Count(seen, call.old) > 1

IInv == TypeOK /\ Underway /\ Judged

(* IInv holds at first. *)
LEMMA IInvInit == Init => IInv
BY FileEditAssumption DEF Init, IInv, TypeOK, Underway, Judged, Text

(* Appending keeps the types. *)
LEMMA AppendedType ==
  ASSUME NEW s \in Text \cup {NoFile}, NEW a \in Text
  PROVE  Contract!Appended(s, a) \in Text
BY DEF Contract!Appended, Text

(* What others append while a call is under way keeps IInv. *)
LEMMA OthersAppendStep ==
  ASSUME IInv, NEW a \in Pieces, OthersAppend(a)
  PROVE  IInv'
<1>1. a \in Text
  BY FileEditAssumption
<1>2. TypeOK'
  <2>1. file' \in Text /\ hidden' \in Text
    BY <1>1, AppendedType DEF OthersAppend, IInv, TypeOK
  <2>2. since' \in Text
    BY <1>1 DEF OthersAppend, IInv, TypeOK, Text
  <2>3. QED
    BY <2>1, <2>2 DEF OthersAppend, IInv, TypeOK
<1>3. pc = "writing" => file' \in Text /\ file' \in Suffixes(since')
  <2>1. SUFFICES ASSUME pc = "writing" PROVE file' \in Text /\ file' \in Suffixes(since')
    OBVIOUS
  <2>2. file' = file \o a /\ since' = since \o a
    BY <2>1, FileEditAssumption DEF OthersAppend, IInv, Underway, Contract!Appended
  <2>3. QED
    BY <2>1, <2>2, <1>1, <1>2, SuffixGrows DEF IInv, TypeOK, Underway, Text
<1>4. QED
  BY <1>2, <1>3 DEF OthersAppend, IInv, Underway, Judged, Contract!Effects

(* Every step keeps IInv. *)
LEMMA IInvStep == IInv /\ [Next]_vars => IInv'
<1> SUFFICES ASSUME IInv, [Next]_vars PROVE IInv'
  OBVIOUS
<1>1. ASSUME NEW a \in Pieces, OthersAppend(a) PROVE IInv'
  BY <1>1, OthersAppendStep
<1>2. CASE RefuseArguments
  BY <1>2 DEF RefuseArguments, Editing, Return, history, IInv, TypeOK, Underway, Judged
<1>3. CASE ReadFails
  BY <1>3 DEF ReadFails, Editing, Return, history, IInv, TypeOK, Underway, Judged
<1>4. CASE Read
  BY <1>4 DEF Read, Editing, IInv, TypeOK, Underway, Judged, Text
<1>5. CASE NotFound
  <2>1. result' \in {"white space", "not found"}
    BY <1>5 DEF NotFound, Return
  <2>2. QED
    BY <1>5, <2>1 DEF NotFound, Return, history, IInv, TypeOK, Underway, Judged
<1>6. CASE Ambiguous
  BY <1>6 DEF Ambiguous, Return, history, IInv, TypeOK, Underway, Judged
<1>7. CASE Replace
  <2>1. seen \in Text /\ call.old \in Text /\ call.new \in Text /\ call.tool = "edit_file"
    BY <1>7 DEF Replace, IInv, TypeOK, Underway, Call
  <2>2. Occurrences(seen, call.old) # {}
    BY <1>7 DEF Replace, Count
  <2>3. Min(Occurrences(seen, call.old)) \in Occurrences(seen, call.old)
    BY <2>1, <2>2, FirstOccurrence
  <2>4. update' \in Text
    BY <1>7, <2>1, <2>3, SpliceType DEF Replace
  <2>5. update' \in Contract!Effects'
    BY <1>7, <2>1, <2>3 DEF Replace, history, Contract!Effects, IInv, Underway, Occurrences
  <2>6. QED
    BY <1>7, <2>1, <2>4, <2>5 DEF Replace, history, IInv, TypeOK, Underway, Judged
<1>8. CASE Prepare
  <2>1. call.new \in Text
    BY DEF IInv, TypeOK, Call
  <2>2. QED
    BY <1>8, <2>1 DEF Prepare, Return, history, IInv, TypeOK, Underway, Judged, Contract!Effects
<1>9. CASE OpenFails
  BY <1>9 DEF OpenFails, Return, history, IInv, TypeOK, Underway, Judged
<1>10. CASE Truncate
  <2>1. file' \in Text /\ file' \in Suffixes(since')
    BY <1>10 DEF Truncate, Suffixes, Text
  <2>2. QED
    BY <1>10, <2>1 DEF Truncate, IInv, TypeOK, Underway, Judged, Contract!Effects
<1>11. CASE Write
  <2>1. file' \in Text
    <3>1. ASSUME NEW u \in Text PROVE Over(u, file) \in Text
      BY <1>11 DEF Write, Over, IInv, Underway, Text
    <3>2. ASSUME NEW n \in 0..Len(update) PROVE SubSeq(update, 1, n) \in Text
      BY DEF IInv, TypeOK, Text
    <3>3. QED
      BY <1>11, <3>1, <3>2 DEF Write, IInv, TypeOK
  <2>2. QED
    BY <1>11, <2>1 DEF Write, Return, history, IInv, TypeOK, Underway, Judged
<1>12. CASE UNCHANGED vars
  BY <1>12 DEF vars, history, IInv, TypeOK, Underway, Judged, Contract!Effects
<1>13. QED
  BY <1>1, <1>2, <1>3, <1>4, <1>5, <1>6, <1>7, <1>8, <1>9, <1>10, <1>11, <1>12
     DEF Next, Returned

-----------------------------------------------------------------------------
(* Whatever the file and the old text, an edit is only made where no two   *)
(* separate places match, and is refused as ambiguous only if two do.      *)
THEOREM EditsUnambiguous == Spec => []AmbiguityFound
<1>1. IInv => AmbiguityFound
  <2> SUFFICES ASSUME IInv, call.tool = "edit_file", result \in {"done", "ambiguous"}
               PROVE  LET at == Occurrences(seen, call.old) IN
                      /\ result = "done" => at # {} /\ \A p, q \in at : Overlap(p, q)
                      /\ result = "ambiguous" => \E p, q \in at : ~Overlap(p, q)
    BY DEF AmbiguityFound
  <2> DEFINE at == Occurrences(seen, call.old)
             first == Min(at)
  <2>1. seen \in Text /\ call.old \in Text
    BY DEF IInv, TypeOK, Judged, Call
  <2>2. at # {}
    BY DEF IInv, Judged, Count
  <2>3. first \in at /\ \A p \in at : first <= p
    BY <2>1, <2>2, FirstOccurrence
  <2>4. at \subseteq Nat /\ Len(call.old) \in Nat
    BY <2>1, OccurrencesType
  <2>5. CASE result = "done"
    <3>1. \A p \in at : ~(p >= first + Len(call.old))
      BY <2>2, <2>5 DEF IInv, Judged, Count
    <3>2. QED
      BY <2>2, <2>3, <2>4, <2>5, <3>1 DEF Overlap
  <2>6. CASE result = "ambiguous"
    <3>1. \E p \in at : p >= first + Len(call.old)
      BY <2>2, <2>6 DEF IInv, Judged, Count
    <3>2. QED
      BY <2>3, <2>4, <2>6, <3>1 DEF Overlap
  <2>7. QED
    BY <2>5, <2>6
<1>2. QED
  BY <1>1, IInvInit, IInvStep, PTL DEF Spec

-----------------------------------------------------------------------------
(* The end of a write that was not cut is an effect of the contract.       *)
LEMMA WriteStep ==
  ASSUME IInv, Write
  PROVE  Contract!Perform \/ Contract!Fail
<1>1. /\ update \in Contract!Effects /\ update \in Text /\ since \in Text
      /\ file \in Suffixes(since) /\ pc = "writing" /\ pc' = "returned" /\ Answer = "none"
  BY DEF Write, Return, IInv, TypeOK, Underway, Answer
<1>2. ASSUME NEW n \in Nat PROVE SubSeq(file, n + 1, Len(file)) \in Contract!Suffixes(since)
  <2>1. Contract!Suffixes(since) = Suffixes(since)
    BY DEF Contract!Suffixes, Suffixes
  <2>2. QED
    BY <1>1, <2>1, SuffixOfSuffix
<1>3. CASE file' = Over(update, file) /\ Return("done")
  <2>1. Len(update) \in Nat
    BY <1>1 DEF Text
  <2>2. \E t \in Contract!Suffixes(since) : file' = update \o t
    BY <1>2, <1>3, <2>1 DEF Over
  <2>3. Answer' = "done"
    BY <1>3 DEF Return, Answer
  <2>4. \E new \in Contract!Effects, t \in Contract!Suffixes(since) : file' = new \o t
    BY <1>1, <2>2
  <2>5. UNCHANGED <<call, seen, since>>
    BY DEF Write, history
  <2>6. QED
    BY <1>1, <2>3, <2>4, <2>5 DEF Contract!Perform
<1>4. ASSUME NEW n \in 0..Len(update), file' = Over(SubSeq(update, 1, n), file), Return("failed")
      PROVE  Contract!Fail
  <2>1. Len(SubSeq(update, 1, n)) \in Nat
    BY <1>1 DEF Text
  <2>2. \E t \in Contract!Suffixes(since) : file' = SubSeq(update, 1, n) \o t
    BY <1>2, <1>4, <2>1 DEF Over
  <2>3. Answer' = "failed"
    BY <1>4 DEF Return, Answer
  <2>4. \E new \in Contract!Effects, t \in Contract!Suffixes(since) :
          \E k \in 0..Len(new) : file' = SubSeq(new, 1, k) \o t
    BY <1>1, <2>2
  <2>5. UNCHANGED <<call, seen, since>>
    BY DEF Write, history
  <2>6. QED
    BY <1>1, <2>3, <2>4, <2>5 DEF Contract!Fail
<1>5. QED
  BY <1>3, <1>4 DEF Write

(* Every step of a call is a step of the contract or changes nothing of it.*)
LEMMA StepRefines == IInv /\ [Next]_vars => [Contract!Next]_(Contract!vars)
<1> SUFFICES ASSUME IInv, [Next]_vars PROVE [Contract!Next]_(Contract!vars)
  OBVIOUS
<1> USE DEF Contract!vars
<1>1. ASSUME NEW a \in Pieces, OthersAppend(a) PROVE Contract!OthersAppend
  BY <1>1 DEF OthersAppend, Contract!OthersAppend, Answer
<1>2. CASE RefuseArguments
  BY <1>2 DEF RefuseArguments, Editing, Return, history, Contract!Refuse, Contract!Next, Answer,
              IInv, TypeOK
<1>3. CASE ReadFails
  BY <1>3 DEF ReadFails, Editing, Return, history, Contract!Refuse, Contract!Next, Answer,
              IInv, TypeOK
<1>4. CASE Read
  BY <1>4 DEF Read, Editing, Contract!Look, Contract!Next, Answer, IInv, TypeOK
<1>5. CASE NotFound
  <2>1. result' \in {"white space", "not found"}
    BY <1>5 DEF NotFound, Return
  <2>2. QED
    BY <1>5, <2>1 DEF NotFound, Return, history, Contract!Refuse, Contract!Next, Answer, IInv, TypeOK
<1>6. CASE Ambiguous
  BY <1>6 DEF Ambiguous, Return, history, Contract!Refuse, Contract!Next, Answer, IInv, TypeOK
<1>7. CASE Replace
  BY <1>7 DEF Replace, history, Answer
<1>8. CASE Prepare
  BY <1>8 DEF Prepare, Return, history, Contract!Refuse, Contract!Next, Answer, IInv, TypeOK
<1>9. CASE OpenFails
  BY <1>9 DEF OpenFails, Return, history, Contract!Fail, Contract!Next, Answer, IInv, TypeOK
<1>10. CASE Truncate
  BY <1>10 DEF Truncate, Answer
<1>11. CASE Write
  BY <1>11, WriteStep DEF Contract!Next
<1>12. CASE UNCHANGED vars
  BY <1>12 DEF vars, history, Answer
<1>13. QED
  BY <1>1, <1>2, <1>3, <1>4, <1>5, <1>6, <1>7, <1>8, <1>9, <1>10, <1>11, <1>12
     DEF Next, Returned, Contract!Next

(* A call replaces the file it looked at in one step, but for what others  *)
(* appended since and for writes that fail.                                *)
THEOREM Implements == Spec => ImplementsContract
<1>1. Init => Contract!Init
  BY DEF Init, Contract!Init, Answer
<1>2. QED
  BY <1>1, IInvInit, IInvStep, StepRefines, PTL DEF Spec, ImplementsContract, Contract!Spec

-----------------------------------------------------------------------------
(* Where the hint is given: Norm, taken apart into what it does with one   *)
(* byte after another.                                                     *)
Gap == CHOOSE b \in Space : TRUE

(* Norm goes over the bytes by Joined. *)
Joined(t, b) == IF b \notin Space THEN Append(t, b)
                ELSE IF Last(t) = Gap THEN t ELSE Append(t, Gap)

(* The text s after so much of a blank, as Norm joins it. *)
Run(s) == FoldLeft(Joined, <<Gap>>, s)

(* f is the function by which FoldLeft finds a run. *)
Runs(s, f) ==
  f = [S \in SUBSET DOMAIN s |->
         IF S = {} THEN <<Gap>> ELSE Joined(f[S \ {Max(S)}], s[Max(S)])]

(* What the community modules define FoldLeft by, *)
LEMMA RunDef ==
  ASSUME NEW s
  PROVE  Run(s) = (CHOOSE f : Runs(s, f))[DOMAIN s]
BY DEF Run, FoldLeft, MapThenFoldSet, Runs

(* and Norm in these terms. *)
LEMMA NormDef ==
  ASSUME NEW s
  PROVE Norm(s) = IF \A i \in DOMAIN s : s[i] \in Space THEN <<Gap, Gap>> ELSE Run(Append(s, Gap))
BY DEF Norm, Run, Gap, Joined

(* The greatest of some numbers from 1 to n. *)
LEMMA GreatestOf ==
  ASSUME NEW n \in Nat, NEW S \in SUBSET (1..n), S # {}
  PROVE  Max(S) \in S /\ \A y \in S : y <= Max(S)
<1>1. S \subseteq 0..n
  OBVIOUS
<1>2. Max(S) \in S /\ \A y \in S : Max(S) >= y
  BY <1>1, MaxExists
<1> QED
  BY <1>2

(* Such a function exists: it is made for ever more bytes of s.            *)
LEMMA RunsExist ==
  ASSUME NEW s, NEW n \in Nat, DOMAIN s = 1..n
  PROVE  \E f : Runs(s, f)
<1> DEFINE rhs(f, S) == IF S = {} THEN <<Gap>> ELSE Joined(f[S \ {Max(S)}], s[Max(S)])
           UpTo(f, k) == f = [S \in SUBSET (1..k) |-> rhs(f, S)]
           Built == {k \in Nat : \E f : UpTo(f, k)}
<1>1. 0 \in Built
  <2> DEFINE f == [S \in SUBSET (1..0) |-> <<Gap>>]
  <2>1. \A S \in SUBSET (1..0) : S = {}
    OBVIOUS
  <2>2. UpTo(f, 0)
    BY <2>1
  <2> QED
    BY <2>2
<1>2. ASSUME NEW k \in Nat, k \in Built PROVE k + 1 \in Built
  <2>1. PICK f : UpTo(f, k)
    BY <1>2
  <2> DEFINE g == [S \in SUBSET (1..(k + 1)) |->
                     IF k + 1 \in S THEN Joined(f[S \ {k + 1}], s[k + 1]) ELSE f[S]]
  <2>2. ASSUME NEW S \in SUBSET (1..k)
        PROVE  f[S] = rhs(f, S) /\ S \in SUBSET (1..(k + 1)) /\ k + 1 \notin S
    <3>1. 1..k \subseteq 1..(k + 1) /\ k + 1 \notin 1..k
      OBVIOUS
    <3> HIDE DEF rhs
    <3> QED
      BY <2>1, <3>1
  <2>3. \A S \in SUBSET (1..k) : g[S] = f[S]
    BY <2>2
  <2>4. ASSUME NEW S \in SUBSET (1..(k + 1)) PROVE g[S] = rhs(g, S)
    <3>1. CASE k + 1 \in S
      <4>1. Max(S) = k + 1
        <5>1. k + 1 \in Nat /\ S \in SUBSET (1..(k + 1)) /\ S # {}
          BY <3>1
        <5> HIDE DEF g, rhs
        <5>2. Max(S) \in S /\ \A y \in S : y <= Max(S)
          BY <5>1, GreatestOf, Zenon
        <5>3. Max(S) \in 1..(k + 1) /\ k + 1 <= Max(S)
          BY <3>1, <5>2, Zenon
        <5> QED
          BY <5>3
      <4>2. S \ {k + 1} \in SUBSET (1..k)
        OBVIOUS
      <4>3. g[S] = Joined(f[S \ {k + 1}], s[k + 1])
        BY <3>1
      <4>4. g[S \ {k + 1}] = f[S \ {k + 1}]
        BY <2>3, <4>2
      <4> HIDE DEF g
      <4> QED
        BY <3>1, <4>1, <4>3, <4>4
    <3>2. CASE k + 1 \notin S
      <4>1. S \in SUBSET (1..k)
        BY <3>2
      <4>2. S # {} => S \ {Max(S)} \in SUBSET (1..k)
        BY <4>1
      <4> HIDE DEF g
      <4> QED
        BY <2>2, <2>3, <4>1, <4>2
    <3> QED
      BY <3>1, <3>2
  <2>5. g = [S \in SUBSET (1..(k + 1)) |-> rhs(g, S)]
    <3> DEFINE alike == [S \in SUBSET (1..(k + 1)) |-> rhs(g, S)]
    <3>1. \A S \in SUBSET (1..(k + 1)) : g[S] = alike[S]
      BY <2>4
    <3> QED
      BY <3>1
  <2>6. UpTo(g, k + 1)
    BY <2>5
  <2> HIDE DEF g, UpTo
  <2> QED
    BY <2>6
<1>3. n \in Built
  <2> HIDE DEF Built
  <2> QED
    BY <1>1, <1>2, Induction
<1>4. PICK f : UpTo(f, n)
  BY <1>3
<1> QED
  BY <1>4 DEF Runs

(* A run is the last of a series of texts, one more byte joined to each.   *)
Series(s, g) ==
  /\ g[0] = <<Gap>>
  /\ \A k \in 1..Len(s) : g[k] = Joined(g[k - 1], s[k])

LEMMA SeriesOfRun ==
  ASSUME NEW S, NEW s \in Seq(S)
  PROVE  \E g : Series(s, g) /\ Run(s) = g[Len(s)]
<1> DEFINE n == Len(s)
           f == CHOOSE f : Runs(s, f)
           g == [k \in 0..n |-> f[1..k]]
<1>1. n \in Nat /\ DOMAIN s = 1..n
  OBVIOUS
<1>2. Runs(s, f)
  BY <1>1, RunsExist
<1>3. Run(s) = f[1..n]
  BY <1>1, RunDef
<1> HIDE DEF f
<1>4. g[0] = <<Gap>>
  <2>1. f[{}] = <<Gap>>
    BY <1>2 DEF Runs
  <2> QED
    BY <1>1, <2>1, 1..0 = {}
<1>5. ASSUME NEW k \in 1..n PROVE g[k] = Joined(g[k - 1], s[k])
  <2>1. 1..k \in SUBSET DOMAIN s /\ 1..k # {} /\ k \in 1..k
    BY <1>1
  <2>2. Max(1..k) = k
    <3>1. k \in Nat /\ 1..k \in SUBSET (1..k)
      BY <1>1
    <3> HIDE DEF g
    <3>2. Max(1..k) \in 1..k /\ \A y \in 1..k : y <= Max(1..k)
      BY <2>1, <3>1, GreatestOf, Zenon
    <3> QED
      BY <2>1, <3>2
  <2>3. f[1..k] = Joined(f[(1..k) \ {Max(1..k)}], s[Max(1..k)])
    BY <1>2, <2>1 DEF Runs
  <2>4. (1..k) \ {k} = 1..(k - 1)
    BY <1>1
  <2>5. g[k] = f[1..k] /\ g[k - 1] = f[1..(k - 1)]
    BY <1>1
  <2> HIDE DEF g
  <2> QED
    BY <2>2, <2>3, <2>4, <2>5
<1>6. Run(s) = g[n]
  BY <1>1, <1>3
<1> HIDE DEF g
<1> QED
  BY <1>4, <1>5, <1>6 DEF Series

(* Joining a byte leaves the text or makes it one byte longer. *)
LEMMA JoinedType ==
  ASSUME NEW t \in Text, t # <<>>, NEW b \in Byte
  PROVE  /\ Gap \in Space
         /\ \/ b \in Space /\ Last(t) = Gap /\ Joined(t, b) = t
            \/ \E x \in Byte :
                 /\ Joined(t, b) = Append(t, x)
                 /\ x \in Space <=> b \in Space
                 /\ b \in Space => x = Gap /\ Last(t) # Gap
<1>1. Gap \in Space /\ Gap \in Byte
  BY FileEditAssumption DEF Gap
<1>2. CASE b \notin Space
  BY <1>1, <1>2 DEF Joined
<1>3. CASE b \in Space
  BY <1>1, <1>3 DEF Joined
<1> QED
  BY <1>1, <1>2, <1>3

(* The texts of a series begin with a blank and have no two in a row; the  *)
(* last byte is a blank where the last one joined is white space.          *)
Shape(s, t, k) ==
  /\ t \in Text /\ Len(t) \in Nat \ {0} /\ t[1] = Gap
  /\ \A q \in 1..Len(t) : t[q] \in Space => t[q] = Gap
  /\ \A q \in 1..(Len(t) - 1) : t[q] = Gap => t[q + 1] # Gap
  /\ t[Len(t)] = Gap <=> k = 0 \/ s[k] \in Space
  /\ Len(t) = 1 => \A l \in 1..k : s[l] \in Space

LEMMA SeriesShape ==
  ASSUME NEW s \in Text, NEW g, Series(s, g)
  PROVE  \A k \in 0..Len(s) : Shape(s, g[k], k)
<1> DEFINE T == {k \in Nat : k <= Len(s) => Shape(s, g[k], k)}
<1>1. 0 \in T
  <2>1. Gap \in Space /\ Gap \in Byte
    BY FileEditAssumption DEF Gap
  <2>2. g[0] = <<Gap>> /\ 0 <= Len(s)
    BY DEF Series, Text
  <2> DEFINE t == <<Gap>>
  <2>3. t \in Text /\ Len(t) = 1 /\ t[1] = Gap
    BY <2>1 DEF Text
  <2>4. Shape(s, t, 0)
    <3>1. \A q \in 1..Len(t) : q = 1
      BY <2>3
    <3>2. \A q \in 1..(Len(t) - 1) : FALSE
      BY <2>3
    <3>3. \A l \in 1..0 : FALSE
      OBVIOUS
    <3> HIDE DEF t
    <3> QED
      BY <2>3, <3>1, <3>2, <3>3 DEF Shape
  <2> QED
    BY <2>2, <2>4
<1>2. ASSUME NEW k \in Nat, k \in T PROVE k + 1 \in T
  <2> SUFFICES ASSUME k + 1 <= Len(s) PROVE Shape(s, g[k + 1], k + 1)
    OBVIOUS
  <2> DEFINE t == g[k]
             u == g[k + 1]
             b == s[k + 1]
  <2>1. Shape(s, t, k) /\ k + 1 \in 1..Len(s) /\ b \in Byte
    BY <1>2 DEF Text
  <2>2. u = Joined(t, b)
    BY <2>1 DEF Series
  <2>3. t # <<>> /\ t \in Text /\ Last(t) = t[Len(t)]
    BY <2>1 DEF Shape, Last
  <2>4. Gap \in Space
    BY FileEditAssumption DEF Gap
  <2> HIDE DEF t, u, b
  <2>5. \/ b \in Space /\ Last(t) = Gap /\ u = t
        \/ \E x \in Byte : u = Append(t, x) /\ (x \in Space <=> b \in Space)
                           /\ (b \in Space => x = Gap /\ Last(t) # Gap)
    BY <2>1, <2>2, <2>3, JoinedType
  <2>6. CASE b \in Space /\ Last(t) = Gap /\ u = t
    <3>1. k = 0 \/ s[k] \in Space
      BY <2>1, <2>3, <2>6 DEF Shape
    <3>2. Len(u) = 1 => \A l \in 1..(k + 1) : s[l] \in Space
      BY <2>1, <2>6 DEF Shape, b
    <3>3. u[Len(u)] = Gap /\ s[k + 1] \in Space
      BY <2>3, <2>6 DEF b
    <3> QED
      BY <2>1, <2>6, <3>2, <3>3 DEF Shape, u
  <2>7. ASSUME NEW x \in Byte, u = Append(t, x), x \in Space <=> b \in Space,
               b \in Space => x = Gap /\ Last(t) # Gap
        PROVE  Shape(s, g[k + 1], k + 1)
    <3>1. /\ u \in Text /\ Len(u) = Len(t) + 1 /\ u[Len(t) + 1] = x /\ Len(t) \in Nat \ {0}
          /\ \A q \in 1..Len(t) : u[q] = t[q]
      BY <2>1, <2>7 DEF Shape, Text
    <3>2. \A q \in 1..Len(u) : u[q] \in Space => u[q] = Gap
      <4>1. \A q \in 1..Len(u) : q \in 1..Len(t) \/ q = Len(t) + 1
        BY <3>1
      <4> QED
        BY <2>1, <2>7, <3>1, <4>1 DEF Shape
    <3>3. \A q \in 1..(Len(u) - 1) : u[q] = Gap => u[q + 1] # Gap
      <4>1. \A q \in 1..Len(t) : \/ q \in 1..(Len(t) - 1) /\ q + 1 \in 1..Len(t)
                                 \/ q = Len(t)
        BY <3>1
      <4>2. x = Gap => t[Len(t)] # Gap
        BY <2>3, <2>4, <2>7
      <4>3. Len(u) - 1 = Len(t) /\ Len(t) \in 1..Len(t)
        BY <3>1
      <4> QED
        BY <2>1, <3>1, <4>1, <4>2, <4>3 DEF Shape
    <3>4. u[Len(u)] = Gap <=> s[k + 1] \in Space
      BY <2>4, <2>7, <3>1 DEF b
    <3>5. Len(u) # 1 /\ Len(u) \in Nat \ {0} /\ u[1] = Gap /\ k + 1 # 0
      BY <2>1, <3>1 DEF Shape
    <3> QED
      BY <3>1, <3>2, <3>3, <3>4, <3>5 DEF Shape, u
  <2> QED
    BY <2>5, <2>6, <2>7 DEF u
<1>3. \A k \in Nat : k \in T
  <2> HIDE DEF T
  <2> QED
    BY <1>1, <1>2, Induction
<1> QED
  BY <1>3 DEF Text

(* Byte q of the text after k bytes of s came with byte c of s. *)
Joins(s, g, k, q, c) ==
  /\ g[c - 1] = SubSeq(g[k], 1, q - 1)
  /\ g[c] = SubSeq(g[k], 1, q)
  /\ g[k][q] \in Space <=> s[c] \in Space

(* Every byte of a text of the series, from the second on, came from one   *)
(* of s, which is white space where the byte is a blank.                   *)
LEMMA SourceOf ==
  ASSUME NEW s \in Text, NEW g, Series(s, g)
  PROVE  \A k \in 0..Len(s) : \A q \in 2..Len(g[k]) : \E c \in 1..k : Joins(s, g, k, q, c)
<1> DEFINE T == {k \in Nat : k <= Len(s) =>
                    \A q \in 2..Len(g[k]) : \E c \in 1..k : Joins(s, g, k, q, c)}
<1>1. 0 \in T
  <2>1. \A q \in 2..Len(g[0]) : FALSE
    BY DEF Series
  <2> QED
    BY <2>1
<1>2. ASSUME NEW k \in Nat, k \in T PROVE k + 1 \in T
  <2> SUFFICES ASSUME k + 1 <= Len(s), NEW q \in 2..Len(g[k + 1])
               PROVE  \E c \in 1..(k + 1) : Joins(s, g, k + 1, q, c)
    OBVIOUS
  <2> DEFINE t == g[k]
             u == g[k + 1]
             b == s[k + 1]
  <2>1. k \in 0..Len(s) /\ k + 1 \in 1..Len(s) /\ b \in Byte
    BY DEF Text
  <2>2. u = Joined(t, b)
    BY <2>1 DEF Series
  <2>3. t \in Text /\ Len(t) \in Nat \ {0} /\ t # <<>>
    BY <2>1, SeriesShape DEF Shape
  <2> HIDE DEF t, u, b
  <2>4. \/ u = t
        \/ \E x \in Byte : u = Append(t, x) /\ (x \in Space <=> b \in Space)
    BY <2>1, <2>2, <2>3, JoinedType
  <2>5. CASE q \in 2..Len(t)
    <3>1. PICK c \in 1..k : Joins(s, g, k, q, c)
      BY <1>2, <2>1, <2>5 DEF t
    <3>2. /\ u[q] = t[q] /\ SubSeq(u, 1, q) = SubSeq(t, 1, q)
          /\ SubSeq(u, 1, q - 1) = SubSeq(t, 1, q - 1)
      <4>1. CASE u = t
        BY <4>1
      <4>2. ASSUME NEW x \in Byte, u = Append(t, x)
            PROVE  /\ u[q] = t[q] /\ SubSeq(u, 1, q) = SubSeq(t, 1, q)
                   /\ SubSeq(u, 1, q - 1) = SubSeq(t, 1, q - 1)
        BY <2>3, <2>5, <4>2 DEF Text
      <4> QED
        BY <2>4, <4>1, <4>2
    <3>3. c \in 1..(k + 1)
      OBVIOUS
    <3> QED
      BY <3>1, <3>2, <3>3 DEF t, u, Joins
  <2>6. CASE q \notin 2..Len(t)
    <3>1. PICK x \in Byte : u = Append(t, x) /\ (x \in Space <=> b \in Space)
      BY <2>4, <2>6 DEF u
    <3>2. q = Len(t) + 1
      BY <2>3, <2>6, <3>1 DEF u, Text
    <3>3. SubSeq(u, 1, q - 1) = t /\ SubSeq(u, 1, q) = u /\ u[q] = x
      BY <2>3, <3>1, <3>2 DEF Text
    <3>4. (k + 1) - 1 = k /\ k + 1 \in 1..(k + 1)
      OBVIOUS
    <3>5. Joins(s, g, k + 1, q, k + 1)
      BY <3>1, <3>3, <3>4 DEF t, u, b, Joins
    <3> QED
      BY <3>4, <3>5
  <2> QED
    BY <2>5, <2>6
<1>3. \A k \in Nat : k \in T
  <2> HIDE DEF T
  <2> QED
    BY <1>1, <1>2, Induction
<1>4. ASSUME NEW k \in 0..Len(s), NEW q \in 2..Len(g[k]) PROVE \E c \in 1..k : Joins(s, g, k, q, c)
  <2>1. k \in Nat /\ k <= Len(s) /\ k \in T
    BY <1>3 DEF Text
  <2> QED
    BY <2>1
<1> QED
  BY <1>4

(* A part of a sequence, and what is before it. *)
LEMMA PartOf ==
  ASSUME NEW S, NEW s \in Seq(S), NEW p \in 1..Len(s), NEW l \in p..Len(s)
  PROVE  /\ SubSeq(s, p, l) \in Seq(S) /\ Len(SubSeq(s, p, l)) = (l - p) + 1
         /\ \A q \in 1..((l - p) + 1) : SubSeq(s, p, l)[q] = s[p + q - 1]
         /\ SubSeq(s, 1, p - 1) \in Seq(S) /\ Len(SubSeq(s, 1, p - 1)) = p - 1
         /\ SubSeq(s, 1, p) = SubSeq(s, 1, p - 1) \o <<s[p]>>
         /\ SubSeq(s, 1, l) = SubSeq(s, 1, p - 1) \o SubSeq(s, p, l)
<1>1. SubSeq(s, p, l) \in Seq(S) /\ Len(SubSeq(s, p, l)) = (l - p) + 1
  OBVIOUS
<1>2. \A q \in 1..((l - p) + 1) : SubSeq(s, p, l)[q] = s[p + q - 1]
  OBVIOUS
<1>3. SubSeq(s, 1, p - 1) \in Seq(S) /\ Len(SubSeq(s, 1, p - 1)) = p - 1
  OBVIOUS
<1>4. SubSeq(s, 1, p) = SubSeq(s, 1, p - 1) \o <<s[p]>>
  OBVIOUS
<1>5. SubSeq(s, 1, l) = SubSeq(s, 1, p - 1) \o SubSeq(s, p, l)
  OBVIOUS
<1> QED
  BY <1>1, <1>2, <1>3, <1>4, <1>5

(* What follows the same beginning is the same. *)
LEMMA SameRest ==
  ASSUME NEW S, NEW t \in Seq(S), NEW u \in Seq(S), NEW v \in Seq(S), t \o u = t \o v
  PROVE  u = v
<1>1. Len(u) = Len(v) /\ Len(u) \in Nat /\ Len(t) \in Nat
  <2>1. Len(t \o u) = Len(t) + Len(u) /\ Len(t \o v) = Len(t) + Len(v)
    OBVIOUS
  <2>2. Len(u) \in Nat /\ Len(v) \in Nat /\ Len(t) \in Nat
    OBVIOUS
  <2> QED
    BY <2>1, <2>2
<1>2. \A q \in 1..Len(u) : (t \o u)[Len(t) + q] = u[q]
  OBVIOUS
<1>3. \A q \in 1..Len(v) : (t \o v)[Len(t) + q] = v[q]
  OBVIOUS
<1>4. \A q \in 1..Len(u) : u[q] = v[q]
  BY <1>1, <1>2, <1>3
<1> QED
  BY <1>1, <1>4

(* What stands before the last byte has no part in what is joined.         *)
LEMMA JoinedBehind ==
  ASSUME NEW t \in Text, NEW u \in Text, Len(u) \in Nat \ {0}, NEW b \in Byte
  PROVE  Joined(t \o u, b) = t \o Joined(u, b)
<1>1. Last(t \o u) = Last(u)
  BY DEF Last, Text
<1>2. \A x \in Byte : Append(t \o u, x) = t \o Append(u, x)
  BY DEF Text
<1>3. Gap \in Byte
  BY FileEditAssumption DEF Gap
<1> QED
  BY <1>1, <1>2, <1>3 DEF Joined

(* Behind its first i bytes s goes on with the words of w, and the series  *)
(* g of s has come to a blank there, behind front.                         *)
Aligned(s, g, i, front, w) ==
  /\ i \in Nat /\ i + Len(w) <= Len(s) /\ g[i] = front \o <<Gap>>
  /\ \A d \in 1..Len(w) : s[i + d] = w[d] \/ (s[i + d] \in Space /\ w[d] \in Space)

(* Those words are joined there as they are on their own.                  *)
LEMMA SameWords ==
  ASSUME NEW s \in Text, NEW g, Series(s, g), NEW w \in Text, NEW h, Series(w, h),
         NEW i, NEW front \in Text, Aligned(s, g, i, front, w)
  PROVE  g[i + Len(w)] = front \o h[Len(w)]
<1> USE DEF Aligned
<1> DEFINE T == {d \in Nat : d <= Len(w) => g[i + d] = front \o h[d]}
<1>1. 0 \in T
  <2>1. i + 0 = i /\ h[0] = <<Gap>>
    BY DEF Series
  <2> QED
    BY <2>1
<1>2. ASSUME NEW d \in Nat, d \in T PROVE d + 1 \in T
  <2> SUFFICES ASSUME d + 1 <= Len(w) PROVE g[i + (d + 1)] = front \o h[d + 1]
    OBVIOUS
  <2>1. /\ d \in 0..Len(w) /\ d + 1 \in 1..Len(w) /\ (d + 1) - 1 = d
        /\ i + (d + 1) \in 1..Len(s) /\ (i + (d + 1)) - 1 = i + d
    BY DEF Text
  <2>2. g[i + d] = front \o h[d]
    BY <1>2, <2>1
  <2>3. g[i + (d + 1)] = Joined(g[i + d], s[i + (d + 1)]) /\ h[d + 1] = Joined(h[d], w[d + 1])
    BY <2>1 DEF Series
  <2>4. Joined(g[i + d], s[i + (d + 1)]) = Joined(g[i + d], w[d + 1])
    <3>1. s[i + (d + 1)] = w[d + 1] \/ (s[i + (d + 1)] \in Space /\ w[d + 1] \in Space)
      BY <2>1
    <3> QED
      BY <3>1 DEF Joined
  <2>5. Shape(w, h[d], d) /\ w[d + 1] \in Byte
    BY <2>1, SeriesShape DEF Text
  <2>6. h[d] \in Text /\ Len(h[d]) \in Nat \ {0}
    BY <2>5 DEF Shape
  <2>7. Joined(front \o h[d], w[d + 1]) = front \o Joined(h[d], w[d + 1])
    BY <2>5, <2>6, JoinedBehind
  <2> QED
    BY <2>2, <2>3, <2>4, <2>7
<1>3. \A d \in Nat : d \in T
  <2> HIDE DEF T
  <2> QED
    BY <1>1, <1>2, Induction
<1> QED
  BY <1>3 DEF Text

(* Norm of a text with a word in it: a blank, a word, and so on, and a     *)
(* blank at the end.                                                       *)
LEMMA NormOfWords ==
  ASSUME NEW s \in Text, \E i \in 1..Len(s) : s[i] \notin Space
  PROVE  /\ Append(s, Gap) \in Text
         /\ \E g : Series(Append(s, Gap), g) /\ Norm(s) = g[Len(s) + 1]
         /\ Shape(Append(s, Gap), Norm(s), Len(s) + 1)
         /\ Len(Norm(s)) >= 3 /\ Norm(s)[2] \notin Space /\ Norm(s)[Len(Norm(s))] = Gap
<1> DEFINE a == Append(s, Gap)
           n == Norm(s)
<1>1. Gap \in Space /\ Gap \in Byte
  BY FileEditAssumption DEF Gap
<1>2. /\ a \in Text /\ Len(a) = Len(s) + 1 /\ Len(s) \in Nat /\ a[Len(s) + 1] = Gap
      /\ \A i \in 1..Len(s) : a[i] = s[i]
  BY <1>1 DEF Text
<1>3. n = Run(a)
  <2>1. DOMAIN s = 1..Len(s)
    BY DEF Text
  <2> QED
    BY <2>1, NormDef
<1> HIDE DEF a, n
<1>4. PICK g : Series(a, g) /\ Run(a) = g[Len(a)]
  BY <1>2, SeriesOfRun DEF Text
<1>5. Shape(a, n, Len(s) + 1)
  <2>1. Len(a) \in 0..Len(a)
    BY <1>2
  <2> QED
    BY <1>2, <1>3, <1>4, <2>1, SeriesShape
<1>6. n[Len(n)] = Gap
  BY <1>1, <1>2, <1>5 DEF Shape
<1>7. Len(n) # 1
  <2>1. PICK i \in 1..Len(s) : s[i] \notin Space
    OBVIOUS
  <2>2. i \in 1..(Len(s) + 1) /\ a[i] = s[i]
    BY <1>2
  <2> QED
    BY <1>5, <2>1, <2>2 DEF Shape
<1>8. Len(n) \in Nat \ {0} /\ n[1] = Gap /\ 1 \in 1..(Len(n) - 1) /\ 2 \in 1..Len(n)
  <2>1. Len(n) \in Nat \ {0} /\ n[1] = Gap
    BY <1>5 DEF Shape
  <2> DEFINE length == Len(n)
  <2>2. length \in Nat /\ length # 0 /\ length # 1
    BY <1>7, <2>1
  <2> HIDE DEF length
  <2>3. 1 \in 1..(length - 1) /\ 2 \in 1..length
    BY <2>2
  <2> QED
    BY <2>1, <2>3 DEF length
<1>9. n[2] # Gap
  <2>1. 1 + 1 = 2
    OBVIOUS
  <2> QED
    BY <1>5, <1>8, <2>1 DEF Shape
<1>10. n[2] \notin Space
  BY <1>5, <1>8, <1>9 DEF Shape
<1>11. Len(n) >= 3
  BY <1>6, <1>7, <1>8, <1>9
<1> QED
  BY <1>2, <1>3, <1>4, <1>5, <1>6, <1>10, <1>11 DEF a, n

(* Norm of white space. *)
LEMMA NormOfBlanks ==
  ASSUME NEW s \in Text, \A i \in 1..Len(s) : s[i] \in Space
  PROVE  Norm(s) = <<Gap, Gap>>
<1>1. DOMAIN s = 1..Len(s)
  BY DEF Text
<1> QED
  BY <1>1, NormDef

(* t is u and v behind it. *)
Parts(t, u, v) == t = u \o v

(* Some whole words of s, and how s is joined up to their end.            *)
LEMMA WordsJoined ==
  ASSUME NEW s \in Text, NEW g, Series(Append(s, Gap), g),
         NEW i \in 1..Len(s), NEW j \in i..Len(s), s[i] \notin Space,
         Append(s, Gap)[j + 1] \in Space, NEW front \in Text, Parts(g[i - 1], front, <<Gap>>)
  PROVE  /\ Edge(s, i - 1) /\ Edge(s, j + 1)
         /\ Norm(SubSeq(s, i, j)) \in Text
         /\ Parts(g[j + 1], front, Norm(SubSeq(s, i, j)))
<1> USE DEF Parts
<1> DEFINE a == Append(s, Gap)
           w == SubSeq(s, i, j)
           b == Append(w, Gap)
           o == i - 1
<1>1. Gap \in Space /\ Gap \in Byte /\ Len(s) \in Nat /\ DOMAIN s = 1..Len(s)
  BY FileEditAssumption DEF Gap, Text
<1>2. /\ a \in Text /\ Len(a) = Len(s) + 1 /\ a[Len(s) + 1] = Gap
      /\ \A d \in 1..Len(s) : a[d] = s[d]
  BY <1>1 DEF Text
<1>3. i \in Int /\ j \in Int /\ o \in Nat /\ o = i - 1 /\ 1 <= i /\ i <= j /\ j <= Len(s)
  BY <1>1
<1>4. /\ w \in Text /\ Len(w) = (j - i) + 1 /\ \A d \in 1..Len(w) : w[d] = s[o + d]
  BY <1>1, <1>3 DEF Text
<1>5. w[1] = s[i] /\ 1 \in 1..Len(w)
  BY <1>1, <1>3, <1>4
<1> HIDE DEF a, w
<1>6. \E d \in 1..Len(w) : w[d] \notin Space
  BY <1>5
<1>7. PICK h : Series(b, h) /\ Norm(w) = h[Len(w) + 1]
  BY <1>4, <1>6, NormOfWords
<1>8. b \in Text /\ Norm(w) \in Text
  BY <1>4, <1>6, NormOfWords DEF Shape
<1>9. /\ Len(b) = Len(w) + 1 /\ b[Len(w) + 1] = Gap
      /\ \A d \in 1..Len(w) : b[d] = w[d]
  <2>1. w \in Seq(Byte)
    BY <1>4 DEF Text
  <2> QED
    BY <1>1, <2>1
<1> HIDE DEF b, o
<1>10. o + Len(b) = j + 1 /\ o + Len(b) <= Len(a)
  <2>1. Len(w) = (j - i) + 1 /\ Len(b) = Len(w) + 1 /\ Len(a) = Len(s) + 1
    BY <1>2, <1>4, <1>9
  <2> QED
    BY <1>1, <1>3, <2>1
<1>11. ASSUME NEW d \in 1..Len(b)
       PROVE  a[o + d] = b[d] \/ (a[o + d] \in Space /\ b[d] \in Space)
  <2>1. CASE d = Len(w) + 1
    <3>1. o + d = j + 1 /\ b[d] = Gap
      BY <1>9, <1>10, <2>1
    <3> QED
      BY <1>1, <3>1 DEF a
  <2>2. CASE d \in 1..Len(w)
    <3>1. o + d \in 1..Len(s)
      BY <1>1, <1>3, <1>4, <2>2
    <3>2. a[o + d] = s[o + d]
      BY <1>2, <3>1
    <3>3. b[d] = w[d]
      BY <1>9, <2>2, Zenon
    <3>4. w[d] = s[o + d]
      BY <1>4, <2>2, Zenon
    <3> QED
      BY <3>2, <3>3, <3>4
  <2>3. Len(w) \in Nat /\ Len(b) = Len(w) + 1
    BY <1>4, <1>9 DEF Text
  <2> QED
    BY <2>1, <2>2, <2>3
<1>12. g[j + 1] = front \o Norm(w)
  <2>1. Aligned(a, g, o, front, b)
    BY <1>3, <1>10, <1>11 DEF Aligned
  <2>2. Series(a, g) /\ Series(b, h)
    BY <1>7 DEF a
  <2>3. g[o + Len(b)] = front \o h[Len(b)]
    BY <1>2, <1>8, <2>1, <2>2, SameWords
  <2> QED
    BY <1>7, <1>9, <1>10, <2>3
<1>13. Edge(s, i - 1)
  <2> SUFFICES ASSUME i - 1 \in DOMAIN s PROVE s[i - 1] \in Space
    BY DEF Edge
  <2>1. i - 1 \in 1..Len(s) /\ i - 1 \in 0..Len(a) /\ i - 1 # 0
    BY <1>1, <1>2
  <2>2. Shape(a, g[i - 1], i - 1)
    BY <1>2, <2>1, SeriesShape DEF a
  <2>3. g[i - 1][Len(g[i - 1])] = Gap
    <3>1. \A t \in Text : (t \o <<Gap>>)[Len(t \o <<Gap>>)] = Gap
      BY DEF Text
    <3> QED
      BY <3>1
  <2> QED
    BY <1>2, <2>1, <2>2, <2>3 DEF Shape
<1>14. Edge(s, j + 1)
  <2>1. j + 1 \in DOMAIN s => s[j + 1] = a[j + 1]
    BY <1>1, <1>2
  <2> QED
    BY <2>1 DEF Edge, a
<1> QED
  BY <1>8, <1>12, <1>13, <1>14 DEF w

(* Where Norm(old) is found in Norm(s), some whole words of s in a row are *)
(* those of old: first where s has words,                                  *)
LEMMA WordsFound ==
  ASSUME NEW s \in Text, NEW old \in Text, Occurrences(Norm(s), Norm(old)) # {},
         \E i \in 1..Len(s) : s[i] \notin Space
  PROVE  \E i \in 1..(Len(s) + 1), j \in 0..Len(s) :
           /\ Edge(s, i - 1) /\ Edge(s, j + 1)
           /\ Norm(SubSeq(s, i, j)) = Norm(old)
<1> DEFINE n == Norm(s)
           m == Norm(old)
           a == Append(s, Gap)
<1>1. Gap \in Space /\ Len(s) \in Nat /\ DOMAIN s = 1..Len(s)
  BY FileEditAssumption DEF Gap, Text
<1>2. PICK p \in 1..(Len(n) - Len(m) + 1) : SubSeq(n, p, p + Len(m) - 1) = m
  BY DEF Occurrences, Contract!Occurrences
<1>3. /\ a \in Text /\ Len(a) = Len(s) + 1 /\ a[Len(s) + 1] = Gap
      /\ \A i \in 1..Len(s) : a[i] = s[i]
  BY <1>1, NormOfWords DEF Text
<1>4. PICK g : Series(a, g) /\ n = g[Len(s) + 1]
  BY NormOfWords
<1>5. Shape(a, n, Len(s) + 1) /\ n \in Text /\ Len(n) \in Nat
  BY NormOfWords DEF Shape
<1> HIDE DEF n, a
<1>6. \E i \in 1..Len(old) : old[i] \notin Space
  <2> SUFFICES ASSUME \A i \in 1..Len(old) : old[i] \in Space PROVE FALSE
    OBVIOUS
  <2>1. m = <<Gap, Gap>>
    BY NormOfBlanks
  <2> HIDE DEF m
  <2>2. p \in 1..(Len(n) - 1) /\ p + 1 \in 1..Len(n)
    BY <1>2, <1>5, <2>1
  <2>3. Len(m) = 2 /\ p + Len(m) - 1 \in p..Len(n) /\ p \in 1..Len(n)
    BY <1>2, <1>5, <2>1, <2>2
  <2>4. \A q \in 1..Len(m) : m[q] = n[p + q - 1]
    BY <1>2, <1>5, <2>3, PartOf DEF Text
  <2>5. n[p] = m[1] /\ n[p + 1] = m[2]
    <3>1. 1 \in 1..Len(m) /\ 2 \in 1..Len(m) /\ p + 1 - 1 = p /\ p + 2 - 1 = p + 1
      BY <2>3
    <3> QED
      BY <2>4, <3>1
  <2> QED
    BY <1>5, <2>1, <2>2, <2>5 DEF Shape
<1>7. /\ m \in Text /\ Len(m) \in Nat /\ Len(m) >= 3
      /\ m[1] = Gap /\ m[2] \notin Space /\ m[Len(m)] = Gap
  BY <1>6, NormOfWords DEF Shape
<1> HIDE DEF m
<1> DEFINE last == p + Len(m) - 1
           front == SubSeq(n, 1, p - 1)
<1>8. /\ p \in 1..Len(n) /\ last \in p..Len(n) /\ last \in 2..Len(n) /\ p + 1 \in 2..last
  BY <1>2, <1>5, <1>7
<1>9. /\ front \in Text /\ Len(front) = p - 1
      /\ \A q \in 1..Len(m) : m[q] = n[p + q - 1]
      /\ SubSeq(n, 1, p) = front \o <<n[p]>> /\ SubSeq(n, 1, last) = front \o m
  <2>1. n \in Seq(Byte) /\ m = SubSeq(n, p, last)
    BY <1>2, <1>5 DEF Text
  <2>2. p \in 1..Len(n) /\ last \in p..Len(n)
    BY <1>8
  <2> HIDE DEF last, front
  <2>3. /\ SubSeq(n, p, last) \in Seq(Byte) /\ Len(SubSeq(n, p, last)) = (last - p) + 1
        /\ \A q \in 1..((last - p) + 1) : SubSeq(n, p, last)[q] = n[p + q - 1]
        /\ SubSeq(n, 1, p - 1) \in Seq(Byte) /\ Len(SubSeq(n, 1, p - 1)) = p - 1
        /\ SubSeq(n, 1, p) = SubSeq(n, 1, p - 1) \o <<n[p]>>
        /\ SubSeq(n, 1, last) = SubSeq(n, 1, p - 1) \o SubSeq(n, p, last)
    BY <2>1, <2>2, PartOf
  <2> QED
    BY <2>1, <2>3 DEF Text, front
<1>10. n[p] = Gap /\ n[p + 1] = m[2] /\ n[last] = Gap
  <2>1. /\ 1 \in 1..Len(m) /\ 2 \in 1..Len(m) /\ Len(m) \in 1..Len(m)
        /\ p + 1 - 1 = p /\ p + 2 - 1 = p + 1
    BY <1>7, <1>8
  <2> QED
    BY <1>7, <1>9, <2>1
<1> HIDE DEF last, front
(* Where the block ends *)
<1>11. PICK e \in 1..(Len(s) + 1) : Joins(a, g, Len(s) + 1, last, e)
  <2>1. Len(s) + 1 \in 0..Len(a)
    BY <1>1, <1>3
  <2> QED
    BY <1>3, <1>4, <1>8, <2>1, SourceOf
<1>12. g[e] = SubSeq(n, 1, last) /\ a[e] \in Space
  BY <1>1, <1>4, <1>10, <1>11 DEF Joins
(* and where it begins. *)
<1>13. Len(g[e]) = last /\ g[e][p + 1] = m[2] /\ SubSeq(g[e], 1, p) = SubSeq(n, 1, p)
  <2>1. p + 1 \in 1..last /\ p <= last /\ p \in Nat /\ last \in Nat /\ last <= Len(n)
    BY <1>5, <1>8
  <2> DEFINE t == SubSeq(n, 1, last)
  <2>2. Len(t) = last /\ t[p + 1] = n[p + 1]
    BY <1>5, <2>1 DEF Text
  <2>3. SubSeq(t, 1, p) = SubSeq(n, 1, p)
    BY <1>5, <2>1 DEF Text
  <2> QED
    BY <1>10, <1>12, <2>2, <2>3
<1>14. PICK i \in 1..e : Joins(a, g, e, p + 1, i)
  <2>1. e \in 0..Len(a)
    BY <1>1, <1>3
  <2> QED
    BY <1>3, <1>4, <1>8, <1>13, <2>1, SourceOf
<1>15. a[i] \notin Space /\ g[i - 1] = SubSeq(n, 1, p)
  <2>1. (p + 1) - 1 = p
    BY <1>8
  <2> QED
    BY <1>7, <1>13, <1>14, <2>1 DEF Joins
<1> DEFINE j == e - 1
<1>16. i # e /\ i \in 1..Len(s) /\ j \in i..Len(s) /\ e = j + 1
  BY <1>1, <1>12, <1>15
<1>17. s[i] \notin Space /\ Parts(g[i - 1], front, <<Gap>>)
  <2>1. a[i] = s[i]
    BY <1>3, <1>16
  <2>2. SubSeq(n, 1, p) = front \o <<n[p]>> /\ n[p] = Gap
    BY <1>9, <1>10
  <2>3. g[i - 1] = SubSeq(n, 1, p) /\ a[i] \notin Space
    BY <1>15
  <2> QED
    BY <2>1, <2>2, <2>3 DEF Parts
<1> HIDE DEF j
<1>18. /\ Edge(s, i - 1) /\ Edge(s, j + 1)
       /\ Norm(SubSeq(s, i, j)) \in Text /\ Parts(g[j + 1], front, Norm(SubSeq(s, i, j)))
  <2>1. a[j + 1] \in Space
    BY <1>12, <1>16
  <2>2. Series(Append(s, Gap), g) /\ Append(s, Gap)[j + 1] \in Space
    BY <1>4, <2>1 DEF a
  <2>3. front \in Text
    BY <1>9
  <2> QED
    BY <1>16, <1>17, <2>2, <2>3, WordsJoined
<1>19. Norm(SubSeq(s, i, j)) = m
  <2> DEFINE v == Norm(SubSeq(s, i, j))
  <2>1. v \in Text /\ g[j + 1] = front \o v
    BY <1>18 DEF Parts
  <2> HIDE DEF v
  <2>2. SubSeq(n, 1, last) = front \o m /\ front \in Text
    BY <1>9
  <2>3. front \o m = front \o v
    BY <1>12, <1>16, <2>1, <2>2
  <2>4. v = m
    BY <1>7, <2>1, <2>2, <2>3, SameRest DEF Text
  <2> QED
    BY <2>4 DEF v
<1>20. i \in 1..(Len(s) + 1) /\ j \in 0..Len(s)
  BY <1>1, <1>16
<1> QED
  BY <1>18, <1>19, <1>20 DEF m

(* then for any s. *)
LEMMA BlockFound ==
  ASSUME NEW s \in Text, NEW old \in Text, Occurrences(Norm(s), Norm(old)) # {}
  PROVE  \E i \in 1..(Len(s) + 1), j \in 0..Len(s) :
           /\ Edge(s, i - 1) /\ Edge(s, j + 1)
           /\ Norm(SubSeq(s, i, j)) = Norm(old)
<1> DEFINE n == Norm(s)
           m == Norm(old)
<1>1. Gap \in Space /\ Len(s) \in Nat /\ DOMAIN s = 1..Len(s)
  BY FileEditAssumption DEF Gap, Text
<1>2. PICK p \in 1..(Len(n) - Len(m) + 1) : SubSeq(n, p, p + Len(m) - 1) = m
  BY DEF Occurrences, Contract!Occurrences
<1>3. CASE \A i \in 1..Len(s) : s[i] \in Space
  <2>1. n = <<Gap, Gap>>
    BY <1>3, NormOfBlanks
  <2>2. \A i \in 1..Len(old) : old[i] \in Space
    <3> SUFFICES ASSUME \E i \in 1..Len(old) : old[i] \notin Space PROVE FALSE
      OBVIOUS
    <3>1. Len(m) >= 3 /\ Len(m) \in Nat
      BY NormOfWords DEF Shape
    <3> QED
      BY <1>2, <2>1, <3>1
  <2>3. m = n
    BY <2>1, <2>2, NormOfBlanks
  <2>4. SubSeq(s, 1, Len(s)) = s
    BY DEF Text
  <2>5. Edge(s, 1 - 1) /\ Edge(s, Len(s) + 1) /\ 1 \in 1..(Len(s) + 1) /\ Len(s) \in 0..Len(s)
    BY <1>1 DEF Edge
  <2> QED
    BY <2>3, <2>4, <2>5
<1>4. CASE \E i \in 1..Len(s) : s[i] \notin Space
  BY <1>4, WordsFound
<1> QED
  BY <1>3, <1>4

(* Count finds nothing only where nothing is, and one only where there is one. *)
LEMMA CountOf ==
  ASSUME NEW s, NEW old
  PROVE  /\ Count(s, old) = 0 => Occurrences(s, old) = {}
         /\ Count(s, old) = 1 => Occurrences(s, old) # {}
<1>1. CASE Occurrences(s, old) = {}
  <2>1. Count(s, old) = 0
    BY <1>1 DEF Count
  <2> QED
    BY <1>1, <2>1
<1>2. CASE Occurrences(s, old) # {}
  <2>1. Count(s, old) = 2 \/ Count(s, old) = 1
    BY <1>2 DEF Count
  <2> QED
    BY <1>2, <2>1
<1> QED
  BY <1>1, <1>2

(* The hint is only given where Norm found something and Count nothing.    *)
Hinted ==
  result = "white space" =>
    /\ seen \in Text /\ Occurrences(seen, call.old) = {}
    /\ Occurrences(Norm(seen), Norm(call.old)) # {}

(* Every step keeps Hinted. *)
LEMMA HintedStep == IInv /\ Hinted /\ [Next]_vars => Hinted'
<1> SUFFICES ASSUME IInv, Hinted, [Next]_vars, result' = "white space"
             PROVE  /\ seen' \in Text /\ Occurrences(seen', call'.old) = {}
                    /\ Occurrences(Norm(seen'), Norm(call'.old)) # {}
  BY DEF Hinted, Occurrences, Contract!Occurrences
<1>1. result = "white space" => pc = "returned"
  BY DEF IInv, TypeOK
<1>2. ASSUME NEW a \in Pieces, OthersAppend(a) PROVE UNCHANGED <<result, seen, call>>
  BY <1>2 DEF OthersAppend
<1>3. CASE result = "white space"
  <2>1. \/ \E a \in Pieces : OthersAppend(a)
        \/ UNCHANGED vars
    BY <1>1, <1>3 DEF Next, Editing, RefuseArguments, ReadFails, Read, NotFound, Ambiguous,
                      Replace, Prepare, OpenFails, Truncate, Write, Returned
  <2>2. UNCHANGED <<seen, call>>
    BY <1>2, <2>1 DEF vars, history
  <2> QED
    BY <1>3, <2>2 DEF Hinted
<1>4. CASE result # "white space"
  <2>1. NotFound
    <3>1. ~ UNCHANGED result
      BY <1>4
    <3>2. ~ \E a \in Pieces : OthersAppend(a)
      BY <1>2, <3>1
    <3>3. ~ UNCHANGED vars
      BY <3>1 DEF vars
    <3>4. CASE RefuseArguments \/ ReadFails \/ Ambiguous
      BY <3>4 DEF RefuseArguments, ReadFails, Ambiguous, Return
    <3>5. CASE Read \/ Replace \/ Truncate
      BY <3>1, <3>5 DEF Read, Replace, Truncate
    <3>6. CASE Prepare \/ OpenFails \/ Write
      BY <3>1, <3>6 DEF Prepare, OpenFails, Write, Return
    <3> QED
      BY <3>2, <3>3, <3>4, <3>5, <3>6 DEF Next, Returned
  <2>2. /\ pc = "read" /\ Count(seen, call.old) = 0 /\ DiffersOnlyInWhitespace(seen, call.old)
        /\ UNCHANGED <<seen, call>>
    BY <2>1 DEF NotFound, Return, history
  <2>3. Occurrences(seen, call.old) = {}
    BY <2>2, CountOf
  <2>4. Count(Norm(seen), Norm(call.old)) = 1
    BY <2>2 DEF DiffersOnlyInWhitespace
  <2>5. Occurrences(Norm(seen), Norm(call.old)) # {}
    BY <2>4, CountOf, Zenon
  <2>6. seen \in Text
    BY <2>2 DEF IInv, TypeOK, Underway
  <2> QED
    BY <2>2, <2>3, <2>5, <2>6
<1> QED
  BY <1>3, <1>4

(* The refusal for white space is right: the text is not in the file read, *)
(* and a block of its whole words there has the same words in a row.       *)
THEOREM HintIsABlock == Spec => []HintNamesABlock
<1>1. Init => Hinted
  BY DEF Init, Hinted
<1>2. IInv /\ Hinted => HintNamesABlock
  <2> SUFFICES ASSUME IInv, Hinted, result = "white space"
               PROVE  /\ Occurrences(seen, call.old) = {}
                      /\ \E i \in 1..(Len(seen) + 1), j \in 0..Len(seen) :
                           /\ Edge(seen, i - 1) /\ Edge(seen, j + 1)
                           /\ Norm(SubSeq(seen, i, j)) = Norm(call.old)
    BY DEF HintNamesABlock
  <2>1. seen \in Text /\ call.old \in Text
    BY DEF Hinted, IInv, TypeOK, Call
  <2> QED
    BY <2>1, BlockFound DEF Hinted
<1> QED
  BY <1>1, <1>2, IInvInit, IInvStep, HintedStep, PTL DEF Spec
=============================================================================
