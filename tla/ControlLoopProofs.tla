------------------------ MODULE ControlLoopProofs ------------------------
(***************************************************************************)
(* Proofs about ControlLoop for every capacity of cmds and every number of *)
(* lines and events: the types, one run at a time, the order of the output,*)
(* the account of the prompts and the implementation of SessionContract.   *)
(***************************************************************************)
EXTENDS ControlLoop, FiniteSetTheorems, TLAPS

(* The type invariant is inductive. *)
LEMMA TypeInit == Init => TypeOK
<1> SUFFICES ASSUME Init PROVE TypeOK
  OBVIOUS
<1>1. /\ lines \in Seq(Line) /\ Len(lines) = 0
      /\ cmds \in Seq(Command) /\ Len(cmds) = 0
      /\ out \in Seq(Event)
  BY DEF Init
<1>2. phase \in [Runs -> Phase]
  BY DEF Init, Phase
<1> QED
  <2>1. 0 <= MaxLines /\ 0 <= CmdsCap
    BY ControlLoopAssumption DEF ControlLoopAssumption
  <2>2. scanned \in 0..Len(lines)
    BY <1>1 DEF Init
  <2>3. Len(lines) <= MaxLines /\ Len(cmds) <= CmdsCap
    BY <1>1, <2>1 DEF Init
  <2>4. run \in Runs \cup {0} /\ cancelled \subseteq Runs /\ eof \in BOOLEAN /\ closed \in BOOLEAN
    BY DEF Init
  <2> QED BY <1>1, <1>2, <2>2, <2>3, <2>4 DEF Init, TypeOK

(* Every handler of the loop keeps the type invariant. *)
LEMMA TypeStep == TypeOK /\ [Next]_vars => TypeOK'
<1> SUFFICES ASSUME TypeOK, [Next]_vars PROVE TypeOK'
  OBVIOUS
<1> USE ControlLoopAssumption DEF TypeOK, InStopRun
<1>1. CASE UNCHANGED vars
  BY <1>1 DEF vars
<1>2. ASSUME CloseStdin PROVE TypeOK'
  BY <1>2 DEF CloseStdin
<1>3. ASSUME NEW l \in Line, WriteLine(l) PROVE TypeOK'
  BY <1>3 DEF WriteLine
<1>4. ASSUME ScanCommand PROVE TypeOK'
  BY <1>4 DEF ScanCommand, MoreInput, NextLine
<1>5. ASSUME ScanMalformed PROVE TypeOK'
  BY <1>5 DEF ScanMalformed, MoreInput
<1>6. ASSUME ScanEnds PROVE TypeOK'
  BY <1>6 DEF ScanEnds
<1>7. ASSUME ReceiveStop PROVE TypeOK'
  BY <1>7 DEF ReceiveStop, CancelCurrent
<1>8. ASSUME ReceiveUnknown PROVE TypeOK'
  BY <1>8 DEF ReceiveUnknown
<1>9. ASSUME ReceiveClosed PROVE TypeOK'
  BY <1>9 DEF ReceiveClosed, CancelCurrent
<1>10. ASSUME StartRun PROVE TypeOK'
  BY <1>10 DEF StartRun, Phase
<1>11. ASSUME FinishAbort PROVE TypeOK'
  BY <1>11 DEF FinishAbort
<1>12. ASSUME Exit PROVE TypeOK'
  BY <1>12 DEF Exit
<1>13. ASSUME NEW r \in Runs, RunStarting(r) PROVE TypeOK'
  BY <1>13 DEF RunStarting, Emit, Event, Phase
<1>14. ASSUME NEW r \in Runs, RunEmits(r) PROVE TypeOK'
  BY <1>14 DEF RunEmits, Emit, Event
<1>15. ASSUME NEW r \in Runs, RunReturns(r) PROVE TypeOK'
  BY <1>15 DEF RunReturns, Phase
<1>16. ASSUME NEW r \in Runs, RunAnnounces(r) PROVE TypeOK'
  BY <1>16 DEF RunAnnounces, Emit, Event, Phase
<1>17. ASSUME Exited PROVE TypeOK'
  BY <1>17 DEF Exited, vars
<1> QED
  BY <1>1, <1>2, <1>3, <1>4, <1>5, <1>6, <1>7, <1>8, <1>9, <1>10, <1>11, <1>12,
     <1>13, <1>14, <1>15, <1>16, <1>17 DEF Next, Scan, Serve, Run

(* Every reachable state of the loop is well typed, and the channel never  *)
(* holds more than its capacity.                                           *)
THEOREM TypeCorrect == Spec => []TypeOK
BY TypeInit, TypeStep, PTL DEF Spec

-----------------------------------------------------------------------------
(* OneRunAtATime is inductive on its own, because StartRun comes after the *)
(* wait of stopRun.                                                        *)
LEMMA OneRunStep == TypeOK /\ OneRunAtATime /\ [Next]_vars => OneRunAtATime'
<1> SUFFICES ASSUME TypeOK, OneRunAtATime, [Next]_vars PROVE OneRunAtATime'
  OBVIOUS
<1> USE DEF OneRunAtATime, Live, Started, TypeOK
<1>1. CASE UNCHANGED <<run, phase>>
  BY <1>1
<1>2. ASSUME StartRun PROVE OneRunAtATime'
  BY <1>2 DEF StartRun, Drained, Runs
<1>3. ASSUME FinishAbort \/ Exit PROVE OneRunAtATime'
  BY <1>3 DEF FinishAbort, Exit, Drained, Runs
<1>4. ASSUME NEW r \in Runs, Run(r) PROVE OneRunAtATime'
  <2>1. run' = run /\ Live' \subseteq Live \cup {r} /\ r \in Live
    BY <1>4 DEF Run, RunStarting, RunEmits, RunReturns, RunAnnounces
  <2> QED
    BY <2>1
<1>5. CASE UNCHANGED vars
  BY <1>5 DEF vars
<1> QED
  BY <1>1, <1>2, <1>3, <1>4, <1>5 DEF Next, CloseStdin, WriteLine, Exited,
     Scan, ScanCommand, ScanMalformed, ScanEnds,
     Serve, ReceiveStop, ReceiveUnknown, ReceiveClosed

(* At most one run goroutine is alive at any time, and it is the one that  *)
(* the next command, or the end of stdin, will cancel and wait for.        *)
THEOREM OneRun == Spec => []OneRunAtATime
<1>1. Init => OneRunAtATime
  BY DEF Init, OneRunAtATime, Live, Started
<1> QED
  BY <1>1, OneRunStep, TypeCorrect, PTL DEF Spec

-----------------------------------------------------------------------------
(* What the order of the output and the contract rest on: runs are started *)
(* in the order of their numbers, the run of serve is the newest of them,  *)
(* only a run that has written starting is on stdout, and its session_idle *)
(* is there only once it is done.                                          *)
StartedInOrder == \A q, r \in Runs : q < r /\ phase[r] # "new" => phase[q] # "new"
CurrentIsNewest == \A q \in Runs : run # 0 /\ q > run => phase[q] = "new"
OutputIsOfRuns ==
  \A i \in DOMAIN out :
    /\ phase[out[i].run] \in {"running", "announcing", "done"}
    /\ out[i].type = "session_idle" => phase[out[i].run] = "done"

IInv == /\ TypeOK /\ OneRunAtATime
        /\ StartedInOrder /\ CurrentIsNewest /\ OutputIsOfRuns /\ OutputInRunOrder

(* At first no run has started and nothing is on stdout. *)
LEMMA IInvInit == Init => IInv
<1> SUFFICES ASSUME Init PROVE IInv
  OBVIOUS
<1>1. DOMAIN out = {}
  BY DEF Init
<1>2. OneRunAtATime /\ StartedInOrder /\ CurrentIsNewest
  BY DEF Init, OneRunAtATime, Live, Started, StartedInOrder, CurrentIsNewest
<1> QED
  BY <1>1, <1>2, TypeInit DEF IInv, OutputIsOfRuns, OutputInRunOrder

(* Emit leaves what is on stdout and adds one event after it. *)
LEMMA EmitAppends ==
  ASSUME TypeOK, NEW r, NEW type, Emit(r, type)
  PROVE  LET n == Len(out) + 1
         IN  /\ DOMAIN out' = DOMAIN out \cup {n}
             /\ out'[n] = [run |-> r, type |-> type]
             /\ \A i \in DOMAIN out : out'[i] = out[i] /\ i < n
BY DEF Emit, TypeOK

(* An event of the live run may follow everything on stdout. *)
LEMMA EmitInOrder ==
  ASSUME IInv, NEW r \in Live, NEW type, Emit(r, type),
         type \in {"starting", "event", "session_idle"},
         type = "starting" => phase[r] = "spawned"
  PROVE  OutputInRunOrder'
<1> USE DEF IInv, TypeOK
<1> DEFINE e == [run |-> r, type |-> type]
           n == Len(out) + 1
<1>1. /\ r \in Runs /\ r = run /\ r # 0 /\ phase[r] \notin {"new", "done"}
  BY DEF OneRunAtATime, Live, Started, Runs
<1>2. ASSUME NEW i \in DOMAIN out
      PROVE  /\ out[i].run <= r
             /\ out[i].run = r => type # "starting" /\ out[i].type # "session_idle"
  <2>1. out[i].run \in Runs /\ phase[out[i].run] # "new"
    <3>1. out[i] \in Event
      OBVIOUS
    <3> QED
      BY <3>1 DEF OutputIsOfRuns, Event
  <2>2. out[i].run <= r
    BY <1>1, <2>1 DEF CurrentIsNewest, Runs
  <2>3. out[i].run = r => type # "starting" /\ out[i].type # "session_idle"
    BY <1>1 DEF OutputIsOfRuns
  <2> QED
    BY <2>2, <2>3
<1>3. /\ DOMAIN out' = DOMAIN out \cup {n} /\ out'[n] = e
      /\ \A i \in DOMAIN out : out'[i] = out[i] /\ i < n
  BY EmitAppends
<1>4. e.run = r /\ e.type = type
  OBVIOUS
<1> SUFFICES ASSUME NEW i \in DOMAIN out', NEW j \in DOMAIN out', i < j
             PROVE  /\ out'[i].run <= out'[j].run
                    /\ out'[i].run = out'[j].run => /\ out'[j].type # "starting"
                                                    /\ out'[i].type # "session_idle"
  BY DEF OutputInRunOrder
<1>5. CASE j \in DOMAIN out
  <2>1. i \in DOMAIN out
    BY <1>3, <1>5
  <2> QED
    BY <1>3, <1>5, <2>1 DEF OutputInRunOrder
<1>6. CASE j = n
  <2>1. i \in DOMAIN out
    BY <1>3, <1>6
  <2> QED
    BY <1>2, <1>3, <1>4, <1>6, <2>1
<1> QED
  BY <1>3, <1>5, <1>6

(* Every handler keeps IInv; only Emit adds to stdout. *)
LEMMA IInvStep == IInv /\ [Next]_vars => IInv'
<1> SUFFICES ASSUME IInv, [Next]_vars PROVE IInv'
  OBVIOUS
<1>1. TypeOK' /\ OneRunAtATime'
  BY TypeStep, OneRunStep DEF IInv
<1> DEFINE Rest == StartedInOrder /\ CurrentIsNewest /\ OutputIsOfRuns /\ OutputInRunOrder
<1>2. ASSUME UNCHANGED <<run, phase, out>> PROVE Rest'
  BY <1>2 DEF IInv, StartedInOrder, CurrentIsNewest, OutputIsOfRuns, OutputInRunOrder
<1>3. ASSUME StartRun PROVE Rest'
  <2> PICK r \in Runs :
        /\ phase[r] = "new" /\ \A q \in 1..(r - 1) : phase[q] # "new"
        /\ run' = r /\ phase' = [phase EXCEPT ![r] = "spawned"]
    BY <1>3 DEF StartRun
  <2>1. StartedInOrder' /\ CurrentIsNewest'
    BY DEF IInv, TypeOK, Runs, StartedInOrder, CurrentIsNewest
  <2>2. out' = out /\ \A i \in DOMAIN out : phase'[out[i].run] = phase[out[i].run]
    <3>1. out' = out
      BY <1>3 DEF StartRun
    <3>2. \A i \in DOMAIN out : out[i].run \in Runs /\ phase[out[i].run] # "new"
      <4>1. \A i \in DOMAIN out : out[i] \in Event
        BY DEF IInv, TypeOK
      <4>2. \A i \in DOMAIN out : out[i].run \in Runs
        BY <4>1 DEF Event
      <4> QED
        BY <4>2 DEF IInv, OutputIsOfRuns
    <3>3. phase \in [Runs -> Phase]
      BY DEF IInv, TypeOK
    <3> QED
      BY <3>1, <3>2, <3>3
  <2> QED
    BY <2>1, <2>2 DEF IInv, OutputIsOfRuns, OutputInRunOrder
<1>4. ASSUME FinishAbort \/ Exit PROVE Rest'
  BY <1>4 DEF FinishAbort, Exit, IInv, StartedInOrder, CurrentIsNewest,
     OutputIsOfRuns, OutputInRunOrder
<1>5. ASSUME NEW r \in Runs, Run(r) PROVE Rest'
  <2>1. /\ r \in Live /\ run' = run
        /\ \A q \in Runs \ {r} : phase'[q] = phase[q]
        /\ phase'[r] \in {"running", "announcing", "done"}
    BY <1>5 DEF Run, RunStarting, RunEmits, RunReturns, RunAnnounces, IInv, TypeOK,
       Live, Started
  <2>2. StartedInOrder' /\ CurrentIsNewest'
    BY <2>1 DEF IInv, StartedInOrder, CurrentIsNewest, Live, Started
  <2>3. \A i \in DOMAIN out : /\ phase'[out[i].run] \in {"running", "announcing", "done"}
                              /\ out[i].type = "session_idle" => phase'[out[i].run] = "done"
    <3>1. \A i \in DOMAIN out : out[i] \in Event
      BY DEF IInv, TypeOK
    <3>2. \A i \in DOMAIN out : out[i].run \in Runs
      BY <3>1 DEF Event
    <3> QED
      BY <2>1, <3>2 DEF IInv, OutputIsOfRuns, Live
  <2>4. CASE RunReturns(r)
    BY <2>2, <2>3, <2>4 DEF RunReturns, IInv, OutputIsOfRuns, OutputInRunOrder
  <2>5. ASSUME NEW type \in {"starting", "event", "session_idle"}, Emit(r, type),
               type = "starting" => phase[r] = "spawned",
               type = "session_idle" => phase'[r] = "done"
        PROVE  Rest'
    <3>1. OutputInRunOrder'
      BY <2>1, <2>5, EmitInOrder
    <3>2. OutputIsOfRuns'
      BY <2>1, <2>3, <2>5 DEF OutputIsOfRuns, Emit, IInv, TypeOK
    <3> QED
      BY <2>2, <3>1, <3>2
  <2>6. CASE RunStarting(r)
    BY <2>5, <2>6 DEF RunStarting
  <2>7. CASE RunEmits(r)
    BY <2>5, <2>7 DEF RunEmits
  <2>8. CASE RunAnnounces(r)
    BY <2>5, <2>8 DEF RunAnnounces, IInv, TypeOK
  <2> QED
    BY <1>5, <2>4, <2>6, <2>7, <2>8 DEF Run
<1>6. \/ UNCHANGED <<run, phase, out>> \/ StartRun \/ FinishAbort \/ Exit
      \/ \E r \in Runs : Run(r)
  BY DEF Next, vars, CloseStdin, WriteLine, Exited, Scan, ScanCommand, ScanMalformed,
     ScanEnds, Serve, ReceiveStop, ReceiveUnknown, ReceiveClosed
<1> QED
  BY <1>1, <1>2, <1>3, <1>4, <1>5, <1>6 DEF IInv

(* IInv holds in every reachable state. *)
LEMMA Invariant == Spec => []IInv
BY IInvInit, IInvStep, PTL DEF Spec

(* The events on stdout are grouped by run, in prompt order, opened by     *)
(* starting and closed by session_idle.                                    *)
THEOREM OutputOrdered == Spec => []OutputInRunOrder
<1>1. IInv => OutputInRunOrder
  BY DEF IInv
<1> QED
  BY <1>1, Invariant, PTL

-----------------------------------------------------------------------------
(* A run that finishes unannounced was cancelled, in every state.          *)
LEMMA CompletionStep ==
  TypeOK /\ CompletionAnnounced /\ [Next]_vars => CompletionAnnounced'
<1> SUFFICES ASSUME TypeOK, CompletionAnnounced, [Next]_vars PROVE CompletionAnnounced'
  OBVIOUS
<1> USE DEF TypeOK, CompletionAnnounced
<1>1. ASSUME UNCHANGED <<phase, out>>, cancelled \subseteq cancelled'
      PROVE  CompletionAnnounced'
  BY <1>1 DEF Announced
<1>2. CASE StartRun
  BY <1>2 DEF StartRun, Announced
<1>3. ASSUME NEW r \in Runs, Run(r) PROVE CompletionAnnounced'
  <2>1. ASSUME NEW type, Emit(r, type)
        PROVE  /\ \A q \in Runs : Announced(q) => Announced(q)'
               /\ type = "session_idle" => Announced(r)'
    BY <2>1, EmitAppends DEF Announced
  <2>2. cancelled' = cancelled
    BY <1>3 DEF Run, RunStarting, RunEmits, RunReturns, RunAnnounces
  <2>3. CASE RunStarting(r)
    BY <2>1, <2>2, <2>3 DEF RunStarting
  <2>4. CASE RunEmits(r)
    BY <2>1, <2>2, <2>4 DEF RunEmits
  <2>5. CASE RunReturns(r)
    BY <2>2, <2>5 DEF RunReturns, Announced
  <2>6. CASE RunAnnounces(r)
    BY <2>1, <2>2, <2>6 DEF RunAnnounces
  <2> QED
    BY <1>3, <2>3, <2>4, <2>5, <2>6 DEF Run
<1> QED
  BY <1>1, <1>2, <1>3 DEF Next, vars, CloseStdin, WriteLine, Exited, Scan, ScanCommand,
     ScanMalformed, ScanEnds, Serve, ReceiveStop, ReceiveUnknown, ReceiveClosed,
     FinishAbort, Exit, CancelCurrent

(* Whatever the interleaving, a finished run without its session_idle is   *)
(* one that serve had cancelled.                                           *)
THEOREM CompletionIsAnnounced == Spec => []CompletionAnnounced
<1>1. Init => CompletionAnnounced
  BY DEF Init, CompletionAnnounced
<1> QED
  BY <1>1, CompletionStep, TypeCorrect, PTL DEF Spec

-----------------------------------------------------------------------------
(* The loop implements SessionContract: a prompt's run begins only when no *)
(* other is running, and ends once, announced or stopped.                  *)
LEMMA LiveRuns ==
  ASSUME IInv PROVE Contract!Running = Live
BY DEF IInv, TypeOK, Contract!Running, Status, Live, Started, Phase

(* Past the wait of stopRun no run goroutine is left. *)
LEMMA NoneLive ==
  ASSUME IInv, Drained PROVE Live = {}
BY DEF IInv, TypeOK, OneRunAtATime, Drained, Live, Started

(* Every step of the loop is one of the contract, or invisible to it. *)
LEMMA ContractStep == IInv /\ IInv' /\ [Next]_vars => [Contract!Next]_(Contract!vars)
<1> SUFFICES ASSUME IInv, IInv', [Next]_vars PROVE [Contract!Next]_(Contract!vars)
  OBVIOUS
<1> DEFINE Ended == serve = "exited"
<1>1. ASSUME UNCHANGED <<phase, out>>, Ended' = Ended PROVE UNCHANGED Contract!vars
  BY <1>1 DEF Contract!vars, Status, Announced, Live, Started
<1>2. ASSUME NEW r \in Runs, NEW over \in {"running", "idle", "stopped"},
             Status' = [Status EXCEPT ![r] = over], Ended' = Ended,
             Status[r] = "running"
      PROVE  [Contract!Next]_(Contract!vars)
  <2>1. CASE over = "running"
    <3>0. Status = [q \in Runs |-> Status[q]]
      BY DEF Status
    <3>1. Status' = Status
      BY <1>2, <2>1, <3>0
    <3> QED
      BY <1>2, <3>1 DEF Contract!vars
  <2>2. CASE over # "running"
    BY <1>2, <2>2 DEF Contract!Next, Contract!End
  <2> QED
    BY <2>1, <2>2
<1>3. CASE StartRun
  <2> PICK r \in Runs :
        /\ phase[r] = "new" /\ \A q \in 1..(r - 1) : phase[q] # "new"
        /\ run' = r /\ phase' = [phase EXCEPT ![r] = "spawned"]
    BY <1>3 DEF StartRun
  <2>1. Contract!Running = {} /\ ~Ended /\ ~Ended'
    BY <1>3, LiveRuns, NoneLive DEF StartRun
  <2>2. Status' = [Status EXCEPT ![r] = "running"]
    BY <1>3 DEF StartRun, Status, Announced, Live, Started, IInv, TypeOK
  <2>3. Status[r] = "new" /\ \A q \in Runs : q < r => Status[q] # "new"
    BY DEF Status, Runs, Live, Started
  <2> QED
    BY <2>1, <2>2, <2>3 DEF Contract!Next, Contract!Begin
<1>4. CASE Exit
  <2>1. Contract!Running = {} /\ ~Ended /\ Ended'
    BY <1>4, LiveRuns, NoneLive DEF Exit
  <2>2. Status' = Status
    BY <1>4 DEF Exit, Status, Announced, Live, Started
  <2> QED
    BY <2>1, <2>2 DEF Contract!Next, Contract!Exit
<1>5. ASSUME NEW r \in Runs, Run(r) PROVE [Contract!Next]_(Contract!vars)
  <2>1. /\ phase[r] \notin {"new", "done"} /\ Ended' = Ended
        /\ \A q \in Runs \ {r} : phase'[q] = phase[q]
        /\ phase'[r] # "new"
    BY <1>5 DEF Run, RunStarting, RunEmits, RunReturns, RunAnnounces, IInv, TypeOK
  <2>2. \A q \in Runs \ {r} : Announced(q)' = Announced(q)
    <3>1. ASSUME NEW type, Emit(r, type), NEW q \in Runs \ {r}
          PROVE  Announced(q)' = Announced(q)
      <4> DEFINE n == Len(out) + 1
      <4>1. /\ DOMAIN out' = DOMAIN out \cup {n} /\ out'[n] = [run |-> r, type |-> type]
            /\ \A i \in DOMAIN out : out'[i] = out[i]
        BY <3>1, EmitAppends DEF IInv
      <4>2. [run |-> r, type |-> type] # [run |-> q, type |-> "session_idle"]
        OBVIOUS
      <4> QED
        BY <4>1, <4>2 DEF Announced
    <3> QED
      BY <1>5, <3>1 DEF Run, RunStarting, RunEmits, RunReturns, RunAnnounces, Announced
  <2>3. \A q \in Runs \ {r} : Status'[q] = Status[q]
    BY <2>1, <2>2 DEF Status, Live, Started
  <2>4. Status[r] = "running" /\ Status'[r] \in {"running", "idle", "stopped"}
    BY <2>1 DEF Status, Live, Started
  <2>5. Status' = [Status EXCEPT ![r] = Status'[r]]
    <3>1. Status = [q \in Runs |-> Status[q]] /\ Status' = [q \in Runs |-> Status'[q]]
      BY DEF Status
    <3> QED
      BY <2>3, <3>1
  <2> QED
    BY <1>2, <2>1, <2>4, <2>5
<1> QED
  BY <1>1, <1>3, <1>4, <1>5 DEF Next, vars, CloseStdin, WriteLine, Exited, Scan,
     ScanCommand, ScanMalformed, ScanEnds, Serve, ReceiveStop, ReceiveUnknown,
     ReceiveClosed, FinishAbort

(* The control loop implements the contract of the process: every          *)
(* behaviour of Spec, seen through Status, is one SessionContract allows.  *)
THEOREM Implements == Spec => ImplementsContract
<1>1. Init => Contract!Init
  BY DEF Init, Contract!Init, Status, Live, Started
<1> QED
  BY <1>1, ContractStep, Invariant, PTL DEF Spec, ImplementsContract, Contract!Spec

-----------------------------------------------------------------------------
(* Where the prompts taken from stdin are: each has its run, waits in the  *)
(* channel, or is in the hands of serve, which is stopping the run before. *)
PromptsOf(s) == {i \in DOMAIN s : s[i] = "prompt"}
Waiting == Cardinality(PromptsOf(cmds))
InHand == IF serve = "prompt" THEN 1 ELSE 0
Accounted == Cardinality(Started) + Waiting + InHand = PromptsIn(scanned)

(* The range over the channel ends only when it is closed and empty.       *)
NothingLeft == serve \in {"eof", "exited"} => cmds = <<>> /\ closed

AccountInv == TypeOK /\ Accounted /\ NothingLeft

(* The prompts of a queue are a finite set; the last element and the head  *)
(* count if they are prompts.                                              *)
LEMMA PromptsCounted ==
  ASSUME NEW s \in Seq(Command)
  PROVE  /\ IsFiniteSet(PromptsOf(s)) /\ Cardinality(PromptsOf(s)) \in Nat
         /\ \A c \in Command : Cardinality(PromptsOf(Append(s, c))) =
              Cardinality(PromptsOf(s)) + (IF c = "prompt" THEN 1 ELSE 0)
         /\ s # <<>> => Cardinality(PromptsOf(s)) =
              Cardinality(PromptsOf(Tail(s))) + (IF Head(s) = "prompt" THEN 1 ELSE 0)
<1> DEFINE P(q) == PromptsOf(q)
<1>1. ASSUME NEW q \in Seq(Command)
      PROVE  IsFiniteSet(PromptsOf(q)) /\ Cardinality(PromptsOf(q)) \in Nat
  <2>1. Len(q) \in Nat /\ PromptsOf(q) \in SUBSET (1..Len(q))
    BY DEF PromptsOf
  <2>2. IsFiniteSet(1..Len(q))
    BY <2>1, FS_Interval
  <2> QED
    BY <2>1, <2>2, FS_Subset, FS_CardinalityType
<1>2. ASSUME NEW c \in Command
      PROVE  Cardinality(PromptsOf(Append(s, c))) =
               Cardinality(PromptsOf(s)) + (IF c = "prompt" THEN 1 ELSE 0)
  <2>1. /\ DOMAIN Append(s, c) = DOMAIN s \cup {Len(s) + 1} /\ Append(s, c)[Len(s) + 1] = c
        /\ \A i \in DOMAIN s : Append(s, c)[i] = s[i]
        /\ Len(s) + 1 \notin DOMAIN s
    OBVIOUS
  <2>2. CASE c = "prompt"
    <3>1. PromptsOf(Append(s, c)) = PromptsOf(s) \cup {Len(s) + 1} /\ Len(s) + 1 \notin PromptsOf(s)
      BY <2>1, <2>2 DEF PromptsOf
    <3> QED
      BY <1>1, <2>2, <3>1, FS_AddElement
  <2>3. CASE c # "prompt"
    <3>1. PromptsOf(Append(s, c)) = PromptsOf(s)
      BY <2>1, <2>3 DEF PromptsOf
    <3> QED
      BY <1>1, <2>3, <3>1
  <2> QED
    BY <2>2, <2>3
<1>3. ASSUME s # <<>>
      PROVE  Cardinality(PromptsOf(s)) =
               Cardinality(PromptsOf(Tail(s))) + (IF Head(s) = "prompt" THEN 1 ELSE 0)
  <2> DEFINE T == PromptsOf(Tail(s))
             U == PromptsOf(s) \ {1}
             f == [i \in T |-> i + 1]
  <2>1. /\ Tail(s) \in Seq(Command) /\ DOMAIN Tail(s) = 1..(Len(s) - 1) /\ DOMAIN s = 1..Len(s)
        /\ Len(s) \in Nat \ {0} /\ Head(s) = s[1]
        /\ \A i \in DOMAIN Tail(s) : Tail(s)[i] = s[i + 1]
    BY <1>3
  <2>2. \A i \in T : i + 1 \in U
    BY <2>1 DEF PromptsOf
  <2>3. \A j \in U : j - 1 \in T /\ (j - 1) + 1 = j
    BY <2>1 DEF PromptsOf
  <2>4. \A i, j \in T : i + 1 = j + 1 => i = j
    BY <2>1 DEF PromptsOf
  <2>5. f \in Bijection(T, U)
    <3>1. f \in Injection(T, U)
      BY <2>2, <2>4 DEF Injection, IsInjective
    <3>2. \A j \in U : \E i \in T : f[i] = j
      BY <2>3
    <3>3. f \in Surjection(T, U)
      BY <2>2, <3>2 DEF Surjection
    <3> QED
      BY <3>1, <3>3 DEF Bijection
  <2>6. IsFiniteSet(T) /\ Cardinality(U) = Cardinality(T)
    <3>1. ExistsBijection(T, U) /\ IsFiniteSet(T)
      BY <1>1, <2>1, <2>5 DEF ExistsBijection
    <3> HIDE DEF T, U
    <3> QED
      BY <3>1, FS_Bijection
  <2>7. 1 \in PromptsOf(s) <=> Head(s) = "prompt"
    BY <2>1 DEF PromptsOf
  <2>8. Cardinality(U) = IF 1 \in PromptsOf(s) THEN Cardinality(PromptsOf(s)) - 1
                         ELSE Cardinality(PromptsOf(s))
    BY <1>1, FS_RemoveElement
  <2> QED
    BY <1>1, <2>1, <2>6, <2>7, <2>8
<1> QED
  BY <1>1, <1>2, <1>3

(* A line that is consumed counts if it is a prompt; lines that are only   *)
(* written behind do not.                                                  *)
LEMMA PromptsConsumed ==
  ASSUME TypeOK
  PROVE  /\ PromptsIn(scanned) \in Nat
         /\ scanned < Len(lines) =>
              PromptsIn(scanned + 1) =
                PromptsIn(scanned) + (IF lines[scanned + 1] = "prompt" THEN 1 ELSE 0)
<1> DEFINE In(n) == {i \in 1..n : lines[i] = "prompt"}
<1>1. scanned \in Nat
  BY DEF TypeOK
<1>2. IsFiniteSet(In(scanned)) /\ Cardinality(In(scanned)) \in Nat
  <2>1. In(scanned) \in SUBSET (1..scanned) /\ IsFiniteSet(1..scanned)
    BY <1>1, FS_Interval
  <2> QED
    BY <2>1, FS_Subset, FS_CardinalityType
<1>3. scanned + 1 \notin In(scanned)
  BY <1>1
<1>4. /\ PromptsIn(scanned) = Cardinality(In(scanned))
      /\ PromptsIn(scanned + 1) = Cardinality(In(scanned + 1))
  BY DEF PromptsIn
<1> HIDE DEF In
<1>5. CASE lines[scanned + 1] = "prompt"
  <2>1. In(scanned + 1) = In(scanned) \cup {scanned + 1}
    BY <1>1, <1>5 DEF In
  <2>2. Cardinality(In(scanned + 1)) = Cardinality(In(scanned)) + 1
    BY <1>2, <1>3, <2>1, FS_AddElement
  <2> QED
    BY <1>2, <1>5, <1>4, <2>2
<1>6. CASE lines[scanned + 1] # "prompt"
  <2>1. In(scanned + 1) = In(scanned)
    BY <1>1, <1>6 DEF In
  <2>2. PromptsIn(scanned + 1) = PromptsIn(scanned)
    BY <1>4, <2>1
  <2> QED
    BY <1>2, <1>6, <1>4, <2>2
<1> QED
  BY <1>5, <1>6

(* The started runs are finitely many.                                     *)
LEMMA StartedCounted == IsFiniteSet(Started) /\ Cardinality(Started) \in Nat
<1>1. Started \in SUBSET (1..MaxLines) /\ MaxLines \in Nat
  BY ControlLoopAssumption DEF Started, Runs
<1>2. IsFiniteSet(1..MaxLines)
  BY <1>1, FS_Interval
<1> QED
  BY <1>1, <1>2, FS_Subset, FS_CardinalityType

(* Every handler moves a prompt on without losing it or making one up.     *)
LEMMA AccountStep ==
  ASSUME AccountInv, [Next]_vars
  PROVE  AccountInv'
<1> USE DEF AccountInv
<1>1. TypeOK'
  BY TypeStep
<1>2. /\ Waiting \in Nat /\ PromptsIn(scanned) \in Nat
      /\ IsFiniteSet(Started) /\ Cardinality(Started) \in Nat
  <2>1. cmds \in Seq(Command)
    BY DEF TypeOK
  <2> QED
    BY <2>1, StartedCounted, PromptsCounted, PromptsConsumed DEF Waiting
<1>3. \A r \in Runs : phase[r] # "new" => r \in Started
  BY DEF Started
<1>4. ASSUME UNCHANGED <<cmds, serve, scanned, closed>>, Started' = Started,
             PromptsIn(scanned)' = PromptsIn(scanned)
      PROVE  Accounted' /\ NothingLeft'
  BY <1>4 DEF Accounted, NothingLeft, Waiting, InHand, PromptsOf
<1>5. ASSUME lines' = lines, scanned' = scanned PROVE PromptsIn(scanned)' = PromptsIn(scanned)
  BY <1>5 DEF PromptsIn
<1>6. ASSUME phase' = phase PROVE Started' = Started
  BY <1>6 DEF Started
<1>7. CASE UNCHANGED vars
  BY <1>4, <1>5, <1>6, <1>1, <1>7 DEF vars
<1>8. CASE CloseStdin \/ Exited
  BY <1>4, <1>5, <1>6, <1>1, <1>8 DEF CloseStdin, Exited, vars
<1>9. ASSUME NEW l \in Line, WriteLine(l) PROVE AccountInv'
  <2>1. \A i \in 1..scanned : lines'[i] = lines[i]
    BY <1>9 DEF WriteLine, TypeOK
  <2>2. {i \in 1..scanned : lines'[i] = "prompt"} = {i \in 1..scanned : lines[i] = "prompt"}
    BY <2>1
  <2>3. PromptsIn(scanned)' = PromptsIn(scanned)
    BY <1>9, <2>2 DEF WriteLine, PromptsIn
  <2> QED
    BY <1>1, <1>4, <1>6, <1>9, <2>3 DEF WriteLine
<1>10. ASSUME MoreInput, lines' = lines, scanned' = scanned + 1
       PROVE  PromptsIn(scanned)' =
                PromptsIn(scanned) + (IF NextLine = "prompt" THEN 1 ELSE 0)
  <2>1. PromptsIn(scanned)' = PromptsIn(scanned + 1)
    BY <1>10 DEF PromptsIn
  <2> QED
    BY <1>10, <2>1, PromptsConsumed DEF MoreInput, NextLine
<1>11. CASE ScanCommand
  <2>1. cmds' = Append(cmds, NextLine) /\ NextLine \in Command /\ cmds \in Seq(Command)
    BY <1>11 DEF ScanCommand, TypeOK
  <2>2. Waiting' = Waiting + (IF NextLine = "prompt" THEN 1 ELSE 0)
    <3>1. Waiting' = Cardinality(PromptsOf(Append(cmds, NextLine)))
      BY <2>1 DEF Waiting, PromptsOf
    <3> QED
      BY <2>1, <3>1, PromptsCounted DEF Waiting
  <2>3. PromptsIn(scanned)' = PromptsIn(scanned) + (IF NextLine = "prompt" THEN 1 ELSE 0)
    BY <1>10, <1>11 DEF ScanCommand
  <2>4. Started' = Started /\ InHand' = InHand /\ InHand \in {0, 1}
    BY <1>6, <1>11 DEF ScanCommand, InHand
  <2>5. Accounted'
    BY <1>2, <2>2, <2>3, <2>4 DEF Accounted
  <2>6. NothingLeft'
    BY <1>11 DEF NothingLeft, ScanCommand, MoreInput
  <2> QED
    BY <1>1, <2>5, <2>6
<1>12. CASE ScanMalformed
  <2>1. PromptsIn(scanned)' = PromptsIn(scanned)
    BY <1>2, <1>10, <1>12 DEF ScanMalformed
  <2>2. Waiting' = Waiting /\ Started' = Started /\ InHand' = InHand
    BY <1>6, <1>12 DEF ScanMalformed, InHand, Waiting, PromptsOf
  <2>3. NothingLeft'
    BY <1>12 DEF NothingLeft, ScanMalformed
  <2> QED
    BY <1>1, <2>1, <2>2, <2>3 DEF Accounted
<1>13. CASE ScanEnds
  <2>1. PromptsIn(scanned)' = PromptsIn(scanned) /\ Started' = Started
    BY <1>5, <1>6, <1>13 DEF ScanEnds
  <2>2. Waiting' = Waiting /\ InHand' = InHand
    BY <1>13 DEF ScanEnds, InHand, Waiting, PromptsOf
  <2>3. NothingLeft'
    BY <1>13 DEF NothingLeft, ScanEnds
  <2> QED
    BY <1>1, <2>1, <2>2, <2>3 DEF Accounted
<1>14. CASE ReceiveStop \/ ReceiveUnknown
  <2>1. /\ serve = "range" /\ cmds # <<>> /\ cmds' = Tail(cmds) /\ cmds \in Seq(Command)
        /\ UNCHANGED <<lines, scanned, closed, phase>>
        /\ \/ Head(cmds) \in {"prompt", "abort"} /\ serve' = Head(cmds)
           \/ Head(cmds) = "unknown" /\ serve' = serve
    BY <1>14 DEF ReceiveStop, ReceiveUnknown, TypeOK
  <2>2. Waiting = Waiting' + (IF Head(cmds) = "prompt" THEN 1 ELSE 0) /\ Waiting' \in Nat
    <3>1. Waiting' = Cardinality(PromptsOf(Tail(cmds))) /\ Tail(cmds) \in Seq(Command)
      BY <2>1 DEF Waiting, PromptsOf
    <3> QED
      BY <2>1, <3>1, PromptsCounted DEF Waiting
  <2>3. InHand = 0 /\ InHand' = IF Head(cmds) = "prompt" THEN 1 ELSE 0
    BY <2>1 DEF InHand
  <2>4. PromptsIn(scanned)' = PromptsIn(scanned) /\ Started' = Started
    BY <1>5, <1>6, <2>1
  <2>5. Accounted'
    BY <1>2, <2>2, <2>3, <2>4 DEF Accounted
  <2>6. NothingLeft'
    BY <2>1 DEF NothingLeft
  <2> QED
    BY <1>1, <2>5, <2>6
<1>15. CASE ReceiveClosed \/ FinishAbort \/ Exit
  <2>1. PromptsIn(scanned)' = PromptsIn(scanned) /\ Started' = Started
    BY <1>5, <1>6, <1>15 DEF ReceiveClosed, FinishAbort, Exit
  <2>2. Waiting' = Waiting /\ InHand' = InHand
    BY <1>15 DEF ReceiveClosed, FinishAbort, Exit, InHand, Waiting, PromptsOf
  <2>3. NothingLeft'
    BY <1>15 DEF NothingLeft, ReceiveClosed, FinishAbort, Exit
  <2> QED
    BY <1>1, <2>1, <2>2, <2>3 DEF Accounted
<1>16. CASE StartRun
  <2>1. PICK r \in Runs : phase[r] = "new" /\ phase' = [phase EXCEPT ![r] = "spawned"]
    BY <1>16 DEF StartRun
  <2>2. Started' = Started \cup {r} /\ r \notin Started
    BY <2>1 DEF Started, TypeOK
  <2>3. Cardinality(Started)' = Cardinality(Started) + 1
    BY <1>2, <2>2, FS_AddElement
  <2>4. /\ serve = "prompt" /\ serve' = "range"
        /\ UNCHANGED <<lines, scanned, cmds, closed>>
    BY <1>16 DEF StartRun
  <2>5. InHand = 1 /\ InHand' = 0 /\ Waiting' = Waiting
    BY <2>4 DEF InHand, Waiting, PromptsOf
  <2>6. PromptsIn(scanned)' = PromptsIn(scanned)
    BY <1>5, <2>4
  <2>7. Accounted' /\ NothingLeft'
    BY <1>2, <2>3, <2>4, <2>5, <2>6 DEF Accounted, NothingLeft
  <2> QED
    BY <1>1, <2>7
<1>17. ASSUME NEW r \in Runs, Run(r) PROVE AccountInv'
  <2>1. /\ phase[r] # "new" /\ phase'[r] # "new" /\ \A q \in Runs \ {r} : phase'[q] = phase[q]
        /\ UNCHANGED <<lines, scanned, cmds, closed, serve>>
    BY <1>17 DEF Run, RunStarting, RunEmits, RunReturns, RunAnnounces, TypeOK
  <2>2. Started' = Started
    BY <2>1 DEF Started
  <2> QED
    BY <1>1, <1>4, <1>5, <2>1, <2>2
<1> QED
  BY <1>7, <1>8, <1>9, <1>11, <1>12, <1>13, <1>14, <1>15, <1>16, <1>17 DEF Next, Scan, Serve

(* No prompt that was read is lost: when the process is over, there has    *)
(* been a run for each of them.                                            *)
THEOREM PromptsHaveRuns == Spec => []NoPromptDropped
<1>1. Init => AccountInv
  <2> SUFFICES ASSUME Init PROVE AccountInv
    OBVIOUS
  <2>1. Started = {} /\ PromptsOf(cmds) = {} /\ {i \in 1..scanned : lines[i] = "prompt"} = {}
    BY DEF Init, Started, PromptsOf
  <2>2. Cardinality(Started) = 0 /\ Waiting = 0 /\ PromptsIn(scanned) = 0
    BY <2>1, FS_EmptySet DEF Waiting, PromptsIn
  <2>3. InHand = 0 /\ NothingLeft
    BY DEF Init, InHand, NothingLeft
  <2> QED
    BY <2>2, <2>3, TypeInit DEF AccountInv, Accounted
<1>2. AccountInv => NoPromptDropped
  <2> SUFFICES ASSUME AccountInv, serve = "exited"
               PROVE  Cardinality(Started) = PromptsIn(scanned)
    BY DEF NoPromptDropped
  <2>1. PromptsOf(cmds) = {} /\ InHand = 0
    BY DEF AccountInv, NothingLeft, PromptsOf, InHand
  <2>2. Waiting = 0
    BY <2>1, FS_EmptySet DEF Waiting
  <2>3. Cardinality(Started) \in Nat
    BY StartedCounted
  <2> QED
    BY <2>1, <2>2, <2>3 DEF AccountInv, Accounted
<1>3. AccountInv /\ [Next]_vars => AccountInv'
  BY AccountStep
<1> QED
  BY <1>1, <1>2, <1>3, PTL DEF Spec
=============================================================================
