--------------------------- MODULE AgentRunProofs ---------------------------
(***************************************************************************)
(* The agentic loop for any model, any tools and any bounds: what a run    *)
(* writes, how often it retries, which images it loads and what it leaves  *)
(* on the work item.                                                       *)
(***************************************************************************)
EXTENDS AgentRun, FiniteSetTheorems, TLAPS

(* The constants, one by one. *)
LEMMA Constants ==
  /\ MaxTurns \in Nat \ {0} /\ StreamRetries \in Nat \ {0} /\ Window \in Nat \ {0}
  /\ MaxImages \in Nat /\ PromptCost \in Nat /\ HasItem \in BOOLEAN
  /\ NoID \in CallIDs
  /\ ResultCosts \in [Tool -> SUBSET Nat]
BY AgentRunAssumption DEF CallIDs

(* A reply of the model. *)
LEMMA ReplyType ==
  ASSUME NEW r \in Replies
  PROVE  /\ r.text \in BOOLEAN /\ r.calls \in Seq([id : CallIDs, tool : Tool])
         /\ r.cost \in Nat /\ r.window \in Int
BY AgentRunAssumption

(* An element of a sequence. *)
LEMMA ElementOf ==
  ASSUME NEW S, NEW s \in Seq(S), NEW i \in 1..Len(s)
  PROVE  s[i] \in S
OBVIOUS

(* What the loop keeps between its steps: the counters leave room for the  *)
(* step that counts, and a batch has a call as long as it is worked on.    *)
Working == {"tools", "dispatch", "executing"}
Counting ==
  /\ pc = "backoff" => attempt < StreamRetries
  /\ pc \in {"call", "backoff"} => attempt > 0
  /\ pc \in {"call", "backoff"} \cup Working => turn < MaxTurns
  /\ pc \in {"dispatch", "executing"} => next <= Len(calls)
  /\ pc \in Working => Len(calls) > 0
  /\ pending < next

TypeInv == TypeOK /\ Counting

(* At first nothing has happened. *)
LEMMA TypeInvInit == Init => TypeInv
<1> SUFFICES ASSUME Init PROVE TypeInv
  OBVIOUS
<1>1. Plain("system", PromptCost) \in AnyMessage /\ Plain("user", PromptCost) \in AnyMessage
  BY Constants DEF Plain, Message, AnyMessage
<1>2. Event("starting", NoID) \in AnyEvent
  BY Constants DEF Event, AnyEvent
<1>3. /\ history \in Seq(AnyMessage) /\ out \in Seq(AnyEvent)
      /\ calls \in Seq([id : CallIDs, tool : Tool]) /\ Len(calls) = 0
      /\ comments \in Seq(BashResult \cup {"guard"})
  BY <1>1, <1>2 DEF Init
<1>4. /\ pc = "head" /\ turn = 0 /\ attempt = 0 /\ ctxSize = Window /\ next = 1 /\ pending = 0
      /\ images = 0 /\ selfCommented = FALSE /\ cancelled = FALSE
  BY DEF Init
<1>5. TypeOK
  <2>1. /\ pc \in {"head", "call", "backoff", "tools", "dispatch", "executing", "returned"}
        /\ selfCommented \in BOOLEAN /\ cancelled \in BOOLEAN
    BY <1>4
  <2>2. /\ turn \in 0..MaxTurns /\ attempt \in 0..StreamRetries /\ ctxSize \in Nat \ {0}
        /\ images \in 0..MaxImages
    BY <1>4, Constants
  <2>3. next \in 1..(Len(calls) + 1) /\ pending \in 0..Len(calls)
    BY <1>3, <1>4
  <2> QED
    BY <1>3, <2>1, <2>2, <2>3 DEF TypeOK
<1>6. Counting
  BY <1>4 DEF Counting, Working
<1> QED
  BY <1>5, <1>6 DEF TypeInv

(* Costs of messages are numbers. *)
LEMMA MessageTokensType == \A n, k \in Nat : MessageTokens(n, k) \in Nat
BY DEF MessageTokens, ImageTokenEstimate

(* The events of a reply are events. *)
LEMMA ContentType ==
  ASSUME NEW r \in Replies
  PROVE  Content(r) \in Seq(AnyEvent)
<1>1. Event("content", NoID) \in AnyEvent
  BY Constants DEF Event, AnyEvent
<1>2. CASE r.text
  BY <1>1, <1>2 DEF Content
<1>3. CASE ~r.text
  BY <1>3 DEF Content
<1> QED
  BY <1>2, <1>3

(* Writing events keeps the output a sequence of events. *)
LEMMA EmitType ==
  ASSUME out \in Seq(AnyEvent), NEW events \in Seq(AnyEvent), Emit(events)
  PROVE  out' \in Seq(AnyEvent)
BY DEF Emit

(* Events one by one. *)
LEMMA EventType ==
  \A type \in {"starting", "content", "retry", "tool_start", "tool_done", "comment_failed",
               "error", "message", "finish"}, id \in CallIDs : Event(type, id) \in AnyEvent
BY DEF Event, AnyEvent

(* Writing one event. *)
LEMMA EmitOne ==
  ASSUME out \in Seq(AnyEvent),
         NEW type \in {"starting", "content", "retry", "tool_start", "tool_done",
                       "comment_failed", "error", "message", "finish"},
         NEW id \in CallIDs, Emit(<<Event(type, id)>>)
  PROVE  out' \in Seq(AnyEvent)
<1>1. Event(type, id) \in AnyEvent
  BY EventType
<1>2. out' = out \o <<Event(type, id)>>
  BY DEF Emit
<1> QED
  BY <1>1, <1>2

(* The item's comments after another one. *)
LEMMA CommentsType ==
  ASSUME NEW s \in Seq(BashResult \cup {"guard"}), NEW who, NEW posted,
         posted => who \in BashResult \cup {"guard"}
  PROVE  s \o (IF posted THEN <<who>> ELSE <<>>) \in Seq(BashResult \cup {"guard"})
<1>1. CASE posted
  BY <1>1
<1>2. CASE ~posted
  BY <1>2
<1> QED
  BY <1>1, <1>2

(* Only bash calls post, and what they say of their end is a BashResult.   *)
LEMMA OutcomeType ==
  ASSUME NEW tool, NEW o \in Outcomes(tool)
  PROVE  o.posted \in BOOLEAN /\ (o.posted => tool = "comment" /\ o.result \in BashResult)
BY AgentRunAssumption DEF Outcomes, BashResult

(* A look at the steps of the loop that write at most one event and leave  *)
(* conversation, batch, images and item alone.                             *)
LEMMA PlainSteps ==
  ASSUME TypeInv,
         BeginTurn \/ ExhaustTurns \/ CallFails \/ Retry \/ AbortBackoff \/ CheckCall \/ StartTool \/ Finish
  PROVE  TypeInv'
<1> USE DEF TypeInv, TypeOK, Counting, Working, convo, batch, item, loop
<1>1. CASE BeginTurn
  BY <1>1, Constants DEF BeginTurn
<1>2. CASE ExhaustTurns
  BY <1>2, Constants, EventType DEF ExhaustTurns, Return, Emit
<1>3. CASE CallFails
  <2>1. UNCHANGED <<turn, attempt, history, ctxSize, calls, next, pending, images,
                    selfCommented, comments, cancelled>>
    BY <1>3 DEF CallFails
  <2>2. pc' \in {"returned", "backoff"} /\ (pc' = "backoff" => attempt < StreamRetries)
    BY <1>3, Constants DEF CallFails, Return
  <2>3. out' \in Seq(AnyEvent)
    <3>1. out' = out \/ \E type \in {"error", "retry"} : out' = out \o <<Event(type, NoID)>>
                  \/ out' = out \o <<>>
      BY <1>3 DEF CallFails, Return, Emit
    <3>2. \A type \in {"error", "retry"} : Event(type, NoID) \in AnyEvent
      BY Constants, EventType
    <3>3. out \in Seq(AnyEvent)
      OBVIOUS
    <3> QED
      BY ONLY <3>1, <3>2, <3>3
  <2>4. pc = "call"
    BY <1>3 DEF CallFails
  <2> QED
    BY <2>1, <2>2, <2>3, <2>4, Constants
<1>4. CASE Retry
  BY <1>4, Constants DEF Retry
<1>5. CASE AbortBackoff
  BY <1>5, Constants DEF AbortBackoff, Return, Emit
<1>6. CASE CheckCall
  BY <1>6, Constants DEF CheckCall
<1>7. CASE StartTool
  <2>0. next \in 1..Len(calls)
    BY <1>7 DEF StartTool
  <2>1. calls[next] \in [id : CallIDs, tool : Tool]
    <3> HIDE DEF Counting
    <3> QED
      BY <2>0, ElementOf
  <2>2. Call.id \in CallIDs
    BY <2>1 DEF Call
  <2> QED
    BY <1>7, <2>2, Constants, EventType DEF StartTool, Emit
<1>8. CASE Finish
  BY <1>8, Constants, EventType DEF Finish, Return, Emit
<1> QED
  BY <1>1, <1>2, <1>3, <1>4, <1>5, <1>6, <1>7, <1>8

(* The assistant's message that Accept appends. *)
Answered(r) == Message("assistant", {r.calls[i].id : i \in DOMAIN r.calls}, NoID, r.cost, "none")

(* Every message that the loop appends is one. *)
LEMMA MessageTypes ==
  /\ \A r \in Replies : Answered(r) \in AnyMessage
  /\ \A id \in CallIDs, cost \in Nat : Message("tool", {}, id, cost, "none") \in AnyMessage
  /\ \A k \in Nat : Injected(k) \in AnyMessage
<1>1. ASSUME NEW r \in Replies PROVE Answered(r) \in AnyMessage
  <2>1. {r.calls[i].id : i \in DOMAIN r.calls} \subseteq CallIDs
    <3>1. \A i \in DOMAIN r.calls : r.calls[i] \in [id : CallIDs, tool : Tool]
      <4>1. r.calls \in Seq([id : CallIDs, tool : Tool])
        BY ReplyType
      <4>2. \A s \in Seq([id : CallIDs, tool : Tool]) : DOMAIN s = 1..Len(s)
        OBVIOUS
      <4> QED
        BY <4>1, <4>2, ElementOf
    <3> QED
      BY <3>1
  <2> QED
    BY <2>1, ReplyType, Constants DEF Answered, Message, AnyMessage
<1>2. \A id \in CallIDs, cost \in Nat : Message("tool", {}, id, cost, "none") \in AnyMessage
  BY DEF Message, AnyMessage
<1>3. \A k \in Nat : Injected(k) \in AnyMessage
  BY Constants, MessageTokensType DEF Injected, Message, AnyMessage
<1> QED
  BY <1>1, <1>2, <1>3

(* Answers keep the types. *)
LEMMA AnswerSteps ==
  ASSUME TypeInv, NEW r \in Replies, Answer(r)
  PROVE  TypeInv'
<1> USE DEF convo, batch, item, loop
<1>0. TypeOK /\ Counting
  BY DEF TypeInv
<1>1. CASE AnswerTooLate(r)
  <2>1. PICK shown \in {<<>>, Content(r)} : Return(shown)
    BY <1>1 DEF AnswerTooLate
  <2>2. out' \in Seq(AnyEvent)
    <3>1. shown \in Seq(AnyEvent)
      <4>1. <<>> \in Seq(AnyEvent) /\ Content(r) \in Seq(AnyEvent)
        BY ContentType
      <4>2. shown = <<>> \/ shown = Content(r)
        BY <2>1
      <4> QED
        BY ONLY <4>1, <4>2
    <3>2. out \in Seq(AnyEvent) /\ Emit(shown)
      BY <1>0, <2>1 DEF Return, TypeOK
    <3> QED
      BY ONLY <3>1, <3>2, EmitType
  <2> QED
    BY <1>0, <1>1, <2>1, <2>2 DEF AnswerTooLate, Return, TypeInv, TypeOK, Counting, Working
<1>2. ASSUME Accept(r) PROVE history' \in Seq(AnyMessage) /\ ctxSize' \in Nat \ {0}
  <2>1. history' = Append(history, Answered(r))
    BY <1>2 DEF Accept, Answered
  <2>2. ContextWindow(r.window) \in Nat
    BY ReplyType DEF ContextWindow, CtxWindowMin
  <2>3. ctxSize' \in Nat \ {0}
    BY <1>0, <1>2, <2>2 DEF Accept, TypeOK
  <2> QED
    BY <1>0, <2>1, <2>3, MessageTypes DEF TypeOK
<1>3. CASE AnswerPlain(r)
  <2>1. Content(r) \o (IF r.text THEN <<Event("message", NoID)>> ELSE <<>>) \in Seq(AnyEvent)
    <3>1. (IF r.text THEN <<Event("message", NoID)>> ELSE <<>>) \in Seq(AnyEvent)
      BY Constants, EventType
    <3> QED
      BY <3>1, ContentType
  <2>2. out' \in Seq(AnyEvent) /\ pc' = "returned"
    BY <1>0, <1>3, <2>1, EmitType DEF AnswerPlain, Return, TypeOK
  <2>3. history' \in Seq(AnyMessage) /\ ctxSize' \in Nat \ {0}
    BY <1>2, <1>3 DEF AnswerPlain
  <2> QED
    BY <1>0, <1>3, <2>2, <2>3 DEF AnswerPlain, TypeInv, TypeOK, Counting, Working
<1>4. CASE AnswerWithCalls(r)
  <2>1. out' \in Seq(AnyEvent)
    BY <1>0, <1>4, ContentType, EmitType DEF AnswerWithCalls, TypeOK
  <2>2. calls' \in Seq([id : CallIDs, tool : Tool]) /\ Len(calls') > 0 /\ Len(calls') \in Nat
    <3>1. r.calls \in Seq([id : CallIDs, tool : Tool])
      BY ReplyType
    <3>2. calls' = r.calls /\ r.calls # <<>>
      BY <1>4 DEF AnswerWithCalls
    <3> HIDE DEF Tool
    <3> QED
      BY ONLY <3>1, <3>2
  <2>3. /\ next' = 1 /\ pending' = 0 /\ pc' = "tools" /\ turn < MaxTurns /\ turn' = turn
        /\ attempt' = attempt /\ images' = images /\ selfCommented' = selfCommented
        /\ comments' = comments /\ cancelled' = cancelled
    BY <1>0, <1>4 DEF AnswerWithCalls, Accept, Counting
  <2>4. history' \in Seq(AnyMessage) /\ ctxSize' \in Nat \ {0}
    BY <1>2, <1>4 DEF AnswerWithCalls
  <2> QED
    BY <1>0, <2>1, <2>2, <2>3, <2>4 DEF TypeInv, TypeOK, Counting, Working
<1> QED
  BY <1>1, <1>3, <1>4 DEF Answer

(* A tool's result keeps the types. *)
LEMMA ToolSteps ==
  ASSUME TypeInv, ToolReturns
  PROVE  TypeInv'
<1> USE DEF convo, batch, item, loop
<1>0. TypeOK /\ Counting /\ pc = "executing" /\ next \in 1..Len(calls)
  BY DEF TypeInv, ToolReturns, TypeOK, Counting
<1>1. calls[next] \in [id : CallIDs, tool : Tool]
  BY <1>0, ElementOf DEF TypeOK
<1>2. Call.id \in CallIDs /\ Call.tool \in Tool
  BY <1>1 DEF Call
<1>3. PICK o \in Outcomes(Call.tool), cost \in ResultCosts[Call.tool] :
        /\ history' = Append(history, Message("tool", {}, Call.id, cost, "none"))
        /\ pending' = IF o.result = "image" THEN pending + 1 ELSE pending
        /\ selfCommented' = (selfCommented \/ CountsAsComment(o))
        /\ comments' = comments \o IF o.posted THEN <<o.result>> ELSE <<>>
  BY DEF ToolReturns
<1>4. history' \in Seq(AnyMessage)
  <2>1. cost \in Nat
    BY <1>2, Constants
  <2> QED
    BY <1>0, <1>2, <1>3, <2>1, MessageTypes DEF TypeOK
<1>5. pending' \in Nat /\ pending' <= pending + 1 /\ pending \in Nat
  BY <1>0, <1>3 DEF TypeOK
<1>6. selfCommented' \in BOOLEAN
  BY <1>0, <1>3 DEF CountsAsComment, TypeOK
<1>7. comments' \in Seq(BashResult \cup {"guard"})
  BY <1>0, <1>3, OutcomeType, CommentsType DEF TypeOK
<1>8. out' \in Seq(AnyEvent)
  BY <1>0, <1>2, EmitOne DEF ToolReturns, TypeOK
<1>9. /\ next' = next + 1 /\ pc' = "tools" /\ turn' = turn /\ attempt' = attempt /\ ctxSize' = ctxSize
      /\ calls' = calls /\ images' = images /\ cancelled' = cancelled
  BY DEF ToolReturns
<1> QED
  BY <1>0, <1>4, <1>5, <1>6, <1>7, <1>8, <1>9 DEF TypeInv, TypeOK, Counting, Working

(* The guard's comment ends the run. *)
LEMMA GuardSteps ==
  ASSUME TypeInv, FinishWithComment
  PROVE  TypeInv'
<1> USE DEF convo, batch, item, loop
<1>0. TypeOK /\ Counting
  BY DEF TypeInv
<1>1. PICK posted \in BOOLEAN, failed \in BOOLEAN :
        /\ comments' = comments \o IF posted THEN <<"guard">> ELSE <<>>
        /\ Return((IF failed THEN <<Event("comment_failed", NoID)>> ELSE <<>>)
                    \o <<Event("finish", NoID)>>)
  BY DEF FinishWithComment
<1>2. comments' \in Seq(BashResult \cup {"guard"})
  BY <1>0, <1>1, CommentsType DEF TypeOK
<1>3. (IF failed THEN <<Event("comment_failed", NoID)>> ELSE <<>>)
        \o <<Event("finish", NoID)>> \in Seq(AnyEvent)
  <2>1. (IF failed THEN <<Event("comment_failed", NoID)>> ELSE <<>>) \in Seq(AnyEvent)
    BY Constants, EventType
  <2>2. <<Event("finish", NoID)>> \in Seq(AnyEvent)
    BY Constants, EventType
  <2> QED
    BY ONLY <2>1, <2>2
<1>4. out' \in Seq(AnyEvent) /\ pc' = "returned"
  BY <1>0, <1>1, <1>3, EmitType DEF Return, TypeOK
<1> QED
  BY <1>0, <1>2, <1>4 DEF FinishWithComment, TypeInv, TypeOK, Counting, Working

(* The injected images of a turn are messages, and the cap holds. *)
LEMMA EndTurnSteps ==
  ASSUME TypeInv, EndTurn
  PROVE  TypeInv'
<1> USE DEF convo, batch, item, loop
<1>0. TypeOK /\ Counting
  BY DEF TypeInv
<1>1. pending \in Nat /\ [k \in 1..pending |-> Injected(k)] \in Seq(AnyMessage)
  BY <1>0, MessageTypes DEF TypeOK
<1>2. history' \in Seq(AnyMessage)
  <2>1. history \in Seq(AnyMessage) /\ history' = history \o [k \in 1..pending |-> Injected(k)]
    BY <1>0 DEF TypeOK, EndTurn
  <2> QED
    BY ONLY <1>1, <2>1
<1>3. images' \in 0..MaxImages
  BY <1>0, <1>1, Constants DEF EndTurn, TypeOK
<1>4. pc = "tools" /\ turn < MaxTurns /\ turn' = turn + 1 /\ pc' = "head"
  BY <1>0 DEF EndTurn, Counting, Working
<1> QED
  BY <1>0, <1>2, <1>3, <1>4, Constants DEF EndTurn, TypeInv, TypeOK, Counting, Working

(* Every step keeps the types. *)
LEMMA TypeInvStep == TypeInv /\ [Next]_vars => TypeInv'
<1> SUFFICES ASSUME TypeInv, [Next]_vars PROVE TypeInv'
  OBVIOUS
<1>1. CASE UNCHANGED vars
  BY <1>1 DEF vars, loop, convo, batch, item, TypeInv, TypeOK, Counting, Working
<1>2. CASE Cancel
  BY <1>2 DEF Cancel, loop, convo, batch, item, TypeInv, TypeOK, Counting, Working
<1>3. CASE Next /\ ~Cancel /\ ~UNCHANGED vars
  BY <1>3, PlainSteps, AnswerSteps, ToolSteps, GuardSteps, EndTurnSteps
     DEF Next, Advance, ToolEnds, Returned
<1> QED
  BY <1>1, <1>2, <1>3

(* The variables keep their types and the counters their bounds, whatever  *)
(* the model replies: no turn beyond maxTurns, no attempt beyond           *)
(* streamRetries, no image beyond maxImagesPerRun is counted.              *)
THEOREM TypeCorrect == Spec => []TypeOK
<1>1. Spec => []TypeInv
  BY TypeInvInit, TypeInvStep, PTL DEF Spec
<1>2. TypeInv => TypeOK
  BY DEF TypeInv
<1> QED
  BY <1>1, <1>2, PTL

-----------------------------------------------------------------------------
(* The cap on images *)

(* The injected images are the loaded messages, and none was refused as    *)
(* long as there was room.                                                 *)
ImagesInv ==
  /\ IsFiniteSet(ImageMessages("loaded")) /\ Cardinality(ImageMessages("loaded")) = images
  /\ ImageMessages("refused") # {} => images = MaxImages

(* A message without an image leaves the images alone. *)
LEMMA NoImage ==
  ASSUME NEW m, m.image = "none", history \in Seq(AnyMessage), history' = Append(history, m),
         NEW kind \in {"loaded", "refused"}
  PROVE  ImageMessages(kind)' = ImageMessages(kind)
<1>1. /\ Len(history) \in Nat /\ DOMAIN history = 1..Len(history)
      /\ DOMAIN history' = 1..(Len(history) + 1)
      /\ \A i \in 1..Len(history) : history'[i] = history[i]
      /\ history'[Len(history) + 1] = m
  OBVIOUS
<1> QED
  BY <1>1 DEF ImageMessages

(* The size of two sets that have nothing in common. *)
LEMMA DisjointUnion ==
  ASSUME NEW S, NEW T, IsFiniteSet(S), IsFiniteSet(T), S \cap T = {}
  PROVE  /\ IsFiniteSet(S \cup T)
         /\ Cardinality(S \cup T) = Cardinality(S) + Cardinality(T)
<1>1. Cardinality(S \cap T) = 0
  BY FS_EmptySet
<1>2. Cardinality(S) \in Nat /\ Cardinality(T) \in Nat
  BY FS_CardinalityType
<1>3. IsFiniteSet(S \cup T)
  BY FS_Union
<1>4. Cardinality(S \cup T) = Cardinality(S) + Cardinality(T) - Cardinality(S \cap T)
  BY FS_Union
<1> QED
  BY <1>1, <1>2, <1>3, <1>4

(* The end of a turn loads images up to the cap and refuses the others. *)
LEMMA EndTurnImages ==
  ASSUME TypeInv, ImagesInv, EndTurn
  PROVE  ImagesInv'
<1> DEFINE n == Len(history)
           loaded == ImageMessages("loaded")
           injected == [k \in 1..pending |-> Injected(k)]
<1>1. /\ n \in Nat /\ pending \in Nat /\ images \in Nat /\ images <= MaxImages /\ MaxImages \in Nat
      /\ history \in Seq(AnyMessage) /\ DOMAIN history = 1..n
  BY Constants DEF TypeInv, TypeOK
<1>2. /\ images' = IF images + pending <= MaxImages THEN images + pending ELSE MaxImages
      /\ history' = history \o injected
  BY DEF EndTurn
<1>0. PICK d \in Nat : images' = images + d
  <2>1. CASE images + pending <= MaxImages
    BY <1>1, <1>2, <2>1
  <2>2. CASE ~(images + pending <= MaxImages)
    <3>1. MaxImages - images \in Nat /\ MaxImages = images + (MaxImages - images)
      BY <1>1
    <3> QED
      BY <1>2, <2>2, <3>1
  <2> QED
    BY <2>1, <2>2
<1> DEFINE fresh == (n + 1)..(n + d)
<1>3. injected \in Seq(AnyMessage) /\ Len(injected) = pending
  BY <1>1, MessageTypes
<1>4. /\ DOMAIN history' = 1..(n + pending)
      /\ \A i \in 1..n : history'[i] = history[i]
      /\ \A i \in (n + 1)..(n + pending) : history'[i] = Injected(i - n)
  <2> HIDE DEF injected
  <2>1. /\ DOMAIN history' = 1..(n + pending)
        /\ \A i \in 1..n : history'[i] = history[i]
        /\ \A i \in (n + 1)..(n + pending) : history'[i] = injected[i - n]
    <3>1. history' = history \o injected
      BY <1>2
    <3>2. history \in Seq(AnyMessage) /\ injected \in Seq(AnyMessage) /\ pending \in Nat
      BY <1>1, <1>3
    <3>3. Len(injected) = pending /\ n = Len(history)
      BY <1>3
    <3> HIDE DEF n
    <3> QED
      BY ONLY <3>1, <3>2, <3>3
  <2>2. \A i \in (n + 1)..(n + pending) : injected[i - n] = Injected(i - n)
    BY <1>1 DEF injected
  <2> QED
    BY <2>1, <2>2
<1>5. \A k \in Nat : Injected(k).image = IF images + k <= MaxImages THEN "loaded" ELSE "refused"
  BY DEF Injected, Message
<1> HIDE DEF n, injected
<1>6. ImageMessages("loaded")' = loaded \cup fresh
  <2>1. d <= pending /\ \A k \in 1..pending : images + k <= MaxImages <=> k <= d
    BY <1>1, <1>2, <1>0
  <2>2. \A i \in 1..n : history'[i].image = "loaded" <=> i \in loaded
    BY <1>1, <1>4 DEF ImageMessages
  <2>3. \A i \in (n + 1)..(n + pending) : history'[i].image = "loaded" <=> i \in fresh
    <3> TAKE i \in (n + 1)..(n + pending)
    <3>1. i - n \in 1..pending /\ history'[i] = Injected(i - n)
      BY <1>1, <1>4
    <3>2. history'[i].image = "loaded" <=> i - n <= d
      BY <1>5, <2>1, <3>1
    <3> QED
      BY <1>1, <3>1, <3>2
  <2>4. loaded \subseteq 1..n /\ fresh \subseteq (n + 1)..(n + pending)
    BY <1>1, <2>1 DEF ImageMessages
  <2>5. 1..(n + pending) = (1..n) \cup ((n + 1)..(n + pending))
    BY <1>1
  <2>6. ImageMessages("loaded")' = {i \in 1..(n + pending) : history'[i].image = "loaded"}
    BY <1>4 DEF ImageMessages
  <2> HIDE DEF loaded, fresh
  <2> QED
    BY <2>2, <2>3, <2>4, <2>5, <2>6
<1>7. loaded \cap fresh = {}
  BY <1>1, <1>2 DEF ImageMessages
<1>8. IsFiniteSet(fresh) /\ Cardinality(fresh) = d
  <2>1. n + 1 \in Int /\ n + d \in Int
    BY <1>1
  <2>2. Cardinality(fresh) = IF n + 1 > n + d THEN 0 ELSE (n + d) - (n + 1) + 1
    BY <2>1, FS_Interval
  <2>3. IsFiniteSet(fresh)
    BY <2>1, FS_Interval
  <2> QED
    BY <1>1, <2>2, <2>3
<1>9. IsFiniteSet(loaded) /\ Cardinality(loaded) = images
  BY DEF ImagesInv
<1>10. /\ IsFiniteSet(loaded \cup fresh)
       /\ Cardinality(loaded \cup fresh) = images'
  <2>1. IsFiniteSet(loaded) /\ IsFiniteSet(fresh) /\ loaded \cap fresh = {}
    BY <1>7, <1>8, <1>9
  <2> HIDE DEF loaded, fresh
  <2>2. /\ IsFiniteSet(loaded \cup fresh)
        /\ Cardinality(loaded \cup fresh) = Cardinality(loaded) + Cardinality(fresh)
    BY ONLY <2>1, DisjointUnion
  <2> QED
    BY <1>8, <1>9, <1>0, <2>2
<1>11. ImageMessages("refused")' # {} => images' = MaxImages
  <2>1. ASSUME NEW i \in 1..(n + pending), history'[i].image = "refused"
        PROVE  images' = MaxImages
    <3>1. CASE i \in 1..n
      <4>1. history[i].image = "refused"
        BY <1>4, <2>1, <3>1
      <4>2. i \in DOMAIN history
        BY <1>1, <3>1
      <4>3. images = MaxImages
        BY <4>1, <4>2 DEF ImageMessages, ImagesInv
      <4> QED
        BY <1>0, <1>1, <1>2, <4>3
    <3>2. CASE i \notin 1..n
      <4>1. i - n \in 1..pending /\ i \in (n + 1)..(n + pending)
        BY <1>1, <3>2
      <4>2. Injected(i - n).image = "refused"
        BY <1>4, <2>1, <4>1
      <4>3. images + (i - n) > MaxImages
        BY <1>1, <1>5, <4>1, <4>2
      <4> QED
        BY <1>1, <1>2, <4>1, <4>3
    <3> QED
      BY <3>1, <3>2
  <2> QED
    BY <1>4, <2>1 DEF ImageMessages
<1> QED
  BY <1>6, <1>10, <1>11 DEF ImagesInv

(* Every step keeps the images counted. *)
LEMMA ImagesStep == TypeInv /\ ImagesInv /\ [Next]_vars => ImagesInv'
<1> SUFFICES ASSUME TypeInv, ImagesInv, [Next]_vars PROVE ImagesInv'
  OBVIOUS
<1>1. ASSUME history' = history, images' = images PROVE ImagesInv'
  BY <1>1 DEF ImagesInv, ImageMessages
<1>2. ASSUME NEW m, m.image = "none", history' = Append(history, m), images' = images
      PROVE  ImagesInv'
  <2>1. \A kind \in {"loaded", "refused"} : ImageMessages(kind)' = ImageMessages(kind)
    BY <1>2, NoImage DEF TypeInv, TypeOK
  <2> QED
    BY <1>2, <2>1 DEF ImagesInv
<1>3. CASE ToolReturns
  <2>1. PICK cost : history' = Append(history, Message("tool", {}, Call.id, cost, "none"))
    BY <1>3 DEF ToolReturns
  <2> QED
    BY <1>2, <1>3, <2>1 DEF ToolReturns, Message
<1>4. ASSUME NEW r \in Replies, Answer(r) PROVE ImagesInv'
  BY <1>1, <1>2, <1>4
     DEF Answer, AnswerTooLate, AnswerPlain, AnswerWithCalls, Accept, Message, convo
<1>5. CASE EndTurn
  BY <1>5, EndTurnImages
<1>6. CASE ~ToolReturns /\ ~EndTurn /\ ~\E r \in Replies : Answer(r)
  BY <1>1, <1>6
     DEF Next, vars, convo, Cancel, Advance, ToolEnds, BeginTurn, ExhaustTurns, CallFails, Retry, AbortBackoff,
         CheckCall, StartTool, Finish, FinishWithComment, Returned
<1> QED
  BY <1>3, <1>4, <1>5, <1>6

(* No run holds more images than maxImagesPerRun, over all its turns and   *)
(* however many a turn asks for, and none is refused while there is room.  *)
THEOREM ImagesStayBounded == Spec => []ImagesBounded
<1>1. Init => ImagesInv
  <2> SUFFICES ASSUME Init PROVE ImagesInv
    OBVIOUS
  <2>1. \A kind \in {"loaded", "refused"} : ImageMessages(kind) = {}
    BY DEF Init, ImageMessages, Plain, Message
  <2> QED
    BY <2>1, FS_EmptySet DEF Init, ImagesInv
<1>2. TypeInv /\ ImagesInv => ImagesBounded
  BY DEF TypeInv, TypeOK, ImagesInv, ImagesBounded
<1> QED
  BY <1>1, <1>2, TypeInvInit, TypeInvStep, ImagesStep, PTL DEF Spec

-----------------------------------------------------------------------------
(* The comments on the item *)

(* A comment of the agent whose bash call said nothing of an exit has told *)
(* the loop of itself; and the guard writes when the loop knows of none,    *)
(* and ends the run.                                                       *)
CommentInv ==
  \A i \in DOMAIN comments :
    /\ comments[i] \notin {"exit", "guard"} => ~HasItem \/ selfCommented
    /\ comments[i] = "guard" =>
         /\ pc = "returned" /\ i = Len(comments)
         /\ \A j \in 1..(i - 1) : comments[j] = "exit"

(* Comments stay where they are when another one is written behind them or *)
(* none is.                                                                *)
LEMMA OneMore ==
  ASSUME NEW s \in Seq(BashResult \cup {"guard"}), NEW who, NEW posted \in BOOLEAN,
         NEW t, t = s \o (IF posted THEN <<who>> ELSE <<>>)
  PROVE  /\ DOMAIN s = 1..Len(s) /\ Len(s) \in Nat
         /\ \A i \in DOMAIN s : t[i] = s[i]
         /\ ~posted => t = s
         /\ posted => /\ Len(t) = Len(s) + 1 /\ DOMAIN t = 1..(Len(s) + 1)
                      /\ t[Len(s) + 1] = who
<1>1. CASE posted
  <2>1. t = Append(s, who)
    BY <1>1
  <2> QED
    BY <1>1, <2>1
<1>2. CASE ~posted
  BY <1>2
<1> QED
  BY <1>1, <1>2

(* Every step keeps the comments in order. *)
LEMMA CommentStep == TypeInv /\ CommentInv /\ [Next]_vars => CommentInv'
<1> SUFFICES ASSUME TypeInv, CommentInv, [Next]_vars PROVE CommentInv'
  OBVIOUS
<1>0. comments \in Seq(BashResult \cup {"guard"})
  BY DEF TypeInv, TypeOK
<1>1. ASSUME comments' = comments, selfCommented' = selfCommented, pc = "returned" => pc' = pc
      PROVE  CommentInv'
  BY <1>1 DEF CommentInv
<1>2. CASE ToolReturns
  <2>1. PICK o \in Outcomes(Call.tool) :
          /\ selfCommented' = (selfCommented \/ CountsAsComment(o))
          /\ comments' = comments \o IF o.posted THEN <<o.result>> ELSE <<>>
    BY <1>2 DEF ToolReturns
  <2>2. /\ o.posted \in BOOLEAN
        /\ o.posted => /\ o.result # "guard"
                       /\ o.result = "exit" \/ ~HasItem \/ CountsAsComment(o)
    BY OutcomeType DEF CountsAsComment, BashResult
  <2>3. \A i \in DOMAIN comments : comments[i] # "guard"
    BY <1>2 DEF CommentInv, ToolReturns
  <2>4. (selfCommented => selfCommented') /\ (CountsAsComment(o) => selfCommented')
    BY <2>1
  <2>5. CASE ~o.posted
    <3>1. comments' = comments
      BY <1>0, <2>1, <2>5
    <3>2. \A i \in DOMAIN comments : comments[i] # "exit" => ~HasItem \/ selfCommented'
      BY <2>3, <2>4 DEF CommentInv
    <3> QED
      BY <2>3, <3>1, <3>2 DEF CommentInv
  <2>6. CASE o.posted
    <3>1. /\ DOMAIN comments = 1..Len(comments) /\ Len(comments) \in Nat
          /\ \A i \in DOMAIN comments : comments'[i] = comments[i]
          /\ DOMAIN comments' = 1..(Len(comments) + 1)
          /\ comments'[Len(comments) + 1] = o.result
      BY <1>0, <2>1, <2>2, <2>6, OneMore
    <3>2. \A i \in DOMAIN comments' : i \in DOMAIN comments \/ i = Len(comments) + 1
      BY <3>1
    <3>3. \A i \in DOMAIN comments : comments[i] # "exit" => ~HasItem \/ selfCommented'
      BY <2>3, <2>4 DEF CommentInv
    <3>4. \A i \in DOMAIN comments' :
            comments'[i] # "guard" /\ (comments'[i] # "exit" => ~HasItem \/ selfCommented')
      BY <2>2, <2>3, <2>6, <2>4, <3>1, <3>2, <3>3
    <3> QED
      BY <3>4 DEF CommentInv
  <2> QED
    BY <2>2, <2>5, <2>6
<1>3. CASE FinishWithComment
  <2>1. PICK posted \in BOOLEAN : comments' = comments \o IF posted THEN <<"guard">> ELSE <<>>
    BY <1>3 DEF FinishWithComment
  <2>2. /\ HasItem /\ ~selfCommented /\ selfCommented' = selfCommented
        /\ pc # "returned" /\ pc' = "returned"
    BY <1>3 DEF FinishWithComment, NeedsComment, Return
  <2>3. \A i \in DOMAIN comments : comments[i] = "exit"
    BY <2>2 DEF CommentInv
  <2>4. CASE ~posted
    BY <1>0, <2>1, <2>3, <2>4 DEF CommentInv
  <2>5. CASE posted
    <3>1. /\ DOMAIN comments = 1..Len(comments) /\ Len(comments) \in Nat
          /\ \A i \in DOMAIN comments : comments'[i] = comments[i]
          /\ Len(comments') = Len(comments) + 1 /\ DOMAIN comments' = 1..(Len(comments) + 1)
          /\ comments'[Len(comments) + 1] = "guard"
      BY <1>0, <2>1, <2>5, OneMore
    <3>2. \A i \in DOMAIN comments' : i \in DOMAIN comments \/ i = Len(comments')
      BY <3>1
    <3>3. \A j \in 1..(Len(comments') - 1) : comments'[j] = "exit"
      BY <2>3, <3>1
    <3> QED
      BY <2>2, <2>3, <3>1, <3>2, <3>3 DEF CommentInv
  <2> QED
    BY <2>4, <2>5
<1>4. ASSUME NEW r \in Replies, Answer(r) PROVE CommentInv'
  BY <1>1, <1>4 DEF Answer, AnswerTooLate, AnswerPlain, AnswerWithCalls, Accept, item
<1>5. CASE ~ToolReturns /\ ~FinishWithComment /\ ~\E r \in Replies : Answer(r)
  BY <1>1, <1>5
     DEF Next, vars, item, Cancel, Advance, ToolEnds, BeginTurn, ExhaustTurns, CallFails, Retry,
         AbortBackoff, CheckCall, StartTool, Finish, EndTurn, Returned
<1> QED
  BY <1>2, <1>3, <1>4, <1>5

(* Whatever bash calls with a comment command in them post and say: the    *)
(* guard speaks once and last, and never on top of a comment whose call    *)
(* said nothing of an exit, in whichever turn that was.                    *)
THEOREM StandsDown == Spec => []GuardStandsDown
<1>1. Init => CommentInv
  BY DEF Init, CommentInv
<1>2. CommentInv => GuardStandsDown
  BY DEF CommentInv, GuardStandsDown
<1> QED
  BY <1>1, <1>2, TypeInvInit, TypeInvStep, CommentStep, PTL DEF Spec

(* A run that knows of a comment has left one, or is cancelled on its way  *)
(* out; and finish is the last thing a run does.                           *)
SilenceInv ==
  /\ selfCommented /\ comments = <<>> => cancelled /\ pc \in {"tools", "head", "returned"}
  /\ "finish" \in Types(out) => pc = "returned"
  /\ FinishBreaksSilence

(* The types of events written one after the other. *)
LEMMA TypesOfBoth ==
  ASSUME NEW s \in Seq(AnyEvent), NEW t \in Seq(AnyEvent)
  PROVE  s \o t \in Seq(AnyEvent) /\ Types(s \o t) = Types(s) \cup Types(t)
<1> DEFINE u == s \o t
<1>1. /\ u \in Seq(AnyEvent) /\ DOMAIN s = 1..Len(s) /\ DOMAIN t = 1..Len(t)
      /\ DOMAIN u = 1..(Len(s) + Len(t)) /\ Len(s) \in Nat /\ Len(t) \in Nat
      /\ \A i \in 1..Len(s) : u[i] = s[i]
      /\ \A i \in 1..Len(t) : u[Len(s) + i] = t[i]
  OBVIOUS
<1> HIDE DEF u
<1>2. \A i \in DOMAIN u : i \in DOMAIN s \/ \E j \in DOMAIN t : i = Len(s) + j
  <2> TAKE i \in DOMAIN u
  <2>1. i \notin DOMAIN s => i - Len(s) \in 1..Len(t) /\ i = Len(s) + (i - Len(s))
    BY <1>1
  <2> QED
    BY <1>1, <2>1
<1>3. \A i \in DOMAIN u : u[i].type \in Types(s) \cup Types(t)
  <2> TAKE i \in DOMAIN u
  <2>1. CASE i \in DOMAIN s
    BY <1>1, <2>1 DEF Types
  <2>2. ASSUME NEW j \in DOMAIN t, i = Len(s) + j
        PROVE  u[i].type \in Types(t)
    BY <1>1, <2>2 DEF Types
  <2> QED
    BY <1>2, <2>1, <2>2
<1>4. \A i \in DOMAIN s : s[i].type \in Types(u)
  <2> TAKE i \in DOMAIN s
  <2>1. i \in DOMAIN u /\ u[i] = s[i]
    BY <1>1
  <2> QED
    BY <2>1 DEF Types
<1>5. \A j \in DOMAIN t : t[j].type \in Types(u)
  <2> TAKE j \in DOMAIN t
  <2>1. Len(s) + j \in DOMAIN u /\ u[Len(s) + j] = t[j]
    BY <1>1
  <2> QED
    BY <2>1 DEF Types
<1>6. Types(u) = Types(s) \cup Types(t)
  BY <1>3, <1>4, <1>5 DEF Types
<1> QED
  BY <1>1, <1>6 DEF u

(* The types of the events of a step that writes none or one. *)
LEMMA TypesOfOne ==
  /\ <<>> \in Seq(AnyEvent) /\ Types(<<>>) = {}
  /\ \A t \in {"starting", "content", "retry", "tool_start", "tool_done", "comment_failed",
               "error", "message", "finish"}, id \in CallIDs :
       <<Event(t, id)>> \in Seq(AnyEvent) /\ Types(<<Event(t, id)>>) = {t}
<1>1. Types(<<>>) = {} /\ \A t, id : Types(<<Event(t, id)>>) = {t}
  BY DEF Types, Event
<1>2. \A e \in AnyEvent : <<e>> \in Seq(AnyEvent)
  OBVIOUS
<1> QED
  BY <1>1, <1>2, EventType

(* The types of the events of an answer. *)
LEMMA TypesOfAnswer ==
  ASSUME NEW r \in Replies, Answer(r)
  PROVE  \E events \in Seq(AnyEvent) : Emit(events) /\ Types(events) \subseteq {"content", "message"}
<1>1. Content(r) \in Seq(AnyEvent) /\ Types(Content(r)) \subseteq {"content"}
  BY TypesOfOne, Constants DEF Content
<1> DEFINE message == IF r.text THEN <<Event("message", NoID)>> ELSE <<>>
<1>2. message \in Seq(AnyEvent) /\ Types(message) \subseteq {"message"}
  BY TypesOfOne, Constants
<1>3. CASE AnswerTooLate(r)
  <2>1. PICK shown \in {<<>>, Content(r)} : Emit(shown)
    BY <1>3 DEF AnswerTooLate, Return
  <2>2. CASE shown = <<>>
    BY <2>1, <2>2, TypesOfOne
  <2>3. CASE shown = Content(r)
    BY <1>1, <2>1, <2>3
  <2> QED
    BY <2>1, <2>2, <2>3
<1>4. CASE AnswerPlain(r)
  <2>1. Emit(Content(r) \o message)
    BY <1>4 DEF AnswerPlain, Return
  <2> HIDE DEF message
  <2>2. /\ Content(r) \o message \in Seq(AnyEvent)
        /\ Types(Content(r) \o message) = Types(Content(r)) \cup Types(message)
    BY <1>1, <1>2, TypesOfBoth
  <2> QED
    BY <1>1, <1>2, <2>1, <2>2
<1>5. CASE AnswerWithCalls(r)
  BY <1>1, <1>5 DEF AnswerWithCalls
<1> QED
  BY <1>3, <1>4, <1>5 DEF Answer

(* Steps that write no finish and leave the comments alone. *)
LEMMA SilentStep ==
  ASSUME TypeInv, SilenceInv, pc # "returned", UNCHANGED item, cancelled => cancelled',
         "finish" \notin Types(out'),
         selfCommented /\ comments = <<>> => pc' \in {"tools", "head", "returned"}
  PROVE  SilenceInv'
BY DEF SilenceInv, FinishBreaksSilence, Finished, item

(* Every step keeps the silence broken, when the loop takes no call for a  *)
(* comment that did not post one.                                          *)
LEMMA SilenceStep ==
  ASSUME \A o \in CommentOutcomes : o.result # "exit" => o.posted,
         TypeInv, SilenceInv, [Next]_vars
  PROVE  SilenceInv'
<1>0. out \in Seq(AnyEvent) /\ comments \in Seq(BashResult \cup {"guard"})
  BY DEF TypeInv, TypeOK
<1>1. CASE UNCHANGED vars
  BY <1>1 DEF vars, loop, convo, batch, item, SilenceInv, FinishBreaksSilence, Finished, Call
<1>2. pc # "returned" => "finish" \notin Types(out)
  BY DEF SilenceInv
<1>3. ASSUME NEW t \in {"retry", "error", "tool_start", "tool_done"}, NEW id \in CallIDs,
             Emit(<<Event(t, id)>>), pc # "returned"
      PROVE  "finish" \notin Types(out')
  <2>1. <<Event(t, id)>> \in Seq(AnyEvent) /\ Types(<<Event(t, id)>>) = {t}
    BY TypesOfOne
  <2>2. Types(out') = Types(out) \cup Types(<<Event(t, id)>>)
    BY <1>0, <1>3, <2>1, TypesOfBoth DEF Emit
  <2> QED
    BY <1>2, <1>3, <2>1, <2>2
<1>4. ASSUME Emit(<<>>) PROVE out' = out
  BY <1>0, <1>4 DEF Emit
<1>5. CASE Cancel \/ BeginTurn \/ CheckCall \/ Retry \/ EndTurn
  BY <1>2, <1>5, SilentStep DEF Cancel, BeginTurn, CheckCall, Retry, EndTurn, SilenceInv
<1>6. CASE ExhaustTurns \/ CallFails \/ AbortBackoff
  <2>1. pc \in {"head", "call", "backoff"} /\ UNCHANGED item /\ cancelled' = cancelled
    BY <1>6 DEF ExhaustTurns, CallFails, AbortBackoff
  <2>2. Emit(<<>>) \/ \E t \in {"error", "retry"} : Emit(<<Event(t, NoID)>>)
    BY <1>6 DEF ExhaustTurns, CallFails, AbortBackoff, Return
  <2>3. "finish" \notin Types(out')
    BY <1>2, <1>3, <1>4, <2>1, <2>2, Constants
  <2>4. selfCommented /\ comments = <<>> => pc' = "returned"
    BY <1>6 DEF ExhaustTurns, CallFails, AbortBackoff, Return, SilenceInv
  <2> QED
    BY <2>1, <2>3, <2>4, SilentStep
<1>7. ASSUME NEW r \in Replies, Answer(r) PROVE SilenceInv'
  <2>1. pc = "call" /\ UNCHANGED item /\ cancelled' = cancelled
    BY <1>7 DEF Answer, AnswerTooLate, AnswerPlain, AnswerWithCalls, Accept
  <2>2. ~(selfCommented /\ comments = <<>>)
    BY <2>1 DEF SilenceInv
  <2>3. PICK events \in Seq(AnyEvent) : Emit(events) /\ Types(events) \subseteq {"content", "message"}
    BY <1>7, TypesOfAnswer
  <2>4. Types(out') = Types(out) \cup Types(events)
    BY <1>0, <2>3, TypesOfBoth DEF Emit
  <2>5. "finish" \notin Types(out)
    BY <1>2, <2>1
  <2>6. "finish" \notin Types(out')
    BY <2>3, <2>4, <2>5
  <2> QED
    BY <2>1, <2>2, <2>6, SilentStep
<1>8. ASSUME pc \in {"dispatch", "executing"} PROVE next \in 1..Len(calls) /\ Call.id \in CallIDs
  <2>1. next \in 1..Len(calls)
    BY <1>8 DEF TypeInv, TypeOK, Counting
  <2>2. calls[next] \in [id : CallIDs, tool : Tool]
    BY <2>1, ElementOf DEF TypeInv, TypeOK
  <2> QED
    BY <2>1, <2>2 DEF Call
<1>9. CASE StartTool
  <2>1. pc = "dispatch" /\ UNCHANGED item /\ cancelled' = cancelled /\ Emit(<<Event("tool_start", Call.id)>>)
    BY <1>9 DEF StartTool
  <2>2. "finish" \notin Types(out')
    BY <1>3, <1>8, <2>1
  <2> QED
    BY <2>1, <2>2, SilentStep DEF SilenceInv
<1>10. CASE ToolReturns
  <2>1. pc = "executing" /\ pc' = "tools" /\ cancelled' = cancelled /\ Emit(<<Event("tool_done", Call.id)>>)
    BY <1>10 DEF ToolReturns
  <2>2. "finish" \notin Types(out')
    BY <1>3, <1>8, <2>1
  <2>3. PICK o \in Outcomes(Call.tool) :
          /\ selfCommented' = (selfCommented \/ CountsAsComment(o))
          /\ comments' = comments \o IF o.posted THEN <<o.result>> ELSE <<>>
    BY <1>10 DEF ToolReturns
  <2>4. ~(selfCommented /\ comments = <<>>)
    BY <2>1 DEF SilenceInv
  <2>5. CountsAsComment(o) => o.posted \/ cancelled
    BY DEF CountsAsComment, Outcomes
  <2>6. comments' = <<>> => comments = <<>> /\ ~o.posted
    <3>1. \A e : comments \o <<e>> # <<>>
      BY <1>0
    <3>2. comments \o <<>> = comments
      BY <1>0
    <3> QED
      BY <2>3, <3>1, <3>2
  <2>7. selfCommented' /\ comments' = <<>> => cancelled
    BY <2>3, <2>4, <2>5, <2>6
  <2> QED
    BY <2>1, <2>2, <2>7 DEF SilenceInv, FinishBreaksSilence, Finished
<1>11. CASE Finish
  <2>1. pc = "dispatch" /\ pc' = "returned" /\ UNCHANGED <<calls, next, selfCommented, comments, cancelled>>
        /\ ~NeedsComment
    BY <1>11 DEF Finish, Return, batch, item
  <2>2. Call' = Call
    BY <2>1 DEF Call
  <2>3. ~(selfCommented /\ comments = <<>>)
    BY <2>1 DEF SilenceInv
  <2>4. HasItem /\ Call.tool = "finish" => selfCommented
    BY <2>1 DEF NeedsComment
  <2> QED
    BY <2>1, <2>2, <2>3, <2>4 DEF SilenceInv, FinishBreaksSilence
<1>12. CASE FinishWithComment
  <2>1. PICK posted \in BOOLEAN, failed \in BOOLEAN :
          /\ ~failed => posted
          /\ comments' = comments \o IF posted THEN <<"guard">> ELSE <<>>
          /\ Emit((IF failed THEN <<Event("comment_failed", NoID)>> ELSE <<>>)
                    \o <<Event("finish", NoID)>>)
    BY <1>12 DEF FinishWithComment, Return
  <2>2. pc' = "returned" /\ ~selfCommented /\ selfCommented' = selfCommented
    BY <1>12 DEF FinishWithComment, NeedsComment, Return
  <2>3. failed => "comment_failed" \in Types(out')
    <3> DEFINE failure == IF failed THEN <<Event("comment_failed", NoID)>> ELSE <<>>
               finish == <<Event("finish", NoID)>>
    <3>1. failure \in Seq(AnyEvent) /\ (failed => Types(failure) = {"comment_failed"})
      BY TypesOfOne, Constants
    <3>2. finish \in Seq(AnyEvent)
      BY TypesOfOne, Constants
    <3>3. out' = out \o (failure \o finish)
      BY <2>1 DEF Emit
    <3> HIDE DEF failure, finish
    <3>4. failure \o finish \in Seq(AnyEvent) /\ Types(failure) \subseteq Types(failure \o finish)
      BY <3>1, <3>2, TypesOfBoth
    <3>5. Types(failure \o finish) \subseteq Types(out')
      BY <1>0, <3>3, <3>4, TypesOfBoth
    <3> QED
      BY <3>1, <3>4, <3>5
  <2>4. posted => comments' # <<>>
    BY <1>0, <2>1
  <2> QED
    BY <2>1, <2>2, <2>3, <2>4 DEF SilenceInv, FinishBreaksSilence
<1> QED
  BY <1>1, <1>5, <1>6, <1>7, <1>9, <1>10, <1>11, <1>12 DEF Next, Advance, ToolEnds, Returned

(* When every bash call with a comment command that did not post says      *)
(* "(exit:", a run that finishes with a summary leaves a comment or says   *)
(* that it could not. Timeouts and commands such as `ws ... || true` are   *)
(* what the assumption leaves out.                                         *)
THEOREM SilenceBroken ==
  ASSUME \A o \in CommentOutcomes : o.result # "exit" => o.posted
  PROVE  Spec => []FinishBreaksSilence
<1>1. Init => SilenceInv
  <2> SUFFICES ASSUME Init PROVE SilenceInv
    OBVIOUS
  <2>1. Types(out) = {"starting"}
    BY TypesOfOne, Constants DEF Init
  <2> QED
    BY <2>1 DEF Init, SilenceInv, FinishBreaksSilence, Finished
<1>2. TypeInv /\ SilenceInv => FinishBreaksSilence
  BY DEF SilenceInv
<1>3. TypeInv /\ SilenceInv /\ [Next]_vars => SilenceInv'
  BY SilenceStep
<1> QED
  BY <1>1, <1>2, <1>3, TypeInvInit, TypeInvStep, PTL DEF Spec

-----------------------------------------------------------------------------
(* The events of a run, one after the other *)

(* The events that more than one step writes. *)
Said == Event("content", NoID)
Closing == Event("message", NoID)
Failed == Event("comment_failed", NoID)
Done == Event("finish", NoID)

(* Writing no event, one or two. *)
LEMMA WriteOneOrTwo ==
  ASSUME NEW s \in Seq(AnyEvent), NEW e \in AnyEvent, NEW f \in AnyEvent
  PROVE  /\ s \o <<>> = s /\ s \o (<<>> \o <<>>) = s
         /\ s \o <<e>> = Append(s, e) /\ s \o (<<>> \o <<e>>) = Append(s, e)
         /\ s \o (<<e>> \o <<f>>) = Append(Append(s, e), f)
         /\ Append(s, e) \in Seq(AnyEvent)
OBVIOUS

(* What an answer writes. *)
LEMMA AnswerWrites ==
  ASSUME TypeInv, NEW r \in Replies, Answer(r)
  PROVE  /\ pc = "call" /\ pc' \in {"returned", "tools"} /\ turn' = turn
         /\ pc' = "tools" => next' = 1
         /\ \/ out' = out \/ out' = Append(out, Said)
            \/ out' = Append(Append(out, Said), Closing) /\ pc' = "returned"
<1>1. out \in Seq(AnyEvent) /\ Said \in AnyEvent /\ Closing \in AnyEvent
  BY Constants, EventType DEF TypeInv, TypeOK, Said, Closing
<1>2. /\ out \o <<>> = out /\ out \o (<<>> \o <<>>) = out /\ out \o <<Said>> = Append(out, Said)
      /\ out \o (<<Said>> \o <<Closing>>) = Append(Append(out, Said), Closing)
  BY <1>1, WriteOneOrTwo
<1>3. Content(r) = IF r.text THEN <<Said>> ELSE <<>>
  BY DEF Content, Said
<1>4. pc = "call" /\ pc' \in {"returned", "tools"} /\ turn' = turn /\ (pc' = "tools" => next' = 1)
  BY DEF Answer, AnswerTooLate, AnswerPlain, AnswerWithCalls, Accept, Return, loop
<1>5. CASE AnswerTooLate(r)
  <2>1. PICK shown \in {<<>>, Content(r)} : out' = out \o shown
    BY <1>5 DEF AnswerTooLate, Return, Emit
  <2>2. shown = <<>> \/ shown = <<Said>>
    BY <1>3, <2>1
  <2> QED
    BY <1>2, <1>4, <2>1, <2>2
<1>6. CASE AnswerPlain(r)
  <2>1. pc' = "returned" /\ out' = out \o (Content(r) \o IF r.text THEN <<Closing>> ELSE <<>>)
    BY <1>6 DEF AnswerPlain, Return, Emit, Closing
  <2>2. CASE r.text
    BY <1>2, <1>3, <1>4, <2>1, <2>2
  <2>3. CASE ~r.text
    BY <1>2, <1>3, <1>4, <2>1, <2>3
  <2> QED
    BY <2>2, <2>3
<1>7. CASE AnswerWithCalls(r)
  <2>1. out' = out \o Content(r)
    BY <1>7 DEF AnswerWithCalls, Emit
  <2> QED
    BY <1>2, <1>3, <1>4, <2>1
<1> QED
  BY <1>5, <1>6, <1>7 DEF Answer

(* What a finish writes. *)
LEMMA FinishWrites ==
  ASSUME TypeInv, Finish \/ FinishWithComment
  PROVE  /\ pc = "dispatch" /\ pc' = "returned" /\ turn' = turn
         /\ out' = Append(out, Done) \/ out' = Append(Append(out, Failed), Done)
<1>1. out \in Seq(AnyEvent) /\ Done \in AnyEvent /\ Failed \in AnyEvent
  BY Constants, EventType DEF TypeInv, TypeOK, Done, Failed
<1>2. /\ out \o <<Done>> = Append(out, Done) /\ out \o (<<>> \o <<Done>>) = Append(out, Done)
      /\ out \o (<<Failed>> \o <<Done>>) = Append(Append(out, Failed), Done)
  BY <1>1, WriteOneOrTwo
<1>3. pc = "dispatch" /\ pc' = "returned" /\ turn' = turn
  BY DEF Finish, FinishWithComment, Return, loop
<1>4. CASE Finish
  BY <1>2, <1>3, <1>4 DEF Finish, Return, Emit, Done
<1>5. CASE FinishWithComment
  <2>1. PICK failed \in BOOLEAN : out' = out \o ((IF failed THEN <<Failed>> ELSE <<>>) \o <<Done>>)
    BY <1>5 DEF FinishWithComment, Return, Emit, Done, Failed
  <2> QED
    BY <1>2, <1>3, <2>1
<1> QED
  BY <1>4, <1>5

(* Two events that may follow each other. *)
Pair(d, e) == e.type \in Follows[d.type] /\ (d.type = "tool_start" => e.id = d.id)
Grammatical(s) == s \in Seq(AnyEvent) /\ s # <<>> /\ \A i \in 1..(Len(s) - 1) : Pair(s[i], s[i + 1])

(* Events that follow the last one. *)
LEMMA Extended ==
  ASSUME NEW s, Grammatical(s), NEW e \in AnyEvent, Pair(Last(s), e)
  PROVE  Grammatical(Append(s, e)) /\ Last(Append(s, e)) = e
<1> DEFINE t == Append(s, e)
<1>1. /\ s \in Seq(AnyEvent) /\ t \in Seq(AnyEvent) /\ t # <<>> /\ Len(s) \in Nat /\ Len(s) > 0
      /\ Len(t) = Len(s) + 1 /\ t[Len(s) + 1] = e /\ \A i \in 1..Len(s) : t[i] = s[i]
  BY DEF Grammatical
<1> HIDE DEF t
<1>2. \A i \in 1..(Len(t) - 1) : Pair(t[i], t[i + 1])
  <2> TAKE i \in 1..(Len(t) - 1)
  <2>1. CASE i = Len(s)
    BY <1>1, <2>1 DEF Last
  <2>2. CASE i # Len(s)
    <3>1. i \in 1..(Len(s) - 1) /\ t[i] = s[i] /\ t[i + 1] = s[i + 1]
      BY <1>1, <2>2
    <3> QED
      BY <3>1 DEF Grammatical
  <2> QED
    BY <2>1, <2>2
<1> QED
  BY <1>1, <1>2 DEF Grammatical, Last, t

(* Which event may be the last one where the run is. *)
LastFits ==
  /\ pc = "head" => Last(out).type \in {"starting", "tool_done"}
  /\ pc = "call" => Last(out).type \in {"starting", "tool_done", "retry"}
  /\ pc = "backoff" => Last(out).type = "retry"
  /\ pc \in {"tools", "dispatch"} => Last(out).type \in {"starting", "content", "tool_done", "retry"}
  /\ pc = "tools" /\ next > 1 => Last(out).type = "tool_done"
  /\ pc = "executing" => Last(out).type = "tool_start" /\ Last(out).id = Call.id
  /\ pc = "returned" => Last(out).type \notin {"tool_start", "comment_failed"}

GrammarInv == Grammatical(out) /\ LastFits

(* Every step writes what may follow. *)
LEMMA GrammarStep ==
  ASSUME TypeInv, GrammarInv, [Next]_vars
  PROVE  GrammarInv'
<1> USE DEF GrammarInv
<1>0. /\ Said \in AnyEvent /\ Closing \in AnyEvent /\ Failed \in AnyEvent /\ Done \in AnyEvent
      /\ Event("error", NoID) \in AnyEvent /\ Event("retry", NoID) \in AnyEvent
  BY Constants, EventType DEF Said, Closing, Failed, Done
<1>1. \A type, id : Event(type, id).type = type /\ Event(type, id).id = id
  BY DEF Event
<1>2. /\ Said.type = "content" /\ Closing.type = "message" /\ Failed.type = "comment_failed"
      /\ Done.type = "finish"
  BY <1>1 DEF Said, Closing, Failed, Done
<1>3. /\ \A d : d.type \in {"starting", "retry", "tool_done"} =>
            \A e : e.type \in {"content", "retry", "tool_start", "error", "finish", "comment_failed"} => Pair(d, e)
      /\ \A d : d.type = "content" =>
            \A e : e.type \in {"message", "tool_start", "finish", "comment_failed"} => Pair(d, e)
      /\ \A d : d.type = "comment_failed" => \A e : e.type = "finish" => Pair(d, e)
      /\ \A d : d.type = "tool_start" => \A e : e.type = "tool_done" /\ e.id = d.id => Pair(d, e)
  BY DEF Pair, Follows
<1>4. CASE UNCHANGED vars
  BY <1>4 DEF vars, loop, convo, batch, item, LastFits, Call
<1>5. CASE Cancel \/ BeginTurn \/ CheckCall \/ Retry
  BY <1>5 DEF Cancel, BeginTurn, CheckCall, Retry, LastFits, Call, batch
<1>6. CASE EndTurn
  <2>1. pc = "tools" /\ next > 1
    BY <1>6 DEF EndTurn, TypeInv, TypeOK, Counting, Working
  <2> QED
    BY <1>6, <2>1 DEF EndTurn, LastFits
<1>7. CASE ExhaustTurns
  <2>1. out' = Append(out, Event("error", NoID)) /\ pc = "head" /\ pc' = "returned"
    BY <1>0, <1>7, WriteOneOrTwo DEF ExhaustTurns, Return, Emit, Grammatical
  <2>2. Pair(Last(out), Event("error", NoID))
    BY <1>1, <1>3, <2>1 DEF LastFits
  <2> QED
    BY <1>0, <1>1, <2>1, <2>2, Extended DEF LastFits
<1>8. CASE CallFails
  <2>1. /\ pc = "call"
        /\ \/ pc' = "returned" /\ out' = out
           \/ pc' = "returned" /\ out' = Append(out, Event("error", NoID))
           \/ pc' = "backoff" /\ out' = Append(out, Event("retry", NoID))
    BY <1>0, <1>8, WriteOneOrTwo DEF CallFails, Return, Emit, Grammatical
  <2>2. \A t \in {"error", "retry"} :
          /\ Grammatical(Append(out, Event(t, NoID)))
          /\ Last(Append(out, Event(t, NoID))).type = t
    <3> TAKE t \in {"error", "retry"}
    <3>1. Pair(Last(out), Event(t, NoID)) /\ Event(t, NoID) \in AnyEvent
      BY <1>0, <1>1, <1>3, <2>1 DEF LastFits
    <3> QED
      BY <1>1, <3>1, Extended
  <2>3. CASE pc' = "returned" /\ out' = out
    BY <2>1, <2>3 DEF LastFits
  <2>4. ASSUME NEW t \in {"error", "retry"}, out' = Append(out, Event(t, NoID)),
               pc' = IF t = "error" THEN "returned" ELSE "backoff"
        PROVE  GrammarInv'
    BY <2>2, <2>4 DEF LastFits
  <2> QED
    BY <2>1, <2>3, <2>4
<1>9. CASE AbortBackoff
  <2>1. out' = out /\ pc = "backoff" /\ pc' = "returned"
    BY <1>0, <1>9, WriteOneOrTwo DEF AbortBackoff, Return, Emit, Grammatical
  <2> QED
    BY <2>1 DEF LastFits
<1>10. pc \in {"dispatch", "executing"} => Call.id \in CallIDs
  <2>1. ASSUME pc \in {"dispatch", "executing"} PROVE next \in 1..Len(calls)
    BY <2>1 DEF TypeInv, TypeOK, Counting
  <2>2. pc \in {"dispatch", "executing"} => calls[next] \in [id : CallIDs, tool : Tool]
    BY <2>1, ElementOf DEF TypeInv, TypeOK
  <2> QED
    BY <2>2 DEF Call
<1>11. CASE StartTool
  <2> DEFINE e == Event("tool_start", Call.id)
  <2>1. pc = "dispatch" /\ pc' = "executing" /\ Call' = Call
    BY <1>11 DEF StartTool, batch, Call
  <2>2. e \in AnyEvent
    BY <1>10, <2>1, EventType
  <2>3. out' = Append(out, e)
    BY <1>11, <2>2, WriteOneOrTwo DEF StartTool, Emit, Grammatical
  <2>4. Pair(Last(out), e)
    BY <1>1, <1>3, <2>1 DEF LastFits
  <2>5. Grammatical(out') /\ Last(out') = e
    BY <2>2, <2>3, <2>4, Extended
  <2> QED
    BY <1>1, <2>1, <2>5 DEF LastFits
<1>12. CASE ToolReturns
  <2> DEFINE e == Event("tool_done", Call.id)
  <2>1. pc = "executing" /\ pc' = "tools"
    BY <1>12 DEF ToolReturns
  <2>2. e \in AnyEvent
    BY <1>10, <2>1, EventType
  <2>3. out' = Append(out, e)
    BY <1>12, <2>2, WriteOneOrTwo DEF ToolReturns, Emit, Grammatical
  <2>4. Pair(Last(out), e)
    BY <1>1, <1>3, <2>1 DEF LastFits
  <2>5. Grammatical(out') /\ Last(out') = e
    BY <2>2, <2>3, <2>4, Extended
  <2> QED
    BY <1>1, <2>1, <2>5 DEF LastFits
<1>13. ASSUME NEW r \in Replies, Answer(r) PROVE GrammarInv'
  <2>1. /\ pc = "call" /\ pc' \in {"returned", "tools"} /\ (pc' = "tools" => next' = 1)
        /\ \/ out' = out \/ out' = Append(out, Said)
           \/ out' = Append(Append(out, Said), Closing) /\ pc' = "returned"
    BY <1>13, AnswerWrites
  <2>2. Grammatical(Append(out, Said)) /\ Last(Append(out, Said)) = Said
    <3>1. Pair(Last(out), Said)
      BY <1>2, <1>3, <2>1 DEF LastFits
    <3> QED
      BY <1>0, <3>1, Extended
  <2>3. /\ Grammatical(Append(Append(out, Said), Closing))
        /\ Last(Append(Append(out, Said), Closing)) = Closing
    <3>1. Pair(Said, Closing)
      BY <1>2, <1>3
    <3> QED
      BY <1>0, <2>2, <3>1, Extended
  <2>4. CASE out' = out
    BY <2>1, <2>4 DEF LastFits
  <2>5. CASE out' = Append(out, Said)
    BY <1>2, <2>1, <2>2, <2>5 DEF LastFits
  <2>6. CASE out' = Append(Append(out, Said), Closing) /\ pc' = "returned"
    BY <1>2, <2>3, <2>6 DEF LastFits
  <2> QED
    BY <2>1, <2>4, <2>5, <2>6
<1>14. CASE Finish \/ FinishWithComment
  <2>1. /\ pc = "dispatch" /\ pc' = "returned"
        /\ out' = Append(out, Done) \/ out' = Append(Append(out, Failed), Done)
    BY <1>14, FinishWrites
  <2>2. Pair(Last(out), Done) /\ Pair(Last(out), Failed) /\ Pair(Failed, Done)
    BY <1>2, <1>3, <2>1 DEF LastFits
  <2>3. Grammatical(Append(out, Done)) /\ Last(Append(out, Done)) = Done
    BY <1>0, <2>2, Extended
  <2>4. Grammatical(Append(out, Failed)) /\ Last(Append(out, Failed)) = Failed
    BY <1>0, <2>2, Extended
  <2>5. /\ Grammatical(Append(Append(out, Failed), Done))
        /\ Last(Append(Append(out, Failed), Done)) = Done
    BY <1>0, <2>2, <2>4, Extended
  <2> QED
    BY <1>2, <2>1, <2>3, <2>5 DEF LastFits
<1> QED
  BY <1>4, <1>5, <1>6, <1>7, <1>8, <1>9, <1>11, <1>12, <1>13, <1>14 DEF Next, Advance, ToolEnds, Returned

(* At first there is the starting event. *)
LEMMA GrammarInit == Init => GrammarInv
<1> SUFFICES ASSUME Init PROVE GrammarInv
  OBVIOUS
<1>1. out = <<Event("starting", NoID)>> /\ Event("starting", NoID) \in AnyEvent
  BY Constants, EventType DEF Init
<1>2. out \in Seq(AnyEvent) /\ Len(out) = 1 /\ out[1] = Event("starting", NoID)
  BY <1>1
<1>3. Grammatical(out)
  BY <1>1, <1>2 DEF Grammatical
<1>4. Last(out).type = "starting"
  BY <1>2 DEF Last, Event
<1>5. pc = "head"
  BY DEF Init
<1> QED
  BY <1>3, <1>4, <1>5 DEF GrammarInv, LastFits

(* Whatever the model and the tools do, a run writes its events in the     *)
(* order that the host may rely on.                                        *)
THEOREM OutputIsGrammatical == Spec => []OutputGrammar
<1>1. GrammarInv => OutputGrammar
  BY DEF GrammarInv, Grammatical, Pair, LastFits, OutputGrammar
<1> QED
  BY <1>1, TypeInvInit, TypeInvStep, GrammarInit, GrammarStep, PTL DEF Spec

-----------------------------------------------------------------------------
(* The retries *)

(* The n events before the i-th of s are retries. *)
Row(s, i, n) == \A k \in (i - n)..(i - 1) : k > 0 /\ s[k].type = "retry"

(* Rows of retries when an event is written. *)
LEMMA RowsAfter ==
  ASSUME NEW s \in Seq(AnyEvent), NEW e \in AnyEvent
  PROVE  /\ Len(Append(s, e)) = Len(s) + 1 /\ Append(s, e)[Len(s) + 1] = e
         /\ \A i \in 1..Len(s) : Append(s, e)[i] = s[i]
         /\ \A i \in 1..(Len(s) + 1), n \in Nat : Row(Append(s, e), i, n) <=> Row(s, i, n)
         /\ \A n \in Nat : Row(Append(s, e), Len(s) + 2, n + 1) <=>
                             e.type = "retry" /\ Row(s, Len(s) + 1, n)
         /\ \A i \in 1..(Len(s) + 1), m, n \in Nat : n <= m /\ Row(s, i, m) => Row(s, i, n)
         /\ \A i \in 1..(Len(s) + 1) : Row(s, i, 0)
<1> DEFINE t == Append(s, e)
<1>1. /\ Len(t) = Len(s) + 1 /\ Len(s) \in Nat
      /\ t[Len(s) + 1] = e /\ \A i \in 1..Len(s) : t[i] = s[i]
  OBVIOUS
<1> HIDE DEF t
<1>2. ASSUME NEW i \in 1..(Len(s) + 1), NEW n \in Nat PROVE Row(t, i, n) <=> Row(s, i, n)
  <2>1. \A k \in (i - n)..(i - 1) : k > 0 => t[k] = s[k]
    BY <1>1
  <2> QED
    BY <2>1 DEF Row
<1>3. ASSUME NEW n \in Nat
      PROVE  Row(t, Len(s) + 2, n + 1) <=> e.type = "retry" /\ Row(s, Len(s) + 1, n)
  <2>1. (Len(s) + 2 - (n + 1))..(Len(s) + 2 - 1) = ((Len(s) + 1 - n)..(Len(s) + 1 - 1)) \cup {Len(s) + 1}
    BY <1>1
  <2>2. \A k \in (Len(s) + 1 - n)..(Len(s) + 1 - 1) : k > 0 => t[k] = s[k]
    BY <1>1
  <2>3. Len(s) + 1 > 0 /\ t[Len(s) + 1] = e
    BY <1>1
  <2> QED
    BY <2>1, <2>2, <2>3 DEF Row
<1>4. \A i \in 1..(Len(s) + 1), m, n \in Nat : n <= m /\ Row(s, i, m) => Row(s, i, n)
  BY <1>1 DEF Row
<1>5. \A i \in 1..(Len(s) + 1) : Row(s, i, 0)
  BY <1>1 DEF Row
<1> QED
  BY <1>1, <1>2, <1>3, <1>4, <1>5 DEF t

(* No row of retries is as long as streamRetries, and an error has a       *)
(* reason.                                                                 *)
RowsFit(s, t) ==
  /\ \A i \in 1..(Len(s) + 1) : ~Row(s, i, StreamRetries)
  /\ \A i \in 1..Len(s) : s[i].type = "error" => t = MaxTurns \/ Row(s, i, StreamRetries - 1)

RetryInv ==
  /\ RowsFit(out, turn)
  /\ "error" \in Types(out) => pc = "returned"
  /\ pc = "call" => attempt > 0 /\ ~Row(out, Len(out) + 1, attempt) /\ Row(out, Len(out) + 1, attempt - 1)
  /\ pc = "backoff" => ~Row(out, Len(out) + 1, attempt + 1) /\ Row(out, Len(out) + 1, attempt)

(* Another event that is no retry. *)
LEMMA RowsExtended ==
  ASSUME NEW s \in Seq(AnyEvent), NEW e \in AnyEvent, NEW t, RowsFit(s, t), e.type # "retry",
         e.type = "error" => t = MaxTurns \/ Row(s, Len(s) + 1, StreamRetries - 1)
  PROVE  RowsFit(Append(s, e), t)
<1>1. Len(Append(s, e)) = Len(s) + 1 /\ Len(s) \in Nat
  BY RowsAfter
<1>2. StreamRetries \in Nat /\ StreamRetries - 1 \in Nat /\ StreamRetries = (StreamRetries - 1) + 1
  BY Constants
<1>3. ~Row(Append(s, e), Len(s) + 2, (StreamRetries - 1) + 1)
  <2>1. \A n \in Nat : Row(Append(s, e), Len(s) + 2, n + 1) <=>
                       e.type = "retry" /\ Row(s, Len(s) + 1, n)
    BY RowsAfter
  <2> QED
    BY <1>2, <2>1
<1>4. \A i \in 1..(Len(s) + 1) : ~Row(Append(s, e), i, StreamRetries)
  BY <1>2, RowsAfter DEF RowsFit
<1>5. \A i \in 1..(Len(s) + 2) : i = Len(s) + 2 \/ i \in 1..(Len(s) + 1)
  BY <1>1
<1>6. \A i \in 1..(Len(Append(s, e)) + 1) : ~Row(Append(s, e), i, StreamRetries)
  BY <1>1, <1>2, <1>3, <1>4, <1>5
<1>7. \A i \in 1..(Len(s) + 1) : Append(s, e)[i].type = "error" =>
        t = MaxTurns \/ Row(Append(s, e), i, StreamRetries - 1)
  <2> TAKE i \in 1..(Len(s) + 1)
  <2>1. Row(Append(s, e), i, StreamRetries - 1) <=> Row(s, i, StreamRetries - 1)
    BY <1>2, RowsAfter
  <2>2. CASE i = Len(s) + 1
    BY <2>1, <2>2, RowsAfter
  <2>3. CASE i # Len(s) + 1
    <3>1. i \in 1..Len(s) /\ Append(s, e)[i] = s[i]
      BY <1>1, <2>3, RowsAfter
    <3> QED
      BY <2>1, <3>1 DEF RowsFit
  <2> QED
    BY <2>2, <2>3
<1> QED
  BY <1>1, <1>6, <1>7 DEF RowsFit

(* Every step keeps the rows short. *)
LEMMA RetryStep ==
  ASSUME TypeInv, TypeInv', GrammarInv, RetryInv, [Next]_vars
  PROVE  RetryInv'
<1>0. /\ Said \in AnyEvent /\ Closing \in AnyEvent /\ Failed \in AnyEvent /\ Done \in AnyEvent
      /\ Event("error", NoID) \in AnyEvent /\ Event("retry", NoID) \in AnyEvent
      /\ out \in Seq(AnyEvent) /\ Len(out) \in Nat
  <2>1. out \in Seq(AnyEvent) /\ Len(out) \in Nat
    BY DEF TypeInv, TypeOK
  <2>2. /\ Said \in AnyEvent /\ Closing \in AnyEvent /\ Failed \in AnyEvent /\ Done \in AnyEvent
        /\ Event("error", NoID) \in AnyEvent /\ Event("retry", NoID) \in AnyEvent
    BY Constants, EventType DEF Said, Closing, Failed, Done
  <2> QED
    BY <2>1, <2>2
<1>1. \A type, id : Event(type, id).type = type /\ Event(type, id).id = id
  BY DEF Event
<1>2. /\ Said.type = "content" /\ Closing.type = "message" /\ Failed.type = "comment_failed"
      /\ Done.type = "finish"
  BY <1>1 DEF Said, Closing, Failed, Done
<1>3. StreamRetries \in Nat \ {0} /\ attempt \in Nat /\ attempt <= StreamRetries /\ turn \in Nat
  BY Constants DEF TypeInv, TypeOK
<1>4. \A s \in Seq(AnyEvent), e \in AnyEvent :
        Append(s, e) \in Seq(AnyEvent) /\ Types(Append(s, e)) = Types(s) \cup {e.type}
  <2> TAKE s \in Seq(AnyEvent), e \in AnyEvent
  <2>1. <<e>> \in Seq(AnyEvent) /\ Types(<<e>>) = {e.type} /\ Append(s, e) = s \o <<e>>
    BY DEF Types
  <2> QED
    BY <2>1, TypesOfBoth
<1>5. CASE UNCHANGED vars
  BY <1>5 DEF vars, loop, RetryInv
<1>6. CASE Cancel
  BY <1>6 DEF Cancel, loop, RetryInv
<1>7. ASSUME out' = out, turn' = turn, pc # "returned", pc' \notin {"call", "backoff"}
      PROVE  RetryInv'
  BY <1>7 DEF RetryInv
<1>8. CASE CheckCall \/ AbortBackoff
  BY <1>0, <1>7, <1>8, WriteOneOrTwo DEF CheckCall, AbortBackoff, Return, Emit, loop
<1>9. CASE EndTurn
  <2>1. \A i \in 1..Len(out) : out[i].type # "error"
    BY <1>0, <1>9 DEF EndTurn, RetryInv, Types
  <2> QED
    BY <1>9, <2>1 DEF EndTurn, RetryInv, RowsFit
<1>10. CASE BeginTurn
  <2>1. CASE cancelled
    BY <1>7, <1>10, <2>1 DEF BeginTurn
  <2>2. CASE ~cancelled
    <3>1. ~Row(out, Len(out) + 1, 1)
      BY <1>0, <1>10 DEF BeginTurn, GrammarInv, LastFits, Row, Last, Grammatical
    <3>2. Row(out, Len(out) + 1, 0)
      BY <1>0 DEF Row
    <3> QED
      BY <1>10, <2>2, <3>1, <3>2 DEF BeginTurn, RetryInv
  <2> QED
    BY <2>1, <2>2
<1>11. CASE Retry
  BY <1>3, <1>11 DEF Retry, RetryInv
<1>12. ASSUME NEW e \in AnyEvent, out' = Append(out, e), turn' = turn, pc # "returned",
              pc' \notin {"call", "backoff"}, e.type # "retry",
              e.type = "error" => pc' = "returned" /\ (turn = MaxTurns \/ Row(out, Len(out) + 1, StreamRetries - 1))
       PROVE  RetryInv'
  <2>1. RowsFit(out', turn')
    BY <1>0, <1>12, RowsExtended DEF RetryInv
  <2>2. "error" \in Types(out') => pc' = "returned"
    BY <1>0, <1>4, <1>12 DEF RetryInv
  <2> QED
    BY <1>12, <2>1, <2>2 DEF RetryInv
<1>13. ASSUME NEW e \in AnyEvent, NEW f \in AnyEvent, out' = Append(Append(out, e), f), turn' = turn,
              pc # "returned", pc' \notin {"call", "backoff"}, {e.type, f.type} \cap {"retry", "error"} = {}
       PROVE  RetryInv'
  <2>1. RowsFit(Append(out, e), turn)
    BY <1>0, <1>13, RowsExtended DEF RetryInv
  <2>2. RowsFit(out', turn')
    BY <1>0, <1>4, <1>13, <2>1, RowsExtended
  <2>3. Types(out') = Types(out) \cup {e.type} \cup {f.type}
    <3>1. Append(out, e) \in Seq(AnyEvent) /\ Types(Append(out, e)) = Types(out) \cup {e.type}
      BY <1>0, <1>4
    <3>2. Types(Append(Append(out, e), f)) = Types(Append(out, e)) \cup {f.type}
      BY <1>4, <3>1
    <3> QED
      BY <1>13, <3>1, <3>2
  <2>4. "error" \notin Types(out) /\ e.type # "error" /\ f.type # "error"
    BY <1>13 DEF RetryInv
  <2>5. "error" \notin Types(out')
    BY <2>3, <2>4
  <2> QED
    BY <1>13, <2>2, <2>5 DEF RetryInv
<1>14. CASE ExhaustTurns
  <2>1. out' = Append(out, Event("error", NoID)) /\ pc = "head" /\ pc' = "returned" /\ turn = MaxTurns
        /\ turn' = turn
    BY <1>0, <1>14, WriteOneOrTwo DEF ExhaustTurns, Return, Emit, loop
  <2> QED
    BY <1>0, <1>1, <1>12, <2>1
<1>15. CASE CallFails
  <2>1. pc = "call" /\ turn' = turn /\ attempt' = attempt
    BY <1>15 DEF CallFails, loop
  <2>2. CASE cancelled
    BY <1>0, <1>7, <1>15, <2>1, <2>2, WriteOneOrTwo DEF CallFails, Return, Emit
  <2>3. CASE ~cancelled /\ attempt >= StreamRetries
    <3>1. out' = Append(out, Event("error", NoID)) /\ pc' = "returned" /\ attempt = StreamRetries
      BY <1>0, <1>3, <1>15, <2>3, WriteOneOrTwo DEF CallFails, Return, Emit
    <3>2. Row(out, Len(out) + 1, StreamRetries - 1)
      BY <2>1, <3>1 DEF RetryInv
    <3> QED
      BY <1>0, <1>1, <1>12, <2>1, <3>1, <3>2
  <2>4. CASE ~cancelled /\ attempt < StreamRetries
    <3> DEFINE e == Event("retry", NoID)
    <3>1. out' = Append(out, e) /\ pc' = "backoff"
      BY <1>0, <1>3, <1>15, <2>4, WriteOneOrTwo DEF CallFails, Emit
    <3>2. e \in AnyEvent /\ e.type = "retry"
      BY <1>0, <1>1
    <3> HIDE DEF e
    <3>3. ~Row(out, Len(out) + 1, attempt) /\ Row(out, Len(out) + 1, attempt - 1) /\ attempt > 0
      BY <2>1 DEF RetryInv
    <3>4. Len(out') = Len(out) + 1
      BY <1>0, <3>1, <3>2, RowsAfter
    <3>5. \A n \in Nat : Row(out', Len(out) + 2, n + 1) <=> Row(out, Len(out) + 1, n)
      BY <1>0, <3>1, <3>2, RowsAfter
    <3>6. ~Row(out', Len(out) + 2, attempt + 1)
      BY <1>3, <3>3, <3>5
    <3>7. Row(out', Len(out) + 2, attempt)
      <4>1. attempt - 1 \in Nat /\ attempt = (attempt - 1) + 1
        BY <1>3, <3>3
      <4> QED
        BY <3>3, <3>5, <4>1
    <3>8. ~Row(out', Len(out) + 2, StreamRetries)
      <4>1. StreamRetries - 1 \in Nat /\ attempt <= StreamRetries - 1 /\ StreamRetries = (StreamRetries - 1) + 1
        BY <1>3, <2>4
      <4>2. ~Row(out, Len(out) + 1, StreamRetries - 1)
        <5>1. \A i \in 1..(Len(out) + 1), m, n \in Nat : n <= m /\ Row(out, i, m) => Row(out, i, n)
          BY <1>0, RowsAfter
        <5>2. Len(out) + 1 \in 1..(Len(out) + 1)
          BY <1>0
        <5> QED
          BY <1>3, <3>3, <4>1, <5>1, <5>2
      <4> QED
        BY <3>5, <4>1, <4>2
    <3>9. \A i \in 1..(Len(out) + 1), n \in Nat : Row(out', i, n) <=> Row(out, i, n)
      BY <1>0, <3>1, <3>2, RowsAfter
    <3>10. "error" \notin Types(out) /\ "error" \notin Types(out')
      BY <1>0, <1>4, <2>1, <3>1, <3>2 DEF RetryInv
    <3>11. \A i \in 1..Len(out') : out'[i].type # "error"
      BY <1>0, <3>10, <3>1, <3>2 DEF Types
    <3>12. RowsFit(out', turn')
      <4>1. \A i \in 1..(Len(out') + 1) : i = Len(out) + 2 \/ i \in 1..(Len(out) + 1)
        BY <1>0, <3>4
      <4>2. \A i \in 1..(Len(out) + 1) : ~Row(out', i, StreamRetries)
        BY <1>3, <3>9 DEF RetryInv, RowsFit
      <4> QED
        BY <3>8, <3>11, <4>1, <4>2 DEF RowsFit
    <3>13. Len(out') + 1 = Len(out) + 2
      BY <1>0, <3>4
    <3> QED
      BY <2>1, <3>1, <3>6, <3>7, <3>10, <3>12, <3>13 DEF RetryInv
  <2> QED
    BY <1>3, <2>2, <2>3, <2>4
<1>16. CASE StartTool \/ ToolReturns
  <2>1. pc \in {"dispatch", "executing"} /\ pc' \in {"executing", "tools"} /\ turn' = turn
    BY <1>16 DEF StartTool, ToolReturns, loop
  <2>2. next \in 1..Len(calls)
    BY <2>1 DEF TypeInv, TypeOK, Counting
  <2>3. calls[next] \in [id : CallIDs, tool : Tool]
    BY <2>2, ElementOf DEF TypeInv, TypeOK
  <2>4. Call.id \in CallIDs
    BY <2>3 DEF Call
  <2>5. PICK t \in {"tool_start", "tool_done"} : out' = out \o <<Event(t, Call.id)>>
    BY <1>16 DEF StartTool, ToolReturns, Emit
  <2>6. Event(t, Call.id) \in AnyEvent
    BY <2>4, <2>5, EventType
  <2>7. out' = Append(out, Event(t, Call.id))
    BY <1>0, <2>5, <2>6, WriteOneOrTwo
  <2> QED
    BY <1>1, <1>12, <2>1, <2>5, <2>6, <2>7
<1>17. ASSUME NEW r \in Replies, Answer(r) PROVE RetryInv'
  <2>1. /\ pc = "call" /\ pc' \in {"returned", "tools"} /\ turn' = turn
        /\ out' = out \/ out' = Append(out, Said) \/ out' = Append(Append(out, Said), Closing)
    BY <1>17, AnswerWrites
  <2> QED
    BY <1>0, <1>2, <1>7, <1>12, <1>13, <2>1
<1>18. CASE Finish \/ FinishWithComment
  <2>1. /\ pc = "dispatch" /\ pc' = "returned" /\ turn' = turn
        /\ out' = Append(out, Done) \/ out' = Append(Append(out, Failed), Done)
    BY <1>18, FinishWrites
  <2> QED
    BY <1>0, <1>2, <1>12, <1>13, <2>1
<1> QED
  BY <1>5, <1>6, <1>8, <1>9, <1>10, <1>11, <1>14, <1>15, <1>16, <1>17, <1>18 DEF Next, Advance, ToolEnds, Returned

(* However calls fail, a failed call is tried streamRetries times in a row *)
(* and no more, and an error event has its reason.                         *)
THEOREM RetriesBounded == Spec => []GivesUpAfterRetries
<1>1. Init => RetryInv
  <2> SUFFICES ASSUME Init PROVE RetryInv
    OBVIOUS
  <2>1. out = <<Event("starting", NoID)>> /\ Event("starting", NoID) \in AnyEvent
    BY Constants, EventType DEF Init
  <2>2. Len(out) = 1 /\ out[1].type = "starting" /\ DOMAIN out = {1}
    BY <2>1 DEF Event
  <2>3. \A i \in 1..2, n \in Nat \ {0} : ~Row(out, i, n)
    <3> TAKE i \in 1..2, n \in Nat \ {0}
    <3>1. i - 1 \in (i - n)..(i - 1) /\ i - 1 \in {0, 1}
      OBVIOUS
    <3> QED
      BY <2>2, <3>1 DEF Row
  <2>4. Types(out) = {"starting"}
    BY <2>2 DEF Types
  <2> QED
    BY <2>2, <2>3, <2>4, Constants DEF Init, RetryInv, RowsFit
<1>2. TypeInv /\ RetryInv => GivesUpAfterRetries
  <2> SUFFICES ASSUME TypeInv, RetryInv PROVE GivesUpAfterRetries
    OBVIOUS
  <2>1. DOMAIN out = 1..Len(out) /\ Len(out) \in Nat
    BY DEF TypeInv, TypeOK
  <2> QED
    BY <2>1 DEF RetryInv, RowsFit, Row, GivesUpAfterRetries
<1> QED
  BY <1>1, <1>2, TypeInvInit, TypeInvStep, GrammarInit, GrammarStep, RetryStep, PTL DEF Spec

-----------------------------------------------------------------------------
(* The rounds of tool calls *)

(* A history and one that continues it. *)
Grows(h, g) ==
  /\ h \in Seq(AnyMessage) /\ g \in Seq(AnyMessage)
  /\ Len(h) <= Len(g) /\ \A i \in 1..Len(h) : g[i] = h[i]

(* What was answered stays answered. *)
LEMMA StaysComplete ==
  ASSUME NEW h, NEW g, Grows(h, g), NEW i \in 1..Len(h)
  PROVE  /\ IsOwner(g, i) <=> IsOwner(h, i)
         /\ Complete(h, i) => Complete(g, i)
<1>1. /\ g[i] = h[i] /\ DOMAIN h = 1..Len(h) /\ DOMAIN g = 1..Len(g) /\ Len(h) \in Nat /\ Len(g) \in Nat
      /\ Len(h) <= Len(g) /\ \A k \in 1..Len(h) : g[k] = h[k]
  BY DEF Grows
<1>2. Results(h, i) \subseteq Results(g, i)
  <2>1. ASSUME NEW j \in 1..Len(h), j > i, \A k \in (i + 1)..j : h[k].role = "tool"
        PROVE  j \in 1..Len(g) /\ \A k \in (i + 1)..j : g[k].role = "tool"
    BY <1>1, <2>1
  <2> QED
    BY <1>1, <2>1 DEF Results, Block
<1>3. \A j \in Results(h, i) : g[j] = h[j]
  BY <1>1 DEF Results, Block
<1> QED
  BY <1>1, <1>2, <1>3 DEF Complete, IsOwner

(* Every round but the one at p is answered. *)
AnsweredBut(h, p) ==
  \A i \in DOMAIN h : i # p /\ IsOwner(h, i) /\ NoID \notin h[i].calls => Complete(h, i)

(* The round at p, whose first n calls are answered. *)
Round(h, p, n) ==
  /\ p \in 1..Len(h) /\ Len(h) = p + n
  /\ h[p].role = "assistant" /\ h[p].calls = {calls[k].id : k \in 1..Len(calls)}
  /\ \A k \in 1..n : h[p + k].role = "tool" /\ h[p + k].id = calls[k].id

RoundsInv ==
  /\ pc \in {"head", "call", "backoff"} => AnsweredBut(history, 0)
  /\ pc \in Working => \E p \in 1..Len(history) :
       Round(history, p, next - 1) /\ AnsweredBut(history, p)

(* Another message that makes no calls, or whose round is the current one. *)
LEMMA OneMoreMessage ==
  ASSUME NEW h \in Seq(AnyMessage), NEW m \in AnyMessage, NEW p \in Nat,
         AnsweredBut(h, p), m.calls = {} \/ p = Len(h) + 1
  PROVE  AnsweredBut(Append(h, m), p)
<1> DEFINE g == Append(h, m)
<1>1. /\ g \in Seq(AnyMessage) /\ Len(h) \in Nat /\ Len(g) = Len(h) + 1 /\ g[Len(h) + 1] = m
      /\ \A i \in 1..Len(h) : g[i] = h[i]
  OBVIOUS
<1> HIDE DEF g
<1>2. Grows(h, g) /\ DOMAIN g = 1..Len(g) /\ DOMAIN h = 1..Len(h)
  BY <1>1 DEF Grows
<1>3. ASSUME NEW i \in 1..Len(g), i # p, IsOwner(g, i), NoID \notin g[i].calls
      PROVE  Complete(g, i)
  <2>1. CASE i \in 1..Len(h)
    <3>1. IsOwner(h, i) /\ g[i] = h[i]
      BY <1>1, <1>2, <1>3, <2>1, StaysComplete
    <3>2. Complete(h, i)
      BY <1>2, <1>3, <2>1, <3>1 DEF AnsweredBut
    <3> QED
      BY <1>2, <2>1, <3>2, StaysComplete
  <2>2. CASE i \notin 1..Len(h)
    <3>1. i = Len(h) + 1 /\ g[i].calls = {}
      BY <1>1, <1>3, <2>2
    <3> QED
      BY <1>3, <3>1 DEF IsOwner
  <2> QED
    BY <2>1, <2>2
<1>4. AnsweredBut(g, p)
  BY <1>2, <1>3 DEF AnsweredBut
<1> QED
  BY <1>4 DEF g

(* A round with all its calls answered is complete. *)
LEMMA RoundComplete ==
  ASSUME NEW h \in Seq(AnyMessage), NEW p \in Nat, Round(h, p, Len(calls)), Len(calls) \in Nat,
         NoID \notin h[p].calls
  PROVE  Complete(h, p)
<1>1. DOMAIN h = 1..Len(h) /\ Len(h) = p + Len(calls) /\ p > 0
  BY DEF Round
<1>2. ASSUME NEW c \in h[p].calls PROVE \E j \in Results(h, p) : h[j].id = c
  <2>1. PICK k \in 1..Len(calls) : c = calls[k].id
    BY <1>2 DEF Round
  <2>2. p + k \in Block(h, p)
    <3>1. \A j \in (p + 1)..(p + k) : j - p \in 1..Len(calls) /\ j = p + (j - p)
      OBVIOUS
    <3>2. \A j \in (p + 1)..(p + k) : h[j].role = "tool"
      BY <3>1 DEF Round
    <3> QED
      BY <1>1, <3>2 DEF Block
  <2>3. h[p + k].id = c
    BY <2>1 DEF Round
  <2> QED
    BY <1>2, <2>2, <2>3 DEF Results
<1> QED
  BY <1>2 DEF Complete

(* Every step keeps the rounds answered in order. *)
LEMMA RoundsStep ==
  ASSUME TypeInv, RoundsInv, [Next]_vars
  PROVE  RoundsInv'
<1>0. /\ history \in Seq(AnyMessage) /\ Len(history) \in Nat /\ DOMAIN history = 1..Len(history)
      /\ calls \in Seq([id : CallIDs, tool : Tool]) /\ Len(calls) \in Nat /\ next \in 1..(Len(calls) + 1)
  BY DEF TypeInv, TypeOK
<1>1. ASSUME UNCHANGED <<history, calls, next>>, pc' = pc \/ pc' = "returned"
             \/ {pc, pc'} \subseteq {"head", "call", "backoff"} \/ {pc, pc'} \subseteq Working
      PROVE  RoundsInv'
  BY <1>1 DEF RoundsInv, Working, Round
<1>2. CASE UNCHANGED vars
  BY <1>1, <1>2 DEF vars, convo, batch
<1>3. CASE Cancel \/ BeginTurn \/ ExhaustTurns \/ CallFails \/ Retry \/ AbortBackoff
           \/ CheckCall \/ StartTool \/ Finish \/ FinishWithComment
  BY <1>1, <1>3 DEF Cancel, BeginTurn, ExhaustTurns, CallFails, Retry, AbortBackoff, CheckCall,
       StartTool, Finish, FinishWithComment, Return, convo, batch, Working
<1>4. ASSUME NEW r \in Replies, Answer(r) PROVE RoundsInv'
  <2>1. CASE AnswerTooLate(r) \/ AnswerPlain(r)
    BY <2>1 DEF AnswerTooLate, AnswerPlain, Return, RoundsInv, Working
  <2>2. CASE AnswerWithCalls(r)
    <3>0. PICK p \in Nat : p = Len(history) + 1
      BY <1>0
    <3>1. /\ history' = Append(history, Answered(r)) /\ calls' = r.calls /\ next' = 1 /\ pc' = "tools"
          /\ pc = "call"
      BY <2>2 DEF AnswerWithCalls, Accept, Answered
    <3>2. Answered(r) \in AnyMessage
      BY MessageTypes
    <3>3. AnsweredBut(history, p)
      BY <1>0, <3>0, <3>1 DEF RoundsInv, AnsweredBut
    <3>4. AnsweredBut(history', p)
      BY <1>0, <3>0, <3>1, <3>2, <3>3, OneMoreMessage
    <3>5. Len(history') = p /\ history'[p] = Answered(r)
      BY <1>0, <3>0, <3>1, <3>2
    <3>6. DOMAIN r.calls = 1..Len(r.calls)
      BY ReplyType
    <3>7. Round(history, p, 0)'
      <4>1. history'[p].role = "assistant" /\ history'[p].calls = {r.calls[k].id : k \in 1..Len(r.calls)}
        BY <3>5, <3>6 DEF Answered, Message
      <4> QED
        BY <3>0, <3>1, <3>5, <4>1 DEF Round
    <3> QED
      BY <3>0, <3>1, <3>4, <3>5, <3>7 DEF RoundsInv
  <2> QED
    BY <1>4, <2>1, <2>2 DEF Answer
<1>5. CASE ToolReturns
  <2>1. next \in 1..Len(calls) /\ pc = "executing" /\ pc' = "tools" /\ calls' = calls /\ next' = next + 1
    BY <1>0, <1>5 DEF ToolReturns, TypeInv, Counting
  <2>2. calls[next] \in [id : CallIDs, tool : Tool]
    BY <1>0, <2>1, ElementOf
  <2>3. PICK o \in Outcomes(Call.tool), cost \in ResultCosts[Call.tool] :
          history' = Append(history, Message("tool", {}, Call.id, cost, "none"))
    BY <1>5 DEF ToolReturns
  <2> DEFINE m == Message("tool", {}, Call.id, cost, "none")
  <2>4. m \in AnyMessage /\ m.role = "tool" /\ m.calls = {} /\ m.id = calls[next].id
    <3>1. cost \in Nat /\ Call.id \in CallIDs
      BY <2>2, Constants DEF Call
    <3> QED
      BY <3>1, MessageTypes DEF Message, Call
  <2> HIDE DEF m
  <2>5. PICK p \in 1..Len(history) : Round(history, p, next - 1) /\ AnsweredBut(history, p)
    BY <2>1 DEF RoundsInv, Working
  <2>6. /\ Len(history') = Len(history) + 1 /\ history'[Len(history) + 1] = m
        /\ \A i \in 1..Len(history) : history'[i] = history[i]
    BY <1>0, <2>3, <2>4 DEF m
  <2>7. Round(history', p, next)
    <3>1. Len(history) = p + (next - 1) /\ Len(history') = p + next /\ p \in 1..Len(history')
      BY <1>0, <2>5, <2>6 DEF Round
    <3>2. \A k \in 1..next : k = next \/ k \in 1..(next - 1)
      BY <1>0
    <3>3. \A k \in 1..(next - 1) : p + k \in 1..Len(history)
      BY <1>0, <3>1
    <3>4. p + next = Len(history) + 1
      BY <1>0, <3>1
    <3> QED
      BY <2>4, <2>5, <2>6, <3>1, <3>2, <3>3, <3>4 DEF Round
  <2>8. AnsweredBut(history', p)
    BY <1>0, <2>3, <2>4, <2>5, OneMoreMessage DEF m
  <2>9. Round(history, p, next - 1)'
    <3>1. next' - 1 = next
      BY <1>0, <2>1
    <3> QED
      BY <2>1, <2>7, <3>1 DEF Round
  <2> QED
    BY <1>0, <2>1, <2>6, <2>8, <2>9 DEF RoundsInv
<1>6. CASE EndTurn
  <2> DEFINE injected == [k \in 1..pending |-> Injected(k)]
  <2>1. /\ pc = "tools" /\ pc' = "head" /\ next = Len(calls) + 1 /\ history' = history \o injected
    BY <1>0, <1>6 DEF EndTurn
  <2>2. pending \in Nat /\ injected \in Seq(AnyMessage) /\ Len(injected) = pending
    BY <1>0, MessageTypes DEF TypeInv, TypeOK
  <2>3. \A k \in 1..pending : injected[k].calls = {}
    BY DEF Injected, Message
  <2> HIDE DEF injected
  <2>4. /\ history' \in Seq(AnyMessage) /\ Len(history') = Len(history) + pending
        /\ \A i \in 1..Len(history) : history'[i] = history[i]
        /\ \A i \in (Len(history) + 1)..(Len(history) + pending) : history'[i] = injected[i - Len(history)]
    BY ONLY <1>0, <2>1, <2>2
  <2>5. PICK p \in 1..Len(history) : Round(history, p, Len(calls)) /\ AnsweredBut(history, p)
    <3>1. next - 1 = Len(calls)
      BY <1>0, <2>1
    <3> QED
      BY <2>1, <3>1 DEF RoundsInv, Working
  <2>6. \A i \in 1..Len(history) : IsOwner(history, i) /\ NoID \notin history[i].calls => Complete(history, i)
    BY <1>0, <2>5, RoundComplete DEF AnsweredBut
  <2>7. Grows(history, history')
    BY <1>0, <2>2, <2>4 DEF Grows
  <2>8. ASSUME NEW i \in 1..Len(history'), IsOwner(history', i), NoID \notin history'[i].calls
        PROVE  Complete(history', i)
    <3>1. CASE i \in 1..Len(history)
      <4>1. IsOwner(history, i) /\ history'[i] = history[i]
        BY <2>4, <2>7, <2>8, <3>1, StaysComplete
      <4>2. Complete(history, i)
        BY <2>6, <2>8, <3>1, <4>1
      <4> QED
        BY <2>7, <3>1, <4>2, StaysComplete
    <3>2. CASE i \notin 1..Len(history)
      <4>1. i \in (Len(history) + 1)..(Len(history) + pending) /\ i - Len(history) \in 1..pending
        BY <1>0, <2>2, <2>4, <3>2
      <4>2. history'[i].calls = {}
        BY <2>3, <2>4, <4>1
      <4> QED
        BY <2>8, <4>2 DEF IsOwner
    <3> QED
      BY <3>1, <3>2
  <2>9. AnsweredBut(history', 0)
    <3>1. DOMAIN history' = 1..Len(history')
      BY <2>4
    <3> QED
      BY <2>8, <3>1 DEF AnsweredBut
  <2> QED
    BY <2>1, <2>9 DEF RoundsInv, Working
<1> QED
  BY <1>2, <1>3, <1>4, <1>5, <1>6 DEF Next, Advance, ToolEnds, Returned

(* At first there are no rounds. *)
LEMMA RoundsInit == Init => RoundsInv
<1> SUFFICES ASSUME Init PROVE RoundsInv
  OBVIOUS
<1>1. \A i \in DOMAIN history : history[i].role # "assistant"
  BY DEF Init, Plain, Message
<1> QED
  BY <1>1 DEF Init, RoundsInv, AnsweredBut, IsOwner, Working

(* Whatever tools a reply calls and however they end, the model is called  *)
(* again only when all of them are answered, ahead of any image.           *)
THEOREM RoundsStayAnswered == Spec => []RoundsAnswered
<1>1. Init => RoundsInv
  BY RoundsInit
<1>2. TypeInv /\ RoundsInv => RoundsAnswered
  <2> SUFFICES ASSUME TypeInv, RoundsInv PROVE RoundsAnswered
    OBVIOUS
  <2>1. DOMAIN history = 1..Len(history)
    BY DEF TypeInv, TypeOK
  <2> QED
    BY <2>1 DEF RoundsInv, AnsweredBut, RoundsAnswered
<1> QED
  BY <1>1, <1>2, TypeInvInit, TypeInvStep, RoundsStep, PTL DEF Spec

-----------------------------------------------------------------------------
(* What a request carries. The lemmas of PackingProofs are about the same  *)
(* operators, instantiated there for a conversation of its own.            *)
Packed == INSTANCE PackingProofs WITH Messages <- AnyMessage, Budgets <- Nat, MaxLength <- MaxTurns

LEMMA SameUnits ==
  /\ \A h : Packed!Prefix(h) = Prefix(h) /\ Packed!Heads(h) = Heads(h)
  /\ \A h, i : /\ Packed!Unit(h, i) = Unit(h, i) /\ Packed!UnitsFrom(h, i) = UnitsFrom(h, i)
               /\ Packed!Newest(h, i) <=> Newest(h, i)
<1>1. \A h : Packed!Prefix(h) = Prefix(h) /\ Packed!Heads(h) = Heads(h)
  BY DEF Heads, Packed!Heads, Prefix, Packed!Prefix, Users, Packed!Users, IsOwner, Packed!IsOwner,
         Complete, Packed!Complete, Results, Packed!Results, Block, Packed!Block
<1>2. \A h, i : Packed!Unit(h, i) = Unit(h, i)
  BY DEF Unit, Packed!Unit, Results, Packed!Results, IsOwner, Packed!IsOwner, Block, Packed!Block
<1>3. \A h, i : Packed!UnitsFrom(h, i) = UnitsFrom(h, i)
  BY <1>1, <1>2 DEF UnitsFrom, Packed!UnitsFrom
<1>4. \A h, i : Packed!Newest(h, i) <=> Newest(h, i)
  BY <1>1 DEF Newest, Packed!Newest
<1> QED
  BY <1>1, <1>2, <1>3, <1>4

LEMMA SameChoice ==
  \A h, b : Packed!Chosen(h, b) = Chosen(h, b) /\ Packed!Kept(h, b) = Kept(h, b)
<1> TAKE h, b
<1> DEFINE fits(i) == \/ Packed!Newest(h, i)
                      \/ Packed!Cost(h, Packed!Prefix(h) \cup Packed!UnitsFrom(h, i)) <= b
<1>1. \A i : fits(i) <=> Newest(h, i) \/ Cost(h, Prefix(h) \cup UnitsFrom(h, i)) <= b
  <2>1. \A K : Packed!Cost(h, K) = Cost(h, K)
    BY DEF Cost, Packed!Cost, MapThenSumSet, Packed!MapThenSumSet, MapThenFoldSet,
           Packed!MapThenFoldSet
  <2>2. \A i : Packed!Cost(h, Packed!Prefix(h) \cup Packed!UnitsFrom(h, i))
               = Cost(h, Prefix(h) \cup UnitsFrom(h, i))
    BY <2>1, SameUnits
  <2>3. \A i : Packed!Newest(h, i) <=> Newest(h, i)
    BY SameUnits
  <2> QED
    BY <2>2, <2>3
<1>2. Packed!Selected(h, b) = {i \in Heads(h) : \A j \in Heads(h) : j >= i => fits(j)}
  BY SameUnits DEF Packed!Selected
<1> HIDE DEF fits
<1>3. Packed!Selected(h, b) = Selected(h, b)
  BY <1>1, <1>2 DEF Selected
<1>4. Packed!Chosen(h, b) = Chosen(h, b)
  BY <1>3, SameUnits DEF Chosen, Packed!Chosen
<1>5. \A K : Packed!WithoutOrphans(h, Packed!WithoutDangling(h, K))
             = WithoutOrphans(h, WithoutDangling(h, K))
  BY DEF WithoutOrphans, Packed!WithoutOrphans, WithoutDangling, Packed!WithoutDangling,
         IsOwner, Packed!IsOwner
<1>6. Packed!Kept(h, b) = Kept(h, b)
  BY <1>4, <1>5 DEF Kept, Packed!Kept
<1> QED
  BY <1>4, <1>6

(* Pack keeps the newest unit, and the prefix when it makes no calls.      *)
LEMMA PackedRequest ==
  ASSUME NEW h \in Seq(AnyMessage), NEW b
  PROVE  /\ \A i \in Heads(h) : Newest(h, i) => Unit(h, i) \subseteq Kept(h, b)
         /\ CleanPrefix(h) => Prefix(h) \subseteq Kept(h, b)
<1>1. (\A m \in AnyMessage : m.cost \in Nat) /\ Nat \subseteq Int
  BY DEF AnyMessage
<1>2. Packed!NewestKeptIn(h, b) /\ Packed!PassesIdleIn(h, b)
  BY <1>1, Packed!PackKeepsNewest, Packed!PackPassesAreIdle DEF Packed!PackedHistoryAssumption
<1>3. Packed!CleanPrefix(h) <=> CleanPrefix(h)
  BY SameUnits DEF CleanPrefix, Packed!CleanPrefix, IsOwner, Packed!IsOwner
<1>4. CleanPrefix(h) => Kept(h, b) = Chosen(h, b)
  BY <1>2, <1>3, SameChoice DEF Packed!PassesIdleIn
<1>5. \A i \in Heads(h) : Newest(h, i) => Unit(h, i) \subseteq Kept(h, b)
  BY <1>2, SameUnits, SameChoice DEF Packed!NewestKeptIn
<1> QED
  BY <1>4, <1>5 DEF Chosen

(* The first message is the system prompt and the second the task.         *)
PromptInv ==
  /\ Len(history) >= 2
  /\ history[1].role = "system" /\ history[1].calls = {}
  /\ history[2].role = "user" /\ history[2].calls = {}

(* Messages are only added, never taken away or changed.                   *)
LEMMA PromptStep ==
  ASSUME TypeInv, PromptInv, [Next]_vars
  PROVE  PromptInv'
<1>0. history \in Seq(AnyMessage) /\ Len(history) \in Nat
  BY DEF TypeInv, TypeOK
<1>1. ASSUME NEW more \in Seq(AnyMessage), history' = history \o more
      PROVE  PromptInv'
  <2>1. Len(history') = Len(history) + Len(more) /\ Len(more) \in Nat
    BY <1>0, <1>1
  <2>2. history'[1] = history[1] /\ history'[2] = history[2]
    BY <1>0, <1>1 DEF PromptInv
  <2> QED
    BY <1>0, <2>1, <2>2 DEF PromptInv
<1>2. ASSUME NEW m \in AnyMessage, history' = Append(history, m)
      PROVE  PromptInv'
  <2>1. history' = history \o <<m>> /\ <<m>> \in Seq(AnyMessage)
    BY <1>0, <1>2
  <2> QED
    BY <1>1, <2>1
<1>3. CASE UNCHANGED history
  BY <1>3 DEF PromptInv
<1>4. CASE ToolReturns
  <2>1. next \in 1..Len(calls)
    BY <1>4 DEF ToolReturns, TypeInv, TypeOK, Counting
  <2>2. Call.id \in CallIDs /\ Call.tool \in Tool
    <3>1. calls[next] \in [id : CallIDs, tool : Tool]
      BY <2>1, ElementOf DEF TypeInv, TypeOK
    <3> QED
      BY <3>1 DEF Call
  <2>3. PICK o \in Outcomes(Call.tool), cost \in ResultCosts[Call.tool] :
          history' = Append(history, Message("tool", {}, Call.id, cost, "none"))
    BY <1>4 DEF ToolReturns
  <2>4. cost \in Nat
    BY <2>2, Constants
  <2> QED
    BY <1>2, <2>2, <2>3, <2>4, MessageTypes
<1>5. CASE EndTurn
  <2>1. history' = history \o [k \in 1..pending |-> Injected(k)] /\ pending \in Nat
    BY <1>5 DEF EndTurn, TypeInv, TypeOK
  <2>2. [k \in 1..pending |-> Injected(k)] \in Seq(AnyMessage)
    BY <2>1, MessageTypes
  <2> QED
    BY <1>1, <2>1, <2>2
<1>6. ASSUME NEW r \in Replies, Answer(r) PROVE PromptInv'
  <2>1. UNCHANGED history \/ history' = Append(history, Answered(r))
    BY <1>6 DEF Answer, AnswerTooLate, AnswerPlain, AnswerWithCalls, Accept, Answered, convo
  <2> QED
    BY <1>2, <1>3, <2>1, MessageTypes
<1> QED
  BY <1>3, <1>4, <1>5, <1>6
     DEF Next, Advance, ToolEnds, Returned, Cancel, BeginTurn, ExhaustTurns, CallFails, Retry, AbortBackoff,
         CheckCall, StartTool, Finish, FinishWithComment, convo, vars

(* The prompt and the task are the prefix.                                 *)
LEMMA PromptIsPrefix ==
  ASSUME TypeInv, PromptInv
  PROVE  Prefix(history) = {1, 2} /\ CleanPrefix(history)
<1>1. DOMAIN history = 1..Len(history) /\ Len(history) \in Nat /\ Len(history) >= 2
  BY DEF TypeInv, TypeOK, PromptInv
<1>2. 2 \in Users(history) /\ 1 \notin Users(history)
  BY <1>1 DEF Users, PromptInv
<1>3. \A u \in Users(history) : u \in Nat /\ u >= 2
  BY <1>1, <1>2 DEF Users
<1>4. Prefix(history) = {i \in DOMAIN history : \A u \in Users(history) : i <= u}
  BY <1>2 DEF Prefix
<1>5. \A i \in DOMAIN history : (\A u \in Users(history) : i <= u) <=> i \in {1, 2}
  BY <1>1, <1>2, <1>3
<1>6. Prefix(history) = {1, 2}
  BY <1>1, <1>4, <1>5
<1>7. CleanPrefix(history)
  BY <1>6 DEF CleanPrefix, IsOwner, PromptInv
<1> QED
  BY <1>6, <1>7

(* A round that is the last thing in a history is its newest unit.         *)
LEMMA LastRoundIsNewest ==
  ASSUME NEW h, NEW n \in Nat, DOMAIN h = 1..n, NEW i \in 1..n, i \notin Prefix(h),
         IsOwner(h, i), Complete(h, i), i + Cardinality(Block(h, i)) = n
  PROVE  i \in Heads(h) /\ Newest(h, i)
<1> DEFINE behind == (i + 1)..n
<1>1. IsFiniteSet(behind) /\ Cardinality(behind) = n - i
  <2>1. i + 1 \in Int /\ n \in Int
    OBVIOUS
  <2>2. Cardinality(behind) = IF i + 1 > n THEN 0 ELSE n - (i + 1) + 1
    BY <2>1, FS_Interval
  <2>3. IsFiniteSet(behind)
    BY <2>1, FS_Interval
  <2> HIDE DEF behind
  <2> QED
    BY <2>2, <2>3
<1>2. Block(h, i) \subseteq behind
  <2>1. ASSUME NEW j \in 1..n, j > i PROVE j \in behind
    BY <2>1
  <2> HIDE DEF behind
  <2> QED
    BY <2>1 DEF Block
<1>3. Block(h, i) = behind
  <2> HIDE DEF behind
  <2>1. IsFiniteSet(Block(h, i)) /\ Cardinality(Block(h, i)) \in Nat
    BY <1>1, <1>2, FS_Subset, FS_CardinalityType
  <2>2. Cardinality(Block(h, i)) = Cardinality(behind)
    BY <1>1, <2>1
  <2> QED
    BY <1>1, <1>2, <2>2, FS_Subset
<1>4. ASSUME NEW j \in 1..n, j > i PROVE h[j].role = "tool"
  <2>1. j \in Block(h, i) /\ j \in (i + 1)..j
    BY <1>3, <1>4
  <2> HIDE DEF behind
  <2> QED
    BY <2>1 DEF Block
<1>5. \A j \in Heads(h) : j <= i
  BY <1>4 DEF Heads
<1>6. i \in Heads(h)
  BY DEF Heads, IsOwner
<1> QED
  BY <1>5, <1>6 DEF Newest

(* Whatever the model says, whatever the tools cost and whatever window    *)
(* the broker announces, the model is asked with the system prompt, the    *)
(* task, and the results of the calls it has just made.                    *)
THEOREM RequestStaysUsable == Spec => []RequestUsable
<1>1. Init => PromptInv
  BY DEF Init, PromptInv, Plain, Message
<1>2. TypeInv /\ RoundsInv /\ PromptInv => RequestUsable
  <2> SUFFICES ASSUME TypeInv, RoundsInv, PromptInv, pc = "call" PROVE RequestUsable
    BY DEF RequestUsable
  <2>1. history \in Seq(AnyMessage)
    BY DEF TypeInv, TypeOK
  <2>2. Prefix(history) = {1, 2} /\ CleanPrefix(history)
    BY PromptIsPrefix
  <2>3. {1, 2} \subseteq Request
    BY <2>1, <2>2, PackedRequest DEF Request
  <2>4. ASSUME NEW i \in DOMAIN history, IsOwner(history, i), NoID \notin history[i].calls,
               i + Cardinality(Block(history, i)) = Len(history)
        PROVE  Unit(history, i) \subseteq Request
    <3>1. Complete(history, i)
      <4>1. AnsweredBut(history, 0)
        BY DEF RoundsInv
      <4>2. i # 0
        BY <2>1
      <4> QED
        BY <2>4, <4>1, <4>2 DEF AnsweredBut
    <3>2. i \notin Prefix(history)
      BY <2>2, <2>4 DEF PromptInv, IsOwner
    <3>3. i \in Heads(history) /\ Newest(history, i)
      <4>1. DOMAIN history = 1..Len(history) /\ Len(history) \in Nat
        BY <2>1
      <4> QED
        BY <2>4, <3>1, <3>2, <4>1, LastRoundIsNewest
    <3> QED
      BY <2>1, <3>3, PackedRequest DEF Request
  <2> QED
    BY <2>3, <2>4 DEF RequestUsable
<1> QED
  BY <1>1, <1>2, RoundsInit, TypeInvInit, TypeInvStep, RoundsStep, PromptStep, PTL DEF Spec
=============================================================================
