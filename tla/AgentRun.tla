------------------------------ MODULE AgentRun ------------------------------
(***************************************************************************)
(* runPrompt in cmd/windshift-agent/agent.go: the agentic loop of one run. *)
(* A turn packs the history, calls the model (retrying a failed call),     *)
(* executes the tool calls of the reply and injects the images they        *)
(* loaded. The model, the tools and the comments on the work item are the  *)
(* environment; the run may be cancelled at any point.                     *)
(***************************************************************************)
EXTENDS Packing

CONSTANTS
  Replies,          \* what the model may reply: records [text, calls, cost, window],
                    \* the last the broker's header for the context window
  CommentOutcomes,  \* how a bash call with `ws comment add` among its commands may end:
                    \* records [result, posted]
  ResultCosts,      \* [Tool -> set of costs] tokens of a tool's result
  PromptCost,       \* tokens of the system prompt, and of the task
  Window,           \* LLM_CONTEXT_WINDOW
  HasItem,          \* WINDSHIFT_ITEM_ID is set
  MaxTurns,         \* maxTurns (200 in the code)
  StreamRetries,    \* streamRetries (3 in the code)
  MaxImages         \* maxImagesPerRun (10 in the code)

(* "finish" has a summary, "quiet_finish" an empty one; "comment" is a bash *)
(* call selfCommentedOnItem recognises; "other" any other tool, known or    *)
(* not.                                                                     *)
Tool == {"finish", "quiet_finish", "comment", "view_image", "other"}
Finishing == {"finish", "quiet_finish"}

(* What the result of a bash call says of its end: nothing, "(exit:",       *)
(* "(timeout after" or "(cancelled)". It is the end of the whole command    *)
(* line, and tells of the comment posted in it only as far as that goes.    *)
BashResult == {"clean", "exit", "timeout", "cancelled"}

(* The ids that tool calls of the model may have. *)
CallIDs == {NoID} \cup UNION {{r.calls[i].id : i \in DOMAIN r.calls} : r \in Replies}

ASSUME AgentRunAssumption ==
  /\ {MaxTurns, StreamRetries, Window} \subseteq Nat \ {0} /\ {MaxImages, PromptCost} \subseteq Nat
  /\ HasItem \in BOOLEAN
  /\ \A r \in Replies : /\ r.text \in BOOLEAN /\ r.calls \in Seq([id : CallIDs, tool : Tool])
                         /\ r.cost \in Nat /\ r.window \in Int
  /\ CommentOutcomes \subseteq [result : BashResult, posted : BOOLEAN]
  /\ ResultCosts \in [Tool -> SUBSET Nat]

VARIABLES
  pc, turn, attempt,      \* where the run is, and its loop counters
  history, ctxSize,       \* messages; the window the next request is packed for
  calls, next, pending,   \* the reply's tool calls, the next of them, pendingImages
  images, selfCommented,  \* imagesInjected; the agent commented on the item itself
  cancelled, out,         \* ctx is cancelled; events written so far
  comments                \* the item's comments by this run (kept by the server), each as
                          \* the result of the bash call it was posted in, or as "guard"

loop == <<turn, attempt>>
convo == <<history, ctxSize>>
batch == <<calls, next, pending>>
item == <<selfCommented, comments>>
vars == <<pc, loop, convo, batch, images, item, cancelled, out>>

Message(role, ids, id, cost, image) ==
  [role |-> role, calls |-> ids, id |-> id, cost |-> cost, image |-> image]
Plain(role, cost) == Message(role, {}, NoID, cost, "none")

(* ContextWindowFromHeaders (internal/cloud): a window out of its sane     *)
(* range is ignored; a header that is missing or no number is 0 here.      *)
CtxWindowMin == 1024
CtxWindowMaxSane == 8 * 2^20
ContextWindow(header) ==
  IF CtxWindowMin <= header /\ header <= CtxWindowMaxSane THEN header ELSE 0

(* Bytes of a loaded image at most, of n bytes in base64, and of the body   *)
(* of a request that the broker accepts at most.                           *)
MaxImageBytes == 4 * 2^20
Base64(n) == 4 * ((n + 2) \div 3)
BodyCap == 16 * 2^20

Event(type, id) == [type |-> type, id |-> id]
Emit(events) == out' = out \o events
Return(events) == pc' = "returned" /\ Emit(events)

(* The messages of the request made at pc = "call". *)
Request == Kept(history, Budget(ctxSize))

Init ==
  /\ pc = "head" /\ turn = 0 /\ attempt = 0
  /\ history = <<Plain("system", PromptCost), Plain("user", PromptCost)>>
  /\ ctxSize = Window
  /\ calls = <<>> /\ next = 1 /\ pending = 0
  /\ images = 0 /\ selfCommented = FALSE
  /\ cancelled = FALSE /\ out = <<Event("starting", NoID)>>
  /\ comments = <<>>

(* stopRun cancels the context of the run. *)
Cancel ==
  /\ ~cancelled /\ pc # "returned"
  /\ cancelled' = TRUE
  /\ UNCHANGED <<pc, loop, convo, batch, images, item, out>>

-----------------------------------------------------------------------------
(* The head of the turn loop *)

BeginTurn ==
  /\ pc = "head" /\ turn < MaxTurns
  /\ pc' = IF cancelled THEN "returned" ELSE "call"
  /\ attempt' = 1
  /\ UNCHANGED <<turn, convo, batch, images, item, cancelled, out>>

(* Not preceded by a look at ctx: a cancelled run may end here too. *)
ExhaustTurns ==
  /\ pc = "head" /\ turn = MaxTurns
  /\ Return(<<Event("error", NoID)>>)
  /\ UNCHANGED <<loop, convo, batch, images, item, cancelled>>

-----------------------------------------------------------------------------
(* The model call *)

(* Faulty variant: a request that outlives the cancellation. *)
CallFailsUncancelled ==
  /\ pc = "call" /\ ~cancelled
  /\ IF attempt >= StreamRetries
     THEN Return(<<Event("error", NoID)>>)
     ELSE pc' = "backoff" /\ Emit(<<Event("retry", NoID)>>)
  /\ UNCHANGED <<loop, convo, batch, images, item, cancelled>>

(* Faulty variant: the attempt after the last retry is not the last. *)
CallFailsOffByOne ==
  /\ pc = "call"
  /\ IF cancelled THEN Return(<<>>)
     ELSE IF attempt > StreamRetries
     THEN Return(<<Event("error", NoID)>>)
     ELSE pc' = "backoff" /\ Emit(<<Event("retry", NoID)>>)
  /\ UNCHANGED <<loop, convo, batch, images, item, cancelled>>

(* The stream ends in an error, which cancelling ctx always brings about.  *)
CallFails ==
  /\ pc = "call"
  /\ IF cancelled THEN Return(<<>>)
     ELSE IF attempt >= StreamRetries
     THEN Return(<<Event("error", NoID)>>)
     ELSE pc' = "backoff" /\ Emit(<<Event("retry", NoID)>>)
  /\ UNCHANGED <<loop, convo, batch, images, item, cancelled>>

(* Faulty variant: a backoff timer that is not armed again after it fired. *)
RetryTimerReused ==
  /\ pc = "backoff" /\ attempt = 1
  /\ pc' = "call" /\ attempt' = attempt + 1
  /\ UNCHANGED <<turn, convo, batch, images, item, cancelled, out>>

(* The backoff is over. *)
Retry ==
  /\ pc = "backoff"
  /\ pc' = "call" /\ attempt' = attempt + 1
  /\ UNCHANGED <<turn, convo, batch, images, item, cancelled, out>>

AbortBackoff ==
  /\ pc = "backoff" /\ cancelled
  /\ Return(<<>>)
  /\ UNCHANGED <<loop, convo, batch, images, item, cancelled>>

Content(r) == IF r.text THEN <<Event("content", NoID)>> ELSE <<>>

(* A reply that collect drained after the cancellation: its text may still *)
(* have got through, the reply itself is dropped.                          *)
AnswerTooLate(r) ==
  /\ pc = "call" /\ cancelled
  /\ \E shown \in {<<>>, Content(r)} : Return(shown)
  /\ UNCHANGED <<loop, convo, batch, images, item, cancelled>>

(* The role is the broker's word, which is taken to be assistant.          *)
Accept(r) ==
  /\ pc = "call" /\ ~cancelled
  /\ ctxSize' = IF ContextWindow(r.window) > 0 THEN ContextWindow(r.window) ELSE ctxSize
  /\ history' = Append(history,
       Message("assistant", {r.calls[i].id : i \in DOMAIN r.calls}, NoID, r.cost, "none"))

(* A reply without tool calls is the answer. *)
AnswerPlain(r) ==
  /\ Accept(r) /\ r.calls = <<>>
  /\ Return(Content(r) \o IF r.text THEN <<Event("message", NoID)>> ELSE <<>>)
  /\ UNCHANGED <<loop, batch, images, item, cancelled>>

AnswerWithCalls(r) ==
  /\ Accept(r) /\ r.calls # <<>>
  /\ calls' = r.calls /\ next' = 1 /\ pending' = 0
  /\ pc' = "tools" /\ Emit(Content(r))
  /\ UNCHANGED <<loop, images, item, cancelled>>

-----------------------------------------------------------------------------
(* The tool calls of a reply, in order *)

Call == calls[next]

(* The look at ctx comes before the call is dispatched, so that a          *)
(* cancellation between the two lets this one call through.                *)
CheckCall ==
  /\ pc = "tools" /\ next <= Len(calls)
  /\ pc' = IF cancelled THEN "returned" ELSE "dispatch"
  /\ UNCHANGED <<loop, convo, batch, images, item, cancelled, out>>

StartTool ==
  /\ pc = "dispatch" /\ Call.tool \notin Finishing
  /\ pc' = "executing" /\ Emit(<<Event("tool_start", Call.id)>>)
  /\ UNCHANGED <<loop, convo, batch, images, item, cancelled>>

(* Outcome of executing a call. A bash call cut short by the cancellation  *)
(* may or may not have got as far as posting its comment.                  *)
Outcomes(tool) ==
  CASE tool = "comment" -> CommentOutcomes \cup
         IF cancelled THEN [result : {"cancelled"}, posted : BOOLEAN] ELSE {}
    [] tool = "view_image" -> [result : {"image", "text"}, posted : {FALSE}]
    [] OTHER -> [result : {"text"}, posted : {FALSE}]

(* Faulty variant: every comment command counts, even one that failed. *)
CountsAlways(o) == HasItem /\ Call.tool = "comment"

(* The result is taken for a posted comment unless it says "(exit:".       *)
CountsAsComment(o) == HasItem /\ Call.tool = "comment" /\ o.result # "exit"

(* Faulty variant: an image follows its tool result at once. *)
ToolReturnsImageAtOnce ==
  /\ pc = "executing"
  /\ \E o \in Outcomes(Call.tool), cost \in ResultCosts[Call.tool] :
       /\ history' = Append(history, Message("tool", {}, Call.id, cost, "none"))
                       \o IF o.result = "image"
                          THEN <<Message("user", {}, NoID, MessageTokens(40, 1), "loaded")>>
                          ELSE <<>>
       /\ selfCommented' = (selfCommented \/ CountsAsComment(o))
       /\ comments' = comments \o IF o.posted THEN <<o.result>> ELSE <<>>
  /\ next' = next + 1
  /\ pc' = "tools" /\ Emit(<<Event("tool_done", Call.id)>>)
  /\ UNCHANGED <<loop, ctxSize, calls, pending, images, cancelled>>

ToolReturns ==
  /\ pc = "executing"
  /\ \E o \in Outcomes(Call.tool), cost \in ResultCosts[Call.tool] :
       /\ history' = Append(history, Message("tool", {}, Call.id, cost, "none"))
       /\ pending' = IF o.result = "image" THEN pending + 1 ELSE pending
       /\ selfCommented' = (selfCommented \/ CountsAsComment(o))
       /\ comments' = comments \o IF o.posted THEN <<o.result>> ELSE <<>>
  /\ next' = next + 1
  /\ pc' = "tools" /\ Emit(<<Event("tool_done", Call.id)>>)
  /\ UNCHANGED <<loop, ctxSize, calls, images, cancelled>>

(* Faulty variant: the guard does not look whether the agent commented.    *)
NeedsCommentAlways == Call.tool = "finish" /\ HasItem

(* postFinishComment runs `ws comment add` for at most 30 s. *)
NeedsComment == Call.tool = "finish" /\ HasItem /\ ~selfCommented

(* finish ends the run, and the calls behind it are dropped. *)
Finish ==
  /\ pc = "dispatch" /\ Call.tool \in Finishing /\ ~NeedsComment
  /\ Return(<<Event("finish", NoID)>>)
  /\ UNCHANGED <<loop, convo, batch, images, item, cancelled>>

(* Faulty variant: the finish event is written before the comment is tried. *)
FinishBeforeComment ==
  /\ pc = "dispatch" /\ NeedsComment
  /\ \E posted, failed \in BOOLEAN :
       /\ cancelled => failed
       /\ ~failed => posted
       /\ comments' = comments \o IF posted THEN <<"guard">> ELSE <<>>
       /\ Return(<<Event("finish", NoID)>>
                   \o IF failed THEN <<Event("comment_failed", NoID)>> ELSE <<>>)
  /\ UNCHANGED <<loop, convo, batch, images, selfCommented, cancelled>>

FinishWithComment ==
  /\ pc = "dispatch" /\ NeedsComment
  /\ \E posted, failed \in BOOLEAN :
       /\ cancelled => failed
       /\ ~failed => posted
       /\ comments' = comments \o IF posted THEN <<"guard">> ELSE <<>>
       /\ Return((IF failed THEN <<Event("comment_failed", NoID)>> ELSE <<>>)
                   \o <<Event("finish", NoID)>>)
  /\ UNCHANGED <<loop, convo, batch, images, selfCommented, cancelled>>

(* Faulty variant: the cap is on the images of one turn. *)
InjectedPerTurn(k) ==
  IF k <= MaxImages THEN Message("user", {}, NoID, MessageTokens(40, 1), "loaded")
  ELSE Message("user", {}, NoID, MessageTokens(80, 0), "refused")

(* The message for the k-th pending image. *)
Injected(k) ==
  IF images + k <= MaxImages THEN Message("user", {}, NoID, MessageTokens(40, 1), "loaded")
  ELSE Message("user", {}, NoID, MessageTokens(80, 0), "refused")

EndTurn ==
  /\ pc = "tools" /\ next > Len(calls)
  /\ history' = history \o [k \in 1..pending |-> Injected(k)]
  /\ images' = IF images + pending <= MaxImages THEN images + pending ELSE MaxImages
  /\ pc' = "head" /\ turn' = turn + 1
  /\ UNCHANGED <<attempt, ctxSize, batch, item, cancelled, out>>

-----------------------------------------------------------------------------
Answer(r) == AnswerTooLate(r) \/ AnswerPlain(r) \/ AnswerWithCalls(r)

(* The steps the run takes by itself. *)
Advance ==
  \/ BeginTurn \/ ExhaustTurns \/ Retry \/ AbortBackoff
  \/ CheckCall \/ StartTool \/ Finish \/ EndTurn

(* The steps that wait for a tool or for the ws of postFinishComment.      *)
ToolEnds == ToolReturns \/ FinishWithComment

Returned == pc = "returned" /\ UNCHANGED vars

Next == \/ Cancel \/ Advance \/ ToolEnds \/ CallFails \/ Returned
        \/ \E r \in Replies : Answer(r)

Spec == Init /\ [][Next]_vars

(* Of the model call only its end after a cancellation is certain: the     *)
(* HTTP client has no timeout. Nor need a tool end: read_file waits for    *)
(* the writer of a FIFO, and ws for whoever holds its output pipe.         *)
Fairness == WF_vars(Advance) /\ WF_vars(cancelled /\ CallFails)
FairSpec == Spec /\ Fairness

-----------------------------------------------------------------------------
(* Properties *)

AnyMessage ==
  [role : {"system", "user", "assistant", "tool"}, calls : SUBSET CallIDs, id : CallIDs,
   cost : Nat, image : {"none", "loaded", "refused"}]

AnyEvent ==
  [type : {"starting", "content", "retry", "tool_start", "tool_done", "comment_failed",
           "error", "message", "finish"},
   id : CallIDs]

(* The variables keep their types and counters their bounds. *)
TypeOK ==
  /\ pc \in {"head", "call", "backoff", "tools", "dispatch", "executing", "returned"}
  /\ turn \in 0..MaxTurns /\ attempt \in 0..StreamRetries
  /\ history \in Seq(AnyMessage) /\ ctxSize \in Nat \ {0}
  /\ calls \in Seq([id : CallIDs, tool : Tool])
  /\ next \in 1..(Len(calls) + 1) /\ pending \in 0..Len(calls)
  /\ images \in 0..MaxImages
  /\ selfCommented \in BOOLEAN /\ cancelled \in BOOLEAN
  /\ out \in Seq(AnyEvent) /\ comments \in Seq(BashResult \cup {"guard"})

Types(events) == {events[i].type : i \in DOMAIN events}
Last(events) == events[Len(events)]

(* The grammar of the events of a run: it opens with starting, a tool call *)
(* is a tool_start directly followed by its tool_done, the text of a reply *)
(* comes once, and nothing follows the outcome.                            *)
Follows ==
  [starting       |-> {"content", "retry", "tool_start", "error", "finish", "comment_failed"},
   content        |-> {"message", "tool_start", "finish", "comment_failed"},
   retry          |-> {"content", "retry", "tool_start", "error", "finish", "comment_failed"},
   tool_start     |-> {"tool_done"},
   tool_done      |-> {"content", "retry", "tool_start", "error", "finish", "comment_failed"},
   comment_failed |-> {"finish"},
   error |-> {}, message |-> {}, finish |-> {}]

OutputGrammar ==
  /\ \A i \in 1..(Len(out) - 1) :
       /\ out[i + 1].type \in Follows[out[i].type]
       /\ out[i].type = "tool_start" => out[i + 1].id = out[i].id
  /\ pc = "returned" => Last(out).type \notin {"tool_start", "comment_failed"}

(* A failed call is tried streamRetries times in a row and no more, and an *)
(* error event means that this happened or that the turns ran out.         *)
GivesUpAfterRetries ==
  LET RetriesBefore(i, n) == \A k \in (i - n)..(i - 1) : k > 0 /\ out[k].type = "retry"
  IN  \A i \in DOMAIN out :
        /\ ~RetriesBefore(i, StreamRetries)
        /\ out[i].type = "error" => turn = MaxTurns \/ RetriesBefore(i, StreamRetries - 1)

(* Whenever the model is called, every round of tool calls in the history  *)
(* is answered before any other message: images wait for the whole batch.  *)
RoundsAnswered ==
  pc \in {"head", "call", "backoff"} =>
    \A i \in DOMAIN history :
      IsOwner(history, i) /\ NoID \notin history[i].calls => Complete(history, i)

(* Every request, whatever the window, carries the system prompt and the   *)
(* task, and, when a round of tool calls was the last thing to happen,     *)
(* that round: the model always sees what its own calls returned.          *)
RequestUsable ==
  pc = "call" =>
    /\ {1, 2} \subseteq Request
    /\ \A i \in DOMAIN history :
         /\ IsOwner(history, i) /\ NoID \notin history[i].calls
         /\ i + Cardinality(Block(history, i)) = Len(history)
         => Unit(history, i) \subseteq Request

ImageMessages(kind) == {i \in DOMAIN history : history[i].image = kind}

(* The cap on images holds over the whole run, and no image is refused     *)
(* before it is reached.                                                   *)
ImagesBounded ==
  /\ Cardinality(ImageMessages("loaded")) <= MaxImages
  /\ ImageMessages("refused") # {} => Cardinality(ImageMessages("loaded")) = MaxImages

(* "The broker caps the whole request body at 16 MiB; keeping one image     *)
(* well under that leaves room for history and other parts", and           *)
(* maxImagesPerRun is "a backstop on token/request-body cost": the images  *)
(* of a request, each as large as view_image lets it be, leave that room.  *)
BodyFits ==
  pc = "call" =>
    Cardinality(Request \cap ImageMessages("loaded")) * Base64(MaxImageBytes) < BodyCap

(* "so the item is never left silent": a run that finishes with a summary  *)
(* has left a comment, its own or the guard's, or says that it could not.  *)
Finished == pc = "returned" /\ "finish" \in Types(out)
FinishBreaksSilence ==
  Finished /\ HasItem /\ Call.tool = "finish" =>
    comments # <<>> \/ "comment_failed" \in Types(out)

(* "a comment in an early turn still suppresses the guard at finish": the   *)
(* guard speaks once and last, and beside the agent only if every bash     *)
(* call in which the agent posted had an "(exit:" in its result.           *)
GuardStandsDown ==
  \A i \in DOMAIN comments : comments[i] = "guard" =>
    i = Len(comments) /\ \A j \in 1..(i - 1) : comments[j] = "exit"

(* "so the item isn't double-posted" (WI-471): the guard does not comment  *)
(* on top of the agent.                                                    *)
NoDoubleComment ==
  \A i, j \in DOMAIN comments : comments[i] = "guard" => comments[j] = "guard"

(* "abort: cancel the in-flight run": a cancelled run returns, even if the *)
(* model would never answer, as long as its tools end. ControlLoop's       *)
(* fairness rests on this.                                                 *)
AbortEndsRun == WF_vars(ToolEnds) => (cancelled ~> pc = "returned")

(* If tools end and the model answers each call, if only with an error,    *)
(* every run ends, however it goes on calling tools and however often      *)
(* calls fail.                                                             *)
ModelAnswers == CallFails \/ \E r \in Replies : Answer(r)
RunEnds == WF_vars(ToolEnds) /\ WF_vars(ModelAnswers) => <>(pc = "returned")
=============================================================================
