# Verification of windshift-agent

windshift-agent is a headless coding agent. A runner starts it in a container,
writes commands to its stdin as JSON lines and reads events from its stdout; the
agent calls a language model through a broker, executes the tool calls the model
makes and reports each step. This directory holds TLA+ models of its core, the
TLC configurations that check them and proofs that TLAPS checks.

File names below are relative to the repository (`agent.go` is
`cmd/windshift-agent/agent.go`, `ctx.go` is `internal/ctx/ctx.go`, `llm.go` is
`internal/llm/llm.go`, the tools are under `internal/tools/`).

To run them: `tlc -config <run>.cfg <module>.tla` for a row of the table of runs,
and `tlapm <module>.tla` for a module named `...Proofs` and for `NatSets`.
The longest run takes a minute, the longest proof two.

## Inventory

| Part of the system | State | Operations | Interacts with | What is hard | What makes it correct |
|---|---|---|---|---|---|
| Control loop (`serve`, `readCommands`, `emit` in agent.go) | the command channel (8), the current run's cancel function and done channel, one context per run, the output | read a line; prompt, abort, end of input; start, cancel and await a run | the driving program by stdin and stdout, `runPrompt` in a goroutine of its own | three goroutines; cancellation racing completion; closing stdin with work queued; a full channel | one run at a time; the output of runs does not mix; a run that completes says so; no prompt is lost; the process ends when stdin does |
| Agentic loop (`runPrompt`, `postFinishComment` in agent.go) | history, window, turn and attempt counters, images injected, whether the agent commented on the item | a turn: pack, call, retry, dispatch tools, inject images; finish; comment on the item | packer, inference client, tools, the `ws` program | partial batches, cancellation anywhere, retries, an outcome guessed from text | event grammar; bounded retries; answered tool rounds; usable requests; the item is not left silent, and the guard does not comment on top of the agent; a cancelled run ends |
| Context packer (`Pack`, `Budget` in ctx.go) | none; a function of history and budget | select, normalise roles, clean up | called by `runPrompt` for each request | histories with partial rounds, empty or repeated ids; zero budgets | whole rounds, the newest one always, no gap, budget kept, stable prefix |
| Inference client (`Chat`, `runNeutral` in llm.go; `collect` in agent.go) | a goroutine and a channel of 32 events per call | send content, tool calls, done or error; collect | broker by HTTP | the channel fills up; cancellation while sending; failure after a partial reply | one outcome per call; nothing shown twice; no goroutine left |
| Programs (`Bash`, `setProcessGroup`; the searches; `ws` in agent.go and viewimage.go) | a process, for Bash a process group, a context with a timeout | start, kill, wait for exit and pipe, report | os/exec, whatever the program starts | background processes; timeout, cancellation and exit racing; verdicts guessed from an error, a status and the output | every call returns; the report agrees with what happened; a kill leaves nothing of the group; an empty search is one that ran |
| Tool output (`Execute`, `ReadFile`, `Truncate`, `firstLine`) | none | slice by lines, add remarks, truncate twice | result goes to the history | rune boundaries, integer edges | valid text, exactly the lines asked for, one truncation, the remark kept |
| File editing (`edit_file`, `write_file`) | files | read, count, replace, truncate, write | background processes of earlier commands | a write in between, a failed write, texts that overlap themselves | the file is replaced as a whole or left alone; never where the text lies at two separate places |
| Images (`view_image`) | none | parse an attachment reference, fetch through `ws`, check, encode | agentic loop injects the image | numbers out of range; size limits; a child that holds the pipe of `ws` | the image of the reference, or a reason |
| Search and listing (`grep`, `list_files`) | none | build an argument list, run rg, grep or find, judge the outcome | os/exec | exit status 1 and no output may mean two things | "(no matches)" is said only of a search that found nothing |
| Broker headers (`cloud`) | none | read the context window, the budget left and the kind of error | the window goes to the next `Pack` | a window out of range | an insane window is ignored |
| Path policy, start-up (`main.go`), schemas | none, or read once | parsing and validation | - | - | - |

## Plan

In order of importance for the system:

1. **Control loop** - `SessionContract`, `ControlLoop`, `ControlLoopProofs`. *Done.*
2. **Packer** - `Packing`, `PackedHistory`, `PackingProofs`. *Done.*
3. **Agentic loop** - `AgentRun`, which uses `Packing`, and `AgentRunProofs`, which uses
   `PackingProofs`. *Done.*
4. **Inference client** - `ChatContract`, `ChatStream`, `ChatStreamProofs`. *Done.*
5. **Programs** - `ShellCommand`, `ShellCommandProofs`: bash, the searches and `ws`. *Done.*
6. **Tool output** - `ToolOutput`, `ToolOutputProofs`. *Done.*
7. **File editing** - `FileContract`, `FileEdit`, `FileEditProofs`. *Done.*
8. **Image references and the window header** - `Attachment`, used by `ToolOutput`; an
   operator of `AgentRun`. *Done.*

What would come next: `ControlLoop` with the runs of `AgentRun` in place of its
abstract ones. Until then the two are joined by an assumption of the one that is a
property of the other: a cancelled run returns (`AbortEndsRun`, if its tools end).

## Modules and the code

| Module | Models | Used by |
|---|---|---|
| `SessionContract` | abstract: what the process promises its driver | `ControlLoop` (INSTANCE) |
| `ControlLoop` | `serve`, `readCommands`, the run goroutine | `MCControlLoop`, `ControlLoopProofs` |
| `Packing` | the operators of `Pack` and `Budget`; no state | `PackedHistory`, `AgentRun` |
| `PackedHistory` | any history, growing by a message a step, packed at every length | `MCPackedHistory`, `PackingProofs` |
| `AgentRun` | one call of `runPrompt` with `postFinishComment`; `ContextWindowFromHeaders` | `MCAgentRun`, `AgentRunProofs` |
| `ChatContract` | abstract: one model call as `runPrompt` relies on it | `ChatStream` (INSTANCE) |
| `ChatStream` | `Chat`, `runNeutral`, `sendEvent` and `collect` | `MCChatStream`, `ChatStreamProofs` |
| `ShellCommand` | one call of `Bash`, of `Grep` or `ListFiles`, or of `ws`, with the processes it causes | `ShellCommandProofs` |
| `Attachment` | the operators of `parseAttachmentID` and of the checks on a fetched image; no state | `ToolOutput` |
| `ToolOutput` | one tool call from its arguments to the message in the history: `Execute`, `runRaw`, `ReadFile`, the ends of `Bash`, `Grep` and `ListFiles`, `executeViewImage`, `Truncate` | `MCToolOutput`, `ToolOutputProofs` |
| `FileContract` | abstract: what the file tools promise of a file that others append to | `FileEdit` (INSTANCE) |
| `FileEdit` | one call of `EditFile` or `WriteFile` | `MCFileEdit`, `FileEditProofs` |
| `NatSets` | theorems on Min and Max of bounded sets of numbers | `PackingProofs`, `ToolOutputProofs`, `FileEditProofs` |

Definitions named "Faulty variant" in comments are not part of a model: each is
a plausible mistake in one definition, and the property it is paired with is
violated when it takes the place of that definition. They show that the
properties can fail.

**ControlLoop.** `lines`, `eof` are stdin; `scanned` is what `bufio.Scanner` has
consumed; `cmds`, `closed` the channel; `serve` whether the main goroutine is at
the `range` or inside `stopRun` (with the command that called it); `run` stands
for `runCancel` and `runDone`, which are set and reset together; `phase`
the goroutines. `Receive...` are the cases of the `range`, each leading into
`stopRun`: `CancelCurrent` happens as the command is received, and the wait is
the guard `Drained` of the action that follows. `RunReturns` is the return
of `runPrompt` with the look at `runCtx.Err()`, `RunAnnounces` the write of
`session_idle` with the deferred close. They are two steps because the
cancellation can fall between them. `emit` locks, so an event is one step.

**Packing.** A message is a record of its role, the set of its tool call ids, the id
it answers and its tokens. Indices into the history stand for messages, so
"dropped" and "kept" are sets; `Kept` follows `Pack` pass by pass
(prefix, units from the newest, `dropDanglingToolCalls`, `dropOrphanTools`).

**AgentRun.** `pc` is the place in the loop: "head" before a turn, "call" while the
model is called, "backoff" between attempts, "tools" in the loop over calls,
"dispatch" after the context check, "executing" between `tool_start` and
`tool_done`. A model call is one step here (`CallFails`, `AnswerTooLate`,
`AnswerPlain`, `AnswerWithCalls`); `ChatStream` justifies that. The comments on the work item
are kept by the server (`comments`, each with the result of the bash call it was posted in), the
guess that the agent makes of them is
`selfCommented`. Tool results are reduced to what `runPrompt` looks for in them:
clean, `(exit:`, or another remark. For a comment this is the result of the whole bash call, not of
`ws`: `selfCommentedOnItem` accepts compound commands, so that a call may post and still say `(exit:`
(`ws comment add ... && go test ./...`), or say nothing and not have posted (`... || true`, `... | tail`).
`CommentOutcomes` is therefore any set of pairs of result and posted.
A reply is taken to be in the assistant role, which llm.go:228 takes from the broker as it comes. The window that the broker reports is a number in
`Replies`, which `ContextWindow` takes or ignores. That view_image is only offered to a
model with vision does not show: `Execute` runs it for any model that calls it.

**ChatStream.** `producer` is where the sending goroutine is; `channel` the events in `out`; a
send with a cancelled context may take either branch of its `select`.
`collect` receives one event a step until the channel is closed.

**ShellCommand.** The program is an environment that may do anything: `kids` are the
processes it left, told apart by whether they are still in the shell's process
group and whether they hold its output pipe. What the callers rely on in os/exec is modelled: a goroutine
watches the context until Wait has the exit status; then Wait awaits the pipe,
for Bash no longer than WaitDelay; an error of the context replaces only a success.
`caller` tells who called: only Bash kills the group (`KillGroup`) and has a WaitDelay, the others
kill the process they started (`KillShell`); the searches run programs that start no others.
Each caller has its verdict: `BashVerdict`, `SearchVerdict`, `WsVerdict`.

**ToolOutput.** A text is a sequence of byte kinds. `int` is an interval whose
overflow wraps (`Wrap`). A tool call goes from "asked" to "raw" (what `runRaw`
returns) to "done" (after `Execute`'s truncation); view_image goes to "done" at once.
`Remark` stands for every line in parentheses that a tool adds, since no property tells
their wordings apart.

**Attachment.** The argument is a record of the form it has after JSON decoding. A
number is kept doubled so that fractions exist. `IntOf` is Go's `int(f)`, for attachment ids and for
the arguments of `read_file` (`Args`): the fraction is cut off, and beyond the range of `int` the result
is either that of linux/amd64, the least `int`, or that of linux/arm64, the nearest one; both are built
and published. That decoding rounds numbers above 2^53 to a float64 is not modelled: `HalfNumbers` are the
values after it, and "names" is meant of those. Of a fetched file only its size and whether its
signature is known are kept.

**FileEdit.** `file` is what other processes see. A call is cut where they may come in
between: read; truncate (`os.WriteFile` opens with O_TRUNC); write, which a failure may
cut short anywhere. The other process appends, as `cmd >> file &` does. `hidden` is what the file would hold without
the truncation: the refinement mapping shows it to `FileContract` while `pc` is "writing",
and it makes truncation and write one step there.

## What is checked

| Run | Shows | Bounds and why they are enough |
|---|---|---|
| ControlLoop | `OneRunAtATime`; `OutputInRunOrder`: events of runs do not mix; `CompletionAnnounced`: a run that ends unannounced was cancelled; `NoPromptDropped` at end of file; the refinement of `SessionContract`; `EofEndsProcess`; `PromptsGetRuns`; `WaitingDriverIsAnswered`: who writes a prompt and waits gets a `session_idle`, if runs return | four lines, a channel of two: three commands can be queued behind a run (channel and scanner), so the channel fills and end of file finds it full; one event a run is enough to be out of order |
| PackedHistoryAny | `RoundsWhole`, `WithinBudget`, `TailKept` (the newest unit is sent, and no gap), `SystemLeads`, `PassesIdle`, `PrefixPinned` | every history of up to five messages of nine shapes, of which the agent would build few; two ids and an empty one make complete, partial, repeated and orphaned rounds; budgets of nothing, some and almost all |
| AgentRun | `OutputGrammar`, `GivesUpAfterRetries`, `RoundsAnswered`, `RequestUsable`, `ImagesBounded`, `FinishBreaksSilence`, `GuardStandsDown`; `AbortEndsRun`, `RunEnds` | three turns of every kind of reply (answer, silence, work, comment, images, finish, alone and in a batch): a round, a second one that reuses its ids, a third that sees both; results small or larger than the budget of the small window, windows in and out of range; a cap of one image with two in a batch; bash calls with a comment command that end well and have posted, or end in an error before or after they posted. Calls that end well without having posted and timeouts are left to the next row, as `FinishBreaksSilence` fails with them |
| AgentRunSilence | violation: `FinishBreaksSilence` with bash calls that may time out | two turns |
| AgentRunDouble | violation: `NoDoubleComment` with the bash calls of the run AgentRun | two turns |
| AgentRunBody | violation: the images of one request against the broker's cap on its body | the caps of the code, three turns of two images |
| ChatStream | `NoSilentEnd`, the refinement of `ChatContract`, `CancelEndsCall`, `ReplyDelivered` | channel of two, replies of up to four calls and content: the sender blocks, repeatedly |
| ShellCommandCall | `OkMeansSuccess`, `KillIsNamed`, `KillReachesGroup`; `CallReturns` if the timeout fires; `ExitEndsCall` without any timeout | none: processes of a kind are one, so the state space is finite and complete |
| ShellCommandLeak | violation | none |
| ToolOutputSafety | `OutputValid`, `CutOnce`, `RemarkSurvives`; `SliceRight`; `FetchedAsNamed` | a cap of 32 bytes: texts of runes of one and three bytes with every alignment at both cuts and lengths on both sides of the cap, and all files of up to four runes or newlines; JSON numbers below, within and above a four-bit int, with fractions, as offset, limit and attachment id; ids around nothing, one and the greatest int in digits and URLs |
| ToolOutputOverflow | violation | files of up to four runes |
| FileEdit | `HintNamesABlock`, `AmbiguityFound`, the refinement of `FileContract` | every file of up to five letters and blanks and every old text of up to three: separate and overlapping matches, matches at both ends, runs of blanks; three bytes appended in one or two pieces between any steps; writes that fail after any byte |

Deadlock is checked in all runs but that of `PackedHistory`, whose history ends
at its bound. The other models have an explicit step for the end (`Exited`,
`Stopped`, `Returned`, `Ended`), enabled only where the program really may stop.

### Fairness

* ControlLoop: the Go scheduler runs `serve` and `readCommands` when they can run
  (weak fairness on each). A run is only assumed to return when it is cancelled,
  which `AbortEndsRun` of AgentRun shows for a run whose tools end, and may otherwise work for ever.
  So `EofEndsProcess` and `PromptsGetRuns` rest on tools that end as well. That
  runs return by themselves is a premise of `WaitingDriverIsAnswered` alone.
* AgentRun: weak fairness on the steps of the agent itself, and when the context is cancelled the HTTP
  request fails. That a tool call ends, or the `ws` of postFinishComment, is no part of the specification but the
  premise of `AbortEndsRun` and `RunEnds`. Bash and the searches meet it (`CallReturns` of ShellCommand); `ws` only if
  no child keeps its pipe for ever, since it has no WaitDelay; the file tools only if the file is
  none that waits: `read_file` of a FIFO nobody writes to never returns, cancelled or not.
  That the model answers is another premise of `RunEnds`.
* ChatStream: sender and collector are scheduled; the broker owes nothing unless
  the context is cancelled.
* ShellCommand: os/exec's goroutines are scheduled, SIGKILL works and the timer of
  WaitDelay fires. That the timeout fires is a premise of `CallReturns` alone.
  The command and its processes owe nothing.

## What is proved

All proofs hold for every value of the constants, under the named ASSUMEs only
(positive capacities and bounds; costs of messages that are numbers and budgets that are
integers; that head, tail, marker and header of truncated text fit below the cap, which
the code's 6000 and 2000 tokens do by a wide margin). Every safety property of a passing
run is stated by a theorem: the runs show it on small instances, the theorems in general.

* **ControlLoopProofs.** `TypeCorrect`; `OneRun`; `OutputOrdered`; `CompletionIsAnnounced`;
  `Implements`. `OneRunAtATime` is inductive with the types: a run is started only
  after `Drained`. `OutputInRunOrder` is not, since it says nothing of who may still
  write. `IInv` adds that runs start in the order of their numbers, that the run of `serve`
  is the newest, and that only runs past `starting` are on stdout and their
  `session_idle` only when done; then the live run is the greatest
  number on stdout and may follow anything. The refinement takes `IInv` on both sides of a
  step and shows each action to be `Begin`, `End`, `Exit` or a stutter under the mapping `Status`.
  `PromptsHaveRuns`: `NoPromptDropped` by an account (`AccountInv`): the prompts
  taken from stdin are the runs started, those waiting in the channel and the one `serve` holds
  while it stops the run before. The property speaks of the exit alone; that nothing waits there
  is `NothingLeft`, the channel closed and empty once its range has ended.
* **PackingProofs.** `RequestsCorrect` (`RoundsWhole` and with it the others),
  `TailIsKept`, `SystemAlwaysLeads`, `PassesStayIdle`, for every history over any messages and every
  budget. They rest on `UnitsSurvive`: a unit is a head with its complete block of
  results, and the clean-up passes keep such a block. `PrefixIsPinned` is an action property: appending changes no
  message, role or selection of the prefix. `BudgetFitsWindow`
  and `BudgetMonotone` are the arithmetic of the window. `RequestsFit` (`WithinBudget`) needs the sums of the
  costs: the community modules define a sum over a set by a recursive function, so the function
  is first shown to exist (`SumsExist`) and to take one element off at a time, whichever
  it is (`CostOfAny`); then a sum of costs grows with its set (`CostMonotone`), and a unit that
  the walk from the newest one took left the sum within the budget (`PackWithinBudget`).
* **AgentRunProofs.** Each property has an invariant of its own beside `TypeInv`, which is `TypeOK` with what
  the loop counters are at each place (a turn has begun below `MaxTurns`, an attempt is one of `StreamRetries`).
  `ImagesStayBounded`: the loaded images of the history are as many as `images` counts.
  `RetriesBounded`: at a call the output ends in exactly `attempt - 1` retries (`RetryInv`).
  `OutputIsGrammatical`: the output so far is grammatical and its last event fits the place the run is at
  (`GrammarInv`). `RoundsStayAnswered`: while tools run, all rounds but the current one are answered, and of
  that one the first `next - 1` calls are, right behind it (`RoundsInv`). `RequestStaysUsable`
  puts the two modules together: AgentRun hands Pack its history, so the theorems
  on Pack apply to it through an instance of `PackingProofs` (`Packed`) for any message and window. They
  give the prefix and the newest unit (`PackedRequest`); that these are the two prompts (`PromptInv`) and the last
  round of calls (`LastRoundIsNewest`, from `RoundsInv`) is what AgentRun adds.
  `StandsDown` (`GuardStandsDown`) is for all bash calls whatever: the guard speaks once and last, and on top of
  the agent only if every call the agent posted in said `(exit:`. That this does happen is `AgentRunDouble`.
  `SilenceBroken` assumes that a bash call whose comment command did not post says `(exit:`, an assumption about what
  the model writes as much as about `ws`, and written into the theorem; `AgentRunSilence` shows that it is needed.
* **ShellCommandProofs.** `CommandSafe`: `OkMeansSuccess`, `KillIsNamed` and
  `KillReachesGroup`, for all callers. The invariant relates the shell, the watching goroutine, the
  error and the context: a kill has a reason the context still shows, and after
  the reaping the error tells how the shell ended. `KillReachesGroup` needs that a
  process outside the group has no descendants inside.
* **ToolOutputProofs.** `HeadBeforeTail` and `TruncatedFits` for every text and every position
  of runes; `TruncatedOnce`: `CutOnce` from the invariant that a result truncated by
  read_file fits the cap. `OutputIsValid`: a cut at a rune boundary, a slice of whole lines, a trim and a
  concatenation of valid texts are valid, lemma by lemma, for every tool. `RemarkKept`: the tail of a truncation
  ends as the text does. `FetchedIsNamed`: by the forms of the argument and what a float becomes (`IntOfType`),
  for either platform.
  `SliceIsRight`: what `End` computes with wrap-around, whatever the width of int, is the last line wanted unless the sum of offset
  and limit overflows, which is also the only way out of bounds (`EndOfSlice`); and an output without
  marker was truncated by nobody (`UnmarkedWhole`, `UnmarkedBehind`), which `SliceInv` carries from read_file
  to the end of `Execute`.
* **FileEditProofs.** `EditsUnambiguous` (`AmbiguityFound`), where `Count` is one only if all matches overlap the
  first, and so each other; and `Implements`. Its invariant `IInv` says what is due at each place of the call: the
  content is what the tool saw and what was appended since, the update is one of the contract's
  effects, and a truncated file holds a suffix of what was appended.
  `HintIsABlock` (`HintNamesABlock`): `Norm` is a fold, unrolled into the series of texts it goes
  through (`SeriesOfRun`). By induction along the series each text has its blanks one by one between words
  (`SeriesShape`), each of its bytes came from one of the file (`SourceOf`), and from a blank on, the same words are
  joined alike whatever is before them (`SameWords`). So the place where the one `Norm` occurs in the
  other begins and ends at edges of words of the file (`WordsFound`). `Hinted` carries the outcome of both counts to the answer.
* **ChatStreamProofs.** `EndsOneWay` (`NoSilentEnd`) and `Implements`, for every capacity
  and number of tool calls. The invariant says where events may be, between what
  `collect` has seen and what is still in the channel: content first, an error
  alone, done last; and that without a cancellation nothing of it is missing.
* **NatSets.** Min and Max of bounded non-empty sets, from the well-founded order of the naturals; and
  from the least element two induction rules, over the naturals and over finite subsets. They take the *set*
  of what has the property where the library's take an operator, which the provers
  cannot instantiate: this is what makes proofs about folds and sums possible here.

Only model-checked is all liveness, which is out of the prover's reach as is ENABLED:
`WaitingDriverIsAnswered`, `EofEndsProcess` and `PromptsGetRuns` of ControlLoop, `AbortEndsRun` and `RunEnds` of AgentRun,
`CancelEndsCall` and `ReplyDelivered` of ChatStream, `CallReturns` and `ExitEndsCall` of ShellCommand.

## Findings

Each is a run that TLC ends with a counterexample.

* `AgentRunSilence`: a `ws comment add` run through bash that times out counts as
  a posted comment; if it posted nothing, `finish` leaves the item silent. (So does a call
  such as `ws comment add ... || true` with a `ws` that fails.)
* `AgentRunDouble`: a bash call that posts the agent's comment and then fails in another command
  does not count as a posted comment, and the guard posts the summary on top of it.
* `ShellCommandLeak`: a cancellation or timeout in the window of WaitDelay after
  the exit of the shell is reported, but the process group is not killed.
* `ToolOutputOverflow`: `read_file` with an offset within the file and a limit whose sum overflows
  panics, and the process ends. On arm64 any limit of 2^63 or more will do, with an offset of 2; on
  amd64, where the greatest limit a float gives is 1024 below 2^63, the offset has to be above 1024.
* `AgentRunBody`: images stay in the history and count 1200 tokens each in the budget,
  whatever their bytes; three of the largest that view_image accepts already exceed the 16 MiB that
  the comment at its cap says the broker takes.

Seen while modelling, without a run of their own:

* An old_string that overlaps itself passes for unique: `aa` in `aaa` counts as one occurrence, and the first is
  replaced, although edit.go:9-10 says "old_string must match EXACTLY ONCE". `AmbiguityFound` allows just that.
* A line above 1 MiB (`readBufMax`; "overlong" in ControlLoop) makes the scanner stop. Its error is not read: the process
  exits as if stdin had been closed, though agent.go:181 says the channel is closed at EOF.
* A failing `os.WriteFile` leaves a cut or empty file. edit.go:10 promises that "the file is
  untouched" only when old_string does not match once, and the contract allows the piece.
* What another process appends between the read and the write of edit_file is lost, in
  whole or in its first part; the contract allows that as well.
* The guard on `_parse_error` (bash.go:130-143) is dead: nothing sets it. `fromWireMessage`
  fails the whole call on arguments that are no JSON, which is retried and then ends the run.
* A `ws comment add` that fails after the server stored the comment is reported as
  comment_failed; nothing in the agent can tell.
* A tool call with an empty id is executed, and its round is dropped from every later request
  (ctx.go:238). `RequestUsable` exempts such rounds.
* An attachment_id that is a JSON number beyond the range of int becomes an end of int: on amd64 ws is asked
  for a negative attachment, on arm64 for 2^63-1, which the argument does not name.
  `FetchedAsNamed` allows just that. As a string such a number is refused.
* Old text that, with white space collapsed, occurs in two adjacent blocks is counted once by
  `differsOnlyInWhitespace`, since they share a blank; edit.go:56-57 says "at exactly one spot".
* 401 and 402 are retried like any other error of a call.

* A run cancelled between its look at the context and its write of
  `session_idle` announces itself, although agent.go:163 says it is skipped.
* On a history with an unanswered tool call before the first user message,
  StablePrefix counts messages that the clean-up passes dropped. The agent's own
  histories do not have this shape; `PassesIdle` and `PrefixPinned` exclude it by
  `CleanPrefix`.
* `view_image` is executed, and its image injected, when the model calls it
  without having been offered it.
* Of several images loaded in one turn only the last is sure to be in the next
  request, since each is a packing unit of its own.

## Not modelled

* JSON, HTTP, wording, schemas, status lines: no state. The failures of encoding and decoding are in `Fail` of `ChatStream`.
* The argument lists for rg, grep and find: data of the program that is run.
* The path policy: access control by looking at strings and links, without a protocol.
* Start-up (`main.go`): reads the environment once; its results are constants of `AgentRun`.
* Of `cloud` the budget header and the kinds of error, which nothing acts on, and `Reachable`, which is never called.
* `anchorUserMessage` and `newestToolGroup` in ctx.go: never called.
* Two callers of the file tools at once: the tool calls of a reply run one after the other.
* The Windows build (`bash_windows.go`), the container image and its entry point.
