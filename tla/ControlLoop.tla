---------------------------- MODULE ControlLoop ----------------------------
(***************************************************************************)
(* The JSONL control loop of cmd/windshift-agent/agent.go: the goroutine   *)
(* readCommands scans stdin into the buffered channel cmds, serve takes    *)
(* commands from it, and each prompt gets a run goroutine of its own.      *)
(* What runPrompt does inside a run is module AgentRun; here a run starts, *)
(* writes some events and returns.                                         *)
(***************************************************************************)
EXTENDS Naturals, Sequences, FiniteSets

CONSTANTS
  CmdsCap,    \* capacity of the channel cmds (8 in the code)
  MaxLines,   \* bound: lines the driving program ever writes to stdin
  MaxEvents   \* bound: events a run writes between starting and returning

ASSUME ControlLoopAssumption ==
  /\ CmdsCap \in Nat \ {0}
  /\ MaxLines \in Nat
  /\ MaxEvents \in Nat

VARIABLES
  lines,      \* every line written to stdin so far
  eof,        \* the driving program has closed stdin
  scanned,    \* lines readCommands has consumed
  cmds,       \* the buffered channel
  closed,     \* readCommands has returned and closed cmds
  serve,      \* where serve is: ranging over cmds, inside stopRun, or exited
  run,        \* the run that runCancel and runDone refer to; 0 when nil
  phase,      \* [Runs -> Phase] state of each run goroutine
  cancelled,  \* runs whose context is cancelled
  out         \* every event written to stdout

vars == <<lines, eof, scanned, cmds, closed, serve, run, phase, cancelled, out>>

(* "malformed" stands for blank lines too; "overlong" exceeds readBufMax. *)
Command == {"prompt", "abort", "unknown"}
Line == Command \cup {"malformed", "overlong"}
Runs == 1..MaxLines
Phase == {"new", "spawned", "running", "announcing", "done"}
Event == [run : Runs, type : {"starting", "event", "session_idle"}]

InStopRun == {"prompt", "abort", "eof"}  \* serve is in stopRun, called by that case
Started == {r \in Runs : phase[r] # "new"}
Live == {r \in Started : phase[r] # "done"}
Announced(r) == \E i \in DOMAIN out : out[i] = [run |-> r, type |-> "session_idle"]

Init ==
  /\ lines = <<>> /\ eof = FALSE /\ scanned = 0
  /\ cmds = <<>> /\ closed = FALSE
  /\ serve = "range" /\ run = 0
  /\ phase = [r \in Runs |-> "new"]
  /\ cancelled = {}
  /\ out = <<>>

-----------------------------------------------------------------------------
(* The driving program: writes any lines, closes stdin when it likes. *)

WriteLine(l) ==
  /\ ~eof /\ Len(lines) < MaxLines
  /\ lines' = Append(lines, l)
  /\ UNCHANGED <<eof, scanned, cmds, closed, serve, run, phase, cancelled, out>>

CloseStdin ==
  /\ ~eof
  /\ eof' = TRUE
  /\ UNCHANGED <<lines, scanned, cmds, closed, serve, run, phase, cancelled, out>>

-----------------------------------------------------------------------------
(* readCommands *)

MoreInput == ~closed /\ scanned < Len(lines)
NextLine == lines[scanned + 1]

(* Faulty variant: the send never blocks. *)
ScanWithoutBlocking ==
  /\ MoreInput /\ NextLine \in Command
  /\ cmds' = Append(cmds, NextLine)
  /\ scanned' = scanned + 1
  /\ UNCHANGED <<lines, eof, closed, serve, run, phase, cancelled, out>>

(* One turn of the scan loop on a line that parses; the send blocks while  *)
(* the channel is full.                                                    *)
ScanCommand ==
  /\ MoreInput /\ NextLine \in Command
  /\ Len(cmds) < CmdsCap
  /\ cmds' = Append(cmds, NextLine)
  /\ scanned' = scanned + 1
  /\ UNCHANGED <<lines, eof, closed, serve, run, phase, cancelled, out>>

ScanMalformed ==
  /\ MoreInput /\ NextLine = "malformed"
  /\ scanned' = scanned + 1
  /\ UNCHANGED <<lines, eof, cmds, closed, serve, run, phase, cancelled, out>>

(* Scan returns false at the end of the input, and also on a line longer   *)
(* than its buffer (bufio.ErrTooLong, which nobody reads): either way the  *)
(* loop ends and the deferred close runs.                                  *)
ScanEnds ==
  /\ ~closed
  /\ \/ eof /\ scanned = Len(lines)
     \/ MoreInput /\ NextLine = "overlong"
  /\ closed' = TRUE
  /\ UNCHANGED <<lines, eof, scanned, cmds, serve, run, phase, cancelled, out>>

-----------------------------------------------------------------------------
(* serve *)

(* Faulty variant: stopRun waits for the run without cancelling it. *)
CancelNothing == cancelled' = cancelled

(* stopRun first cancels the current run, if there is one ... *)
CancelCurrent == cancelled' = cancelled \cup ({run} \ {0})

(* Faulty variant: stopRun cancels but does not wait. *)
NoWait == TRUE

(* ... and then waits for its goroutine to close runDone. *)
Drained == run # 0 => phase[run] = "done"

ReceiveStop ==
  /\ serve = "range" /\ cmds # <<>> /\ Head(cmds) \in {"prompt", "abort"}
  /\ cmds' = Tail(cmds)
  /\ serve' = Head(cmds)
  /\ CancelCurrent
  /\ UNCHANGED <<lines, eof, scanned, closed, run, phase, out>>

ReceiveUnknown ==
  /\ serve = "range" /\ cmds # <<>> /\ Head(cmds) = "unknown"
  /\ cmds' = Tail(cmds)
  /\ UNCHANGED <<lines, eof, scanned, closed, serve, run, phase, cancelled, out>>

(* Faulty variant: the closed channel is noticed before it is drained. *)
ReceiveClosedEarly ==
  /\ serve = "range" /\ closed
  /\ serve' = "eof"
  /\ CancelCurrent
  /\ UNCHANGED <<lines, eof, scanned, cmds, closed, run, phase, out>>

(* A closed channel is still drained before the range loop ends. *)
ReceiveClosed ==
  /\ serve = "range" /\ cmds = <<>> /\ closed
  /\ serve' = "eof"
  /\ CancelCurrent
  /\ UNCHANGED <<lines, eof, scanned, cmds, closed, run, phase, out>>

StartRun ==
  /\ serve = "prompt" /\ Drained
  /\ \E r \in Runs :
       /\ phase[r] = "new" /\ \A q \in 1..(r - 1) : phase[q] # "new"
       /\ run' = r
       /\ phase' = [phase EXCEPT ![r] = "spawned"]
  /\ serve' = "range"
  /\ UNCHANGED <<lines, eof, scanned, cmds, closed, cancelled, out>>

FinishAbort ==
  /\ serve = "abort" /\ Drained
  /\ run' = 0
  /\ serve' = "range"
  /\ UNCHANGED <<lines, eof, scanned, cmds, closed, phase, cancelled, out>>

Exit ==
  /\ serve = "eof" /\ Drained
  /\ run' = 0
  /\ serve' = "exited"
  /\ UNCHANGED <<lines, eof, scanned, cmds, closed, phase, cancelled, out>>

-----------------------------------------------------------------------------
(* The run goroutine *)

Emit(r, type) == out' = Append(out, [run |-> r, type |-> type])

RunStarting(r) ==
  /\ phase[r] = "spawned"
  /\ Emit(r, "starting")
  /\ phase' = [phase EXCEPT ![r] = "running"]
  /\ UNCHANGED <<lines, eof, scanned, cmds, closed, serve, run, cancelled>>

EventsOf(r) == {i \in DOMAIN out : out[i].run = r /\ out[i].type = "event"}

RunEmits(r) ==
  /\ phase[r] = "running"
  /\ Cardinality(EventsOf(r)) < MaxEvents
  /\ Emit(r, "event")
  /\ UNCHANGED <<lines, eof, scanned, cmds, closed, serve, run, phase, cancelled>>

(* Faulty variant: a run that failed is not announced. *)
RunReturnsMaybeSilently(r) ==
  /\ phase[r] = "running"
  /\ \E failed \in BOOLEAN :
       phase' = [phase EXCEPT ![r] =
                   IF r \in cancelled \/ failed THEN "done" ELSE "announcing"]
  /\ UNCHANGED <<lines, eof, scanned, cmds, closed, serve, run, cancelled, out>>

(* runPrompt returns and the goroutine reads runCtx.Err(). *)
RunReturns(r) ==
  /\ phase[r] = "running"
  /\ phase' = [phase EXCEPT ![r] = IF r \in cancelled THEN "done" ELSE "announcing"]
  /\ UNCHANGED <<lines, eof, scanned, cmds, closed, serve, run, cancelled, out>>

(* Faulty variant: runDone is closed before session_idle is written. *)
RunAnnouncesLate(r) ==
  /\ \/ phase[r] = "announcing" /\ phase' = [phase EXCEPT ![r] = "done"] /\ UNCHANGED out
     \/ phase[r] = "done" /\ ~Announced(r) /\ Emit(r, "session_idle") /\ UNCHANGED phase
  /\ UNCHANGED <<lines, eof, scanned, cmds, closed, serve, run, cancelled>>

(* session_idle is written, then the deferred close(done) runs. *)
RunAnnounces(r) ==
  /\ phase[r] = "announcing"
  /\ Emit(r, "session_idle")
  /\ phase' = [phase EXCEPT ![r] = "done"]
  /\ UNCHANGED <<lines, eof, scanned, cmds, closed, serve, run, cancelled>>

-----------------------------------------------------------------------------
Scan == ScanCommand \/ ScanMalformed \/ ScanEnds
Serve == \/ ReceiveStop \/ ReceiveUnknown \/ ReceiveClosed
         \/ StartRun \/ FinishAbort \/ Exit
Run(r) == RunStarting(r) \/ RunEmits(r) \/ RunReturns(r) \/ RunAnnounces(r)

(* The process has exited; nothing is left to take a step. *)
Exited == serve = "exited" /\ UNCHANGED vars

Next ==
  \/ CloseStdin \/ \E l \in Line : WriteLine(l)
  \/ Scan \/ Serve \/ Exited
  \/ \E r \in Runs : Run(r)

Spec == Init /\ [][Next]_vars

(* The Go scheduler runs every goroutine that can run. A run is only taken *)
(* to return once it is cancelled: nothing bounds how long it works before *)
(* (the HTTP client has no timeout and a model may keep calling tools).    *)
(* That it does then is AbortEndsRun of AgentRun, whose premise is that    *)
(* the tool it has under way ends.                                         *)
Fairness ==
  /\ WF_vars(Scan) /\ WF_vars(Serve)
  /\ \A r \in Runs : /\ WF_vars(RunStarting(r)) /\ WF_vars(RunAnnounces(r))
                     /\ WF_vars(r \in cancelled /\ RunReturns(r))

FairSpec == Spec /\ Fairness

-----------------------------------------------------------------------------
(* Properties *)

PromptsIn(n) == Cardinality({i \in 1..n : lines[i] = "prompt"})

(* The variables keep their types, and the channel its capacity. *)
TypeOK ==
  /\ lines \in Seq(Line) /\ Len(lines) <= MaxLines
  /\ eof \in BOOLEAN
  /\ scanned \in 0..Len(lines)
  /\ cmds \in Seq(Command) /\ Len(cmds) <= CmdsCap
  /\ closed \in BOOLEAN
  /\ serve \in {"range", "exited"} \cup InStopRun
  /\ run \in Runs \cup {0}
  /\ phase \in [Runs -> Phase]
  /\ cancelled \subseteq Runs
  /\ out \in Seq(Event)

(* "one run at a time": a goroutine that has not finished is the one that  *)
(* stopRun would cancel and wait for, so serve never loses hold of a run   *)
(* still writing to stdout, and none is alive after an abort or the exit.  *)
OneRunAtATime == Live \subseteq {run}

(* The events of different runs never mix on stdout: they come in prompt   *)
(* order, each run opens with starting, and nothing of it follows its      *)
(* session_idle. So the n-th starting .. session_idle section is run n's.  *)
OutputInRunOrder ==
  \A i, j \in DOMAIN out : i < j =>
    /\ out[i].run <= out[j].run
    /\ out[i].run = out[j].run => /\ out[j].type # "starting"
                                  /\ out[i].type # "session_idle"

(* "Always announce idle on natural completion": a finished run that wrote *)
(* no session_idle was cancelled by serve.                                 *)
CompletionAnnounced ==
  \A r \in Runs : phase[r] = "done" => Announced(r) \/ r \in cancelled

(* Every prompt readCommands took from stdin got its run, in spite of the  *)
(* buffered channel, the close and the waits of serve in between.          *)
NoPromptDropped == serve = "exited" => Cardinality(Started) = PromptsIn(scanned)

(* The loop implements the contract of the process with its driver. *)
Status == [r \in Runs |->
  CASE phase[r] = "new" -> "new"
    [] r \in Live -> "running"
    [] phase[r] = "done" /\ Announced(r) -> "idle"
    [] OTHER -> "stopped"]

Contract == INSTANCE SessionContract WITH status <- Status, ended <- (serve = "exited")
ImplementsContract == Contract!Spec

(* "stdin EOF: shut down cleanly": the process exits even if a run would   *)
(* work forever and commands are still queued behind it.                   *)
EofEndsProcess == eof ~> serve = "exited"

(* A prompt that was read gets its run, even if an earlier run never ends  *)
(* by itself: the newer prompt stops it.                                   *)
PromptsGetRuns ==
  \A n \in Runs : (PromptsIn(scanned) >= n) ~> (phase[n] # "new")

(* The runner waits for session_idle: if runs return by themselves, a      *)
(* driver that writes a prompt and then waits is answered, whatever it     *)
(* wrote before; no earlier abort or run can suppress the answer.          *)
WaitingDriverIsAnswered ==
  (\A r \in Runs : WF_vars(RunReturns(r))) =>
    \A n \in Runs :
      (Len(lines) = n /\ lines[n] = "prompt") ~>
        Len(lines) # n \/ eof \/ closed \/ Announced(PromptsIn(n))
=============================================================================
