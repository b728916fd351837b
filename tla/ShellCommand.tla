---------------------------- MODULE ShellCommand ----------------------------
(***************************************************************************)
(* The programs the agent runs: Bash in internal/tools/bash.go, the search *)
(* of grep.go and ls.go, and the calls of ws in agent.go (comment) and     *)
(* viewimage.go (fetch). All leave the waiting to os/exec, whose Wait and  *)
(* whose goroutine that watches the context are modelled as far as the     *)
(* callers depend on them; only Bash sets a process group and a WaitDelay. *)
(* The program is the environment: a shell command or ws may start         *)
(* processes that outlive it, keep its output pipe or leave its group.     *)
(***************************************************************************)
EXTENDS Naturals, FiniteSets

VARIABLES
  caller,   \* "bash", "search" (grep, list_files) or "ws"
  shell,    \* /bin/sh, or rg, grep, find, ws: "none" before it starts; how it ended
  kids,     \* processes started by it and alive
  ctx,      \* ctxT: "live", or what ended it first
  watch,    \* os/exec's watching goroutine: not yet "armed", "fired", "off"
  wait,     \* where the caller is: in Start, waiting for the process, for the
            \* output pipe, past Wait, or returned
  err,      \* what CombinedOutput or Run returns
  result    \* what the caller says of it

process == <<caller, shell, kids>>
vars == <<process, ctx, watch, wait, err, result>>

(* A process is told apart by whether it stays in the process group of the *)
(* shell and whether it holds the output pipe.                             *)
Kid == [grouped : BOOLEAN, piped : BOOLEAN]

Init ==
  /\ caller \in {"bash", "search", "ws"}
  /\ shell = "none" /\ kids = {}
  /\ ctx = "live" /\ watch = "unarmed"
  /\ wait = "start" /\ err = "nil" /\ result = "none"

-----------------------------------------------------------------------------
(* The context: the run is cancelled, or the timeout passes. *)

CancelRun ==
  /\ ctx = "live" /\ wait # "returned"
  /\ ctx' = "cancelled"
  /\ UNCHANGED <<process, watch, wait, err, result>>

DeadlinePasses ==
  /\ ctx = "live" /\ wait \notin {"start", "returned"}
  /\ ctx' = "deadline"
  /\ UNCHANGED <<process, watch, wait, err, result>>

-----------------------------------------------------------------------------
(* The command *)

(* A process can leave the group and drop the pipe, its children with it;   *)
(* there is no way back.                                                   *)
Spawns(k) ==
  /\ caller # "search" /\ k \notin kids
  /\ \/ shell = "running"
     \/ \E p \in kids : (k.grouped => p.grouped) /\ (k.piped => p.piped)
  /\ kids' = kids \cup {k}
  /\ UNCHANGED <<caller, shell, ctx, watch, wait, err, result>>

ShellExits ==
  /\ shell = "running"
  /\ shell' \in {"zero", "one", "other"}
  /\ UNCHANGED <<caller, kids, ctx, watch, wait, err, result>>

KidEnds(k) ==
  /\ k \in kids
  /\ kids' = kids \ {k}
  /\ UNCHANGED <<caller, shell, ctx, watch, wait, err, result>>

-----------------------------------------------------------------------------
(* Start *)

(* A run cancelled before the program starts: Bash and the searches look,  *)
(* and Start does again, whose error is that of any failed start.          *)
StartRefused ==
  /\ wait = "start" /\ ctx # "live" /\ caller # "ws"
  /\ wait' = "returned" /\ result' = "cancelled"
  /\ UNCHANGED <<process, ctx, watch, err>>

StartFails ==
  /\ wait = "start"
  /\ wait' = "waited" /\ err' = "exit"
  /\ UNCHANGED <<process, ctx, watch, result>>

StartShell ==
  /\ wait = "start" /\ ctx = "live"
  /\ shell' = "running" /\ watch' = "armed" /\ wait' = "process"
  /\ UNCHANGED <<caller, kids, ctx, err, result>>

-----------------------------------------------------------------------------
(* Stopping and waiting *)

(* The default of os/exec: SIGKILL to the process that was started.        *)
KillShell ==
  /\ shell' = IF shell = "running" THEN "killed" ELSE shell
  /\ kids' = kids

(* The Cancel of setProcessGroup: SIGKILL to the group of the shell.       *)
KillGroup ==
  /\ shell' = IF shell = "running" THEN "killed" ELSE shell
  /\ kids' = {k \in kids : ~k.grouped}

(* The watching goroutine lives until Wait has the exit status of the      *)
(* shell. It may therefore still fire when the shell has just exited.      *)
WatchFires ==
  /\ watch = "armed" /\ ctx # "live"
  /\ watch' = "fired"
  /\ IF caller = "bash" THEN KillGroup ELSE KillShell
  /\ UNCHANGED <<caller, ctx, wait, err, result>>

(* Wait has the exit status and calls the watching goroutine off. A        *)
(* context error counts only if the status is a success.                   *)
ShellReaped ==
  /\ wait = "process" /\ shell \in {"zero", "one", "other", "killed"}
  /\ err' = IF shell # "zero" THEN "exit" ELSE IF watch = "fired" THEN "ctx" ELSE "nil"
  /\ watch' = IF watch = "armed" THEN "off" ELSE watch
  /\ wait' = "pipe"
  /\ UNCHANGED <<process, ctx, result>>

PipeClosed ==
  /\ wait = "pipe" /\ \A k \in kids : ~k.piped
  /\ wait' = "waited"
  /\ UNCHANGED <<process, ctx, watch, err, result>>

(* Faulty variant: Bash without a WaitDelay. *)
WaitForPipe == FALSE /\ UNCHANGED vars

(* Faulty variant: the delay hides how the shell exited.                   *)
DelayMasksExit ==
  /\ wait = "pipe"
  /\ wait' = "waited" /\ err' = "delay"
  /\ UNCHANGED <<process, ctx, watch, result>>

(* WaitDelay after the end of the shell (or after WatchFires) the pipe is  *)
(* closed from this side; an earlier error is kept.                        *)
WaitDelayExpires ==
  /\ wait = "pipe" /\ caller = "bash"
  /\ wait' = "waited"
  /\ err' = IF err = "nil" THEN "delay" ELSE err
  /\ UNCHANGED <<process, ctx, watch, result>>

(* Faulty variant: only a timeout is told from an error of the command.    *)
BashVerdictWithoutCancel ==
  IF err = "nil" THEN "ok"
  ELSE IF ctx = "deadline" THEN "timeout"
  ELSE IF err = "delay" THEN "ok" ELSE "exit"

(* Bash's switch reads the context again. *)
BashVerdict ==
  IF err = "nil" THEN "ok"
  ELSE IF ctx # "live" THEN IF ctx = "deadline" THEN "timeout" ELSE "cancelled"
  ELSE IF err = "delay" THEN "ok" ELSE "exit"

(* Faulty variant: any failure without output is taken for "no matches".   *)
AnyFailureFoundNothing(blank) ==
  IF err # "nil" /\ ctx = "deadline" THEN "timeout"
  ELSE IF blank THEN "nothing" ELSE IF err = "nil" THEN "ok" ELSE "exit"

(* Grep and ListFiles: rg and grep exit with 1 when nothing matched.       *)
SearchVerdict(blank) ==
  IF err # "nil" /\ ctx = "deadline" THEN "timeout"
  ELSE IF blank /\ (err = "nil" \/ shell = "one") THEN "nothing"
  ELSE IF err = "nil" THEN "ok" ELSE "exit"

(* What a call of ws came to: postFinishComment and fetchAttachment only   *)
(* look whether there is an error.                                         *)
WsVerdict == IF err = "nil" THEN "ok" ELSE "failed"

Report ==
  /\ wait = "waited"
  /\ wait' = "returned"
  /\ \/ caller = "bash" /\ result' = BashVerdict
     \/ caller = "search" /\ \E blank \in BOOLEAN : result' = SearchVerdict(blank)
     \/ caller = "ws" /\ result' = WsVerdict
  /\ UNCHANGED <<process, ctx, watch, err>>

-----------------------------------------------------------------------------
(* What the caller and os/exec do by themselves. *)
Advance ==
  \/ StartRefused \/ StartShell
  \/ WatchFires \/ ShellReaped \/ PipeClosed \/ WaitDelayExpires \/ Report

(* The caller has returned; processes left behind go on. *)
Returned == wait = "returned" /\ UNCHANGED vars

Next ==
  \/ CancelRun \/ DeadlinePasses
  \/ ShellExits \/ \E k \in Kid : Spawns(k) \/ KidEnds(k)
  \/ StartFails \/ Advance
  \/ Returned

Spec == Init /\ [][Next]_vars

(* The timer of WaitDelay fires, goroutines run, and SIGKILL ends a        *)
(* process. The program need never end.                                    *)
Fairness ==
  /\ WF_vars(StartRefused \/ StartShell \/ (ctx # "live" /\ StartFails))
  /\ WF_vars(WatchFires) /\ WF_vars(ShellReaped)
  /\ WF_vars(PipeClosed \/ WaitDelayExpires) /\ WF_vars(Report)

FairSpec == Spec /\ Fairness

-----------------------------------------------------------------------------
(* Properties *)

(* The variables keep their types. *)
TypeOK ==
  /\ caller \in {"bash", "search", "ws"}
  /\ shell \in {"none", "running", "zero", "one", "other", "killed"} /\ kids \subseteq Kid
  /\ ctx \in {"live", "deadline", "cancelled"}
  /\ watch \in {"unarmed", "armed", "fired", "off"}
  /\ wait \in {"start", "process", "pipe", "waited", "returned"}
  /\ err \in {"nil", "exit", "ctx", "delay"}
  /\ result \in {"none", "ok", "nothing", "exit", "timeout", "cancelled", "failed"}

(* A result without a remark means that the program exited with status 0,  *)
(* also when a process it left in the background cut the waiting short:    *)
(* runPrompt's comment guard and comment_failed rely on it. "(no matches)" *)
(* is only said of a search that ran to its end: one that did not start,   *)
(* failed, timed out or was cancelled does not look like an empty one.     *)
OkMeansSuccess ==
  /\ result = "ok" => shell = "zero"
  /\ result = "nothing" => shell \in {"zero", "one"}

(* "name it rather than leak \"signal: killed\" noise": a shell killed by  *)
(* Bash is reported as timed out or cancelled, never as an exit, and an    *)
(* exit was the command's own or a failed start. No caller takes a killed  *)
(* program for one that had nothing to say.                                *)
KillIsNamed ==
  /\ caller = "bash" =>
       /\ shell = "killed" /\ wait = "returned" => result \in {"timeout", "cancelled"}
       /\ result = "exit" => shell \in {"one", "other", "none"}
  /\ shell = "killed" => result \notin {"ok", "nothing"}

(* Once the watching goroutine has acted nothing of the shell's process    *)
(* group is left, and nothing joins it later.                              *)
KillReachesGroup ==
  caller = "bash" /\ watch = "fired" => shell # "running" /\ \A k \in kids : ~k.grouped

(* "a backstop against runaway loops": if the timeout passes every call    *)
(* returns, whatever the program does; a call of ws, which has no          *)
(* WaitDelay, only if its output pipe is not held for ever by another.     *)
PipeFree == \A k \in kids : ~k.piped
CallReturns ==
  WF_vars(DeadlinePasses) /\ (caller = "ws" => <>[]PipeFree) => <>(wait = "returned")

(* "without this CombinedOutput blocks for the full timeout even though    *)
(* the shell is gone": when the shell has exited Bash returns, timeout or  *)
(* not, even if a background process holds the pipe for ever.              *)
ExitEndsCall == caller # "ws" /\ shell \in {"zero", "one", "other"} ~> wait = "returned"

(* What setProcessGroup says: children do not outlive the shell on cancel  *)
(* or timeout.                                                             *)
StopKillsGroup == result \in {"timeout", "cancelled"} => \A k \in kids : ~k.grouped
=============================================================================
