------------------------- MODULE ShellCommandProofs -------------------------
(* Safety of ShellCommand, whatever the program does. *)
EXTENDS ShellCommand, TLAPS

(* The shell has started unless Bash gave up at Start, and the watching    *)
(* goroutine is there while the shell may run.                             *)
ShellWatched ==
  /\ shell = "none" <=> watch = "unarmed"
  /\ shell = "running" \/ watch = "armed" => wait = "process"
  /\ wait = "process" => shell # "none" /\ watch # "off"
  /\ wait = "start" => shell = "none"

(* A kill has a reason, which the context still shows.                     *)
KillHasReason ==
  /\ watch = "fired" => ctx # "live"
  /\ shell = "killed" => watch = "fired"

(* After the shell is reaped the error says how it ended.                  *)
ErrTellsEnd ==
  /\ wait \in {"pipe", "waited"} =>
       /\ err # "exit" => shell = "zero"
       /\ err = "exit" => shell # "zero"
  /\ err = "ctx" => ctx # "live"

(* What was reported is what happened.                                     *)
ResultRight ==
  /\ result # "none" => wait = "returned"
  /\ OkMeansSuccess /\ KillIsNamed

IInv ==
  /\ TypeOK /\ ShellWatched /\ KillHasReason /\ ErrTellsEnd /\ ResultRight
  /\ KillReachesGroup

(* IInv holds at first. *)
LEMMA IInvInit == Init => IInv
BY DEF Init, IInv, TypeOK, ShellWatched, KillHasReason, ErrTellsEnd, ResultRight,
       KillReachesGroup, OkMeansSuccess, KillIsNamed

(* Every step keeps IInv. *)
LEMMA IInvStep == IInv /\ [Next]_vars => IInv'
<1> SUFFICES ASSUME IInv, [Next]_vars PROVE IInv'
  OBVIOUS
<1> USE DEF IInv, TypeOK, ShellWatched, KillHasReason, ErrTellsEnd, ResultRight,
            KillReachesGroup, OkMeansSuccess, KillIsNamed
<1>1. CASE CancelRun
  BY <1>1 DEF CancelRun, process
<1>2. CASE DeadlinePasses
  BY <1>2 DEF DeadlinePasses, process
<1>3. CASE ShellExits
  BY <1>3 DEF ShellExits
<1>4. ASSUME NEW k \in Kid, Spawns(k) PROVE IInv'
  BY <1>4 DEF Spawns, Kid
<1>5. ASSUME NEW k \in Kid, KidEnds(k) PROVE IInv'
  BY <1>5 DEF KidEnds
<1>6. CASE StartRefused
  BY <1>6 DEF StartRefused, process
<1>7. CASE StartFails
  BY <1>7 DEF StartFails, process
<1>8. CASE StartShell
  BY <1>8 DEF StartShell
<1>9. CASE WatchFires
  BY <1>9 DEF WatchFires, KillGroup, KillShell
<1>10. CASE ShellReaped
  BY <1>10 DEF ShellReaped, process
<1>11. CASE PipeClosed
  BY <1>11 DEF PipeClosed, process
<1>12. CASE WaitDelayExpires
  BY <1>12 DEF WaitDelayExpires, process
<1>13. CASE Report
  <2>1. CASE caller = "bash"
    BY <1>13, <2>1 DEF Report, BashVerdict, process
  <2>2. ASSUME NEW blank \in BOOLEAN, caller = "search", result' = SearchVerdict(blank)
        PROVE  IInv'
    BY <1>13, <2>2 DEF Report, SearchVerdict, process
  <2>3. CASE caller = "ws"
    BY <1>13, <2>3 DEF Report, WsVerdict, process
  <2>4. QED
    BY <1>13, <2>1, <2>2, <2>3 DEF Report
<1>14. CASE UNCHANGED vars
  BY <1>14 DEF vars, process
<1>15. QED
  BY <1>1, <1>2, <1>3, <1>4, <1>5, <1>6, <1>7, <1>8, <1>9, <1>10, <1>11, <1>12, <1>13,
     <1>14 DEF Next, Advance, Returned

(* A call reported as fine ended with status 0, one that Bash killed is    *)
(* never reported as an exit, and a kill leaves nothing of the group.      *)
THEOREM CommandSafe == Spec => [](OkMeansSuccess /\ KillIsNamed /\ KillReachesGroup)
<1>1. IInv => OkMeansSuccess /\ KillIsNamed /\ KillReachesGroup
  BY DEF IInv, ResultRight
<1>2. QED
  BY <1>1, IInvInit, IInvStep, PTL DEF Spec

(* No call of Bash, Grep, ListFiles or ws is taken for a success unless    *)
(* its process ended in one: what the comment guard relies on.             *)
THEOREM OkIsSuccess == Spec => []OkMeansSuccess
BY CommandSafe, PTL

(* A command stopped by its timeout or by the driver is said to be stopped.*)
THEOREM KillNamed == Spec => []KillIsNamed
BY CommandSafe, PTL
=============================================================================
