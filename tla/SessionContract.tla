-------------------------- MODULE SessionContract --------------------------
(***************************************************************************)
(* What the agent process promises the program that drives it over         *)
(* stdin/stdout (the contract in the header of cmd/windshift-agent/main.go *)
(* and the comments of serve): runs go one at a time, in prompt order; a   *)
(* run ends either announced, with exactly one session_idle, or stopped by *)
(* an abort, a newer prompt or shutdown; and the process leaves nothing    *)
(* running behind when it exits.                                           *)
(***************************************************************************)
EXTENDS Naturals

CONSTANT Runs  \* the runs of one process, numbered 1, 2, ... in prompt order

VARIABLES
  status,  \* [Runs -> {"new", "running", "idle", "stopped"}]
  ended    \* the process has exited

vars == <<status, ended>>

Running == {r \in Runs : status[r] = "running"}

Init == status = [r \in Runs |-> "new"] /\ ended = FALSE

(* The next prompt starts its run; every earlier run is over. *)
Begin(r) ==
  /\ ~ended /\ Running = {}
  /\ status[r] = "new"
  /\ \A q \in Runs : q < r => status[q] # "new"
  /\ status' = [status EXCEPT ![r] = "running"]
  /\ UNCHANGED ended

(* A run completes by itself and is announced, or is stopped. *)
End(r) ==
  /\ status[r] = "running"
  /\ \E over \in {"idle", "stopped"} : status' = [status EXCEPT ![r] = over]
  /\ UNCHANGED ended

Exit ==
  /\ ~ended /\ Running = {}
  /\ ended' = TRUE
  /\ UNCHANGED status

Next == Exit \/ \E r \in Runs : Begin(r) \/ End(r)

Spec == Init /\ [][Next]_vars
=============================================================================
