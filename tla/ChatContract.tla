---------------------------- MODULE ChatContract ----------------------------
(***************************************************************************)
(* What runPrompt relies on in one model call (Client.Chat and collect     *)
(* together): the text is shown at most once and never by a call that      *)
(* fails, so that a retry repeats nothing; the call ends with a reply or   *)
(* an error, and with neither only when its context was cancelled.         *)
(***************************************************************************)
EXTENDS Naturals

VARIABLES
  outcome,   \* "open", then "reply", "error" or "nothing"
  shown,     \* content events emitted
  cancelled

vars == <<outcome, shown, cancelled>>

Init == outcome = "open" /\ shown = 0 /\ cancelled = FALSE

Cancel == cancelled' = TRUE /\ UNCHANGED <<outcome, shown>>

Show == outcome = "open" /\ shown = 0 /\ shown' = 1 /\ UNCHANGED <<outcome, cancelled>>

End ==
  /\ outcome = "open"
  /\ \/ outcome' = "reply"
     \/ outcome' = "error" /\ shown = 0
     \/ outcome' = "nothing" /\ cancelled
  /\ UNCHANGED <<shown, cancelled>>

Next == Cancel \/ Show \/ End

Spec == Init /\ [][Next]_vars
=============================================================================
