----------------------------- MODULE ChatStream -----------------------------
(***************************************************************************)
(* One model call: the goroutine runNeutral of internal/llm/llm.go sends   *)
(* events on a buffered channel, collect in agent.go drains it. The broker *)
(* answers or fails as it likes; the run's context may be cancelled.       *)
(***************************************************************************)
EXTENDS Naturals, Sequences

CONSTANTS
  OutCap,   \* capacity of the channel out (32 in the code)
  MaxCalls  \* bound: tool calls in a reply

ASSUME ChatStreamAssumption == OutCap \in Nat \ {0} /\ MaxCalls \in Nat

VARIABLES
  producer,   \* "calling", "content", "calls", then "closed"
  text,       \* the reply has content
  callsLeft,  \* its tool calls not yet sent
  channel,    \* the events in the channel out
  returned,   \* collect has returned
  final, streamErr,  \* its results, as whether they are set
  shown,      \* content events it has emitted
  cancelled

reply == <<text, callsLeft>>
results == <<final, streamErr, shown>>
vars == <<producer, reply, channel, returned, results, cancelled>>

Event == {"content", "call", "done", "error"}

Init ==
  /\ producer = "calling" /\ text = FALSE /\ callsLeft = 0
  /\ channel = <<>> /\ returned = FALSE
  /\ final = FALSE /\ streamErr = FALSE /\ shown = 0
  /\ cancelled = FALSE

Cancel ==
  /\ ~cancelled
  /\ cancelled' = TRUE
  /\ UNCHANGED <<producer, reply, channel, returned, results>>

-----------------------------------------------------------------------------
(* runNeutral. sendEvent waits for room in the channel or for ctx; when    *)
(* both are ready its select takes either.                                 *)

(* Faulty variant: an event that does not fit is dropped. *)
SendsOrLoses(ev) == channel' = IF Len(channel) < OutCap THEN Append(channel, ev) ELSE channel

Sends(ev) == Len(channel) < OutCap /\ channel' = Append(channel, ev)

GivesUp == cancelled /\ UNCHANGED channel

(* Faulty variant: the request is not bound to the context.                *)
FailUnbound ==
  /\ producer = "calling" /\ ~cancelled
  /\ Sends("error")
  /\ producer' = "closed"
  /\ UNCHANGED <<reply, returned, results, cancelled>>

(* Any of the error returns before the first content event: mapping the    *)
(* request, the transport, the status, decoding, no choices, bad arguments.*)
Fail ==
  /\ producer = "calling"
  /\ Sends("error") \/ GivesUp
  /\ producer' = "closed"
  /\ UNCHANGED <<reply, returned, results, cancelled>>

Respond ==
  /\ producer = "calling"
  /\ text' \in BOOLEAN /\ callsLeft' \in 0..MaxCalls
  /\ producer' = "content"
  /\ UNCHANGED <<channel, returned, results, cancelled>>

(* Faulty variant: the content is sent before the reply is fully decoded,  *)
(* which may still fail.                                                   *)
SendContentEarly ==
  /\ producer = "content"
  /\ IF text THEN Sends("content") \/ GivesUp ELSE UNCHANGED channel
  /\ producer' \in {"calls", "calling"}
  /\ UNCHANGED <<reply, returned, results, cancelled>>

(* The result of this send is not looked at. *)
SendContent ==
  /\ producer = "content"
  /\ IF text THEN Sends("content") \/ GivesUp ELSE UNCHANGED channel
  /\ producer' = "calls"
  /\ UNCHANGED <<reply, returned, results, cancelled>>

SendCall ==
  /\ producer = "calls" /\ callsLeft > 0
  /\ \/ Sends("call") /\ callsLeft' = callsLeft - 1 /\ UNCHANGED producer
     \/ GivesUp /\ producer' = "closed" /\ UNCHANGED callsLeft
  /\ UNCHANGED <<text, returned, results, cancelled>>

(* Faulty variant: the channel is never closed. *)
SendDoneUnclosed ==
  /\ producer = "calls" /\ callsLeft = 0
  /\ Sends("done") \/ GivesUp
  /\ producer' = "unclosed"
  /\ UNCHANGED <<reply, returned, results, cancelled>>

SendDone ==
  /\ producer = "calls" /\ callsLeft = 0
  /\ Sends("done") \/ GivesUp
  /\ producer' = "closed"
  /\ UNCHANGED <<reply, returned, results, cancelled>>

-----------------------------------------------------------------------------
(* collect *)

Receive ==
  /\ ~returned /\ channel # <<>>
  /\ channel' = Tail(channel)
  /\ shown' = IF Head(channel) = "content" THEN shown + 1 ELSE shown
  /\ final' = (final \/ Head(channel) = "done")
  /\ streamErr' = (streamErr \/ Head(channel) = "error")
  /\ UNCHANGED <<producer, reply, returned, cancelled>>

Return ==
  /\ ~returned /\ channel = <<>> /\ producer = "closed"
  /\ returned' = TRUE
  /\ UNCHANGED <<producer, reply, channel, results, cancelled>>

-----------------------------------------------------------------------------
Ended == returned /\ UNCHANGED vars
Send == SendContent \/ SendCall \/ SendDone
Collect == Receive \/ Return
Next == Cancel \/ Fail \/ Respond \/ Send \/ Collect \/ Ended

Spec == Init /\ [][Next]_vars

(* Both goroutines run. The broker need not answer, but the transport      *)
(* fails a request whose context is cancelled.                             *)
FairSpec == Spec /\ WF_vars(Send) /\ WF_vars(Collect) /\ WF_vars(cancelled /\ Fail)

-----------------------------------------------------------------------------
(* Properties *)

(* A call that was not cancelled ends with a reply or an error and not     *)
(* both, so runPrompt's "no response from model" cannot happen; and the    *)
(* text of such a reply was shown.                                         *)
NoSilentEnd ==
  returned /\ ~cancelled => /\ final # streamErr
                            /\ final => shown = IF text THEN 1 ELSE 0

(* What collect has seen, as the outcome of the contract. *)
Outcome == IF ~returned THEN "open" ELSE IF final THEN "reply"
           ELSE IF streamErr THEN "error" ELSE "nothing"

(* The stream and its reader together keep the contract of a model call. *)
Contract == INSTANCE ChatContract WITH outcome <- Outcome
ImplementsContract == Contract!Spec

(* A cancelled call ends, even if the broker never answers and the channel *)
(* is full: neither goroutine is left behind.                              *)
CancelEndsCall == cancelled ~> returned /\ producer = "closed"

(* A reply that arrived is delivered, however many tool calls it has.      *)
ReplyDelivered == producer = "content" ~> returned
=============================================================================
