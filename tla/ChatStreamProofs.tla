-------------------------- MODULE ChatStreamProofs --------------------------
(* The stream and its reader keep the contract of a model call, whatever   *)
(* the capacity of the channel and the length of the reply.                *)
EXTENDS ChatStream, TLAPS

Typed ==
  /\ producer \in {"calling", "content", "calls", "closed"}
  /\ text \in BOOLEAN /\ callsLeft \in Nat /\ channel \in Seq(Event)
  /\ returned \in BOOLEAN /\ final \in BOOLEAN /\ streamErr \in BOOLEAN
  /\ cancelled \in BOOLEAN
  /\ shown \in {0, 1}

(* Nothing is sent before the reply is complete.                           *)
Fresh ==
  producer \in {"calling", "content"} =>
    channel = <<>> /\ shown = 0 /\ ~final /\ ~streamErr

(* collect returns when all is sent and received.                          *)
ReturnedLast == returned => producer = "closed" /\ channel = <<>>

(* Content comes first, and is the content of the reply.                   *)
ContentFirst ==
  /\ shown = 1 => text
  /\ \A i \in 1..Len(channel) :
       channel[i] = "content" => i = 1 /\ shown = 0 /\ text /\ ~final /\ ~streamErr

(* An error is the only event of its call.                                 *)
ErrorAlone ==
  /\ streamErr => producer = "closed" /\ channel = <<>> /\ shown = 0 /\ ~final
  /\ \A i \in 1..Len(channel) :
       channel[i] = "error" =>
         producer = "closed" /\ Len(channel) = 1 /\ shown = 0 /\ ~final

(* Done comes last. *)
DoneLast ==
  /\ final => producer = "closed" /\ channel = <<>>
  /\ \A i \in 1..Len(channel) :
       channel[i] = "done" => producer = "closed" /\ i = Len(channel)

(* Without a cancellation no send gives up.                                *)
ErrorSent == streamErr \/ channel = <<"error">>
ContentSent == text => shown = 1 \/ (channel # <<>> /\ channel[1] = "content")
DoneSent == final \/ (channel # <<>> /\ channel[Len(channel)] = "done")

NothingLost ==
  ~cancelled =>
    /\ producer = "calls" => ContentSent
    /\ producer = "closed" => ErrorSent \/ (ContentSent /\ DoneSent)

IInv ==
  /\ Typed /\ Fresh /\ ReturnedLast /\ ContentFirst /\ ErrorAlone /\ DoneLast
  /\ NothingLost

(* IInv holds before anything is sent. *)
LEMMA IInvInit == Init => IInv
<1> SUFFICES ASSUME Init PROVE IInv
  OBVIOUS
<1>1. Typed
  <2>1. <<>> \in Seq(Event)
    OBVIOUS
  <2>2. producer = "calling" /\ callsLeft = 0 /\ channel = <<>> /\ shown = 0
    BY DEF Init
  <2>3. /\ text \in BOOLEAN /\ returned \in BOOLEAN /\ final \in BOOLEAN
        /\ streamErr \in BOOLEAN /\ cancelled \in BOOLEAN
    BY Zenon DEF Init
  <2> QED
    BY <2>1, <2>2, <2>3 DEF Typed
<1>2. Len(channel) = 0
  BY DEF Init
<1>3. Fresh /\ ReturnedLast /\ ContentFirst /\ ErrorAlone /\ DoneLast /\ NothingLost
  BY <1>2 DEF Init, Fresh, ReturnedLast, ContentFirst, ErrorAlone, DoneLast, NothingLost
<1> QED
  BY <1>1, <1>3 DEF IInv

(* A send appends one event or, cancelled, none.                           *)
LEMMA SendsAppends ==
  ASSUME channel \in Seq(Event), NEW ev \in Event, Sends(ev)
  PROVE  /\ channel' \in Seq(Event) /\ Len(channel') = Len(channel) + 1
         /\ channel'[Len(channel) + 1] = ev
         /\ \A i \in 1..Len(channel) : channel'[i] = channel[i]
BY DEF Sends

(* Every step of the two goroutines keeps IInv.                            *)
LEMMA IInvStep == IInv /\ [Next]_vars => IInv'
<1> SUFFICES ASSUME IInv, [Next]_vars PROVE IInv'
  OBVIOUS
<1> USE DEF IInv, Typed, Fresh, ReturnedLast, ContentFirst, ErrorAlone, DoneLast,
            NothingLost, ErrorSent, ContentSent, DoneSent
<1>e. {"content", "call", "done", "error"} = Event
  BY DEF Event
<1>1. CASE Cancel
  BY <1>1 DEF Cancel, reply, results
<1>2. CASE Fail
  <2>1. CASE Sends("error")
    <3>1. channel' = <<"error">>
      BY <1>2, <2>1 DEF Fail, Sends
    <3> QED
      BY <1>2, <1>e, <3>1 DEF Fail, reply, results
  <2>2. CASE GivesUp
    BY <1>2, <2>2 DEF Fail, GivesUp, reply, results
  <2> QED
    BY <1>2, <2>1, <2>2 DEF Fail
<1>3. CASE Respond
  BY <1>3, ChatStreamAssumption DEF Respond, results
<1>4. CASE SendContent
  <2>1. CASE text /\ Sends("content")
    <3>1. channel' = <<"content">>
      BY <1>4, <2>1 DEF SendContent, Sends
    <3> QED
      BY <1>4, <1>e, <2>1, <3>1 DEF SendContent, reply, results
  <2>2. CASE text /\ GivesUp
    BY <1>4, <2>2 DEF SendContent, GivesUp, reply, results
  <2>3. CASE ~text
    BY <1>4, <2>3 DEF SendContent, reply, results
  <2> QED
    BY <1>4, <2>1, <2>2, <2>3 DEF SendContent
<1>5. CASE SendCall
  <2>1. CASE Sends("call") /\ callsLeft' = callsLeft - 1 /\ UNCHANGED producer
    <3>1. /\ channel' \in Seq(Event) /\ Len(channel') = Len(channel) + 1
          /\ channel'[Len(channel) + 1] = "call"
          /\ \A i \in 1..Len(channel) : channel'[i] = channel[i]
      BY <1>e, <2>1, SendsAppends
    <3> QED
      BY <1>5, <2>1, <3>1 DEF SendCall, results
  <2>2. CASE GivesUp /\ producer' = "closed" /\ UNCHANGED callsLeft
    BY <1>5, <2>2 DEF SendCall, GivesUp, results
  <2> QED
    BY <1>5, <2>1, <2>2 DEF SendCall
<1>6. CASE SendDone
  <2>1. CASE Sends("done")
    <3>1. /\ channel' \in Seq(Event) /\ Len(channel') = Len(channel) + 1
          /\ channel'[Len(channel) + 1] = "done"
          /\ \A i \in 1..Len(channel) : channel'[i] = channel[i]
      BY <1>e, <2>1, SendsAppends
    <3> QED
      BY <1>6, <2>1, <3>1 DEF SendDone, reply, results
  <2>2. CASE GivesUp
    BY <1>6, <2>2 DEF SendDone, GivesUp, reply, results
  <2> QED
    BY <1>6, <2>1, <2>2 DEF SendDone
<1>7. CASE Receive
  <2>1. /\ channel' \in Seq(Event) /\ Len(channel') = Len(channel) - 1
        /\ Len(channel) \in Nat \ {0} /\ Head(channel) = channel[1] /\ channel[1] \in Event
        /\ \A i \in 1..Len(channel') : channel'[i] = channel[i + 1]
    BY <1>7 DEF Receive
  <2>2. producer = "calls" \/ producer = "closed"
    BY <1>7 DEF Receive
  <2>3. /\ UNCHANGED <<producer, text, callsLeft, returned, cancelled>> /\ ~returned
        /\ shown' = IF channel[1] = "content" THEN shown + 1 ELSE shown
        /\ final' = (final \/ channel[1] = "done")
        /\ streamErr' = (streamErr \/ channel[1] = "error")
    BY <1>7, <2>1 DEF Receive, reply
  <2>4. Typed' /\ Fresh' /\ ReturnedLast'
    BY <2>1, <2>2, <2>3
  <2>5. ContentFirst'
    BY <1>e, <2>1, <2>2, <2>3
  <2>6. ErrorAlone'
    BY <1>e, <2>1, <2>2, <2>3
  <2>7. DoneLast'
    BY <1>e, <2>1, <2>2, <2>3
  <2>8. NothingLost'
    <3> SUFFICES ASSUME ~cancelled
                 PROVE  /\ producer = "calls" => ContentSent'
                        /\ producer = "closed" => ErrorSent' \/ (ContentSent' /\ DoneSent')
      BY <2>3
    <3>1. ContentSent => ContentSent'
      BY <2>1, <2>3
    <3>2. ErrorSent => ErrorSent'
      <4>1. ~streamErr
        BY <2>1
      <4>2. ErrorSent => channel[1] = "error"
        BY <4>1
      <4>3. channel[1] = "error" => streamErr'
        BY Zenon, <2>3
      <4> QED
        BY <4>2, <4>3
    <3>3. DoneSent => DoneSent'
      <4>1. ~final
        BY <2>1
      <4>2. Len(channel') # 0 => channel' # <<>>
        BY <2>1
      <4>3. channel[1] = "done" => final'
        BY Zenon, <2>3
      <4> QED
        BY <2>1, <4>1, <4>2, <4>3
    <3> QED
      BY <3>1, <3>2, <3>3
  <2> QED
    BY <2>4, <2>5, <2>6, <2>7, <2>8
<1>8. CASE Return
  BY <1>8 DEF Return, reply, results
<1>9. CASE UNCHANGED vars
  BY <1>9 DEF vars, reply, results
<1> QED
  BY <1>1, <1>2, <1>3, <1>4, <1>5, <1>6, <1>7, <1>8, <1>9 DEF Next, Send, Collect, Ended

(* A model call that was not cancelled ends with a reply or an error and   *)
(* not both, and the text of the reply was shown.                          *)
THEOREM EndsOneWay == Spec => []NoSilentEnd
<1>1. IInv => NoSilentEnd
  BY DEF IInv, Typed, ReturnedLast, ContentFirst, ErrorAlone, NothingLost, ErrorSent,
         ContentSent, DoneSent, NoSilentEnd
<1> QED
  BY <1>1, IInvInit, IInvStep, PTL DEF Spec

(* Every step of the stream or its reader is one the contract of a model   *)
(* call allows, or is invisible to it.                                     *)
LEMMA ContractStep == IInv /\ [Next]_vars => [Contract!Next]_(Contract!vars)
<1> SUFFICES ASSUME IInv, [Next]_vars PROVE [Contract!Next]_(Contract!vars)
  OBVIOUS
<1> USE DEF Contract!Next, Contract!vars, Outcome
<1>1. CASE Cancel
  BY <1>1 DEF Cancel, results, Contract!Cancel
<1>2. CASE Fail \/ Respond \/ SendContent \/ SendCall \/ SendDone
  BY <1>2 DEF Fail, Respond, SendContent, SendCall, SendDone, results
<1>3. CASE Receive
  <2>1. CASE Head(channel) = "content"
    <3>1. shown = 0 /\ ~returned /\ ~returned' /\ shown' = 1 /\ cancelled' = cancelled
      BY <1>3, <2>1 DEF Receive, IInv, Typed, ContentFirst
    <3> QED
      BY <3>1 DEF Contract!Show
  <2>2. CASE Head(channel) # "content"
    BY <1>3, <2>2 DEF Receive
  <2> QED
    BY <2>1, <2>2
<1>4. CASE Return
  <2>1. streamErr => shown = 0
    BY DEF IInv, ErrorAlone
  <2>2. ~final /\ ~streamErr => cancelled
    BY <1>4 DEF Return, IInv, Typed, NothingLost, ErrorSent, DoneSent
  <2> QED
    BY <1>4, <2>1, <2>2 DEF Return, results, Contract!End
<1>5. CASE UNCHANGED vars
  BY <1>5 DEF vars, results
<1> QED
  BY <1>1, <1>2, <1>3, <1>4, <1>5 DEF Next, Send, Collect, Ended

(* The sending goroutine, the channel and collect together implement the   *)
(* contract runPrompt relies on, for every capacity and every reply.       *)
THEOREM Implements == Spec => ImplementsContract
<1>1. Init => Contract!Init
  BY DEF Init, Contract!Init, Outcome
<1> QED
  BY <1>1, IInvInit, IInvStep, ContractStep, PTL DEF Spec, ImplementsContract, Contract!Spec
=============================================================================
