----------------------------- MODULE MCAgentRun -----------------------------
(* Small instances of AgentRun for TLC: replies of every shape the loop    *)
(* tells apart, with few ids so that they are used again in later turns.   *)
EXTENDS AgentRun

CONSTANTS id1, id2  \* tool call ids

TC(id, tool) == [id |-> id, tool |-> tool]
Reply(text, tools) == [text |-> text, calls |-> tools, cost |-> 30, window |-> 0]

(* The model answers, falls silent, calls tools in parallel, under an      *)
(* empty id or with a finish between them, and looks at two images; the    *)
(* broker once reports another window, and once one that is no window.     *)
AllReplies ==
  {Reply(TRUE, <<>>), Reply(FALSE, <<>>),
   Reply(FALSE, <<TC(id1, "view_image"), TC(id2, "view_image")>>),
   [Reply(TRUE, <<TC(NoID, "other")>>) EXCEPT !.window = 500],
   Reply(TRUE, <<TC(id1, "other"), TC(id2, "finish"), TC(id1, "other")>>),
   [Reply(FALSE, <<TC(id1, "other")>>) EXCEPT !.window = 13600]}

(* The model comments on the item, works and finishes. *)
CommentReplies ==
  {Reply(FALSE, <<TC(id1, "comment")>>), Reply(FALSE, <<TC(id1, "other")>>),
   Reply(FALSE, <<TC(id1, "finish")>>), Reply(TRUE, <<TC(id1, "comment"), TC(id2, "finish")>>),
   Reply(FALSE, <<TC(id1, "quiet_finish")>>)}

(* The model looks at two images at a time. *)
ImageReplies == {Reply(FALSE, <<TC(id1, "view_image"), TC(id2, "view_image")>>), Reply(TRUE, <<>>)}

EveryReply == AllReplies \cup CommentReplies

(* Most results are small; those of "other" outgrow the small window.      *)
SomeCosts == [t \in Tool |-> IF t = "other" THEN {900} ELSE {20}]

(* The command posts and ends well, or ends in an error, before it posted  *)
(* or after: `ws comment add ... && make test`.                            *)
PromptComments == {[result |-> "clean", posted |-> TRUE]} \cup [result : {"exit"}, posted : BOOLEAN]

(* It may also run into the timeout of the bash call.                      *)
SlowComments == PromptComments \cup [result : {"timeout"}, posted : BOOLEAN]
=============================================================================
