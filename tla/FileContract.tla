---------------------------- MODULE FileContract ----------------------------
(***************************************************************************)
(* What edit_file and write_file promise of one file that other processes  *)
(* may append to at any time: the file as it was looked at is replaced in  *)
(* one step by what the call makes of it, or nothing happens. Only what    *)
(* others appended since the look can get lost, and only its first part;   *)
(* only a write that fails half-way leaves a piece of the new text.        *)
(***************************************************************************)
EXTENDS Integers, SequencesExt

CONSTANTS
  NoFile,  \* the content of a file that does not exist
  Pieces   \* what others append

VARIABLES
  content,  \* of the file, or NoFile
  call,     \* edit_file with old and new, or write_file with its text
  seen,     \* the content when the tool looked
  since,    \* what others appended since
  answer    \* "none", then "done", "refused" or "failed"

vars == <<content, call, seen, since, answer>>

(* The places where the text old lies in s, and s with it replaced there.  *)
Occurrences(s, old) ==
  {p \in 1..(Len(s) - Len(old) + 1) : SubSeq(s, p, p + Len(old) - 1) = old}

Splice(s, p, old, new) == SubSeq(s, 1, p - 1) \o new \o SubSeq(s, p + Len(old), Len(s))

(* What the call may make of the file it looked at. *)
Effects ==
  IF call.tool = "write_file" THEN {call.new}
  ELSE IF seen = NoFile THEN {}
  ELSE {Splice(seen, p, call.old, call.new) : p \in Occurrences(seen, call.old)}

Appended(s, a) == IF s = NoFile THEN a ELSE s \o a

Init == seen = content /\ since = <<>> /\ answer = "none"

OthersAppend ==
  /\ \E a \in Pieces : content' = Appended(content, a) /\ since' = since \o a
  /\ UNCHANGED <<call, seen, answer>>

Look ==
  /\ answer = "none"
  /\ seen' = content /\ since' = <<>>
  /\ UNCHANGED <<content, call, answer>>

Perform ==
  /\ answer = "none" /\ answer' = "done"
  /\ \E new \in Effects, t \in Suffixes(since) : content' = new \o t
  /\ UNCHANGED <<call, seen, since>>

Refuse ==
  /\ answer = "none" /\ answer' = "refused"
  /\ UNCHANGED <<content, call, seen, since>>

(* The write fails: the file is untouched, or a piece of the new text.     *)
Fail ==
  /\ answer = "none" /\ answer' = "failed"
  /\ \/ UNCHANGED content
     \/ \E new \in Effects, t \in Suffixes(since) :
          \E n \in 0..Len(new) : content' = SubSeq(new, 1, n) \o t
  /\ UNCHANGED <<call, seen, since>>

Next == OthersAppend \/ Look \/ Perform \/ Refuse \/ Fail

Spec == Init /\ [][Next]_vars
=============================================================================
