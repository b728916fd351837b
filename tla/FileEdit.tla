------------------------------ MODULE FileEdit ------------------------------
(***************************************************************************)
(* One call of edit_file or write_file (internal/tools/edit.go, write.go)  *)
(* on a file that a background process of an earlier bash call appends to. *)
(* The tools take no lock and the file system gives none: between reading, *)
(* truncating and writing the file the other process may come.             *)
(***************************************************************************)
EXTENDS Integers, SequencesExt, FiniteSetsExt

CONSTANTS
  Byte,     \* bytes of a file
  Space,    \* the bytes that are white space
  NoFile,   \* the content of a file that does not exist
  Files,    \* what the file may hold at first
  Calls,    \* records [tool, old, new]; write_file has an empty old
  Pieces,   \* what the background process may append
  MaxOther  \* bound: bytes it appends

Text == Seq(Byte)
Call == [tool : {"edit_file", "write_file"}, old : Text, new : Text]

ASSUME FileEditAssumption ==
  /\ Space \subseteq Byte /\ Space # {} /\ NoFile \notin Text
  /\ Files \subseteq Text \cup {NoFile} /\ Calls \subseteq Call /\ Pieces \subseteq Text
  /\ MaxOther \in Nat

VARIABLES
  file,    \* what another process sees
  call,
  pc,      \* "called", "read", "ready" to write, "writing" (truncated), "returned"
  update,  \* what is to be written
  result,
  seen,    \* what the tool read; at first the file
  since, hidden  \* for the properties: what was appended since the tool looked,
                 \* and what the file would hold without the truncation

history == <<seen, since, hidden>>
vars == <<file, call, pc, update, result, history>>

(* Occurrences and Splice are those of the contract. *)
Answer == IF result \in {"none", "done", "failed"} THEN result ELSE "refused"
Contract == INSTANCE FileContract
  WITH content <- IF pc = "writing" THEN hidden ELSE file, answer <- Answer
Occurrences(s, old) == Contract!Occurrences(s, old)

Init ==
  /\ file \in Files /\ call \in Calls
  /\ pc = "called" /\ update = <<>> /\ result = "none"
  /\ seen = file /\ since = <<>> /\ hidden = file

(* The background process runs `... >> file`, which creates the file.      *)
OthersAppend(a) ==
  /\ Len(since) + Len(a) <= MaxOther
  /\ file' = Contract!Appended(file, a)
  /\ hidden' = Contract!Appended(hidden, a)
  /\ since' = since \o a
  /\ UNCHANGED <<call, pc, update, result, seen>>

Return(verdict) == pc' = "returned" /\ result' = verdict

-----------------------------------------------------------------------------
(* edit_file *)

Editing == pc = "called" /\ call.tool = "edit_file"

(* Faulty variant: after a match the search goes on one byte further.      *)
CountOverlapping(s, old) ==
  IF Cardinality(Occurrences(s, old)) < 2 THEN Cardinality(Occurrences(s, old)) ELSE 2

(* strings.Count, as far as edit_file tells numbers apart: it goes on      *)
(* behind each match, so that a second one must not overlap the first.     *)
Count(s, old) ==
  LET at == Occurrences(s, old)
  IN  IF at = {} THEN 0
      ELSE IF \E p \in at : p >= Min(at) + Len(old) THEN 2 ELSE 1

(* Faulty variant: no blanks around the text.                              *)
NormUnbounded(s) == SelectSeq(s, LAMBDA b : b \notin Space)

(* strings.Fields joined by blanks, with one more blank at either end.     *)
Norm(s) ==
  LET gap == CHOOSE b \in Space : TRUE
      Joined(t, b) == IF b \notin Space THEN Append(t, b)
                      ELSE IF Last(t) = gap THEN t ELSE Append(t, gap)
  IN  IF \A i \in DOMAIN s : s[i] \in Space THEN <<gap, gap>>
      ELSE FoldLeft(Joined, <<gap>>, Append(s, gap))

DiffersOnlyInWhitespace(s, old) == Count(Norm(s), Norm(old)) = 1

RefuseArguments ==
  /\ Editing /\ (call.old = <<>> \/ call.old = call.new)
  /\ Return("bad arguments")
  /\ UNCHANGED <<file, call, update, history>>

ReadFails ==
  /\ Editing /\ call.old # <<>> /\ call.old # call.new
  /\ Return("read error")
  /\ UNCHANGED <<file, call, update, history>>

Read ==
  /\ Editing /\ call.old # <<>> /\ call.old # call.new
  /\ file # NoFile
  /\ pc' = "read" /\ seen' = file /\ since' = <<>>
  /\ UNCHANGED <<file, call, update, result, hidden>>

NotFound ==
  /\ pc = "read" /\ Count(seen, call.old) = 0
  /\ Return(IF DiffersOnlyInWhitespace(seen, call.old) THEN "white space" ELSE "not found")
  /\ UNCHANGED <<file, call, update, history>>

Ambiguous ==
  /\ pc = "read" /\ Count(seen, call.old) > 1
  /\ Return("ambiguous")
  /\ UNCHANGED <<file, call, update, history>>

Replace ==
  /\ pc = "read" /\ Count(seen, call.old) = 1
  /\ pc' = "ready"
  /\ update' = Contract!Splice(seen, Min(Occurrences(seen, call.old)), call.old, call.new)
  /\ UNCHANGED <<file, call, result, history>>

-----------------------------------------------------------------------------
(* write_file, after its directories are made *)

Prepare ==
  /\ pc = "called" /\ call.tool = "write_file"
  /\ \/ pc' = "ready" /\ update' = call.new /\ UNCHANGED result
     \/ Return("mkdir error") /\ UNCHANGED update
  /\ UNCHANGED <<file, call, history>>

-----------------------------------------------------------------------------
(* os.WriteFile opens with O_TRUNC, then writes from the start. *)

OpenFails ==
  /\ pc = "ready"
  /\ Return("failed")
  /\ UNCHANGED <<file, call, update, history>>

(* Faulty variant: the file is opened without O_TRUNC.                     *)
OpenUntruncated ==
  /\ pc = "ready"
  /\ pc' = "writing" /\ file' = Contract!Appended(file, <<>>) /\ hidden' = file
  /\ UNCHANGED <<call, update, result, seen, since>>

Truncate ==
  /\ pc = "ready"
  /\ pc' = "writing" /\ file' = <<>> /\ hidden' = file
  /\ UNCHANGED <<call, update, result, seen, since>>

(* The bytes of u in place of the first ones of s. *)
Over(u, s) == u \o SubSeq(s, Len(u) + 1, Len(s))

Write ==
  /\ pc = "writing"
  /\ \/ file' = Over(update, file) /\ Return("done")
     \/ /\ \E n \in 0..Len(update) : file' = Over(SubSeq(update, 1, n), file)
        /\ Return("failed")
  /\ UNCHANGED <<call, update, history>>

-----------------------------------------------------------------------------
Returned == pc = "returned" /\ UNCHANGED vars

Next ==
  \/ \E a \in Pieces : OthersAppend(a)
  \/ RefuseArguments \/ ReadFails \/ Read \/ NotFound \/ Ambiguous \/ Replace
  \/ Prepare \/ OpenFails \/ Truncate \/ Write \/ Returned

Spec == Init /\ [][Next]_vars

-----------------------------------------------------------------------------
(* Properties *)

(* A call replaces the file it looked at in one step or leaves it alone,   *)
(* up to what others appended since the look and to failing writes.        *)
ImplementsContract == Contract!Spec

(* "No exact match, a block there differs only in white space": the text   *)
(* is not there, and some whole words of the file in a row are those of    *)
(* the text the model gave.                                                *)
Edge(s, i) == i \notin DOMAIN s \/ s[i] \in Space
HintNamesABlock ==
  result = "white space" =>
    /\ Occurrences(seen, call.old) = {}
    /\ \E i \in 1..(Len(seen) + 1), j \in 0..Len(seen) :
         /\ Edge(seen, i - 1) /\ Edge(seen, j + 1)
         /\ Norm(SubSeq(seen, i, j)) = Norm(call.old)

(* An edit is only made where no two separate places match: only matches   *)
(* that overlap each other pass for one. An edit is only refused as        *)
(* ambiguous when the old text fits in twice.                              *)
Overlap(p, q) == p < q + Len(call.old) /\ q < p + Len(call.old)
AmbiguityFound ==
  call.tool = "edit_file" =>
    LET at == Occurrences(seen, call.old) IN
    /\ result = "done" => at # {} /\ \A p, q \in at : Overlap(p, q)
    /\ result = "ambiguous" => \E p, q \in at : ~Overlap(p, q)
=============================================================================
