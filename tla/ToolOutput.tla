----------------------------- MODULE ToolOutput -----------------------------
(***************************************************************************)
(* The text a tool returns to the model: read_file's slice of a file       *)
(* (internal/tools/read.go), the remark that Bash, Grep and ListFiles add  *)
(* to the output of a command, the first line of what ws complained of     *)
(* (view_image), and the truncations they go through on their way into the *)
(* history (Truncate in internal/ctx/ctx.go, Execute in bash.go).          *)
(*                                                                         *)
(* A text is a sequence of bytes of which only the kind is kept: a "char"  *)
(* of one byte, the "lead", an inner ("cont") or the "last" byte of a      *)
(* longer rune, a "newline"; "header", "remark" and "marker" are the bytes *)
(* of the lines the tools add.                                             *)
(***************************************************************************)
EXTENDS Attachment, Sequences, FiniteSetsExt

CONSTANTS
  Texts,          \* what a file or the output of a command may hold
  ToolOutputCap,  \* in tokens (6000 in the code)
  ToolHeadTail,   \* in tokens (2000 in the code)
  LineCap,        \* in bytes (120 in the code)
  HeaderLength,   \* bound: bytes of the header of read_file
  MarkerLength    \* bytes of Truncate's marker

ASSUME ToolOutputAssumption ==
  /\ {ToolOutputCap, ToolHeadTail, LineCap, HeaderLength, MarkerLength} \subseteq Nat \ {0}
  /\ LineCap > 3
  /\ Texts \subseteq Seq({"char", "lead", "cont", "last", "newline"})
  /\ 8 * ToolHeadTail + HeaderLength + MarkerLength <= 4 * ToolOutputCap

VARIABLES
  step,    \* "asked", then "raw", then "done"; "panicked" if the tool did
  text,    \* the file read, or what the command wrote
  call,    \* the tool and its arguments
  output,  \* the result so far
  fetched, \* the attachment ws was asked for
  loaded   \* an image goes with the result

view == <<fetched, loaded>>
vars == <<step, text, call, output, view>>

Line(kind, n) == [i \in 1..n |-> kind]

-----------------------------------------------------------------------------
(* Truncate. An index i counts the bytes before the cut. *)

Tokens(s) == (Len(s) + 3) \div 4

RuneStart(s, i) == s[i + 1] \notin {"cont", "last"}

RuneBoundaryDown(s, i) ==
  IF i >= Len(s) THEN Len(s) ELSE Max({0} \cup {j \in 1..i : RuneStart(s, j)})

(* Faulty variant: the cut before the tail is made anywhere.               *)
RuneBoundaryNone(s, i) == IF i <= 0 THEN 0 ELSE i

RuneBoundaryUp(s, i) ==
  IF i <= 0 THEN 0 ELSE Min({Len(s)} \cup {j \in i..(Len(s) - 1) : RuneStart(s, j)})

(* Faulty variant: what is kept fills the cap, and the marker exceeds it.  *)
WideLimit == ToolOutputCap * 2

Limit == ToolHeadTail * 4

(* Faulty variant: the tail is dropped. *)
TruncateTail(s) ==
  IF Tokens(s) <= ToolOutputCap THEN s
  ELSE SubSeq(s, 1, RuneBoundaryDown(s, Limit)) \o Line("marker", MarkerLength)

Truncate(s) ==
  IF Tokens(s) <= ToolOutputCap THEN s
  ELSE SubSeq(s, 1, RuneBoundaryDown(s, Limit)) \o Line("marker", MarkerLength)
         \o SubSeq(s, RuneBoundaryUp(s, Len(s) - Limit) + 1, Len(s))

-----------------------------------------------------------------------------
(* ReadFile *)

(* The line the i-th byte of s is on, and strings.Split's number of lines. *)
LineOf(s, i) == 1 + Cardinality({j \in 1..(i - 1) : s[j] = "newline"})
Total(s) == 1 + Cardinality({j \in DOMAIN s : s[j] = "newline"})

(* The lines a to b, joined: all their bytes but the last newline.         *)
Lines(s, a, b) ==
  LET at == {i \in DOMAIN s : /\ LineOf(s, i) \in a..b
                              /\ ~(s[i] = "newline" /\ LineOf(s, i) = b)}
  IN  IF at = {} THEN <<>> ELSE SubSeq(s, Min(at), Max(at))

(* An int that left its range comes back at the other end.                 *)
Wrap(n) == ((n + IntMax + 1) % (2 * IntMax + 2)) - IntMax - 1

First(offset) == IF offset > 1 THEN offset ELSE 1

(* Faulty variant: the last line is one too far.                           *)
EndOneFurther(s, offset, limit) ==
  LET end == Wrap(First(offset) + limit)
  IN  IF limit > 0 /\ end < Total(s) THEN end ELSE Total(s)

End(s, offset, limit) ==
  LET end == Wrap(First(offset) - 1 + limit)
  IN  IF limit > 0 /\ end < Total(s) THEN end ELSE Total(s)

-----------------------------------------------------------------------------
(* A tool call *)

(* intArg: a numeric argument as an int, or zero if it is none.            *)
Args == {0} \cup UNION {IntOf(half) : half \in HalfNumbers}

Calls ==
  [tool : {"read_file"}, offset : Args, limit : Args]
    \cup [tool : {"bash", "search"}, ended : {"well", "ill", "late"}]
    \cup [tool : {"view_image"}, ref : Refs, data : Data]
    \cup [tool : {"refused"}]

Remark == Line("remark", 1)

Init ==
  /\ text \in Texts /\ call \in Calls
  /\ step = "asked" /\ output = <<>> /\ fetched = Refused /\ loaded = FALSE

Give(s) == step' = "raw" /\ output' = s /\ UNCHANGED <<text, call, view>>

ReadWhole ==
  /\ step = "asked" /\ call.tool = "read_file"
  /\ call.offset <= 0 /\ call.limit <= 0
  /\ Give(Truncate(text))

Sliced == call.tool = "read_file" /\ (call.offset > 0 \/ call.limit > 0)

ReadPastEnd ==
  /\ step = "asked" /\ Sliced /\ First(call.offset) > Total(text)
  /\ Give(Remark)

(* lines[start-1:end] is a slice of the lines. *)
InBounds ==
  LET start == First(call.offset)  end == End(text, call.offset, call.limit)
  IN  0 <= start - 1 /\ start - 1 <= end /\ end <= Total(text)

ReadSlice ==
  /\ step = "asked" /\ Sliced /\ First(call.offset) <= Total(text) /\ InBounds
  /\ Give(Line("header", HeaderLength)
            \o Truncate(Lines(text, First(call.offset), End(text, call.offset, call.limit))))

(* The slice expression panics, and nothing recovers. *)
ReadPanics ==
  /\ step = "asked" /\ Sliced /\ First(call.offset) <= Total(text) /\ ~InBounds
  /\ step' = "panicked"
  /\ UNCHANGED <<text, call, output, view>>

(* An unknown tool, unusable arguments, a path or a read error.            *)
Refuse ==
  /\ step = "asked" /\ call.tool = "refused"
  /\ Give(Remark)

(* Bash appends how a failed command ended.                                *)
BashEnds ==
  /\ step = "asked" /\ call.tool = "bash"
  /\ Give(text \o IF call.ended = "well" THEN <<>> ELSE Remark)

(* Grep and ListFiles return what a search over time has found, untruncated. *)
SearchLate ==
  /\ step = "asked" /\ call.tool = "search" /\ call.ended = "late"
  /\ Give(text \o Remark)

Blank(s) == \A i \in DOMAIN s : s[i] = "newline"

(* No output of a search that succeeded, or whose exit status is 1.        *)
SearchEmpty ==
  /\ step = "asked" /\ call.tool = "search" /\ call.ended # "late" /\ Blank(text)
  /\ Give(Remark)

SearchEnds ==
  /\ step = "asked" /\ call.tool = "search"
  /\ \/ call.ended = "well" /\ ~Blank(text) /\ Give(Truncate(text))
     \/ call.ended = "ill" /\ Give(Truncate(text \o Remark))

(* strings.TrimSpace, of texts whose only white space is the newline.      *)
Trimmed(s) ==
  IF Blank(s) THEN <<>>
  ELSE LET ink == {i \in DOMAIN s : s[i] # "newline"} IN SubSeq(s, Min(ink), Max(ink))

(* firstLine: the dots it adds are a remark of three bytes.                *)
FirstLine(s) ==
  LET line == SubSeq(s, 1, Min({Len(s)} \cup {i - 1 : i \in {j \in DOMAIN s : s[j] = "newline"}}))
  IN  IF Len(line) <= LineCap THEN line
      ELSE SubSeq(line, 1, RuneBoundaryDown(line, LineCap - 3)) \o Line("remark", 3)

(* Execute returns the results of view_image as they are.                  *)
ViewNothing ==
  /\ step = "asked" /\ call.tool = "view_image" /\ Refused \in ParseAttachmentID(call.ref)
  /\ step' = "done" /\ output' = Remark
  /\ UNCHANGED <<text, call, view>>

(* A ws that fails leaves text on stderr. *)
ViewImage ==
  /\ step = "asked" /\ call.tool = "view_image"
  /\ step' = "done" /\ fetched' \in ParseAttachmentID(call.ref) \ {Refused}
  /\ loaded' = Loadable(call.data)
  /\ output' = Remark \o IF call.data.failed THEN FirstLine(Trimmed(text)) ELSE <<>>
  /\ UNCHANGED <<text, call>>

(* Execute truncates whatever the tool returned.                           *)
Execute ==
  /\ step = "raw"
  /\ step' = "done" /\ output' = Truncate(output)
  /\ UNCHANGED <<text, call, view>>

Stopped == step \in {"done", "panicked"} /\ UNCHANGED vars

Next ==
  \/ ReadWhole \/ ReadPastEnd \/ ReadSlice \/ ReadPanics \/ Refuse
  \/ BashEnds \/ SearchLate \/ SearchEmpty \/ SearchEnds \/ ViewNothing \/ ViewImage
  \/ Execute \/ Stopped

Spec == Init /\ [][Next]_vars

-----------------------------------------------------------------------------
(* Properties *)

(* No rune is cut: its bytes follow each other.                            *)
ValidText(s) ==
  \A i \in DOMAIN s :
    /\ s[i] \in {"cont", "last"} => i > 1 /\ s[i - 1] \in {"lead", "cont"}
    /\ s[i] \in {"lead", "cont"} => i < Len(s) /\ s[i + 1] \in {"cont", "last"}

(* "Boundaries snap to a valid UTF-8 rune start": what the model gets of a *)
(* valid text is valid, whether it is cut once, twice or sliced first.     *)
OutputValid == ValidText(text) => ValidText(output)

Marked(s) == \E i \in DOMAIN s : s[i] = "marker"

(* The two truncations of a read result never both cut it: the first one   *)
(* leaves room for its marker and for the header, so that Execute changes  *)
(* nothing that read_file truncated.                                       *)
CutOnce == [][step = "raw" /\ Marked(output) => output' = output]_vars

(* The remark on a command that failed, timed out or was cancelled stands  *)
(* at the end of what the model gets, through one truncation and through   *)
(* two: runPrompt looks for it in the result of a comment command.         *)
RemarkSurvives ==
  step = "done" /\ call.tool \in {"bash", "search"} /\ call.ended # "well" =>
    output # <<>> /\ output[Len(output)] = "remark"

(* The lines that offset and limit ask for. *)
Wanted ==
  {l \in 1..Total(text) : /\ call.offset > 0 => l >= call.offset
                          /\ call.limit > 0 => l - First(call.offset) < call.limit}

(* "offset is the 1-based first line, limit the maximum number of lines;   *)
(* zero means from-the-start / to-the-end": the output of a short slice is *)
(* the header and exactly the bytes of the lines asked for, and there is   *)
(* one unless the sum of the arguments leaves the range of int.            *)
SliceRight ==
  /\ step = "panicked" => call.offset + call.limit > IntMax
  /\ step = "done" /\ Sliced /\ First(call.offset) <= Total(text) /\ ~Marked(output) =>
       output = Line("header", HeaderLength) \o Lines(text, Min(Wanted), Max(Wanted))

(* The image that joins the history is the one the model asked for: what   *)
(* names an attachment gets that one, and ws is asked for none that the    *)
(* argument does not name unless that is a number beyond int, when it is   *)
(* one of the ends of int. What came is loaded unless it is missing, too   *)
(* large or no image.                                                      *)
FetchedAsNamed ==
  step = "done" /\ call.tool = "view_image" =>
    /\ \A n \in 1..IntMax : Names(call.ref, n) => fetched = n
    /\ fetched # Refused =>
         \/ Names(call.ref, fetched)
         \/ BeyondInt(call.ref) /\ fetched \in {IntMax, -IntMax - 1}
    /\ loaded <=> fetched # Refused /\ Loadable(call.data)

(* The same sentence of whatever offset and limit: the read is answered.   *)
ReadAnswered == step # "panicked"
=============================================================================
