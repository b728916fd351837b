-------------------------- MODULE ToolOutputProofs --------------------------
(***************************************************************************)
(* Truncation for texts of any length and any caps that leave room for the *)
(* marker, as ToolOutputAssumption demands of them.                        *)
(***************************************************************************)
EXTENDS ToolOutput, NatSets, TLAPS

(* The constants, one by one. *)
LEMMA Caps ==
  /\ ToolOutputCap \in Nat /\ ToolHeadTail \in Nat /\ ToolHeadTail > 0
  /\ HeaderLength \in Nat /\ HeaderLength > 0 /\ MarkerLength \in Nat /\ MarkerLength > 0
  /\ 8 * ToolHeadTail + HeaderLength + MarkerLength <= 4 * ToolOutputCap
BY ToolOutputAssumption

(* The cut behind the head is at most i bytes in, and before a rune.       *)
LEMMA DownBounds ==
  ASSUME NEW S, NEW s \in Seq(S), NEW i \in Nat, i < Len(s)
  PROVE  /\ RuneBoundaryDown(s, i) \in 0..i
         /\ RuneBoundaryDown(s, i) > 0 => RuneStart(s, RuneBoundaryDown(s, i))
<1> DEFINE T == {0} \cup {j \in 1..i : RuneStart(s, j)}
<1>1. T \subseteq 0..i /\ T # {}
  OBVIOUS
<1>2. Max(T) \in T
  BY <1>1, MaxExists
<1>3. RuneBoundaryDown(s, i) = Max(T)
  BY DEF RuneBoundaryDown
<1> QED
  BY <1>1, <1>2, <1>3

(* The cut before the tail is at least i bytes in, and before a rune.      *)
LEMMA UpBounds ==
  ASSUME NEW S, NEW s \in Seq(S), NEW i \in Nat, i <= Len(s)
  PROVE  /\ RuneBoundaryUp(s, i) \in i..Len(s)
         /\ 0 < RuneBoundaryUp(s, i) /\ RuneBoundaryUp(s, i) < Len(s)
              => RuneStart(s, RuneBoundaryUp(s, i))
<1>1. CASE i = 0
  BY <1>1 DEF RuneBoundaryUp
<1>2. CASE i > 0
  <2> DEFINE T == {Len(s)} \cup {j \in i..(Len(s) - 1) : RuneStart(s, j)}
  <2>1. T \subseteq i..Len(s) /\ T \subseteq Nat /\ T # {}
    BY <1>2
  <2>2. Min(T) \in T
    BY <2>1, MinExists
  <2>3. RuneBoundaryUp(s, i) = Min(T)
    BY <1>2 DEF RuneBoundaryUp
  <2> QED
    BY <2>1, <2>2, <2>3
<1> QED
  BY <1>1, <1>2

(* "Head/tail can't overlap": of a text over the cap the head ends before  *)
(* the tail begins, and each is at most ToolHeadTail tokens long.          *)
THEOREM HeadBeforeTail ==
  ASSUME NEW S, NEW s \in Seq(S), Tokens(s) > ToolOutputCap
  PROVE  /\ RuneBoundaryDown(s, Limit) \in 0..Limit
         /\ RuneBoundaryUp(s, Len(s) - Limit) \in (Len(s) - Limit)..Len(s)
         /\ RuneBoundaryDown(s, Limit) < RuneBoundaryUp(s, Len(s) - Limit)
<1>1. Len(s) \in Nat /\ Len(s) > 4 * ToolOutputCap
  BY Caps DEF Tokens
<1>2. Limit \in Nat /\ Limit < Len(s) - Limit /\ Limit < Len(s)
  BY <1>1, Caps DEF Limit
<1>3. RuneBoundaryDown(s, Limit) \in 0..Limit
  BY <1>2, DownBounds
<1>4. Len(s) - Limit \in Nat /\ Len(s) - Limit <= Len(s)
  BY <1>1, <1>2
<1>5. RuneBoundaryUp(s, Len(s) - Limit) \in (Len(s) - Limit)..Len(s)
  BY <1>4, UpBounds
<1> QED
  BY <1>1, <1>2, <1>3, <1>5

(* A text that was truncated is short enough to be left alone by the next  *)
(* truncation, even behind a header.                                       *)
THEOREM TruncatedFits ==
  ASSUME NEW S, NEW s \in Seq(S), Tokens(s) > ToolOutputCap
  PROVE  Len(Truncate(s)) \in Nat /\ Len(Truncate(s)) + HeaderLength <= 4 * ToolOutputCap
<1> DEFINE D == RuneBoundaryDown(s, Limit)
           U == RuneBoundaryUp(s, Len(s) - Limit)
           head == SubSeq(s, 1, D)
           tail == SubSeq(s, U + 1, Len(s))
           marker == Line("marker", MarkerLength)
<1>1. /\ D \in 0..Limit /\ U \in (Len(s) - Limit)..Len(s) /\ D < U
      /\ Len(s) \in Nat /\ Limit \in Nat
  BY HeadBeforeTail, Caps DEF Limit
<1>2. head \in Seq(S) /\ Len(head) = D
  BY <1>1
<1>3. tail \in Seq(S) /\ Len(tail) = Len(s) - U
  BY <1>1
<1>4. marker \in Seq({"marker"}) /\ Len(marker) = MarkerLength
  BY Caps DEF Line
<1>5. Truncate(s) = head \o marker \o tail
  <2>1. ~ (Tokens(s) <= ToolOutputCap)
    BY Caps DEF Tokens
  <2> QED
    BY <2>1 DEF Truncate
<1>6. Len(Truncate(s)) = D + MarkerLength + (Len(s) - U)
  <2>1. /\ head \in Seq(S \cup {"marker"}) /\ marker \in Seq(S \cup {"marker"})
        /\ tail \in Seq(S \cup {"marker"})
    BY <1>2, <1>3, <1>4
  <2>2. Len(head \o marker \o tail) = Len(head) + Len(marker) + Len(tail)
    BY <2>1
  <2> QED
    BY <1>2, <1>3, <1>4, <1>5, <2>2
<1> QED
  BY <1>1, <1>6, Caps DEF Limit

-----------------------------------------------------------------------------
(* Truncating twice *)

Byte == {"char", "lead", "cont", "last", "newline"}

(* A text that never holds a marker byte is not marked. *)
LEMMA Unmarked ==
  ASSUME NEW B, "marker" \notin B, NEW s \in Seq(B)
  PROVE  ~Marked(s)
BY DEF Marked

(* The lines cut out of a text are a text. *)
LEMMA LinesAreText ==
  ASSUME NEW s \in Seq(Byte), NEW a, NEW b
  PROVE  Lines(s, a, b) \in Seq(Byte)
<1> DEFINE at == {i \in DOMAIN s : /\ LineOf(s, i) \in a..b
                                  /\ ~(s[i] = "newline" /\ LineOf(s, i) = b)}
<1>1. CASE at = {}
  BY <1>1 DEF Lines
<1>2. CASE at # {}
  <2>1. Len(s) \in Nat /\ at \subseteq 1..Len(s)
    OBVIOUS
  <2>2. at \subseteq Nat /\ at \subseteq 0..Len(s)
    BY <2>1
  <2>3. Min(at) \in 1..Len(s) /\ Max(at) \in 1..Len(s)
    BY <1>2, <2>1, <2>2, MinExists, MaxExists
  <2>4. SubSeq(s, Min(at), Max(at)) \in Seq(Byte)
    <3> DEFINE m == Min(at)  n == Max(at)
    <3>1. m \in 1..Len(s) /\ n \in 1..Len(s)
      BY <2>3
    <3> HIDE DEF m, n
    <3>2. SubSeq(s, m, n) \in Seq(Byte)
      BY <3>1
    <3> QED
      BY <3>2 DEF m, n
  <2> QED
    BY <1>2, <2>4 DEF Lines
<1> QED
  BY <1>1, <1>2

(* What a tool truncated itself fits. *)
RawFits == step = "raw" /\ Marked(output) => Tokens(output) <= ToolOutputCap

TextInv == text \in Seq(Byte) /\ RawFits

(* At first nothing is truncated. *)
LEMMA TextInvInit == Init => TextInv
BY ToolOutputAssumption DEF Init, TextInv, RawFits, Byte

(* Truncate leaves a text unmarked and alone, or room for the header. *)
LEMMA MarkedFits ==
  ASSUME NEW S, NEW s \in Seq(S)
  PROVE  \/ Truncate(s) = s
         \/ Len(Truncate(s)) \in Nat /\ Len(Truncate(s)) + HeaderLength <= 4 * ToolOutputCap
<1>1. CASE Tokens(s) <= ToolOutputCap
  BY <1>1 DEF Truncate
<1>2. CASE ~(Tokens(s) <= ToolOutputCap)
  BY <1>2, TruncatedFits, Caps DEF Tokens
<1> QED
  BY <1>1, <1>2

(* Truncate returns a sequence. *)
LEMMA TruncateIsSeq ==
  ASSUME NEW S, NEW s \in Seq(S)
  PROVE  Truncate(s) \in Seq(S \cup {"marker"})
<1> DEFINE B == S \cup {"marker"}
<1>0. s \in Seq(B)
  OBVIOUS
<1>1. CASE Tokens(s) <= ToolOutputCap
  BY <1>0, <1>1 DEF Truncate
<1>2. CASE ~(Tokens(s) <= ToolOutputCap)
  <2>1. /\ RuneBoundaryDown(s, Limit) \in 0..Limit
        /\ RuneBoundaryUp(s, Len(s) - Limit) \in (Len(s) - Limit)..Len(s)
        /\ Limit \in Nat /\ Limit < Len(s) - Limit /\ Len(s) \in Nat
    BY <1>2, HeadBeforeTail, Caps DEF Tokens, Limit
  <2>2. SubSeq(s, 1, RuneBoundaryDown(s, Limit)) \in Seq(B)
    BY <1>0, <2>1
  <2>3. SubSeq(s, RuneBoundaryUp(s, Len(s) - Limit) + 1, Len(s)) \in Seq(B)
    BY <1>0, <2>1
  <2>4. Line("marker", MarkerLength) \in Seq(B)
    BY Caps DEF Line
  <2> QED
    BY <1>2, <2>2, <2>3, <2>4 DEF Truncate
<1> QED
  BY <1>1, <1>2

(* A result that is a text, or a truncated one, fits if it is marked.      *)
LEMMA TruncatedRawFits ==
  ASSUME NEW B, "marker" \notin B, NEW s \in Seq(B),
         output' = s \/ output' = Truncate(s)
  PROVE  RawFits'
<1>1. CASE output' = s
  BY <1>1, Unmarked DEF RawFits, Marked
<1>2. CASE output' = Truncate(s) /\ Len(Truncate(s)) \in Nat
             /\ Len(Truncate(s)) + HeaderLength <= 4 * ToolOutputCap
  <2>1. Tokens(output') <= ToolOutputCap
    BY <1>2, Caps DEF Tokens
  <2> QED
    BY <2>1 DEF RawFits
<1> QED
  BY <1>1, <1>2, MarkedFits

(* Every step keeps TextInv. *)
LEMMA TextInvStep == TextInv /\ [Next]_vars => TextInv'
<1> SUFFICES ASSUME TextInv, [Next]_vars PROVE TextInv'
  OBVIOUS
<1>t. text \in Seq(Byte) /\ "marker" \notin Byte
  BY DEF TextInv, Byte
<1>1. CASE ReadWhole
  BY <1>t, <1>1, TruncatedRawFits DEF ReadWhole, Give, TextInv
<1>2. CASE ReadPastEnd \/ Refuse \/ SearchEmpty
  <2>1. output' = Remark /\ text' = text /\ Remark \in Seq({"remark"})
    BY <1>2 DEF ReadPastEnd, Refuse, SearchEmpty, Give, Remark, Line
  <2> QED
    BY <1>t, <2>1, TruncatedRawFits DEF TextInv
<1>3. CASE ReadSlice
  <2> DEFINE slice == Lines(text, First(call.offset), End(text, call.offset, call.limit))
             header == Line("header", HeaderLength)
  <2>1. output' = header \o Truncate(slice) /\ text' = text
    BY <1>3 DEF ReadSlice, Give
  <2>2. slice \in Seq(Byte)
    BY <1>t, LinesAreText
  <2>3. header \in Seq({"header"}) /\ Len(header) = HeaderLength
    BY Caps DEF Line
  <2>4. CASE Truncate(slice) = slice
    <3>1. header \in Seq(Byte \cup {"header"}) /\ slice \in Seq(Byte \cup {"header"})
      BY <2>2, <2>3
    <3>2. output' \in Seq(Byte \cup {"header"}) /\ "marker" \notin Byte \cup {"header"}
      BY <2>1, <2>4, <3>1 DEF Byte
    <3>3. ~Marked(output')
      BY <3>2 DEF Marked
    <3> QED
      BY <1>t, <2>1, <3>3 DEF TextInv, RawFits, Marked
  <2>5. CASE Len(Truncate(slice)) \in Nat /\ Len(Truncate(slice)) + HeaderLength <= 4 * ToolOutputCap
    <3> DEFINE cut == Truncate(slice)
    <3>0. cut \in Seq(Byte \cup {"marker"})
      BY <2>2, TruncateIsSeq
    <3> HIDE DEF slice, header, cut
    <3>1. /\ header \in Seq(Byte \cup {"marker", "header"})
          /\ cut \in Seq(Byte \cup {"marker", "header"})
      BY <2>3, <3>0
    <3>2. output' = header \o cut
      BY <2>1 DEF cut
    <3>3. Len(header \o cut) = Len(header) + Len(cut)
      BY <3>1
    <3>4. Len(output') = HeaderLength + Len(Truncate(slice))
      BY <2>3, <3>2, <3>3 DEF cut
    <3>5. Tokens(output') <= ToolOutputCap
      BY <2>5, <3>4, Caps DEF Tokens
    <3> QED
      BY <1>t, <2>1, <3>5 DEF TextInv, RawFits
  <2> QED
    BY <2>2, <2>4, <2>5, MarkedFits
<1>4. CASE ReadPanics
  BY <1>t, <1>4 DEF ReadPanics, TextInv, RawFits
<1>5. CASE BashEnds \/ SearchLate \/ SearchEnds
  <2> DEFINE B == Byte \cup {"remark"}
  <2>1. "marker" \notin B /\ text \in Seq(B) /\ text \o Remark \in Seq(B)
    BY <1>t DEF Byte, Remark, Line
  <2>2. text' = text
    BY <1>5 DEF BashEnds, SearchLate, SearchEnds, Give
  <2>3. \E s \in Seq(B) : output' = s \/ output' = Truncate(s)
    <3>1. CASE BashEnds
      <4>1. CASE call.ended = "well"
        <5>1. output' = text \o <<>> /\ text \o <<>> \in Seq(B)
          BY <2>1, <3>1, <4>1 DEF BashEnds, Give
        <5> QED
          BY <5>1
      <4>2. CASE call.ended # "well"
        <5>1. output' = text \o Remark
          BY <3>1, <4>2 DEF BashEnds, Give
        <5> QED
          BY <2>1, <5>1
      <4> QED
        BY <4>1, <4>2
    <3>2. CASE SearchLate \/ SearchEnds
      <4>1. output' = text \o Remark \/ output' = Truncate(text) \/ output' = Truncate(text \o Remark)
        BY <3>2 DEF SearchLate, SearchEnds, Give
      <4> QED
        BY <2>1, <4>1
    <3> QED
      BY <1>5, <3>1, <3>2
  <2>4. PICK s \in Seq(B) : output' = s \/ output' = Truncate(s)
    BY <2>3
  <2>5. RawFits'
    BY <2>1, <2>4, TruncatedRawFits
  <2> QED
    BY <1>t, <2>2, <2>5 DEF TextInv
<1>6. CASE Execute
  BY <1>t, <1>6 DEF Execute, TextInv, RawFits
<1>8. CASE ViewNothing \/ ViewImage
  BY <1>t, <1>8 DEF ViewNothing, ViewImage, TextInv, RawFits
<1>7. CASE UNCHANGED vars
  BY <1>t, <1>7 DEF vars, TextInv, RawFits, Marked, Tokens
<1> QED
  BY <1>1, <1>2, <1>3, <1>4, <1>5, <1>6, <1>7, <1>8 DEF Next, Stopped

(* A result that read_file truncated passes Execute unchanged.             *)
THEOREM TruncatedOnce == Spec => CutOnce
<1>1. TextInv /\ [Next]_vars => [step = "raw" /\ Marked(output) => output' = output]_vars
  <2> SUFFICES ASSUME TextInv, Next, step = "raw", Marked(output) PROVE output' = output
    BY DEF vars
  <2>1. CASE Execute
    BY <2>1 DEF Execute, Truncate, TextInv, RawFits
  <2>2. CASE Stopped
    BY <2>2 DEF Stopped, vars
  <2> QED
    BY <2>1, <2>2 DEF Next, ReadWhole, ReadPastEnd, ReadSlice, ReadPanics,
       Refuse, BashEnds, SearchLate, SearchEmpty, SearchEnds, ViewNothing, ViewImage, Give
<1> QED
  BY <1>1, TextInvInit, TextInvStep, PTL DEF Spec, CutOnce

-----------------------------------------------------------------------------
(* The remark on a failed command *)

AnyByte == Byte \cup {"header", "remark", "marker"}

EndsInRemark(s) == s # <<>> /\ s[Len(s)] = "remark"

(* The bytes of a part of a text. *)
LEMMA PartBytes ==
  ASSUME NEW S, NEW s \in Seq(S), NEW a \in 1..(Len(s) + 1), NEW b \in (a - 1)..Len(s)
  PROVE  /\ SubSeq(s, a, b) \in Seq(S) /\ Len(SubSeq(s, a, b)) = b - a + 1
         /\ \A i \in 1..(b - a + 1) : SubSeq(s, a, b)[i] = s[a + i - 1]
OBVIOUS

(* The kept tail ends where the text ends, and is not empty if the last    *)
(* byte begins a rune.                                                     *)
LEMMA TruncateKeepsEnd ==
  ASSUME NEW S, NEW s \in Seq(S), EndsInRemark(s)
  PROVE  EndsInRemark(Truncate(s))
<1>1. CASE Tokens(s) <= ToolOutputCap
  BY <1>1 DEF Truncate
<1>2. CASE ~(Tokens(s) <= ToolOutputCap)
  <2> DEFINE D == RuneBoundaryDown(s, Limit)
             T == {Len(s)} \cup {j \in (Len(s) - Limit)..(Len(s) - 1) : RuneStart(s, j)}
             U == RuneBoundaryUp(s, Len(s) - Limit)
             head == SubSeq(s, 1, D)
             tail == SubSeq(s, U + 1, Len(s))
             marker == Line("marker", MarkerLength)
  <2>1. /\ D \in 0..Limit /\ U \in (Len(s) - Limit)..Len(s)
        /\ Len(s) \in Nat /\ Limit \in Nat /\ Limit > 0 /\ Limit < Len(s) - Limit
    BY <1>2, HeadBeforeTail, Caps DEF Tokens, Limit
  <2>2. U = Min(T)
    BY <2>1 DEF RuneBoundaryUp
  <2>3. T \subseteq Nat /\ Len(s) - 1 \in T
    BY <2>1 DEF RuneStart, EndsInRemark
  <2>4. U <= Len(s) - 1
    BY <2>2, <2>3, MinExists
  <2>5. head \in Seq(S) /\ tail \in Seq(S) /\ Len(tail) = Len(s) - U
    BY <2>1
  <2>6. tail[Len(tail)] = "remark" /\ Len(tail) > 0
    <3> HIDE DEF U
    <3>1. U \in Nat /\ U + 1 \in 1..(Len(s) + 1) /\ Len(s) \in ((U + 1) - 1)..Len(s)
      BY <2>1, <2>4
    <3>2. \A i \in 1..(Len(s) - (U + 1) + 1) : tail[i] = s[(U + 1) + i - 1]
      BY <3>1, PartBytes
    <3>3. Len(tail) \in 1..(Len(s) - (U + 1) + 1) /\ (U + 1) + Len(tail) - 1 = Len(s)
      BY <2>1, <2>4, <2>5, <3>1
    <3>4. tail[Len(tail)] = s[Len(s)]
      BY <3>2, <3>3
    <3> HIDE DEF tail
    <3> QED
      BY <3>3, <3>4 DEF EndsInRemark
  <2>7. marker \in Seq({"marker"})
    BY Caps DEF Line
  <2>8. Truncate(s) = head \o marker \o tail
    BY <1>2 DEF Truncate
  <2> HIDE DEF head, tail, marker
  <2>9. /\ head \o marker \in Seq(S \cup {"marker"})
        /\ tail \in Seq(S \cup {"marker"})
    BY <2>5, <2>7
  <2> QED
    BY <2>6, <2>8, <2>9 DEF EndsInRemark
<1> QED
  BY <1>1, <1>2

(* Every text a call goes through is made of the known kinds of bytes.     *)
Typed == text \in Seq(Byte) /\ output \in Seq(AnyByte)

(* A part of a text is a text. *)
LEMMA PartIsText ==
  ASSUME NEW S, NEW s \in Seq(S), NEW a \in Nat \ {0}, NEW b \in 0..Len(s)
  PROVE  SubSeq(s, a, b) \in Seq(S)
OBVIOUS

(* Trimming leaves a text. *)
LEMMA TrimmedIsText ==
  ASSUME NEW S, NEW s \in Seq(S)
  PROVE  Trimmed(s) \in Seq(S)
<1> DEFINE ink == {i \in DOMAIN s : s[i] # "newline"}
<1>1. CASE Blank(s)
  BY <1>1 DEF Trimmed
<1>2. CASE ~Blank(s)
  <2>1. Len(s) \in Nat /\ ink \subseteq 1..Len(s) /\ ink # {}
    BY <1>2 DEF Blank
  <2>2. ink \subseteq Nat /\ ink \subseteq 0..Len(s)
    BY <2>1
  <2>3. Min(ink) \in 1..Len(s) /\ Max(ink) \in 1..Len(s)
    BY <2>1, <2>2, MinExists, MaxExists
  <2>4. Trimmed(s) = SubSeq(s, Min(ink), Max(ink))
    BY <1>2 DEF Trimmed
  <2> HIDE DEF ink
  <2> QED
    BY <2>3, <2>4, PartIsText
<1> QED
  BY <1>1, <1>2

(* The end of the first line. *)
LineEnd(s) == Min({Len(s)} \cup {i - 1 : i \in {j \in DOMAIN s : s[j] = "newline"}})

(* The first line ends at the end of the text or before a newline.         *)
LEMMA LineEndBounds ==
  ASSUME NEW S, NEW s \in Seq(S)
  PROVE  /\ LineEnd(s) \in 0..Len(s)
         /\ LineEnd(s) < Len(s) => s[LineEnd(s) + 1] = "newline"
<1> DEFINE T == {Len(s)} \cup {i - 1 : i \in {j \in DOMAIN s : s[j] = "newline"}}
<1>1. T \subseteq Nat /\ T \subseteq 0..Len(s) /\ T # {}
  OBVIOUS
<1>2. Min(T) \in T
  BY <1>1, MinExists
<1>3. LineEnd(s) = Min(T)
  BY DEF LineEnd
<1> HIDE DEF T
<1>4. LineEnd(s) \in T
  BY <1>2, <1>3
<1> QED
  BY <1>1, <1>4 DEF T

(* The first line of a text, cut or not. *)
LEMMA FirstLineCases ==
  ASSUME NEW S, NEW s \in Seq(S)
  PROVE  LET line == SubSeq(s, 1, LineEnd(s))
         IN  /\ line \in Seq(S)
             /\ \/ FirstLine(s) = line
                \/ /\ LineCap - 3 \in Nat /\ LineCap - 3 < Len(line)
                   /\ FirstLine(s) = SubSeq(line, 1, RuneBoundaryDown(line, LineCap - 3))
                                       \o Line("remark", 3)
<1> DEFINE line == SubSeq(s, 1, LineEnd(s))
<1>1. line \in Seq(S)
  BY LineEndBounds
<1>2. LineCap \in Nat /\ LineCap > 3
  BY ToolOutputAssumption
<1>3. CASE Len(line) <= LineCap
  BY <1>1, <1>3 DEF FirstLine, LineEnd
<1>4. CASE ~(Len(line) <= LineCap)
  <2>1. Len(line) \in Nat
    BY <1>1
  <2>2. LineCap - 3 \in Nat /\ LineCap - 3 < Len(line)
    <3> HIDE DEF line
    <3> QED
      BY <1>2, <1>4, <2>1
  <2>3. FirstLine(s) = SubSeq(line, 1, RuneBoundaryDown(line, LineCap - 3)) \o Line("remark", 3)
    BY <1>4 DEF FirstLine, LineEnd
  <2> QED
    BY <1>1, <2>2, <2>3
<1> QED
  BY <1>3, <1>4

(* Every step keeps texts texts. *)
LEMMA TypedStep == Typed /\ [Next]_vars => Typed'
<1> SUFFICES ASSUME Typed, [Next]_vars PROVE Typed'
  OBVIOUS
<1>a. /\ text \in Seq(Byte) /\ text \in Seq(AnyByte) /\ output \in Seq(AnyByte)
      /\ \A B \in SUBSET AnyByte : \A s \in Seq(B) : s \in Seq(AnyByte)
  BY DEF Typed, AnyByte
<1>b. \A s \in Seq(AnyByte) : Truncate(s) \in Seq(AnyByte)
  BY TruncateIsSeq, AnyByte \cup {"marker"} = AnyByte DEF AnyByte
<1>c. \A n \in Nat : \A k \in {"header", "remark", "marker"} : Line(k, n) \in Seq(AnyByte)
  BY DEF Line, AnyByte
<1>d. \A s, t \in Seq(AnyByte) : s \o t \in Seq(AnyByte)
  OBVIOUS
<1>e. Remark \in Seq(AnyByte) /\ Line("header", HeaderLength) \in Seq(AnyByte) /\ <<>> \in Seq(AnyByte)
  BY <1>c, Caps DEF Remark
<1>1. CASE ReadWhole
  BY <1>a, <1>b, <1>1 DEF ReadWhole, Give, Typed
<1>2. CASE ReadPastEnd \/ Refuse \/ SearchEmpty
  BY <1>a, <1>e, <1>2 DEF ReadPastEnd, Refuse, SearchEmpty, Give, Typed
<1>3. CASE ReadSlice
  <2> DEFINE slice == Lines(text, First(call.offset), End(text, call.offset, call.limit))
  <2>1. output' = Line("header", HeaderLength) \o Truncate(slice) /\ text' = text
    BY <1>3 DEF ReadSlice, Give
  <2>2. slice \in Seq(Byte)
    BY <1>a, LinesAreText
  <2>3. slice \in Seq(AnyByte)
    BY <2>2 DEF AnyByte
  <2> HIDE DEF slice
  <2>4. Truncate(slice) \in Seq(AnyByte)
    BY <1>b, <2>3
  <2> QED
    BY <1>a, <1>d, <1>e, <2>1, <2>4 DEF Typed
<1>4. CASE ReadPanics
  BY <1>a, <1>4 DEF ReadPanics, Typed
<1>5. CASE BashEnds
  BY <1>a, <1>d, <1>e, <1>5 DEF BashEnds, Give, Typed
<1>6. CASE SearchLate
  BY <1>a, <1>d, <1>e, <1>6 DEF SearchLate, Give, Typed
<1>7. CASE SearchEnds
  <2>1. text' = text /\ (output' = Truncate(text) \/ output' = Truncate(text \o Remark))
    BY <1>7 DEF SearchEnds, Give
  <2> QED
    BY <1>a, <1>b, <1>d, <1>e, <2>1 DEF Typed
<1>11. CASE ViewNothing \/ (ViewImage /\ ~call.data.failed)
  <2>1. text' = text /\ (output' = Remark \/ output' = Remark \o <<>>)
    BY <1>11 DEF ViewNothing, ViewImage
  <2> QED
    BY <1>a, <1>d, <1>e, <2>1 DEF Typed
<1>8. CASE ViewImage /\ call.data.failed
  <2>1. output' = Remark \o FirstLine(Trimmed(text)) /\ text' = text
    BY <1>8 DEF ViewImage
  <2>2. Trimmed(text) \in Seq(AnyByte)
    BY <1>a, TrimmedIsText
  <2>3. FirstLine(Trimmed(text)) \in Seq(AnyByte)
    <3> DEFINE line == SubSeq(Trimmed(text), 1, LineEnd(Trimmed(text)))
               D == RuneBoundaryDown(line, LineCap - 3)
    <3>1. line \in Seq(AnyByte)
      BY <2>2, FirstLineCases
    <3>2. CASE FirstLine(Trimmed(text)) = line
      BY <3>1, <3>2
    <3>3. CASE /\ LineCap - 3 \in Nat /\ LineCap - 3 < Len(line)
               /\ FirstLine(Trimmed(text)) = SubSeq(line, 1, D) \o Line("remark", 3)
      <4>1. D \in 0..Len(line)
        <5> HIDE DEF line
        <5>1. D \in 0..(LineCap - 3)
          BY <3>1, <3>3, DownBounds
        <5> QED
          BY <3>1, <3>3, <5>1
      <4> HIDE DEF line, D
      <4>2. SubSeq(line, 1, D) \in Seq(AnyByte)
        BY <3>1, <4>1
      <4> QED
        BY <1>c, <1>d, <3>3, <4>2
    <3> QED
      BY <2>2, <3>2, <3>3, FirstLineCases
  <2> HIDE DEF Trimmed
  <2> QED
    BY <1>a, <1>d, <1>e, <2>1, <2>3 DEF Typed
<1>9. CASE Execute
  BY <1>a, <1>b, <1>9 DEF Execute, Typed
<1>10. CASE UNCHANGED vars
  BY <1>a, <1>10 DEF vars, Typed
<1> QED
  BY <1>1, <1>2, <1>3, <1>4, <1>5, <1>6, <1>7, <1>8, <1>9, <1>10, <1>11 DEF Next, Stopped

(* What is remarked on keeps its remark. *)
RemarkInv ==
  step \in {"raw", "done"} /\ call.tool \in {"bash", "search"} /\ call.ended # "well" =>
    EndsInRemark(output)

(* Whatever was put out, a failed command's result ends in the remark.     *)
THEOREM RemarkKept == Spec => []RemarkSurvives
<1>1. Init => Typed /\ RemarkInv
  BY ToolOutputAssumption DEF Init, Typed, RemarkInv, AnyByte, Byte
<1>2. Typed /\ RemarkInv /\ [Next]_vars => RemarkInv'
  <2> SUFFICES ASSUME Typed, RemarkInv, [Next]_vars PROVE RemarkInv'
    OBVIOUS
  <2>1. EndsInRemark(Remark) /\ \A s \in Seq(AnyByte) : EndsInRemark(s \o Remark)
    BY DEF EndsInRemark, Remark, Line
  <2>2. text \o Remark \in Seq(AnyByte)
    BY DEF Typed, Remark, Line, AnyByte
  <2>3. text \in Seq(AnyByte)
    BY DEF Typed, AnyByte
  <2>4. CASE BashEnds \/ SearchLate \/ SearchEmpty \/ SearchEnds
    <3>1. call' = call /\ step' = "raw"
      BY <2>4 DEF BashEnds, SearchLate, SearchEmpty, SearchEnds, Give
    <3>2. \/ call.ended = "well" \/ output' = text \o Remark \/ output' = Remark
          \/ output' = Truncate(text \o Remark)
      BY <2>4 DEF BashEnds, SearchLate, SearchEmpty, SearchEnds, Give
    <3> QED
      BY <2>1, <2>2, <2>3, <3>1, <3>2, TruncateKeepsEnd DEF RemarkInv
  <2>5. CASE ReadWhole \/ ReadPastEnd \/ ReadSlice \/ ReadPanics \/ Refuse \/ ViewNothing \/ ViewImage
    <3>1. call' = call /\ call.tool \notin {"bash", "search"}
      BY <2>5 DEF ReadWhole, ReadPastEnd, ReadSlice, ReadPanics, Refuse, ViewNothing, ViewImage, Sliced, Give
    <3> QED
      BY <3>1 DEF RemarkInv
  <2>6. CASE Execute
    <3>1. step = "raw" /\ call' = call /\ output' = Truncate(output) /\ output \in Seq(AnyByte)
      BY <2>6 DEF Execute, Typed
    <3> QED
      BY <3>1, TruncateKeepsEnd DEF RemarkInv
  <2>7. CASE UNCHANGED vars
    BY <2>7 DEF vars, RemarkInv
  <2> QED
    BY <2>4, <2>5, <2>6, <2>7 DEF Next, Stopped
<1>3. Typed /\ RemarkInv => RemarkSurvives
  BY DEF RemarkInv, RemarkSurvives, EndsInRemark
<1> QED
  BY <1>1, <1>2, <1>3, TypedStep, PTL DEF Spec

-----------------------------------------------------------------------------
(* No rune is cut *)

Inner == {"cont", "last"}
Open == {"lead", "cont"}

(* Two valid texts make a valid one. *)
LEMMA ValidConcat ==
  ASSUME NEW S, NEW s \in Seq(S), NEW t \in Seq(S), ValidText(s), ValidText(t)
  PROVE  ValidText(s \o t)
<1> DEFINE st == s \o t
<1>1. /\ st \in Seq(S) /\ Len(st) = Len(s) + Len(t) /\ Len(s) \in Nat /\ Len(t) \in Nat
      /\ \A i \in 1..Len(s) : st[i] = s[i]
      /\ \A i \in 1..Len(t) : st[Len(s) + i] = t[i]
      /\ DOMAIN st = 1..Len(st) /\ DOMAIN s = 1..Len(s) /\ DOMAIN t = 1..Len(t)
  OBVIOUS
<1> HIDE DEF st
<1>2. ASSUME NEW i \in DOMAIN st
      PROVE  /\ st[i] \in Inner => i > 1 /\ st[i - 1] \in Open
             /\ st[i] \in Open => i < Len(st) /\ st[i + 1] \in Inner
  <2>1. CASE i <= Len(s)
    <3>1. /\ i \in 1..Len(s) /\ st[i] = s[i]
          /\ i > 1 => st[i - 1] = s[i - 1]
          /\ i < Len(s) => st[i + 1] = s[i + 1]
      BY <1>1, <1>2, <2>1
    <3> QED
      BY <1>1, <3>1 DEF ValidText, Inner, Open
  <2>2. CASE i > Len(s)
    <3> DEFINE j == i - Len(s)
    <3>1. j \in 1..Len(t) /\ st[i] = t[j]
      BY <1>1, <1>2, <2>2
    <3>2. j > 1 => st[i - 1] = t[j - 1]
      <4> SUFFICES ASSUME j > 1 PROVE st[i - 1] = t[j - 1]
        OBVIOUS
      <4>1. j - 1 \in 1..Len(t) /\ Len(s) + (j - 1) = i - 1
        BY <1>1, <1>2, <3>1
      <4> QED
        BY <1>1, <4>1
    <3>3. j < Len(t) => st[i + 1] = t[j + 1]
      <4> SUFFICES ASSUME j < Len(t) PROVE st[i + 1] = t[j + 1]
        OBVIOUS
      <4>1. j + 1 \in 1..Len(t) /\ Len(s) + (j + 1) = i + 1
        BY <1>1, <1>2, <3>1
      <4> QED
        BY <1>1, <4>1
    <3>4. (j > 1 => i > 1) /\ (j < Len(t) => i < Len(st))
      BY <1>1, <1>2
    <3> QED
      BY <1>1, <3>1, <3>2, <3>3, <3>4 DEF ValidText, Inner, Open
  <2> QED
    BY <1>1, <1>2, <2>1, <2>2
<1> QED
  BY <1>2 DEF ValidText, Inner, Open, st

(* The lines the tools add are valid. *)
LEMMA ValidLine ==
  ASSUME NEW k \in {"header", "remark", "marker"}, NEW n \in Nat
  PROVE  Line(k, n) \in Seq(AnyByte) /\ ValidText(Line(k, n))
BY DEF Line, ValidText, AnyByte

(* A part that begins and ends between runes is valid. *)
LEMMA ValidPart ==
  ASSUME NEW S, NEW s \in Seq(S), ValidText(s),
         NEW a \in 1..(Len(s) + 1), NEW b \in (a - 1)..Len(s),
         a <= b => s[a] \notin Inner, a <= b => s[b] \notin Open
  PROVE  ValidText(SubSeq(s, a, b))
<1> DEFINE p == SubSeq(s, a, b)
<1>1. /\ DOMAIN p = 1..Len(p) /\ Len(p) = b - a + 1 /\ DOMAIN s = 1..Len(s) /\ Len(s) \in Nat
      /\ \A i \in 1..Len(p) : p[i] = s[a + i - 1]
  BY PartBytes
<1> HIDE DEF p
<1>2. ASSUME NEW i \in DOMAIN p
      PROVE  /\ p[i] \in Inner => i > 1 /\ p[i - 1] \in Open
             /\ p[i] \in Open => i < Len(p) /\ p[i + 1] \in Inner
  <2>1. i \in 1..Len(p) /\ p[i] = s[a + i - 1] /\ a + i - 1 \in DOMAIN s /\ a <= b
    BY <1>1, <1>2
  <2>2. i = 1 => p[i] = s[a]
    BY <2>1
  <2>3. i = Len(p) => p[i] = s[b]
    <3>1. i = Len(p) => a + i - 1 = b
      BY <1>1, <2>1
    <3> QED
      BY <2>1, <3>1
  <2>4. i > 1 => p[i - 1] = s[(a + i - 1) - 1]
    <3> SUFFICES ASSUME i > 1 PROVE p[i - 1] = s[(a + i - 1) - 1]
      OBVIOUS
    <3>0. a \in Int /\ i \in Int /\ Len(p) \in Int
      BY <1>1, <2>1
    <3>1. i - 1 \in 1..Len(p)
      BY <2>1, <3>0
    <3>2. a + (i - 1) - 1 = (a + i - 1) - 1
      BY <3>0
    <3> QED
      BY <1>1, <3>1, <3>2
  <2>5. i < Len(p) => p[i + 1] = s[(a + i - 1) + 1]
    <3> SUFFICES ASSUME i < Len(p) PROVE p[i + 1] = s[(a + i - 1) + 1]
      OBVIOUS
    <3>0. a \in Int /\ i \in 1..Len(p) /\ Len(p) \in Int
      <4>1. Len(p) \in Int
        BY <1>1
      <4> QED
        BY <2>1, <4>1
    <3>1. i + 1 \in 1..Len(p)
      BY <3>0
    <3>2. a + (i + 1) - 1 = (a + i - 1) + 1
      BY <3>0
    <3>3. p[i + 1] = s[a + (i + 1) - 1]
      BY <1>1, <3>1
    <3> QED
      BY <3>2, <3>3
  <2>6. /\ s[a + i - 1] \in Inner => s[(a + i - 1) - 1] \in Open
        /\ s[a + i - 1] \in Open => s[(a + i - 1) + 1] \in Inner
    BY <2>1 DEF ValidText, Inner, Open
  <2>7. ASSUME p[i] \in Inner PROVE i > 1 /\ p[i - 1] \in Open
    <3>1. s[a + i - 1] \in Inner /\ i \in 1..Len(p)
      BY <2>1, <2>7
    <3>2. i # 1
      BY <2>1, <2>2, <2>7
    <3>3. i > 1
      BY <3>1, <3>2
    <3> QED
      BY <2>4, <2>6, <3>1, <3>3
  <2>8. ASSUME p[i] \in Open PROVE i < Len(p) /\ p[i + 1] \in Inner
    <3>1. s[a + i - 1] \in Open /\ i \in 1..Len(p) /\ Len(p) \in Int
      BY <1>1, <2>1, <2>8
    <3>2. i # Len(p)
      BY <2>1, <2>3, <2>8
    <3>3. i < Len(p)
      BY <3>1, <3>2
    <3> QED
      BY <2>5, <2>6, <3>1, <3>3
  <2> QED
    BY <2>7, <2>8
<1> QED
  BY <1>2 DEF ValidText, Inner, Open, p

(* A rune begins behind what is closed, and at the first byte.             *)
LEMMA RuneEdges ==
  ASSUME NEW S, NEW s \in Seq(S), ValidText(s), Len(s) > 0
  PROVE  /\ s[1] \notin Inner /\ s[Len(s)] \notin Open
         /\ \A i \in 1..(Len(s) - 1) : s[i + 1] \notin Inner <=> s[i] \notin Open
<1>1. Len(s) \in Nat /\ DOMAIN s = 1..Len(s)
  OBVIOUS
<1>2. 1 \in DOMAIN s /\ Len(s) \in DOMAIN s
  BY <1>1
<1>3. s[1] \notin Inner /\ s[Len(s)] \notin Open
  BY <1>1, <1>2 DEF ValidText, Inner, Open
<1>4. ASSUME NEW i \in 1..(Len(s) - 1)
      PROVE  s[i + 1] \notin Inner <=> s[i] \notin Open
  <2>1. i \in DOMAIN s /\ i + 1 \in DOMAIN s /\ (i + 1) - 1 = i
    BY <1>1
  <2>2. s[i] \in Open => s[i + 1] \in Inner
    BY <2>1 DEF ValidText, Inner, Open
  <2>3. s[i + 1] \in Inner => s[(i + 1) - 1] \in Open
    BY <2>1 DEF ValidText, Inner, Open
  <2> QED
    BY <2>1, <2>2, <2>3
<1> QED
  BY <1>3, <1>4

(* Cut before a rune, a text stays valid. *)
LEMMA ValidHead ==
  ASSUME NEW S, NEW s \in Seq(S), ValidText(s), NEW i \in Nat, i < Len(s)
  PROVE  /\ SubSeq(s, 1, RuneBoundaryDown(s, i)) \in Seq(S)
         /\ ValidText(SubSeq(s, 1, RuneBoundaryDown(s, i)))
<1> DEFINE D == RuneBoundaryDown(s, i)
<1>1. D \in 0..i /\ (D > 0 => RuneStart(s, D)) /\ Len(s) \in Nat /\ Len(s) > 0
  BY DownBounds
<1> HIDE DEF D
<1>2. s[1] \notin Inner
  BY <1>1, RuneEdges
<1>3. 1 <= D => s[D] \notin Open
  <2> SUFFICES ASSUME 1 <= D PROVE s[D] \notin Open
    OBVIOUS
  <2>1. D \in 1..(Len(s) - 1) /\ s[D + 1] \notin Inner
    BY <1>1 DEF RuneStart, Inner
  <2> QED
    BY <1>1, <2>1, RuneEdges
<1>4. 1 \in 1..(Len(s) + 1) /\ D \in (1 - 1)..Len(s)
  BY <1>1
<1>5. SubSeq(s, 1, D) \in Seq(S) /\ ValidText(SubSeq(s, 1, D))
  BY <1>2, <1>3, <1>4, ValidPart, PartBytes
<1> QED
  BY <1>5 DEF D

(* Begun at a rune, a text stays valid. *)
LEMMA ValidTail ==
  ASSUME NEW S, NEW s \in Seq(S), ValidText(s), NEW i \in Nat, 0 < i, i <= Len(s)
  PROVE  /\ SubSeq(s, RuneBoundaryUp(s, i) + 1, Len(s)) \in Seq(S)
         /\ ValidText(SubSeq(s, RuneBoundaryUp(s, i) + 1, Len(s)))
<1> DEFINE U == RuneBoundaryUp(s, i)
<1>1. /\ U \in i..Len(s) /\ (0 < U /\ U < Len(s) => RuneStart(s, U))
      /\ Len(s) \in Nat /\ Len(s) > 0
  BY UpBounds
<1> HIDE DEF U
<1>2. s[Len(s)] \notin Open
  BY <1>1, RuneEdges
<1>3. U + 1 <= Len(s) => s[U + 1] \notin Inner
  BY <1>1 DEF RuneStart, Inner
<1>4. U + 1 \in 1..(Len(s) + 1) /\ Len(s) \in ((U + 1) - 1)..Len(s)
  BY <1>1
<1>5. SubSeq(s, U + 1, Len(s)) \in Seq(S) /\ ValidText(SubSeq(s, U + 1, Len(s)))
  BY <1>2, <1>3, <1>4, ValidPart, PartBytes
<1> QED
  BY <1>5 DEF U

(* Truncate keeps a text valid. *)
LEMMA ValidTruncate ==
  ASSUME NEW s \in Seq(AnyByte), ValidText(s)
  PROVE  ValidText(Truncate(s))
<1>1. CASE Tokens(s) <= ToolOutputCap
  BY <1>1 DEF Truncate
<1>2. CASE ~(Tokens(s) <= ToolOutputCap)
  <2> DEFINE head == SubSeq(s, 1, RuneBoundaryDown(s, Limit))
             tail == SubSeq(s, RuneBoundaryUp(s, Len(s) - Limit) + 1, Len(s))
             marker == Line("marker", MarkerLength)
  <2>1. /\ Limit \in Nat /\ Limit < Len(s) /\ Len(s) - Limit \in Nat
        /\ 0 < Len(s) - Limit /\ Len(s) - Limit <= Len(s)
    BY <1>2, Caps DEF Tokens, Limit
  <2>2. head \in Seq(AnyByte) /\ ValidText(head)
    BY <2>1, ValidHead
  <2>3. tail \in Seq(AnyByte) /\ ValidText(tail)
    BY <2>1, ValidTail
  <2>4. marker \in Seq(AnyByte) /\ ValidText(marker)
    BY Caps, ValidLine
  <2>5. Truncate(s) = (head \o marker) \o tail
    BY <1>2 DEF Truncate
  <2> HIDE DEF head, tail, marker
  <2>6. head \o marker \in Seq(AnyByte) /\ ValidText(head \o marker)
    BY <2>2, <2>4, ValidConcat
  <2> QED
    BY <2>3, <2>5, <2>6, ValidConcat
<1> QED
  BY <1>1, <1>2

(* A line goes on up to its newline. *)
LEMMA SameLine ==
  ASSUME NEW S, NEW s \in Seq(S), NEW i \in 1..(Len(s) - 1), s[i] # "newline"
  PROVE  LineOf(s, i + 1) = LineOf(s, i)
<1>1. {j \in 1..((i + 1) - 1) : s[j] = "newline"} = {j \in 1..(i - 1) : s[j] = "newline"}
  OBVIOUS
<1> QED
  BY <1>1 DEF LineOf

(* Whole lines of a valid text are valid. *)
LEMMA ValidLines ==
  ASSUME NEW s \in Seq(Byte), ValidText(s), NEW a, NEW b
  PROVE  ValidText(Lines(s, a, b))
<1> DEFINE at == {i \in DOMAIN s : /\ LineOf(s, i) \in a..b
                                  /\ ~(s[i] = "newline" /\ LineOf(s, i) = b)}
<1>1. CASE at = {}
  BY <1>1 DEF Lines, ValidText
<1>2. CASE at # {}
  <2> DEFINE m == Min(at)  n == Max(at)
  <2>1. Len(s) \in Nat /\ at \subseteq 1..Len(s) /\ DOMAIN s = 1..Len(s)
    OBVIOUS
  <2>2. at \subseteq Nat /\ at \subseteq 0..Len(s)
    BY <2>1
  <2>3. m \in at /\ n \in at /\ \A i \in at : m <= i /\ i <= n
    <3> HIDE DEF at
    <3> QED
      BY <1>2, <2>1, <2>2, MinExists, MaxExists
  <2>4. Lines(s, a, b) = SubSeq(s, m, n)
    BY <1>2 DEF Lines
  <2>5. m \in 1..Len(s) /\ n \in 1..Len(s) /\ m <= n
    BY <2>1, <2>3
  <2> HIDE DEF m, n
  <2>6. s[m] \notin Inner
    <3>1. CASE m = 1
      BY <2>5, <3>1, RuneEdges
    <3>2. CASE m > 1
      <4>1. m - 1 \in 1..(Len(s) - 1) /\ m - 1 \notin at /\ (m - 1) + 1 = m
        BY <2>3, <2>5, <3>2
      <4>2. s[m - 1] # "newline" => LineOf(s, m - 1) = LineOf(s, m)
        BY <4>1, SameLine
      <4>3. s[m - 1] = "newline"
        BY <2>1, <2>3, <4>1, <4>2
      <4>4. s[m - 1] \notin Open
        BY <4>3 DEF Open
      <4> QED
        BY <2>5, <4>1, <4>4, RuneEdges
    <3> QED
      BY <2>5, <3>1, <3>2
  <2>7. s[n] \notin Open
    <3>1. CASE n = Len(s)
      BY <2>5, <3>1, RuneEdges
    <3>2. CASE n < Len(s) /\ s[n] # "newline"
      <4>1. n \in 1..(Len(s) - 1) /\ n + 1 \in DOMAIN s /\ n + 1 \notin at
        BY <2>1, <2>3, <2>5, <3>2
      <4>2. LineOf(s, n + 1) = LineOf(s, n)
        BY <3>2, <4>1, SameLine
      <4>3. s[n + 1] = "newline"
        BY <2>3, <4>1, <4>2
      <4>4. s[n + 1] \notin Inner
        BY <4>3 DEF Inner
      <4> QED
        BY <2>5, <4>1, <4>4, RuneEdges
    <3>3. CASE s[n] = "newline"
      BY <3>3 DEF Open
    <3> QED
      BY <2>5, <3>1, <3>2, <3>3
  <2>8. m \in 1..(Len(s) + 1) /\ n \in (m - 1)..Len(s)
    BY <2>1, <2>5
  <2> HIDE DEF at
  <2> QED
    BY <2>4, <2>6, <2>7, <2>8, ValidPart
<1> QED
  BY <1>1, <1>2

(* Trimming keeps a text valid: what it takes away ends in a newline.      *)
LEMMA ValidTrimmed ==
  ASSUME NEW s \in Seq(Byte), ValidText(s)
  PROVE  ValidText(Trimmed(s))
<1> DEFINE ink == {i \in DOMAIN s : s[i] # "newline"}
<1>1. CASE Blank(s)
  BY <1>1 DEF Trimmed, ValidText
<1>2. CASE ~Blank(s)
  <2> DEFINE m == Min(ink)  n == Max(ink)
  <2>1. Len(s) \in Nat /\ ink \subseteq 1..Len(s) /\ ink # {} /\ DOMAIN s = 1..Len(s)
    BY <1>2 DEF Blank
  <2>2. ink \subseteq Nat /\ ink \subseteq 0..Len(s)
    BY <2>1
  <2>3. m \in ink /\ n \in ink /\ \A i \in ink : m <= i /\ i <= n
    <3> HIDE DEF ink
    <3> QED
      BY <2>1, <2>2, MinExists, MaxExists
  <2>4. Trimmed(s) = SubSeq(s, m, n)
    BY <1>2 DEF Trimmed
  <2>5. m \in 1..Len(s) /\ n \in 1..Len(s) /\ m <= n
    BY <2>1, <2>3
  <2> HIDE DEF m, n
  <2>6. s[m] \notin Inner
    <3>1. CASE m = 1
      BY <2>5, <3>1, RuneEdges
    <3>2. CASE m > 1
      <4>1. m - 1 \in 1..(Len(s) - 1) /\ m - 1 \notin ink /\ (m - 1) + 1 = m
        BY <2>3, <2>5, <3>2
      <4>2. s[m - 1] \notin Open
        BY <2>1, <4>1 DEF Open
      <4> QED
        BY <2>5, <4>1, <4>2, RuneEdges
    <3> QED
      BY <2>5, <3>1, <3>2
  <2>7. s[n] \notin Open
    <3>1. CASE n = Len(s)
      BY <2>5, <3>1, RuneEdges
    <3>2. CASE n < Len(s)
      <4>1. n \in 1..(Len(s) - 1) /\ n + 1 \in DOMAIN s /\ n + 1 \notin ink
        BY <2>1, <2>3, <2>5, <3>2
      <4>2. s[n + 1] \notin Inner
        BY <4>1 DEF Inner
      <4> QED
        BY <2>5, <4>1, <4>2, RuneEdges
    <3> QED
      BY <2>5, <3>1, <3>2
  <2>8. m \in 1..(Len(s) + 1) /\ n \in (m - 1)..Len(s)
    BY <2>1, <2>5
  <2> HIDE DEF ink
  <2> QED
    BY <2>4, <2>6, <2>7, <2>8, ValidPart
<1> QED
  BY <1>1, <1>2

(* The first line of a valid text is valid, cut or not. *)
LEMMA ValidFirstLine ==
  ASSUME NEW s \in Seq(AnyByte), ValidText(s)
  PROVE  FirstLine(s) \in Seq(AnyByte) /\ ValidText(FirstLine(s))
<1> DEFINE n == LineEnd(s)
           line == SubSeq(s, 1, n)
           D == RuneBoundaryDown(line, LineCap - 3)
<1>1. n \in 0..Len(s) /\ (n < Len(s) => s[n + 1] = "newline") /\ Len(s) \in Nat
  BY LineEndBounds
<1>2. \/ FirstLine(s) = line
      \/ /\ LineCap - 3 \in Nat /\ LineCap - 3 < Len(line)
         /\ FirstLine(s) = SubSeq(line, 1, D) \o Line("remark", 3)
  BY FirstLineCases
<1> HIDE DEF n
<1>3. 1 <= n => s[1] \notin Inner /\ s[n] \notin Open
  <2> SUFFICES ASSUME 1 <= n PROVE s[1] \notin Inner /\ s[n] \notin Open
    OBVIOUS
  <2>1. CASE n = Len(s)
    BY <1>1, <2>1, RuneEdges
  <2>2. CASE n < Len(s)
    <3>1. n \in 1..(Len(s) - 1) /\ s[n + 1] \notin Inner
      BY <1>1, <2>2 DEF Inner
    <3> QED
      BY <1>1, <3>1, RuneEdges
  <2> QED
    BY <1>1, <2>1, <2>2
<1>4. 1 \in 1..(Len(s) + 1) /\ n \in (1 - 1)..Len(s)
  BY <1>1
<1>5. line \in Seq(AnyByte) /\ ValidText(line)
  BY <1>3, <1>4, ValidPart, PartBytes
<1>6. CASE FirstLine(s) = line
  BY <1>5, <1>6
<1>7. CASE /\ LineCap - 3 \in Nat /\ LineCap - 3 < Len(line)
           /\ FirstLine(s) = SubSeq(line, 1, D) \o Line("remark", 3)
  <2> HIDE DEF line
  <2>1. SubSeq(line, 1, D) \in Seq(AnyByte) /\ ValidText(SubSeq(line, 1, D))
    BY <1>5, <1>7, ValidHead
  <2>2. Line("remark", 3) \in Seq(AnyByte) /\ ValidText(Line("remark", 3))
    BY ValidLine
  <2> DEFINE head == SubSeq(line, 1, D)  dots == Line("remark", 3)
  <2>3. head \in Seq(AnyByte) /\ dots \in Seq(AnyByte) /\ ValidText(head) /\ ValidText(dots)
    BY <2>1, <2>2
  <2>4. FirstLine(s) = head \o dots
    BY <1>7
  <2> HIDE DEF head, dots
  <2> QED
    BY <2>3, <2>4, ValidConcat
<1> QED
  BY <1>2, <1>6, <1>7

(* Whatever is read, printed or complained of, and however often and where *)
(* it is cut, a valid text reaches the model as a valid text.              *)
THEOREM OutputIsValid == Spec => []OutputValid
<1>1. Init => Typed /\ OutputValid
  BY ToolOutputAssumption DEF Init, Typed, OutputValid, ValidText, AnyByte, Byte
<1>2. Typed /\ OutputValid /\ [Next]_vars => OutputValid'
  <2> SUFFICES ASSUME Typed, OutputValid, [Next]_vars, ValidText(text')
               PROVE  ValidText(output')
    BY DEF OutputValid
  <2>1. text' = text
    BY DEF Next, vars, ReadWhole, ReadPastEnd, ReadSlice, ReadPanics, Refuse, BashEnds, SearchLate,
           SearchEmpty, SearchEnds, ViewNothing, ViewImage, Execute, Stopped, Give
  <2>2. ValidText(text) /\ ValidText(output)
    BY <2>1 DEF OutputValid
  <2>3. /\ text \in Seq(Byte) /\ text \in Seq(AnyByte) /\ output \in Seq(AnyByte)
    BY DEF Typed, AnyByte
  <2>4. Remark \in Seq(AnyByte) /\ ValidText(Remark)
    BY ValidLine DEF Remark
  <2>5. text \o Remark \in Seq(AnyByte) /\ ValidText(text \o Remark)
    BY <2>2, <2>3, <2>4, ValidConcat
  <2>6. CASE ReadWhole
    BY <2>2, <2>3, <2>6, ValidTruncate DEF ReadWhole, Give
  <2>7. CASE ReadPastEnd \/ Refuse \/ SearchEmpty
    BY <2>4, <2>7 DEF ReadPastEnd, Refuse, SearchEmpty, Give
  <2>8. CASE ReadSlice
    <3> DEFINE slice == Lines(text, First(call.offset), End(text, call.offset, call.limit))
               header == Line("header", HeaderLength)
               cut == Truncate(slice)
    <3>1. output' = header \o cut
      BY <2>8 DEF ReadSlice, Give
    <3>2. slice \in Seq(Byte) /\ ValidText(slice)
      BY <2>2, <2>3, LinesAreText, ValidLines
    <3>3. slice \in Seq(AnyByte)
      BY <3>2 DEF AnyByte
    <3> HIDE DEF slice
    <3>4. cut \in Seq(AnyByte \cup {"marker"}) /\ ValidText(cut)
      BY <3>2, <3>3, TruncateIsSeq, ValidTruncate
    <3>5. cut \in Seq(AnyByte)
      BY <3>4, AnyByte \cup {"marker"} = AnyByte DEF AnyByte
    <3>6. header \in Seq(AnyByte) /\ ValidText(header)
      BY Caps, ValidLine
    <3> HIDE DEF header, cut
    <3> QED
      BY <3>1, <3>4, <3>5, <3>6, ValidConcat
  <2>9. CASE BashEnds
    <3>1. output' = text \o <<>> \/ output' = text \o Remark
      BY <2>9 DEF BashEnds, Give
    <3>2. text \o <<>> = text
      BY <2>3
    <3> QED
      BY <2>2, <2>5, <3>1, <3>2
  <2>10. CASE SearchLate
    BY <2>5, <2>10 DEF SearchLate, Give
  <2>11. CASE SearchEnds
    <3>1. output' = Truncate(text) \/ output' = Truncate(text \o Remark)
      BY <2>11 DEF SearchEnds, Give
    <3> QED
      BY <2>2, <2>3, <2>5, <3>1, ValidTruncate
  <2>15. CASE ViewNothing \/ (ViewImage /\ ~call.data.failed)
    <3>1. output' = Remark \/ output' = Remark \o <<>>
      BY <2>15 DEF ViewNothing, ViewImage
    <3>2. Remark \o <<>> = Remark
      BY <2>4
    <3> QED
      BY <2>4, <3>1, <3>2
  <2>12. CASE ViewImage /\ call.data.failed
    <3> DEFINE trimmed == Trimmed(text)  line == FirstLine(trimmed)
    <3>1. output' = Remark \o line
      BY <2>12 DEF ViewImage
    <3>2. trimmed \in Seq(AnyByte) /\ ValidText(trimmed)
      BY <2>2, <2>3, TrimmedIsText, ValidTrimmed
    <3> HIDE DEF trimmed
    <3>3. line \in Seq(AnyByte) /\ ValidText(line)
      BY <3>2, ValidFirstLine
    <3> HIDE DEF line
    <3> QED
      BY <2>4, <3>1, <3>3, ValidConcat
  <2>13. CASE Execute
    BY <2>2, <2>3, <2>13, ValidTruncate DEF Execute
  <2>14. CASE ReadPanics \/ UNCHANGED vars
    BY <2>2, <2>14 DEF ReadPanics, vars
  <2> QED
    BY <2>6, <2>7, <2>8, <2>9, <2>10, <2>11, <2>12, <2>13, <2>14, <2>15
    DEF Next, Stopped
<1> QED
  BY <1>1, <1>2, TypedStep, PTL DEF Spec

-----------------------------------------------------------------------------
(* The attachment asked for *)

(* A float becomes an int, and one that is no more than int holds becomes  *)
(* itself if it has no fraction.                                           *)
LEMMA IntOfType ==
  ASSUME NEW half \in Int, NEW n \in IntOf(half)
  PROVE  /\ n \in (-IntMax - 1)..IntMax
         /\ half > 0 /\ half <= 2 * IntMax /\ half % 2 = 0 => 2 * n = half
         /\ half > 2 * IntMax + 1 => n \in {IntMax, -IntMax - 1}
<1>1. IntMax \in Nat
  BY AttachmentAssumption
<1>2. CASE half < 0
  BY <1>1, <1>2 DEF IntOf
<1>3. CASE half >= 0
  BY <1>1, <1>3 DEF IntOf
<1> QED
  BY <1>2, <1>3

(* Any id that parseAttachmentID finds is n if the argument names          *)
(* attachment n, and named by it otherwise unless it is no id or the       *)
(* argument a number beyond int.                                           *)
LEMMA ParseIsExact ==
  ASSUME NEW ref \in Refs, NEW id \in ParseAttachmentID(ref)
  PROVE  /\ \A n \in 1..IntMax : Names(ref, n) => id = n
         /\ id # Refused =>
              Names(ref, id) \/ (BeyondInt(ref) /\ id \in {IntMax, -IntMax - 1})
<1>0. IntMax \in Nat \ {0} /\ HalfNumbers \subseteq Int /\ Written \subseteq Int
  BY AttachmentAssumption
<1>1. CASE ref \in [kind : {"number"}, half : HalfNumbers]
  <2>1. ref.kind = "number" /\ ref.half \in Int /\ id \in IdsOfNumber(ref.half)
    BY <1>0, <1>1 DEF ParseAttachmentID
  <2>2. CASE ref.half <= 0 \/ ref.half % 2 = 1
    <3>1. id = 0
      BY <2>1, <2>2 DEF IdsOfNumber, Refused
    <3>2. \A n \in 1..IntMax : ref.half # 2 * n
      BY <1>0, <2>1, <2>2
    <3> QED
      BY <2>1, <3>1, <3>2 DEF Names, Refused
  <2>3. CASE ref.half > 0 /\ ref.half % 2 # 1
    <3>1. id \in IntOf(ref.half) /\ ref.half % 2 = 0 /\ ref.half # 2 * IntMax + 1
      BY <1>0, <2>1, <2>3 DEF IdsOfNumber
    <3>2. /\ id \in Int
          /\ ref.half <= 2 * IntMax => ref.half = 2 * id
          /\ ref.half > 2 * IntMax => id \in {IntMax, -IntMax - 1}
      BY <1>0, <2>1, <2>3, <3>1, IntOfType
    <3>3. \A n \in 1..IntMax : ref.half = 2 * n => id = n
      BY <1>0, <2>1, <3>2
    <3> QED
      BY <1>0, <2>1, <3>2, <3>3 DEF Names, BeyondInt
  <2> QED
    BY <2>1, <2>2, <2>3
<1>2. CASE ref \in [kind : {"digits"}, id : Written]
  <2>1. ref.kind = "digits" /\ ref.id \in Int
    BY <1>0, <1>2
  <2>2. id = IdOfDigits(ref.id)
    BY <2>1 DEF ParseAttachmentID
  <2> QED
    BY <1>0, <2>1, <2>2 DEF IdOfDigits, Refused, Names
<1>3. CASE ref \in [kind : {"url"}, host : {"none", "ours", "foreign"}, download : BOOLEAN, id : Written]
  <2>1. ref.kind = "url" /\ ref.id \in Int /\ ref.download \in BOOLEAN
    BY <1>0, <1>3
  <2>2. id = IdFromAttachmentURL(ref)
    BY <2>1 DEF ParseAttachmentID
  <2> QED
    BY <1>0, <2>1, <2>2 DEF IdFromAttachmentURL, IdOfDigits, Refused, Names
<1>4. CASE ref \in [kind : {"blank", "opaque", "missing"}]
  BY <1>0, <1>4 DEF ParseAttachmentID, Refused, Names
<1> QED
  BY <1>1, <1>2, <1>3, <1>4 DEF Refs

(* Whatever the model writes for an id, ws is asked for what it names.     *)
THEOREM FetchedIsNamed == Spec => []FetchedAsNamed
<1> DEFINE Asked == /\ call \in Calls
                    /\ step = "asked" => fetched = Refused /\ loaded = FALSE
                    /\ step = "raw" => call.tool # "view_image"
<1>1. Init => Asked /\ FetchedAsNamed
  BY DEF Init, FetchedAsNamed
<1>2. Asked /\ FetchedAsNamed /\ [Next]_vars => Asked' /\ FetchedAsNamed'
  <2> SUFFICES ASSUME Asked, FetchedAsNamed, [Next]_vars PROVE Asked' /\ FetchedAsNamed'
    OBVIOUS
  <2>1. CASE ViewNothing \/ ViewImage
    <3>1. call.tool = "view_image" /\ call.ref \in Refs /\ call' = call /\ step = "asked" /\ step' = "done"
      BY <2>1 DEF ViewNothing, ViewImage, Calls
    <3>2. fetched' \in ParseAttachmentID(call.ref)
      BY <2>1, <3>1 DEF ViewNothing, ViewImage, view
    <3>3. loaded' <=> fetched' # Refused /\ Loadable(call.data)
      BY <2>1, <3>1 DEF ViewNothing, ViewImage, view
    <3> QED
      BY <3>1, <3>2, <3>3, ParseIsExact DEF FetchedAsNamed
  <2>2. CASE ReadWhole \/ ReadPastEnd \/ ReadSlice \/ ReadPanics \/ Refuse
               \/ BashEnds \/ SearchLate \/ SearchEmpty \/ SearchEnds
    <3>1. /\ call' = call /\ call.tool # "view_image" /\ step' \in {"raw", "panicked"}
      BY <2>2 DEF ReadWhole, ReadPastEnd, ReadSlice, ReadPanics, Refuse, BashEnds, SearchLate,
                  SearchEmpty, SearchEnds, Sliced, Give
    <3> QED
      BY <3>1 DEF FetchedAsNamed
  <2>3. CASE Execute
    BY <2>3 DEF Execute, FetchedAsNamed
  <2>4. CASE UNCHANGED vars
    BY <2>4 DEF vars, view, FetchedAsNamed
  <2> QED
    BY <2>1, <2>2, <2>3, <2>4 DEF Next, Stopped
<1> QED
  BY <1>1, <1>2, PTL DEF Spec

-----------------------------------------------------------------------------
(* The lines a slice holds *)

(* A number that an int holds stays what it is, and one a little above     *)
(* comes back negative.                                                    *)
LEMMA WrapType ==
  ASSUME NEW n \in 0..(2 * IntMax)
  PROVE  /\ n <= IntMax => Wrap(n) = n
         /\ n > IntMax => Wrap(n) < 0
<1>1. ASSUME NEW d \in Nat \ {0}, NEW m \in 0..(d - 1) PROVE m % d = m
  BY <1>1
<1>2. ASSUME NEW d \in Nat \ {0}, NEW m \in d..(2 * d - 1) PROVE m % d = m - d
  BY <1>2
<1>3. IntMax \in Nat /\ n \in Nat
  BY AttachmentAssumption
<1> DEFINE d == 2 * IntMax + 2
           m == n + IntMax + 1
<1>4. d \in Nat \ {0} /\ Wrap(n) = (m % d) - IntMax - 1
  BY <1>3 DEF Wrap
<1>5. CASE n <= IntMax
  <2>1. m \in 0..(d - 1)
    BY <1>3, <1>5
  <2>2. m % d = m
    <3> HIDE DEF m, d
    <3> QED
      BY <1>1, <1>4, <2>1
  <2> QED
    BY <1>3, <1>4, <1>5, <2>2
<1>6. CASE n > IntMax
  <2>1. m \in d..(2 * d - 1)
    BY <1>3, <1>6
  <2>2. m % d = m - d
    <3> HIDE DEF m, d
    <3> QED
      BY <1>2, <1>4, <2>1
  <2> QED
    BY <1>3, <1>4, <1>6, <2>2
<1> QED
  BY <1>3, <1>5, <1>6

(* Where a slice ends: the bounds are right unless the sum of the          *)
(* arguments leaves the range of int, and within them nothing wrapped.     *)
LEMMA EndOfSlice ==
  ASSUME NEW offset \in (-IntMax - 1)..IntMax, NEW limit \in (-IntMax - 1)..IntMax,
         offset > 0 \/ limit > 0, NEW total \in Nat, NEW end,
         end = (IF limit > 0 /\ Wrap(First(offset) - 1 + limit) < total
                THEN Wrap(First(offset) - 1 + limit) ELSE total),
         First(offset) <= total
  PROVE  LET inBounds == First(offset) - 1 <= end /\ end <= total
             wanted == {l \in 1..total : /\ offset > 0 => l >= offset
                                         /\ limit > 0 => l - First(offset) < limit}
         IN  /\ ~inBounds => offset + limit > IntMax
             /\ inBounds => wanted = First(offset)..end /\ First(offset) <= end
<1> DEFINE f == First(offset)
           sum == f - 1 + limit
<1>1. /\ IntMax \in Nat /\ offset \in Int /\ limit \in Int /\ f \in Nat /\ f >= 1
      /\ f <= IntMax \/ f = 1
      /\ offset > 0 => f = offset
      /\ offset <= 0 => f = 1
      /\ -IntMax - 1 <= limit /\ limit <= IntMax
  BY AttachmentAssumption DEF First
<1>2. \A l \in 1..total : (offset > 0 => l >= offset) <=> l >= f
  BY <1>1
<1> HIDE DEF f
<1>3. CASE limit <= 0
  <2>1. end = total
    BY <1>1, <1>3
  <2> QED
    BY <1>1, <1>2, <1>3, <2>1 DEF f
<1>4. CASE limit > 0 /\ sum <= IntMax
  <2>1. sum \in 0..(2 * IntMax) /\ f <= sum
    BY <1>1, <1>4
  <2>2. Wrap(sum) = sum
    BY <1>4, <2>1, WrapType
  <2>3. end = IF sum < total THEN sum ELSE total
    BY <1>4, <2>2 DEF f
  <2>4. f <= end /\ end <= total /\ end \in Nat /\ f <= total
    BY <1>1, <2>1, <2>3 DEF f
  <2>5. \A l \in 1..total : (limit > 0 => l - f < limit) <=> l <= end
    BY <1>1, <1>4, <2>3
  <2>6. {l \in 1..total : /\ offset > 0 => l >= offset
                          /\ limit > 0 => l - f < limit} = f..end
    BY <1>1, <1>2, <2>4, <2>5
  <2> QED
    BY <1>1, <2>4, <2>6 DEF f
<1>5. CASE limit > 0 /\ sum > IntMax
  <2>1. sum \in 0..(2 * IntMax) /\ offset + limit > IntMax
    BY <1>1, <1>5
  <2>2. Wrap(sum) < 0
    BY <1>5, <2>1, WrapType
  <2>3. Wrap(sum) \in Int
    BY <1>1, <2>1 DEF Wrap
  <2>4. end = Wrap(sum)
    BY <1>5, <2>2, <2>3 DEF f
  <2>5. ~ (f - 1 <= end)
    BY <1>1, <2>2, <2>3, <2>4
  <2> QED
    BY <2>1, <2>5 DEF f
<1> QED
  BY <1>1, <1>3, <1>4, <1>5

(* The lines of a text are counted.                                        *)
LEMMA TotalType ==
  ASSUME NEW S, NEW s \in Seq(S)
  PROVE  Total(s) \in Nat \ {0}
<1>1. DOMAIN s = 1..Len(s) /\ Len(s) \in Nat
  OBVIOUS
<1>2. IsFiniteSet(DOMAIN s)
  BY <1>1, FS_Interval
<1>3. Cardinality({j \in DOMAIN s : s[j] = "newline"}) \in Nat
  BY <1>2, FS_Subset, FS_CardinalityType
<1> QED
  BY <1>3 DEF Total

(* The ends of an interval are its least and its greatest number.          *)
LEMMA EndsOfInterval ==
  ASSUME NEW a \in Nat, NEW b \in Int, a <= b
  PROVE  Min(a..b) = a /\ Max(a..b) = b
<1>1. b \in Nat /\ a..b \subseteq Nat /\ a..b \subseteq 0..b /\ a..b # {} /\ {a, b} \subseteq a..b
  OBVIOUS
<1>2. Min(a..b) \in a..b /\ Min(a..b) <= a
  BY <1>1, MinExists
<1>3. Max(a..b) \in a..b /\ Max(a..b) >= b
  BY <1>1, MaxExists
<1> QED
  BY <1>2, <1>3

(* A text that shows no marker was not truncated.                          *)
LEMMA UnmarkedWhole ==
  ASSUME NEW S, NEW s \in Seq(S), ~Marked(Truncate(s))
  PROVE  Truncate(s) = s
<1>1. CASE Tokens(s) <= ToolOutputCap
  BY <1>1 DEF Truncate
<1>2. CASE ~(Tokens(s) <= ToolOutputCap)
  <2> DEFINE head == SubSeq(s, 1, RuneBoundaryDown(s, Limit))
             tail == SubSeq(s, RuneBoundaryUp(s, Len(s) - Limit) + 1, Len(s))
             marker == Line("marker", MarkerLength)
             B == S \cup {"marker"}
  <2>1. /\ RuneBoundaryDown(s, Limit) \in 0..Limit
        /\ RuneBoundaryUp(s, Len(s) - Limit) \in (Len(s) - Limit)..Len(s)
        /\ Limit \in Nat /\ Limit < Len(s) - Limit /\ Len(s) \in Nat
    BY <1>2, HeadBeforeTail, Caps DEF Tokens, Limit
  <2>2. head \in Seq(B) /\ tail \in Seq(B)
    BY <2>1
  <2>3. marker \in Seq(B) /\ Len(marker) > 0 /\ marker[1] = "marker"
    BY Caps DEF Line
  <2>4. Truncate(s) = (head \o marker) \o tail
    BY <1>2 DEF Truncate
  <2> HIDE DEF head, tail, marker
  <2>5. /\ head \o marker \in Seq(B) /\ Len(head) + 1 \in DOMAIN (head \o marker)
        /\ (head \o marker)[Len(head) + 1] = "marker"
    BY <2>2, <2>3
  <2>6. \E i \in DOMAIN ((head \o marker) \o tail) : ((head \o marker) \o tail)[i] = "marker"
    BY <2>2, <2>5
  <2> QED
    BY <2>4, <2>6 DEF Marked
<1> QED
  BY <1>1, <1>2

(* What stands behind a header is unmarked if the whole is.                *)
LEMMA UnmarkedBehind ==
  ASSUME NEW S, NEW a \in Seq(S), NEW b \in Seq(S), ~Marked(a \o b)
  PROVE  ~Marked(b)
<1> SUFFICES ASSUME NEW i \in DOMAIN b, b[i] = "marker" PROVE Marked(a \o b)
  BY DEF Marked
<1>1. Len(a) + i \in DOMAIN (a \o b) /\ (a \o b)[Len(a) + i] = b[i]
  OBVIOUS
<1> QED
  BY <1>1 DEF Marked

(* What was sliced was within bounds, and what shows no marker is the      *)
(* slice; what panicked was not within them.                               *)
Whole ==
  Line("header", HeaderLength) \o Lines(text, First(call.offset), End(text, call.offset, call.limit))

SliceInv ==
  /\ call \in Calls
  /\ step = "panicked" => Sliced /\ First(call.offset) <= Total(text) /\ ~InBounds
  /\ step \in {"raw", "done"} /\ Sliced /\ First(call.offset) <= Total(text) =>
       InBounds /\ (~Marked(output) => output = Whole)

(* What Sliced, InBounds and Whole say is about text and call alone.       *)
LEMMA SameCall ==
  ASSUME UNCHANGED <<text, call>>
  PROVE  /\ (InBounds' <=> InBounds) /\ (Sliced' <=> Sliced) /\ Whole' = Whole
         /\ First(call.offset)' = First(call.offset) /\ Total(text)' = Total(text)
BY DEF InBounds, Sliced, Whole

(* The arguments of read_file are numbers that an int holds.               *)
LEMMA ArgsType ==
  ASSUME call \in Calls, call.tool = "read_file"
  PROVE  /\ call.offset \in (-IntMax - 1)..IntMax /\ call.limit \in (-IntMax - 1)..IntMax
         /\ IntMax \in Nat /\ First(call.offset) \in Nat
<1>1. call \in [tool : {"read_file"}, offset : Args, limit : Args]
  BY DEF Calls
<1>2. call.offset \in (-IntMax - 1)..IntMax /\ call.limit \in (-IntMax - 1)..IntMax
  BY <1>1, IntOfType, AttachmentAssumption DEF Args
<1> QED
  BY <1>2, AttachmentAssumption DEF First

LEMMA SliceStep ==
  ASSUME Typed, SliceInv, [Next]_vars
  PROVE  SliceInv'
<1>t. text \in Seq(Byte) /\ output \in Seq(AnyByte)
  BY DEF Typed
<1>1. CASE ReadSlice
  <2> DEFINE slice == Lines(text, First(call.offset), End(text, call.offset, call.limit))
             header == Line("header", HeaderLength)
             cut == Truncate(slice)
  <2>1. /\ step' = "raw" /\ UNCHANGED <<text, call>> /\ InBounds /\ output' = header \o cut
    BY <1>1 DEF ReadSlice, Give
  <2>2. slice \in Seq(Byte)
    BY <1>t, LinesAreText
  <2>3. cut \in Seq(Byte \cup {"marker"})
    <3> HIDE DEF slice
    <3> QED
      BY <2>2, TruncateIsSeq
  <2>4. header \in Seq({"header"})
    BY Caps DEF Line
  <2>5. ASSUME ~Marked(output') PROVE output' = header \o slice
    <3> HIDE DEF header, slice, cut
    <3>1. cut \in Seq(AnyByte) /\ header \in Seq(AnyByte)
      BY <2>3, <2>4 DEF AnyByte
    <3>2. ~Marked(cut)
      BY <2>1, <2>5, <3>1, UnmarkedBehind
    <3>3. cut = slice
      BY <2>2, <3>2, UnmarkedWhole DEF cut
    <3> QED
      BY <2>1, <3>3
  <2>6. Whole = header \o slice
    BY DEF Whole
  <2> HIDE DEF header, slice, cut
  <2> QED
    BY <2>1, <2>5, <2>6, SameCall DEF SliceInv
<1>2. CASE ReadPanics
  BY <1>2, SameCall DEF ReadPanics, SliceInv
<1>3. CASE ReadWhole \/ ReadPastEnd \/ Refuse \/ BashEnds \/ SearchLate \/ SearchEmpty \/ SearchEnds
           \/ ViewNothing \/ ViewImage
  <2>1. step' \in {"raw", "done"} /\ UNCHANGED <<text, call>>
    BY <1>3 DEF ReadWhole, ReadPastEnd, Refuse, BashEnds, SearchLate, SearchEmpty, SearchEnds,
                ViewNothing, ViewImage, Give
  <2>2. ~Sliced \/ ~(First(call.offset) <= Total(text))
    <3>1. CASE ReadWhole
      <4>1. call.offset <= 0 /\ call.limit <= 0 /\ call.tool = "read_file"
        BY <3>1 DEF ReadWhole
      <4>2. call.offset \in Int /\ call.limit \in Int
        BY <4>1, ArgsType DEF SliceInv
      <4> QED
        BY <4>1, <4>2 DEF Sliced
    <3>2. CASE ReadPastEnd
      <4>1. First(call.offset) > Total(text) /\ call.tool = "read_file"
        BY <3>2 DEF ReadPastEnd, Sliced
      <4>2. First(call.offset) \in Nat /\ Total(text) \in Nat
        BY <1>t, <4>1, ArgsType, TotalType DEF SliceInv
      <4> QED
        BY <4>1, <4>2
    <3>3. CASE Refuse \/ BashEnds \/ SearchLate \/ SearchEmpty \/ SearchEnds \/ ViewNothing \/ ViewImage
      BY <3>3 DEF Refuse, BashEnds, SearchLate, SearchEmpty, SearchEnds, ViewNothing, ViewImage,
                  Sliced
    <3> QED
      BY <1>3, <3>1, <3>2, <3>3
  <2> QED
    BY <2>1, <2>2, SameCall DEF SliceInv
<1>4. CASE Execute
  <2>1. step = "raw" /\ step' = "done" /\ UNCHANGED <<text, call>> /\ output' = Truncate(output)
    BY <1>4 DEF Execute
  <2>2. ~Marked(output') => output' = output
    BY <1>t, <2>1, UnmarkedWhole
  <2> QED
    BY <2>1, <2>2, SameCall DEF SliceInv
<1>5. CASE UNCHANGED vars
  <2>1. UNCHANGED <<step, text, call, output>>
    BY <1>5 DEF vars
  <2> QED
    BY <2>1, SameCall DEF SliceInv
<1> QED
  BY <1>1, <1>2, <1>3, <1>4, <1>5 DEF Next, Stopped

(* Whatever file is read and whatever offset and limit are, a slice that   *)
(* was not cut is exactly the lines asked for, and only a sum that leaves  *)
(* the range of int makes the tool panic.                                  *)
THEOREM SliceIsRight == Spec => []SliceRight
<1>1. Init => Typed /\ SliceInv
  BY ToolOutputAssumption DEF Init, Typed, AnyByte, Byte, SliceInv
<1>2. Typed /\ SliceInv => SliceRight
  <2> SUFFICES ASSUME Typed, SliceInv PROVE SliceRight
    OBVIOUS
  <2> DEFINE f == First(call.offset)
             end == End(text, call.offset, call.limit)
  <2>1. Total(text) \in Nat
    BY TotalType DEF Typed
  <2>2. ASSUME Sliced
        PROVE  /\ call.offset \in (-IntMax - 1)..IntMax /\ call.limit \in (-IntMax - 1)..IntMax
               /\ IntMax \in Nat /\ f \in Nat /\ f >= 1 /\ end \in Int
    <3>1. /\ call.offset \in (-IntMax - 1)..IntMax /\ call.limit \in (-IntMax - 1)..IntMax
          /\ IntMax \in Nat /\ f \in Nat
      BY <2>2, ArgsType DEF SliceInv, Sliced
    <3>2. Wrap(f - 1 + call.limit) \in Int /\ f >= 1
      BY <3>1 DEF Wrap, First
    <3> QED
      BY <2>1, <3>1, <3>2 DEF End
  <2>3. ASSUME Sliced, f <= Total(text)
        PROVE  /\ ~InBounds => call.offset + call.limit > IntMax
               /\ InBounds => Wanted = f..end /\ f <= end
    <3>1. call.offset > 0 \/ call.limit > 0
      BY <2>3 DEF Sliced
    <3> DEFINE inBounds == f - 1 <= end /\ end <= Total(text)
               wanted == {l \in 1..Total(text) : /\ call.offset > 0 => l >= call.offset
                                                 /\ call.limit > 0 => l - f < call.limit}
    <3>2. /\ ~inBounds => call.offset + call.limit > IntMax
          /\ inBounds => wanted = f..end /\ f <= end
      BY <2>1, <2>2, <2>3, <3>1, EndOfSlice DEF End
    <3>3. InBounds <=> inBounds
      BY <2>2, <2>3 DEF InBounds
    <3>4. Wanted = wanted
      BY DEF Wanted
    <3> QED
      BY <3>2, <3>3, <3>4
  <2>4. step = "panicked" => call.offset + call.limit > IntMax
    BY <2>3 DEF SliceInv
  <2>5. ASSUME step = "done", Sliced, f <= Total(text), ~Marked(output)
        PROVE  output = Line("header", HeaderLength) \o Lines(text, Min(Wanted), Max(Wanted))
    <3>1. InBounds /\ output = Whole
      BY <2>5 DEF SliceInv
    <3>2. Wanted = f..end /\ f <= end
      BY <2>3, <2>5, <3>1
    <3>3. Min(Wanted) = f /\ Max(Wanted) = end
      <4> HIDE DEF f, end
      <4> QED
        BY <2>2, <2>5, <3>2, EndsOfInterval
    <3> QED
      BY <3>1, <3>3 DEF Whole
  <2> QED
    BY <2>4, <2>5 DEF SliceRight
<1> QED
  BY <1>1, <1>2, TypedStep, SliceStep, PTL DEF Spec
=============================================================================
