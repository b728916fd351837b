---------------------------- MODULE MCToolOutput ----------------------------
(* Small instances of ToolOutput: texts of runes of one and three bytes.   *)
EXTENDS ToolOutput

Runes == {<<"char">>, <<"lead", "cont", "last">>, <<"newline">>}

(* All texts of up to n runes. *)
TextsOf[n \in Nat] ==
  IF n = 0 THEN {<<>>}
  ELSE TextsOf[n - 1] \cup {s \o r : s \in TextsOf[n - 1], r \in Runes}

(* Texts around a cap of 32 bytes that differ where they may be cut.       *)
Filler(n) == [i \in 1..n |-> "char"]
LongTexts ==
  {Filler(5) \o s \o Filler(n) \o t : s \in TextsOf[2], n \in {15, 16, 17}, t \in TextsOf[3]}

(* Files of up to four lines. *)
ShortTexts == TextsOf[4]

AnyText == LongTexts \cup ShortTexts

(* Around nothing and one and across the ends of int, also numbers with a  *)
(* fraction.                                                               *)
SomeIds == {-1, 0, 1, IntMax, IntMax + 1}
SomeNumbers == {-2 * IntMax - 4, -1, 1, 3} \cup {2 * n : n \in -1..(IntMax + 1)}
=============================================================================
