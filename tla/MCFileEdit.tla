----------------------------- MODULE MCFileEdit -----------------------------
(* Small instances of FileEdit for TLC. *)
EXTENDS FileEdit

CONSTANTS letter, other, blank  \* bytes

Bytes == {letter, other, blank}
Texts(bytes, n) == UNION {[1..k -> bytes] : k \in 0..n}

(* Files of up to five letters and blanks, also none; old texts of up to   *)
(* three, which overlap themselves and each other, and short new ones.     *)
SomeFiles == Texts({letter, blank}, 5) \cup {NoFile}
NewTexts == {<<>>, <<letter>>, <<other, blank>>}
SomeCalls ==
  [tool : {"edit_file"}, old : Texts({letter, blank}, 3), new : NewTexts]
    \cup [tool : {"write_file"}, old : {<<>>}, new : NewTexts]
SomePieces == {<<other>>, <<other, other>>}
=============================================================================
