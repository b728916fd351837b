----------------------------- MODULE Attachment -----------------------------
(***************************************************************************)
(* How view_image finds the attachment that its argument attachment_id     *)
(* names (parseAttachmentID and idFromAttachmentURL in                     *)
(* internal/tools/viewimage.go), and what it makes of the bytes it gets.   *)
(***************************************************************************)
EXTENDS Integers

CONSTANTS
  IntMax,         \* greatest int (2^63 - 1 in the code)
  HalfNumbers,    \* twice the values of the JSON numbers the model may write, once
                  \* decoded: above 2^53 decoding has rounded them to a float64
  Written,        \* the integers it may write in digits
  MaxImageBytes   \* 4 MiB in the code

ASSUME AttachmentAssumption ==
  /\ IntMax \in Nat \ {0} /\ MaxImageBytes \in Nat \ {0}
  /\ HalfNumbers \subseteq Int /\ Written \subseteq Int

(* The decoded argument: a JSON number, a string of digits, a URL whose    *)
(* path is that of an attachment download or not, or anything else. A host *)
(* is "ours" if it is that of WS_API_URL; without that variable none is.   *)
Refs ==
  [kind : {"number"}, half : HalfNumbers]
    \cup [kind : {"digits"}, id : Written]
    \cup [kind : {"url"}, host : {"none", "ours", "foreign"}, download : BOOLEAN, id : Written]
    \cup [kind : {"blank", "opaque", "missing"}]

Refused == 0

(* What int(f) may give for a float64 f, of which half is twice the value.  *)
(* It cuts off the fraction; beyond the range of int Go leaves the result   *)
(* to the platform: the least int on amd64, the nearest one on arm64.       *)
IntOf(half) ==
  LET n == IF half < 0 THEN -((-half) \div 2) ELSE half \div 2
  IN  IF n > IntMax THEN {IntMax, -IntMax - 1}
      ELSE IF n < -IntMax - 1 THEN {-IntMax - 1} ELSE {n}

(* Faulty variant: a number with a fraction is taken too. *)
IdsOfAnyNumber(half) == IF half <= 0 THEN {Refused} ELSE IntOf(half)

IdsOfNumber(half) == IF half <= 0 \/ half % 2 = 1 THEN {Refused} ELSE IntOf(half)

(* Atoi refuses what does not fit; what it refuses is not a URL either.    *)
IdOfDigits(id) == IF 0 < id /\ id <= IntMax THEN id ELSE Refused

IdFromAttachmentURL(ref) ==
  IF ref.host # "foreign" /\ ref.download THEN IdOfDigits(ref.id) ELSE Refused

(* The ids that may be found in the argument.                              *)
ParseAttachmentID(ref) ==
  CASE ref.kind = "number" -> IdsOfNumber(ref.half)
    [] ref.kind = "digits" -> {IdOfDigits(ref.id)}
    [] ref.kind = "url"    -> {IdFromAttachmentURL(ref)}
    [] OTHER               -> {Refused}

(* What ws delivers: nothing at all if it fails, or so many bytes of an    *)
(* image or of something else.                                             *)
Data ==
  [failed : {TRUE}]
    \cup [failed : {FALSE}, size : {0, 1, MaxImageBytes, MaxImageBytes + 1}, image : BOOLEAN]

(* sniffImageMime finds no signature in an empty file. *)
Loadable(data) == ~data.failed /\ 0 < data.size /\ data.size <= MaxImageBytes /\ data.image

(* What the description in the schema calls "the numeric attachment id      *)
(* (preferred), or a Windshift attachment download URL" of attachment n.   *)
Names(ref, n) ==
  \/ ref.kind = "number" /\ ref.half = 2 * n
  \/ ref.kind = "digits" /\ ref.id = n
  \/ ref.kind = "url" /\ ref.host # "foreign" /\ ref.download /\ ref.id = n

BeyondInt(ref) == ref.kind = "number" /\ ref.half > 2 * IntMax
=============================================================================
