----------------------------- MODULE HenkeFormat -----------------------------
(* Henke's wire format: 13 or 14 bits of data in two characters, by their   *)
(* value.  A character is its index in ENCTAB, 0 to 90; DECTAB gives 91 for  *)
(* every byte that is not a character.                                       *)
EXTENDS Integers, Sequences

Byte == 0 .. 255
Char == 0 .. 90
Junk == 91
Symbol == Char \cup {Junk}

\* No first character of a pair is pending: u32::MAX in Rust, -1 in C.
NoChar == -1

\* The bits that a group of value v carries: 14 if its low 13 bits leave
\* room for one more below 91 * 91.
GroupBits(v) == IF v % 2^13 > 88 THEN 13 ELSE 14

\* A group's two characters, and back.
PairOf(v) == <<v % 91, v \div 91>>
ValueOf(c0, c1) == c0 + 91 * c1

\* Definitions named ...Bug are not part of the model: each is the definition
\* after it with a plausible mistake, which a property must notice.

\* The end of the session is forgotten.
EncodeSizeHintBug(n) == (16 * n) \div 13

\* Upper bounds for a whole session, which include the end of it.
EncodeSizeHint(n) == (16 * n + 12) \div 13 + 2

\* So is the pending character.
DecodeSizeHintBug(n) == (7 * n) \div 8

DecodeSizeHint(n) == (7 * n) \div 8 + 1
=============================================================================
