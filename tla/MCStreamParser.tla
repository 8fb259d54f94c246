---------------------------- MODULE MCStreamParser ----------------------------
(***************************************************************************)
(* StreamParser for TLC: the texts that are tried.                         *)
(***************************************************************************)
EXTENDS StreamParser

CONSTANTS
  MaxLength,  \* bound: the characters of a text
  MaxShort    \* bound: those of a text with two tokens, and the bytes of a broken one

Encode(chars) ==
  FlattenSeq([i \in DOMAIN chars |-> IF chars[i] = "e" THEN <<"e1", "e2">> ELSE <<chars[i]>>])

MCTexts ==
  {Encode(chars) : chars \in SeqOf({"e", "done", "junk", "nl"}, MaxLength)} \union
    {Encode(chars) : chars \in SeqOf({"a", "e", "other", "nl"}, MaxShort)} \union
    SeqOf({"e1", "e2", "nl"}, MaxShort)
=============================================================================
