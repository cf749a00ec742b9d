-------------------------------- MODULE Text --------------------------------
(***************************************************************************)
(* Text as the board handles it, byte by byte.  A byte is a string; LF, CR *)
(* and BS are the control bytes, "x1" and "x2" the two bytes of one         *)
(* character.                                                              *)
(***************************************************************************)
EXTENDS Integers, SequencesExt

\* str::from_utf8 is Ok: no half of a character.
Valid(s) ==
  /\ \A i \in DOMAIN s : s[i] = "x1" => i < Len(s) /\ s[i + 1] = "x2"
  /\ \A i \in DOMAIN s : s[i] = "x2" => i > 1 /\ s[i - 1] = "x1"

\* str::trim
Trim(s) ==
  LET text == {i \in DOMAIN s : s[i] # " "}
  IN  IF text = {} THEN << >> ELSE SubSeq(s, Min(text), Max(text))
=============================================================================
