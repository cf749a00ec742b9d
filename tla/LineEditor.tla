----------------------------- MODULE LineEditor -----------------------------
(***************************************************************************)
(* The line editor of shell.rs: what it makes of a text byte by byte, and  *)
(* beside it what the writer of the text asked for.                        *)
(***************************************************************************)
EXTENDS Text, FiniteSets

CONSTANT SHELL_BUF_SIZE

ASSUME EditorAssumption == SHELL_BUF_SIZE \in Nat \ {0}

-----------------------------------------------------------------------------
(* LineEditor: its buffer up to len, and the lines it has had run.         *)

\* Variant of EndsLine: only carriage returns end a line.
EndsLineCr(c) == c = "CR"

EndsLine(c) == c \in {"LF", "CR"}

\* LineEditor::feed for any other byte: one byte back, or one more if it fits.
Edit(buf, c) ==
  IF c = "BS" THEN SubSeq(buf, 1, Len(buf) - 1)
  ELSE IF Len(buf) < SHELL_BUF_SIZE - 1 THEN Append(buf, c) ELSE buf

\* Variant of AfterEnd: the buffer is kept when it is not valid text.
AfterEndIfValid(buf) == IF Valid(buf) THEN << >> ELSE buf

AfterEnd(buf) == << >>

\* LineEditor::feed
TakenIn(e, c) ==
  IF ~EndsLine(c) THEN [e EXCEPT !.buf = Edit(@, c)]
  ELSE [ buf |-> AfterEnd(e.buf),
         run |-> IF Valid(e.buf) THEN Append(e.run, Trim(e.buf)) ELSE e.run ]

\* A whole text, from an empty buffer on.
Handled(text) ==
  LET after[i \in 0 .. Len(text)] ==
        IF i = 0 THEN [buf |-> << >>, run |-> << >>] ELSE TakenIn(after[i - 1], text[i])
  IN  after[Len(text)]

-----------------------------------------------------------------------------
(* What a text asks for.                                                   *)

\* The elements of s at the places in K, in order.
Extract(s, K) ==
  LET Place(k) == Min({i \in K : Cardinality({j \in K : j <= i}) = k})
  IN  [k \in 1 .. Cardinality(K) |-> s[Place(k)]]

\* The line that has begun when i bytes have come.
Begun(text, i) ==
  SubSeq(text, Max({0} \cup {j \in 1 .. i : text[j] \in {"LF", "CR"}}) + 1, i)

\* A byte is erased by a BS behind it that no byte in between has used up.
Survives(s, i) ==
  /\ s[i] # "BS"
  /\ \A j \in i + 1 .. Len(s) :
       2 * Cardinality({k \in i + 1 .. j : s[k] = "BS"}) <= j - i

Kept(s) == {i \in DOMAIN s : Survives(s, i)}

\* The text its writer meant, as far as it fits.
Meant(s) ==
  LET text == Extract(s, Kept(s))
  IN  SubSeq(text, 1, Min({Len(text), SHELL_BUF_SIZE - 1}))

\* The command that a line asks for, unless what was meant is not valid text.
AskedAt(text, e) == Trim(Meant(Begun(text, e - 1)))

Readable(text) ==
  {e \in DOMAIN text : text[e] \in {"LF", "CR"} /\ Valid(Meant(Begun(text, e - 1)))}

\* The commands that a text asks for when its last line has been ended.
Asked(text) ==
  LET ended == Append(text, "LF")
  IN  Extract([e \in DOMAIN ended |-> AskedAt(ended, e)], Readable(ended))
=============================================================================
