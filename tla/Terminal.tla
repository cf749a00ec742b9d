------------------------------ MODULE Terminal ------------------------------
(***************************************************************************)
(* The terminal of lcd.rs: a matrix of bytes with a cursor and the set of  *)
(* rows to draw again, as functions on one record, and beside it the roll  *)
(* of paper of which the panel should show the end.                        *)
(***************************************************************************)
EXTENDS Text, FiniteSets

CONSTANTS TERM_ROWS, TERM_COLS

ASSUME TerminalAssumption == {TERM_ROWS, TERM_COLS} \subseteq Nat \ {0}

Rows == 0 .. TERM_ROWS - 1
BlankRow == [c \in 0 .. TERM_COLS - 1 |-> " "]

-----------------------------------------------------------------------------
(* The state machine of the LCD task.                                      *)

EmptyTerminal ==
  [ screen |-> [r \in Rows |-> BlankRow], lens |-> [r \in Rows |-> 0],
    row |-> 0, col |-> 0, dirty |-> {} ]

Scrolled(f, last) == [r \in Rows |-> IF r + 1 \in Rows THEN f[r + 1] ELSE last]

\* Variant of ScrollUp: only the row that was cleared is drawn again.
ScrollUpLastDirty(t) ==
  [t EXCEPT !.screen = Scrolled(@, BlankRow), !.lens = Scrolled(@, 0),
            !.dirty = @ \cup {TERM_ROWS - 1}]

ScrollUp(t) ==
  [t EXCEPT !.screen = Scrolled(@, BlankRow), !.lens = Scrolled(@, 0),
            !.dirty = Rows]

Newline(t) ==
  LET moved == IF t.row < TERM_ROWS - 1 THEN [t EXCEPT !.row = @ + 1]
                                        ELSE ScrollUp(t)
  IN  [moved EXCEPT !.col = 0, !.dirty = @ \cup {moved.row}]

PutChar(t, c) ==
  LET u == IF t.col >= TERM_COLS THEN Newline(t) ELSE t
  IN  [u EXCEPT !.screen[u.row][u.col] = c,
                !.col = @ + 1,
                !.lens[u.row] = Max({@, u.col + 1}),
                !.dirty = @ \cup {u.row}]

\* The row ends where the erased byte was, wherever it ended before.
Backspace(t) ==
  IF t.col = 0 THEN t
  ELSE [t EXCEPT !.screen[t.row][t.col - 1] = " ",
                 !.col = @ - 1,
                 !.lens[t.row] = Min({@, t.col - 1}),
                 !.dirty = @ \cup {t.row}]

Feed(t, c) ==
  CASE c = "LF" -> Newline(t)
    [] c = "CR" -> [t EXCEPT !.col = 0]
    [] c = "BS" -> Backspace(t)
    [] OTHER    -> PutChar(t, c)

\* The bytes of one batch, one by one.
Fed(t, s) ==
  LET after[i \in 0 .. Len(s)] == IF i = 0 THEN t ELSE Feed(after[i - 1], s[i])
  IN  after[Len(s)]

\* What render_row and render_full draw of a row: nothing of invalid text.
Drawn(t, r) ==
  LET line == [i \in 1 .. t.lens[r] |-> t.screen[r][i - 1]]
  IN  IF Valid(line) THEN line ELSE << >>

\* One flush: every row when many are dirty, else the dirty ones.
Refreshed(panel, t) ==
  LET again == IF Cardinality(t.dirty) > TERM_ROWS \div 2 THEN Rows ELSE t.dirty
  IN  [r \in Rows |-> IF r \in again THEN Drawn(t, r) ELSE panel[r]]

-----------------------------------------------------------------------------
(* The paper roll: no matrix, no scrolling, nothing to draw again.         *)

BlankPaper == [lines |-> << << >> >>, at |-> 0]

\* What has left the top of the panel is torn off.
FreshLine(p) ==
  LET n == Len(p.lines)
  IN  [lines |-> Append(SubSeq(p.lines, Max({1, n - TERM_ROWS + 2}), n), << >>),
       at    |-> 0]

Typed(p, c) ==
  LET q == IF p.at = TERM_COLS THEN FreshLine(p) ELSE p
      n == Len(q.lines)
      before == SubSeq(q.lines[n], 1, q.at)
      after  == SubSeq(q.lines[n], q.at + 2, Len(q.lines[n]))
  IN  [lines |-> [q.lines EXCEPT ![n] = before \o << c >> \o after],
       at    |-> q.at + 1]

Erased(p) ==
  IF p.at = 0 THEN p
  ELSE [lines |-> [p.lines EXCEPT ![Len(p.lines)] = SubSeq(@, 1, p.at - 1)],
        at    |-> p.at - 1]

Written(p, c) ==
  CASE c = "LF" -> FreshLine(p)
    [] c = "CR" -> [p EXCEPT !.at = 0]
    [] c = "BS" -> Erased(p)
    [] OTHER    -> Typed(p, c)

\* The roll as a panel shows it.
Picture(p) ==
  [r \in Rows |-> IF r < Len(p.lines) /\ Valid(p.lines[r + 1])
                  THEN p.lines[r + 1] ELSE << >>]
=============================================================================
