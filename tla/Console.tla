------------------------------ MODULE Console -------------------------------
(***************************************************************************)
(* The console: lines written over BLE go through the input ring to the    *)
(* shell task, which edits, echoes and runs them; what it and other tasks  *)
(* print goes byte by byte through the character ring to the LCD task.     *)
(* An action is one critical section with the local work behind it.        *)
(***************************************************************************)
EXTENDS Terminal, LineEditor

CONSTANTS
  Lines,            \* what the phone may write to the characteristic
  MaxLines,         \* bound on the writes
  Replies,          \* what a command may print
  Printed,          \* bytes that other tasks may print
  MaxPrinted,       \* bound on those bytes
  INPUT_BUF_SIZE, CHAR_BUF_SIZE,
  DRAIN             \* bytes the LCD task takes at once (128)

ASSUME ConsoleAssumption ==
  /\ \A text \in Lines \cup Replies : text \in Seq(Range(text))
  /\ {INPUT_BUF_SIZE, CHAR_BUF_SIZE, DRAIN} \subseteq Nat \ {0}

VARIABLES
  input,            \* SHELL_INPUT_RING
  editor,           \* LineEditor.buf up to len
  pending,          \* what the shell still has to print of this command
  char_ring,        \* CHAR_RING
  term, panel,      \* the LCD task's Terminal, what each row of the LCD shows
  others,           \* bytes other tasks have printed
  writes,           \* lines the phone has written
  due,              \* commands those lines ask for that have not run (history)
  misran,           \* a command has run that was not the next one due (history)
  roll,             \* paper with the bytes CHAR_RING has taken (history)
  overrun           \* SHELL_INPUT_RING has dropped a byte (history)

shell_vars == << input, editor, pending >>
history == << writes, due, misran, overrun >>
lcd_vars == << term, panel >>
console_vars == << input, editor, pending, char_ring, term, panel, others, writes, due,
           misran, roll, overrun >>

ConsoleInit ==
  /\ input = << >> /\ editor = << >>
  /\ pending \in Replies                       \* launch: uname and ls
  /\ char_ring = << >> /\ roll = BlankPaper
  /\ term = EmptyTerminal /\ panel = [r \in Rows |-> << >>]
  /\ others = 0 /\ writes = 0
  /\ due = << >> /\ misran = FALSE /\ overrun = FALSE

\* Not both edited and longer than the buffer: the byte that a BS erases is then
\* not the last one typed but the last one that fitted.
Plain(line) == Contains(line, "BS") => Len(line) < SHELL_BUF_SIZE

\* What each of the lines asks for; when it is not plain, what an editor makes of
\* it that has had nothing else.
Requests ==
  [line \in Lines |->
     IF Plain(line) THEN Asked(line) ELSE Handled(Append(line, "LF")).run]

-----------------------------------------------------------------------------
(* The rings: a byte that finds its ring full is dropped.                  *)

Fitting(s) == SubSeq(s, 1, Min({Len(s), INPUT_BUF_SIZE}))

\* shell_push_input, from the GATT write callback in the BLE task.
PushLine(line) ==
  /\ writes < MaxLines /\ writes' = writes + 1
  /\ input' = Fitting(Append(input \o line, "LF"))
  /\ overrun' = (overrun \/ Len(input) + Len(line) >= INPUT_BUF_SIZE)
  /\ due' = IF overrun' THEN << >> ELSE due \o Requests[line]
  /\ UNCHANGED << editor, pending, char_ring, lcd_vars, others, misran, roll >>

\* lcd_putchar
PutChars(c) ==
  IF Len(char_ring) < CHAR_BUF_SIZE
  THEN char_ring' = Append(char_ring, c) /\ roll' = Written(roll, c)
  ELSE UNCHANGED << char_ring, roll >>

-----------------------------------------------------------------------------
(* The shell task.                                                         *)

\* parse_and_run: the echo, then what the command prints.
Echo(line) == << ">", " " >> \o line \o << "LF" >>

Run(line) ==
  /\ \E reply \in IF line = << >> THEN {<< >>} ELSE Replies :
       pending' = Echo(line) \o reply
  /\ misran' = (misran \/ (~overrun /\ (due = << >> \/ line # Head(due))))
  /\ due' = IF due = << >> THEN due ELSE Tail(due)

\* shell_getchar_nonblock and LineEditor::feed.
Reads ==
  /\ pending = << >> /\ input # << >>
  /\ input' = Tail(input)
  /\ LET fed == TakenIn([buf |-> editor, run |-> << >>], Head(input))
     IN  /\ editor' = fed.buf
         /\ IF fed.run # << >> THEN Run(Head(fed.run))
                               ELSE UNCHANGED << pending, due, misran >>
  /\ UNCHANGED << char_ring, lcd_vars, others, roll, writes, overrun >>

\* LcdWriter::write_str, a critical section for each byte.
Prints ==
  /\ pending # << >>
  /\ PutChars(Head(pending))
  /\ pending' = Tail(pending)
  /\ UNCHANGED << input, editor, lcd_vars, others, history >>

-----------------------------------------------------------------------------
(* Other tasks and the LCD task.                                           *)

OthersPrint(c) ==
  /\ others < MaxPrinted /\ others' = others + 1
  /\ PutChars(c)
  /\ UNCHANGED << shell_vars, lcd_vars, history >>

\* CharRing::drain, the number of bytes taken.
Drained(ring) == Min({Len(ring), DRAIN})

\* A turn of the loop of lcd_task.  Nobody else sees term, fb or the panel.
LcdTurn ==
  LET n   == Drained(char_ring)
      fed == Fed(term, SubSeq(char_ring, 1, n))
  IN  /\ n > 0
      /\ char_ring' = SubSeq(char_ring, n + 1, Len(char_ring))
      /\ panel' = Refreshed(panel, fed)
      /\ term' = [fed EXCEPT !.dirty = {}]
      /\ UNCHANGED << shell_vars, others, roll, history >>

ConsoleNext ==
  \/ \E line \in Lines : PushLine(line)
  \/ Reads \/ Prints
  \/ \E c \in Printed : OthersPrint(c)
  \/ LcdTurn

ConsoleSpec == ConsoleInit /\ [][ConsoleNext]_console_vars

\* Weak fairness of the shell and of the LCD task, written with the queue each
\* of them alone makes shorter: both delay only when there is nothing to do, and
\* so do their more urgent peers.
ShellGetsOn ==
  \/ []<>(input = << >> /\ pending = << >>)
  \/ []<><< Len(input') < Len(input) \/ Len(pending') < Len(pending) >>_console_vars

LcdGetsOn ==
  \/ []<>(char_ring = << >>)
  \/ []<><< Len(char_ring') < Len(char_ring) >>_console_vars

FairConsole == ConsoleSpec /\ ShellGetsOn /\ LcdGetsOn

-----------------------------------------------------------------------------
(* Properties.                                                             *)

\* As long as the input ring has room the shell runs the lines that were sent,
\* as their writer edited them or, of a line both edited and too long, as the
\* editor takes it by itself, in order, none twice and none joined to another
\* (shell_push_input, LineEditor::feed, parse_and_run).
RunsWhatWasSent == overrun \/ ~misran

\* Whatever is dirty and however it is flushed: when the LCD task has caught up
\* the panel shows the end of the roll on which everything the character ring
\* has taken is written (Terminal, lcd_task).
PanelShowsThePrint == char_ring = << >> => panel = Picture(roll)

\* In the end every line has been run, unless the input ring lost something, and
\* everything the character ring took is on the panel (launch, lcd_task).
EveryLineIsAnswered ==
  <>[]((overrun \/ due = << >>) /\ panel = Picture(roll))
=============================================================================
