SPECIFICATION FairConsole
CONSTANTS
  TERM_ROWS = 4
  TERM_COLS = 2
  Lines <- MCLines
  MaxLines = 2
  Replies <- MCReplies
  Printed = {"BS", "CR"}
  MaxPrinted = 1
  INPUT_BUF_SIZE = 7
  SHELL_BUF_SIZE = 5
  CHAR_BUF_SIZE = 3
  DRAIN = 2
INVARIANTS
  RunsWhatWasSent
  PanelShowsThePrint
PROPERTIES
  EveryLineIsAnswered
CHECK_DEADLOCK FALSE
