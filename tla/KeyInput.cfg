SPECIFICATION Spec
CONSTANTS
  EVQ_SIZE = 3
  Code <- MCCode
  Button <- MCButton
  ON = 44
  Row <- MCRow
  Position <- MCPosition
  OnColumn = 15
  Repeating <- MCRepeating
  NR_RSTK = 1
  Clickable = {}
  HostKey = {"up", "escape"}
  Keysym <- KeysymUE
  Escape = "escape"
  Text = {}
  Digit = {1, 5}
  BTN <- MCBTN
  BTN_1 = 40
  PERIOD = 46
  NEG = 25
  NoButton = 999
  HOLD = 1
  Program <- AnyProgram
  OutRows = {{7}}
  OtherIrq = TRUE
  Shortcut = {}
  KeepsUp = TRUE
INVARIANTS TypeOK PendingIsMasked BitsArePressed NoneUnannounced SavedAtRest
CHECK_DEADLOCK FALSE
