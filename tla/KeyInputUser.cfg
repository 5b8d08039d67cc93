SPECIFICATION Spec
CONSTANTS
  EVQ_SIZE = 3
  Code <- MCCode
  Button <- MCButton
  ON = 44
  Row <- MCRow
  Position <- MCPosition
  OnColumn = 15
  Repeating <- MCRepeating
  NR_RSTK = 2
  Clickable = {10, 40}
  HostKey = {"escape"}
  Keysym <- KeysymE
  Escape = "escape"
  Text <- Number
  Digit = {1, 5}
  BTN <- MCBTN
  BTN_1 = 40
  PERIOD = 46
  NEG = 25
  NoButton = 999
  HOLD = 1
  Program = {}
  OutRows = {}
  OtherIrq = FALSE
  Shortcut = {"cmd", "overlay"}
  KeepsUp = TRUE
PROPERTY KeysComeUp
CHECK_DEADLOCK FALSE
