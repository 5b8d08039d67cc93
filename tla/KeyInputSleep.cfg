SPECIFICATION Spec
CONSTANTS
  EVQ_SIZE = 3
  Code <- MCCode
  Button <- MCButton
  ON = 44
  Row <- MCRow
  Position <- MCPosition
  OnColumn = 15
  Repeating <- MCRepeating
  NR_RSTK = 2
  Clickable = {}
  HostKey = {"five"}
  Keysym <- Keysym5
  Escape = "escape"
  Text = {}
  Digit = {1, 5}
  BTN <- MCBTN
  BTN_1 = 40
  PERIOD = 46
  NEG = 25
  NoButton = 999
  HOLD = 1
  Program = {"INTON", "INTOFF", "RTI", "SHUTDN"}
  OutRows = {}
  OtherIrq = FALSE
  Shortcut = {}
  KeepsUp = TRUE
PROPERTIES PressWakes QuitSaves
CHECK_DEADLOCK FALSE
