SPECIFICATION Spec
CONSTANTS
  EVQ_SIZE = 8
  Code <- MCCode
  Button <- MCButton
  ON = 44
  Row <- MCRow
  Position <- MCPosition
  OnColumn = 15
  Repeating <- MCRepeating
  NR_RSTK = 2
  Clickable = {}
  HostKey = {}
  Keysym <- KeysymNone
  Escape = "escape"
  Text <- Five
  Digit = {1, 5}
  BTN <- MCBTN
  BTN_1 = 40
  PERIOD = 46
  NEG = 25
  NoButton = 999
  HOLD = 1
  Program = {"SHUTDN"}
  OutRows = {}
  OtherIrq = FALSE
  Shortcut = {}
  KeepsUp = TRUE
PROPERTY PastedKeysTyped
CHECK_DEADLOCK FALSE
