SPECIFICATION Spec
CONSTANTS
  NIBBLES_PER_ROW = 2
  DISP_ROWS = 4
  MENU_ROWS = 1
  DISP_INSTR_OFF = 3
  VISIBLE = 2
  RAM <- MCRam
  NEVER = 8192
  LATEST = 2
  SLOWEST = 3
  LONGEST = 130
  RamSize = 2
  opt_gx = TRUE
  CLOCK <- MCClock
  TIMEOUTCLK = 47
  Setups <- MCSetups
  FRAMES = 2
  AUDIBLE = 2
  MaxToggles = 3
INVARIANTS TypeOK DisplayFollowsRegisters RequestsServed DrawnAsStored
PROPERTIES OnlyAnOverlapHides SilenceEnds ExpiryNoticed RestoresSaved
CHECK_DEADLOCK FALSE
