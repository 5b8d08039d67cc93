SPECIFICATION Spec
CONSTANTS
  LIMB = 3
  LONG = 12
  NIBBLE = 3
  NACCESS = 3
  HALF_MINUTE = 4
  unix_0_time = 100
  timer2_0 = 6
  SetBy = {20}
  Sixteenth = 2
  MaxNow = 4
  MaxLag = 1
PROPERTY OnlyBigAdjustments
CHECK_DEADLOCK FALSE
