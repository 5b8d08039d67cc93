SPECIFICATION Spec
CONSTANTS
  NR_RSTK = 3
  Cell <- MCCell
  KeysIn <- MCKeysIn
  ChipId <- MCChipId
  Start <- MCStart
  Programs <- MCPrograms
INVARIANTS TypeOK StackKeepsNewest TestsAgree
PROPERTIES DisassemblyAgrees ArithmeticAgrees OnlyTheField
CHECK_DEADLOCK FALSE
