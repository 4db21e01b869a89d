CONSTANTS
  Cmd = {c1, c2, c3, c4, c5}
  Guard = {g}
  NoImage = NoImage
  MaxRound = 4
  Prompt = TRUE
  Faults = {"shutdown", "launch", "dump", "restore"}
SPECIFICATION LiveSpec
CHECK_DEADLOCK FALSE
INVARIANTS TypeOK UsesOpenRdma ImageWaits
PROPERTY ComesBack
