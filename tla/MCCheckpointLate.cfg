CONSTANTS
  Cmd = {c1, c2, c3}
  Guard = {g}
  NoImage = NoImage
  MaxRound = 1
  Prompt = TRUE
  Faults = {}
SPECIFICATION LiveSpec
CHECK_DEADLOCK FALSE
PROPERTY WakesUp
