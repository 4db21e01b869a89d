SPECIFICATION MCServerSpec
CHECK_DEADLOCK FALSE
CONSTANTS
  Parts = {"log"}
  Size = 3
  MaxTerm = 3
  MaxInFlight = 1
  MaxBeat = 1
  EmptyLog = {2}
  NumDevs = 2
  ConfigLen = 3
  InlineTop = 4
  LogLen = 9
  Header = 2
  DataSizes = {1, 2}
  InlineMax = 3
  MaxEntry = 4
  MaxReset = 1
  Sender = {t1, t2}
  S_DEPTH = 3
  MaxSend = 9
INVARIANT TailIsLastEntry
