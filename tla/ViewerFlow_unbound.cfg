SPECIFICATION Spec
CONSTANTS
  Runs = {r1}
  Conns = {c1}
  NoRun = NoRun
  NoConn = NoConn
  Cmds = {m1}
  BoundClient = FALSE
  MaxStale = 1
  MaxTick = 1
CHECK_DEADLOCK FALSE
INVARIANTS
  WaitingMeansSent
