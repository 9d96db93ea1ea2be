SPECIFICATION FairSpec
CONSTANTS
  Runs = {r1}
  Conns = {c1, c2}
  NoRun = NoRun
  NoConn = NoConn
  Cmds = {m1}
  BoundClient = TRUE
  MaxStale = 1
  MaxTick = 1
CHECK_DEADLOCK FALSE
PROPERTIES
  LaunchSettles
  CommandSettles
