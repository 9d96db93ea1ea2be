SPECIFICATION FairSpec
CONSTANTS
  Runs = {r1}
  Conns = {c1, c2}
  NoConn = NoConn
  NoRun = NoRun
  TTL = 1
  MaxTime = 1
  MaxTick = 1
  MaxVer = 1
CHECK_DEADLOCK FALSE
PROPERTIES
  DroppedIsReleased
  AcceptedCommandSettles
