SPECIFICATION Spec
CONSTANTS
  Runs = {r1, r2}
  Conns = {c1, c2}
  NoRun = NoRun
  NoConn = NoConn
  Cmds = {m1, m2}
  BoundClient = TRUE
  MaxStale = 0
  MaxTick = 1
SYMMETRY Interchangeable
CHECK_DEADLOCK FALSE
INVARIANTS
  TypeOK
  ShowsWantedRun
  FollowsKernel
  ScreenAndSocketAgree
  AnswersAreTheKernels
  ErrorsAreHonest
