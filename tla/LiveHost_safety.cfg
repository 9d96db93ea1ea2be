SPECIFICATION Spec
CONSTANTS
  Runs = {r1}
  Conns = {c1, c2}
  NoConn = NoConn
  NoRun = NoRun
  TTL = 1
  MaxTime = 2
  MaxTick = 2
  MaxVer = 2
SYMMETRY Interchangeable
CHECK_DEADLOCK FALSE
INVARIANTS
  TypeOK
  DiffBaseIsViewersState
  NoResidue
  LiveRecordHasBaseline
  SoleViewerIsServed
  AckedCommandsReachViewer
PROPERTIES
  DiffsContiguous
  ImplementsStream
