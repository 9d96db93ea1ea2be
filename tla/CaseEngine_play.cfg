\* The case of seed C on its easier profile, played from arrival to its
\* outcomes by a caller of the runner, who may vouch for prerequisites, and
\* by a viewer of the live host.
SPECIFICATION LiveSpec
CONSTANTS
    Seed = "C"
    Difficulty = "D0"
    MaxTurns = 6
    ViewerTurns = 4
    LogCapacity = 4
    Commands <- MCPlayed
    Grants <- MCGrants
    Requests <- Moves
    Instants <- MCInstants
INVARIANTS
    TypeOK
    ContradictionEarned
    RecoveryEarned
    LatchesFollowOutcome
    RecapAgrees
    OnlyTimeEndsIt
PROPERTIES
    MinigamesSettle
    NothingIsTakenBack
CHECK_DEADLOCK FALSE
