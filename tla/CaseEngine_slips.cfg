\* Turns that fail and what the learner is shown, on seed B's harder profile,
\* with a way to the badge logs for who vouches for it.
SPECIFICATION LearnSpec
CONSTANTS
    Seed = "B"
    Difficulty = "D1"
    MaxTurns = 3
    LogCapacity = 2
    Commands <- MCLooks
    Grants <- MCAccess
    Requests <- MCTurns
    Instants <- MCInstants
INVARIANTS
    DropLocationEarned
    SecuritySceneStaysShut
    ShownIsTrue
PROPERTIES
    SupportNeverWeakens
    FramesCarryTheCase
CHECK_DEADLOCK FALSE
