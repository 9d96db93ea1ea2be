\* Elodie's first scene summarised before she trusts the player, seed A.
SPECIFICATION Spec
CONSTANTS
    Seed = "A"
    Difficulty = "D0"
    MaxTurns = 4
    LogCapacity = 4
    Commands <- Affordances
    Grants <- MCGrants
    Requests <- MCAllRequests
    Instants <- MCInstants
INVARIANTS
    ConfrontationInReach
CHECK_DEADLOCK FALSE
