SPECIFICATION FeedSpec
CONSTANTS
  Groups = {"agents"}
  Ids = {1, 2}
  Slices = {"world"}
  Values = {0, 1}
  SourceStates <- MCStates
  Policies <- MCPolicies
  MaxTick = 4
  MaxFaults = 2
  None = None
INVARIANTS
  PublishedVerifies
  ViewerFollows
  RefusedOnlyIfLate
CHECK_DEADLOCK FALSE
