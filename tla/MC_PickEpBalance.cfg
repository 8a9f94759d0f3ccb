CONSTANTS
  h1 = h1
  h2 = h2
  h3 = h3
  Dests <- MCDests
  MaxPerHost = 3
  PickDests <- SameDest
  MaxPicks = 6
SPECIFICATION BSpec
INVARIANT PickEpBalanced
CHECK_DEADLOCK FALSE
