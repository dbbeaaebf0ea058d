CONSTANTS
  p1 = p1
  p2 = p2
  Peers = {p1, p2}
  Origins = {1, 2, 3}
  Own <- TwoOwn
  Offered <- SplitOffered
  FirstKnown = {1, 2, 3}
  MaxKey = 2
  Limit = 1
  ByteBudget = 2
  StallLimit = 2
  Audits = {FALSE}
  MaxEpoch = 1
  MaxFaults = 1
SPECIFICATION Spec
ACTION_CONSTRAINTS QuietBuild OneAtATime
INVARIANT
  NoSilentLoss
CHECK_DEADLOCK FALSE
