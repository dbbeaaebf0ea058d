CONSTANTS
  p1 = p1
  p2 = p2
  Peers = {p1}
  Origins = {1, 2}
  Own <- OneOwn
  Offered <- OneOffered
  FirstKnown = {1, 2}
  MaxKey = 2
  Limit = 3
  ByteBudget = 2
  StallLimit = 2
  Audits = {FALSE}
  MaxEpoch = 1
  MaxFaults = 0
SPECIFICATION Spec
INVARIANT
  NoSilentLoss
CHECK_DEADLOCK FALSE
