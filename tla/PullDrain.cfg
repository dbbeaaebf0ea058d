CONSTANTS
  p1 = p1
  p2 = p2
  Peers = {p1}
  Origins = {1, 2}
  Own <- OneOwn
  Offered <- OneOffered
  FirstKnown = {2}
  MaxKey = 2
  Limit = 3
  ByteBudget = 2
  StallLimit = 2
  Audits = {FALSE, TRUE}
  MaxEpoch = 2
  MaxFaults = 1
SPECIFICATION FairSpec
ACTION_CONSTRAINT QuietBuild
INVARIANTS
  NoSilentLoss
  DoneMeansHeld
  ClaimIsHeld
PROPERTIES
  PullConverges
  DrainsComplete
CHECK_DEADLOCK FALSE
