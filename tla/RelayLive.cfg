CONSTANTS
  n1 = n1
  n2 = n2
  n3 = n3
  o1 = o1
  o2 = o2
  Torn = Torn
  Nodes = {n1, n2}
  Ops = {o1, o2}
  Author <- PairAuthor
  Peers <- PairPeers
  Undecodable = {}
  PageLimit = 1
  MaxEpoch = 3
  MaxFaults = 1
  KeyFileLoss = FALSE
SPECIFICATION FairSpec
PROPERTY
  Converges
CHECK_DEADLOCK FALSE
