CONSTANTS
  n1 = n1
  n2 = n2
  n3 = n3
  o1 = o1
  o2 = o2
  Torn = Torn
  Nodes = {n1, n2}
  Ops = {o1, o2}
  Author <- PairAuthor
  Peers <- PairPeers
  Undecodable = {o2}
  PageLimit = 1
  MaxEpoch = 3
  MaxFaults = 2
  KeyFileLoss = TRUE
SPECIFICATION Spec
INVARIANTS
  TypeOK
  PersistedCursorCovered
  NoFrameBehindTear
PROPERTY
  RefinesReplicaSet
CHECK_DEADLOCK FALSE
