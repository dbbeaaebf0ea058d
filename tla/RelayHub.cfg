CONSTANTS
  n1 = n1
  n2 = n2
  n3 = n3
  o1 = o1
  o2 = o2
  Torn = Torn
  Nodes = {n1, n2, n3}
  Ops = {o1}
  Author <- HubAuthor
  Peers <- HubPeers
  Undecodable = {}
  PageLimit = 1
  MaxEpoch = 4
  MaxFaults = 2
  KeyFileLoss = FALSE
SPECIFICATION Spec
CONSTRAINT HubFocus
INVARIANT
  LinkCursorCovered
CHECK_DEADLOCK FALSE
