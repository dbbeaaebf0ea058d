CONSTANTS
\* One client that asks twice at most, with one answer lost; an ask lives one second, its
\* code one, its token two, so that each runs out within the clock's four.
  c1 = c1
  Clients <- MCClients
  Requests <- MCRequests
  FamilyOrder <- MCFamilyOrder
  Purposes = {"party"}
  DefaultScope = "threads"
  AskTTL = 1
  CodeTTL = 1
  TokenTTL = 2
  TouchEvery = 1
  MaxTime = 4
  MaxAsks = 2
  MaxLost = 1
\* Three starts and stops of the tunnel, one automatic restart allowed.
  Configs = {"ok", "missing", "disabled", "unreadable"}
  MaxAttempts = 1
  MaxGeneration = 3
\* Three edges on three endpoints, pages of one, two deletions of endpoints; one move.
  Nodes = {"a", "b", "c"}
  EdgeOps = {1, 2, 3}
  EndsOf <- MCEndsOf
  EdgeRowOf <- MCEdgeRowOf
  Malformed = {3}
  PageLimit = 1
  MoveIds = {"m1"}
  Resolutions = {1, 2}
  MaxCrashes = 2
  MaxDeaths = 2
\* Feeds of one or two devices.
  Feeds <- MCFeeds
  Found <- MCFound
  BadKeys = {"bad"}
  OwnMeshId = "k"

SPECIFICATION Spec

INVARIANTS
  TokenWasGranted
  BearerIsHeld
  NoStrayProcess
  SomebodyAtWork
  StoppedStaysStopped
  NoEdgeStranded

PROPERTIES
  AskEnds
  ExitIsTold
  OwedCallbackRuns
  FeedKeepsRecentPeers

CHECK_DEADLOCK FALSE
