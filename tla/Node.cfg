CONSTANTS
\* Two sources over a table of two, so that a full table is swept.
  Sources = {"a", "b"}
  Per = 2
  Window = 2
  TableLimit = 2
  MaxSecond = 4
  MaxEvents = 5
\* Two proofs, clocks up to a second more than the allowed skew apart.
  Nonces = {"n1", "n2"}
  Keys = {1}
  Signers = {1, 2}
  Here = "here"
  Recipients = {"here", "there"}
  Lifetime = 2
  Skew = 1
  Memory = 3
  MaxNow = 6
\* Every path of up to three segments after a known prefix.
  Methods = {"GET", "POST"}
  Segments <- MCSegments
  Longer <- MCLonger
  MaxTail = 3
\* One session whose requests overlap, a server that restarts once.
  Sessions = {"s1"}
  Calls = {1, 2}
  Latest = 2
  NoHeader = 0
  Assumed = 1
  Participants = {"guest", "editor"}
  GrantOf <- MCGrantOf
  Agents = {"bot"}
  AgentParticipant <- MCAgentParticipant
  Join = "join"
  SeatTools = {"read", "join"}
  WriterTools = {"read", "join", "write"}
  Requested <- MCRequested
  MaxBoots = 2
\* The log: one kept operation per row, chunks of up to two candidates, a horizon of one.
  Ops = {1, 2, 3, 4, 5, 6}
  RowIds = {"n", "m", "b"}
  RowOf <- MCRowOf
  DeviceOf <- MCDeviceOf
  BulkRows = {"b"}
  External = {3}
  Aliases <- MCAliases
  Peers = {"p", "r"}
  KeepPerRow = 1
  MaxDeletes = 2
  Horizon = 1
  MaxTime = 2
  MaxSeq = 5
  MaxEpoch = 2
\* Two peers, candidates of one or two units, room for two of them per peer.
  QPeers = {"p", "q"}
  PeerStream <- MCPeerStream
  Hideable = {3}
  MaxEnvelope = 2
  MaxQuarantined = 3
  MaxQuarantinedPerPeer = 2
  MaxBytes = 4
  MaxBytesPerPeer = 3
  AuditBytes = 0
  MaxAudit = 1
  ReplayRows = 2
  ReplayBytes = 2
  MaxTries = 2
\* A device with the writer's columns and one that lacks a column.
  Replicas = {"full", "old"}
  RowOps = {1, 2, 3, 4, 5, 6, 7}
  Mutation <- MCMutation
  ColumnsOf <- MCColumnsOf
  KeyColumn = "k"
  UniqueColumn = "u"
  DeviceLocal = {"l"}
  ParentOf <- MCParentOf
  NoRow = "-"
  Unset = Unset
\* Two calls, one request that arrives twice, a nonce forgotten after one tick.
  Callers = {"a", "b"}
  Node = "n"
  PageSize = 1
  ReplayTTL = 0
  ReplayLimit = 2
  WatchLimit = 1
  MaxCalls = 2
  MaxChanges = 2
  MaxDuplicates = 1
  MaxDoorTime = 1
\* Two links that serve the same three operations, pages of two, one restart.
  Links <- MCLinks
  PulledOps = {1, 2, 3}
  SignerOf <- MCSignerOf
  PullLimit = 2
  MaxRestarts = 1

SPECIFICATION Spec

INVARIANTS
  FewerThanTwoWindows
  AcceptedOnce
  PartyRouteIsThreads
  SessionKeepsWorking
  ActsForItsSession
  DispatchedIsOpenToAll
  WinnerIsNewest
  NeededOpsAreHeld
  PeersPassedWhatGoes
  HorizonFloorIsRight
  NothingSkippedIsLost
  RowShowsWinner
  AnswerIsCurrent
  LegacyCursorCovered
  NoWakeupLost

PROPERTIES
  StreamKeepsPlaces

CHECK_DEADLOCK FALSE
