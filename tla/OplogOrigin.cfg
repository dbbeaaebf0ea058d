\* Operation 1 is on another row, so that the newest place of the stream is not the bulk row's.
CONSTANTS
  Ops = {1, 4, 5}
  RowIds = {"n", "b"}
  RowOf <- MCRowOf
  DeviceOf <- MCDeviceOf
  BulkRows = {"b"}
  External = {}
  Aliases = {}
  Peers = {"p"}
  KeepPerRow = 1
  MaxDeletes = 2
  Horizon = 1
  MaxTime = 1
  MaxSeq = 4
  MaxEpoch = 1

SPECIFICATION StoreSpec

INVARIANT OriginPersists

CHECK_DEADLOCK FALSE
