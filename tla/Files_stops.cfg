CONSTANTS
  Pages = {0, 1, 2}
  Root = 0
  Blocks = {0, 1}
  BlockOf <- MCBlockOf
  NoBlock = NoBlock
  NSlots = 2
  PutSlots = 5
  MaxVer = 5
  Kinds = {"tx"}
  CrashAt = {"idle"}
  PowerLoss = FALSE
  Stores = {"transactions", "puts", "segments", "cas"}
  Logs = {"history", "txlog"}
  Keys = {1, 2}
  Ids = {1, 2}
  TombIds = {2}
  Lengths = {1, 2}
  MaxSegment = 3
  MaxRecords = 4
  MaxStops = 2
  MaxFaults = 1
  Leftovers <- MCLeftovers
  Stops <- MCStops
  Objects = {"long", "a", "b"}
  NBlocks = 4
  TornWrites = FALSE
  MaxCrashes = 2
  Length <- MCLength
SPECIFICATION MCSpec
INVARIANT RecoveredSnapshot
INVARIANT HistoryExact
INVARIANT EventsExact
INVARIANT ContentKept
