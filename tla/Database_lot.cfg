CONSTANTS
  Clients = {c1, c2}
  Shards = {s1, s2}
  None = None
  Modes = {"windowed", "replicated"}
  Openings = {{}, {s1, s2}}
  Calls = {"put", "putWindow", "tx", "batch", "lot", "sync", "checkpoint", "close"}
  MaxCalls = 2
  OwnerCalls = FALSE
  CloseShared = FALSE
SPECIFICATION Spec
CHECK_DEADLOCK FALSE
INVARIANT LotReturnsLocks
