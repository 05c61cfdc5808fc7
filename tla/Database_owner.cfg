CONSTANTS
  Clients = {c1, c2}
  Shards = {s1, s2}
  None = None
  Modes = {"windowed", "replicated"}
  Openings = {{}, {s1, s2}}
  Calls = {"tx", "lot", "put", "putWindow"}
  MaxCalls = 2
  OwnerCalls = TRUE
  CloseShared = FALSE
SPECIFICATION FairSpec
CHECK_DEADLOCK FALSE
PROPERTY CallsEnd
