CONSTANTS
  Calls = {c1, c2, c3}
  Processes = {server, cli}
  Backends = {b1, b2}
  N = 3
  Probed = {1}
  Period = 1
  PeriodOf <- MCPeriodOf
  Results = {"quota_exceeded"}
  Clients = {"alice"}
  MaxTime = 4
  Callers = {d1, d2, d3, d4}
  Max = 2
SPECIFICATION PartsSpec
INVARIANTS
  NoLostWakeup
PROPERTIES
  FreedSlotIsUsed
  LatchHolds
  ChecksKeepTime
  EveryCallReturns
