SPECIFICATION HostsSpec
CONSTANTS
  a1 = a1
  a2 = a2
  a3 = a3
  Attempt = {a1, a2, a3}
  Order <- MCOrder
  Tick = {t1, t2}
  maxConcurrency = 2
  MaxTimers = 2
  Request = {r1, r2}
  MaxSaid = 1
  MaxLines = 2
  Executor = {h1, h2}
  NoOne = NoOne
  Kind = {"message", "event"}
  NoRef = NoRef
  Ref = {NoRef}
  MaxToken = 2
  MaxSeq = 8
  MaxEvents = 1
  MaxSide = 1
  Delegation = {d1, d2, d3}
INVARIANTS
  HostInvariant
  ExternalInvariant
  SubagentsInvariant
PROPERTY
  EveryRunEnds
CHECK_DEADLOCK FALSE
