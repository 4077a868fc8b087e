SPECIFICATION StoresSpec
CONSTANTS
  api = api
  host = host
  Executor <- MCExecutor
  NoOne = NoOne
  Kind = {"delta"}
  NoRef = NoRef
  Ref = {NoRef}
  MaxToken = 4
  MaxSeq = 2
  Holder <- MCExecutor
  Nobody = NoOne
  Invocation = {"call"}
  MaxGrip = 2
  MaxEvents = 2
  Editor = {e1, e2, e3}
  MaxMessageVersion = 4
  Talk = {t1, t2, t3}
  Root = t1
  MaxBranches = 2
  MaxQueries = 5
  Device = {laptop, phone}
  GrantCall = {g1, g2}
  MaxRevisions = 2
  MaxLeases = 2
  MaxGrantCalls = 4
  Task = {k1, k2}
  MaxTasks = 3
  MaxSockets = 2
  Admin = {a1, a2}
  MaxPluginCalls = 3
  MaxPluginGrants = 2
  Tenant = {x, y}
  Caller = {c1, c2}
  MaxConfigCalls = 3
  Persona = {p1, p2}
  PersonaCall = {q1, q2}
  MaxPersonaRevisions = 3
  MaxPersonaCalls = 3
INVARIANTS
  TalkInvariant
  AuthorityInvariant
  StoreTypeOK
  SingleWriter
PROPERTIES
  FinishedIsFinal
  FinishedIsQuiet
  NoTheftOfLiveLease
  ImplementsLife
  MemoryKeepsThePromise
CHECK_DEADLOCK FALSE
