SPECIFICATION BackgroundSpec
CONSTANTS
  turn1 = turn1
  turn2 = turn2
  compact = compact
  first = first
  second = second
  Message <- MCMessage
  Compaction <- MCCompaction
  Limit = 2
  MaxCrash = 1
  Schedule = {s1, s2}
  Request = {r1, r2}
  Worker = worker0
  MaxFaults = 1
  Claim = {first, second}
  Commitment = {c1, c2}
  Action = {a1}
  MaxCycleCrashes = 1
  MaxEdits = 1
  Deletion = {d1, d2}
  Target = {t1}
  Eraser = {w1, w2}
  Window = 2
  MaxMishaps = 2
INVARIANTS
  OutboxInvariant
  DiaryInvariant
  IntelligenceInvariant
  DeletionInvariant
PROPERTIES
  ResolutionIsKept
  EveryJobIsServed
CHECK_DEADLOCK FALSE
