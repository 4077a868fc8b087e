SPECIFICATION RecordsSpec
CONSTANTS
  early = early
  late = late
  source = source
  asking = asking
  trusted = trusted
  taskA = taskA
  taskB = taskB
  taskC = taskC
  taskD = taskD
  draftA = draftA
  draftB = draftB
  questionA = questionA
  questionB = questionB
  Capture = {early, late}
  Grant = {source}
  Order <- MCOrder
  SourceOf <- MCSource
  Yield <- MCYield
  Purger = {"worker", "client"}
  BatchLimit = 2
  Window = 2
  MaxCrashes = 1
  Call = {asking, trusted}
  Mode <- MCMode
  MaxRows = 2
  MaxChanges = 1
  Request = {r1, r2, r3}
  Key = {k1, k2}
  MaxReviews = 3
  MaxAnswers = 3
  Milestones = 4
  Task = {taskA, taskB, taskC, taskD}
  HomeOf <- MCHome
  HostCall = {h1, h2}
  MaxCommands = 3
  Draft = {draftA, draftB}
  PayloadOf <- MCPayload
  SkillCall = {k1, k2}
  MaxVersion = 2
  MaxSkillCalls = 3
  QuestionList <- MCQuestions
  Linked = {questionA}
  Count = 2
  PracticeCall = {k1, k2}
  MaxSessions = 2
  MaxTries = 2
  MaxPracticeCalls = 3
  MaterialKey = {mk}
  NoKey = NoKey
  MaterialCall = {m1, m2}
  MaxMaterials = 2
  MaxEditions = 3
  MaxSources = 1
  MaxMaterialCalls = 4
  MaxMaterialDeaths = 1
  Dir = {d1, d2}
  FirstDir = d1
  NoDir = NoDir
  VoiceCall = {v1, v2}
  MaxLoads = 2
  MaxVoiceCalls = 4
INVARIANT
  AskHolds
CHECK_DEADLOCK FALSE
