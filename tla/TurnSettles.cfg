SPECIFICATION FairSpec
CONSTANTS
  api = api
  host = host
  host2 = host2
  look = look
  put = put
  ask = ask
  Executor <- ApiAndHost
  Api = api
  NoOne = NoOne
  Kind <- MCKind
  NoRef = NoRef
  Ref <- MCRef
  Call = {look, put, ask}
  NoCall = NoCall
  SafeCall = {look}
  AskCall = {ask}
  Answer <- WriteOnly
  MayCancel = FALSE
  MaxToken = 3
  MaxSeq = 9
  MaxSteps = 2
  MaxCount = 2
  MaxThought = 1
  MaxCrash = 1
PROPERTIES
  AtomicSpec
  AttemptSettles
CHECK_DEADLOCK FALSE
