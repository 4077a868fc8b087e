SPECIFICATION FairSpec
CONSTANTS
  api = api
  host = host
  host2 = host2
  look = look
  put = put
  ask = ask
  Executor <- ApiAlone
  Api = api
  NoOne = NoOne
  Kind <- MCKind
  NoRef = NoRef
  Ref <- MCRef
  Call = {look, put, ask}
  NoCall = NoCall
  SafeCall = {look}
  AskCall = {ask}
  Answer <- Batches
  MayCancel = TRUE
  MaxToken = 3
  MaxSeq = 14
  MaxSteps = 2
  MaxCount = 4
  MaxThought = 1
  MaxCrash = 0
PROPERTY
  CancelIsCarriedOut
CHECK_DEADLOCK FALSE
