SPECIFICATION ConversationSpec
CONSTANTS
  api = api
  page = page
  first = first
  second = second
  Executor <- MCExecutor
  Reader <- MCReader
  NoOne = NoOne
  Kind = {"delta"}
  NoRef = NoRef
  Ref = {NoRef}
  MaxToken = 1
  MaxSeq = 2
  Submit <- MCSubmit
  MaxOther = 2
  MaxSends = 2
  MaxFrames = 2
  Place <- MCPlace
  FirstTree <- MCTree
  Configured <- MCConfigured
  Asks <- MCAsks
  ScanItems = 6
  ScanDepth = 2
  Swap <- MCSwap
  MaxSwaps = 2
  Click = {first, second}
  PreRoll = 1
  Shortest = 2
  MaxRecorders = 2
  MaxHeard = 4
INVARIANTS
  WindowInvariant
  QuestionInvariant
  FileScanInvariant
PROPERTY
  NothingHangs
CHECK_DEADLOCK FALSE
