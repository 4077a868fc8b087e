SPECIFICATION ConversationSpec
CONSTANTS
  api = api
  host = host
  page = page
  first = first
  second = second
  Executor <- MCExecutor
  Reader <- MCReader
  NoOne = NoOne
  Kind = {"delta"}
  NoRef = NoRef
  Ref = {NoRef}
  MaxToken = 2
  MaxSeq = 3
  Submit <- MCSubmit
  MaxOther = 2
  MaxSends = 2
  MaxFrames = 2
  Place <- MCPlace
  FirstTree <- MCTree
  Configured <- MCConfigured
  Asks <- MCAsks
  ScanItems = 6
  ScanDepth = 2
  Swap <- MCSwap
  MaxSwaps = 2
  Click = {first, second}
  PreRoll = 1
  Shortest = 2
  MaxRecorders = 2
  MaxHeard = 4
INVARIANT
  GrantIsUsed
CHECK_DEADLOCK FALSE
