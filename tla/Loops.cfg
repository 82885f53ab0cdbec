CONSTANTS
  From = "a"
  To = "b"
  Keys = {"a", "b", "c", "d"}
  Values = {}
  KeyLists = {}
  EmptyKey = EmptyKey
  NoRoot = NoRoot
  NoValue = NoValue
  Base = 6
  Width = 2
  MaxFrame = 2
  MaxWrites = 3
  MaxForeign = 6
  MaxSource = 8
  Some = {0, 1, 5}
  Payloads <- MCPayloads
  Foreign <- MCForeign
  Sources <- MCSources
  Decodable <- MCDecodable
  Lists <- MCLists
CHECK_DEADLOCK FALSE
SPECIFICATION LoopsSpec
INVARIANTS
  FrontierKept
  SearchExact
  WorklistBounded
  StreamAccountedFor
  CutOffIsLost
  AcceptedIsExact
  WrittenIsAccepted
  CutOffIsRefused
PROPERTIES
  Terminates
  ImplementsChannel
  WrittenArrives
