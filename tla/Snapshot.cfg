CONSTANTS
  a = a
  b = b
  c = c
  v1 = v1
  Keys = {a, b, c}
  Values = {v1}
  MaxList = 1
  KeyLists <- MCKeyLists
  EmptyKey = EmptyKey
  NoRoot = NoRoot
  NoValue = NoValue
  NoFile = NoFile
  Files <- MCFiles
SPECIFICATION SnapshotSpec
INVARIANTS
  LoadedWorksOn
  RoundTrips
  AcceptedIsSound
  AcceptedIsComplete
