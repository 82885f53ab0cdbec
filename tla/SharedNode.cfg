CONSTANTS
  a = a
  b = b
  c = c
  a1 = a1
  a2 = a2
  b1 = b1
  b2 = b2
  c1 = c1
  s1 = s1
  s2 = s2
  v1 = v1
  Keys = {a, b}
  Values = {v1}
  Owners = {s1, s2}
  Handles = {a1, a2, b1, b2}
  KeyOf <- TwoKeysOf
  NoHandle = NoHandle
  PassesAgain = TRUE
  MaxList = 1
  KeyLists <- MCKeyLists
  EmptyKey = EmptyKey
  NoRoot = NoRoot
  NoValue = NoValue
SPECIFICATION Spec
INVARIANTS
  SavedLoads
