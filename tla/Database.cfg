CONSTANTS
  a = a
  b = b
  n1 = n1
  n2 = n2
  v1 = v1
  Keys = {a, b}
  Values = {v1}
  Names = {n1, n2}
  Rooted <- MCRooted
  KeyLists <- MCKeyLists
  Foreign <- MCForeign
  EmptyKey = EmptyKey
  NoRoot = NoRoot
  NoValue = NoValue
  NoFile = NoFile
  NoStructure = NoStructure
SPECIFICATION Spec
CONSTRAINT LaxAlone
INVARIANTS
  ReadableIsSaved
  AnsweredSaveIsReadable
  AnswersForeseen
