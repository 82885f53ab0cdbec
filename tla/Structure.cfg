CONSTANTS
  k1 = k1
  k2 = k2
  k3 = k3
  k4 = k4
  v1 = v1
  Keys = {k1, k2, k3, k4}
  Values = {v1}
  MaxList = 2
  KeyLists <- MCKeyLists
  EmptyKey = EmptyKey
  NoRoot = NoRoot
  NoValue = NoValue
SYMMETRY MCSymmetry
SPECIFICATION Spec
INVARIANTS
  TypeOK
  LinksConsistent
  Acyclic
  BookkeepingExact
  SemiStrictRelated
  VerdictsExact
PROPERTIES
  SemiStrictNeverShrinksBelowTwo
  ImplementsDagStore
