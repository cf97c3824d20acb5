CONSTANTS
  o1 = o1
  o2 = o2
  a1 = a1
  a2 = a2
  null = null
  Objects <- MCObjects
  Associatives <- MCAssociatives
  Null = null
SPECIFICATION Spec
INVARIANT LinkComplete
