CONSTANTS
  d1 = d1
  d2 = d2
  s1 = s1
  k1 = k1
  k2 = k2
  none = none
  Domains <- MCDomains
  Services <- MCServices
  Keys <- MCKeys
  NoKey = none
  MaxPublish <- MCMaxPublish
SPECIFICATION Spec
INVARIANT KeylessMessageHasNoKey
