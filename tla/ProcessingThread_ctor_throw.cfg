CONSTANTS
  l1 = l1
  l2 = l2
  Listeners <- MCListeners
  MaxSlots <- MCMaxSlots
  MaxUnits <- MCMaxUnits
  Throwing <- MCThrowingAll
SPECIFICATION PTSpec
INVARIANT MonitorOutcomeOnce
