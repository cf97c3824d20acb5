CONSTANTS
  l1 = l1
  l2 = l2
  Listeners <- MCListeners
  MaxSlots <- MCMaxSlots
  MaxUnits <- MCMaxUnits
  Throwing <- MCThrowingAtCompletion
SPECIFICATION PTSpec
INVARIANT MonitorOutcomeOnce
INVARIANT ListenersAgreeWithMonitor
PROPERTY MonitorProtocolRefined
