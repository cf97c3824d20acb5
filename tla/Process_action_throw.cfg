CONSTANTS
  f1 = f1
  f2 = f2
  lp = lp
  Listeners <- MCListeners
  ThreadSlots <- MCThreadSlots
  MaxUnits <- MCMaxUnits
  Throwing <- MCThrowing
  PreInit <- MCPreInit
  PostInit <- MCPostInit
  Contents <- MCContents
  ActionsMayThrow = TRUE
  HookThrowing <- MCHookThrowing
  MaxEvents <- MCMaxEvents
  MaxSignals <- MCMaxSignals
  InitialDisposition <- MCDispositions
SPECIFICATION Spec
INVARIANT ScheduleHooksPaired
