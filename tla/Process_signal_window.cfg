CONSTANTS
  f1 = f1
  f2 = f2
  lp = lp
  Listeners <- MCListeners
  ThreadSlots <- MCThreadSlots
  MaxUnits <- MCMaxUnits
  Throwing <- MCThrowing
  PreInit <- MCPreInit
  PostInit <- MCPostInit
  Contents <- MCContents
  ActionsMayThrow = FALSE
  HookThrowing <- MCHookThrowing
  MaxEvents <- MCMaxEvents
  MaxSignals <- MCMaxSignals
  InitialDisposition <- MCDispositionsDefault
SPECIFICATION Spec
PROPERTY SignalTakesEffect
