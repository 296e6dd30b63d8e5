SPECIFICATION Spec
CONSTANTS
  Configs <- MCConfigs
  SpinCheck = 1
  TailSlots = 2
INVARIANTS
  
  NothingMissed
  CorruptionReported
PROPERTY StopReturns
