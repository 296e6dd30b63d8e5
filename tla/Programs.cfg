SPECIFICATION Spec
CONSTANTS
  Configs <- MCConfigs
  MaxFaults = 1
INVARIANTS
  
  TeardownInOrder
  NothingLeftBehind
  
  ReceivesPosted
  CleanRunSucceeds
  SuccessMeansMeasured

  
CHECK_DEADLOCK FALSE
VIEW View
