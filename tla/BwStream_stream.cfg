SPECIFICATION FairSpec
CONSTANTS
    NumQps = 1
    Configs <- OneQpConfigs
    CreditMod = 8
    Breaking <- BreakConfigs
    DISABLED_CQ_MOD_VALUE = 1
INVARIANTS
    CountsWhatCompleted
    QueuesFit
    ClockStopsAfterLast
    ArrivalHasBuffer
    NothingOutlivesRun
PROPERTIES
    Termination
    
