SPECIFICATION Spec
CONSTANTS
    Configs <- MCConfigs
    Breaking <- MCBreaking
    CreditMod = 4
    DISABLED_CQ_MOD_VALUE = 1
INVARIANTS
    NothingOverflows
    RunsDry

    
