SPECIFICATION Spec
CONSTANTS
    NumQps = 1
    Configs <- ListCreditConfigs
    CreditMod = 16
    Breaking = {}
    DISABLED_CQ_MOD_VALUE = 1
INVARIANTS
    ArrivalHasBuffer
