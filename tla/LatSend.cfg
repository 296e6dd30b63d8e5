SPECIFICATION Spec
CONSTANTS
    Sizes = 3
    Iters = 4
    MaxSends = 4
    Configs <- LatConfigs
INVARIANTS
    ArrivalHasReceive
PROPERTIES
    ImplementsPingPong
    Termination
