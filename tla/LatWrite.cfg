SPECIFICATION Spec
CONSTANTS
    Sizes = 3
    Iters = 3
    ByteMod = 2
    TestTypes = {"ITERATIONS", "DURATION"}
    MaxSends = 4
INVARIANTS
    NoticedForReal
PROPERTIES
    ImplementsPingPong
    Termination
