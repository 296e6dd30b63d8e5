SPECIFICATION Spec
CONSTANTS
    Sizes = 2
    TotIters = 2
    UseEvent = {0, 1}
PROPERTIES
    SilenceNoticed
