SPECIFICATION Spec
CONSTANTS
    Sizes = 3
    TotIters = 3
    UseEvent = {0, 1}
PROPERTIES
    GivesUpOnlyAfterSilence
    SilenceNoticedAtFirst
