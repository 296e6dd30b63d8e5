SPECIFICATION Spec
CONSTANTS
    Requests <- MCRequests
    DEF_INIT_MARGIN <- NoMargin
    MaxSends = 4
INVARIANTS
    SampleMeasuresWire
    NoStrayAlarm
PROPERTIES
    BothEnd
