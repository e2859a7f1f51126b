SPECIFICATION Spec
CONSTANTS
    MaxText = 34
    Fill = {0, 1, 16}
    CrcSizes = {4, 8}
INVARIANTS
    RoundTrip
    ShortExplained
CHECK_DEADLOCK FALSE
