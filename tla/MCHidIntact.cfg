SPECIFICATION ConfiguredOnce
CONSTANTS
    ScanOrder <- MCTwoKeys
    ReportBehindKeys = TRUE
    NumSlots = 6
    MaxPasses = 2
INVARIANT MessageIntact
