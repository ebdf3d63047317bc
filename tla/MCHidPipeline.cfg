SPECIFICATION FairSpec
CONSTANTS
    ScanOrder <- MCTwoKeys
    ReportBehindKeys = TRUE
    NumSlots = 3
    MaxPasses = 1
INVARIANTS
    TypeOK
    HostUpToDate
PROPERTIES
    KeysReachHost
    IsReportLink
