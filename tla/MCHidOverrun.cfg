SPECIFICATION RefreshingSpec
CONSTANTS
    ScanOrder <- MCOneKey
    ReportBehindKeys = TRUE
    NumSlots = 6
    MaxPasses = 2
PROPERTY NewDataPushed
