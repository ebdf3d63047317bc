SPECIFICATION FairSpec
CONSTANTS
    NumCols = 2
    NumRows = 1
    Full = 3
INVARIANTS
    TypeOK
    BrightnessKept
    LitFrame
PROPERTY ColumnsRefreshed
