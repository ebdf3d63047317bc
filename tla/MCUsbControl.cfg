SPECIFICATION Spec
CONSTANTS
    Requests <- MCRequests
    Addresses = {5}
    SetupBlocks = TRUE
    AbandonsAddress = FALSE
    BusSleeps = FALSE
INVARIANTS
    TypeOK
    AddressAgreement
    StateAgreement
    PipeReady
    RightAnswer
    KeyboardInSync
    NoStaleReport
PROPERTY IsControlTransfer
