SPECIFICATION FairSpec
CONSTANTS
    Requests <- MCSessionRequests
    Addresses = {5}
    SetupBlocks = TRUE
    AbandonsAddress = FALSE
    BusSleeps = TRUE
INVARIANTS
    PipeReady
    ListensToHost
    StateAgreement
PROPERTY TransferEnds
