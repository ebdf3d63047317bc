SPECIFICATION Spec
CONSTANTS
    Requests <- MCProtocolRequests
    Addresses = {5}
    SetupBlocks = TRUE
    AbandonsAddress = FALSE
    BusSleeps = FALSE
INVARIANTS
    ProtocolReadBack
