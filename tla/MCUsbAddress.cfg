SPECIFICATION Spec
CONSTANTS
    Requests <- MCAddressRequests
    Addresses = {5}
    SetupBlocks = TRUE
    AbandonsAddress = TRUE
    BusSleeps = FALSE
PROPERTY AddressAfterStatus
