SPECIFICATION FairSpec
CONSTANTS
    UsbMessages <- MCUsbMessages
    TmrMessages <- MCTmrMessages
    Readable <- MCReadable
    FifoSize = 1
    Byte = 3
INVARIANTS
    TypeOK
    Delivered
    NotStalled
PROPERTY ComesToRest
