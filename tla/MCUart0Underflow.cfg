SPECIFICATION Spec
CONSTANTS
    UsbMessages <- MCUsbMessages
    TmrMessages <- MCTmrMessages
    Readable <- MCReadable
    FifoSize = 2
    Byte = 3
INVARIANT StillDataToSend
