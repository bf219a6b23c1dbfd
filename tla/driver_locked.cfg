CONSTANTS
    UseMutex = TRUE
    Calls = {"recvfrom", "available", "send", "waitPacketSent", "setModeRx"}
    MaxFrames = 1
SPECIFICATION LiveSpec
INVARIANT TypeOK
PROPERTY TxEnds
