CONSTANTS
    UseMutex = FALSE
    Calls = {"recvfrom", "send", "waitPacketSent"}
    MaxFrames = 2
SPECIFICATION LiveSpec
PROPERTY TxEnds
CHECK_DEADLOCK FALSE
