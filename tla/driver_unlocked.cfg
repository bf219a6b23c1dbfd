CONSTANTS
    UseMutex = FALSE
    Calls = {"recvfrom", "send", "waitPacketSent"}
    MaxFrames = 2
SPECIFICATION Spec
INVARIANT Coherent
INVARIANT CopyHasLength
PROPERTY ImplementsMailbox
CHECK_DEADLOCK FALSE
