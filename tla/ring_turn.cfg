CONSTANTS
    Node = {11, 22, 33}
    Period = 1
    ZeroLead = {}
    JunkByte = {0}
    JunkFlag = {"other"}
    MaxStarts = 1
    MaxCrashes = 1
    MaxFaults = 0
SPECIFICATION Spec
INVARIANT TurnTarget
PROPERTIES Evictions FourTries
CHECK_DEADLOCK FALSE
