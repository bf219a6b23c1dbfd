CONSTANTS
    Node = {11, 22}
    Period = 1
    ZeroLead = {}
    JunkByte = {0}
    JunkFlag = {"other"}
    MaxStarts = 1
    MaxCrashes = 0
    MaxFaults = 0
SPECIFICATION Spec
PROPERTY AloneIsAlone
CHECK_DEADLOCK FALSE
