CONSTANTS
    Node = {11, 22}
    Period = 1
    ZeroLead <- ReadingOfLowest
    JunkByte = {0}
    JunkFlag = {"other"}
    MaxStarts = 2
    MaxCrashes = 1
    MaxFaults = 2
SPECIFICATION FairSpec
INVARIANTS TypeOK OwesTurn EchoWhole Replicated
PROPERTY TurnEnds
CHECK_DEADLOCK FALSE
