SPECIFICATION FairSpec
CONSTANTS
    dle = dle
    stx = stx
    etx = etx
    me = me
    other = other
    DLE = dle
    STX = stx
    ETX = etx
    Plain = {me, other}
    Mine = {me}
    Fcs <- MCFcs
    Frame <- MCFrame
    PayloadLen = 2
    MaxLine = 0
    MaxFrames = 3
    MaxFaults = 2
INVARIANTS TypeOK
PROPERTIES ImplementsLink Recovers
CHECK_DEADLOCK FALSE
