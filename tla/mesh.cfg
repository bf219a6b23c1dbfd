SPECIFICATION FairSpec
CONSTANTS
    a = a
    b = b
    c = c
    Node = {a, b, c}
    Broadcast = Broadcast
    None = None
    Link <- OneWay
    Router = {b, c}
    MaxHops = 2
    Calls <- Mixed
INVARIANTS TypeOK NextHopHeard Visited HandedOnce
PROPERTIES Settles
CHECK_DEADLOCK FALSE
