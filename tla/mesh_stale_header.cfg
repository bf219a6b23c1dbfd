SPECIFICATION Spec
CONSTANTS
    a = a
    b = b
    c = c
    Node = {a, b, c}
    Broadcast = Broadcast
    None = None
    Link <- Line
    Router = {a, b, c}
    MaxHops = 2
    Calls <- Again
INVARIANTS Discovered
CHECK_DEADLOCK FALSE
