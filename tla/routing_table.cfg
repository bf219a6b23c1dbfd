CONSTANTS
    Size = 3
    Dest = {d0, d1, d2, d3}
    Hop = {h1, h2}
    NoHop = NoHop
SPECIFICATION Spec
INVARIANT FirstWins
PROPERTY ImplementsMap
PROPERTY ActsAsMap
