SPECIFICATION SessionSpec
CONSTANTS
    c1 = c1
    c2 = c2
    p1 = p1
    p2 = p2
    NoPair = NoPair
    Calls <- MCCalls
    Pairs <- MCPairs
INVARIANTS
    RotationIsSound
PROPERTIES
    SuspensionBites
