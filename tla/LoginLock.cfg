SPECIFICATION LoginSpec
CONSTANTS
    h1 = h1
    h2 = h2
    Handlers <- MCHandlers
    Threshold = 2
    Window = 2
    MaxTime = 5
SYMMETRY Symmetry
PROPERTY LockIsKept
