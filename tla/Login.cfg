SPECIFICATION LoginSpec
CONSTANTS
    h1 = h1
    h2 = h2
    Handlers <- MCHandlers
    Threshold = 2
    Window = 3
    MaxTime = 6
SYMMETRY Symmetry
INVARIANTS
    LockIsSound
    GuessesAreBounded
PROPERTIES
    OnlyStaleLoginsShorten
