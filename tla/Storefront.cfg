SPECIFICATION StorefrontSpec
CONSTANTS
    i1 = i1
    i2 = i2
    s1 = s1
    s2 = s2
    NoItem = NoItem
    Items <- MCItems
    Slots <- MCSlots
    MaxQty = 2
    Carts <- MCCarts
SYMMETRY Symmetry
INVARIANTS
    ControlsAreSound
    ViewIsCurrent
    StrandedByFailure
