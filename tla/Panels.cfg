SPECIFICATION Spec
CONSTANTS
    i1 = i1
    i2 = i2
    s1 = s1
    s2 = s2
    None = None
    Form = Form
    Items <- MCItems
    Slots <- MCSlots
SYMMETRY MCSymmetry
INVARIANTS
    ControlsAreSound
    MarksHaveRequests
    TextIsForItsRow
    PageIsCurrent
