SPECIFICATION Spec
CONSTANTS
    Txns = {t1}
    Handlers = {h1, h2}
    NoCall = NoCall
    MaxUnheard = 2
INVARIANTS
    FailedStaysPending
    AckedIsApplied
CHECK_DEADLOCK FALSE
