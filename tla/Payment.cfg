SPECIFICATION FairSpec
CONSTANTS
    Txns = {t1}
    Handlers = {h1, h2}
    NoCall = NoCall
    MaxUnheard = 2
INVARIANTS
    TypeOK
    ClaimIsSound
    EffectsHappenOnce
PROPERTIES
    SettledStays
    PaymentsEnd
CHECK_DEADLOCK FALSE
