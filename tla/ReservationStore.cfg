SPECIFICATION FairSpec
CONSTANTS
    Products = {p1, p2}
    Reservations = {r1, r2}
    Quantities = {1, 2}
    StockLevels = {1, 2}
    Ttl = 2
    MaxRenewals = 1
    Skew = 1
    NoHash = NoHash
INVARIANTS
    TypeOK
    HoldsAreConsistent
PROPERTIES
    ScriptsNeverOversell
    LedgerSpec
    EveryHoldEnds
