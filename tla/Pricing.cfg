SPECIFICATION Spec
CONSTANTS
    w1 = w1
    w2 = w2
    Nobody = Nobody
    Blank = Blank
    Workers <- MCWorkers
    Requests <- MCRequests
    DraftQtys <- MCDraftQtys
    DraftPrices <- MCDraftPrices
    InexactPrices <- MCInexactPrices
    QTY_MAX = 2
    PRICE_MAX = 2
    BasePrice = 3
    MaxRows = 2
SYMMETRY Symmetry
INVARIANTS
    TypeOK
    NoIssueNoRefusal
PROPERTIES
    PreviewHolds
