SPECIFICATION CatalogSpec
CONSTANTS
    w1 = w1
    w2 = w2
    c1 = c1
    c2 = c2
    t1 = t1
    t2 = t2
    v1 = v1
    v2 = v2
    v3 = v3
    NoLock = NoLock
    NoDoc = NoDoc
    Transactions <- MCWorkers
    Consumers <- MCConsumers
    Texts <- MCTexts
    Reviews <- MCReviews
    Author <- MCAuthor
    BatchSize = 2
    MaxChanges = 3
INVARIANTS
    ReviewsAreSound
    IndexFollows
PROPERTIES
    IndexCatchesUp
CHECK_DEADLOCK FALSE
