SPECIFICATION Spec
CONSTANTS
    e1 = e1
    e2 = e2
    w1 = w1
    w2 = w2
    Events <- MCEvents
    Workers <- MCWorkers
    NChannels = 2
    MaxRetries = 1
    BatchSize = 2
    MaxEntries = 2
    MaxDeaths = 1
INVARIANTS
    DeliveryIsSound
PROPERTIES
    DeliverySpec
    EntriesAreHandled
CHECK_DEADLOCK FALSE
