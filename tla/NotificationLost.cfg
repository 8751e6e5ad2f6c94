SPECIFICATION Spec
CONSTANTS
    e1 = e1
    e2 = e2
    w1 = w1
    w2 = w2
    Events <- MCEvents
    Workers <- MCWorkers
    NChannels = 1
    MaxRetries = 0
    BatchSize = 1
    MaxEntries = 1
    MaxDeaths = 0
PROPERTY UnackedIsRedelivered
CHECK_DEADLOCK FALSE
