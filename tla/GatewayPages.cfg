SPECIFICATION GatewaySpec
CONSTANTS
    i1 = i1
    g1 = g1
    g2 = g2
    a1 = a1
    Ids = {i1}
    Inputs <- MCMutations
    Processes <- MCProcesses
    Addresses <- MCAddresses
    RateWindow = 2
    AuthRateWindow = 3
    Max = 2
    AuthMax = 1
    LastTime = 3
INVARIANT MutationsPass
