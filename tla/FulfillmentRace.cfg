SPECIFICATION Spec
CONSTANTS
    s1 = s1
    s2 = s2
    p1 = p1
    p2 = p2
    w1 = w1
    w2 = w2
    SubOrders <- OneSubOrder
    Products <- TwoProducts
    Lines <- OneUnitEach
    StockLevels = {1}
    Workers <- TwoRequests
    Nobody = Nobody
    NoSubOrder = NoSubOrder
    NoCall = NoCall
PROPERTIES
    StatusFollowsGraph
    CancelRestoresUnits
