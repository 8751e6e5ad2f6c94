SPECIFICATION Spec
CONSTANTS
    Retailers = {u1}
    Products = {p1}
    Items = {i1, i2}
    Orders = {o1, o2}
    Reservations = {r1, r2, r3, r4}
    Quantities = {1, 2}
    StockLevels = {2}
    Workers = {w1, w2}
    NoRow = NoRow
    NoCall = NoCall
SYMMETRY Symmetry
INVARIANTS
    HoldsAreSound
    HoldsAreOwned
    OrderedLinesLeaveCart
CHECK_DEADLOCK FALSE
