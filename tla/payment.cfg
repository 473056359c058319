SPECIFICATION Spec
CONSTANTS
    Orders = {o1, o2}
    Cod = {o2}
    Calls = {c1, c2, c3, c4, c5, c6, c7}
    Captures = {c1}
    Setters = {c2, c3}
    Refunders = {c4, c5}
    Kinds <- ByGroup
    Stock = 1
    Total = 2
    NoOrder = NoOrder
    NoCall = NoCall
SYMMETRY Symmetry
CONSTRAINT Focus
INVARIANTS TypeOK StockIsConserved PaidIsBacked RefundedIsReturned ApprovedIsReturned RefundRecordedOnce
CHECK_DEADLOCK FALSE
