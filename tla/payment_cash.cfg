SPECIFICATION Spec
CONSTANTS
    Orders = {o1, o2}
    Cod = {o1, o2}
    Calls = {c1}
    Captures = {}
    Setters = {c1}
    Refunders = {}
    Kinds <- ByGroup
    Stock = 1
    Total = 2
    NoOrder = NoOrder
    NoCall = NoCall
INVARIANT CashOrderHasItsUnit
CHECK_DEADLOCK FALSE
