SPECIFICATION MCSpec
CONSTANTS
    everyone = everyone
    first = first
    CouponCodes = {everyone, first}
    FirstOrderOnly = {first}
    UsageLimit <- MCUsageLimit
    Customers = {u1}
    Checkouts = {x1, x2}
    MaxDiscounts = 3
    MaxDropped = 1
    NoCoupon = NoCoupon
    NoCustomer = NoCustomer
    Friends = {f1}
    Referrers = {r1, r2}
    Applications = {y1, y2}
    Rewards = {x1, x2}
    MaxLost = 1
    Nobody = Nobody
    SessionIds = {s1}
    Refreshes = {x1, x2}
    SignOuts = {y1, y2}
    MaxTokens = 3
    NoSession = NoSession
    Handlers = {x1, x2}
    Photos = {p1}
    MaxStarts = 1
    NoPhotos = NoPhotos
    Executions = {x1, x2}
    Riders = {y1, y2}
    MaxTasks = 3
    MaxLeaks = 1
    NoRider = NoRider
    InvoicedOrders = {o1}
    Generators = {x1, x2}
    MaxAttempts = 2
    MaxNumbers = 2
    MaxVersions = 2
    NoInvoice = NoInvoice
    NoOrderYet = NoOrderYet
SYMMETRY Symmetry
INVARIANTS ServiceTypeOK UsesAreBounded FriendPaidOnce SignedOutIsRefused EarnsOncePerStart OneActiveTask ShowsItsInvoice
CHECK_DEADLOCK FALSE
