\* A client reads orders, payments and the pages of a customer while a draft is
\* confirmed, paid and cancelled and another order is created, one request at a time
\* and with a crash.
SPECIFICATION QuerySpec
CONSTANTS
    o1 = o1
    p1 = p1
    Nil = Nil
    Requests = {r1}
    Orders = {o1, o2}
    Customers = {c1}
    Owner <- OneOwner
    Products = {p1}
    Prices = {990}
    ItemIds = {i1, i2, i3}
    Keys = {}
    MaxRequests = 3
    MaxHidden = 1
    MaxCrashes = 1
    Ops = {"create", "confirm", "cancel", "initiate", "callback"}
    Given <- DraftGiven
    GivenItem <- FirstItem
    GivenProduct = p1
    GivenPrice = 990
    PageSizes = {1, 2}
    MaxQueries = 1
INVARIANTS
    PaidShownWithApproval
    CancelledShownWithoutPending
    ShownTotalMatchesItems
    WalkMissesNothing
    WalkRepeatsNothing
