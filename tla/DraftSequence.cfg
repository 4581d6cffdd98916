\* One request at a time on an empty database: up to six of the drafting
\* operations, confirm and cancel, on two orders of one customer, with one crash.
SPECIFICATION AnswerSpec
CONSTANTS
    o1 = o1
    p1 = p1
    Nil = Nil
    Requests = {r1}
    Orders = {o1, o2}
    Customers = {c1}
    Owner <- OneOwner
    Products = {p1, p2}
    Prices <- QuotedPrices
    ItemIds = {i1, i2, i3}
    Keys = {}
    MaxRequests = 6
    MaxHidden = 0
    MaxCrashes = 1
    Ops = {"create", "add", "remove", "confirm", "cancel"}
    Given <- NothingGiven
    GivenItem <- FirstItem
    GivenProduct = p1
    GivenPrice = 990
INVARIANTS
    OneActiveOrder
    TotalMatchesItems
    ClientErrorLeavesSagaOnly
PROPERTIES
    VersionCountsChanges
    StatusFollowsTable
