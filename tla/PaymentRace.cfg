\* Two requests in flight on a confirmed order: three payments, callbacks and
\* cancellations, with and without a key, with one crash.
SPECIFICATION Spec
CONSTANTS
    o1 = o1
    p1 = p1
    Nil = Nil
    Requests = {r1, r2}
    Orders = {o1}
    Customers = {c1}
    Owner <- OneOwner
    Products = {p1}
    Prices = {990}
    ItemIds = {i1, i2, i3}
    Keys = {k1}
    MaxRequests = 3
    MaxHidden = 0
    MaxCrashes = 1
    Ops = {"initiate", "callback", "cancel"}
    Given <- ConfirmedGiven
    GivenItem <- FirstItem
    GivenProduct = p1
    GivenPrice = 990
SYMMETRY Slots
INVARIANTS
    PaidOnlyAfterApproval
    EventsFollowCommits
    PaymentBackedByCharge
    KeyRecordedAfterEffect
    AnsweredIsAnnounced
PROPERTIES
    MoneyTrailKept
