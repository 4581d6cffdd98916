\* Two requests in flight while a draft is edited, confirmed and paid, with and
\* without a key.
SPECIFICATION Spec
CONSTANTS
    o1 = o1
    p1 = p1
    Nil = Nil
    Requests = {r1, r2}
    Orders = {o1}
    Customers = {c1}
    Owner <- OneOwner
    Products = {p1}
    Prices = {990}
    ItemIds = {i1, i2, i3}
    Keys = {k1}
    MaxRequests = 3
    MaxHidden = 0
    MaxCrashes = 0
    Ops = {"add", "remove", "confirm", "initiate"}
    Given <- DraftGiven
    GivenItem <- FirstItem
    GivenProduct = p1
    GivenPrice = 990
SYMMETRY Slots
INVARIANTS
    EventsFollowCommits
    ChargedOnlyIfConfirmed
    SagaCompletedIfConfirmed
    KeyRecordedAfterEffect
    AnsweredIsAnnounced
PROPERTIES
    MoneyTrailKept
