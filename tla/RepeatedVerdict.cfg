\* Payments and callbacks one at a time, without crashes: a callback fails at its
\* notification and is delivered again.
SPECIFICATION Spec
CONSTANTS
    o1 = o1
    p1 = p1
    Nil = Nil
    Requests = {r1}
    Orders = {o1}
    Customers = {c1}
    Owner <- OneOwner
    Products = {p1}
    Prices = {990}
    ItemIds = {i1, i2, i3}
    Keys = {k1}
    MaxRequests = 4
    MaxHidden = 0
    MaxCrashes = 0
    Ops = {"initiate", "callback"}
    Given <- ConfirmedGiven
    GivenItem <- FirstItem
    GivenProduct = p1
    GivenPrice = 990
INVARIANTS
    VerdictOncePerKey
