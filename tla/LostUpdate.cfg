\* Two clients add different products to one draft at the same time.
SPECIFICATION Spec
CONSTANTS
    o1 = o1
    p1 = p1
    Nil = Nil
    Requests = {r1, r2}
    Orders = {o1}
    Customers = {c1}
    Owner <- OneOwner
    Products = {p1, p2}
    Prices = {990}
    ItemIds = {i1, i2, i3}
    Keys = {}
    MaxRequests = 2
    MaxHidden = 0
    MaxCrashes = 0
    Ops = {"add"}
    Given <- DraftGiven
    GivenItem <- FirstItem
    GivenProduct = p1
    GivenPrice = 990
PROPERTIES
    VersionCountsChanges
