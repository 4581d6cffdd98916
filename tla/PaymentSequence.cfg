\* One request at a time on a confirmed order: up to six payments, callbacks and
\* cancellations, which are enough for three rejections, with a crash between any
\* two steps and a charge behind an error answer of the gateway.
SPECIFICATION AnswerSpec
CONSTANTS
    o1 = o1
    p1 = p1
    Nil = Nil
    Requests = {r1}
    Orders = {o1}
    Customers = {c1}
    Owner <- OneOwner
    Products = {p1}
    Prices = {990}
    ItemIds = {i1, i2, i3}
    Keys = {}
    MaxRequests = 6
    MaxHidden = 1
    MaxCrashes = 1
    Ops = {"initiate", "callback", "cancel"}
    Given <- ConfirmedGiven
    GivenItem <- FirstItem
    GivenProduct = p1
    GivenPrice = 990
INVARIANTS
    ChargeAgainOnlyAfterRejectionOrError
    AttemptsCountRejections
    PendingPaymentIsAwaited
    ChargeCanBeRecorded
    RefusalRestoresOrder
    RefusalOpensNothing
    SuccessIsInTables
    ClientErrorLeavesSagaOnly
PROPERTIES
    ApprovalIsFinal
    StatusFollowsTable
