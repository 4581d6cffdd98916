-------------------------------- MODULE MCOrders --------------------------------
(***************************************************************************)
(* Instances of the order service for TLC.                                 *)
(***************************************************************************)
EXTENDS OrderRefinement, TLC

CONSTANTS o1, p1

\* All orders belong to one customer.
OneOwner == [o \in Orders |-> CHOOSE c \in Customers : TRUE]

\* o1 starts as the run needs it, any other order does not exist yet.
FirstOnly(given) == [o \in Orders |-> IF o = o1 THEN given ELSE "ABSENT"]

NothingGiven   == FirstOnly("ABSENT")
DraftGiven     == FirstOnly("DRAFT")
ConfirmedGiven == FirstOnly("CONFIRMED")
FailedGiven    == FirstOnly("PAYMENT_FAILED")

\* An item id for each order.
FirstItem == CHOOSE f \in [Orders -> ItemIds] : \A o, p \in Orders : f[o] = f[p] => o = p

\* The catalog answers with whatever it holds, a negative amount included.
QuotedPrices == {500, 990, -100}

Slots == Permutations(Requests)
================================================================================
