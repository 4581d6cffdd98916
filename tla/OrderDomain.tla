------------------------------ MODULE OrderDomain ------------------------------
(***************************************************************************)
(* The order aggregate: statuses, guards and state changes of the entities *)
(* in order_service/domain.  Nothing here waits or touches a database;     *)
(* every operator is a pure function of an order.                          *)
(*                                                                         *)
(* An order held in memory is a record                                     *)
(*   [status, total, attempts, version, items]                             *)
(* whose items are a set of [id, order, product, qty, price] records.      *)
(* Left out: timestamps, currency (always BRL), the cancellation reason,   *)
(* and the customer, which is a fixed attribute of an order.  Amounts are  *)
(* integers in cents.                                                      *)
(***************************************************************************)
EXTENDS Integers, FiniteSets, FiniteSetsExt

OrderStatuses ==
    {"DRAFT", "CONFIRMED", "PAYMENT_PENDING", "PAYMENT_FAILED", "PAID", "CANCELLED"}

PaymentStatuses == {"PENDING", "APPROVED", "REJECTED", "VOID"}

\* A row that does not exist.
Absent == "ABSENT"

ActiveStatuses == {"DRAFT", "CONFIRMED", "PAYMENT_PENDING", "PAYMENT_FAILED"}

EditableStatuses == {"DRAFT"}

CancellableStatuses == {"DRAFT", "CONFIRMED", "PAYMENT_PENDING", "PAYMENT_FAILED"}

MaxPaymentAttempts == 3

\* unit_price of an item that has not been priced (None in the code).
NoPrice == -1

(***************************************************************************)
(* Guards of the entity.                                                   *)
(***************************************************************************)
CanEditItems(o) == o.status \in EditableStatuses

\* A confirmation that looks at the items alone.
CanConfirm_AnyStatus(o) == o.items # {}

CanConfirm(o) == o.status = "DRAFT" /\ o.items # {}

\* A cancellation of a paid order.
CanCancel_Paid(o) == o.status \in CancellableStatuses \cup {"PAID"}

CanCancel(o) == o.status \in CancellableStatuses

\* A payment that may start on a draft.
CanInitiatePayment_Draft(o) == o.status \in {"DRAFT", "CONFIRMED", "PAYMENT_FAILED"}

\* A payment that may start while another is awaited.
CanInitiatePayment_Pending(o) == o.status \in {"CONFIRMED", "PAYMENT_PENDING", "PAYMENT_FAILED"}

CanInitiatePayment(o) == o.status \in {"CONFIRMED", "PAYMENT_FAILED"}

AwaitsPayment(o) == o.status = "PAYMENT_PENDING"

(***************************************************************************)
(* State changes of the entity.                                            *)
(***************************************************************************)
NextVersion(o) == [o EXCEPT !.version = @ + 1]

\* add_item: the quantity of an item of the same product grows, otherwise an
\* item with a fresh id is appended.  A set of results: when a race left two
\* items of one product, the one found first depends on the row order.
AddItemTo(o, item) ==
    LET same == {i \in o.items : i.product = item.product}
    IN  IF same = {}
        THEN {[o EXCEPT !.items = @ \cup {item}]}
        ELSE {[o EXCEPT !.items = (@ \ {i}) \cup {[i EXCEPT !.qty = @ + item.qty]}] : i \in same}

RemoveItemFrom(o, id) == [o EXCEPT !.items = {i \in @ : i.id # id}]

\* A total that forgets the quantities.
CalculateTotal_OneEach(lineItems, prices) ==
    MapThenSumSet(LAMBDA i : prices[i.product], lineItems)

\* PricingService.calculate_total
CalculateTotal(lineItems, prices) ==
    MapThenSumSet(LAMBDA i : prices[i.product] * i.qty, lineItems)

\* A confirmation that leaves the items without their prices.
ConfirmWithPrices_TotalOnly(o, prices) ==
    [o EXCEPT !.total = CalculateTotal(o.items, prices), !.status = "CONFIRMED"]

\* confirm_with_prices
ConfirmWithPrices(o, prices) ==
    [o EXCEPT !.items  = {[i EXCEPT !.price = prices[i.product]] : i \in @},
              !.total  = CalculateTotal(o.items, prices),
              !.status = "CONFIRMED"]

MarkPaymentPending(o) == [o EXCEPT !.status = "PAYMENT_PENDING"]

ApplyApproved(o) == [o EXCEPT !.status = "PAID"]

\* Off by one: cancelled only after the limit was passed.
RejectedStatus_Late(attempts) ==
    IF attempts > MaxPaymentAttempts THEN "CANCELLED" ELSE "PAYMENT_FAILED"

RejectedStatus(attempts) ==
    IF attempts >= MaxPaymentAttempts THEN "CANCELLED" ELSE "PAYMENT_FAILED"

ApplyRejected(o) ==
    [o EXCEPT !.attempts = @ + 1, !.status = RejectedStatus(o.attempts + 1)]

CancelOrder(o) == [o EXCEPT !.status = "CANCELLED"]

\* A rollback to CONFIRMED whatever the order was before.
RestoreStatus_Confirmed(o, previous) == [o EXCEPT !.status = "CONFIRMED"]

RestoreStatus(o, previous) == [o EXCEPT !.status = previous]

(***************************************************************************)
(* domain/services/state_machine.py: the documented transition table.  The *)
(* handlers never consult it; the properties compare them with it.         *)
(***************************************************************************)
ValidTransitions ==
    [s \in OrderStatuses |->
        CASE s = "DRAFT"           -> {"CONFIRMED", "CANCELLED"}
          [] s = "CONFIRMED"       -> {"PAYMENT_PENDING", "CANCELLED"}
          [] s = "PAYMENT_PENDING" -> {"PAID", "PAYMENT_FAILED", "CANCELLED"}
          [] s = "PAYMENT_FAILED"  -> {"PAYMENT_PENDING", "CANCELLED"}
          [] OTHER                 -> {}]

CanTransition(from, to) == to \in ValidTransitions[from]
================================================================================
