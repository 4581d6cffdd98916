----------------------------- MODULE OrderSequence -----------------------------
(***************************************************************************)
(* What is true at every await when requests come one at a time: a handler *)
(* never works on an order that has changed since it was loaded, so each   *)
(* of its writes is the change it made of the stored order.  This is the   *)
(* inductive strengthening of the properties that OrderProperties states   *)
(* for one slot; crashes and failures of the other services are included.  *)
(* It rests on OrderInvariant and OrderWork.                               *)
(***************************************************************************)
EXTENDS OrderWork

\* There is one slot for requests in flight.
OneAtATime == \A r, s \in Requests : r = s

\* The order as get_by_id would return it now.
Stored(o) == InMemory(orders[o], ItemsOf(o))

\* At the start no customer has two orders.
OneGivenPerCustomer ==
    \A o, p \in Orders :
        Owner[o] = Owner[p] /\ Given[o] # "ABSENT" /\ Given[p] # "ABSENT" => o = p

(***************************************************************************)
(* The tables, also where a crash left a handler's work half done.         *)
(***************************************************************************)
ItemIdsUnique == \A i, j \in items : i.id = j.id => i = j

\* An order that was not inserted has nothing.
AbsentEmpty == \A o \in Orders : orders[o].status = Absent => orders[o] = NoOrder /\ ItemsOf(o) = {}

\* The statuses of an order beside its payment.
OrdersWith(paymentStatus) ==
    CASE paymentStatus = Absent     -> {Absent, "DRAFT", "CONFIRMED", "PAYMENT_PENDING", "CANCELLED"}
      [] paymentStatus = "PENDING"  -> {"PAYMENT_PENDING"}
      [] paymentStatus = "REJECTED" -> {"PAYMENT_PENDING", "PAYMENT_FAILED", "CANCELLED"}
      [] paymentStatus = "APPROVED" -> {"PAYMENT_PENDING", "PAID", "CANCELLED"}
      [] OTHER                      -> {"PAYMENT_PENDING", "CANCELLED"}

PaymentsFit == \A o \in Orders : orders[o].status \in OrdersWith(payments[o].status)

\* The order has no charge open but those behind an error answer.
AllRejected(o) == Cardinality(Undenied(o)) <= Rejections(o)

\* A charge may be undecided, or approved, only once the order has gone on to
\* wait for it.
NoChargeBefore ==
    \A o \in Orders : orders[o].status \in {Absent, "DRAFT", "CONFIRMED", "PAYMENT_FAILED"} => AllRejected(o)

SequenceTables ==
    /\ ItemIdsUnique /\ AbsentEmpty /\ PaymentsFit /\ NoChargeBefore
    /\ ChargeAgainOnlyAfterRejectionOrError /\ AttemptsCountRejections

(***************************************************************************)
(* The order a handler holds.                                              *)
(***************************************************************************)

\* Loaded, and not changed yet.
Reading(r) ==
    \/ pc[r] \in {"product", "remove", "validate_customer", "prices", "cancel_payment", "cancel",
                  "initiate", "restore", "apply"}
    \/ pc[r] \in {"saga_select", "saga_commit"} /\ stage[r] \in {"customer", "catalog"}
    \/ pc[r] \in {"pay_select", "pay_commit"} /\ req[r].op = "cancel"

\* Changed, and not committed yet.
Changing(r) ==
    \/ pc[r] \in {"select", "select_items", "commit"}
    \/ pc[r] \in {"pay_select", "pay_commit"} /\ req[r].op = "callback"

\* The one change that each handler makes of the order.
Change(r, before, after) ==
    CASE req[r].op \in {"add", "remove"} ->
            CanEditItems(before) /\ after = [NextVersion(before) EXCEPT !.items = after.items]
      [] req[r].op = "confirm" ->
            CanConfirm(before) /\ \E prices \in [ProductsOf(before) -> Prices] :
                                      after = ConfirmWithPrices(NextVersion(before), prices)
      [] req[r].op = "cancel" ->
            CanCancel(before) /\ after = CancelOrder(NextVersion(before))
      [] req[r].op = "initiate" /\ stage[r] # "compensating" ->
            /\ CanInitiatePayment(before) /\ prev[r] = before.status
            /\ after = MarkPaymentPending(NextVersion(before))
      [] req[r].op = "initiate" /\ stage[r] = "compensating" ->
            AwaitsPayment(before) /\ after = RestoreStatus(NextVersion(before), prev[r])
      [] OTHER ->
            /\ AwaitsPayment(before)
            /\ after = IF IsApproval(r) THEN ApplyApproved(NextVersion(before))
                       ELSE ApplyRejected(NextVersion(before))

\* The items it is going to write are the order's own.
ItemsOwned(r, o) ==
    /\ \A i \in ord[r].items : i.order = o
    /\ \A i, j \in ord[r].items : i.id = j.id => i = j
    /\ \A i \in ord[r].items, j \in items : i.id = j.id => j.order = o

EntityCurrent(r, o) ==
    /\ pc[r] = "load_items" => ord[r] = InMemory(orders[o], {})
    /\ Reading(r) => ord[r] = Stored(o)
    /\ Changing(r) => Change(r, Stored(o), ord[r]) /\ ItemsOwned(r, o)

\* save compares with the order as it is stored, whichever model it found.
BaseCurrent(r, o) ==
    /\ pc[r] = "select_items" => base[r] = InMemory(orders[o], {})
    /\ pc[r] = "commit" \/ cached[r] => base[r] = Stored(o)

(***************************************************************************)
(* The payment a handler holds, and what it waits for.                     *)
(***************************************************************************)

\* A callback settles the pending payment, and then the order waiting for it.
SettlingOK(r, o) ==
    req[r].op = "callback" =>
        /\ pc[r] \in {"load", "load_items", "apply", "pay_select", "pay_commit"} =>
              payments[o].status = "PENDING" /\ ~pay[r].fresh
        /\ pc[r] \in {"pay_select", "pay_commit"} => pay[r].status = req[r].verdict
        /\ pc[r] \in {"select", "select_items", "commit"} =>
              /\ payments[o].status = req[r].verdict
              /\ ~IsApproval(r) => AllRejected(o) /\ orders[o].attempts < Rejections(o)

\* A cancel voids the pending payment before it changes the order.
VoidingOK(r, o) ==
    req[r].op = "cancel" =>
        /\ pc[r] \in {"pay_select", "pay_commit"} =>
              payments[o].status = "PENDING" /\ ~pay[r].fresh /\ pay[r].status = "VOID"
        /\ pc[r] \in {"cancel", "select", "select_items", "commit"} => payments[o].status # "PENDING"

\* initiate has found the order ready for a payment and not charged it.
Initiated(r) ==
    /\ req[r].op = "initiate"
    /\ \/ pc[r] \in {"select", "select_items", "commit", "gateway"}
       \/ stage[r] = "compensating" /\ pc[r] \in {"load", "load_items", "restore"}

InitiatingOK(r, o) ==
    /\ Initiated(r) =>
          /\ prev[r] \in {"CONFIRMED", "PAYMENT_FAILED"}
          /\ payments[o].status = IF prev[r] = "CONFIRMED" THEN Absent ELSE "REJECTED"
          /\ pay[r].status = payments[o].status /\ ~pay[r].fresh
          /\ AllRejected(o)
    /\ Initiated(r) /\ pc[r] \notin {"select", "select_items", "commit"} =>
          AwaitsPayment(orders[o])
    /\ Opening(r) =>
          /\ AwaitsPayment(orders[o])
          /\ pay[r].status = "PENDING"
          /\ payments[o].status = IF pay[r].fresh THEN Absent ELSE "REJECTED"

\* The payment that save compares with is the stored one.
LoadedCurrent(r, o) ==
    pc[r] = "pay_commit" /\ ~pay[r].fresh => pay[r].loaded = payments[o].status

\* The session of a create holds no order, its order is not there, and its
\* customer has no active one when it is inserted.
CreatingOK(r, o) ==
    req[r].op = "create" =>
        /\ ~cached[r]
        /\ pc[r] \in {"customer", "active_check", "insert"} => orders[o].status = Absent
        /\ pc[r] = "insert" => ~HasActiveOrder(Owner[o])

\* The client is told of a refusal by the compensation alone, and after it.
RefusalKnown(r, o) ==
    reply[r] = "payment_gateway_error" =>
        /\ req[r].op = "initiate" /\ stage[r] = "compensating"
        /\ pc[r] \in {"load", "load_items", "restore", "select", "select_items", "commit", "done"}
        /\ pc[r] = "done" => orders[o].status = prev[r]

HandlerOK(r, o) ==
    /\ EntityCurrent(r, o) /\ BaseCurrent(r, o)
    /\ SettlingOK(r, o) /\ VoidingOK(r, o) /\ InitiatingOK(r, o) /\ LoadedCurrent(r, o)
    /\ CreatingOK(r, o) /\ RefusalKnown(r, o)

SequenceSession(r) ==
    /\ pc[r] = "idle" => ~cached[r]
    /\ \A o \in Orders : req[r].order = o => HandlerOK(r, o)

IndSequence == SequenceTables /\ \A r \in Requests : SequenceSession(r)

(***************************************************************************)
(* What the mapping of OrderRefinement to OrderLifecycle rests on: between *)
(* the commits of a handler nothing can end it but its next one, because   *)
(* initiate either opens the payment or compensates, and a cancel or a     *)
(* callback that has saved the payment can still change the order.         *)
(***************************************************************************)
BetweenCommits(r, o) ==
    /\ stage[r] = "compensating" => reply[r] = "payment_gateway_error"
    /\ Opening(r) => prev[r] \in {"CONFIRMED", "PAYMENT_FAILED"}
    /\ req[r].op = "callback" /\ pc[r] \in {"select", "select_items", "commit"} =>
          pay[r].status # Absent
    /\ req[r].op = "cancel" =>
          /\ pc[r] \in {"load", "load_items", "cancel_payment"} => pay[r].status = Absent
          /\ pc[r] \in {"cancel", "select", "select_items", "commit"} /\ pay[r].status # Absent =>
                payments[o].status = "VOID" /\ AwaitsPayment(orders[o])

CommitsJoin ==
    \A r \in Requests, o \in Orders : req[r].order = o => BetweenCommits(r, o)

(***************************************************************************)
(* What the tables hold once a handler has made its last commit of order   *)
(* and payment, up to the answer: the strengthening of SuccessIsInTables.  *)
(***************************************************************************)
Announcing(r) == pc[r] \in {"send", "outbox_commit", "notify", "idem_save"}

Answering(r) == pc[r] = "done" /\ reply[r] = "ok"

CancelStored(r, o) ==
    req[r].op = "cancel" /\ (Announcing(r) \/ Answering(r)) =>
        orders[o].status = "CANCELLED" /\ payments[o].status # "PENDING"

PaymentStored(r, o) ==
    req[r].op = "initiate" /\ (Announcing(r) \/ (Answering(r) /\ req[r].key = Nil)) =>
        orders[o].status = "PAYMENT_PENDING" /\ payments[o].status = "PENDING"

VerdictStored(r, o) ==
    req[r].op = "callback" /\ (Announcing(r) \/ (Answering(r) /\ Published(r))) =>
        /\ payments[o].status = req[r].verdict
        /\ orders[o].status \in IF req[r].verdict = "APPROVED" THEN {"PAID"} ELSE {"PAYMENT_FAILED", "CANCELLED"}

EarlierVerdict(r, o) ==
    req[r].op = "callback" /\ stage[r] = "start" /\ Answering(r) =>
        payments[o].status \notin {Absent, "PENDING"}

RequestStored(r, o) ==
    CancelStored(r, o) /\ PaymentStored(r, o) /\ VerdictStored(r, o) /\ EarlierVerdict(r, o)

WorkStored == \A r \in Requests, o \in Orders : req[r].order = o => RequestStored(r, o)

(***************************************************************************)
(* Totals: a draft has no prices, and a confirmed order has all of them.   *)
(* Only an order whose total is the sum of its lines is saved as confirmed,*)
(* and no handler changes the items or the total afterwards.               *)
(***************************************************************************)
Unpriced(rows) == \A i \in rows : i.price = NoPrice

Priced(e) ==
    /\ e.items # {}
    /\ \A i \in e.items : i.price # NoPrice
    /\ e.total = LineTotal(e.items)

StoredTotal(o) ==
    /\ IsFiniteSet(ItemsOf(o))
    /\ orders[o].status \in {Absent, "DRAFT"} =>
          orders[o].total = 0 /\ Unpriced(ItemsOf(o)) /\ ~EverConfirmed(o)
    /\ EverConfirmed(o) => Priced(Stored(o))

\* What a handler that changes the items or the total is going to save.
HeldTotal(r) ==
    pc[r] \in {"select", "select_items", "commit"} /\ req[r].op \in {"add", "remove", "confirm"} =>
        /\ IsFiniteSet(ord[r].items)
        /\ req[r].op = "confirm" => Priced(ord[r])
        /\ req[r].op # "confirm" => Unpriced(ord[r].items)

IndTotal ==
    /\ \A o \in Orders : StoredTotal(o)
    /\ \A r \in Requests : HeldTotal(r)
================================================================================
