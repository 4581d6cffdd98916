------------------------------- MODULE OrderStore -------------------------------
(***************************************************************************)
(* The database of the order service and the repositories over it, as one  *)
(* in-flight HTTP request sees them.                                       *)
(*                                                                         *)
(* Every request runs in a task of its own with a session of its own       *)
(* (presentation/dependencies.py get_session), at READ COMMITTED.  A task  *)
(* gives way to the others at each await, that is at each round trip to    *)
(* PostgreSQL or to an HTTP service, so each action below is one round     *)
(* trip together with the code that runs up to the next one.  A flush and  *)
(* its COMMIT are one action: the UPDATE of the orders row comes first and *)
(* holds the row lock until the commit.                                    *)
(*                                                                         *)
(* pc[r] names the round trip that request r does next; the handlers in    *)
(* DraftUseCases, ConfirmSaga and PaymentUseCases say where each of the    *)
(* steps defined here continues.                                           *)
(***************************************************************************)
EXTENDS OrderDomain, Sequences

CONSTANTS
    Requests,      \* slots for requests in flight at the same time
    Orders,        \* order ids
    Customers,     \* customer ids
    Owner,         \* Owner[o]: the customer whose order o is or will be
    Products,      \* product ids of the catalog
    Prices,        \* prices, in cents, the catalog may quote
    ItemIds,       \* ids of order items
    Keys,          \* values of the Idempotency-Key header
    Nil,           \* absent header, field or id
    MaxRequests,   \* bound: requests begun in one behaviour
    MaxHidden,     \* bound: charges of an order behind an error answer of the gateway
    MaxCrashes     \* bound: crashes of the service in one behaviour

ASSUME StoreAssumption ==
    /\ IsFiniteSet(Requests)
    /\ Owner \in [Orders -> Customers]
    /\ Prices \subseteq Int
    /\ MaxRequests \in Nat /\ MaxHidden \in Nat /\ MaxCrashes \in Nat
    /\ Nil \notin Orders \cup Keys \cup Products \cup ItemIds

VARIABLES
    orders,        \* table orders: id -> row, status ABSENT when there is no row
    items,         \* table order_items: a set of rows
    payments,      \* table payments, by order (order_id is unique, rows are never deleted)
    idem,          \* table idempotency_keys: a set of rows
    saga,          \* table saga_instances, by order (order_id is unique)
    outbox,        \* table outbox_events: the set of its distinct rows
    queue,         \* SQS: how many messages of each type were sent for an order
    charges,       \* the payment gateway: the charges it took for an order
    pc,            \* the next round trip of a request
    req,           \* what the request asks for
    ord,           \* the Order entity the handler holds
    base,          \* the OrderModel its save compares with
    cached,        \* base is still alive in the session's identity map
    pay,           \* the Payment entity the handler holds
    sagaRow,       \* the saga row last selected
    stage,         \* how far a handler with several phases has come
    tries,         \* calls made to the payment gateway
    prev,          \* previous_status of InitiatePaymentUseCase
    reply,         \* the answer the client gets
    begun,         \* requests begun so far (bound)
    crashes,       \* crashes so far (bound)
    commits,       \* observer: committed effects, by the event that announces them
    settled        \* observer: the callbacks whose verdict was committed to the payment

dbVars     == <<orders, items, payments, idem, saga, outbox>>
worldVars  == <<queue, charges>>
boundVars  == <<begun, crashes>>
ghostVars  == <<commits, settled>>
orderLocal == <<ord, base, cached>>
flowLocal  == <<sagaRow, stage, tries, prev>>

vars == <<dbVars, worldVars, pc, req, orderLocal, pay, flowLocal, reply, boundVars, ghostVars>>

(***************************************************************************)
(* Rows and entities.                                                      *)
(***************************************************************************)
EventTypes ==
    {"ORDER_CONFIRMED", "ORDER_CANCELLED", "PAYMENT_INITIATED",
     "PAYMENT_APPROVED", "PAYMENT_REJECTED"}

Verdicts == {"APPROVED", "REJECTED"}

NoOrder   == [status |-> Absent, total |-> 0, attempts |-> 0, version |-> 0]
NoPayment == [status |-> Absent, key |-> Nil]
NoSaga    == [step |-> Absent, status |-> Absent]

InMemory(row, rows) ==
    [status |-> row.status, total |-> row.total, attempts |-> row.attempts,
     version |-> row.version, items |-> rows]

NoEntity == InMemory(NoOrder, {})

NoPaymentEntity ==
    [order |-> Nil, status |-> Absent, key |-> Nil, fresh |-> FALSE, loaded |-> Absent]

NoRequest ==
    [op |-> Nil, order |-> Nil, key |-> Nil, product |-> Nil, item |-> Nil,
     verdict |-> Nil, txn |-> 0]

Ids(rows) == {i.id : i \in rows}

\* The payload hash: sha256 of the order id, or of payment id, status and
\* transaction id for a callback; a payment is named by its order.
RequestHash(r) ==
    [order |-> req[r].order, verdict |-> req[r].verdict, txn |-> req[r].txn]

(***************************************************************************)
(* Control flow of one request.                                            *)
(***************************************************************************)
Goto(r, label) ==
    /\ pc' = [pc EXCEPT ![r] = label]
    /\ UNCHANGED reply

\* The handler raises or returns: kind is what the client is told.
Finish(r, kind) ==
    /\ pc' = [pc EXCEPT ![r] = "done"]
    /\ reply' = [reply EXCEPT ![r] = kind]

\* The session of a request ends with it, with everything it held.
EndSessions(S) ==
    /\ pc'      = [r \in Requests |-> IF r \in S THEN "idle" ELSE pc[r]]
    /\ req'     = [r \in Requests |-> IF r \in S THEN NoRequest ELSE req[r]]
    /\ ord'     = [r \in Requests |-> IF r \in S THEN NoEntity ELSE ord[r]]
    /\ base'    = [r \in Requests |-> IF r \in S THEN NoEntity ELSE base[r]]
    /\ cached'  = [r \in Requests |-> IF r \in S THEN FALSE ELSE cached[r]]
    /\ pay'     = [r \in Requests |-> IF r \in S THEN NoPaymentEntity ELSE pay[r]]
    /\ sagaRow' = [r \in Requests |-> IF r \in S THEN NoSaga ELSE sagaRow[r]]
    /\ stage'   = [r \in Requests |-> IF r \in S THEN "start" ELSE stage[r]]
    /\ tries'   = [r \in Requests |-> IF r \in S THEN 0 ELSE tries[r]]
    /\ prev'    = [r \in Requests |-> IF r \in S THEN Absent ELSE prev[r]]
    /\ reply'   = [r \in Requests |-> IF r \in S THEN "none" ELSE reply[r]]

\* A request arrives at a free slot; first names its first round trip.
Receive(r, request, first, firstStage) ==
    /\ pc[r] = "idle"
    /\ begun < MaxRequests
    /\ begun' = begun + 1
    /\ req' = [req EXCEPT ![r] = request]
    /\ pc' = [pc EXCEPT ![r] = first]
    /\ stage' = [stage EXCEPT ![r] = firstStage]
    /\ reply' = [reply EXCEPT ![r] = "ok"]
    /\ UNCHANGED <<dbVars, worldVars, orderLocal, pay, sagaRow, tries, prev, crashes, ghostVars>>

\* CustomerGateway.get_customer: an active customer, a CustomerValidationError,
\* or an exception of the HTTP client that nobody maps.
CustomerAnswers(r, next) ==
    \/ Goto(r, next)
    \/ Finish(r, "customer_validation_error")
    \/ Finish(r, "error")

\* A handler that gives up the compensation after the reload.
AfterLoad_NoRollback(r) ==
    CASE req[r].op = "cancel"   -> "cancel_payment"
      [] req[r].op = "callback" -> "apply"
      [] OTHER                  -> IF stage[r] = "compensating" THEN "done" ELSE "initiate"

\* Where the handler goes on after get_by_id of its order.
AfterLoad(r) ==
    CASE req[r].op = "add"      -> "product"
      [] req[r].op = "remove"   -> "remove"
      [] req[r].op = "cancel"   -> "cancel_payment"
      [] req[r].op = "callback" -> "apply"
      [] req[r].op = "confirm"  -> IF stage[r] = "replay" THEN "done" ELSE "saga_select"
      [] OTHER                  -> IF stage[r] = "compensating" THEN "restore" ELSE "initiate"

\* A confirmation whose customer is validated once the order is saved.
AfterOrderSave_ValidateLast(r) ==
    CASE req[r].op = "confirm"               -> "validate_customer"
      [] req[r].op \in {"cancel", "callback"} -> "send"
      [] req[r].op = "initiate"              -> IF stage[r] = "compensating" THEN "done" ELSE "gateway"
      [] OTHER                               -> "done"

\* A compensation that goes on to publish.
AfterOrderSave_Publish(r) ==
    CASE req[r].op = "confirm"                          -> "saga_select"
      [] req[r].op \in {"cancel", "callback"}           -> "send"
      [] req[r].op = "initiate" /\ stage[r] = "compensating" -> "send"
      [] req[r].op = "initiate"                         -> "gateway"
      [] OTHER                                          -> "done"

\* Where the handler goes on after order_repo.save.
AfterOrderSave(r) ==
    CASE req[r].op = "confirm"               -> "saga_select"
      [] req[r].op \in {"cancel", "callback"} -> "send"
      [] req[r].op = "initiate"              -> IF stage[r] = "compensating" THEN "done" ELSE "gateway"
      [] OTHER                               -> "done"

\* An initiate that records its key in place of its event.
AfterPaymentSave_KeyFirst(r) ==
    CASE req[r].op = "cancel"   -> "cancel"
      [] req[r].op = "callback" -> "select"
      [] OTHER                  -> IF req[r].key = Nil THEN "send" ELSE "idem_save"

\* A callback that saves the payment and forgets the order.
AfterPaymentSave_NoOrder(r) ==
    IF req[r].op = "cancel" THEN "cancel" ELSE "send"

\* Where the handler goes on after payment_repo.save.
AfterPaymentSave(r) ==
    CASE req[r].op = "cancel"   -> "cancel"
      [] req[r].op = "callback" -> "select"
      [] OTHER                  -> "send"

(***************************************************************************)
(* SqlAlchemyOrderRepository.get_by_id: the row and then, in a statement   *)
(* with a snapshot of its own, the items (selectinload).                   *)
(***************************************************************************)
LoadRow(r) ==
    /\ pc[r] = "load"
    /\ cached' = [cached EXCEPT ![r] = FALSE]
    /\ ord' = [ord EXCEPT ![r] = InMemory(orders[req[r].order], {})]
    /\ \/ orders[req[r].order].status # Absent /\ Goto(r, "load_items")
       \/ orders[req[r].order].status = Absent /\ Finish(r, "order_not_found")
    /\ UNCHANGED <<dbVars, worldVars, req, base, pay, flowLocal, boundVars, ghostVars>>

LoadItems(r) ==
    /\ pc[r] = "load_items"
    /\ ord' = [ord EXCEPT ![r].items = {i \in items : i.order = req[r].order}]
    /\ Goto(r, AfterLoad(r))
    /\ UNCHANGED <<dbVars, worldVars, req, base, cached, pay, flowLocal, boundVars, ghostVars>>

\* After an earlier save in the same session the OrderModel and its items refer
\* to each other, so the model stays in the identity map until the cycle is
\* collected; the SELECT then returns it without refreshing its attributes.
LoadCached(r) ==
    /\ pc[r] = "load"
    /\ cached[r]
    /\ ord' = [ord EXCEPT ![r] = base[r]]
    /\ Goto(r, AfterLoad(r))
    /\ UNCHANGED <<dbVars, worldVars, req, base, cached, pay, flowLocal, boundVars, ghostVars>>

(***************************************************************************)
(* SqlAlchemyOrderRepository.save of a loaded order: SELECT of the row, of *)
(* the items, the version check, then flush and COMMIT.                    *)
(***************************************************************************)
VersionMatches(b, o) == b.version = o.version - 1

\* The check raises ConcurrencyError before anything is written.
CheckVersion(r, b) ==
    \/ VersionMatches(b, ord[r]) /\ Goto(r, "commit")
    \/ ~VersionMatches(b, ord[r]) /\ Finish(r, "concurrency_conflict")

SaveSelect(r) ==
    /\ pc[r] = "select"
    /\ base' = [base EXCEPT ![r] = InMemory(orders[req[r].order], {})]
    /\ cached' = [cached EXCEPT ![r] = FALSE]
    /\ Goto(r, "select_items")
    /\ UNCHANGED <<dbVars, worldVars, req, ord, pay, flowLocal, boundVars, ghostVars>>

SaveCheck(r) ==
    /\ pc[r] = "select_items"
    /\ base' = [base EXCEPT ![r].items = {i \in items : i.order = req[r].order}]
    /\ CheckVersion(r, base[r])
    /\ UNCHANGED <<dbVars, worldVars, req, ord, cached, pay, flowLocal, boundVars, ghostVars>>

\* The SELECT of save returns the model the session still holds.
SaveCheckCached(r) ==
    /\ pc[r] = "select"
    /\ cached[r]
    /\ CheckVersion(r, base[r])
    /\ UNCHANGED <<dbVars, worldVars, req, orderLocal, pay, flowLocal, boundVars, ghostVars>>

\* total_amount is loaded as a Decimal and assigned as a float: an amount that
\* has no exact binary fraction compares as changed, unless an earlier save of
\* the session has left the float in the model that it holds.
ExactFloat(cents) == cents % 25 = 0

SameTotal(b, o, held) == o.total = b.total /\ (held \/ ExactFloat(o.total))

\* A save that leaves the version as it was.
WrittenRow_OldVersion(current, b, o, held) ==
    [status |-> o.status, total |-> o.total, attempts |-> o.attempts, version |-> current.version]

\* The unit of work writes the columns whose value differs from the loaded one
\* and leaves the others as they are in the row now.
WrittenRow(current, b, o, held) ==
    [status   |-> IF o.status # b.status THEN o.status ELSE current.status,
     total    |-> IF SameTotal(b, o, held) THEN current.total ELSE o.total,
     attempts |-> IF o.attempts # b.attempts THEN o.attempts ELSE current.attempts,
     version  |-> IF o.version # b.version THEN o.version ELSE current.version]

\* model.items is cleared and filled again: an item with the id of a loaded one
\* becomes an UPDATE of its row, the other loaded ones a DELETE, the rest an INSERT.
WrittenItems(b, o) ==
    {i \in items : i.id \notin Ids(b.items)}
        \cup {i \in o.items : i.id \notin Ids(b.items) \/ i.id \in Ids(items)}

\* An UPDATE of a row that is gone is noticed only when it is the only one of
\* the flush (the driver has no row count for several); an INSERT of an id that
\* is there violates the primary key.
FlushFails(b, o) ==
    LET kept == {i \in o.items : i.id \in Ids(b.items)}
    IN  \/ Cardinality(kept) = 1 /\ Ids(kept) \cap Ids(items) = {}
        \/ Ids(o.items \ kept) \cap Ids(items) # {}

\* The event that announces what an operation did.
EventFor(op, verdict) ==
    CASE op = "confirm" -> "ORDER_CONFIRMED"
      [] op = "cancel"  -> "ORDER_CANCELLED"
      [] op = "callback" /\ verdict = "APPROVED" -> "PAYMENT_APPROVED"
      [] op = "callback" /\ verdict # "APPROVED" -> "PAYMENT_REJECTED"
      [] OTHER          -> "PAYMENT_INITIATED"

EventOf(r) == EventFor(req[r].op, req[r].verdict)

Bump(f, r) == [f EXCEPT ![req[r].order][EventOf(r)] = @ + 1]

SaveCommit(r) ==
    /\ pc[r] = "commit"
    /\ ~FlushFails(base[r], ord[r])
    /\ orders' = [orders EXCEPT ![req[r].order] = WrittenRow(@, base[r], ord[r], cached[r])]
    /\ items' = WrittenItems(base[r], ord[r])
    /\ base' = [base EXCEPT ![r] = ord[r]]
    /\ cached' = [cached EXCEPT ![r] = ord[r].items # {}]
    /\ commits' = IF req[r].op \in {"confirm", "cancel", "callback"} THEN Bump(commits, r) ELSE commits
    /\ Goto(r, AfterOrderSave(r))
    /\ UNCHANGED <<payments, idem, saga, outbox, worldVars, req, ord, pay, flowLocal, boundVars, settled>>

SaveFails(r) ==
    /\ pc[r] = "commit"
    /\ FlushFails(base[r], ord[r])
    /\ Finish(r, "error")
    /\ UNCHANGED <<dbVars, worldVars, req, orderLocal, pay, flowLocal, boundVars, ghostVars>>

\* save of a new order (version 1): its id is fresh, so get_by_id finds nothing.
InsertOrder(r) ==
    /\ pc[r] = "insert"
    /\ orders' = [orders EXCEPT ![req[r].order] =
                     [status |-> "DRAFT", total |-> 0, attempts |-> 0, version |-> 1]]
    /\ Goto(r, AfterOrderSave(r))
    /\ UNCHANGED <<items, payments, idem, saga, outbox, worldVars, req, orderLocal, pay,
                   flowLocal, boundVars, ghostVars>>

(***************************************************************************)
(* SqlAlchemyPaymentRepository.save: SELECT by payment id, then INSERT or  *)
(* UPDATE of what differs from the loaded row.  There is no version check. *)
(***************************************************************************)
PaymentSelect(r) ==
    /\ pc[r] = "pay_select"
    /\ pay' = [pay EXCEPT ![r].loaded = IF pay[r].fresh THEN Absent ELSE payments[pay[r].order].status]
    /\ Goto(r, "pay_commit")
    /\ UNCHANGED <<dbVars, worldVars, req, orderLocal, flowLocal, boundVars, ghostVars>>

\* order_id and idempotency_key are unique columns.
PaymentClashes(p) ==
    \/ payments[p.order].status # Absent
    \/ \E o \in Orders : p.key # Nil /\ payments[o].key = p.key

WrittenPayment(current, p) ==
    IF p.fresh THEN [status |-> p.status, key |-> p.key]
    ELSE IF p.status # p.loaded THEN [current EXCEPT !.status = p.status]
    ELSE current

PaymentCommit(r) ==
    /\ pc[r] = "pay_commit"
    /\ ~(pay[r].fresh /\ PaymentClashes(pay[r]))
    /\ payments' = [payments EXCEPT ![pay[r].order] = WrittenPayment(@, pay[r])]
    /\ commits' = IF req[r].op = "initiate" THEN Bump(commits, r) ELSE commits
    /\ settled' = IF req[r].op # "callback" THEN settled
                  ELSE [settled EXCEPT ![pay[r].order] =
                           Append(@, [txn |-> req[r].txn, verdict |-> req[r].verdict, key |-> req[r].key])]
    /\ Goto(r, AfterPaymentSave(r))
    /\ UNCHANGED <<orders, items, idem, saga, outbox, worldVars, req, orderLocal, pay, flowLocal, boundVars>>

PaymentInsertFails(r) ==
    /\ pc[r] = "pay_commit"
    /\ pay[r].fresh
    /\ PaymentClashes(pay[r])
    /\ Finish(r, "error")
    /\ UNCHANGED <<dbVars, worldVars, req, orderLocal, pay, flowLocal, boundVars, ghostVars>>
================================================================================
