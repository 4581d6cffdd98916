---------------------------- MODULE OrderProperties ----------------------------
(***************************************************************************)
(* What the order service promises.  The first group holds under every     *)
(* interleaving and crash; the second when requests come one at a time     *)
(* (one slot), crashes and failures of the other services included; the    *)
(* last states what documents and tests of the repository say and the code *)
(* does not keep.                                                          *)
(***************************************************************************)
EXTENDS OrderService

Row == [status : OrderStatuses \cup {Absent}, total : Nat, attempts : Nat, version : Nat]

ItemRow ==
    [id : ItemIds, order : Orders, product : Products, qty : Nat, price : Nat \cup {NoPrice}]

Entity ==
    [status : OrderStatuses \cup {Absent}, total : Nat, attempts : Nat, version : Nat,
     items : SUBSET ItemRow]

OpNames == {"create", "add", "remove", "confirm", "cancel", "initiate", "callback"}

Request ==
    [op : OpNames, order : Orders, key : Keys \cup {Nil}, product : Products \cup {Nil},
     item : ItemIds \cup {Nil}, verdict : Verdicts \cup {Nil}, txn : Nat]

PaymentEntity ==
    [order : Orders \cup {Nil}, status : PaymentStatuses \cup {Absent}, key : Keys \cup {Nil},
     fresh : BOOLEAN, loaded : PaymentStatuses \cup {Absent}]

SagaRow ==
    [step : {Absent, "VALIDATE_CUSTOMER", "VALIDATE_CATALOG", "PERSIST_CONFIRMED"},
     status : {Absent, "RUNNING", "FAILED", "COMPENSATED", "COMPLETED"}]

Labels ==
    {"idle", "done", "load", "load_items", "select", "select_items", "commit", "insert",
     "pay_select", "pay_commit", "idem_get", "idem_save", "send", "outbox_commit", "notify",
     "customer", "active_check", "product", "remove", "saga_select", "saga_commit",
     "validate_customer", "prices", "cancel_payment", "cancel", "pay_by_key", "initiate",
     "gateway", "restore", "pay_load", "apply"}

Stages ==
    {"start", "replay", "compensating", "sent", "unsent",
     "customer", "customer_failed", "catalog", "catalog_failed", "persisted"}

Replies ==
    {"none", "ok", "error", "order_not_found", "item_not_found", "payment_not_found",
     "customer_validation_error", "catalog_validation_error", "invalid_order_state",
     "active_order_exists", "concurrency_conflict", "idempotency_conflict",
     "payment_gateway_error"}

Hash == [order : Orders, verdict : Verdicts \cup {Nil}, txn : Nat]

DatabaseOK ==
    /\ orders \in [Orders -> Row]
    /\ items \subseteq ItemRow
    /\ payments \in [Orders -> [status : PaymentStatuses \cup {Absent}, key : Keys \cup {Nil}]]
    /\ saga \in [Orders -> SagaRow]
    /\ idem \subseteq [key : Keys, op : {"confirm", "initiate", "callback"}, hash : Hash]
    /\ outbox \subseteq [order : Orders, type : EventTypes, published : BOOLEAN]

WorldOK ==
    /\ queue \in [Orders -> [EventTypes -> Nat]]
    /\ commits \in [Orders -> [EventTypes -> Nat]]
    /\ charges \in [Orders -> Seq([verdict : Verdicts, key : Keys \cup {Nil}, hidden : BOOLEAN])]
    /\ settled \in [Orders -> Seq([txn : Nat, verdict : Verdicts, key : Keys \cup {Nil}])]
    /\ begun \in Nat /\ crashes \in Nat

LocalsOK ==
    /\ pc \in [Requests -> Labels]
    /\ req \in [Requests -> Request \cup {NoRequest}]
    /\ ord \in [Requests -> Entity] /\ base \in [Requests -> Entity]
    /\ cached \in [Requests -> BOOLEAN]
    /\ pay \in [Requests -> PaymentEntity]
    /\ sagaRow \in [Requests -> SagaRow]
    /\ stage \in [Requests -> Stages]
    /\ tries \in [Requests -> 0 .. MaxGatewayCalls - 1]
    /\ prev \in [Requests -> OrderStatuses \cup {Absent}]
    /\ reply \in [Requests -> Replies]

\* Every variable has the shape the tables, the entities and the handlers give it.
TypeOK == DatabaseOK /\ WorldOK /\ LocalsOK

(***************************************************************************)
(* Under every interleaving, failure and crash.                            *)
(***************************************************************************)

\* An order is PAID only after a callback's approval was committed to its
\* payment, and that approval is the gateway's verdict on a charge it accepted:
\* PaymentCallbackUseCase saves the payment before the order, and no stale
\* write of another handler makes an order PAID.
PaidOnlyAfterApproval ==
    \A o \in Orders : orders[o].status = "PAID" =>
        \E i \in DOMAIN settled[o] :
            /\ settled[o][i].verdict = "APPROVED"
            /\ settled[o][i].txn \in DOMAIN charges[o]
            /\ charges[o][settled[o][i].txn].verdict = "APPROVED"

\* Every message in SQS and every outbox row speaks of an effect that was
\* committed, and no effect is announced more often than it happened: publish
\* comes after the commit of the order or payment and is never retried.
EventsFollowCommits ==
    \A o \in Orders, e \in EventTypes :
        /\ queue[o][e] <= commits[o][e]
        /\ (\E row \in outbox : row.order = o /\ row.type = e) => commits[o][e] > 0

\* The gateway is asked for money only for an order that has been confirmed,
\* however confirm, cancel, initiate and the drafting operations overlap.
ChargedOnlyIfConfirmed ==
    \A o \in Orders : charges[o] # <<>> => commits[o]["ORDER_CONFIRMED"] > 0

\* The service opens a payment no more often than the gateway took a charge for
\* it: a payment is saved only after initiate_payment of the gateway returned.
PaymentBackedByCharge ==
    \A o \in Orders : commits[o]["PAYMENT_INITIATED"] <= Len(charges[o])

EffectOf(k) ==
    /\ commits[k.hash.order][EventFor(k.op, k.hash.verdict)] > 0
    /\ k.op = "callback" => \E i \in DOMAIN settled[k.hash.order] :
                               /\ settled[k.hash.order][i].txn = k.hash.txn
                               /\ settled[k.hash.order][i].key = k.key

\* An event of this type is in the outbox for the order.
Filed(o, type) == \E row \in outbox : row.order = o /\ row.type = type

\* A recorded idempotency key stands for work that is done: the key is saved
\* after the effect was committed and after the event of that operation was put
\* in the outbox, so a repeated request that is answered from the key loses nothing.
KeyRecordedAfterEffect ==
    \A k \in idem : EffectOf(k) /\ Filed(k.hash.order, EventFor(k.op, k.hash.verdict))

\* The handler has been through publish: it did the work itself, instead of
\* answering from a key or with what an earlier request had done.
Published(r) == stage[r] \in {"sent", "unsent"}

\* Nobody is told of a success whose event is lost: whatever became of the send,
\* the request that did the work leaves a row of its type in the outbox before it
\* answers, and a row that says published stands for a message that is in SQS.
AnsweredIsAnnounced ==
    /\ \A r \in Requests :
          pc[r] = "done" /\ reply[r] = "ok" /\ Published(r) => Filed(req[r].order, EventOf(r))
    /\ \A row \in outbox : row.published => queue[row.order][row.type] > 0

\* The saga row says COMPLETED only for an order that was confirmed, although
\* two sagas of one order write the row's two columns independently.
SagaCompletedIfConfirmed ==
    \A o \in Orders : saga[o].status = "COMPLETED" => commits[o]["ORDER_CONFIRMED"] > 0

(***************************************************************************)
(* One request at a time, with crashes between any two of its steps and    *)
(* with every failure of the other services.                               *)
(***************************************************************************)

ItemsOf(o) == {i \in items : i.order = o}

\* Every change of an order or of its items raises the version by one (ADR-005),
\* so a client that compares versions misses no change.
VersionCountsChanges ==
    [][\A o \in Orders :
          orders'[o] # orders[o] \/ ItemsOf(o)' # ItemsOf(o) =>
              orders'[o].version = orders[o].version + 1]_vars

\* The status moves along VALID_TRANSITIONS of state_machine.py, apart from the
\* rollback of InitiatePaymentUseCase to the status it found.
StatusFollowsTable ==
    [][\A o \in Orders :
          LET from == orders[o].status
              to   == orders'[o].status
          IN  from # to => \/ from = Absent /\ to = "DRAFT"
                           \/ from # Absent /\ CanTransition(from, to)
                           \/ from = "PAYMENT_PENDING" /\ \E r \in Requests : stage[r] = "compensating" /\ to = prev[r]]_vars

\* A customer has at most one active order (has_active_order before the insert,
\* and no way back from CANCELLED or PAID).
OneActiveOrder ==
    \A o, p \in Orders :
        /\ Owner[o] = Owner[p]
        /\ {orders[o].status, orders[p].status} \cap {Absent, "PAID", "CANCELLED"} = {}
        => o = p

LineTotal(rows) == MapThenSumSet(LAMBDA i : i.price * i.qty, rows)

\* Prices are fixed at confirmation and the stored total is the sum of the
\* stored items: a draft has no prices and a confirmed order has all of them.
TotalMatchesItems ==
    \A o \in Orders :
        /\ orders[o].status = "DRAFT" =>
              orders[o].total = 0 /\ \A i \in ItemsOf(o) : i.price = NoPrice
        /\ commits[o]["ORDER_CONFIRMED"] > 0 =>
              /\ ItemsOf(o) # {}
              /\ \A i \in ItemsOf(o) : i.price # NoPrice
              /\ orders[o].total = LineTotal(ItemsOf(o))

\* Rejections committed to the payment, a verdict that was delivered twice included.
Rejections(o) == Cardinality({i \in DOMAIN settled[o] : settled[o][i].verdict = "REJECTED"})

\* Charges that the gateway did not deny: it accepted them, or its answer was lost.
Undenied(o) == {n \in DOMAIN charges[o] : ~charges[o][n].hidden}

\* But for charges behind an error answer, which the code takes for charges not
\* made, the gateway charges an order again only after a rejection was committed:
\* no chain of lost answers, retries, refusals and crashes adds one before that.
ChargeAgainOnlyAfterRejectionOrError ==
    \A o \in Orders : Cardinality(Undenied(o)) <= Rejections(o) + 1

\* payment_attempts never overtakes the rejections that were committed, and the
\* third one cancels the order in the same write.
AttemptsCountRejections ==
    \A o \in Orders :
        /\ orders[o].attempts <= Rejections(o)
        /\ orders[o].attempts <= MaxPaymentAttempts
        /\ orders[o].attempts = MaxPaymentAttempts => orders[o].status = "CANCELLED"

\* A payment waits for the gateway only while its order does, whichever of the
\* two a crash left unsaved.
PendingPaymentIsAwaited ==
    \A o \in Orders : payments[o].status = "PENDING" => orders[o].status = "PAYMENT_PENDING"

\* The gateway is called only when the answer can be recorded: the order has no
\* payment yet, or a rejected one that is opened again.  A voided one would make
\* the INSERT fail after the charge.
ChargeCanBeRecorded ==
    \A r \in Requests : pc[r] = "gateway" => payments[req[r].order].status \in {Absent, "REJECTED"}

\* A success is in the tables when the client is told of it, whatever crashes came
\* before.  A cancelled order leaves no payment pending; a payment that was asked
\* for without a key is pending and its order waits for it; a callback that was
\* applied is in both tables.  One that returned early because the payment was
\* decided says so of the payment only: a crash may have left the order behind.
SuccessIsInTables ==
    \A r \in Requests : pc[r] = "done" /\ reply[r] = "ok" =>
        LET order   == orders[req[r].order].status
            payment == payments[req[r].order].status
        IN  /\ req[r].op = "cancel" => order = "CANCELLED" /\ payment # "PENDING"
            /\ req[r].op = "initiate" /\ req[r].key = Nil =>
                  order = "PAYMENT_PENDING" /\ payment = "PENDING"
            /\ req[r].op = "callback" /\ Published(r) =>
                  /\ payment = req[r].verdict
                  /\ order \in IF payment = "APPROVED" THEN {"PAID"} ELSE {"PAYMENT_FAILED", "CANCELLED"}
            /\ req[r].op = "callback" /\ stage[r] = "start" => payment \notin {Absent, "PENDING"}

\* When the client is told that the gateway refused, the order has the status
\* it had before.
RefusalRestoresOrder ==
    \A r \in Requests :
        pc[r] = "done" /\ reply[r] = "payment_gateway_error" =>
            orders[req[r].order].status = prev[r]

\* A payment that was approved stays approved.
ApprovalIsFinal ==
    [][\A o \in Orders : payments[o].status = "APPROVED" => payments'[o].status = "APPROVED"]_vars

OnceByKey(s) == \A i, j \in DOMAIN s : s[i].key # Nil /\ s[i].key = s[j].key => i = j

(***************************************************************************)
(* Liveness.                                                               *)
(***************************************************************************)

\* Every request is answered or dies with the process: no handler waits for
\* another and the calls to the payment gateway are bounded.
EveryRequestEnds == \A r \in Requests : pc[r] # "idle" ~> pc[r] = "idle"

\* A refused payment does not leave its order waiting for the gateway.
RefusedOrderReleased ==
    \A r \in Requests, o \in Orders :
        stage[r] = "compensating" /\ req[r].order = o ~> orders[o].status # "PAYMENT_PENDING"

\* An approval that was committed to the payment reaches the order, which
\* PaymentCallbackUseCase saves in a transaction of its own afterwards.
ApprovalReachesOrder ==
    \A o \in Orders :
        payments[o].status = "APPROVED" ~> orders[o].status = "PAID"

(***************************************************************************)
(* Stated by documents and tests of the repository, and refuted.           *)
(***************************************************************************)

\* ADR-008: repeated clicks under one key do not duplicate effects.  A second
\* initiate with the same key charges the customer no second time.
ChargedOncePerKey == \A o \in Orders : OnceByKey(charges[o])

\* ADR-008: the webhook is idempotent.  A callback delivered again under its key
\* is not applied again.
VerdictOncePerKey == \A o \in Orders : OnceByKey(settled[o])

\* ADR-005: a client may repeat a request that ended in a conflict.  The verdict
\* of a callback that was answered with concurrency_conflict is then either in
\* both tables, or it is in neither and the repetition will apply it.
ConflictCanBeRetried ==
    \A r \in Requests :
        pc[r] = "done" /\ req[r].op = "callback" /\ reply[r] = "concurrency_conflict" =>
            LET o == req[r].order
            IN  payments[o].status = "PENDING" \/ (payments[o].status = "APPROVED" <=> orders[o].status = "PAID")
================================================================================
