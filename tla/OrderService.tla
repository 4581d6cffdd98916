------------------------------ MODULE OrderService ------------------------------
(***************************************************************************)
(* The order service: clients, the payment gateway's webhook and crashes   *)
(* drive the handlers of DraftUseCases, ConfirmSaga and PaymentUseCases,   *)
(* all of them over one database.                                          *)
(***************************************************************************)
EXTENDS DraftUseCases, ConfirmSaga, PaymentUseCases

CONSTANTS
    Ops,           \* the operations clients request in this instance
    Given,         \* Given[o]: how far order o has come when the behaviour starts
    GivenItem,     \* the id of its one item
    GivenProduct,  \* the product of that item
    GivenPrice     \* its price once confirmed

ASSUME ServiceAssumption ==
    /\ Given \in [Orders -> {"ABSENT", "DRAFT", "CONFIRMED", "PAYMENT_FAILED"}]
    /\ GivenItem \in [Orders -> ItemIds]
    /\ GivenProduct \in Products
    /\ GivenPrice \in Nat
    /\ \A o, p \in Orders : GivenItem[o] = GivenItem[p] => o = p

(***************************************************************************)
(* Initial states: an empty database, or one in which an order has gone    *)
(* through create and add_item (DRAFT), confirm (CONFIRMED) and two        *)
(* rejected payments (PAYMENT_FAILED).                                     *)
(***************************************************************************)
GivenRow(o) ==
    CASE Given[o] = "DRAFT" ->
            [status |-> "DRAFT", total |-> 0, attempts |-> 0, version |-> 2]
      [] Given[o] = "CONFIRMED" ->
            [status |-> "CONFIRMED", total |-> GivenPrice, attempts |-> 0, version |-> 3]
      [] Given[o] = "PAYMENT_FAILED" ->
            [status |-> "PAYMENT_FAILED", total |-> GivenPrice, attempts |-> 2, version |-> 7]
      [] OTHER -> NoOrder

WasConfirmed(o) == Given[o] \in {"CONFIRMED", "PAYMENT_FAILED"}

WasRejectedTwice(o) == Given[o] = "PAYMENT_FAILED"

GivenItemRow(o) ==
    [id |-> GivenItem[o], order |-> o, product |-> GivenProduct, qty |-> 1,
     price |-> IF WasConfirmed(o) THEN GivenPrice ELSE NoPrice]

GivenEvents(o) ==
    [e \in EventTypes |->
        CASE e = "ORDER_CONFIRMED" /\ WasConfirmed(o) -> 1
          [] e \in {"PAYMENT_INITIATED", "PAYMENT_REJECTED"} /\ WasRejectedTwice(o) -> 2
          [] OTHER -> 0]

RejectedCharge == [verdict |-> "REJECTED", key |-> Nil, hidden |-> FALSE]

Rejection(n) == [txn |-> n, verdict |-> "REJECTED", key |-> Nil]

Init ==
    /\ orders   = [o \in Orders |-> GivenRow(o)]
    /\ items    = {GivenItemRow(o) : o \in {x \in Orders : Given[x] # "ABSENT"}}
    /\ payments = [o \in Orders |-> IF WasRejectedTwice(o)
                                    THEN [status |-> "REJECTED", key |-> Nil] ELSE NoPayment]
    /\ saga     = [o \in Orders |-> IF WasConfirmed(o)
                                    THEN [step |-> "PERSIST_CONFIRMED", status |-> "COMPLETED"] ELSE NoSaga]
    /\ idem     = {}
    /\ outbox   = {e \in [order : Orders, type : EventTypes, published : {TRUE}] :
                        GivenEvents(e.order)[e.type] > 0}
    /\ queue    = [o \in Orders |-> GivenEvents(o)]
    /\ commits  = [o \in Orders |-> GivenEvents(o)]
    /\ charges  = [o \in Orders |-> IF WasRejectedTwice(o)
                                    THEN <<RejectedCharge, RejectedCharge>> ELSE <<>>]
    /\ settled  = [o \in Orders |-> IF WasRejectedTwice(o)
                                    THEN <<Rejection(1), Rejection(2)>> ELSE <<>>]
    /\ pc       = [r \in Requests |-> "idle"]
    /\ req      = [r \in Requests |-> NoRequest]
    /\ ord      = [r \in Requests |-> NoEntity]
    /\ base     = [r \in Requests |-> NoEntity]
    /\ cached   = [r \in Requests |-> FALSE]
    /\ pay      = [r \in Requests |-> NoPaymentEntity]
    /\ sagaRow  = [r \in Requests |-> NoSaga]
    /\ stage    = [r \in Requests |-> "start"]
    /\ tries    = [r \in Requests |-> 0]
    /\ prev     = [r \in Requests |-> Absent]
    /\ reply    = [r \in Requests |-> "none"]
    /\ begun    = 0
    /\ crashes  = 0

(***************************************************************************)
(* Steps.                                                                  *)
(***************************************************************************)
Arrive(r) ==
    \/ "create" \in Ops /\ \E o \in Orders : ReceiveCreate(r, o)
    \/ "add" \in Ops /\ \E o \in Orders, p \in Products : ReceiveAddItem(r, o, p)
    \/ "remove" \in Ops /\ \E o \in Orders, i \in ItemIds : ReceiveRemoveItem(r, o, i)
    \/ "confirm" \in Ops /\ \E o \in Orders, k \in Keys \cup {Nil} : ReceiveConfirm(r, o, k)
    \/ "cancel" \in Ops /\ \E o \in Orders : ReceiveCancel(r, o)
    \/ "initiate" \in Ops /\ \E o \in Orders, k \in Keys \cup {Nil} : ReceiveInitiate(r, o, k)
    \/ "callback" \in Ops /\ \E o \in Orders, k \in Keys \cup {Nil} :
                                \E n \in DOMAIN charges[o] : ReceiveCallback(r, o, n, k)

RepositoryStep(r) ==
    \/ LoadRow(r) \/ LoadItems(r) \/ LoadCached(r)
    \/ SaveSelect(r) \/ SaveCheck(r) \/ SaveCheckCached(r)
    \/ SaveCommit(r) \/ SaveFails(r) \/ InsertOrder(r)
    \/ PaymentSelect(r) \/ PaymentCommit(r) \/ PaymentInsertFails(r)
    \/ IdemGet(r) \/ IdemSave(r)
    \/ Send(r) \/ OutboxCommit(r) \/ Notify(r)

UseCaseStep(r) ==
    \/ CheckCustomer(r) \/ CheckNoActiveOrder(r) \/ AddProduct(r) \/ RemoveProduct(r)
    \/ SagaSelect(r) \/ SagaCommit(r) \/ ValidateCustomer(r) \/ FetchPrices(r)
    \/ VoidPendingPayment(r) \/ ApplyCancel(r)
    \/ ReturnPaymentOfKey(r) \/ PreparePayment(r)
    \/ GatewayAccepts(r) \/ GatewayUnavailable(r) \/ GatewayRefuses(r) \/ GatewayLost(r)
    \/ RestorePreviousStatus(r)
    \/ LoadPayment(r) \/ ApplyVerdict(r)

Respond(r) ==
    /\ pc[r] = "done"
    /\ EndSessions({r})
    /\ UNCHANGED <<dbVars, worldVars, boundVars, ghostVars>>

\* The process dies: what was not committed is gone, every request with it.
Crash ==
    /\ crashes < MaxCrashes
    /\ \E r \in Requests : pc[r] # "idle"
    /\ crashes' = crashes + 1
    /\ EndSessions(Requests)
    /\ UNCHANGED <<dbVars, worldVars, begun, ghostVars>>

\* Between requests nothing need ever happen.
Quiet ==
    /\ \A r \in Requests : pc[r] = "idle"
    /\ UNCHANGED vars

Serve(r) == RepositoryStep(r) \/ UseCaseStep(r) \/ Respond(r)

Next ==
    \/ \E r \in Requests : Arrive(r) \/ Serve(r)
    \/ Crash
    \/ Quiet

Spec == Init /\ [][Next]_vars

\* The event loop resumes every task whose round trip is over, and round trips
\* end: HTTP calls have a timeout and no transaction waits for another in a cycle.
FairSpec == Spec /\ \A r \in Requests : WF_vars(Serve(r))
================================================================================
