---------------------------- MODULE PaymentUseCases ----------------------------
(***************************************************************************)
(* CancelOrderUseCase, InitiatePaymentUseCase and PaymentCallbackUseCase,  *)
(* and the payment gateway they depend on.                                 *)
(***************************************************************************)
EXTENDS EventPublisher

StoredPayment(o) ==
    [order |-> o, status |-> payments[o].status, key |-> payments[o].key,
     fresh |-> FALSE, loaded |-> Absent]

\* A payment that the gateway has or may have accepted.
IsOpen(payment) == payment.status \in {"PENDING", "APPROVED"}

SetPaymentStatus(p, status) == [p EXCEPT !.status = status]

(***************************************************************************)
(* CancelOrderUseCase: a pending payment is voided and committed before    *)
(* the order is found to be cancellable, let alone saved.                  *)
(***************************************************************************)
ReceiveCancel(r, o) ==
    Receive(r, [NoRequest EXCEPT !.op = "cancel", !.order = o], "load", "start")

\* A cancellation that voids an approved payment as well.
IsVoidable_Open(payment) == IsOpen(payment)

\* A cancellation that forgets the payment.
IsVoidable_Never(payment) == FALSE

\* A cancellation that voids whatever is not paid.
IsVoidable_NotApproved(payment) == payment.status \in {"PENDING", "REJECTED"}

IsVoidable(payment) == payment.status = "PENDING"

VoidPendingPayment(r) ==
    /\ pc[r] = "cancel_payment"
    /\ \/ /\ IsVoidable(payments[req[r].order])
          /\ pay' = [pay EXCEPT ![r] = SetPaymentStatus(StoredPayment(req[r].order), "VOID")]
          /\ Goto(r, "pay_select")
       \/ /\ ~IsVoidable(payments[req[r].order])
          /\ Goto(r, "cancel")
          /\ UNCHANGED pay
    /\ UNCHANGED <<dbVars, worldVars, req, orderLocal, flowLocal, boundVars, ghostVars>>

ApplyCancel(r) ==
    /\ pc[r] = "cancel"
    /\ \/ /\ CanCancel(ord[r])
          /\ ord' = [ord EXCEPT ![r] = CancelOrder(NextVersion(@))]
          /\ Goto(r, "select")
       \/ ~CanCancel(ord[r]) /\ Finish(r, "invalid_order_state") /\ UNCHANGED ord
    /\ UNCHANGED <<dbVars, worldVars, req, base, cached, pay, flowLocal, boundVars, ghostVars>>

(***************************************************************************)
(* InitiatePaymentUseCase                                                  *)
(***************************************************************************)
ReceiveInitiate(r, o, k) ==
    Receive(r, [NoRequest EXCEPT !.op = "initiate", !.order = o, !.key = k],
            IF k = Nil THEN "load" ELSE "pay_by_key", "start")

\* A payment created under the same key is returned whatever order it is for.
ReturnPaymentOfKey(r) ==
    /\ pc[r] = "pay_by_key"
    /\ \/ \E o \in Orders :
             /\ payments[o].key = req[r].key
             /\ pay' = [pay EXCEPT ![r] = StoredPayment(o)]
             /\ Finish(r, "ok")
       \/ /\ \A o \in Orders : payments[o].key # req[r].key
          /\ Goto(r, "idem_get")
          /\ UNCHANGED pay
    /\ UNCHANGED <<dbVars, worldVars, req, orderLocal, flowLocal, boundVars, ghostVars>>

\* The guard, the lookup of the order's payment, and mark_payment_pending.
PreparePayment(r) ==
    /\ pc[r] = "initiate"
    /\ \/ /\ ~CanInitiatePayment(ord[r])
          /\ Finish(r, "invalid_order_state")
          /\ UNCHANGED <<ord, pay, prev>>
       \/ /\ CanInitiatePayment(ord[r])
          /\ IsOpen(payments[req[r].order])
          /\ pay' = [pay EXCEPT ![r] = StoredPayment(req[r].order)]
          /\ Finish(r, "ok")
          /\ UNCHANGED <<ord, prev>>
       \/ /\ CanInitiatePayment(ord[r])
          /\ ~IsOpen(payments[req[r].order])
          /\ pay' = [pay EXCEPT ![r] = StoredPayment(req[r].order)]
          /\ prev' = [prev EXCEPT ![r] = ord[r].status]
          /\ ord' = [ord EXCEPT ![r] = MarkPaymentPending(NextVersion(@))]
          /\ Goto(r, "select")
    /\ UNCHANGED <<dbVars, worldVars, req, base, cached, sagaRow, stage, tries, boundVars, ghostVars>>

MaxGatewayCalls == 3

\* A rejected payment is opened again; otherwise a new one is created, also
\* when the order has a voided one (its INSERT will then violate order_id).
OpenedPayment(r) ==
    IF pay[r].status = "REJECTED"
    THEN SetPaymentStatus(pay[r], "PENDING")
    ELSE [order |-> req[r].order, status |-> "PENDING", key |-> req[r].key,
          fresh |-> TRUE, loaded |-> Absent]

\* The gateway takes a charge; whether it will be approved is settled later.
\* A hidden one is a charge that the gateway took and answered with an error.
TakeCharge(r, hidden) ==
    \E verdict \in Verdicts :
        charges' = [charges EXCEPT ![req[r].order] =
                       Append(@, [verdict |-> verdict, key |-> req[r].key, hidden |-> hidden])]

Charge(r) == TakeCharge(r, FALSE)

Hidden(o) == {n \in DOMAIN charges[o] : charges[o][n].hidden}

\* POST is not idempotent and carries no key: an error answer (a 500, 502, 503 or
\* 504) leaves open whether the charge was taken, and the code takes it for "not".
HiddenCharge(r) ==
    /\ Cardinality(Hidden(req[r].order)) < MaxHidden
    /\ TakeCharge(r, TRUE)

GatewayAccepts(r) ==
    /\ pc[r] = "gateway"
    /\ Charge(r)
    /\ pay' = [pay EXCEPT ![r] = OpenedPayment(r)]
    /\ Goto(r, "pay_select")
    /\ UNCHANGED <<dbVars, queue, req, orderLocal, flowLocal, boundVars, ghostVars>>

\* A retry without stop_after_attempt.
MayRetry_Forever(r) == TRUE

\* tenacity: a 503 is tried again, up to three calls in all.
MayRetry(r) == tries[r] + 1 < MaxGatewayCalls

GatewayUnavailable(r) ==
    /\ pc[r] = "gateway"
    /\ MayRetry(r)
    /\ HiddenCharge(r) \/ UNCHANGED charges
    /\ tries' = [tries EXCEPT ![r] = @ + 1]
    /\ UNCHANGED <<dbVars, queue, pc, req, orderLocal, pay, sagaRow, stage, prev, reply,
                   boundVars, ghostVars>>

\* A refusal that is taken for an answer.
GatewayRefuses_Ignored(r) ==
    /\ pc[r] = "gateway"
    /\ pay' = [pay EXCEPT ![r] = OpenedPayment(r)]
    /\ Goto(r, "pay_select")
    /\ UNCHANGED <<dbVars, worldVars, req, orderLocal, flowLocal, boundVars, ghostVars>>

\* Any other refusal, or the last 503: PaymentGatewayError is caught, the order
\* is loaded again to put its status back, and the error is raised again.
GatewayRefuses(r) ==
    /\ pc[r] = "gateway"
    /\ stage' = [stage EXCEPT ![r] = "compensating"]
    /\ pc' = [pc EXCEPT ![r] = "load"]
    /\ reply' = [reply EXCEPT ![r] = "payment_gateway_error"]
    /\ HiddenCharge(r) \/ UNCHANGED charges
    /\ UNCHANGED <<dbVars, queue, req, orderLocal, pay, sagaRow, tries, prev, boundVars, ghostVars>>

\* A timeout or a broken answer is not a PaymentGatewayError: nothing is retried
\* or compensated, and the gateway may have taken the charge.
GatewayLost(r) ==
    /\ pc[r] = "gateway"
    /\ Charge(r) \/ UNCHANGED charges
    /\ Finish(r, "error")
    /\ UNCHANGED <<dbVars, queue, req, orderLocal, pay, flowLocal, boundVars, ghostVars>>

RestorePreviousStatus(r) ==
    /\ pc[r] = "restore"
    /\ \/ /\ AwaitsPayment(ord[r])
          /\ ord' = [ord EXCEPT ![r] = RestoreStatus(NextVersion(@), prev[r])]
          /\ Goto(r, "select")
       \/ ~AwaitsPayment(ord[r]) /\ Goto(r, "done") /\ UNCHANGED ord
    /\ UNCHANGED <<dbVars, worldVars, req, base, cached, pay, flowLocal, boundVars, ghostVars>>

(***************************************************************************)
(* PaymentCallbackUseCase.  The gateway reports the verdict on charge n of *)
(* an order, possibly more than once and in any order.                     *)
(***************************************************************************)
ReceiveCallback(r, o, n, k) ==
    /\ n \in DOMAIN charges[o]
    /\ Receive(r, [NoRequest EXCEPT !.op = "callback", !.order = o, !.key = k,
                                    !.verdict = charges[o][n].verdict, !.txn = n],
               IF k = Nil THEN "pay_load" ELSE "idem_get", "start")

\* get_by_id of the payment: a repeated delivery, or one for a payment that is
\* settled already, is answered with the payment as it is.
LoadPayment(r) ==
    /\ pc[r] = "pay_load"
    /\ pay' = [pay EXCEPT ![r] = StoredPayment(req[r].order)]
    /\ \/ payments[req[r].order].status = Absent /\ Finish(r, "payment_not_found")
       \/ /\ payments[req[r].order].status = "PENDING"
          /\ stage[r] # "replay"
          /\ Goto(r, "load")
       \/ /\ payments[req[r].order].status # Absent
          /\ payments[req[r].order].status # "PENDING" \/ stage[r] = "replay"
          /\ Finish(r, "ok")
    /\ UNCHANGED <<dbVars, worldVars, req, orderLocal, flowLocal, boundVars, ghostVars>>

\* A comparison that takes every status for an approval.
IsApproval_Any(r) == TRUE

IsApproval(r) == req[r].verdict = "APPROVED"

\* version += 1, approve or reject, and the guarded change of the order.
ApplyVerdict(r) ==
    /\ pc[r] = "apply"
    /\ \/ /\ AwaitsPayment(ord[r])
          /\ IsApproval(r)
          /\ pay' = [pay EXCEPT ![r] = SetPaymentStatus(@, "APPROVED")]
          /\ ord' = [ord EXCEPT ![r] = ApplyApproved(NextVersion(@))]
          /\ Goto(r, "pay_select")
       \/ /\ AwaitsPayment(ord[r])
          /\ ~IsApproval(r)
          /\ pay' = [pay EXCEPT ![r] = SetPaymentStatus(@, "REJECTED")]
          /\ ord' = [ord EXCEPT ![r] = ApplyRejected(NextVersion(@))]
          /\ Goto(r, "pay_select")
       \/ ~AwaitsPayment(ord[r]) /\ Finish(r, "invalid_order_state") /\ UNCHANGED <<ord, pay>>
    /\ UNCHANGED <<dbVars, worldVars, req, base, cached, flowLocal, boundVars, ghostVars>>
================================================================================
