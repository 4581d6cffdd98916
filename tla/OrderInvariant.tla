----------------------------- MODULE OrderInvariant -----------------------------
(***************************************************************************)
(* What is true of a request at every await, strong enough to be kept by   *)
(* every step: the inductive strengthening of TypeOK,                      *)
(* PaidOnlyAfterApproval, ChargedOnlyIfConfirmed and                       *)
(* SagaCompletedIfConfirmed.                                               *)
(***************************************************************************)
EXTENDS OrderProperties

\* The round trips of each handler.
Path(op) ==
    CASE op = "create"  -> {"customer", "active_check", "insert"}
      [] op = "add"     -> {"load", "load_items", "product", "select", "select_items", "commit"}
      [] op = "remove"  -> {"load", "load_items", "remove", "select", "select_items", "commit"}
      [] op = "confirm" -> {"idem_get", "load", "load_items", "saga_select", "saga_commit",
                            "validate_customer", "prices", "select", "select_items", "commit",
                            "send", "outbox_commit", "notify", "idem_save"}
      [] op = "cancel"  -> {"load", "load_items", "cancel_payment", "pay_select", "pay_commit",
                            "cancel", "select", "select_items", "commit", "send", "outbox_commit"}
      [] op = "initiate" -> {"pay_by_key", "idem_get", "load", "load_items", "initiate", "select",
                             "select_items", "commit", "gateway", "restore", "pay_select",
                             "pay_commit", "send", "outbox_commit", "idem_save"}
      [] OTHER          -> {"idem_get", "pay_load", "load", "load_items", "apply", "pay_select",
                            "pay_commit", "select", "select_items", "commit", "send",
                            "outbox_commit", "notify", "idem_save"}

\* The gateway gave this verdict on charge txn of the order.
Reported(o, txn, verdict) ==
    txn \in DOMAIN charges[o] /\ charges[o][txn].verdict = verdict

Approved(o) ==
    \E i \in DOMAIN settled[o] :
        settled[o][i].verdict = "APPROVED" /\ Reported(o, settled[o][i].txn, "APPROVED")

EverConfirmed(o) == commits[o]["ORDER_CONFIRMED"] > 0

ConfirmedStatuses == {"CONFIRMED", "PAYMENT_PENDING", "PAYMENT_FAILED", "PAID"}

\* A session holds nothing between two requests.
IdleOK(r) ==
    pc[r] = "idle" => ord[r] = NoEntity /\ base[r] = NoEntity /\ pay[r] = NoPaymentEntity

\* A request in flight asks for something and is on the path of its handler.
RequestOK(r) ==
    pc[r] # "idle" =>
        /\ req[r] \in Request
        /\ pc[r] \in Path(req[r].op) \cup {"done"}
        /\ req[r].op = "add" => req[r].product \in Products
        /\ pc[r] \in {"pay_by_key", "idem_get", "idem_save"} => req[r].key # Nil
        /\ req[r].op = "callback" =>
              req[r].verdict \in Verdicts /\ Reported(req[r].order, req[r].txn, req[r].verdict)

\* A handler that is not done holds the payment of its own order, if any.
PaymentOK(r) ==
    /\ pc[r] # "done" /\ pay[r].status # Absent => pay[r].order = req[r].order
    /\ pc[r] \in {"pay_select", "pay_commit"} => pay[r].status # Absent
    /\ pc[r] \in {"load", "load_items", "apply"} /\ req[r].op = "callback" => pay[r].status # Absent

\* A handler sees a confirmed order only once the confirmation was committed,
\* unless it is the confirm that is about to commit it.
ConfirmationSeen(r) ==
    pc[r] # "idle" =>
        /\ base[r].status \in ConfirmedStatuses => EverConfirmed(req[r].order)
        /\ ord[r].status \in ConfirmedStatuses =>
              \/ EverConfirmed(req[r].order)
              \/ req[r].op = "confirm" /\ pc[r] \in {"select", "select_items", "commit", "done"}
        /\ req[r].op = "initiate" /\ pc[r] \in {"select", "select_items", "commit", "gateway"} =>
              EverConfirmed(req[r].order)

\* A saga about to be recorded has yet to confirm the order, or has done so.
SagaPhase(r) ==
    /\ req[r].op = "confirm" /\ pc[r] \in {"idem_get", "load", "load_items"} =>
          stage[r] \in {"customer", "replay"}
    /\ pc[r] \in {"saga_select", "saga_commit"} =>
          \/ stage[r] \in {"customer", "customer_failed", "catalog", "catalog_failed"}
          \/ EverConfirmed(req[r].order)

\* A handler sees a paid order only once the approval was committed, unless it
\* is the callback that is about to commit it.
ApprovalSeen(r) ==
    /\ prev[r] # "PAID"
    /\ pc[r] # "idle" =>
        /\ base[r].status = "PAID" => Approved(req[r].order)
        /\ ord[r].status = "PAID" =>
              \/ Approved(req[r].order)
              \/ /\ req[r].op = "callback" /\ req[r].verdict = "APPROVED"
                 /\ pc[r] \in {"pay_select", "pay_commit", "done"}

SessionInv(r) ==
    IdleOK(r) /\ RequestOK(r) /\ PaymentOK(r) /\ ConfirmationSeen(r) /\ SagaPhase(r) /\ ApprovalSeen(r)

StatusConfirmed ==
    \A o \in Orders : orders[o].status \in ConfirmedStatuses => EverConfirmed(o)

TablesInv ==
    StatusConfirmed /\ ChargedOnlyIfConfirmed /\ SagaCompletedIfConfirmed /\ PaidOnlyAfterApproval

IndInv == TypeOK /\ TablesInv /\ \A r \in Requests : SessionInv(r)
================================================================================
