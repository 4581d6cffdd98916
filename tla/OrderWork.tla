-------------------------------- MODULE OrderWork --------------------------------
(***************************************************************************)
(* What a request has committed by each await, and how often: the          *)
(* inductive strengthening of AnsweredIsAnnounced, KeyRecordedAfterEffect, *)
(* MoneyTrailKept, EventsFollowCommits and PaymentBackedByCharge.  It      *)
(* rests on OrderInvariant.                                                *)
(***************************************************************************)
EXTENDS OrderInvariant

\* The effect that the request's event announces is in the database.
Committed(r) == commits[req[r].order][EventOf(r)] > 0

\* The verdict that a callback brings is in the payments table.
VerdictSettled(r) ==
    \E i \in DOMAIN settled[req[r].order] :
        settled[req[r].order][i] = [txn |-> req[r].txn, verdict |-> req[r].verdict, key |-> req[r].key]

\* Order of the steps: payment, order, event, outbox row, key.
WorkDone(r) ==
    /\ pc[r] \in {"send", "outbox_commit", "notify", "idem_save"} => Committed(r)
    /\ req[r].op = "callback"
       /\ pc[r] \in {"select", "select_items", "commit", "send", "outbox_commit", "notify", "idem_save"}
          => VerdictSettled(r)
    /\ req[r].op = "initiate" /\ pc[r] \in {"send", "outbox_commit", "idem_save"}
          => pay[r].order = req[r].order

Opened(o) == commits[o]["PAYMENT_INITIATED"] > 0

\* The payment that a cancel or a callback holds is one that was saved.
HeldOpened(r) ==
    pc[r] # "idle" /\ req[r].op \in {"cancel", "callback"} /\ pay[r].status # Absent
        => Opened(req[r].order)

\* The phases of each handler that has several.
Phases(op) ==
    CASE op = "confirm"  -> {"customer", "customer_failed", "catalog", "catalog_failed", "persisted",
                             "replay", "sent", "unsent"}
      [] op = "initiate" -> {"start", "compensating", "sent", "unsent"}
      [] op = "callback" -> {"start", "replay", "sent", "unsent"}
      [] OTHER           -> {"start", "sent", "unsent"}

\* A phase that failed has chosen its answer already, and no handler that is
\* still going to answer with success is in one.
PhaseKnown(r) ==
    pc[r] # "idle" =>
        /\ stage[r] \in Phases(req[r].op)
        /\ pc[r] = "restore" => stage[r] = "compensating"
        /\ pc[r] \in {"pay_by_key", "idem_get", "initiate"} => stage[r] # "compensating"
        /\ pc[r] \in {"outbox_commit", "notify", "idem_save"} => stage[r] \in {"sent", "unsent"}
        /\ pc[r] \in {"pay_by_key", "idem_get", "pay_load"} => stage[r] \notin {"sent", "unsent"}
        /\ stage[r] \in {"compensating", "customer_failed", "catalog_failed"} => reply[r] # "ok"

\* From the outbox commit on the row of the request's event is there, and before
\* it the message that the row will call published.
Announced(r) ==
    /\ Published(r) /\ pc[r] \notin {"idle", "outbox_commit"} => Filed(req[r].order, EventOf(r))
    /\ pc[r] = "outbox_commit" /\ stage[r] = "sent" => queue[req[r].order][EventOf(r)] > 0

WorkInv(r) == WorkDone(r) /\ HeldOpened(r) /\ PhaseKnown(r) /\ Announced(r)

(***************************************************************************)
(* Every message, payment and verdict follows a commit, and the approval   *)
(* is settled before the order is paid.                                    *)
(***************************************************************************)
MessagesCommitted == \A o \in Orders, e \in EventTypes : queue[o][e] > 0 => commits[o][e] > 0

PaymentsOpened ==
    \A o \in Orders : /\ payments[o].status # Absent => Opened(o)
                      /\ payments[o].status = Absent => payments[o].key = Nil

ApprovalsSettled == \A o \in Orders : commits[o]["PAYMENT_APPROVED"] > 0 => Approved(o)

VerdictsReported ==
    \A o \in Orders : \A i \in DOMAIN settled[o] : Reported(o, settled[o][i].txn, settled[o][i].verdict)

CommitsFirst == MessagesCommitted /\ PaymentsOpened /\ ApprovalsSettled /\ VerdictsReported

PublishedSent == \A row \in outbox : row.published => queue[row.order][row.type] > 0

WorkTables == CommitsFirst /\ KeyRecordedAfterEffect /\ PublishedSent

IndWork == WorkTables /\ \A r \in Requests : WorkInv(r)

(***************************************************************************)
(* Counting: an effect is counted before the request that committed it     *)
(* announces it, once, and a charge before the request that made it opens  *)
(* a payment, once.                                                        *)
(***************************************************************************)

\* The request has committed its effect and is going to send its event.
Owes(r) ==
    \/ pc[r] = "send"
    \/ /\ pc[r] \in {"saga_select", "saga_commit"}
       /\ stage[r] \notin {"customer", "customer_failed", "catalog", "catalog_failed"}

\* The request was charged and is going to save its payment.
Opening(r) == req[r].op = "initiate" /\ pc[r] \in {"pay_select", "pay_commit"}

Owing(o, e) == {r \in Requests : req[r].order = o /\ EventOf(r) = e /\ Owes(r)}

Openings(o) == {r \in Requests : req[r].order = o /\ Opening(r)}

Charged(o) == Len(charges[o])

EventsCounted ==
    \A o \in Orders : \A e \in EventTypes : queue[o][e] + Cardinality(Owing(o, e)) <= commits[o][e]

ChargesCounted ==
    \A o \in Orders : commits[o]["PAYMENT_INITIATED"] + Cardinality(Openings(o)) <= Charged(o)

RowsCommitted == \A row \in outbox : commits[row.order][row.type] > 0

CountInv == EventsCounted /\ ChargesCounted /\ RowsCommitted
================================================================================
