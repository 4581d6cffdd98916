---------------------------- MODULE OrderRefinement ----------------------------
(***************************************************************************)
(* The service implements two abstract specifications: PaymentLedger under *)
(* every interleaving and crash, and OrderLifecycle, in which each request *)
(* is one atomic step, when requests come one at a time.                   *)
(***************************************************************************)
EXTENDS OrderProperties

(***************************************************************************)
(* The trail of the money is spread over the tables, the gateway and SQS.  *)
(***************************************************************************)
ConfirmedOrders == {o \in Orders : commits[o]["ORDER_CONFIRMED"] > 0}

TakenCharges ==
    UNION {{[order |-> o, txn |-> n, verdict |-> charges[o][n].verdict] : n \in DOMAIN charges[o]} : o \in Orders}

SettledCharges ==
    UNION {{[order |-> o, txn |-> settled[o][i].txn, verdict |-> settled[o][i].verdict] :
               i \in DOMAIN settled[o]} : o \in Orders}

PaidOrders == {o \in Orders : commits[o]["PAYMENT_APPROVED"] > 0}

ToldOrders == {o \in Orders : queue[o]["PAYMENT_APPROVED"] > 0}

Ledger == INSTANCE PaymentLedger WITH
    confirmed <- ConfirmedOrders,
    taken     <- TakenCharges,
    settled   <- SettledCharges,
    paid      <- PaidOrders,
    told      <- ToldOrders

\* However requests overlap, fail and crash, the trail of an order's money only
\* grows, each entry backed by the one before: the gateway is called after the
\* confirmation was committed, a callback settles a charge the gateway took, the
\* order is paid after that, and PAYMENT_APPROVED is sent last.
MoneyTrailKept == Ledger!Spec

(***************************************************************************)
(* An atomic operation takes effect with the last of the transactions that *)
(* its handler needs; until then the mapping hides the first one.          *)
(***************************************************************************)
\* initiate has set the order to PAYMENT_PENDING and not saved the payment yet,
\* or is putting the status back.
Initiating(r, o) ==
    /\ req[r].op = "initiate" /\ req[r].order = o /\ prev[r] # Absent
    /\ \/ pc[r] \in {"select", "select_items", "commit", "gateway", "pay_select", "pay_commit"}
       \/ stage[r] = "compensating"

\* callback or cancel has saved the payment and not the order yet.
Settling(r, o) ==
    /\ req[r].order = o /\ pay[r].status # Absent
    /\ \/ req[r].op = "callback" /\ pc[r] \in {"select", "select_items", "commit"}
       \/ req[r].op = "cancel" /\ pc[r] \in {"cancel", "select", "select_items", "commit"}

ShownStatus(o) ==
    IF \E r \in Requests : Initiating(r, o)
    THEN prev[CHOOSE r \in Requests : Initiating(r, o)]
    ELSE orders[o].status

ShownPayment(o) ==
    IF \E r \in Requests : Settling(r, o) THEN "PENDING" ELSE payments[o].status

Lifecycle == INSTANCE OrderLifecycle WITH
    status   <- [o \in Orders |-> ShownStatus(o)],
    attempts <- [o \in Orders |-> orders[o].attempts],
    payment  <- [o \in Orders |-> ShownPayment(o)]

\* One request at a time, the handlers behave as if each were one atomic step:
\* the several transactions of initiate, cancel and callback, the retries and
\* the compensation of a refused payment, the early returns and every failure of
\* another service leave the order and its payment in agreement.
BehavesAtomically == Lifecycle!Spec

\* Behaviours in which no crash falls between the two commits of a callback or a
\* cancel; a crash anywhere else is allowed.
NotTorn == Crash => \A r \in Requests, o \in Orders : ~Settling(r, o)

UntornSpec == Init /\ [][Next /\ NotTorn]_vars
================================================================================
