---------------------------- MODULE OrderLifecycle ----------------------------
(***************************************************************************)
(* The life of an order as the API describes it: each operation is one     *)
(* step that changes the order and its payment together, or changes        *)
(* nothing.  The statuses may only move along VALID_TRANSITIONS, and an    *)
(* order and its payment never disagree.                                   *)
(***************************************************************************)
EXTENDS OrderDomain

CONSTANTS Orders

VARIABLES
    status,    \* of the order
    attempts,  \* rejected payments of the order
    payment    \* status of the order's payment

life == <<status, attempts, payment>>

\* Attempts after which an order is given up.
GiveUpAfter == 3

(***************************************************************************)
(* An order and its payment agree.                                         *)
(***************************************************************************)
Agreement(o) ==
    /\ status[o] = "PAID" <=> payment[o] = "APPROVED"
    /\ payment[o] = "PENDING" => status[o] = "PAYMENT_PENDING"
    /\ payment[o] = "VOID" => status[o] = "CANCELLED"
    /\ status[o] \in {Absent, "DRAFT", "CONFIRMED"} => payment[o] = Absent
    /\ status[o] = "PAYMENT_FAILED" => payment[o] = "REJECTED"
    /\ attempts[o] > 0 => status[o] \notin {Absent, "DRAFT", "CONFIRMED"}
    /\ attempts[o] >= GiveUpAfter => status[o] = "CANCELLED"

AgreementInv == \A o \in Orders : Agreement(o)

TypeInv ==
    /\ status \in [Orders -> OrderStatuses \cup {Absent}]
    /\ attempts \in [Orders -> Nat]
    /\ payment \in [Orders -> PaymentStatuses \cup {Absent}]

Init == TypeInv /\ AgreementInv

(***************************************************************************)
(* The operations.                                                         *)
(***************************************************************************)
MoveTo(o, next) ==
    /\ status[o] # Absent
    /\ CanTransition(status[o], next)
    /\ status' = [status EXCEPT ![o] = next]

PaymentBecomes(o, next) == payment' = [payment EXCEPT ![o] = next]

Create(o) ==
    /\ status[o] = Absent
    /\ status' = [status EXCEPT ![o] = "DRAFT"]
    /\ UNCHANGED <<attempts, payment>>

Confirm(o) ==
    /\ MoveTo(o, "CONFIRMED")
    /\ UNCHANGED <<attempts, payment>>

StartPayment(o) ==
    /\ MoveTo(o, "PAYMENT_PENDING")
    /\ PaymentBecomes(o, "PENDING")
    /\ UNCHANGED attempts

\* The gateway did not answer: the order waits for a payment that the service
\* knows nothing of.
LosePayment(o) ==
    /\ MoveTo(o, "PAYMENT_PENDING")
    /\ UNCHANGED <<attempts, payment>>

Approve(o) ==
    /\ payment[o] = "PENDING"
    /\ MoveTo(o, "PAID")
    /\ PaymentBecomes(o, "APPROVED")
    /\ UNCHANGED attempts

Reject(o) ==
    /\ payment[o] = "PENDING"
    /\ attempts' = [attempts EXCEPT ![o] = @ + 1]
    /\ MoveTo(o, IF attempts'[o] = GiveUpAfter THEN "CANCELLED" ELSE "PAYMENT_FAILED")
    /\ PaymentBecomes(o, "REJECTED")

Cancel(o) ==
    /\ MoveTo(o, "CANCELLED")
    /\ IF payment[o] = "PENDING" THEN PaymentBecomes(o, "VOID") ELSE UNCHANGED payment
    /\ UNCHANGED attempts

Next ==
    \E o \in Orders :
        \/ Create(o) \/ Confirm(o) \/ Cancel(o)
        \/ StartPayment(o) \/ LosePayment(o) \/ Approve(o) \/ Reject(o)

Spec == Init /\ [][Next]_life
================================================================================
