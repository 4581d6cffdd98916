----------------------------- MODULE PaymentLedger -----------------------------
(***************************************************************************)
(* What the order service promises about money, whatever its requests do   *)
(* to each other and wherever it crashes: a trail that only grows, each    *)
(* entry backed by the one before it.                                      *)
(*                                                                         *)
(*   confirmed -> taken -> settled -> paid -> told                         *)
(*                                                                         *)
(* An order is confirmed; the gateway takes a charge for it; the verdict   *)
(* the gateway gave on that charge is settled; with an approval the order  *)
(* is paid; and only then are others told that it is.                      *)
(***************************************************************************)
EXTENDS Naturals

CONSTANTS Orders

VARIABLES
    confirmed,  \* orders whose confirmation was committed
    taken,      \* charges the gateway took
    settled,    \* charges whose verdict was committed to a payment
    paid,       \* orders whose payment was committed
    told        \* orders announced as paid

trail == <<confirmed, taken, settled, paid, told>>

ChargeRecord == [order : Orders, txn : Nat, verdict : {"APPROVED", "REJECTED"}]

HasApproval(o) == \E c \in settled : c.order = o /\ c.verdict = "APPROVED"

\* Any trail may be there already, as long as each entry is backed.
Init ==
    /\ confirmed \subseteq Orders
    /\ taken \subseteq ChargeRecord /\ \A c \in taken : c.order \in confirmed
    /\ settled \subseteq taken
    /\ paid \subseteq {o \in Orders : HasApproval(o)}
    /\ told \subseteq paid

Confirm(o) ==
    /\ confirmed' = confirmed \cup {o}
    /\ UNCHANGED <<taken, settled, paid, told>>

Take(c) ==
    /\ c.order \in confirmed
    /\ \A d \in taken : d.order = c.order => d.txn # c.txn
    /\ taken' = taken \cup {c}
    /\ UNCHANGED <<confirmed, settled, paid, told>>

Settle(c) ==
    /\ c \in taken
    /\ settled' = settled \cup {c}
    /\ UNCHANGED <<confirmed, taken, paid, told>>

Pay(o) ==
    /\ HasApproval(o)
    /\ paid' = paid \cup {o}
    /\ UNCHANGED <<confirmed, taken, settled, told>>

Tell(o) ==
    /\ o \in paid
    /\ told' = told \cup {o}
    /\ UNCHANGED <<confirmed, taken, settled, paid>>

Next ==
    \/ \E o \in Orders : Confirm(o) \/ Pay(o) \/ Tell(o)
    \/ \E c \in taken : Settle(c)
    \/ \E c \in taken' : c \in ChargeRecord /\ Take(c)

Spec == Init /\ [][Next]_trail

\* What follows from the trail: nobody is told of a payment unless the order was
\* confirmed, charged, and approved by the gateway on that very charge.
ToldIsBacked ==
    \A o \in told : \E c \in taken : c.order = o /\ c.verdict = "APPROVED" /\ o \in confirmed
================================================================================
