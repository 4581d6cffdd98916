------------------------- MODULE OrderLifecycleProofs -------------------------
(***************************************************************************)
(* In OrderLifecycle an order and its payment never disagree.              *)
(***************************************************************************)
EXTENDS OrderLifecycle, TLAPS

LifeInv == TypeInv /\ AgreementInv

\* An operation on one order leaves the others as they are; it is enough that
\* it keeps the agreement of its own.
LEMMA OthersAgree ==
  ASSUME LifeInv, NEW o \in Orders, TypeInv', Agreement(o)',
         \A x \in Orders \ {o} :
            status'[x] = status[x] /\ attempts'[x] = attempts[x] /\ payment'[x] = payment[x]
  PROVE  LifeInv'
BY DEF LifeInv, AgreementInv, Agreement

\* Each operation of the order keeps the agreement.
LEMMA OperationAgrees ==
  ASSUME LifeInv, NEW o \in Orders,
         \/ Create(o) \/ Confirm(o) \/ Cancel(o)
         \/ StartPayment(o) \/ LosePayment(o) \/ Approve(o) \/ Reject(o)
  PROVE  LifeInv'
<1>. USE DEF LifeInv, AgreementInv, TypeInv, OrderStatuses, PaymentStatuses, Absent
<1>1. CASE Create(o)
  <2>1. TypeInv' /\ Agreement(o)'
    BY <1>1 DEF Create, Agreement, GiveUpAfter
  <2>. QED BY <1>1, <2>1, OthersAgree DEF Create
<1>2. CASE Confirm(o)
  <2>1. TypeInv' /\ Agreement(o)'
    BY <1>2 DEF Confirm, MoveTo, CanTransition, ValidTransitions, Agreement, GiveUpAfter
  <2>. QED BY <1>2, <2>1, OthersAgree DEF Confirm, MoveTo
<1>3. CASE Cancel(o)
  <2>1. TypeInv' /\ Agreement(o)'
    BY <1>3 DEF Cancel, MoveTo, PaymentBecomes, CanTransition, ValidTransitions, Agreement, GiveUpAfter
  <2>. QED BY <1>3, <2>1, OthersAgree DEF Cancel, MoveTo, PaymentBecomes
<1>4. CASE StartPayment(o)
  <2>1. TypeInv' /\ Agreement(o)'
    BY <1>4 DEF StartPayment, MoveTo, PaymentBecomes, CanTransition, ValidTransitions, Agreement, GiveUpAfter
  <2>. QED BY <1>4, <2>1, OthersAgree DEF StartPayment, MoveTo, PaymentBecomes
<1>5. CASE LosePayment(o)
  <2>1. TypeInv' /\ Agreement(o)'
    BY <1>5 DEF LosePayment, MoveTo, CanTransition, ValidTransitions, Agreement, GiveUpAfter
  <2>. QED BY <1>5, <2>1, OthersAgree DEF LosePayment, MoveTo
<1>6. CASE Approve(o)
  <2>1. TypeInv' /\ Agreement(o)'
    BY <1>6 DEF Approve, MoveTo, PaymentBecomes, CanTransition, ValidTransitions, Agreement, GiveUpAfter
  <2>. QED BY <1>6, <2>1, OthersAgree DEF Approve, MoveTo, PaymentBecomes
<1>7. CASE Reject(o)
  <2>1. TypeInv' /\ Agreement(o)'
    BY <1>7 DEF Reject, MoveTo, PaymentBecomes, CanTransition, ValidTransitions, Agreement, GiveUpAfter
  <2>. QED BY <1>7, <2>1, OthersAgree DEF Reject, MoveTo, PaymentBecomes
<1>. QED BY <1>1, <1>2, <1>3, <1>4, <1>5, <1>6, <1>7

\* Along the transition table, with the payment changed in the same step, an
\* order is paid exactly when its payment is approved, a pending payment is
\* awaited, a voided one belongs to a cancelled order, and the third rejection
\* ends the order.
LEMMA LifeAgrees == Spec => [](TypeInv /\ AgreementInv)
<1>1. Init => LifeInv
  BY DEF Init, LifeInv
<1>2. LifeInv /\ [Next]_life => LifeInv'
  <2>1. LifeInv /\ UNCHANGED life => LifeInv'
    BY DEF LifeInv, TypeInv, AgreementInv, Agreement, life
  <2>. QED BY <2>1, OperationAgrees DEF Next
<1>. QED BY <1>1, <1>2, PTL DEF Spec, LifeInv
================================================================================
