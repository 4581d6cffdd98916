--------------------------- MODULE OrderLedgerProofs ---------------------------
(***************************************************************************)
(* The service implements PaymentLedger: its initial states map to initial *)
(* states of the ledger, and every step of a request, of the gateway, of a *)
(* client or of a crash maps to a step of the ledger or to none.  And it   *)
(* counts: events are sent no more often than their effects were           *)
(* committed, and payments opened no more often than the gateway was       *)
(* charged.  Both for any number of requests in flight, resting on IndInv  *)
(* and IndWork.                                                            *)
(***************************************************************************)
EXTENDS OrderWorkProofs, OrderRefinement, FiniteSetTheorems

(***************************************************************************)
(* The mapping, entry by entry.                                            *)
(***************************************************************************)

ChargeEntry(o, n) == [order |-> o, txn |-> n, verdict |-> charges[o][n].verdict]

VerdictEntry(o, i) == [order |-> o, txn |-> settled[o][i].txn, verdict |-> settled[o][i].verdict]

\* What is in the trail as taken, and as settled.
LEMMA Entries ==
  /\ \A c : c \in TakenCharges <=> \E o \in Orders : \E n \in DOMAIN charges[o] : c = ChargeEntry(o, n)
  /\ \A c : c \in SettledCharges <=> \E o \in Orders : \E i \in DOMAIN settled[o] : c = VerdictEntry(o, i)
BY DEF TakenCharges, SettledCharges, ChargeEntry, VerdictEntry

\* A verdict that the gateway reported is one on a charge it took.
LEMMA ReportedIsTaken ==
  ASSUME NEW o \in Orders, NEW n, NEW v, Reported(o, n, v)
  PROVE  [order |-> o, txn |-> n, verdict |-> v] \in TakenCharges
BY Entries DEF Reported, ChargeEntry

\* An approval on record is an approval in the trail.
LEMMA ApprovedHasApproval ==
  ASSUME NEW o \in Orders, Approved(o)
  PROVE  Ledger!HasApproval(o)
<1>1. PICK i \in DOMAIN settled[o] : settled[o][i].verdict = "APPROVED"
  BY DEF Approved
<1>2. /\ VerdictEntry(o, i) \in SettledCharges
      /\ VerdictEntry(o, i).order = o
      /\ VerdictEntry(o, i).verdict = "APPROVED"
  BY <1>1, Entries DEF VerdictEntry
<1>. QED BY <1>2 DEF Ledger!HasApproval

\* A step that touches none of the four tables and logs is not in the trail.
LEMMA Unseen ==
  ASSUME UNCHANGED <<queue, charges, commits, settled>>
  PROVE  UNCHANGED Ledger!trail
BY DEF Ledger!trail, ConfirmedOrders, TakenCharges, SettledCharges, PaidOrders, ToldOrders

(***************************************************************************)
(* The initial states, and what every state keeps of them.                 *)
(***************************************************************************)

LEMMA TrailBacked ==
  ASSUME IndInv, IndWork
  PROVE  Ledger!Init
<1>. USE DEF IndInv, IndWork, WorkTables, CommitsFirst
<1>1. ConfirmedOrders \subseteq Orders
  BY DEF ConfirmedOrders
<1>2. ASSUME NEW o \in Orders, NEW n \in DOMAIN charges[o]
      PROVE  /\ ChargeEntry(o, n) \in Ledger!ChargeRecord
             /\ o \in ConfirmedOrders
  <2>. DEFINE C == ChargeRecord
  <2>1. charges[o] \in Seq(C) /\ \A c \in C : c.verdict \in Verdicts
    BY DEF TypeOK, WorldOK, ChargeRecord
  <2>. HIDE DEF C
  <2>2. n \in Nat /\ charges[o][n].verdict \in Verdicts
    <3>1. n \in Nat /\ charges[o][n] \in C
      BY <1>2, <2>1
    <3>. QED BY <2>1, <3>1
  <2>3. charges[o] # <<>>
    BY <2>1, <1>2
  <2>. QED BY <2>2, <2>3 DEF ChargeEntry, Ledger!ChargeRecord, Verdicts, TablesInv,
         ChargedOnlyIfConfirmed, ConfirmedOrders
<1>3. TakenCharges \subseteq Ledger!ChargeRecord /\ \A c \in TakenCharges : c.order \in ConfirmedOrders
  <2>. SUFFICES ASSUME NEW c \in TakenCharges
                PROVE  c \in Ledger!ChargeRecord /\ c.order \in ConfirmedOrders
    OBVIOUS
  <2>1. PICK o \in Orders : \E n \in DOMAIN charges[o] : c = ChargeEntry(o, n)
    BY Entries
  <2>2. c.order = o
    BY <2>1 DEF ChargeEntry
  <2>. QED BY <1>2, <2>1, <2>2
<1>4. SettledCharges \subseteq TakenCharges
  <2>. SUFFICES ASSUME NEW c \in SettledCharges PROVE c \in TakenCharges
    OBVIOUS
  <2>1. PICK o \in Orders : \E i \in DOMAIN settled[o] : c = VerdictEntry(o, i)
    BY Entries
  <2>2. PICK i \in DOMAIN settled[o] : c = VerdictEntry(o, i)
    BY <2>1
  <2>3. Reported(o, settled[o][i].txn, settled[o][i].verdict)
    BY DEF VerdictsReported
  <2>. QED BY <2>2, <2>3, ReportedIsTaken DEF VerdictEntry
<1>5. PaidOrders \subseteq {o \in Orders : Ledger!HasApproval(o)}
  BY ApprovedHasApproval DEF PaidOrders, ApprovalsSettled
<1>6. ToldOrders \subseteq PaidOrders
  BY DEF ToldOrders, PaidOrders, MessagesCommitted, EventTypes
<1>. QED BY <1>1, <1>3, <1>4, <1>5, <1>6 DEF Ledger!Init

(***************************************************************************)
(* The steps.                                                              *)
(***************************************************************************)

\* The commit of an order confirms it, or pays it, or is none of the ledger's.
LEMMA OrderCommitStep ==
  ASSUME IndInv, IndWork, NEW r \in Requests, SaveCommit(r)
  PROVE  [Ledger!Next]_(Ledger!trail)
<1>. USE DEF IndInv, IndWork
<1>1. PICK o \in Orders : o = req[r].order
  BY SavingOrder DEF SaveCommit
<1>2. commits \in [Orders -> [EventTypes -> Nat]]
  BY DEF TypeOK, WorldOK
<1>3. UNCHANGED <<queue, charges, settled>>
  BY DEF SaveCommit, worldVars
<1>4. UNCHANGED <<TakenCharges, SettledCharges, ToldOrders>>
  BY <1>3 DEF TakenCharges, SettledCharges, ToldOrders
<1>5. CASE UNCHANGED commits
  BY <1>3, <1>5, Unseen
<1>6. CASE commits' = Bump(commits, r)
  <2>1. \A x \in Orders : \A e \in EventTypes :
           commits'[x][e] = IF x = o /\ e = EventOf(r) THEN commits[x][e] + 1 ELSE commits[x][e]
    BY <1>1, <1>2, <1>6, BumpCounts
  <2>2. CASE EventOf(r) = "ORDER_CONFIRMED"
    <3>1. ConfirmedOrders' = ConfirmedOrders \cup {o} /\ PaidOrders' = PaidOrders
      BY <1>2, <2>1, <2>2 DEF ConfirmedOrders, PaidOrders, EventTypes
    <3>. QED BY <1>4, <3>1 DEF Ledger!Next, Ledger!Confirm
  <2>3. CASE EventOf(r) = "PAYMENT_APPROVED"
    <3>1. ConfirmedOrders' = ConfirmedOrders /\ PaidOrders' = PaidOrders \cup {o}
      BY <1>2, <2>1, <2>3 DEF ConfirmedOrders, PaidOrders, EventTypes
    <3>2. Ledger!HasApproval(o)
      BY <1>1, <2>3, ApprovalSettled, ApprovedHasApproval
    <3>. QED BY <1>4, <3>1, <3>2 DEF Ledger!Next, Ledger!Pay
  <2>4. CASE EventOf(r) \notin {"ORDER_CONFIRMED", "PAYMENT_APPROVED"}
    <3>1. ConfirmedOrders' = ConfirmedOrders /\ PaidOrders' = PaidOrders
      BY <1>2, <2>1, <2>4 DEF ConfirmedOrders, PaidOrders, EventTypes
    <3>. QED BY <1>4, <3>1 DEF Ledger!trail
  <2>. QED BY <2>2, <2>3, <2>4
<1>. QED BY <1>5, <1>6 DEF SaveCommit

\* The commit of a payment settles the verdict of a callback, or is none of the
\* ledger's.
LEMMA PaymentCommitStep ==
  ASSUME IndInv, IndWork, IndWork', NEW r \in Requests, PaymentCommit(r)
  PROVE  [Ledger!Next]_(Ledger!trail)
<1>. USE DEF IndInv
<1>1. PICK o \in Orders : o = req[r].order
  BY SavingOrder DEF PaymentCommit
<1>2. UNCHANGED <<queue, charges>>
  BY DEF PaymentCommit, worldVars
<1>3. ConfirmedOrders' = ConfirmedOrders /\ PaidOrders' = PaidOrders
  <2>1. CASE UNCHANGED commits
    BY <2>1 DEF ConfirmedOrders, PaidOrders
  <2>2. CASE req[r].op = "initiate" /\ commits' = Bump(commits, r)
    <3>1. commits \in [Orders -> [EventTypes -> Nat]] /\ EventOf(r) = "PAYMENT_INITIATED"
      BY <2>2 DEF TypeOK, WorldOK, EventOf, EventFor
    <3>. QED BY <1>1, <2>2, <3>1, BumpCounts DEF ConfirmedOrders, PaidOrders, EventTypes
  <2>. QED BY <2>1, <2>2 DEF PaymentCommit
<1>4. UNCHANGED <<TakenCharges, ToldOrders>>
  BY <1>2 DEF TakenCharges, ToldOrders
<1>5. CASE req[r].op # "callback"
  <2>1. SettledCharges' = SettledCharges
    BY <1>5 DEF PaymentCommit, SettledCharges
  <2>. QED BY <1>3, <1>4, <2>1 DEF Ledger!trail
<1>6. CASE req[r].op = "callback"
  <2>. DEFINE c == [order |-> o, txn |-> req[r].txn, verdict |-> req[r].verdict]
  <2>1. c \in TakenCharges
    BY <1>1, <1>6, ReportedIsTaken DEF PaymentCommit, SessionInv, RequestOK
  <2>2. /\ \A x \in Orders \ {o} : settled'[x] = settled[x]
        /\ \A i \in DOMAIN settled'[o] :
              \/ i \in DOMAIN settled[o] /\ settled'[o][i] = settled[o][i]
              \/ settled'[o][i].txn = req[r].txn /\ settled'[o][i].verdict = req[r].verdict
    <3>. DEFINE s == [txn |-> req[r].txn, verdict |-> req[r].verdict, key |-> req[r].key]
    <3>1. s.txn = req[r].txn /\ s.verdict = req[r].verdict
      OBVIOUS
    <3>2. /\ \A x \in Orders \ {o} : settled'[x] = settled[x]
          /\ \A i \in DOMAIN settled'[o] :
                (i \in DOMAIN settled[o] /\ settled'[o][i] = settled[o][i]) \/ settled'[o][i] = s
      BY <1>1, <1>6, NowSettled
    <3>. HIDE DEF s
    <3>. QED BY <3>1, <3>2
  <2>3. \A x \in Orders : \A i \in DOMAIN settled[x] : i \in DOMAIN settled'[x] /\ settled'[x][i] = settled[x][i]
    BY SettledKeeps
  <2>4. \E i \in DOMAIN settled'[o] :
           settled'[o][i].txn = req[r].txn /\ settled'[o][i].verdict = req[r].verdict
    <3>1. VerdictSettled(r)'
      BY <1>6, NowSettled
    <3>2. req'[r] = req[r]
      BY DEF PaymentCommit
    <3>. QED BY <1>1, <3>1, <3>2 DEF VerdictSettled
  <2>5. SettledCharges' = SettledCharges \cup {c}
    <3>1. ASSUME NEW d, d \in SettledCharges' PROVE d \in SettledCharges \cup {c}
      BY <2>2, <3>1, Entries DEF SettledCharges, VerdictEntry
    <3>2. ASSUME NEW d \in SettledCharges PROVE d \in SettledCharges'
      BY <2>3, <3>2 DEF SettledCharges
    <3>3. c \in SettledCharges'
      BY <2>4 DEF SettledCharges
    <3>. QED BY <3>1, <3>2, <3>3
  <2>. HIDE DEF c
  <2>6. Ledger!Settle(c)
    BY <1>3, <1>4, <2>1, <2>5 DEF Ledger!Settle
  <2>. QED BY <2>1, <2>6 DEF Ledger!Next
<1>. QED BY <1>5, <1>6

\* The gateway takes a charge, with a number it has not used for that order.
LEMMA ChargeStep ==
  ASSUME IndInv, IndWork, NEW r \in Requests, pc[r] = "gateway",
         NEW hidden \in BOOLEAN, TakeCharge(r, hidden),
         UNCHANGED <<queue, commits, settled>>
  PROVE  [Ledger!Next]_(Ledger!trail)
<1>. USE DEF IndInv
<1>. DEFINE C == ChargeRecord
            Record(v) == [verdict |-> v, key |-> req[r].key, hidden |-> hidden]
<1>1. PICK o \in Orders : o = req[r].order
  BY SavingOrder
<1>2. req[r] \in Request /\ o \in ConfirmedOrders
  BY <1>1, RequestType DEF SessionInv, RequestOK, ConfirmationSeen, EverConfirmed, ConfirmedOrders, Path
<1>3. PICK v \in Verdicts : charges' = [charges EXCEPT ![o] = Append(@, Record(v))]
  BY <1>1 DEF TakeCharge
<1>. DEFINE n == Len(charges[o]) + 1
            c == [order |-> o, txn |-> n, verdict |-> v]
<1>4. charges \in [Orders -> Seq(C)] /\ Record(v) \in C
  BY <1>2 DEF TypeOK, WorldOK, Request, ChargeRecord
<1>5. /\ \A x \in Orders \ {o} : charges'[x] = charges[x]
      /\ DOMAIN charges'[o] = DOMAIN charges[o] \cup {n}
      /\ \A i \in DOMAIN charges[o] : charges'[o][i] = charges[o][i]
      /\ charges'[o][n].verdict = v
  <2>. DEFINE a == Record(v)
  <2>1. a \in C /\ a.verdict = v
    BY <1>4
  <2>. HIDE DEF a, C
  <2>2. charges'[o] = Append(charges[o], a) /\ charges[o] \in Seq(C)
    BY <1>3, <1>4 DEF a
  <2>. QED BY <1>3, <1>4, <2>1, <2>2
<1>6. c \in Ledger!ChargeRecord
  BY <1>4 DEF Ledger!ChargeRecord, Verdicts
<1>7. \A d \in TakenCharges : d.order = o => d.txn # n
  BY <1>4, Entries DEF ChargeEntry
<1>8. TakenCharges' = TakenCharges \cup {c}
  <2>1. ASSUME NEW d, d \in TakenCharges' PROVE d \in TakenCharges \cup {c}
    BY <1>5, <2>1 DEF TakenCharges
  <2>2. ASSUME NEW d \in TakenCharges PROVE d \in TakenCharges'
    BY <1>5, <2>2 DEF TakenCharges
  <2>3. c \in TakenCharges'
    BY <1>5 DEF TakenCharges
  <2>. QED BY <2>1, <2>2, <2>3
<1>9. UNCHANGED <<ConfirmedOrders, SettledCharges, PaidOrders, ToldOrders>>
  BY DEF ConfirmedOrders, SettledCharges, PaidOrders, ToldOrders
<1>10. c.order = o /\ c.txn = n
  OBVIOUS
<1>. HIDE DEF c, n
<1>11. Ledger!Take(c)
  BY <1>2, <1>7, <1>8, <1>9, <1>10 DEF Ledger!Take
<1>. QED BY <1>6, <1>8, <1>11 DEF Ledger!Next

\* A message is sent of what was committed.
LEMMA SendStep ==
  ASSUME IndInv, IndWork, NEW r \in Requests, Send(r)
  PROVE  [Ledger!Next]_(Ledger!trail)
<1>. USE DEF IndInv, IndWork
<1>1. PICK o \in Orders : o = req[r].order
  BY SavingOrder DEF Send
<1>2. queue \in [Orders -> [EventTypes -> Nat]]
  BY DEF TypeOK, WorldOK
<1>3. UNCHANGED <<charges, commits, settled>>
  BY DEF Send, ghostVars
<1>4. UNCHANGED <<ConfirmedOrders, TakenCharges, SettledCharges, PaidOrders>>
  BY <1>3 DEF ConfirmedOrders, TakenCharges, SettledCharges, PaidOrders
<1>5. CASE UNCHANGED queue
  BY <1>3, <1>5, Unseen
<1>6. CASE queue' = Bump(queue, r)
  <2>1. \A x \in Orders : \A e \in EventTypes :
           queue'[x][e] = IF x = o /\ e = EventOf(r) THEN queue[x][e] + 1 ELSE queue[x][e]
    BY <1>1, <1>2, <1>6, BumpCounts
  <2>2. CASE EventOf(r) = "PAYMENT_APPROVED"
    <3>1. ToldOrders' = ToldOrders \cup {o}
      BY <1>2, <2>1, <2>2 DEF ToldOrders, EventTypes
    <3>2. o \in PaidOrders
      BY <1>1, <2>2 DEF Send, WorkInv, WorkDone, Committed, PaidOrders
    <3>. QED BY <1>4, <3>1, <3>2 DEF Ledger!Next, Ledger!Tell
  <2>3. CASE EventOf(r) # "PAYMENT_APPROVED"
    <3>1. ToldOrders' = ToldOrders
      BY <1>2, <2>1, <2>3 DEF ToldOrders, EventTypes
    <3>. QED BY <1>4, <3>1 DEF Ledger!trail
  <2>. QED BY <2>2, <2>3
<1>. QED BY <1>5, <1>6 DEF Send

\* Every step of the service is a step of the ledger or invisible to it.
LEMMA LedgerStep == IndInv /\ IndWork /\ IndWork' /\ [Next]_vars => [Ledger!Next]_(Ledger!trail)
<1>. SUFFICES ASSUME IndInv, IndWork, IndWork', [Next]_vars PROVE [Ledger!Next]_(Ledger!trail)
  OBVIOUS
<1>1. CASE UNCHANGED Reports
  BY <1>1, Unseen DEF Reports
<1>2. ASSUME NEW r \in Requests, SaveCommit(r) PROVE [Ledger!Next]_(Ledger!trail)
  BY <1>2, OrderCommitStep
<1>3. ASSUME NEW r \in Requests, PaymentCommit(r) PROVE [Ledger!Next]_(Ledger!trail)
  BY <1>3, PaymentCommitStep
<1>4. ASSUME NEW r \in Requests, Send(r) PROVE [Ledger!Next]_(Ledger!trail)
  BY <1>4, SendStep
<1>5. ASSUME NEW r \in Requests, IdemSave(r) \/ OutboxCommit(r) PROVE [Ledger!Next]_(Ledger!trail)
  BY <1>5, Unseen DEF IdemSave, OutboxCommit, dbVars, worldVars, ghostVars
<1>6. ASSUME NEW r \in Requests, Calls(r)
      PROVE  [Ledger!Next]_(Ledger!trail)
  <2>1. pc[r] = "gateway" /\ ChargesOnce(r) /\ UNCHANGED <<queue, commits, settled>>
    BY <1>6, CallCharges DEF ghostVars
  <2>2. CASE UNCHANGED charges
    BY <2>1, <2>2, Unseen
  <2>3. ASSUME NEW hidden \in BOOLEAN, TakeCharge(r, hidden) PROVE [Ledger!Next]_(Ledger!trail)
    BY <2>1, <2>3, ChargeStep
  <2>. QED BY <2>1, <2>2, <2>3 DEF ChargesOnce
<1>. QED BY <1>1, <1>2, <1>3, <1>4, <1>5, <1>6, Writers DEF IndInv

(***************************************************************************)
(* The theorems.                                                           *)
(***************************************************************************)

\* The service implements the ledger: for every number of requests, orders,
\* keys and crashes, the trail of an order's money only grows and each entry is
\* backed by the one before it.
THEOREM MoneyTrail == Spec => MoneyTrailKept
<1>1. Init => Ledger!Init
  BY InitInv, InitWork, TrailBacked
<1>. QED BY <1>1, LedgerStep, Invariance, WorkInvariance, PTL DEF Spec, MoneyTrailKept, Ledger!Spec

\* Nobody is told of a payment unless the order was confirmed, charged, and
\* approved by the gateway on that very charge.
THEOREM ToldWasBacked == Spec => []Ledger!ToldIsBacked
<1>1. Ledger!Init => Ledger!ToldIsBacked
  BY DEF Ledger!Init, Ledger!ToldIsBacked, Ledger!HasApproval
<1>2. IndInv /\ IndWork => Ledger!ToldIsBacked
  BY <1>1, TrailBacked
<1>. QED BY <1>2, Invariance, WorkInvariance, PTL

(***************************************************************************)
(* Sets that differ by one element at most.                                *)
(***************************************************************************)

LEMMA DifferByOne ==
  ASSUME NEW S, NEW T, NEW x, IsFiniteSet(S), IsFiniteSet(T), S \ {x} = T \ {x}
  PROVE  /\ Cardinality(S) \in Nat /\ Cardinality(T) \in Nat
         /\ Cardinality(T) <= Cardinality(S) + 1
         /\ (x \in T => x \in S) => Cardinality(T) <= Cardinality(S)
         /\ x \in S /\ x \notin T => Cardinality(T) + 1 <= Cardinality(S)
<1>1. Cardinality(S) \in Nat /\ Cardinality(T) \in Nat
  BY FS_CardinalityType
<1>2. Cardinality(S \ {x}) = IF x \in S THEN Cardinality(S) - 1 ELSE Cardinality(S)
  BY FS_RemoveElement
<1>3. Cardinality(T \ {x}) = IF x \in T THEN Cardinality(T) - 1 ELSE Cardinality(T)
  BY FS_RemoveElement
<1>. QED BY <1>1, <1>2, <1>3

\* A count that stays below another: what is counted, with those that are going
\* to be, is at most b.
LEMMA CountStep ==
  ASSUME NEW S, NEW T, NEW x, IsFiniteSet(S), IsFiniteSet(T), S \ {x} = T \ {x},
         NEW a \in Nat, NEW newA \in Nat, NEW b \in Nat, NEW newB \in Nat,
         a + Cardinality(S) <= b,
         \/ (x \in T => x \in S) /\ newA = a /\ newB >= b
         \/ newA = a /\ newB = b + 1
         \/ x \in S /\ x \notin T /\ newA = a + 1 /\ newB = b
  PROVE  newA + Cardinality(T) <= newB
<1>1. /\ Cardinality(S) \in Nat /\ Cardinality(T) \in Nat
      /\ Cardinality(T) <= Cardinality(S) + 1
      /\ (x \in T => x \in S) => Cardinality(T) <= Cardinality(S)
      /\ x \in S /\ x \notin T => Cardinality(T) + 1 <= Cardinality(S)
  BY DifferByOne
<1>. QED BY <1>1

\* There are finitely many requests in flight.
LEMMA Countable ==
  /\ \A o, e : IsFiniteSet(Owing(o, e)) /\ IsFiniteSet(Openings(o))
  /\ \A o, e : IsFiniteSet(Owing(o, e)') /\ IsFiniteSet(Openings(o)')
<1>1. \A T \in SUBSET Requests : IsFiniteSet(T)
  BY StoreAssumption, FS_Subset
<1>. QED BY <1>1 DEF Owing, Openings

(***************************************************************************)
(* Who comes to owe an event, and who comes to open a payment.             *)
(***************************************************************************)

\* Round trips of the repositories.
LEMMA RepositoryOwes ==
  ASSUME TypeOK, NEW r \in Requests, SessionInv(r), RepositoryStep(r)
  PROVE  /\ Owes(r)' => Owes(r) \/ commits' = Bump(commits, r)
         /\ Opening(r)' => Opening(r) \/ GatewayAccepts(r)
<1>0. req'[r] = req[r]
  BY SameRequest
<1>1. CASE LoadRow(r)
  BY <1>0, <1>1 DEF TypeOK, LocalsOK, SessionInv, RequestOK, PaymentOK, SagaPhase, Path, Owes,
     Opening, orderLocal, flowLocal, LoadRow, Goto, Finish
<1>2. CASE LoadItems(r)
  BY <1>0, <1>2 DEF TypeOK, LocalsOK, SessionInv, RequestOK, PaymentOK, SagaPhase, Path, Owes,
     Opening, orderLocal, flowLocal, LoadItems, Goto, AfterLoad
<1>3. CASE LoadCached(r)
  BY <1>0, <1>3 DEF TypeOK, LocalsOK, SessionInv, RequestOK, PaymentOK, SagaPhase, Path, Owes,
     Opening, orderLocal, flowLocal, LoadCached, Goto, AfterLoad
<1>4. CASE SaveSelect(r)
  BY <1>0, <1>4 DEF TypeOK, LocalsOK, SessionInv, RequestOK, PaymentOK, SagaPhase, Path, Owes,
     Opening, orderLocal, flowLocal, SaveSelect, Goto
<1>5. CASE SaveCheck(r)
  BY <1>0, <1>5 DEF TypeOK, LocalsOK, SessionInv, RequestOK, PaymentOK, SagaPhase, Path, Owes,
     Opening, orderLocal, flowLocal, SaveCheck, CheckVersion, Goto, Finish
<1>6. CASE SaveCheckCached(r)
  BY <1>0, <1>6 DEF TypeOK, LocalsOK, SessionInv, RequestOK, PaymentOK, SagaPhase, Path, Owes,
     Opening, orderLocal, flowLocal, SaveCheckCached, CheckVersion, Goto, Finish
<1>7. CASE SaveCommit(r)
  BY <1>0, <1>7 DEF TypeOK, LocalsOK, SessionInv, RequestOK, PaymentOK, SagaPhase, Path, Owes,
     Opening, orderLocal, flowLocal, SaveCommit, Goto, AfterOrderSave
<1>8. CASE SaveFails(r)
  BY <1>0, <1>8 DEF TypeOK, LocalsOK, SessionInv, RequestOK, PaymentOK, SagaPhase, Path, Owes,
     Opening, orderLocal, flowLocal, SaveFails, Finish
<1>9. CASE InsertOrder(r)
  BY <1>0, <1>9 DEF TypeOK, LocalsOK, SessionInv, RequestOK, PaymentOK, SagaPhase, Path, Owes,
     Opening, orderLocal, flowLocal, InsertOrder, Goto, AfterOrderSave
<1>10. CASE PaymentSelect(r)
  BY <1>0, <1>10 DEF TypeOK, LocalsOK, SessionInv, RequestOK, PaymentOK, SagaPhase, Path, Owes,
     Opening, orderLocal, flowLocal, PaymentSelect, Goto
<1>11. CASE PaymentCommit(r)
  BY <1>0, <1>11 DEF TypeOK, LocalsOK, SessionInv, RequestOK, PaymentOK, SagaPhase, Path, Owes,
     Opening, orderLocal, flowLocal, PaymentCommit, Goto, AfterPaymentSave, Request, OpNames
<1>12. CASE PaymentInsertFails(r)
  BY <1>0, <1>12 DEF TypeOK, LocalsOK, SessionInv, RequestOK, PaymentOK, SagaPhase, Path, Owes,
     Opening, orderLocal, flowLocal, PaymentInsertFails, Finish
<1>13. CASE IdemGet(r)
  BY <1>0, <1>13 DEF TypeOK, LocalsOK, SessionInv, RequestOK, PaymentOK, SagaPhase, Path, Owes,
     Opening, orderLocal, flowLocal, IdemGet, Goto, Finish, AfterLookup
<1>14. CASE IdemSave(r)
  BY <1>0, <1>14 DEF TypeOK, LocalsOK, SessionInv, RequestOK, PaymentOK, SagaPhase, Path, Owes,
     Opening, orderLocal, flowLocal, IdemSave, Finish
<1>15. CASE Send(r)
  BY <1>0, <1>15 DEF TypeOK, LocalsOK, SessionInv, RequestOK, PaymentOK, SagaPhase, Path, Owes,
     Opening, orderLocal, flowLocal, Send, Goto
<1>16. CASE OutboxCommit(r)
  BY <1>0, <1>16 DEF TypeOK, LocalsOK, SessionInv, RequestOK, PaymentOK, SagaPhase, Path, Owes,
     Opening, orderLocal, flowLocal, OutboxCommit, Goto, AfterPublish, Conclude
<1>17. CASE Notify(r)
  BY <1>0, <1>17 DEF TypeOK, LocalsOK, SessionInv, RequestOK, PaymentOK, SagaPhase, Path, Owes,
     Opening, orderLocal, flowLocal, Notify, Goto, Finish, Conclude
<1>. QED
  BY <1>1, <1>2, <1>3, <1>4, <1>5, <1>6, <1>7, <1>8, <1>9, <1>10, <1>11, <1>12, <1>13, <1>14,
     <1>15, <1>16, <1>17 DEF RepositoryStep

\* Steps of the handlers.
LEMMA UseCaseOwes ==
  ASSUME TypeOK, NEW r \in Requests, SessionInv(r), UseCaseStep(r)
  PROVE  /\ Owes(r)' => Owes(r) \/ commits' = Bump(commits, r)
         /\ Opening(r)' => Opening(r) \/ GatewayAccepts(r)
<1>0. req'[r] = req[r]
  BY SameRequest
<1>1. CASE CheckCustomer(r)
  BY <1>0, <1>1 DEF TypeOK, LocalsOK, SessionInv, RequestOK, PaymentOK, SagaPhase, Path, Owes,
     Opening, orderLocal, flowLocal, CheckCustomer, CustomerAnswers, Goto, Finish
<1>2. CASE CheckNoActiveOrder(r)
  BY <1>0, <1>2 DEF TypeOK, LocalsOK, SessionInv, RequestOK, PaymentOK, SagaPhase, Path, Owes,
     Opening, orderLocal, flowLocal, CheckNoActiveOrder, Goto, Finish
<1>3. CASE AddProduct(r)
  BY <1>0, <1>3 DEF TypeOK, LocalsOK, SessionInv, RequestOK, PaymentOK, SagaPhase, Path, Owes,
     Opening, orderLocal, flowLocal, AddProduct, Goto, Finish
<1>4. CASE RemoveProduct(r)
  BY <1>0, <1>4 DEF TypeOK, LocalsOK, SessionInv, RequestOK, PaymentOK, SagaPhase, Path, Owes,
     Opening, orderLocal, flowLocal, RemoveProduct, Goto, Finish
<1>5. CASE SagaSelect(r)
  BY <1>0, <1>5 DEF TypeOK, LocalsOK, SessionInv, RequestOK, PaymentOK, SagaPhase, Path, Owes,
     Opening, orderLocal, flowLocal, SagaSelect, Goto
<1>6. CASE SagaCommit(r)
  BY <1>0, <1>6 DEF TypeOK, LocalsOK, SessionInv, RequestOK, PaymentOK, SagaPhase, Path, Owes,
     Opening, orderLocal, flowLocal, SagaCommit, Goto, Finish, AfterSagaSave
<1>7. CASE ValidateCustomer(r)
  BY <1>0, <1>7 DEF TypeOK, LocalsOK, SessionInv, RequestOK, PaymentOK, SagaPhase, Path, Owes,
     Opening, orderLocal, flowLocal, ValidateCustomer, Goto, Finish, FailPhase
<1>8. CASE FetchPrices(r)
  BY <1>0, <1>8 DEF TypeOK, LocalsOK, SessionInv, RequestOK, PaymentOK, SagaPhase, Path, Owes,
     Opening, orderLocal, flowLocal, FetchPrices, Goto, Finish, FailPhase
<1>9. CASE VoidPendingPayment(r)
  BY <1>0, <1>9 DEF TypeOK, LocalsOK, SessionInv, RequestOK, PaymentOK, SagaPhase, Path, Owes,
     Opening, orderLocal, flowLocal, VoidPendingPayment, Goto
<1>10. CASE ApplyCancel(r)
  BY <1>0, <1>10 DEF TypeOK, LocalsOK, SessionInv, RequestOK, PaymentOK, SagaPhase, Path, Owes,
     Opening, orderLocal, flowLocal, ApplyCancel, Goto, Finish
<1>11. CASE ReturnPaymentOfKey(r)
  BY <1>0, <1>11 DEF TypeOK, LocalsOK, SessionInv, RequestOK, PaymentOK, SagaPhase, Path, Owes,
     Opening, orderLocal, flowLocal, ReturnPaymentOfKey, Goto, Finish
<1>12. CASE PreparePayment(r)
  BY <1>0, <1>12 DEF TypeOK, LocalsOK, SessionInv, RequestOK, PaymentOK, SagaPhase, Path, Owes,
     Opening, orderLocal, flowLocal, PreparePayment, Goto, Finish
<1>13. CASE GatewayAccepts(r)
  BY <1>0, <1>13 DEF TypeOK, LocalsOK, SessionInv, RequestOK, PaymentOK, SagaPhase, Path, Owes,
     Opening, orderLocal, flowLocal, GatewayAccepts, Goto
<1>14. CASE GatewayUnavailable(r)
  BY <1>0, <1>14 DEF TypeOK, LocalsOK, SessionInv, RequestOK, PaymentOK, SagaPhase, Path, Owes,
     Opening, orderLocal, flowLocal, GatewayUnavailable
<1>15. CASE GatewayRefuses(r)
  BY <1>0, <1>15 DEF TypeOK, LocalsOK, SessionInv, RequestOK, PaymentOK, SagaPhase, Path, Owes,
     Opening, orderLocal, flowLocal, GatewayRefuses
<1>16. CASE GatewayLost(r)
  BY <1>0, <1>16 DEF TypeOK, LocalsOK, SessionInv, RequestOK, PaymentOK, SagaPhase, Path, Owes,
     Opening, orderLocal, flowLocal, GatewayLost, Finish
<1>17. CASE RestorePreviousStatus(r)
  BY <1>0, <1>17 DEF TypeOK, LocalsOK, SessionInv, RequestOK, PaymentOK, SagaPhase, Path, Owes,
     Opening, orderLocal, flowLocal, RestorePreviousStatus, Goto, Finish
<1>18. CASE LoadPayment(r)
  BY <1>0, <1>18 DEF TypeOK, LocalsOK, SessionInv, RequestOK, PaymentOK, SagaPhase, Path, Owes,
     Opening, orderLocal, flowLocal, LoadPayment, Goto, Finish
<1>19. CASE ApplyVerdict(r)
  BY <1>0, <1>19 DEF TypeOK, LocalsOK, SessionInv, RequestOK, PaymentOK, SagaPhase, Path, Owes,
     Opening, orderLocal, flowLocal, ApplyVerdict, Goto, Finish
<1>. QED
  BY <1>1, <1>2, <1>3, <1>4, <1>5, <1>6, <1>7, <1>8, <1>9, <1>10, <1>11, <1>12, <1>13, <1>14,
     <1>15, <1>16, <1>17, <1>18, <1>19 DEF UseCaseStep

\* A request that arrives, or is answered, owes nothing.
LEMMA EdgesOwe ==
  ASSUME TypeOK, NEW r \in Requests, Arrive(r) \/ Respond(r)
  PROVE  ~Owes(r)' /\ ~Opening(r)'
<1>1. CASE Arrive(r)
  <2>1. PICK request, first, firstStage : Brings(r, request, first, firstStage)
    BY <1>1, Arrival
  <2>2. pc'[r] = first /\ first \in {"customer", "load", "idem_get", "pay_by_key", "pay_load"}
    BY <2>1 DEF Brings, Receive, TypeOK, LocalsOK
  <2>. QED BY <2>2 DEF Owes, Opening
<1>2. CASE Respond(r)
  BY <1>2 DEF Respond, EndSessions, Owes, Opening
<1>. QED BY <1>1, <1>2

(***************************************************************************)
(* One step of one request.                                                *)
(***************************************************************************)

\* Counts are numbers.
LEMMA CountTypes ==
  ASSUME NEW o \in Orders
  PROVE  /\ TypeOK => /\ commits[o]["PAYMENT_INITIATED"] \in Nat /\ Charged(o) \in Nat
                      /\ \A e \in EventTypes : queue[o][e] \in Nat /\ commits[o][e] \in Nat
         /\ TypeOK' => commits'[o]["PAYMENT_INITIATED"] \in Nat /\ Charged(o)' \in Nat
<1>1. TypeOK => Charged(o) \in Nat
  BY DEF TypeOK, WorldOK, Charged
<1>2. TypeOK' => Charged(o)' \in Nat
  BY DEF TypeOK, WorldOK, Charged
<1>3. /\ TypeOK => \A e \in EventTypes : queue[o][e] \in Nat /\ commits[o][e] \in Nat
      /\ TypeOK' => \A e \in EventTypes : commits'[o][e] \in Nat
  BY DEF TypeOK, WorldOK
<1>. QED BY <1>1, <1>2, <1>3 DEF EventTypes

\* The sets of requests change by that request only.
LEMMA OneRequest ==
  ASSUME NEW r \in Requests, Others(r), NEW o \in Orders
  PROVE  /\ \A e \in EventTypes : Owing(o, e) \ {r} = Owing(o, e)' \ {r}
         /\ Openings(o) \ {r} = Openings(o)' \ {r}
BY DEF Others, Owing, Openings, Owes, Opening, EventOf, EventFor

\* The count of one event of one order.
LEMMA EventCounted ==
  ASSUME TypeOK, TypeOK', NEW r \in Requests, Others(r), NEW o \in Orders, NEW e \in EventTypes,
         queue[o][e] + Cardinality(Owing(o, e)) <= commits[o][e],
         \/ /\ r \in Owing(o, e)' => r \in Owing(o, e)
            /\ queue'[o][e] = queue[o][e] /\ commits'[o][e] >= commits[o][e]
         \/ queue'[o][e] = queue[o][e] /\ commits'[o][e] = commits[o][e] + 1
         \/ /\ r \in Owing(o, e) /\ r \notin Owing(o, e)'
            /\ queue'[o][e] = queue[o][e] + 1 /\ commits'[o][e] = commits[o][e]
  PROVE  queue'[o][e] + Cardinality(Owing(o, e)') <= commits'[o][e]
<1>1. /\ queue[o][e] \in Nat /\ commits[o][e] \in Nat
      /\ queue'[o][e] \in Nat /\ commits'[o][e] \in Nat
  BY DEF TypeOK, WorldOK
<1>2. IsFiniteSet(Owing(o, e)) /\ IsFiniteSet(Owing(o, e)')
  BY Countable
<1>3. Owing(o, e) \ {r} = Owing(o, e)' \ {r}
  BY OneRequest
<1>. QED BY <1>1, <1>2, <1>3, CountStep

\* The count of the charges of one order.
LEMMA ChargeCounted ==
  ASSUME TypeOK, TypeOK', NEW r \in Requests, Others(r), NEW o \in Orders,
         commits[o]["PAYMENT_INITIATED"] + Cardinality(Openings(o)) <= Charged(o),
         \/ /\ r \in Openings(o)' => r \in Openings(o)
            /\ commits'[o]["PAYMENT_INITIATED"] = commits[o]["PAYMENT_INITIATED"]
            /\ Charged(o)' >= Charged(o)
         \/ /\ commits'[o]["PAYMENT_INITIATED"] = commits[o]["PAYMENT_INITIATED"]
            /\ Charged(o)' = Charged(o) + 1
         \/ /\ r \in Openings(o) /\ r \notin Openings(o)'
            /\ commits'[o]["PAYMENT_INITIATED"] = commits[o]["PAYMENT_INITIATED"] + 1
            /\ Charged(o)' = Charged(o)
  PROVE  commits'[o]["PAYMENT_INITIATED"] + Cardinality(Openings(o)') <= Charged(o)'
<1>1. /\ commits[o]["PAYMENT_INITIATED"] \in Nat /\ commits'[o]["PAYMENT_INITIATED"] \in Nat
      /\ Charged(o) \in Nat /\ Charged(o)' \in Nat
  BY CountTypes
<1>2. IsFiniteSet(Openings(o)) /\ IsFiniteSet(Openings(o)')
  BY Countable
<1>3. Openings(o) \ {r} = Openings(o)' \ {r}
  BY OneRequest
<1>. QED BY <1>1, <1>2, <1>3, CountStep

\* A step of a request that touches neither queue, commits nor charges.
LEMMA QuietCount ==
  ASSUME CountInv, TypeOK, TypeOK', NEW r \in Requests, Others(r),
         Owes(r)' => Owes(r) /\ req'[r] = req[r],
         Opening(r)' => Opening(r) /\ req'[r] = req[r],
         UNCHANGED <<queue, commits, charges>>
  PROVE  EventsCounted' /\ ChargesCounted'
<1>1. ASSUME NEW o \in Orders, NEW e \in EventTypes
      PROVE  queue'[o][e] + Cardinality(Owing(o, e)') <= commits'[o][e]
  <2>1. r \in Owing(o, e)' => r \in Owing(o, e)
    BY DEF Owing, EventOf, EventFor
  <2>2. commits[o][e] \in Nat
    BY DEF TypeOK, WorldOK
  <2>. QED BY <2>1, <2>2, EventCounted DEF CountInv, EventsCounted
<1>2. ASSUME NEW o \in Orders
      PROVE  commits'[o]["PAYMENT_INITIATED"] + Cardinality(Openings(o)') <= Charged(o)'
  <2>1. r \in Openings(o)' => r \in Openings(o)
    BY DEF Openings
  <2>2. Charged(o) \in Nat /\ Charged(o)' = Charged(o)
    BY CountTypes DEF Charged
  <2>. QED BY <2>1, <2>2, ChargeCounted DEF CountInv, ChargesCounted
<1>. QED BY <1>1, <1>2 DEF EventsCounted, ChargesCounted

\* A commit counts its effect before its event is owed.
LEMMA CommitCount ==
  ASSUME CountInv, TypeOK, TypeOK', NEW r \in Requests, Others(r), SessionInv(r),
         \/ SaveCommit(r) /\ req[r].op \in {"confirm", "cancel", "callback"}
         \/ PaymentCommit(r) /\ req[r].op = "initiate",
         commits' = Bump(commits, r)
  PROVE  EventsCounted' /\ ChargesCounted'
<1>0. req[r].order \in Orders /\ req'[r] = req[r] /\ EventOf(r)' = EventOf(r)
  BY SavingOrder DEF SaveCommit, PaymentCommit, EventOf, EventFor
<1>1. UNCHANGED <<queue, charges>>
  BY DEF SaveCommit, PaymentCommit, worldVars
<1>2. commits \in [Orders -> [EventTypes -> Nat]]
  BY DEF TypeOK, WorldOK
<1>3. \A x \in Orders : \A e \in EventTypes :
         commits'[x][e] = IF x = req[r].order /\ e = EventOf(r) THEN commits[x][e] + 1 ELSE commits[x][e]
  BY <1>0, <1>2, BumpCounts
<1>4. ASSUME NEW o \in Orders, NEW e \in EventTypes
      PROVE  queue'[o][e] + Cardinality(Owing(o, e)') <= commits'[o][e]
  <2>1. CASE o = req[r].order /\ e = EventOf(r)
    BY <1>1, <1>3, <2>1, EventCounted DEF CountInv, EventsCounted
  <2>2. CASE ~(o = req[r].order /\ e = EventOf(r))
    <3>1. r \notin Owing(o, e)'
      BY <1>0, <2>2 DEF Owing
    <3>. QED BY <1>1, <1>2, <1>3, <2>2, <3>1, EventCounted DEF CountInv, EventsCounted
  <2>. QED BY <2>1, <2>2
<1>5. ASSUME NEW o \in Orders
      PROVE  commits'[o]["PAYMENT_INITIATED"] + Cardinality(Openings(o)') <= Charged(o)'
  <2>1. ~Opening(r)'
    BY <1>0 DEF SaveCommit, PaymentCommit, TypeOK, LocalsOK, Goto, AfterOrderSave,
       AfterPaymentSave, Opening
  <2>2. r \notin Openings(o)'
    BY <2>1 DEF Openings
  <2>3. EventOf(r) = "PAYMENT_INITIATED" => Opening(r)
    BY DEF EventOf, EventFor, SaveCommit, PaymentCommit, Opening, SessionInv, RequestOK, Request, OpNames, Path
  <2>4. "PAYMENT_INITIATED" \in EventTypes /\ Charged(o) \in Nat /\ Charged(o)' = Charged(o)
    BY <1>1, CountTypes DEF EventTypes, Charged
  <2>5. CASE o = req[r].order /\ EventOf(r) = "PAYMENT_INITIATED"
    <3>1. r \in Openings(o)
      BY <2>3, <2>5 DEF Openings
    <3>. QED BY <1>1, <1>3, <2>2, <2>4, <2>5, <3>1, ChargeCounted DEF CountInv, ChargesCounted
  <2>6. CASE ~(o = req[r].order /\ EventOf(r) = "PAYMENT_INITIATED")
    BY <1>1, <1>3, <2>2, <2>4, <2>6, ChargeCounted DEF CountInv, ChargesCounted
  <2>. QED BY <2>5, <2>6
<1>. QED BY <1>4, <1>5 DEF EventsCounted, ChargesCounted

\* A message is sent by a request that owed it and does no more.
LEMMA SendCount ==
  ASSUME CountInv, TypeOK, TypeOK', NEW r \in Requests, Others(r), SessionInv(r),
         Send(r), queue' = Bump(queue, r)
  PROVE  EventsCounted' /\ ChargesCounted'
<1>0. req[r].order \in Orders /\ req'[r] = req[r] /\ EventOf(r)' = EventOf(r) /\ Owes(r)
  BY SavingOrder DEF Send, EventOf, EventFor, Owes
<1>1. UNCHANGED <<commits, charges>> /\ pc'[r] = "outbox_commit"
  BY DEF Send, ghostVars, TypeOK, LocalsOK, Goto
<1>2. queue \in [Orders -> [EventTypes -> Nat]]
  BY DEF TypeOK, WorldOK
<1>3. \A x \in Orders : \A e \in EventTypes :
         queue'[x][e] = IF x = req[r].order /\ e = EventOf(r) THEN queue[x][e] + 1 ELSE queue[x][e]
  BY <1>0, <1>2, BumpCounts
<1>4. ~Owes(r)' /\ ~Opening(r)'
  BY <1>1 DEF Owes, Opening
<1>5. ASSUME NEW o \in Orders, NEW e \in EventTypes
      PROVE  queue'[o][e] + Cardinality(Owing(o, e)') <= commits'[o][e]
  <2>1. r \notin Owing(o, e)' /\ commits[o][e] \in Nat
    BY <1>4 DEF Owing, TypeOK, WorldOK
  <2>2. CASE o = req[r].order /\ e = EventOf(r)
    <3>1. r \in Owing(o, e)
      BY <1>0, <2>2 DEF Owing
    <3>. QED BY <1>1, <1>3, <2>1, <2>2, <3>1, EventCounted DEF CountInv, EventsCounted
  <2>3. CASE ~(o = req[r].order /\ e = EventOf(r))
    BY <1>1, <1>3, <2>1, <2>3, EventCounted DEF CountInv, EventsCounted
  <2>. QED BY <2>2, <2>3
<1>6. ASSUME NEW o \in Orders
      PROVE  commits'[o]["PAYMENT_INITIATED"] + Cardinality(Openings(o)') <= Charged(o)'
  <2>1. r \notin Openings(o)' /\ Charged(o) \in Nat /\ Charged(o)' = Charged(o)
    BY <1>1, <1>4, CountTypes DEF Openings, Charged
  <2>. QED BY <1>1, <2>1, ChargeCounted DEF CountInv, ChargesCounted
<1>. QED BY <1>5, <1>6 DEF EventsCounted, ChargesCounted

\* A charge is counted before the payment it is for is opened.
LEMMA ChargeCount ==
  ASSUME CountInv, TypeOK, TypeOK', NEW r \in Requests, Others(r), SessionInv(r),
         Calls(r), NEW hidden \in BOOLEAN, TakeCharge(r, hidden)
  PROVE  EventsCounted' /\ ChargesCounted'
<1>. DEFINE C == ChargeRecord
            Record(v) == [verdict |-> v, key |-> req[r].key, hidden |-> hidden]
<1>0. PICK x \in Orders : x = req[r].order
  BY SavingOrder, CallCharges
<1>1. /\ UNCHANGED <<queue, commits, req>>
      /\ pc'[r] \in {"pay_select", "gateway", "load", "done"}
  <2>1. UNCHANGED <<queue, commits>>
    BY CallCharges DEF ghostVars
  <2>2. UNCHANGED req /\ pc'[r] \in {"pay_select", "gateway", "load", "done"}
    BY DEF Calls, GatewayAccepts, GatewayUnavailable, GatewayRefuses, GatewayLost, TypeOK,
       LocalsOK, Goto, Finish
  <2>. QED BY <2>1, <2>2
<1>2. ~Owes(r)'
  BY <1>1 DEF Owes
<1>3. ASSUME NEW o \in Orders, NEW e \in EventTypes
      PROVE  queue'[o][e] + Cardinality(Owing(o, e)') <= commits'[o][e]
  <2>1. r \notin Owing(o, e)' /\ commits[o][e] \in Nat
    BY <1>2 DEF Owing, TypeOK, WorldOK
  <2>. QED BY <1>1, <2>1, EventCounted DEF CountInv, EventsCounted
<1>4. PICK v \in Verdicts : charges' = [charges EXCEPT ![x] = Append(@, Record(v))]
  BY <1>0 DEF TakeCharge
<1>5. charges \in [Orders -> Seq(C)]
  BY DEF TypeOK, WorldOK, ChargeRecord
<1>. HIDE DEF C
<1>6. Charged(x)' = Charged(x) + 1 /\ \A o \in Orders \ {x} : Charged(o)' = Charged(o)
  <2>. DEFINE a == Record(v)
  <2>1. charges' = [charges EXCEPT ![x] = Append(@, a)]
    BY <1>4
  <2>2. a \in C
    BY <1>0, CallCharges, RequestType DEF C, ChargeRecord, SessionInv, RequestOK, Request
  <2>. HIDE DEF a
  <2>. QED BY <1>5, <2>1, <2>2 DEF Charged
<1>7. ASSUME NEW o \in Orders
      PROVE  commits'[o]["PAYMENT_INITIATED"] + Cardinality(Openings(o)') <= Charged(o)'
  <2>1. CASE o = x
    BY <1>1, <1>6, <2>1, ChargeCounted DEF CountInv, ChargesCounted
  <2>2. CASE o # x
    <3>1. r \notin Openings(o)' /\ Charged(o) \in Nat
      BY <1>0, <1>1, <2>2, CountTypes DEF Openings
    <3>. QED BY <1>1, <1>6, <2>2, <3>1, ChargeCounted DEF CountInv, ChargesCounted
  <2>. QED BY <2>1, <2>2
<1>. QED BY <1>3, <1>7 DEF EventsCounted, ChargesCounted

\* So any step of a request.
LEMMA RequestCount ==
  ASSUME CountInv, TypeOK, TypeOK', NEW r \in Requests, SessionInv(r), RepositoryStep(r) \/ UseCaseStep(r)
  PROVE  EventsCounted' /\ ChargesCounted'
<1>1. Others(r) /\ req'[r] = req[r]
  BY RepositoryOthers, UseCaseOthers, SameRequest
<1>2. /\ Owes(r)' => Owes(r) \/ commits' = Bump(commits, r)
      /\ Opening(r)' => Opening(r) \/ GatewayAccepts(r)
  BY RepositoryOwes, UseCaseOwes
<1>3. CASE /\ \/ SaveCommit(r) /\ req[r].op \in {"confirm", "cancel", "callback"}
              \/ PaymentCommit(r) /\ req[r].op = "initiate"
           /\ commits' = Bump(commits, r)
  BY <1>1, <1>3, CommitCount
<1>4. CASE Send(r) /\ queue' = Bump(queue, r)
  BY <1>1, <1>4, SendCount
<1>5. ASSUME Calls(r), NEW hidden \in BOOLEAN, TakeCharge(r, hidden)
      PROVE  EventsCounted' /\ ChargesCounted'
  BY <1>1, <1>5, ChargeCount
<1>6. CASE UNCHANGED <<queue, commits, charges>>
  <2>1. CASE commits' = Bump(commits, r)
    <3>1. req[r].order \in Orders /\ commits \in [Orders -> [EventTypes -> Nat]]
      BY SameRequest DEF TypeOK, WorldOK
    <3>2. commits'[req[r].order][EventOf(r)] = commits[req[r].order][EventOf(r)] + 1
      BY <2>1, <3>1, BumpCounts, EventOfType
    <3>3. commits[req[r].order][EventOf(r)] \in Nat
      BY <3>1, EventOfType
    <3>. QED BY <1>6, <3>2, <3>3
  <2>2. CASE GatewayAccepts(r)
    BY <1>5, <2>2 DEF Calls, GatewayAccepts, Charge
  <2>3. CASE commits' # Bump(commits, r) /\ ~GatewayAccepts(r)
    BY <1>1, <1>2, <1>6, <2>3, QuietCount
  <2>. QED BY <2>1, <2>2, <2>3
<1>7. \/ UNCHANGED <<queue, commits, charges>>
      \/ SaveCommit(r) \/ PaymentCommit(r) \/ Send(r) \/ Calls(r)
  <2>1. CASE RepositoryStep(r)
    BY <2>1, RepositoryWriters DEF Reports, IdemSave, OutboxCommit, worldVars, ghostVars
  <2>2. CASE UseCaseStep(r)
    BY <2>2, UseCaseWriters DEF Reports
  <2>. QED BY <2>1, <2>2
<1>8. CASE SaveCommit(r) \/ PaymentCommit(r)
  <2>1. /\ UNCHANGED <<queue, charges>>
        /\ \/ commits' = commits
           \/ /\ commits' = Bump(commits, r)
              /\ \/ SaveCommit(r) /\ req[r].op \in {"confirm", "cancel", "callback"}
                 \/ PaymentCommit(r) /\ req[r].op = "initiate"
    BY <1>8 DEF SaveCommit, PaymentCommit, worldVars
  <2>. QED BY <1>3, <1>6, <1>8, <2>1
<1>9. CASE Send(r)
  BY <1>4, <1>6, <1>9 DEF Send, ghostVars
<1>10. CASE Calls(r)
  BY <1>5, <1>6, <1>10, CallCharges DEF ChargesOnce, ghostVars
<1>. QED BY <1>6, <1>7, <1>8, <1>9, <1>10

(***************************************************************************)
(* The invariant.                                                          *)
(***************************************************************************)

\* Every step keeps the counts of messages and charges.
LEMMA CountsKept ==
  ASSUME CountInv, IndInv, TypeOK', [Next]_vars
  PROVE  EventsCounted' /\ ChargesCounted'
<1>. USE DEF IndInv
<1>1. ASSUME NEW r \in Requests, RepositoryStep(r) \/ UseCaseStep(r)
      PROVE  EventsCounted' /\ ChargesCounted'
  BY <1>1, RequestCount
<1>2. ASSUME NEW r \in Requests, Arrive(r) \/ Respond(r)
      PROVE  EventsCounted' /\ ChargesCounted'
  <2>1. Others(r) /\ ~Owes(r)' /\ ~Opening(r)'
    BY <1>2, ArriveOthers, RespondOthers, EdgesOwe
  <2>2. UNCHANGED <<queue, commits, charges>>
    <3>1. CASE Arrive(r)
      <4>1. PICK request, first, firstStage : Receive(r, request, first, firstStage)
        BY <3>1, Arrival DEF Brings
      <4>. QED BY <4>1 DEF Receive, worldVars, ghostVars
    <3>2. CASE Respond(r)
      BY <3>2 DEF Respond, worldVars, ghostVars
    <3>. QED BY <1>2, <3>1, <3>2
  <2>. QED BY <2>1, <2>2, QuietCount
<1>3. CASE Crash
  <2>1. UNCHANGED <<queue, commits, charges>> /\ \A r \in Requests : pc'[r] = "idle"
    BY <1>3 DEF Crash, EndSessions, worldVars, ghostVars
  <2>2. \A o \in Orders : /\ \A e \in EventTypes : Owing(o, e)' = {}
                          /\ Openings(o)' = {}
    BY <2>1 DEF Owing, Openings, Owes, Opening
  <2>3. \A o \in Orders : /\ Charged(o) \in Nat /\ Cardinality(Openings(o)) \in Nat
                          /\ commits[o]["PAYMENT_INITIATED"] \in Nat
                          /\ \A e \in EventTypes : /\ queue[o][e] \in Nat /\ commits[o][e] \in Nat
                                                   /\ Cardinality(Owing(o, e)) \in Nat
    <3>1. \A o \in Orders : \A e \in EventTypes :
             Cardinality(Openings(o)) \in Nat /\ Cardinality(Owing(o, e)) \in Nat
      BY Countable, FS_CardinalityType
    <3>2. EventTypes # {}
      BY DEF EventTypes
    <3>. QED BY <3>1, <3>2, CountTypes
  <2>. DEFINE zero == Cardinality({})
  <2>0. zero = 0
    BY FS_EmptySet
  <2>. HIDE DEF zero
  <2>4. ASSUME NEW o \in Orders, NEW e \in EventTypes
        PROVE  queue'[o][e] + Cardinality(Owing(o, e)') <= commits'[o][e]
    <3>1. queue[o][e] + Cardinality(Owing(o, e)) <= commits[o][e] /\ Owing(o, e)' = {}
      BY <2>2 DEF CountInv, EventsCounted
    <3>2. queue[o][e] \in Nat /\ commits[o][e] \in Nat /\ Cardinality(Owing(o, e)) \in Nat
      BY <2>3
    <3>. QED BY <2>0, <2>1, <3>1, <3>2 DEF zero
  <2>5. ASSUME NEW o \in Orders
        PROVE  commits'[o]["PAYMENT_INITIATED"] + Cardinality(Openings(o)') <= Charged(o)'
    <3>1. commits[o]["PAYMENT_INITIATED"] + Cardinality(Openings(o)) <= Charged(o) /\ Openings(o)' = {}
      BY <2>2 DEF CountInv, ChargesCounted
    <3>2. /\ commits[o]["PAYMENT_INITIATED"] \in Nat /\ Charged(o) \in Nat
          /\ Cardinality(Openings(o)) \in Nat
      BY <2>3
    <3>3. Charged(o)' = Charged(o)
      BY <2>1 DEF Charged
    <3>. QED BY <2>0, <2>1, <3>1, <3>2, <3>3 DEF zero
  <2>. QED BY <2>4, <2>5 DEF EventsCounted, ChargesCounted
<1>4. CASE UNCHANGED vars
  <2>1. UNCHANGED <<queue, commits, charges, pc, req, stage>>
    BY <1>4 DEF vars, worldVars, ghostVars, flowLocal
  <2>2. \A o \in Orders : /\ \A e \in EventTypes : Owing(o, e)' = Owing(o, e)
                          /\ Openings(o)' = Openings(o)
    BY <2>1 DEF Owing, Openings, Owes, Opening, EventOf, EventFor
  <2>. QED BY <2>1, <2>2 DEF CountInv, EventsCounted, ChargesCounted, Charged
<1>. QED BY <1>1, <1>2, <1>3, <1>4 DEF Next, Serve, Quiet

\* A row is put into the outbox by a request that has committed its effect.
LEMMA RowsKept ==
  ASSUME RowsCommitted, IndInv, IndWork, WorkGrows, [Next]_vars
  PROVE  RowsCommitted'
<1>. USE DEF IndInv, IndWork
<1>1. \A row \in outbox : commits'[row.order][row.type] > 0
  BY DEF RowsCommitted, WorkGrows, TypeOK, DatabaseOK
<1>2. CASE UNCHANGED outbox
  BY <1>1, <1>2 DEF RowsCommitted
<1>3. ASSUME NEW r \in Requests, OutboxCommit(r)
      PROVE  RowsCommitted'
  <2>. DEFINE new == [order |-> req[r].order, type |-> EventOf(r), published |-> stage[r] = "sent"]
  <2>1. outbox' = outbox \cup {new} /\ UNCHANGED commits
    BY <1>3 DEF OutboxCommit, ghostVars
  <2>2. commits[new.order][new.type] > 0
    BY <1>3 DEF OutboxCommit, WorkInv, WorkDone, Committed
  <2>. HIDE DEF new
  <2>. QED BY <1>1, <2>1, <2>2 DEF RowsCommitted
<1>4. UNCHANGED outbox \/ \E r \in Requests : OutboxCommit(r)
  BY Writers, CallCharges DEF Reports, SaveCommit, PaymentCommit, IdemSave, Send, dbVars
<1>. QED BY <1>2, <1>3, <1>4

\* At the start nobody owes anything.
LEMMA InitCount == Init => CountInv
<1>. SUFFICES ASSUME Init PROVE CountInv
  OBVIOUS
<1>1. TypeOK
  BY InitType
<1>2. \A o \in Orders : /\ \A e \in EventTypes : Owing(o, e) = {}
                        /\ Openings(o) = {}
  BY DEF Init, Owing, Openings, Owes, Opening
<1>3. EventsCounted
  <2>. SUFFICES ASSUME NEW o \in Orders, NEW e \in EventTypes
                PROVE  queue[o][e] + Cardinality(Owing(o, e)) <= commits[o][e]
    BY DEF EventsCounted
  <2>1. queue[o][e] = commits[o][e]
    BY DEF Init
  <2>2. commits[o][e] \in Nat
    BY <1>1 DEF TypeOK, WorldOK
  <2>. QED BY <1>2, <2>1, <2>2, FS_EmptySet
<1>4. ChargesCounted
  <2>. SUFFICES ASSUME NEW o \in Orders
                PROVE  commits[o]["PAYMENT_INITIATED"] + Cardinality(Openings(o)) <= Charged(o)
    BY DEF ChargesCounted
  <2>1. commits[o]["PAYMENT_INITIATED"] = (IF WasRejectedTwice(o) THEN 2 ELSE 0)
    BY DEF Init, GivenEvents, EventTypes
  <2>2. Charged(o) = IF WasRejectedTwice(o) THEN 2 ELSE 0
    BY DEF Init, Charged
  <2>3. Cardinality({}) = 0 /\ Openings(o) = {}
    BY <1>2, FS_EmptySet
  <2>. QED BY <2>1, <2>2, <2>3
<1>5. RowsCommitted
  BY DEF Init, RowsCommitted
<1>. QED BY <1>3, <1>4, <1>5 DEF CountInv

\* CountInv is inductive relative to the other two invariants.
LEMMA StepCount == CountInv /\ IndInv /\ IndInv' /\ IndWork /\ [Next]_vars => CountInv'
<1>. SUFFICES ASSUME CountInv, IndInv, IndInv', IndWork, [Next]_vars PROVE CountInv'
  OBVIOUS
<1>1. EventsCounted' /\ ChargesCounted'
  BY CountsKept DEF IndInv
<1>2. RowsCommitted'
  BY NextWorkGrows, RowsKept DEF CountInv
<1>. QED BY <1>1, <1>2 DEF CountInv

\* It holds throughout every behaviour of the service.
THEOREM CountInvariance == Spec => []CountInv
BY InitCount, StepCount, Invariance, WorkInvariance, PTL DEF Spec

\* However many requests and crashes there are, no event is announced more often
\* than its effect was committed, and no outbox row speaks of nothing.
THEOREM EventsWereCommitted == Spec => []EventsFollowCommits
<1>1. IndInv /\ CountInv => EventsFollowCommits
  <2>. SUFFICES ASSUME IndInv, CountInv, NEW o \in Orders, NEW e \in EventTypes
                PROVE  /\ queue[o][e] <= commits[o][e]
                       /\ (\E row \in outbox : row.order = o /\ row.type = e) => commits[o][e] > 0
    BY DEF EventsFollowCommits
  <2>1. queue[o][e] \in Nat /\ commits[o][e] \in Nat /\ Cardinality(Owing(o, e)) \in Nat
    BY Countable, FS_CardinalityType DEF IndInv, TypeOK, WorldOK
  <2>2. queue[o][e] + Cardinality(Owing(o, e)) <= commits[o][e]
    BY DEF CountInv, EventsCounted
  <2>. QED BY <2>1, <2>2 DEF CountInv, RowsCommitted
<1>. QED BY <1>1, Invariance, CountInvariance, PTL

\* Payments are opened no more often than the gateway took a charge, however many
\* of the charges it took the service never heard of.
THEOREM PaymentsWereCharged == Spec => []PaymentBackedByCharge
<1>1. IndInv /\ CountInv => PaymentBackedByCharge
  <2>. SUFFICES ASSUME IndInv, CountInv, NEW o \in Orders
                PROVE  commits[o]["PAYMENT_INITIATED"] <= Len(charges[o])
    BY DEF PaymentBackedByCharge
  <2>1. /\ commits[o]["PAYMENT_INITIATED"] \in Nat /\ Charged(o) \in Nat
        /\ Cardinality(Openings(o)) \in Nat
    BY Countable, FS_CardinalityType, CountTypes DEF IndInv
  <2>2. commits[o]["PAYMENT_INITIATED"] + Cardinality(Openings(o)) <= Charged(o)
    BY DEF CountInv, ChargesCounted
  <2>. QED BY <2>1, <2>2 DEF Charged
<1>. QED BY <1>1, Invariance, CountInvariance, PTL
================================================================================
