--------------------------- MODULE OrderWorkProofs ----------------------------
(***************************************************************************)
(* A request that is answered with success has put its event in the        *)
(* outbox, and a recorded key stands for work that is done: IndWork is     *)
(* kept by every step of the service, relative to IndInv.                  *)
(***************************************************************************)
EXTENDS OrderProofs, OrderWork

(***************************************************************************)
(* The few steps that write what others rely on.                           *)
(***************************************************************************)

Reports == <<payments, idem, outbox, queue, charges, commits, settled>>

\* Of the round trips of the repositories, five write.
LEMMA RepositoryWriters ==
  ASSUME NEW r \in Requests, RepositoryStep(r)
  PROVE  \/ UNCHANGED Reports
         \/ SaveCommit(r) \/ PaymentCommit(r) \/ IdemSave(r) \/ Send(r) \/ OutboxCommit(r)
<1>1. CASE LoadRow(r)
  BY <1>1 DEF Reports, dbVars, worldVars, ghostVars, LoadRow
<1>2. CASE LoadItems(r)
  BY <1>2 DEF Reports, dbVars, worldVars, ghostVars, LoadItems
<1>3. CASE LoadCached(r)
  BY <1>3 DEF Reports, dbVars, worldVars, ghostVars, LoadCached
<1>4. CASE SaveSelect(r)
  BY <1>4 DEF Reports, dbVars, worldVars, ghostVars, SaveSelect
<1>5. CASE SaveCheck(r)
  BY <1>5 DEF Reports, dbVars, worldVars, ghostVars, SaveCheck
<1>6. CASE SaveCheckCached(r)
  BY <1>6 DEF Reports, dbVars, worldVars, ghostVars, SaveCheckCached
<1>7. CASE SaveFails(r)
  BY <1>7 DEF Reports, dbVars, worldVars, ghostVars, SaveFails
<1>8. CASE InsertOrder(r)
  BY <1>8 DEF Reports, dbVars, worldVars, ghostVars, InsertOrder
<1>9. CASE PaymentSelect(r)
  BY <1>9 DEF Reports, dbVars, worldVars, ghostVars, PaymentSelect
<1>10. CASE PaymentInsertFails(r)
  BY <1>10 DEF Reports, dbVars, worldVars, ghostVars, PaymentInsertFails
<1>11. CASE IdemGet(r)
  BY <1>11 DEF Reports, dbVars, worldVars, ghostVars, IdemGet
<1>12. CASE Notify(r)
  BY <1>12 DEF Reports, dbVars, worldVars, ghostVars, Notify
<1>. QED
  BY <1>1, <1>2, <1>3, <1>4, <1>5, <1>6, <1>7, <1>8, <1>9, <1>10, <1>11, <1>12 DEF
     RepositoryStep

\* Of the steps of the handlers, only a call of the gateway is seen by others.
LEMMA UseCaseWriters ==
  ASSUME NEW r \in Requests, UseCaseStep(r)
  PROVE  UNCHANGED Reports \/ Calls(r)
<1>1. CASE CheckCustomer(r)
  BY <1>1 DEF Reports, dbVars, worldVars, ghostVars, CheckCustomer
<1>2. CASE CheckNoActiveOrder(r)
  BY <1>2 DEF Reports, dbVars, worldVars, ghostVars, CheckNoActiveOrder
<1>3. CASE AddProduct(r)
  BY <1>3 DEF Reports, dbVars, worldVars, ghostVars, AddProduct
<1>4. CASE RemoveProduct(r)
  BY <1>4 DEF Reports, dbVars, worldVars, ghostVars, RemoveProduct
<1>5. CASE SagaSelect(r)
  BY <1>5 DEF Reports, dbVars, worldVars, ghostVars, SagaSelect
<1>6. CASE SagaCommit(r)
  BY <1>6 DEF Reports, dbVars, worldVars, ghostVars, SagaCommit
<1>7. CASE ValidateCustomer(r)
  BY <1>7 DEF Reports, dbVars, worldVars, ghostVars, ValidateCustomer
<1>8. CASE FetchPrices(r)
  BY <1>8 DEF Reports, dbVars, worldVars, ghostVars, FetchPrices
<1>9. CASE VoidPendingPayment(r)
  BY <1>9 DEF Reports, dbVars, worldVars, ghostVars, VoidPendingPayment
<1>10. CASE ApplyCancel(r)
  BY <1>10 DEF Reports, dbVars, worldVars, ghostVars, ApplyCancel
<1>11. CASE ReturnPaymentOfKey(r)
  BY <1>11 DEF Reports, dbVars, worldVars, ghostVars, ReturnPaymentOfKey
<1>12. CASE PreparePayment(r)
  BY <1>12 DEF Reports, dbVars, worldVars, ghostVars, PreparePayment
<1>13. CASE RestorePreviousStatus(r)
  BY <1>13 DEF Reports, dbVars, worldVars, ghostVars, RestorePreviousStatus
<1>14. CASE LoadPayment(r)
  BY <1>14 DEF Reports, dbVars, worldVars, ghostVars, LoadPayment
<1>15. CASE ApplyVerdict(r)
  BY <1>15 DEF Reports, dbVars, worldVars, ghostVars, ApplyVerdict
<1>. QED
  BY <1>1, <1>2, <1>3, <1>4, <1>5, <1>6, <1>7, <1>8, <1>9, <1>10, <1>11, <1>12, <1>13, <1>14,
     <1>15 DEF UseCaseStep, Calls

\* A step of the service is one of these, or is seen by nobody else.
LEMMA Writers ==
  ASSUME TypeOK, [Next]_vars
  PROVE  \/ UNCHANGED Reports
         \/ \E r \in Requests :
               \/ SaveCommit(r) \/ PaymentCommit(r) \/ IdemSave(r) \/ Send(r) \/ OutboxCommit(r)
               \/ Calls(r)
<1>1. ASSUME NEW r \in Requests, Arrive(r) PROVE UNCHANGED Reports
  <2>1. PICK request, first, firstStage : Receive(r, request, first, firstStage)
    BY <1>1, Arrival DEF Brings
  <2>. QED BY <2>1 DEF Receive, Reports, dbVars, worldVars, ghostVars
<1>2. ASSUME NEW r \in Requests, Respond(r) PROVE UNCHANGED Reports
  BY <1>2 DEF Respond, Reports, dbVars, worldVars, ghostVars
<1>3. CASE Crash
  BY <1>3 DEF Crash, Reports, dbVars, worldVars, ghostVars
<1>4. CASE UNCHANGED vars
  BY <1>4 DEF vars, Reports, dbVars, worldVars, ghostVars
<1>. QED BY <1>1, <1>2, <1>3, <1>4, RepositoryWriters, UseCaseWriters DEF Next, Serve, Quiet

(***************************************************************************)
(* Work that was done stays done.                                          *)
(***************************************************************************)

WorkGrows ==
    /\ \A o \in Orders : \A e \in EventTypes : commits[o][e] > 0 => commits'[o][e] > 0
    /\ \A o \in Orders : \A i \in DOMAIN settled[o] : i \in DOMAIN settled'[o] /\ settled'[o][i]
       = settled[o][i]
    /\ \A o \in Orders : \A e \in EventTypes : queue[o][e] > 0 => queue'[o][e] > 0
    /\ outbox \subseteq outbox'

\* A request that is saving something has an order, and so has its payment.
LEMMA SavingOrder ==
  ASSUME NEW r \in Requests, SessionInv(r),
         pc[r] \in {"commit", "send", "outbox_commit", "notify", "idem_save", "gateway",
            "pay_commit"}
  PROVE  /\ req[r].order \in Orders
         /\ pc[r] = "pay_commit" => pay[r].order = req[r].order
  BY DEF SessionInv, RequestOK, PaymentOK, Request

\* The effect that a commit announces.
LEMMA BumpCounts ==
  ASSUME NEW f \in [Orders -> [EventTypes -> Nat]], NEW r \in Requests, req[r].order \in Orders
  PROVE  \A o \in Orders, e \in EventTypes :
            Bump(f, r)[o][e] = IF o = req[r].order /\ e = EventOf(r) THEN f[o][e] + 1 ELSE
               f[o][e]
  BY EventOfType DEF Bump

\* Nothing is ever uncounted or taken back from the queue, the outbox or the log
\* of verdicts.
LEMMA NextWorkGrows ==
  ASSUME IndInv, [Next]_vars
  PROVE  WorkGrows
<1>. USE DEF IndInv
<1>0. commits \in [Orders -> [EventTypes -> Nat]]
  BY DEF TypeOK, WorldOK
<1>1. CASE UNCHANGED Reports
  BY <1>1 DEF Reports, WorkGrows
<1>2. ASSUME NEW r \in Requests, SaveCommit(r) PROVE WorkGrows
  <2>1. req[r].order \in Orders
    BY <1>2, SavingOrder DEF SaveCommit
  <2>2. commits' = Bump(commits, r) \/ UNCHANGED commits
    BY <1>2 DEF SaveCommit
  <2>3. UNCHANGED <<settled, outbox, queue>>
    BY <1>2 DEF SaveCommit, worldVars
  <2>. QED BY <1>0, <2>1, <2>2, <2>3, BumpCounts DEF WorkGrows
<1>3. ASSUME NEW r \in Requests, PaymentCommit(r) PROVE WorkGrows
  <2>1. req[r].order \in Orders
    BY <1>3, SavingOrder DEF PaymentCommit
  <2>2. commits' = Bump(commits, r) \/ UNCHANGED commits
    BY <1>3 DEF PaymentCommit
  <2>3. UNCHANGED <<outbox, queue>>
    BY <1>3 DEF PaymentCommit, worldVars
  <2>. QED BY <1>0, <1>3, <2>1, <2>2, <2>3, BumpCounts, SettledKeeps DEF WorkGrows
<1>4. ASSUME NEW r \in Requests, OutboxCommit(r) PROVE WorkGrows
  BY <1>4 DEF OutboxCommit, worldVars, ghostVars, WorkGrows
<1>5. ASSUME NEW r \in Requests, IdemSave(r) \/ Calls(r) PROVE WorkGrows
  BY <1>5, CallCharges DEF IdemSave, dbVars, worldVars, ghostVars, WorkGrows
<1>6. ASSUME NEW r \in Requests, Send(r) PROVE WorkGrows
  <2>1. req[r].order \in Orders /\ queue \in [Orders -> [EventTypes -> Nat]]
    BY <1>6, SavingOrder DEF Send, TypeOK, WorldOK
  <2>2. queue' = Bump(queue, r) \/ UNCHANGED queue
    BY <1>6 DEF Send
  <2>3. UNCHANGED <<settled, outbox, commits>>
    BY <1>6 DEF Send, dbVars, ghostVars
  <2>. QED BY <2>1, <2>2, <2>3, BumpCounts DEF WorkGrows
<1>. QED BY <1>1, <1>2, <1>3, <1>4, <1>5, <1>6, Writers

\* In particular what a request has done.
LEMMA WorkStays ==
  ASSUME WorkGrows, NEW q \in Requests, req'[q] = req[q], req[q].order \in Orders
  PROVE  /\ EventOf(q)' = EventOf(q)
         /\ Committed(q) => Committed(q)'
         /\ VerdictSettled(q) => VerdictSettled(q)'
         /\ Filed(req[q].order, EventOf(q)) => Filed(req[q].order, EventOf(q))'
         /\ EverConfirmed(req[q].order) => EverConfirmed(req[q].order)'
         /\ Opened(req[q].order) => Opened(req[q].order)'
<1>1. EventOf(q)' = EventOf(q)
  BY DEF EventOf, EventFor
<1>2. Committed(q) => Committed(q)'
  BY <1>1, EventOfType DEF Committed, WorkGrows
<1>3. VerdictSettled(q) => VerdictSettled(q)'
  BY DEF VerdictSettled, WorkGrows
<1>4. Filed(req[q].order, EventOf(q)) => Filed(req[q].order, EventOf(q))'
  BY <1>1 DEF Filed, WorkGrows
<1>5. /\ EverConfirmed(req[q].order) => EverConfirmed(req[q].order)'
      /\ Opened(req[q].order) => Opened(req[q].order)'
  BY DEF EverConfirmed, Opened, WorkGrows, EventTypes
<1>. QED BY <1>1, <1>2, <1>3, <1>4, <1>5

\* A commit that announces an event has counted it.
LEMMA NowCommitted ==
  ASSUME TypeOK, NEW r \in Requests, req[r].order \in Orders, req'[r] = req[r],
         commits' = Bump(commits, r)
  PROVE  Committed(r)'
<1>1. commits \in [Orders -> [EventTypes -> Nat]]
  BY DEF TypeOK, WorldOK
<1>2. EventOf(r)' = EventOf(r)
  BY DEF EventOf, EventFor
<1>. QED BY <1>1, <1>2, EventOfType, BumpCounts DEF Committed

\* A callback that has saved the payment has left its verdict there.
LEMMA NowSettled ==
  ASSUME TypeOK, NEW r \in Requests, SessionInv(r), PaymentCommit(r), req[r].op = "callback"
  PROVE  /\ VerdictSettled(r)'
         /\ \A o \in Orders \ {req[r].order} : settled'[o] = settled[o]
         /\ \A i \in DOMAIN settled'[req[r].order] :
               \/ i \in DOMAIN settled[req[r].order] /\ settled'[req[r].order][i] =
                  settled[req[r].order][i]
               \/ settled'[req[r].order][i] =
                     [txn |-> req[r].txn, verdict |-> req[r].verdict, key |-> req[r].key]
<1>. DEFINE S == [txn : Nat, verdict : Verdicts, key : Keys \cup {Nil}]
            s == [txn |-> req[r].txn, verdict |-> req[r].verdict, key |-> req[r].key]
            o == req[r].order
<1>1. s \in S /\ o \in Orders /\ pay[r].order = o
  BY RequestType, SavingOrder DEF PaymentCommit
<1>2. settled \in [Orders -> Seq(S)]
  BY DEF TypeOK, WorldOK
<1>3. settled' = [settled EXCEPT ![o] = Append(@, s)] /\ req' = req
  BY <1>1 DEF PaymentCommit
<1>. DEFINE n == Len(settled[o]) + 1
<1>4. s' = s
  BY <1>3
<1>5. VerdictSettled(r) <=> \E i \in DOMAIN settled[o] : settled[o][i] = s
  BY DEF VerdictSettled
<1>6. VerdictSettled(r)' <=> \E i \in DOMAIN settled'[o] : settled'[o][i] = s
  BY <1>3 DEF VerdictSettled
<1>. HIDE DEF S, s
<1>7. settled'[o] = Append(settled[o], s) /\ settled[o] \in Seq(S)
  BY <1>1, <1>2, <1>3
<1>8. n \in DOMAIN settled'[o] /\ settled'[o][n] = s
  BY <1>1, <1>7
<1>9. \A x \in Orders \ {o} : settled'[x] = settled[x]
  BY <1>1, <1>2, <1>3
<1>10. \A i \in DOMAIN settled'[o] :
          \/ i \in DOMAIN settled[o] /\ settled'[o][i] = settled[o][i]
          \/ settled'[o][i] = s
  BY <1>1, <1>7
<1>. HIDE DEF n
<1>. QED BY <1>6, <1>8, <1>9, <1>10 DEF s

(***************************************************************************)
(* What a step adds to the work of its own request.                        *)
(***************************************************************************)

\* The order of a request in flight stays the same to the end.
LEMMA SameRequest ==
  ASSUME NEW r \in Requests, SessionInv(r), RepositoryStep(r) \/ UseCaseStep(r)
  PROVE  req'[r] = req[r] /\ req[r].order \in Orders /\ req[r].op \in OpNames
<1>1. pc[r] # "idle" /\ UNCHANGED req
  <2>1. CASE RepositoryStep(r)
    BY <2>1 DEF RepositoryStep, LoadRow, LoadItems, LoadCached, SaveSelect, SaveCheck,
       SaveCheckCached, SaveCommit, SaveFails, InsertOrder, PaymentSelect, PaymentCommit,
       PaymentInsertFails, IdemGet, IdemSave, Send, OutboxCommit, Notify
  <2>2. CASE UseCaseStep(r)
    BY <2>2 DEF UseCaseStep, CheckCustomer, CheckNoActiveOrder, AddProduct, RemoveProduct,
       SagaSelect, SagaCommit, ValidateCustomer, FetchPrices, VoidPendingPayment, ApplyCancel,
       ReturnPaymentOfKey, PreparePayment, GatewayAccepts, GatewayUnavailable, GatewayRefuses,
       GatewayLost, RestorePreviousStatus, LoadPayment, ApplyVerdict
  <2>. QED BY <2>1, <2>2
<1>. QED BY <1>1 DEF SessionInv, RequestOK, Request

\* Each await is reached with its work done: round trips of the repositories.
LEMMA RepositoryWork ==
  ASSUME TypeOK, NEW r \in Requests, SessionInv(r), WorkGrows, WorkTables, WorkInv(r),
     RepositoryStep(r)
  PROVE  WorkDone(r)'
<1>0. req'[r] = req[r] /\ req[r].order \in Orders
  BY SameRequest
<1>1. CASE LoadRow(r)
  BY <1>0, <1>1, WorkStays DEF TypeOK, LocalsOK, SessionInv, RequestOK, PaymentOK, Path,
     WorkInv, WorkDone, orderLocal, flowLocal, LoadRow, Goto, Finish
<1>2. CASE LoadItems(r)
  BY <1>0, <1>2, WorkStays DEF TypeOK, LocalsOK, SessionInv, RequestOK, PaymentOK, Path,
     WorkInv, WorkDone, orderLocal, flowLocal, LoadItems, Goto, AfterLoad
<1>3. CASE LoadCached(r)
  BY <1>0, <1>3, WorkStays DEF TypeOK, LocalsOK, SessionInv, RequestOK, PaymentOK, Path,
     WorkInv, WorkDone, orderLocal, flowLocal, LoadCached, Goto, AfterLoad
<1>4. CASE SaveSelect(r)
  BY <1>0, <1>4, WorkStays DEF TypeOK, LocalsOK, SessionInv, RequestOK, PaymentOK, Path,
     WorkInv, WorkDone, orderLocal, flowLocal, SaveSelect, Goto
<1>5. CASE SaveCheck(r)
  BY <1>0, <1>5, WorkStays DEF TypeOK, LocalsOK, SessionInv, RequestOK, PaymentOK, Path,
     WorkInv, WorkDone, orderLocal, flowLocal, SaveCheck, CheckVersion, Goto, Finish
<1>6. CASE SaveCheckCached(r)
  BY <1>0, <1>6, WorkStays DEF TypeOK, LocalsOK, SessionInv, RequestOK, PaymentOK, Path,
     WorkInv, WorkDone, orderLocal, flowLocal, SaveCheckCached, CheckVersion, Goto, Finish
<1>7. CASE SaveCommit(r)
  <2>1. req[r].op \in {"cancel", "callback"} => Committed(r)'
    BY <1>7, SameRequest, NowCommitted DEF SaveCommit, RepositoryStep
  <2>. QED BY <1>7, <2>1, SameRequest, WorkStays DEF TypeOK, LocalsOK, SessionInv, RequestOK,
     Path, WorkInv, WorkDone, RepositoryStep, SaveCommit, Goto, AfterOrderSave
<1>8. CASE SaveFails(r)
  BY <1>0, <1>8, WorkStays DEF TypeOK, LocalsOK, SessionInv, RequestOK, PaymentOK, Path,
     WorkInv, WorkDone, orderLocal, flowLocal, SaveFails, Finish
<1>9. CASE InsertOrder(r)
  BY <1>0, <1>9, WorkStays DEF TypeOK, LocalsOK, SessionInv, RequestOK, PaymentOK, Path,
     WorkInv, WorkDone, orderLocal, flowLocal, InsertOrder, Goto, AfterOrderSave
<1>10. CASE PaymentSelect(r)
  BY <1>0, <1>10, WorkStays DEF TypeOK, LocalsOK, SessionInv, RequestOK, PaymentOK, Path,
     WorkInv, WorkDone, orderLocal, flowLocal, PaymentSelect, Goto
<1>11. CASE PaymentCommit(r)
  <2>1. req[r].op = "callback" => VerdictSettled(r)'
    BY <1>11, NowSettled
  <2>2. req[r].op = "initiate" => Committed(r)'
    BY <1>11, SameRequest, NowCommitted DEF PaymentCommit, RepositoryStep
  <2>3. pay'[r].order = req'[r].order
    <3>1. pc[r] = "pay_commit" /\ UNCHANGED <<pay, req>>
      BY <1>11 DEF PaymentCommit
    <3>. QED BY <3>1, SavingOrder
  <2>4. pc'[r] = AfterPaymentSave(r)
    BY <1>11 DEF TypeOK, LocalsOK, PaymentCommit, Goto
  <2>5. req[r].op \in {"cancel", "initiate", "callback"}
    BY <1>11 DEF SessionInv, RequestOK, Request, OpNames, Path, PaymentCommit
  <2>. QED BY <1>0, <2>1, <2>2, <2>3, <2>4, <2>5 DEF WorkDone, AfterPaymentSave
<1>12. CASE PaymentInsertFails(r)
  BY <1>0, <1>12, WorkStays DEF TypeOK, LocalsOK, SessionInv, RequestOK, PaymentOK, Path,
     WorkInv, WorkDone, orderLocal, flowLocal, PaymentInsertFails, Finish
<1>13. CASE IdemGet(r)
  BY <1>0, <1>13, WorkStays DEF TypeOK, LocalsOK, SessionInv, RequestOK, PaymentOK, Path,
     WorkInv, WorkDone, orderLocal, flowLocal, IdemGet, Goto, Finish, AfterLookup
<1>14. CASE IdemSave(r)
  BY <1>0, <1>14, WorkStays DEF TypeOK, LocalsOK, SessionInv, RequestOK, PaymentOK, Path,
     WorkInv, WorkDone, orderLocal, flowLocal, IdemSave, Finish
<1>15. CASE Send(r)
  BY <1>0, <1>15, WorkStays DEF TypeOK, LocalsOK, SessionInv, RequestOK, PaymentOK, Path,
     WorkInv, WorkDone, orderLocal, flowLocal, Send, Goto
<1>16. CASE OutboxCommit(r)
  BY <1>0, <1>16, WorkStays DEF TypeOK, LocalsOK, SessionInv, RequestOK, Path, WorkInv,
     WorkDone, orderLocal, flowLocal, OutboxCommit, Goto, AfterPublish, Conclude
<1>17. CASE Notify(r)
  BY <1>0, <1>17, WorkStays DEF TypeOK, LocalsOK, SessionInv, RequestOK, PaymentOK, Path,
     WorkInv, WorkDone, orderLocal, flowLocal, Notify, Goto, Finish, Conclude
<1>. QED
  BY <1>1, <1>2, <1>3, <1>4, <1>5, <1>6, <1>7, <1>8, <1>9, <1>10, <1>11, <1>12, <1>13, <1>14,
     <1>15, <1>16, <1>17 DEF RepositoryStep

\* The same for the steps of the handlers.
LEMMA UseCaseWork ==
  ASSUME TypeOK, NEW r \in Requests, SessionInv(r), WorkGrows, WorkTables, WorkInv(r),
     UseCaseStep(r)
  PROVE  WorkDone(r)'
<1>0. req'[r] = req[r] /\ req[r].order \in Orders
  BY SameRequest
<1>1. CASE CheckCustomer(r)
  BY <1>0, <1>1, WorkStays DEF TypeOK, LocalsOK, SessionInv, RequestOK, PaymentOK, Path,
     WorkInv, WorkDone, orderLocal, flowLocal, CheckCustomer, CustomerAnswers, Goto, Finish
<1>2. CASE CheckNoActiveOrder(r)
  BY <1>0, <1>2, WorkStays DEF TypeOK, LocalsOK, SessionInv, RequestOK, PaymentOK, Path,
     WorkInv, WorkDone, orderLocal, flowLocal, CheckNoActiveOrder, Goto, Finish
<1>3. CASE AddProduct(r)
  BY <1>0, <1>3, WorkStays DEF TypeOK, LocalsOK, SessionInv, RequestOK, PaymentOK, Path,
     WorkInv, WorkDone, orderLocal, flowLocal, AddProduct, Goto, Finish
<1>4. CASE RemoveProduct(r)
  BY <1>0, <1>4, WorkStays DEF TypeOK, LocalsOK, SessionInv, RequestOK, PaymentOK, Path,
     WorkInv, WorkDone, orderLocal, flowLocal, RemoveProduct, Goto, Finish
<1>5. CASE SagaSelect(r)
  BY <1>0, <1>5, WorkStays DEF TypeOK, LocalsOK, SessionInv, RequestOK, PaymentOK, Path,
     WorkInv, WorkDone, orderLocal, flowLocal, SagaSelect, Goto
<1>6. CASE SagaCommit(r)
  <2>1. req[r].op = "confirm" /\ (AfterSagaSave(stage[r]) = "send" =>
     EverConfirmed(req[r].order))
    BY <1>6, SameRequest DEF SessionInv, RequestOK, SagaPhase, Path, OpNames, AfterSagaSave,
       SagaCommit
  <2>2. EverConfirmed(req[r].order) => Committed(r)
    BY <2>1 DEF EverConfirmed, Committed, EventOf, EventFor
  <2>3. AfterSagaSave(stage[r]) \notin {"outbox_commit", "notify", "idem_save"}
    BY DEF AfterSagaSave
  <2>. QED BY <1>0, <1>6, <2>1, <2>2, <2>3, WorkStays DEF TypeOK, LocalsOK, WorkDone,
     SagaCommit, Goto, Finish
<1>7. CASE ValidateCustomer(r)
  BY <1>0, <1>7, WorkStays DEF TypeOK, LocalsOK, SessionInv, RequestOK, PaymentOK, Path,
     WorkInv, WorkDone, orderLocal, flowLocal, ValidateCustomer, Goto, Finish, FailPhase
<1>8. CASE FetchPrices(r)
  BY <1>0, <1>8, WorkStays DEF TypeOK, LocalsOK, SessionInv, RequestOK, PaymentOK, Path,
     WorkInv, WorkDone, orderLocal, flowLocal, FetchPrices, Goto, Finish, FailPhase
<1>9. CASE VoidPendingPayment(r)
  BY <1>0, <1>9, WorkStays DEF TypeOK, LocalsOK, SessionInv, RequestOK, PaymentOK, Path,
     WorkInv, WorkDone, orderLocal, flowLocal, VoidPendingPayment, Goto
<1>10. CASE ApplyCancel(r)
  BY <1>0, <1>10, WorkStays DEF TypeOK, LocalsOK, SessionInv, RequestOK, PaymentOK, Path,
     WorkInv, WorkDone, orderLocal, flowLocal, ApplyCancel, Goto, Finish
<1>11. CASE ReturnPaymentOfKey(r)
  BY <1>0, <1>11, WorkStays DEF TypeOK, LocalsOK, SessionInv, RequestOK, PaymentOK, Path,
     WorkInv, WorkDone, orderLocal, flowLocal, ReturnPaymentOfKey, Goto, Finish
<1>12. CASE PreparePayment(r)
  BY <1>0, <1>12, WorkStays DEF TypeOK, LocalsOK, SessionInv, RequestOK, PaymentOK, Path,
     WorkInv, WorkDone, orderLocal, flowLocal, PreparePayment, Goto, Finish
<1>13. CASE GatewayAccepts(r)
  BY <1>0, <1>13, WorkStays DEF TypeOK, LocalsOK, SessionInv, RequestOK, PaymentOK, Path,
     WorkInv, WorkDone, orderLocal, flowLocal, GatewayAccepts, Goto
<1>14. CASE GatewayUnavailable(r)
  BY <1>0, <1>14, WorkStays DEF TypeOK, LocalsOK, SessionInv, RequestOK, PaymentOK, Path,
     WorkInv, WorkDone, orderLocal, flowLocal, GatewayUnavailable
<1>15. CASE GatewayRefuses(r)
  BY <1>0, <1>15, WorkStays DEF TypeOK, LocalsOK, SessionInv, RequestOK, PaymentOK, Path,
     WorkInv, WorkDone, orderLocal, flowLocal, GatewayRefuses
<1>16. CASE GatewayLost(r)
  BY <1>0, <1>16, WorkStays DEF TypeOK, LocalsOK, SessionInv, RequestOK, PaymentOK, Path,
     WorkInv, WorkDone, orderLocal, flowLocal, GatewayLost, Finish
<1>17. CASE RestorePreviousStatus(r)
  BY <1>0, <1>17, WorkStays DEF TypeOK, LocalsOK, SessionInv, RequestOK, PaymentOK, Path,
     WorkInv, WorkDone, orderLocal, flowLocal, RestorePreviousStatus, Goto, Finish
<1>18. CASE LoadPayment(r)
  BY <1>0, <1>18, WorkStays DEF TypeOK, LocalsOK, SessionInv, RequestOK, PaymentOK, Path,
     WorkInv, WorkDone, orderLocal, flowLocal, LoadPayment, Goto, Finish
<1>19. CASE ApplyVerdict(r)
  BY <1>0, <1>19, WorkStays DEF TypeOK, LocalsOK, SessionInv, RequestOK, PaymentOK, Path,
     WorkInv, WorkDone, orderLocal, flowLocal, ApplyVerdict, Goto, Finish
<1>. QED
  BY <1>1, <1>2, <1>3, <1>4, <1>5, <1>6, <1>7, <1>8, <1>9, <1>10, <1>11, <1>12, <1>13, <1>14,
     <1>15, <1>16, <1>17, <1>18, <1>19 DEF UseCaseStep

(***************************************************************************)
(* What a request holds and what it will be answered.                      *)
(***************************************************************************)

\* Nothing else puts a payment into the hands of a handler: round trips of the repositories.
LEMMA RepositoryHeld ==
  ASSUME TypeOK, NEW r \in Requests, SessionInv(r), WorkGrows, WorkTables, WorkInv(r),
     RepositoryStep(r)
  PROVE  HeldOpened(r)'
<1>0. req'[r] = req[r] /\ req[r].order \in Orders
  BY SameRequest
<1>1. CASE LoadRow(r)
  BY <1>0, <1>1, WorkStays DEF WorkInv, HeldOpened, LoadRow, orderLocal, flowLocal
<1>2. CASE LoadItems(r)
  BY <1>0, <1>2, WorkStays DEF WorkInv, HeldOpened, LoadItems, orderLocal, flowLocal
<1>3. CASE LoadCached(r)
  BY <1>0, <1>3, WorkStays DEF WorkInv, HeldOpened, LoadCached, orderLocal, flowLocal
<1>4. CASE SaveSelect(r)
  BY <1>0, <1>4, WorkStays DEF WorkInv, HeldOpened, SaveSelect, orderLocal, flowLocal
<1>5. CASE SaveCheck(r)
  BY <1>0, <1>5, WorkStays DEF WorkInv, HeldOpened, SaveCheck, orderLocal, flowLocal
<1>6. CASE SaveCheckCached(r)
  BY <1>0, <1>6, WorkStays DEF WorkInv, HeldOpened, SaveCheckCached, orderLocal, flowLocal
<1>7. CASE SaveCommit(r)
  BY <1>0, <1>7, WorkStays DEF WorkInv, HeldOpened, SaveCommit, orderLocal, flowLocal
<1>8. CASE SaveFails(r)
  BY <1>0, <1>8, WorkStays DEF WorkInv, HeldOpened, SaveFails, orderLocal, flowLocal
<1>9. CASE InsertOrder(r)
  BY <1>0, <1>9, WorkStays DEF WorkInv, HeldOpened, InsertOrder, orderLocal, flowLocal
<1>10. CASE PaymentSelect(r)
  BY <1>0, <1>10, WorkStays DEF TypeOK, LocalsOK, PaymentEntity, WorkInv, HeldOpened,
     PaymentSelect
<1>11. CASE PaymentCommit(r)
  BY <1>0, <1>11, WorkStays DEF WorkInv, HeldOpened, PaymentCommit, orderLocal, flowLocal
<1>12. CASE PaymentInsertFails(r)
  BY <1>0, <1>12, WorkStays DEF WorkInv, HeldOpened, PaymentInsertFails, orderLocal, flowLocal
<1>13. CASE IdemGet(r)
  BY <1>0, <1>13, WorkStays DEF WorkInv, HeldOpened, IdemGet, orderLocal, flowLocal
<1>14. CASE IdemSave(r)
  BY <1>0, <1>14, WorkStays DEF WorkInv, HeldOpened, IdemSave, orderLocal, flowLocal
<1>15. CASE Send(r)
  BY <1>0, <1>15, WorkStays DEF WorkInv, HeldOpened, Send, orderLocal, flowLocal
<1>16. CASE OutboxCommit(r)
  BY <1>0, <1>16, WorkStays DEF WorkInv, HeldOpened, OutboxCommit, orderLocal, flowLocal
<1>17. CASE Notify(r)
  BY <1>0, <1>17, WorkStays DEF WorkInv, HeldOpened, Notify, orderLocal, flowLocal
<1>. QED
  BY <1>1, <1>2, <1>3, <1>4, <1>5, <1>6, <1>7, <1>8, <1>9, <1>10, <1>11, <1>12, <1>13, <1>14,
     <1>15, <1>16, <1>17 DEF RepositoryStep

\* The same for the steps of the handlers.
LEMMA UseCaseHeld ==
  ASSUME TypeOK, NEW r \in Requests, SessionInv(r), WorkGrows, WorkTables, WorkInv(r),
     UseCaseStep(r)
  PROVE  HeldOpened(r)'
<1>0. req'[r] = req[r] /\ req[r].order \in Orders
  BY SameRequest
<1>1. CASE CheckCustomer(r)
  BY <1>0, <1>1, WorkStays DEF WorkInv, HeldOpened, CheckCustomer, orderLocal, flowLocal
<1>2. CASE CheckNoActiveOrder(r)
  BY <1>0, <1>2, WorkStays DEF WorkInv, HeldOpened, CheckNoActiveOrder, orderLocal, flowLocal
<1>3. CASE AddProduct(r)
  BY <1>0, <1>3, WorkStays DEF WorkInv, HeldOpened, AddProduct, orderLocal, flowLocal
<1>4. CASE RemoveProduct(r)
  BY <1>0, <1>4, WorkStays DEF WorkInv, HeldOpened, RemoveProduct, orderLocal, flowLocal
<1>5. CASE SagaSelect(r)
  BY <1>0, <1>5, WorkStays DEF WorkInv, HeldOpened, SagaSelect, orderLocal, flowLocal
<1>6. CASE SagaCommit(r)
  BY <1>0, <1>6, WorkStays DEF WorkInv, HeldOpened, SagaCommit, orderLocal, flowLocal
<1>7. CASE ValidateCustomer(r)
  BY <1>0, <1>7, WorkStays DEF WorkInv, HeldOpened, ValidateCustomer, orderLocal, flowLocal
<1>8. CASE FetchPrices(r)
  BY <1>0, <1>8, WorkStays DEF WorkInv, HeldOpened, FetchPrices, orderLocal, flowLocal
<1>9. CASE VoidPendingPayment(r)
  <2>1. pay'[r] = pay[r] \/ payments[req[r].order].status # Absent \/ pay'[r].status = Absent
    BY <1>0, <1>9, PaymentOf DEF TypeOK, LocalsOK, IsVoidable, Absent, VoidPendingPayment
  <2>2. payments[req[r].order].status # Absent => Opened(req[r].order)
    BY <1>0 DEF WorkTables, CommitsFirst, PaymentsOpened
  <2>. QED BY <1>0, <1>9, <2>1, <2>2, WorkStays DEF WorkInv, HeldOpened, VoidPendingPayment
<1>10. CASE ApplyCancel(r)
  BY <1>0, <1>10, WorkStays DEF WorkInv, HeldOpened, ApplyCancel, orderLocal, flowLocal
<1>11. CASE ReturnPaymentOfKey(r)
  BY <1>0, <1>11, WorkStays DEF SessionInv, RequestOK, Path, Request, OpNames, HeldOpened,
     ReturnPaymentOfKey
<1>12. CASE PreparePayment(r)
  BY <1>0, <1>12, WorkStays DEF SessionInv, RequestOK, Path, Request, OpNames, HeldOpened,
     PreparePayment
<1>13. CASE GatewayAccepts(r)
  BY <1>0, <1>13, WorkStays DEF SessionInv, RequestOK, Path, Request, OpNames, HeldOpened,
     GatewayAccepts
<1>14. CASE GatewayUnavailable(r)
  BY <1>0, <1>14, WorkStays DEF WorkInv, HeldOpened, GatewayUnavailable, orderLocal, flowLocal
<1>15. CASE GatewayRefuses(r)
  BY <1>0, <1>15, WorkStays DEF WorkInv, HeldOpened, GatewayRefuses, orderLocal, flowLocal
<1>16. CASE GatewayLost(r)
  BY <1>0, <1>16, WorkStays DEF WorkInv, HeldOpened, GatewayLost, orderLocal, flowLocal
<1>17. CASE RestorePreviousStatus(r)
  BY <1>0, <1>17, WorkStays DEF WorkInv, HeldOpened, RestorePreviousStatus, orderLocal,
     flowLocal
<1>18. CASE LoadPayment(r)
  <2>1. pay'[r] = pay[r] \/ payments[req[r].order].status # Absent \/ pay'[r].status = Absent
    BY <1>0, <1>18, PaymentOf DEF TypeOK, LocalsOK, IsVoidable, Absent, LoadPayment
  <2>2. payments[req[r].order].status # Absent => Opened(req[r].order)
    BY <1>0 DEF WorkTables, CommitsFirst, PaymentsOpened
  <2>. QED BY <1>0, <1>18, <2>1, <2>2, WorkStays DEF WorkInv, HeldOpened, LoadPayment
<1>19. CASE ApplyVerdict(r)
  BY <1>0, <1>19, WorkStays DEF SessionInv, PaymentOK, RequestOK, Path, Request, OpNames,
     WorkInv, HeldOpened, ApplyVerdict
<1>. QED
  BY <1>1, <1>2, <1>3, <1>4, <1>5, <1>6, <1>7, <1>8, <1>9, <1>10, <1>11, <1>12, <1>13, <1>14,
     <1>15, <1>16, <1>17, <1>18, <1>19 DEF UseCaseStep

\* The phase a handler is in: round trips of the repositories.
LEMMA RepositoryPhase ==
  ASSUME TypeOK, NEW r \in Requests, SessionInv(r), WorkGrows, WorkTables, WorkInv(r),
     RepositoryStep(r)
  PROVE  PhaseKnown(r)'
<1>0. req'[r] = req[r]
  BY SameRequest
<1>1. CASE LoadRow(r)
  BY <1>0, <1>1 DEF TypeOK, LocalsOK, SessionInv, RequestOK, Path, Request, OpNames, WorkInv,
     PhaseKnown, Phases, orderLocal, flowLocal, LoadRow, Goto, Finish
<1>2. CASE LoadItems(r)
  BY <1>0, <1>2 DEF TypeOK, LocalsOK, SessionInv, RequestOK, Path, Request, OpNames, WorkInv,
     PhaseKnown, Phases, orderLocal, flowLocal, LoadItems, Goto, AfterLoad
<1>3. CASE LoadCached(r)
  BY <1>0, <1>3 DEF TypeOK, LocalsOK, SessionInv, RequestOK, Path, Request, OpNames, WorkInv,
     PhaseKnown, Phases, orderLocal, flowLocal, LoadCached, Goto, AfterLoad
<1>4. CASE SaveSelect(r)
  BY <1>0, <1>4 DEF TypeOK, LocalsOK, SessionInv, RequestOK, Path, Request, OpNames, WorkInv,
     PhaseKnown, Phases, orderLocal, flowLocal, SaveSelect, Goto
<1>5. CASE SaveCheck(r)
  BY <1>0, <1>5 DEF TypeOK, LocalsOK, SessionInv, RequestOK, Path, Request, OpNames, WorkInv,
     PhaseKnown, Phases, orderLocal, flowLocal, SaveCheck, CheckVersion, Goto, Finish
<1>6. CASE SaveCheckCached(r)
  BY <1>0, <1>6 DEF TypeOK, LocalsOK, SessionInv, RequestOK, Path, Request, OpNames, WorkInv,
     PhaseKnown, Phases, orderLocal, flowLocal, SaveCheckCached, CheckVersion, Goto, Finish
<1>7. CASE SaveCommit(r)
  BY <1>0, <1>7 DEF TypeOK, LocalsOK, SessionInv, RequestOK, Path, Request, OpNames, WorkInv,
     PhaseKnown, Phases, orderLocal, flowLocal, SaveCommit, Goto, AfterOrderSave
<1>8. CASE SaveFails(r)
  BY <1>0, <1>8 DEF TypeOK, LocalsOK, SessionInv, RequestOK, Path, Request, OpNames, WorkInv,
     PhaseKnown, Phases, orderLocal, flowLocal, SaveFails, Finish
<1>9. CASE InsertOrder(r)
  BY <1>0, <1>9 DEF TypeOK, LocalsOK, SessionInv, RequestOK, Path, Request, OpNames, WorkInv,
     PhaseKnown, Phases, orderLocal, flowLocal, InsertOrder, Goto, AfterOrderSave
<1>10. CASE PaymentSelect(r)
  BY <1>0, <1>10 DEF TypeOK, LocalsOK, SessionInv, RequestOK, Path, Request, OpNames, WorkInv,
     PhaseKnown, Phases, orderLocal, flowLocal, PaymentSelect, Goto
<1>11. CASE PaymentCommit(r)
  BY <1>0, <1>11 DEF TypeOK, LocalsOK, SessionInv, RequestOK, Path, Request, OpNames, WorkInv,
     PhaseKnown, Phases, orderLocal, flowLocal, PaymentCommit, Goto, AfterPaymentSave
<1>12. CASE PaymentInsertFails(r)
  BY <1>0, <1>12 DEF TypeOK, LocalsOK, SessionInv, RequestOK, Path, Request, OpNames, WorkInv,
     PhaseKnown, Phases, orderLocal, flowLocal, PaymentInsertFails, Finish
<1>13. CASE IdemGet(r)
  BY <1>0, <1>13 DEF TypeOK, LocalsOK, SessionInv, RequestOK, Path, Request, OpNames, WorkInv,
     PhaseKnown, Phases, orderLocal, flowLocal, StageOnHit, IdemGet, Goto, Finish, AfterLookup
<1>14. CASE IdemSave(r)
  BY <1>0, <1>14 DEF TypeOK, LocalsOK, SessionInv, RequestOK, Path, Request, OpNames, WorkInv,
     PhaseKnown, Phases, orderLocal, flowLocal, IdemSave, Finish
<1>15. CASE Send(r)
  BY <1>0, <1>15 DEF TypeOK, LocalsOK, SessionInv, RequestOK, Path, Request, OpNames, WorkInv,
     PhaseKnown, Phases, orderLocal, flowLocal, Send, Goto
<1>16. CASE OutboxCommit(r)
  BY <1>0, <1>16 DEF TypeOK, LocalsOK, SessionInv, RequestOK, Path, Request, OpNames, WorkInv,
     PhaseKnown, Phases, orderLocal, flowLocal, OutboxCommit, Goto, AfterPublish, Conclude
<1>17. CASE Notify(r)
  BY <1>0, <1>17 DEF TypeOK, LocalsOK, SessionInv, RequestOK, Path, Request, OpNames, WorkInv,
     PhaseKnown, Phases, orderLocal, flowLocal, Notify, Goto, Finish, Conclude
<1>. QED
  BY <1>1, <1>2, <1>3, <1>4, <1>5, <1>6, <1>7, <1>8, <1>9, <1>10, <1>11, <1>12, <1>13, <1>14,
     <1>15, <1>16, <1>17 DEF RepositoryStep

\* The same for the steps of the handlers.
LEMMA UseCasePhase ==
  ASSUME TypeOK, NEW r \in Requests, SessionInv(r), WorkGrows, WorkTables, WorkInv(r),
     UseCaseStep(r)
  PROVE  PhaseKnown(r)'
<1>0. req'[r] = req[r]
  BY SameRequest
<1>1. CASE CheckCustomer(r)
  BY <1>0, <1>1 DEF TypeOK, LocalsOK, SessionInv, RequestOK, Path, Request, OpNames, WorkInv,
     PhaseKnown, Phases, orderLocal, flowLocal, CheckCustomer, CustomerAnswers, Goto, Finish
<1>2. CASE CheckNoActiveOrder(r)
  BY <1>0, <1>2 DEF TypeOK, LocalsOK, SessionInv, RequestOK, Path, Request, OpNames, WorkInv,
     PhaseKnown, Phases, orderLocal, flowLocal, CheckNoActiveOrder, Goto, Finish
<1>3. CASE AddProduct(r)
  BY <1>0, <1>3 DEF TypeOK, LocalsOK, SessionInv, RequestOK, Path, Request, OpNames, WorkInv,
     PhaseKnown, Phases, orderLocal, flowLocal, AddProduct, Goto, Finish
<1>4. CASE RemoveProduct(r)
  BY <1>0, <1>4 DEF TypeOK, LocalsOK, SessionInv, RequestOK, Path, Request, OpNames, WorkInv,
     PhaseKnown, Phases, orderLocal, flowLocal, RemoveProduct, Goto, Finish
<1>5. CASE SagaSelect(r)
  BY <1>0, <1>5 DEF TypeOK, LocalsOK, SessionInv, RequestOK, Path, Request, OpNames, WorkInv,
     PhaseKnown, Phases, orderLocal, flowLocal, SagaSelect, Goto
<1>6. CASE SagaCommit(r)
  BY <1>0, <1>6 DEF TypeOK, LocalsOK, SessionInv, RequestOK, Path, Request, OpNames, WorkInv,
     PhaseKnown, Phases, orderLocal, flowLocal, SagaCommit, Goto, Finish, AfterSagaSave
<1>7. CASE ValidateCustomer(r)
  BY <1>0, <1>7 DEF TypeOK, LocalsOK, SessionInv, RequestOK, Path, Request, OpNames, WorkInv,
     PhaseKnown, Phases, orderLocal, flowLocal, ValidateCustomer, Goto, Finish, FailPhase
<1>8. CASE FetchPrices(r)
  BY <1>0, <1>8 DEF TypeOK, LocalsOK, SessionInv, RequestOK, Path, Request, OpNames, WorkInv,
     PhaseKnown, Phases, orderLocal, flowLocal, FetchPrices, Goto, Finish, FailPhase
<1>9. CASE VoidPendingPayment(r)
  BY <1>0, <1>9 DEF TypeOK, LocalsOK, SessionInv, RequestOK, Path, Request, OpNames, WorkInv,
     PhaseKnown, Phases, orderLocal, flowLocal, VoidPendingPayment, Goto
<1>10. CASE ApplyCancel(r)
  BY <1>0, <1>10 DEF TypeOK, LocalsOK, SessionInv, RequestOK, Path, Request, OpNames, WorkInv,
     PhaseKnown, Phases, orderLocal, flowLocal, ApplyCancel, Goto, Finish
<1>11. CASE ReturnPaymentOfKey(r)
  BY <1>0, <1>11 DEF TypeOK, LocalsOK, SessionInv, RequestOK, Path, Request, OpNames, WorkInv,
     PhaseKnown, Phases, orderLocal, flowLocal, ReturnPaymentOfKey, Goto, Finish
<1>12. CASE PreparePayment(r)
  BY <1>0, <1>12 DEF TypeOK, LocalsOK, SessionInv, RequestOK, Path, Request, OpNames, WorkInv,
     PhaseKnown, Phases, orderLocal, flowLocal, PreparePayment, Goto, Finish
<1>13. CASE GatewayAccepts(r)
  BY <1>0, <1>13 DEF TypeOK, LocalsOK, SessionInv, RequestOK, Path, Request, OpNames, WorkInv,
     PhaseKnown, Phases, orderLocal, flowLocal, GatewayAccepts, Goto
<1>14. CASE GatewayUnavailable(r)
  BY <1>0, <1>14 DEF TypeOK, LocalsOK, SessionInv, RequestOK, Path, Request, OpNames, WorkInv,
     PhaseKnown, Phases, orderLocal, flowLocal, GatewayUnavailable
<1>15. CASE GatewayRefuses(r)
  BY <1>0, <1>15 DEF TypeOK, LocalsOK, SessionInv, RequestOK, Path, Request, OpNames, WorkInv,
     PhaseKnown, Phases, orderLocal, flowLocal, GatewayRefuses
<1>16. CASE GatewayLost(r)
  BY <1>0, <1>16 DEF TypeOK, LocalsOK, SessionInv, RequestOK, Path, Request, OpNames, WorkInv,
     PhaseKnown, Phases, orderLocal, flowLocal, GatewayLost, Finish
<1>17. CASE RestorePreviousStatus(r)
  BY <1>0, <1>17 DEF TypeOK, LocalsOK, SessionInv, RequestOK, Path, Request, OpNames, WorkInv,
     PhaseKnown, Phases, orderLocal, flowLocal, RestorePreviousStatus, Goto, Finish
<1>18. CASE LoadPayment(r)
  BY <1>0, <1>18 DEF TypeOK, LocalsOK, SessionInv, RequestOK, Path, Request, OpNames, WorkInv,
     PhaseKnown, Phases, orderLocal, flowLocal, LoadPayment, Goto, Finish
<1>19. CASE ApplyVerdict(r)
  BY <1>0, <1>19 DEF TypeOK, LocalsOK, SessionInv, RequestOK, Path, Request, OpNames, WorkInv,
     PhaseKnown, Phases, orderLocal, flowLocal, ApplyVerdict, Goto, Finish
<1>. QED
  BY <1>1, <1>2, <1>3, <1>4, <1>5, <1>6, <1>7, <1>8, <1>9, <1>10, <1>11, <1>12, <1>13, <1>14,
     <1>15, <1>16, <1>17, <1>18, <1>19 DEF UseCaseStep

\* A step that neither comes to the outbox commit nor leaves it, and that is not
\* where a request gets through publish.
Unannounced(r) ==
    /\ "outbox_commit" \notin {pc[r], pc'[r]} /\ pc[r] # "idle"
    /\ Published(r)' => Published(r)

\* The steps of publish apart, such is every round trip of the repositories.
LEMMA RepositoryUnannounced ==
  ASSUME TypeOK, NEW r \in Requests, RepositoryStep(r)
  PROVE  Unannounced(r) \/ Send(r) \/ OutboxCommit(r)
<1>1. CASE LoadRow(r)
  BY <1>1 DEF TypeOK, LocalsOK, Unannounced, orderLocal, flowLocal, LoadRow, Goto, Finish,
     Published
<1>2. CASE LoadItems(r)
  BY <1>2 DEF TypeOK, LocalsOK, Unannounced, orderLocal, flowLocal, LoadItems, Goto, AfterLoad,
     Published
<1>3. CASE LoadCached(r)
  BY <1>3 DEF TypeOK, LocalsOK, Unannounced, orderLocal, flowLocal, LoadCached, Goto, AfterLoad,
     Published
<1>4. CASE SaveSelect(r)
  BY <1>4 DEF TypeOK, LocalsOK, Unannounced, orderLocal, flowLocal, SaveSelect, Goto, Published
<1>5. CASE SaveCheck(r)
  BY <1>5 DEF TypeOK, LocalsOK, Unannounced, orderLocal, flowLocal, SaveCheck, CheckVersion,
     Goto, Finish, Published
<1>6. CASE SaveCheckCached(r)
  BY <1>6 DEF TypeOK, LocalsOK, Unannounced, orderLocal, flowLocal, SaveCheckCached,
     CheckVersion, Goto, Finish, Published
<1>7. CASE SaveCommit(r)
  BY <1>7 DEF TypeOK, LocalsOK, Unannounced, orderLocal, flowLocal, SaveCommit, Goto,
     AfterOrderSave, Published
<1>8. CASE SaveFails(r)
  BY <1>8 DEF TypeOK, LocalsOK, Unannounced, orderLocal, flowLocal, SaveFails, Finish, Published
<1>9. CASE InsertOrder(r)
  BY <1>9 DEF TypeOK, LocalsOK, Unannounced, orderLocal, flowLocal, InsertOrder, Goto,
     AfterOrderSave, Published
<1>10. CASE PaymentSelect(r)
  BY <1>10 DEF TypeOK, LocalsOK, Unannounced, orderLocal, flowLocal, PaymentSelect, Goto,
     Published
<1>11. CASE PaymentCommit(r)
  BY <1>11 DEF TypeOK, LocalsOK, Unannounced, orderLocal, flowLocal, PaymentCommit, Goto,
     AfterPaymentSave, Published
<1>12. CASE PaymentInsertFails(r)
  BY <1>12 DEF TypeOK, LocalsOK, Unannounced, orderLocal, flowLocal, PaymentInsertFails, Finish,
     Published
<1>13. CASE IdemGet(r)
  BY <1>13 DEF TypeOK, LocalsOK, Unannounced, orderLocal, flowLocal, IdemGet, Goto, Finish,
     AfterLookup, Published, StageOnHit
<1>14. CASE IdemSave(r)
  BY <1>14 DEF TypeOK, LocalsOK, Unannounced, orderLocal, flowLocal, IdemSave, Finish, Published
<1>15. CASE Notify(r)
  BY <1>15 DEF TypeOK, LocalsOK, Unannounced, orderLocal, flowLocal, Notify, Goto, Finish,
     Conclude, Published
<1>. QED
  BY <1>1, <1>2, <1>3, <1>4, <1>5, <1>6, <1>7, <1>8, <1>9, <1>10, <1>11, <1>12, <1>13, <1>14,
     <1>15 DEF RepositoryStep

\* The same for the steps of the handlers.
LEMMA UseCaseUnannounced ==
  ASSUME TypeOK, NEW r \in Requests, UseCaseStep(r)
  PROVE  Unannounced(r)
<1>1. CASE CheckCustomer(r)
  BY <1>1 DEF TypeOK, LocalsOK, Unannounced, orderLocal, flowLocal, CheckCustomer,
     CustomerAnswers, Goto, Finish, Published
<1>2. CASE CheckNoActiveOrder(r)
  BY <1>2 DEF TypeOK, LocalsOK, Unannounced, orderLocal, flowLocal, CheckNoActiveOrder, Goto,
     Finish, Published
<1>3. CASE AddProduct(r)
  BY <1>3 DEF TypeOK, LocalsOK, Unannounced, orderLocal, flowLocal, AddProduct, Goto, Finish,
     Published
<1>4. CASE RemoveProduct(r)
  BY <1>4 DEF TypeOK, LocalsOK, Unannounced, orderLocal, flowLocal, RemoveProduct, Goto, Finish,
     Published
<1>5. CASE SagaSelect(r)
  BY <1>5 DEF TypeOK, LocalsOK, Unannounced, orderLocal, flowLocal, SagaSelect, Goto, Published
<1>6. CASE SagaCommit(r)
  BY <1>6 DEF TypeOK, LocalsOK, Unannounced, orderLocal, flowLocal, SagaCommit, Goto, Finish,
     AfterSagaSave, Published
<1>7. CASE ValidateCustomer(r)
  BY <1>7 DEF TypeOK, LocalsOK, Unannounced, orderLocal, flowLocal, ValidateCustomer, Goto,
     Finish, FailPhase, Published
<1>8. CASE FetchPrices(r)
  BY <1>8 DEF TypeOK, LocalsOK, Unannounced, orderLocal, flowLocal, FetchPrices, Goto, Finish,
     FailPhase, Published
<1>9. CASE VoidPendingPayment(r)
  BY <1>9 DEF TypeOK, LocalsOK, Unannounced, orderLocal, flowLocal, VoidPendingPayment, Goto,
     Published
<1>10. CASE ApplyCancel(r)
  BY <1>10 DEF TypeOK, LocalsOK, Unannounced, orderLocal, flowLocal, ApplyCancel, Goto, Finish,
     Published
<1>11. CASE ReturnPaymentOfKey(r)
  BY <1>11 DEF TypeOK, LocalsOK, Unannounced, orderLocal, flowLocal, ReturnPaymentOfKey, Goto,
     Finish, Published
<1>12. CASE PreparePayment(r)
  BY <1>12 DEF TypeOK, LocalsOK, Unannounced, orderLocal, flowLocal, PreparePayment, Goto,
     Finish, Published
<1>13. CASE GatewayAccepts(r)
  BY <1>13 DEF TypeOK, LocalsOK, Unannounced, orderLocal, flowLocal, GatewayAccepts, Goto,
     Published
<1>14. CASE GatewayUnavailable(r)
  BY <1>14 DEF TypeOK, LocalsOK, Unannounced, orderLocal, flowLocal, GatewayUnavailable,
     Published
<1>15. CASE GatewayRefuses(r)
  BY <1>15 DEF TypeOK, LocalsOK, Unannounced, orderLocal, flowLocal, GatewayRefuses, Published
<1>16. CASE GatewayLost(r)
  BY <1>16 DEF TypeOK, LocalsOK, Unannounced, orderLocal, flowLocal, GatewayLost, Finish,
     Published
<1>17. CASE RestorePreviousStatus(r)
  BY <1>17 DEF TypeOK, LocalsOK, Unannounced, orderLocal, flowLocal, RestorePreviousStatus,
     Goto, Finish, Published
<1>18. CASE LoadPayment(r)
  BY <1>18 DEF TypeOK, LocalsOK, Unannounced, orderLocal, flowLocal, LoadPayment, Goto, Finish,
     Published
<1>19. CASE ApplyVerdict(r)
  BY <1>19 DEF TypeOK, LocalsOK, Unannounced, orderLocal, flowLocal, ApplyVerdict, Goto, Finish,
     Published
<1>. QED
  BY <1>1, <1>2, <1>3, <1>4, <1>5, <1>6, <1>7, <1>8, <1>9, <1>10, <1>11, <1>12, <1>13, <1>14,
     <1>15, <1>16, <1>17, <1>18, <1>19 DEF UseCaseStep

\* What was announced stays announced.
LEMMA AnnouncedStays ==
  ASSUME WorkGrows, NEW q \in Requests, req'[q] = req[q], req[q].order \in Orders, Announced(q),
         Unannounced(q)
  PROVE  Announced(q)'
BY WorkStays DEF Announced, Unannounced

\* publish announces the event: the message first, then the row.
LEMMA OwnAnnounced ==
  ASSUME TypeOK, NEW r \in Requests, SessionInv(r), WorkGrows, WorkInv(r),
         RepositoryStep(r) \/ UseCaseStep(r)
  PROVE  Announced(r)'
<1>0. req'[r] = req[r] /\ req[r].order \in Orders
  BY SameRequest
<1>1. CASE Unannounced(r)
  BY <1>0, <1>1, AnnouncedStays DEF WorkInv
<1>2. CASE Send(r)
  <2>1. pc'[r] = "outbox_commit"
    BY <1>2 DEF TypeOK, LocalsOK, Send, Goto
  <2>2. stage'[r] = "sent" => queue' = Bump(queue, r)
    BY <1>2 DEF TypeOK, LocalsOK, Send
  <2>3. EventOf(r)' = EventOf(r) /\ EventOf(r) \in EventTypes
    BY <1>0, EventOfType DEF EventOf, EventFor
  <2>4. queue \in [Orders -> [EventTypes -> Nat]]
    BY DEF TypeOK, WorldOK
  <2>5. Bump(queue, r)[req[r].order][EventOf(r)] > 0
    BY <1>0, <2>3, <2>4, BumpCounts
  <2>. QED BY <1>0, <2>1, <2>2, <2>3, <2>5 DEF Announced
<1>3. CASE OutboxCommit(r)
  <2>1. pc'[r] # "outbox_commit"
    BY <1>3 DEF TypeOK, LocalsOK, OutboxCommit, Goto, AfterPublish, Conclude
  <2>2. EventOf(r)' = EventOf(r)
    BY <1>0 DEF EventOf, EventFor
  <2>. DEFINE row == [order |-> req[r].order, type |-> EventOf(r), published |-> stage[r] =
     "sent"]
  <2>3. row \in outbox' /\ row.order = req[r].order /\ row.type = EventOf(r)
    BY <1>3 DEF OutboxCommit
  <2>. HIDE DEF row
  <2>4. Filed(req[r].order, EventOf(r))'
    BY <1>0, <2>2, <2>3 DEF Filed
  <2>. QED BY <2>1, <2>4 DEF Announced
<1>. QED BY <1>1, <1>2, <1>3, RepositoryUnannounced, UseCaseUnannounced

(***************************************************************************)
(* So every request keeps knowing what it has done.                        *)
(***************************************************************************)

\* A step of a handler.
LEMMA OwnWork ==
  ASSUME TypeOK, NEW r \in Requests, SessionInv(r), WorkGrows, WorkTables, WorkInv(r),
         RepositoryStep(r) \/ UseCaseStep(r)
  PROVE  WorkInv(r)'
<1>1. WorkDone(r)'
  BY RepositoryWork, UseCaseWork
<1>2. HeldOpened(r)'
  BY RepositoryHeld, UseCaseHeld
<1>3. PhaseKnown(r)'
  BY RepositoryPhase, UseCasePhase
<1>4. Announced(r)'
  BY OwnAnnounced
<1>. QED BY <1>1, <1>2, <1>3, <1>4 DEF WorkInv

\* An order that had a payment opened still has.
LEMMA OpenedStays ==
  ASSUME WorkGrows, NEW o \in Orders, Opened(o)
  PROVE  Opened(o)'
  BY DEF WorkGrows, Opened, EventTypes

\* A step that leaves a session as it is.
LEMMA SameSessionWork ==
  ASSUME NEW q \in Requests, SessionInv(q), WorkGrows, WorkInv(q),
         pc'[q] = pc[q], req'[q] = req[q], pay'[q] = pay[q], stage'[q] = stage[q], reply'[q] =
            reply[q]
  PROVE  WorkInv(q)'
<1>1. CASE pc[q] = "idle"
  BY <1>1 DEF WorkInv, WorkDone, HeldOpened, PhaseKnown, Announced, Published
<1>2. CASE pc[q] # "idle"
  <2>1. req[q].order \in Orders /\ req[q].op \in OpNames
    BY <1>2 DEF SessionInv, RequestOK, Request
  <2>2. WorkDone(q)' /\ HeldOpened(q)'
    BY <2>1, WorkStays DEF WorkInv, WorkDone, HeldOpened
  <2>3. PhaseKnown(q)'
    BY DEF WorkInv, PhaseKnown
  <2>4. EventOf(q) \in EventTypes /\ EventOf(q)' = EventOf(q)
    BY EventOfType DEF EventOf, EventFor
  <2>5. Announced(q)'
    BY <2>1, <2>4, WorkStays DEF WorkInv, Announced, Published, WorkGrows
  <2>. QED BY <2>2, <2>3, <2>5 DEF WorkInv
<1>. QED BY <1>1, <1>2

\* A request that has just arrived has nothing done and nothing settled.
LEMMA ArrivingWork ==
  ASSUME TypeOK, NEW r \in Requests, SessionInv(r), Arrive(r)
  PROVE  WorkInv(r)'
<1>1. PICK request, first, firstStage : Brings(r, request, first, firstStage)
  BY Arrival
<1>2. /\ pc'[r] = first /\ req'[r] = request /\ stage'[r] = firstStage /\ reply'[r] = "ok"
      /\ pay'[r].status = Absent
  BY <1>1 DEF Brings, Receive, TypeOK, LocalsOK, SessionInv, IdleOK, NoPaymentEntity
<1>3. /\ first \in {"customer", "load", "idem_get", "pay_by_key", "pay_load"}
      /\ firstStage \in {"start", "customer"} /\ firstStage \in Phases(request.op)
  BY <1>1 DEF Brings, Request, OpNames, Phases
<1>4. WorkDone(r)' /\ HeldOpened(r)'
  BY <1>2, <1>3 DEF WorkDone, HeldOpened
<1>5. PhaseKnown(r)'
  BY <1>2, <1>3 DEF PhaseKnown
<1>6. Announced(r)'
  BY <1>2, <1>3 DEF Announced, Published
<1>. QED BY <1>4, <1>5, <1>6 DEF WorkInv

\* Neither has a slot whose request has ended.
LEMMA EndedWork ==
  ASSUME NEW r \in Requests, pc'[r] = "idle", req'[r] = NoRequest
  PROVE  WorkInv(r)'
  BY DEF WorkInv, WorkDone, HeldOpened, PhaseKnown, Announced, Published, NoRequest

\* Every step of the service.
LEMMA WorkKept ==
  ASSUME IndInv, IndWork, WorkGrows, [Next]_vars
  PROVE  \A q \in Requests : WorkInv(q)'
<1>. SUFFICES ASSUME NEW q \in Requests PROVE WorkInv(q)'
  OBVIOUS
<1>. USE DEF IndInv, IndWork
<1>0. ASSUME NEW r \in Requests, Others(r), q # r PROVE WorkInv(q)'
  BY <1>0, SameSessionWork DEF Others
<1>1. ASSUME NEW r \in Requests, RepositoryStep(r) \/ UseCaseStep(r) PROVE WorkInv(q)'
  BY <1>0, <1>1, OwnWork, RepositoryOthers, UseCaseOthers
<1>2. ASSUME NEW r \in Requests, Arrive(r) PROVE WorkInv(q)'
  BY <1>0, <1>2, ArrivingWork, ArriveOthers
<1>3. ASSUME NEW r \in Requests, Respond(r) PROVE WorkInv(q)'
  <2>1. CASE q = r
    BY <1>3, <2>1, EndedWork DEF Respond, EndSessions
  <2>2. CASE q # r
    BY <1>0, <1>3, <2>2, RespondOthers
  <2>. QED BY <2>1, <2>2
<1>4. CASE Crash
  BY <1>4, EndedWork DEF Crash, EndSessions
<1>5. CASE UNCHANGED vars
  BY <1>5, SameSessionWork DEF vars, flowLocal
<1>. QED BY <1>1, <1>2, <1>3, <1>4, <1>5 DEF Next, Serve, Quiet

(***************************************************************************)
(* Tables.                                                                 *)
(***************************************************************************)

\* Steps that write none of the tables concerned.
LEMMA CommitsUntouched ==
  ASSUME CommitsFirst, WorkGrows, Grows, UNCHANGED <<queue, payments, settled>>,
         \A o \in Orders : commits'[o]["PAYMENT_APPROVED"] > 0 =>
                               commits[o]["PAYMENT_APPROVED"] > 0 \/ Approved(o)
  PROVE  CommitsFirst'
<1>1. MessagesCommitted'
  BY DEF CommitsFirst, MessagesCommitted, WorkGrows
<1>2. PaymentsOpened'
  BY OpenedStays DEF CommitsFirst, PaymentsOpened
<1>3. ApprovalsSettled'
  BY DEF CommitsFirst, ApprovalsSettled, Grows
<1>4. VerdictsReported'
  BY DEF CommitsFirst, VerdictsReported, Grows
<1>. QED BY <1>1, <1>2, <1>3, <1>4 DEF CommitsFirst

\* A callback that approves has settled an approval.
LEMMA ApprovalSettled ==
  ASSUME NEW r \in Requests, SessionInv(r), WorkInv(r), SaveCommit(r), EventOf(r) =
     "PAYMENT_APPROVED"
  PROVE  Approved(req[r].order)
<1>1. pc[r] = "commit" /\ req[r].op = "callback" /\ req[r].verdict = "APPROVED"
  BY DEF SaveCommit, EventOf, EventFor
<1>2. VerdictSettled(r) /\ Reported(req[r].order, req[r].txn, "APPROVED")
  BY <1>1 DEF WorkInv, WorkDone, SessionInv, RequestOK
<1>3. PICK i \in DOMAIN settled[req[r].order] :
         settled[req[r].order][i] = [txn |-> req[r].txn, verdict |-> req[r].verdict, key |->
            req[r].key]
  BY <1>2 DEF VerdictSettled
<1>4. settled[req[r].order][i].verdict = "APPROVED" /\ settled[req[r].order][i].txn = req[r].txn
  BY <1>1, <1>3
<1>. QED BY <1>2, <1>4 DEF Approved

\* The commit of an order.
LEMMA OrderCommitFirst ==
  ASSUME TypeOK, NEW r \in Requests, SessionInv(r), WorkInv(r), CommitsFirst, WorkGrows, Grows,
     SaveCommit(r)
  PROVE  CommitsFirst'
<1>1. req[r].order \in Orders /\ commits \in [Orders -> [EventTypes -> Nat]]
  BY SavingOrder DEF SaveCommit, TypeOK, WorldOK
<1>2. commits' = Bump(commits, r) \/ commits' = commits
  BY DEF SaveCommit
<1>3. UNCHANGED <<queue, payments, settled>>
  BY DEF SaveCommit, worldVars
<1>4. ASSUME NEW o \in Orders, commits'[o]["PAYMENT_APPROVED"] > 0
      PROVE  commits[o]["PAYMENT_APPROVED"] > 0 \/ Approved(o)
  <2>1. CASE o = req[r].order /\ EventOf(r) = "PAYMENT_APPROVED"
    BY <2>1, ApprovalSettled
  <2>2. CASE ~(o = req[r].order /\ EventOf(r) = "PAYMENT_APPROVED")
    BY <1>1, <1>2, <1>4, <2>2, BumpCounts DEF EventTypes
  <2>. QED BY <2>1, <2>2
<1>. QED BY <1>3, <1>4, CommitsUntouched

\* The commit of a payment.
LEMMA PaymentCommitFirst ==
  ASSUME TypeOK, NEW r \in Requests, SessionInv(r), WorkInv(r), CommitsFirst, WorkGrows, Grows,
     PaymentCommit(r)
  PROVE  CommitsFirst'
<1>0. PICK o \in Orders : o = req[r].order
  BY SavingOrder DEF PaymentCommit
<1>1. /\ pay[r].order = o /\ pc[r] = "pay_commit" /\ pay[r].status # Absent
      /\ req[r].op \in {"cancel", "initiate", "callback"}
  BY <1>0, SavingOrder DEF PaymentCommit, SessionInv, PaymentOK, RequestOK, Request, OpNames,
     Path
<1>2. payments' = [payments EXCEPT ![o] = WrittenPayment(@, pay[r])]
  BY <1>1 DEF PaymentCommit
<1>3. UNCHANGED <<queue, charges>>
  BY DEF PaymentCommit, worldVars
<1>4. commits \in [Orders -> [EventTypes -> Nat]]
  BY DEF TypeOK, WorldOK
<1>5. \/ req[r].op # "initiate" /\ commits' = commits
      \/ req[r].op = "initiate" /\ commits' = Bump(commits, r) /\ EventOf(r) =
         "PAYMENT_INITIATED"
  BY DEF PaymentCommit, EventOf, EventFor
<1>6. Opened(o)'
  <2>1. CASE req[r].op = "initiate"
    BY <1>0, <1>4, <1>5, <2>1, BumpCounts DEF Opened, EventTypes
  <2>2. CASE req[r].op # "initiate"
    BY <1>0, <1>1, <2>2, OpenedStays DEF WorkInv, HeldOpened
  <2>. QED BY <2>1, <2>2
<1>7. PaymentsOpened'
  <2>1. \A x \in Orders : payments'[x] = payments[x] \/ x = o
    BY <1>2 DEF TypeOK, DatabaseOK
  <2>2. payments'[o].status # Absent \/ payments'[o] = payments[o]
    BY <1>1, <1>2 DEF TypeOK, DatabaseOK, WrittenPayment
  <2>. QED BY <1>6, <2>1, <2>2, OpenedStays DEF CommitsFirst, PaymentsOpened
<1>8. MessagesCommitted'
  BY <1>3 DEF CommitsFirst, MessagesCommitted, WorkGrows
<1>9. ApprovalsSettled'
  <2>1. \A x \in Orders : commits'[x]["PAYMENT_APPROVED"] > 0 => commits[x]["PAYMENT_APPROVED"]
     > 0
    BY <1>0, <1>4, <1>5, BumpCounts DEF EventTypes
  <2>. QED BY <2>1 DEF CommitsFirst, ApprovalsSettled, Grows
<1>10. VerdictsReported'
  <2>1. CASE req[r].op = "callback"
    <3>1. Reported(o, req[r].txn, req[r].verdict)
      BY <1>0, <1>1, <2>1 DEF SessionInv, RequestOK
    <3>2. /\ \A x \in Orders \ {o} : settled'[x] = settled[x]
          /\ \A i \in DOMAIN settled'[o] :
                \/ i \in DOMAIN settled[o] /\ settled'[o][i] = settled[o][i]
                \/ settled'[o][i].txn = req[r].txn /\ settled'[o][i].verdict = req[r].verdict
      <4>. DEFINE s == [txn |-> req[r].txn, verdict |-> req[r].verdict, key |-> req[r].key]
      <4>1. s.txn = req[r].txn /\ s.verdict = req[r].verdict
        OBVIOUS
      <4>2. /\ \A x \in Orders \ {o} : settled'[x] = settled[x]
            /\ \A i \in DOMAIN settled'[o] :
                  (i \in DOMAIN settled[o] /\ settled'[o][i] = settled[o][i]) \/ settled'[o][i]
                     = s
        BY <1>0, <2>1, NowSettled
      <4>. HIDE DEF s
      <4>. QED BY <4>1, <4>2
    <3>3. \A x \in Orders : \A i \in DOMAIN settled'[x] : Reported(x, settled'[x][i].txn,
       settled'[x][i].verdict)
      BY <3>1, <3>2 DEF CommitsFirst, VerdictsReported
    <3>. QED BY <1>3, <3>3 DEF VerdictsReported, Reported
  <2>2. CASE req[r].op # "callback"
    BY <2>2 DEF PaymentCommit, CommitsFirst, VerdictsReported, Grows
  <2>. QED BY <2>1, <2>2
<1>. QED BY <1>7, <1>8, <1>9, <1>10 DEF CommitsFirst

\* A message is sent.
LEMMA SendFirst ==
  ASSUME TypeOK, NEW r \in Requests, SessionInv(r), WorkInv(r), CommitsFirst, WorkGrows, Grows,
     Send(r)
  PROVE  CommitsFirst'
<1>1. req[r].order \in Orders /\ Committed(r) /\ queue \in [Orders -> [EventTypes -> Nat]]
  BY SavingOrder DEF Send, WorkInv, WorkDone, TypeOK, WorldOK
<1>2. queue' = Bump(queue, r) \/ queue' = queue
  BY DEF Send
<1>3. UNCHANGED <<payments, commits, settled, charges>>
  BY DEF Send, dbVars, ghostVars
<1>4. \A o \in Orders, e \in EventTypes :
         queue'[o][e] > 0 => queue[o][e] > 0 \/ (o = req[r].order /\ e = EventOf(r))
  <2>1. \A o \in Orders, e \in EventTypes :
           Bump(queue, r)[o][e] = IF o = req[r].order /\ e = EventOf(r) THEN queue[o][e] + 1
              ELSE queue[o][e]
    BY <1>1, BumpCounts
  <2>. SUFFICES ASSUME NEW o \in Orders, NEW e \in EventTypes, queue'[o][e] > 0,
                       ~(o = req[r].order /\ e = EventOf(r))
                PROVE  queue[o][e] > 0
    OBVIOUS
  <2>2. queue'[o][e] = queue[o][e]
    BY <1>2, <2>1
  <2>. QED BY <2>2
<1>5. MessagesCommitted'
  BY <1>1, <1>3, <1>4 DEF CommitsFirst, MessagesCommitted, Committed
<1>6. PaymentsOpened' /\ ApprovalsSettled' /\ VerdictsReported'
  BY <1>3 DEF CommitsFirst, PaymentsOpened, ApprovalsSettled, VerdictsReported, Opened,
     Approved, Reported
<1>. QED BY <1>5, <1>6 DEF CommitsFirst

\* So every step of the service.
LEMMA CommitsKept ==
  ASSUME IndInv, IndWork, WorkGrows, Grows, [Next]_vars
  PROVE  CommitsFirst'
<1>. USE DEF IndInv, IndWork, WorkTables
<1>1. CASE UNCHANGED Reports
  BY <1>1, CommitsUntouched DEF Reports
<1>2. ASSUME NEW r \in Requests, SaveCommit(r) PROVE CommitsFirst'
  BY <1>2, OrderCommitFirst
<1>3. ASSUME NEW r \in Requests, PaymentCommit(r) PROVE CommitsFirst'
  BY <1>3, PaymentCommitFirst
<1>4. ASSUME NEW r \in Requests, Send(r) PROVE CommitsFirst'
  BY <1>4, SendFirst
<1>5. ASSUME NEW r \in Requests, IdemSave(r) \/ OutboxCommit(r) \/ Calls(r)
      PROVE  CommitsFirst'
  <2>1. UNCHANGED <<queue, payments, settled, commits>>
    BY <1>5, CallCharges DEF IdemSave, OutboxCommit, dbVars, worldVars, ghostVars
  <2>. QED BY <2>1, CommitsUntouched
<1>. QED BY <1>1, <1>2, <1>3, <1>4, <1>5, Writers

\* A key that was recorded for work that was done.
LEMMA EffectStays ==
  ASSUME TypeOK, WorkGrows, NEW k \in idem, EffectOf(k), Filed(k.hash.order, EventFor(k.op, k.hash.verdict))
  PROVE  EffectOf(k)' /\ Filed(k.hash.order, EventFor(k.op, k.hash.verdict))'
<1>1. k.hash.order \in Orders /\ k.op \in {"confirm", "initiate", "callback"}
  BY DEF TypeOK, DatabaseOK, Hash
<1>2. Filed(k.hash.order, EventFor(k.op, k.hash.verdict))'
  BY DEF Filed, WorkGrows
<1>3. EventFor(k.op, k.hash.verdict) \in EventTypes
  BY DEF EventFor, EventTypes
<1>4. EffectOf(k)'
  BY <1>1, <1>3 DEF EffectOf, WorkGrows
<1>. QED BY <1>2, <1>4

\* The key that is recorded at the end of a handler.
LEMMA SavedKey ==
  ASSUME TypeOK, NEW r \in Requests, SessionInv(r), WorkInv(r), IdemSave(r),
         NEW k, k = [key |-> req[r].key, op |-> req[r].op, hash |-> RequestHash(r)]
  PROVE  EffectOf(k) /\ Filed(k.hash.order, EventFor(k.op, k.hash.verdict))
<1>1. /\ Committed(r) /\ Filed(req[r].order, EventOf(r))
      /\ req[r].op \in {"confirm", "initiate", "callback"}
      /\ req[r].op = "callback" => VerdictSettled(r)
  BY DEF IdemSave, WorkInv, WorkDone, PhaseKnown, Announced, Published, SessionInv, RequestOK,
     Request, OpNames, Path
<1>2. /\ k.hash.order = req[r].order /\ k.hash.txn = req[r].txn /\ k.hash.verdict =
         req[r].verdict
      /\ k.op = req[r].op /\ k.key = req[r].key
      /\ EventFor(k.op, k.hash.verdict) = EventOf(r)
  BY DEF RequestHash, EventOf
<1>3. ASSUME k.op = "callback" PROVE EffectOf(k)
  <2>1. PICK i \in DOMAIN settled[req[r].order] : settled[req[r].order][i] =
               [txn |-> req[r].txn, verdict |-> req[r].verdict, key |-> req[r].key]
    BY <1>1, <1>2, <1>3 DEF VerdictSettled
  <2>2. settled[k.hash.order][i].txn = k.hash.txn /\ settled[k.hash.order][i].key = k.key
    BY <1>2, <2>1
  <2>. QED BY <1>1, <1>2, <2>1, <2>2 DEF EffectOf, Committed
<1>4. ASSUME k.op \in {"confirm", "initiate"} PROVE EffectOf(k)
  BY <1>1, <1>2, <1>4 DEF EffectOf, Committed
<1>. QED BY <1>1, <1>2, <1>3, <1>4

\* So every step of the service keeps the keys honest.
LEMMA KeysKept ==
  ASSUME IndInv, IndWork, WorkGrows, [Next]_vars
  PROVE  KeyRecordedAfterEffect'
<1>. USE DEF IndInv, IndWork, WorkTables
<1>0. \A k \in idem : EffectOf(k)' /\ Filed(k.hash.order, EventFor(k.op, k.hash.verdict))'
  BY EffectStays DEF KeyRecordedAfterEffect, Filed
<1>1. ASSUME UNCHANGED idem PROVE KeyRecordedAfterEffect'
  BY <1>0, <1>1 DEF KeyRecordedAfterEffect, Filed
<1>2. ASSUME NEW r \in Requests, IdemSave(r), NEW k \in idem'
      PROVE  EffectOf(k)' /\ Filed(k.hash.order, EventFor(k.op, k.hash.verdict))'
  <2>1. UNCHANGED <<commits, settled, outbox>>
    BY <1>2 DEF IdemSave, ghostVars
  <2>2. k \in idem \/ k = [key |-> req[r].key, op |-> req[r].op, hash |-> RequestHash(r)]
    BY <1>2 DEF IdemSave
  <2>3. EffectOf(k) /\ Filed(k.hash.order, EventFor(k.op, k.hash.verdict))
    BY <1>2, <2>2, SavedKey DEF KeyRecordedAfterEffect, Filed
  <2>. QED BY <2>1, <2>3 DEF EffectOf, Filed
<1>3. ASSUME NEW r \in Requests,
             SaveCommit(r) \/ PaymentCommit(r) \/ Send(r) \/ OutboxCommit(r) \/ Calls(r)
      PROVE  KeyRecordedAfterEffect'
  BY <1>1, <1>3, CallCharges DEF SaveCommit, PaymentCommit, Send, OutboxCommit, GatewayAccepts, GatewayLost,
     dbVars
<1>4. CASE UNCHANGED Reports
  BY <1>1, <1>4 DEF Reports
<1>5. ASSUME NEW r \in Requests, IdemSave(r) PROVE KeyRecordedAfterEffect'
  BY <1>2, <1>5 DEF KeyRecordedAfterEffect, Filed
<1>. QED BY <1>3, <1>4, <1>5, Writers

\* A row that says published is written after its message was sent.
LEMMA PublishedKept ==
  ASSUME IndInv, IndWork, WorkGrows, [Next]_vars
  PROVE  PublishedSent'
<1>. USE DEF IndInv, IndWork, WorkTables
<1>1. \A row \in outbox : row.published => queue'[row.order][row.type] > 0
  <2>1. \A row \in outbox : row.order \in Orders /\ row.type \in EventTypes
    BY DEF TypeOK, DatabaseOK
  <2>. QED BY <2>1 DEF PublishedSent, WorkGrows
<1>2. CASE UNCHANGED outbox
  BY <1>1, <1>2 DEF PublishedSent
<1>3. ASSUME NEW r \in Requests, OutboxCommit(r) PROVE PublishedSent'
  <2>. DEFINE row == [order |-> req[r].order, type |-> EventOf(r), published |-> stage[r] =
     "sent"]
  <2>1. row.published => queue[row.order][row.type] > 0
    BY <1>3 DEF OutboxCommit, WorkInv, Announced
  <2>2. outbox' = outbox \cup {row} /\ queue' = queue
    BY <1>3 DEF OutboxCommit, worldVars
  <2>. HIDE DEF row
  <2>. QED BY <2>1, <2>2 DEF PublishedSent
<1>4. ASSUME NEW r \in Requests,
             SaveCommit(r) \/ PaymentCommit(r) \/ Send(r) \/ IdemSave(r) \/ Calls(r)
      PROVE  UNCHANGED outbox
  BY <1>4, CallCharges DEF SaveCommit, PaymentCommit, Send, IdemSave, dbVars
<1>. QED BY <1>2, <1>3, <1>4, Writers DEF Reports

(***************************************************************************)
(* The invariant.                                                          *)
(***************************************************************************)

\* The database a behaviour starts from.
LEMMA InitWork == Init => IndWork
<1>. SUFFICES ASSUME Init PROVE IndWork
  OBVIOUS
<1>1. \A o \in Orders, e \in EventTypes : queue[o][e] > 0 => commits[o][e] > 0
  BY DEF Init
<1>2. \A o \in Orders : /\ payments[o].status # Absent => Opened(o)
                        /\ payments[o].status = Absent => payments[o].key = Nil
  BY DEF Init, NoPayment, GivenEvents, EventTypes, Opened
<1>3. \A o \in Orders : ~(commits[o]["PAYMENT_APPROVED"] > 0)
  BY DEF Init, GivenEvents, EventTypes
<1>4. ASSUME NEW o \in Orders, NEW i \in DOMAIN settled[o]
      PROVE  Reported(o, settled[o][i].txn, settled[o][i].verdict)
  BY <1>4 DEF Init, Reported, Rejection, RejectedCharge
<1>5. CommitsFirst
  BY <1>1, <1>2, <1>3, <1>4 DEF CommitsFirst, MessagesCommitted, PaymentsOpened,
     ApprovalsSettled, VerdictsReported
<1>6. KeyRecordedAfterEffect
  BY DEF Init, KeyRecordedAfterEffect
<1>7. ASSUME NEW r \in Requests PROVE WorkInv(r)
  BY DEF Init, WorkInv, WorkDone, HeldOpened, PhaseKnown, Announced, Published, NoRequest
<1>8. PublishedSent
  BY DEF Init, PublishedSent, GivenEvents, EventTypes
<1>. QED BY <1>5, <1>6, <1>7, <1>8 DEF IndWork, WorkTables

\* IndWork is inductive relative to IndInv.
LEMMA StepWork == IndInv /\ IndWork /\ [Next]_vars => IndWork'
<1>. SUFFICES ASSUME IndInv, IndWork, [Next]_vars PROVE IndWork'
  OBVIOUS
<1>1. Grows
  BY NextGrows DEF IndInv
<1>2. WorkGrows
  BY NextWorkGrows
<1>3. CommitsFirst' /\ KeyRecordedAfterEffect' /\ PublishedSent'
  BY <1>1, <1>2, CommitsKept, KeysKept, PublishedKept
<1>4. \A r \in Requests : WorkInv(r)'
  BY <1>2, WorkKept
<1>. QED BY <1>3, <1>4 DEF IndWork, WorkTables

\* It holds throughout every behaviour of the service.
THEOREM WorkInvariance == Spec => []IndWork
BY InitWork, StepWork, Invariance, PTL DEF Spec

\* A request that did its work and is answered with success has left the row of
\* its event in the outbox, and a row that says published has its message in SQS,
\* however many requests and crashes there are.
THEOREM AnswersWereAnnounced == Spec => []AnsweredIsAnnounced
<1>1. IndWork => AnsweredIsAnnounced
  BY DEF IndWork, WorkTables, WorkInv, Announced, PublishedSent, AnsweredIsAnnounced
<1>. QED BY <1>1, WorkInvariance, PTL

\* A recorded idempotency key stands for an effect that was committed and an
\* event that is in the outbox.
THEOREM KeysStandForWork == Spec => []KeyRecordedAfterEffect
<1>1. IndWork => KeyRecordedAfterEffect
  BY DEF IndWork, WorkTables
<1>. QED BY <1>1, WorkInvariance, PTL
================================================================================
