--------------------------- MODULE OrderAtomicProofs ---------------------------
(***************************************************************************)
(* One request at a time, what the tables show and what a client is told   *)
(* agree with one atomic operation.  As long as no crash falls between the *)
(* two commits of a callback or a cancel, the service implements           *)
(* OrderLifecycle: its initial states map to initial states, and every     *)
(* step of a handler, or crash, maps to one operation of an order, or to   *)
(* none.  Whatever crashes, an error that a client made changes nothing    *)
(* and a refused payment opens nothing.  Rests on IndInv, IndWork and      *)
(* IndSequence, and on CommitsJoin, which is proved here.                  *)
(***************************************************************************)
EXTENDS OrderSequenceProofs, OrderRefinement, OrderAnswers

(***************************************************************************)
(* A handler that knows the stored order cannot fail to save it.           *)
(***************************************************************************)

\* The version it compares with is the one it counted from.
LEMMA VersionFits ==
  ASSUME TypeOK, NEW r \in Requests, SessionInv(r), NEW o \in Orders, req[r].order = o,
         HandlerOK(r, o), pc[r] = "select_items" \/ (pc[r] = "select" /\ cached[r])
  PROVE  VersionMatches(base[r], ord[r])
<1>1. /\ Change(r, Stored(o), ord[r])
      /\ base[r] = InMemory(orders[o], {}) \/ base[r] = Stored(o)
  BY DEF HandlerOK, EntityCurrent, Changing, BaseCurrent
<1>2. req[r].op \in OpNames \ {"create"}
  BY DEF SessionInv, RequestOK, Request, Path
<1>3. ord[r].version = orders[o].version + 1 /\ base[r].version = orders[o].version
  BY <1>1, <1>2, ChangeMade DEF Stored, InMemory
<1>. QED BY <1>3 DEF VersionMatches, TypeOK, DatabaseOK, Row

\* The rows it updates are there, and those it inserts are not.
LEMMA SaveSucceeds ==
  ASSUME SequenceTables, NEW r \in Requests, NEW o \in Orders, HandlerOK(r, o), pc[r] = "commit"
  PROVE  ~FlushFails(base[r], ord[r])
<1>1. ItemsOwned(r, o) /\ base[r].items = ItemsOf(o)
  BY DEF HandlerOK, EntityCurrent, Changing, BaseCurrent, Stored, InMemory
<1>. DEFINE kept == {i \in ord[r].items : i.id \in Ids(base[r].items)}
<1>2. Ids(kept) \subseteq Ids(items)
  BY <1>1 DEF Ids, ItemsOf
<1>3. Cardinality(kept) = 1 => Ids(kept) # {}
  <2>1. Cardinality({}) = 0
    BY FS_EmptySet
  <2>2. Cardinality(kept) = 1 => kept # {}
    <3>. HIDE DEF kept
    <3>. QED BY <2>1
  <2>. QED BY <2>2 DEF Ids
<1>4. Ids(ord[r].items \ kept) \cap Ids(items) = {}
  <2>. SUFFICES ASSUME NEW i \in ord[r].items \ kept, NEW j \in items, i.id = j.id PROVE FALSE
    BY DEF Ids
  <2>1. j \in ItemsOf(o)
    BY <1>1 DEF ItemsOwned, ItemsOf
  <2>. QED BY <1>1, <2>1 DEF Ids
<1>. HIDE DEF kept
<1>5. ~(Cardinality(kept) = 1 /\ Ids(kept) \cap Ids(items) = {})
  BY <1>2, <1>3
<1>. QED BY <1>4, <1>5 DEF FlushFails, kept

(***************************************************************************)
(* CommitsJoin.                                                            *)
(***************************************************************************)

\* Round trips of the repositories.
LEMMA RepositoryJoins ==
  ASSUME TypeOK, NEW r \in Requests, SessionInv(r), WorkInv(r), SequenceTables,
         NEW o \in Orders, req[r].order = o, HandlerOK(r, o), BetweenCommits(r, o),
            RepositoryStep(r)
  PROVE  BetweenCommits(r, o)'
<1>1. CASE LoadRow(r)
  BY <1>1 DEF TypeOK, LocalsOK, dbVars, orderLocal, flowLocal, SessionInv, RequestOK, Path,
     Request, OpNames, BetweenCommits, Opening, HandlerOK, RefusalKnown, LoadRow, Goto, Finish,
     InitiatingOK, Initiated, AwaitsPayment, Absent
<1>2. CASE LoadItems(r)
  BY <1>2 DEF TypeOK, LocalsOK, dbVars, orderLocal, flowLocal, SessionInv, RequestOK, Path,
     Request, OpNames, BetweenCommits, Opening, HandlerOK, RefusalKnown, LoadItems, Goto,
     AfterLoad, WorkInv, PhaseKnown, Phases
<1>3. CASE LoadCached(r)
  BY <1>3 DEF TypeOK, LocalsOK, dbVars, orderLocal, flowLocal, SessionInv, RequestOK, Path,
     Request, OpNames, BetweenCommits, Opening, HandlerOK, RefusalKnown, LoadCached, Goto,
     AfterLoad, WorkInv, PhaseKnown, Phases
<1>4. CASE SaveSelect(r)
  BY <1>4 DEF TypeOK, LocalsOK, dbVars, orderLocal, flowLocal, SessionInv, RequestOK, Path,
     Request, OpNames, BetweenCommits, Opening, HandlerOK, RefusalKnown, SaveSelect, Goto
<1>5. CASE SaveCheck(r)
  <2>1. VersionMatches(base[r], ord[r])
    BY <1>5, VersionFits DEF SaveCheck
  <2>. QED BY <1>5, <2>1 DEF TypeOK, LocalsOK, dbVars, orderLocal, flowLocal, SessionInv,
     RequestOK, Path, Request, OpNames, BetweenCommits, Opening, HandlerOK, RefusalKnown,
     SaveCheck, CheckVersion, Goto
<1>6. CASE SaveCheckCached(r)
  BY <1>6, VersionFits DEF TypeOK, LocalsOK, dbVars, orderLocal, flowLocal, SessionInv,
     RequestOK, Path, Request, OpNames, BetweenCommits, Opening, HandlerOK, RefusalKnown,
     SaveCheckCached, CheckVersion, Goto, Finish
<1>7. CASE SaveCommit(r)
  <2>1. /\ pc[r] = "commit" /\ pc'[r] = AfterOrderSave(r) /\ req' = req /\ pay' = pay
        /\ stage' = stage /\ prev' = prev /\ reply' = reply
    BY <1>7 DEF SaveCommit, Goto, TypeOK, LocalsOK, flowLocal
  <2>2. pc'[r] \in {"saga_select", "send", "gateway", "done"}
    BY <2>1 DEF AfterOrderSave
  <2>. QED BY <2>1, <2>2 DEF BetweenCommits, Opening
<1>8. CASE SaveFails(r)
  BY <1>8, SaveSucceeds DEF SaveFails
<1>9. CASE InsertOrder(r)
  BY <1>9 DEF TypeOK, LocalsOK, dbVars, orderLocal, flowLocal, SessionInv, RequestOK, Path,
     Request, OpNames, BetweenCommits, Opening, HandlerOK, RefusalKnown, InsertOrder, Goto,
     AfterOrderSave
<1>10. CASE PaymentSelect(r)
  BY <1>10 DEF TypeOK, LocalsOK, dbVars, orderLocal, flowLocal, SessionInv, RequestOK, Path,
     Request, OpNames, BetweenCommits, Opening, HandlerOK, RefusalKnown, PaymentSelect, Goto,
     PaymentEntity
<1>11. CASE PaymentCommit(r)
  <2>1. /\ pc[r] = "pay_commit" /\ pc'[r] = AfterPaymentSave(r) /\ req' = req /\ pay' = pay
        /\ stage' = stage /\ prev' = prev /\ reply' = reply /\ orders' = orders
    BY <1>11 DEF PaymentCommit, Goto, TypeOK, LocalsOK, flowLocal
  <2>2. /\ req[r].op \in {"cancel", "initiate", "callback"} /\ AwaitsPayment(orders[o])
        /\ req[r].op = "cancel" => payments'[o].status = "VOID"
    BY <1>11, PaymentStores DEF AwaitsPayment
  <2>3. pay[r].status # Absent
    BY <2>1 DEF SessionInv, PaymentOK
  <2>. QED BY <2>1, <2>2, <2>3 DEF BetweenCommits, Opening, AfterPaymentSave, AwaitsPayment
<1>12. CASE PaymentInsertFails(r)
  BY <1>12 DEF TypeOK, LocalsOK, dbVars, orderLocal, flowLocal, SessionInv, RequestOK, Path,
     Request, OpNames, BetweenCommits, Opening, HandlerOK, RefusalKnown, PaymentInsertFails,
     Finish
<1>13. CASE IdemGet(r)
  BY <1>13 DEF TypeOK, LocalsOK, dbVars, orderLocal, flowLocal, SessionInv, RequestOK, Path,
     Request, OpNames, BetweenCommits, Opening, HandlerOK, RefusalKnown, IdemGet, Goto, Finish,
     StageOnHit, AfterLookup, WorkInv, PhaseKnown, Phases
<1>14. CASE IdemSave(r)
  BY <1>14 DEF TypeOK, LocalsOK, dbVars, orderLocal, flowLocal, SessionInv, RequestOK, Path,
     Request, OpNames, BetweenCommits, Opening, HandlerOK, RefusalKnown, IdemSave, Finish
<1>15. CASE Send(r)
  BY <1>15 DEF TypeOK, LocalsOK, dbVars, orderLocal, flowLocal, SessionInv, RequestOK, Path,
     Request, OpNames, BetweenCommits, Opening, HandlerOK, RefusalKnown, Send, Goto
<1>16. CASE OutboxCommit(r)
  BY <1>16 DEF TypeOK, LocalsOK, dbVars, orderLocal, flowLocal, SessionInv, RequestOK, Path,
     Request, OpNames, BetweenCommits, Opening, HandlerOK, RefusalKnown, OutboxCommit, Goto,
     AfterPublish, Conclude
<1>17. CASE Notify(r)
  BY <1>17 DEF TypeOK, LocalsOK, dbVars, orderLocal, flowLocal, SessionInv, RequestOK, Path,
     Request, OpNames, BetweenCommits, Opening, HandlerOK, RefusalKnown, Notify, Goto, Finish,
     Conclude
<1>. QED
  BY <1>1, <1>2, <1>3, <1>4, <1>5, <1>6, <1>7, <1>8, <1>9, <1>10, <1>11, <1>12, <1>13, <1>14,
     <1>15, <1>16, <1>17 DEF RepositoryStep

\* Steps of the handlers.
LEMMA UseCaseJoins ==
  ASSUME TypeOK, NEW r \in Requests, SessionInv(r), WorkInv(r), SequenceTables,
         NEW o \in Orders, req[r].order = o, HandlerOK(r, o), BetweenCommits(r, o),
            UseCaseStep(r)
  PROVE  BetweenCommits(r, o)'
<1>1. CASE CheckCustomer(r)
  BY <1>1 DEF TypeOK, LocalsOK, dbVars, orderLocal, flowLocal, SessionInv, RequestOK, Path,
     Request, OpNames, BetweenCommits, Opening, HandlerOK, RefusalKnown, CheckCustomer,
     CustomerAnswers, Goto, Finish
<1>2. CASE CheckNoActiveOrder(r)
  BY <1>2 DEF TypeOK, LocalsOK, dbVars, orderLocal, flowLocal, SessionInv, RequestOK, Path,
     Request, OpNames, BetweenCommits, Opening, HandlerOK, RefusalKnown, CheckNoActiveOrder,
     Goto, Finish
<1>3. CASE AddProduct(r)
  BY <1>3 DEF TypeOK, LocalsOK, dbVars, orderLocal, flowLocal, SessionInv, RequestOK, Path,
     Request, OpNames, BetweenCommits, Opening, HandlerOK, RefusalKnown, AddProduct, Goto,
     Finish
<1>4. CASE RemoveProduct(r)
  BY <1>4 DEF TypeOK, LocalsOK, dbVars, orderLocal, flowLocal, SessionInv, RequestOK, Path,
     Request, OpNames, BetweenCommits, Opening, HandlerOK, RefusalKnown, RemoveProduct, Goto,
     Finish
<1>5. CASE SagaSelect(r)
  BY <1>5 DEF TypeOK, LocalsOK, dbVars, orderLocal, flowLocal, SessionInv, RequestOK, Path,
     Request, OpNames, BetweenCommits, Opening, HandlerOK, RefusalKnown, SagaSelect, Goto
<1>6. CASE SagaCommit(r)
  BY <1>6 DEF TypeOK, LocalsOK, dbVars, orderLocal, flowLocal, SessionInv, RequestOK, Path,
     Request, OpNames, BetweenCommits, Opening, HandlerOK, RefusalKnown, SagaCommit, Goto,
     Finish, AfterSagaSave
<1>7. CASE ValidateCustomer(r)
  BY <1>7 DEF TypeOK, LocalsOK, dbVars, orderLocal, flowLocal, SessionInv, RequestOK, Path,
     Request, OpNames, BetweenCommits, Opening, HandlerOK, RefusalKnown, ValidateCustomer, Goto,
     Finish, FailPhase
<1>8. CASE FetchPrices(r)
  BY <1>8 DEF TypeOK, LocalsOK, dbVars, orderLocal, flowLocal, SessionInv, RequestOK, Path,
     Request, OpNames, BetweenCommits, Opening, HandlerOK, RefusalKnown, FetchPrices, Goto,
     Finish, FailPhase
<1>9. CASE VoidPendingPayment(r)
  BY <1>9 DEF TypeOK, LocalsOK, dbVars, orderLocal, flowLocal, SessionInv, RequestOK, Path,
     Request, OpNames, BetweenCommits, Opening, HandlerOK, RefusalKnown, VoidPendingPayment,
     Goto, AwaitsPayment, StoredPayment, SetPaymentStatus
<1>10. CASE ApplyCancel(r)
  BY <1>10 DEF TypeOK, LocalsOK, dbVars, orderLocal, flowLocal, SessionInv, RequestOK, Path,
     Request, OpNames, BetweenCommits, Opening, HandlerOK, RefusalKnown, ApplyCancel, Goto,
     Finish
<1>11. CASE ReturnPaymentOfKey(r)
  BY <1>11 DEF TypeOK, LocalsOK, dbVars, orderLocal, flowLocal, SessionInv, RequestOK, Path,
     Request, OpNames, BetweenCommits, Opening, HandlerOK, RefusalKnown, ReturnPaymentOfKey,
     Goto, Finish, WorkInv, PhaseKnown, Phases
<1>12. CASE PreparePayment(r)
  BY <1>12 DEF TypeOK, LocalsOK, dbVars, orderLocal, flowLocal, SessionInv, RequestOK, Path,
     Request, OpNames, BetweenCommits, Opening, HandlerOK, RefusalKnown, PreparePayment, Goto,
     Finish, StoredPayment, WorkInv, PhaseKnown, Phases
<1>13. CASE GatewayAccepts(r)
  BY <1>13 DEF TypeOK, LocalsOK, dbVars, orderLocal, flowLocal, SessionInv, RequestOK, Path,
     Request, OpNames, BetweenCommits, Opening, HandlerOK, RefusalKnown, GatewayAccepts, Goto,
     InitiatingOK, Initiated
<1>14. CASE GatewayUnavailable(r)
  BY <1>14 DEF TypeOK, LocalsOK, dbVars, orderLocal, flowLocal, SessionInv, RequestOK, Path,
     Request, OpNames, BetweenCommits, Opening, HandlerOK, RefusalKnown, GatewayUnavailable
<1>15. CASE GatewayRefuses(r)
  BY <1>15 DEF TypeOK, LocalsOK, dbVars, orderLocal, flowLocal, SessionInv, RequestOK, Path,
     Request, OpNames, BetweenCommits, Opening, HandlerOK, RefusalKnown, GatewayRefuses
<1>16. CASE GatewayLost(r)
  BY <1>16 DEF TypeOK, LocalsOK, dbVars, orderLocal, flowLocal, SessionInv, RequestOK, Path,
     Request, OpNames, BetweenCommits, Opening, HandlerOK, RefusalKnown, GatewayLost, Finish
<1>17. CASE RestorePreviousStatus(r)
  BY <1>17 DEF TypeOK, LocalsOK, dbVars, orderLocal, flowLocal, SessionInv, RequestOK, Path,
     Request, OpNames, BetweenCommits, Opening, HandlerOK, RefusalKnown, RestorePreviousStatus,
     Goto, Finish, WorkInv, PhaseKnown, Phases
<1>18. CASE LoadPayment(r)
  BY <1>18 DEF TypeOK, LocalsOK, dbVars, orderLocal, flowLocal, SessionInv, RequestOK, Path,
     Request, OpNames, BetweenCommits, Opening, HandlerOK, RefusalKnown, LoadPayment, Goto,
     Finish
<1>19. CASE ApplyVerdict(r)
  BY <1>19 DEF TypeOK, LocalsOK, dbVars, orderLocal, flowLocal, SessionInv, RequestOK, Path,
     Request, OpNames, BetweenCommits, Opening, HandlerOK, RefusalKnown, ApplyVerdict, Goto,
     Finish
<1>. QED
  BY <1>1, <1>2, <1>3, <1>4, <1>5, <1>6, <1>7, <1>8, <1>9, <1>10, <1>11, <1>12, <1>13, <1>14,
     <1>15, <1>16, <1>17, <1>18, <1>19 DEF UseCaseStep

\* What a request that has just arrived holds.
LEMMA ArrivalJoins ==
  ASSUME TypeOK, NEW r \in Requests, SessionInv(r), NEW o \in Orders, Arrive(r), req'[r].order =
     o
  PROVE  BetweenCommits(r, o)'
<1>1. PICK request, first, firstStage : Brings(r, request, first, firstStage)
  BY Arrival
<1>2. /\ pc[r] = "idle" /\ pc'[r] = first /\ stage'[r] = firstStage /\ pay'[r] = pay[r]
      /\ firstStage \in {"customer", "start"}
      /\ first \in {"customer", "load", "idem_get", "pay_by_key", "pay_load"}
  BY <1>1 DEF Brings, Receive, TypeOK, LocalsOK
<1>3. pay[r].status = Absent
  BY <1>2 DEF SessionInv, IdleOK, NoPaymentEntity
<1>. QED BY <1>2, <1>3 DEF BetweenCommits, Opening

\* Every step keeps it when there is one slot.
LEMMA StepJoins ==
  ASSUME OneAtATime
  PROVE  IndInv /\ IndWork /\ IndSequence /\ CommitsJoin /\ [Next]_vars => CommitsJoin'
<1>. SUFFICES ASSUME IndInv, IndWork, IndSequence, CommitsJoin, [Next]_vars,
                     NEW r \in Requests, NEW o \in Orders, req'[r].order = o
              PROVE  BetweenCommits(r, o)'
  BY DEF CommitsJoin
<1>1. TypeOK /\ SequenceTables /\ SessionInv(r) /\ WorkInv(r) /\ SequenceSession(r)
  BY DEF IndInv, IndWork, IndSequence
<1>2. CASE RepositoryStep(r) \/ UseCaseStep(r)
  <2>1. req[r].order = o
    BY <1>1, <1>2, SameRequest
  <2>2. HandlerOK(r, o) /\ BetweenCommits(r, o)
    BY <1>1, <2>1 DEF SequenceSession, CommitsJoin
  <2>. QED BY <1>1, <1>2, <2>1, <2>2, RepositoryJoins, UseCaseJoins
<1>3. CASE Arrive(r)
  BY <1>1, <1>3, ArrivalJoins
<1>4. CASE Respond(r) \/ Crash
  <2>1. req'[r] = NoRequest
    BY <1>4 DEF Respond, Crash, EndSessions
  <2>. QED BY <2>1, StoreAssumption DEF NoRequest
<1>5. CASE UNCHANGED vars
  <2>1. UNCHANGED <<pc, req, pay, stage, prev, reply, orders, payments>>
    BY <1>5 DEF vars, dbVars, flowLocal
  <2>2. BetweenCommits(r, o)
    BY <2>1 DEF CommitsJoin
  <2>. QED BY <2>1, <2>2 DEF BetweenCommits, Opening, AwaitsPayment
<1>6. \A q \in Requests : q = r
  BY DEF OneAtATime
<1>. QED BY <1>2, <1>3, <1>4, <1>5, <1>6 DEF Next, Serve, Quiet

\* Whatever a crash leaves behind, the commits of a handler that goes on are
\* joined: the second of them never fails.
LEMMA CommitsJoined ==
  ASSUME OneAtATime
  PROVE  Spec => []CommitsJoin
<1>1. Init => CommitsJoin
  BY StoreAssumption DEF Init, CommitsJoin, NoRequest
<1>2. IndInv /\ IndWork /\ IndSequence /\ CommitsJoin /\ [Next]_vars => CommitsJoin'
  BY StepJoins
<1>. QED BY <1>1, <1>2, Invariance, WorkInvariance, SequenceInvariance, PTL DEF Spec

(***************************************************************************)
(* The mapping, with one slot.                                             *)
(***************************************************************************)
StatusSeen(r, o) == IF Initiating(r, o) THEN prev[r] ELSE orders[o].status

PaymentSeen(r, o) == IF Settling(r, o) THEN "PENDING" ELSE payments[o].status

\* The only request there is is the one that the mapping looks at.
LEMMA OneSlot ==
  ASSUME OneAtATime, NEW r \in Requests, NEW o \in Orders
  PROVE  /\ ShownStatus(o) = StatusSeen(r, o) /\ ShownPayment(o) = PaymentSeen(r, o)
         /\ ShownStatus(o)' = StatusSeen(r, o)' /\ ShownPayment(o)' = PaymentSeen(r, o)'
<1>1. \A q \in Requests : q = r
  BY DEF OneAtATime
<1>2. /\ (\E q \in Requests : Initiating(q, o)) <=> Initiating(r, o)
      /\ (\E q \in Requests : Settling(q, o)) <=> Settling(r, o)
      /\ (\E q \in Requests : Initiating(q, o)') <=> Initiating(r, o)'
      /\ (\E q \in Requests : Settling(q, o)') <=> Settling(r, o)'
  BY <1>1
<1>3. /\ Initiating(r, o) => (CHOOSE q \in Requests : Initiating(q, o)) = r
      /\ Initiating(r, o)' => (CHOOSE q \in Requests : Initiating(q, o)') = r
  BY <1>1
<1>. QED BY <1>2, <1>3 DEF ShownStatus, ShownPayment, StatusSeen, PaymentSeen

\* What the lifecycle sees of an order.
SeenAlike(r, o) ==
    /\ StatusSeen(r, o)' = StatusSeen(r, o) /\ PaymentSeen(r, o)' = PaymentSeen(r, o)
    /\ orders'[o].attempts = orders[o].attempts

\* Round trips of the repositories that the lifecycle does not see.
LEMMA RepositorySeen ==
  ASSUME TypeOK, NEW r \in Requests, SessionInv(r), WorkInv(r), SequenceTables,
         NEW o \in Orders, req[r].order = o, HandlerOK(r, o), BetweenCommits(r, o),
            RepositoryStep(r)
  PROVE  SeenAlike(r, o) \/ SaveCommit(r) \/ InsertOrder(r) \/ PaymentCommit(r) \/
     PaymentInsertFails(r)
<1>1. CASE LoadRow(r)
  BY <1>1 DEF TypeOK, LocalsOK, dbVars, orderLocal, flowLocal, SessionInv, RequestOK, Path,
     Request, OpNames, SeenAlike, StatusSeen, PaymentSeen, Initiating, Settling, LoadRow, Goto,
     Finish
<1>2. CASE LoadItems(r)
  BY <1>2 DEF TypeOK, LocalsOK, dbVars, orderLocal, flowLocal, SessionInv, RequestOK, Path,
     Request, OpNames, SeenAlike, StatusSeen, PaymentSeen, Initiating, Settling, LoadItems,
     Goto, AfterLoad
<1>3. CASE LoadCached(r)
  BY <1>3 DEF TypeOK, LocalsOK, dbVars, orderLocal, flowLocal, SessionInv, RequestOK, Path,
     Request, OpNames, SeenAlike, StatusSeen, PaymentSeen, Initiating, Settling, LoadCached,
     Goto, AfterLoad
<1>4. CASE SaveSelect(r)
  BY <1>4 DEF TypeOK, LocalsOK, dbVars, orderLocal, flowLocal, SessionInv, RequestOK, Path,
     Request, OpNames, SeenAlike, StatusSeen, PaymentSeen, Initiating, Settling, SaveSelect,
     Goto
<1>5. CASE SaveCheck(r)
  <2>1. VersionMatches(base[r], ord[r])
    BY <1>5, VersionFits DEF SaveCheck
  <2>. QED BY <1>5, <2>1 DEF TypeOK, LocalsOK, dbVars, orderLocal, flowLocal, SessionInv,
     RequestOK, Path, Request, OpNames, SeenAlike, StatusSeen, PaymentSeen, Initiating,
     Settling, SaveCheck, CheckVersion, Goto
<1>6. CASE SaveCheckCached(r)
  <2>1. VersionMatches(base[r], ord[r])
    BY <1>6, VersionFits DEF SaveCheckCached
  <2>. QED BY <1>6, <2>1 DEF TypeOK, LocalsOK, dbVars, orderLocal, flowLocal, SessionInv,
     RequestOK, Path, Request, OpNames, SeenAlike, StatusSeen, PaymentSeen, Initiating,
     Settling, SaveCheckCached, CheckVersion, Goto
<1>7. CASE SaveCommit(r)
  BY <1>7
<1>8. CASE SaveFails(r)
  BY <1>8, SaveSucceeds DEF SaveFails
<1>9. CASE InsertOrder(r)
  BY <1>9
<1>10. CASE PaymentSelect(r)
  BY <1>10 DEF TypeOK, LocalsOK, dbVars, orderLocal, flowLocal, SessionInv, RequestOK, Path,
     Request, OpNames, SeenAlike, StatusSeen, PaymentSeen, Initiating, Settling, PaymentSelect,
     Goto
<1>11. CASE PaymentCommit(r)
  BY <1>11
<1>12. CASE PaymentInsertFails(r)
  BY <1>12
<1>13. CASE IdemGet(r)
  BY <1>13 DEF TypeOK, LocalsOK, dbVars, orderLocal, flowLocal, SessionInv, RequestOK, Path,
     Request, OpNames, SeenAlike, StatusSeen, PaymentSeen, Initiating, Settling, IdemGet, Goto,
     Finish, StageOnHit, AfterLookup
<1>14. CASE IdemSave(r)
  BY <1>14 DEF TypeOK, LocalsOK, dbVars, orderLocal, flowLocal, SessionInv, RequestOK, Path,
     Request, OpNames, SeenAlike, StatusSeen, PaymentSeen, Initiating, Settling, IdemSave,
     Finish
<1>15. CASE Send(r)
  BY <1>15 DEF TypeOK, LocalsOK, dbVars, orderLocal, flowLocal, SessionInv, RequestOK, Path,
     Request, OpNames, SeenAlike, StatusSeen, PaymentSeen, Initiating, Settling, Send, Goto,
     BetweenCommits, HandlerOK, RefusalKnown
<1>16. CASE OutboxCommit(r)
  BY <1>16 DEF TypeOK, LocalsOK, dbVars, orderLocal, flowLocal, SessionInv, RequestOK, Path,
     Request, OpNames, SeenAlike, StatusSeen, PaymentSeen, Initiating, Settling, OutboxCommit,
     Goto, AfterPublish, Conclude
<1>17. CASE Notify(r)
  BY <1>17 DEF TypeOK, LocalsOK, dbVars, orderLocal, flowLocal, SessionInv, RequestOK, Path,
     Request, OpNames, SeenAlike, StatusSeen, PaymentSeen, Initiating, Settling, Notify, Goto,
     Finish, Conclude
<1>. QED
  BY <1>1, <1>2, <1>3, <1>4, <1>5, <1>6, <1>7, <1>8, <1>9, <1>10, <1>11, <1>12, <1>13, <1>14,
     <1>15, <1>16, <1>17 DEF RepositoryStep

\* Steps of the handlers that the lifecycle does not see.
LEMMA UseCaseSeen ==
  ASSUME TypeOK, NEW r \in Requests, SessionInv(r), WorkInv(r), SequenceTables,
         NEW o \in Orders, req[r].order = o, HandlerOK(r, o), BetweenCommits(r, o),
            UseCaseStep(r)
  PROVE  SeenAlike(r, o) \/ GatewayLost(r)
<1>1. CASE CheckCustomer(r)
  BY <1>1 DEF TypeOK, LocalsOK, dbVars, orderLocal, flowLocal, SessionInv, RequestOK, Path,
     Request, OpNames, SeenAlike, StatusSeen, PaymentSeen, Initiating, Settling, CheckCustomer,
     CustomerAnswers, Goto, Finish
<1>2. CASE CheckNoActiveOrder(r)
  BY <1>2 DEF TypeOK, LocalsOK, dbVars, orderLocal, flowLocal, SessionInv, RequestOK, Path,
     Request, OpNames, SeenAlike, StatusSeen, PaymentSeen, Initiating, Settling,
     CheckNoActiveOrder, Goto, Finish
<1>3. CASE AddProduct(r)
  BY <1>3 DEF TypeOK, LocalsOK, dbVars, orderLocal, flowLocal, SessionInv, RequestOK, Path,
     Request, OpNames, SeenAlike, StatusSeen, PaymentSeen, Initiating, Settling, AddProduct,
     Goto, Finish
<1>4. CASE RemoveProduct(r)
  BY <1>4 DEF TypeOK, LocalsOK, dbVars, orderLocal, flowLocal, SessionInv, RequestOK, Path,
     Request, OpNames, SeenAlike, StatusSeen, PaymentSeen, Initiating, Settling, RemoveProduct,
     Goto, Finish
<1>5. CASE SagaSelect(r)
  BY <1>5 DEF TypeOK, LocalsOK, dbVars, orderLocal, flowLocal, SessionInv, RequestOK, Path,
     Request, OpNames, SeenAlike, StatusSeen, PaymentSeen, Initiating, Settling, SagaSelect,
     Goto
<1>6. CASE SagaCommit(r)
  BY <1>6 DEF TypeOK, LocalsOK, dbVars, orderLocal, flowLocal, SessionInv, RequestOK, Path,
     Request, OpNames, SeenAlike, StatusSeen, PaymentSeen, Initiating, Settling, SagaCommit,
     Goto, Finish, AfterSagaSave
<1>7. CASE ValidateCustomer(r)
  BY <1>7 DEF TypeOK, LocalsOK, dbVars, orderLocal, flowLocal, SessionInv, RequestOK, Path,
     Request, OpNames, SeenAlike, StatusSeen, PaymentSeen, Initiating, Settling,
     ValidateCustomer, Goto, Finish, FailPhase
<1>8. CASE FetchPrices(r)
  BY <1>8 DEF TypeOK, LocalsOK, dbVars, orderLocal, flowLocal, SessionInv, RequestOK, Path,
     Request, OpNames, SeenAlike, StatusSeen, PaymentSeen, Initiating, Settling, FetchPrices,
     Goto, Finish, FailPhase
<1>9. CASE VoidPendingPayment(r)
  BY <1>9 DEF TypeOK, LocalsOK, dbVars, orderLocal, flowLocal, SessionInv, RequestOK, Path,
     Request, OpNames, SeenAlike, StatusSeen, PaymentSeen, Initiating, Settling,
     VoidPendingPayment, Goto, BetweenCommits
<1>10. CASE ApplyCancel(r)
  BY <1>10 DEF TypeOK, LocalsOK, dbVars, orderLocal, flowLocal, SessionInv, RequestOK, Path,
     Request, OpNames, SeenAlike, StatusSeen, PaymentSeen, Initiating, Settling, ApplyCancel,
     Goto, Finish, BetweenCommits, HandlerOK, EntityCurrent, Reading, Stored, InMemory,
     AwaitsPayment, CanCancel, CancellableStatuses
<1>11. CASE ReturnPaymentOfKey(r)
  BY <1>11 DEF TypeOK, LocalsOK, dbVars, orderLocal, flowLocal, SessionInv, RequestOK, Path,
     Request, OpNames, SeenAlike, StatusSeen, PaymentSeen, Initiating, Settling,
     ReturnPaymentOfKey, Goto, Finish
<1>12. CASE PreparePayment(r)
  BY <1>12 DEF TypeOK, LocalsOK, dbVars, orderLocal, flowLocal, SessionInv, RequestOK, Path,
     Request, OpNames, SeenAlike, StatusSeen, PaymentSeen, Initiating, Settling, PreparePayment,
     Goto, Finish, EntityCurrent, Reading, Stored, InMemory, HandlerOK, BetweenCommits,
     RefusalKnown
<1>13. CASE GatewayAccepts(r)
  BY <1>13 DEF TypeOK, LocalsOK, dbVars, orderLocal, flowLocal, SessionInv, RequestOK, Path,
     Request, OpNames, SeenAlike, StatusSeen, PaymentSeen, Initiating, Settling, GatewayAccepts,
     Goto
<1>14. CASE GatewayUnavailable(r)
  BY <1>14 DEF TypeOK, LocalsOK, dbVars, orderLocal, flowLocal, SessionInv, RequestOK, Path,
     Request, OpNames, SeenAlike, StatusSeen, PaymentSeen, Initiating, Settling,
     GatewayUnavailable
<1>15. CASE GatewayRefuses(r)
  BY <1>15 DEF TypeOK, LocalsOK, dbVars, orderLocal, flowLocal, SessionInv, RequestOK, Path,
     Request, OpNames, SeenAlike, StatusSeen, PaymentSeen, Initiating, Settling, GatewayRefuses
<1>16. CASE GatewayLost(r)
  BY <1>16
<1>17. CASE RestorePreviousStatus(r)
  BY <1>17 DEF TypeOK, LocalsOK, dbVars, orderLocal, flowLocal, SessionInv, RequestOK, Path,
     Request, OpNames, SeenAlike, StatusSeen, PaymentSeen, Initiating, Settling,
     RestorePreviousStatus, Goto, Finish, WorkInv, PhaseKnown, Phases
<1>18. CASE LoadPayment(r)
  BY <1>18 DEF TypeOK, LocalsOK, dbVars, orderLocal, flowLocal, SessionInv, RequestOK, Path,
     Request, OpNames, SeenAlike, StatusSeen, PaymentSeen, Initiating, Settling, LoadPayment,
     Goto, Finish
<1>19. CASE ApplyVerdict(r)
  BY <1>19 DEF TypeOK, LocalsOK, dbVars, orderLocal, flowLocal, SessionInv, RequestOK, Path,
     Request, OpNames, SeenAlike, StatusSeen, PaymentSeen, Initiating, Settling, ApplyVerdict,
     Goto, Finish
<1>. QED
  BY <1>1, <1>2, <1>3, <1>4, <1>5, <1>6, <1>7, <1>8, <1>9, <1>10, <1>11, <1>12, <1>13, <1>14,
     <1>15, <1>16, <1>17, <1>18, <1>19 DEF UseCaseStep

(***************************************************************************)
(* What it sees of the others.                                             *)
(***************************************************************************)
ShownStatuses == [o \in Orders |-> ShownStatus(o)]

ShownPayments == [o \in Orders |-> ShownPayment(o)]

ShownAttempts == [o \in Orders |-> orders[o].attempts]

\* A step that leaves the rows of the other orders changes what is shown of its
\* own order alone.
LEMMA ShownOfOne ==
  ASSUME OneAtATime, NEW r \in Requests, NEW o \in Orders, req[r].order = o,
         req'[r].order \in {o, Nil},
         \A p \in Orders : p # o => orders'[p] = orders[p] /\ payments'[p] = payments[p]
  PROVE  /\ ShownStatuses' = [ShownStatuses EXCEPT ![o] = StatusSeen(r, o)']
         /\ ShownPayments' = [ShownPayments EXCEPT ![o] = PaymentSeen(r, o)']
         /\ ShownAttempts' = [ShownAttempts EXCEPT ![o] = orders'[o].attempts]
         /\ ShownStatuses[o] = StatusSeen(r, o) /\ ShownPayments[o] = PaymentSeen(r, o)
         /\ ShownAttempts[o] = orders[o].attempts
<1>1. ASSUME NEW p \in Orders, p # o
      PROVE  ShownStatus(p)' = ShownStatus(p) /\ ShownPayment(p)' = ShownPayment(p)
  <2>1. StatusSeen(r, p)' = StatusSeen(r, p) /\ PaymentSeen(r, p)' = PaymentSeen(r, p)
    BY <1>1, StoreAssumption DEF StatusSeen, PaymentSeen, Initiating, Settling
  <2>. QED BY <2>1, OneSlot
<1>2. /\ ShownStatus(o) = StatusSeen(r, o) /\ ShownPayment(o) = PaymentSeen(r, o)
      /\ ShownStatus(o)' = StatusSeen(r, o)' /\ ShownPayment(o)' = PaymentSeen(r, o)'
  BY OneSlot
<1>3. ShownStatuses' = [ShownStatuses EXCEPT ![o] = StatusSeen(r, o)']
  BY <1>1, <1>2 DEF ShownStatuses
<1>4. ShownPayments' = [ShownPayments EXCEPT ![o] = PaymentSeen(r, o)']
  BY <1>1, <1>2 DEF ShownPayments
<1>. QED BY <1>2, <1>3, <1>4 DEF ShownStatuses, ShownPayments, ShownAttempts

Shown == <<ShownStatuses, ShownAttempts, ShownPayments>>

\* If it does not change that either, the lifecycle does not move.
LEMMA AlikeStutters ==
  ASSUME OneAtATime, NEW r \in Requests, NEW o \in Orders, req[r].order = o,
         req'[r].order \in {o, Nil},
         \A p \in Orders : p # o => orders'[p] = orders[p] /\ payments'[p] = payments[p],
         SeenAlike(r, o)
  PROVE  UNCHANGED Shown
<1>1. /\ ShownStatuses' = [ShownStatuses EXCEPT ![o] = ShownStatuses[o]]
      /\ ShownPayments' = [ShownPayments EXCEPT ![o] = ShownPayments[o]]
      /\ ShownAttempts' = [ShownAttempts EXCEPT ![o] = ShownAttempts[o]]
  BY ShownOfOne DEF SeenAlike
<1>. QED BY <1>1 DEF Shown, ShownStatuses, ShownPayments, ShownAttempts

(***************************************************************************)
(* The steps that it sees.                                                 *)
(***************************************************************************)

\* One of the operations of an order, in terms of what is shown of it.
Operation(o) ==
    \/ Lifecycle!Create(o) \/ Lifecycle!Confirm(o) \/ Lifecycle!Cancel(o)
    \/ Lifecycle!StartPayment(o) \/ Lifecycle!LosePayment(o)
    \/ Lifecycle!Approve(o) \/ Lifecycle!Reject(o)

\* What is shown of the order before and after one of them.
OperationSeen(r, o) ==
    LET from   == StatusSeen(r, o)
        to     == StatusSeen(r, o)'
        paying == PaymentSeen(r, o)
        paid   == PaymentSeen(r, o)'
        n      == orders[o].attempts
        m      == orders'[o].attempts
    IN  \/ from = Absent /\ to = "DRAFT" /\ paid = paying /\ m = n
        \/ from = "DRAFT" /\ to = "CONFIRMED" /\ paid = paying /\ m = n
        \/ /\ from \in CancellableStatuses /\ to = "CANCELLED" /\ m = n
           /\ paid = IF paying = "PENDING" THEN "VOID" ELSE paying
        \/ /\ from \in {"CONFIRMED", "PAYMENT_FAILED"} /\ to = "PAYMENT_PENDING" /\ m = n
           /\ paid \in {"PENDING", paying}
        \/ /\ from = "PAYMENT_PENDING" /\ to = "PAID" /\ m = n
           /\ paying = "PENDING" /\ paid = "APPROVED"
        \/ /\ from = "PAYMENT_PENDING" /\ to = RejectedStatus(m) /\ m = n + 1
           /\ n < MaxPaymentAttempts /\ paying = "PENDING" /\ paid = "REJECTED"

\* Whoever sees that sees the operation.
LEMMA OperationOf ==
  ASSUME OneAtATime, NEW r \in Requests, NEW o \in Orders, req[r].order = o,
         req'[r].order \in {o, Nil},
         \A p \in Orders : p # o => orders'[p] = orders[p] /\ payments'[p] = payments[p],
         orders[o].attempts \in Nat, orders'[o].attempts \in Nat, OperationSeen(r, o)
  PROVE  Operation(o)
<1>. DEFINE from == StatusSeen(r, o)
            to   == StatusSeen(r, o)'
            fromPayment == PaymentSeen(r, o)
            toPayment   == PaymentSeen(r, o)'
            n == orders[o].attempts
            m == orders'[o].attempts
<1>1. /\ ShownStatuses[o] = from /\ ShownPayments[o] = fromPayment /\ ShownAttempts[o] = n
      /\ ShownStatuses' = [ShownStatuses EXCEPT ![o] = to]
      /\ ShownPayments' = [ShownPayments EXCEPT ![o] = toPayment]
      /\ ShownAttempts' = [ShownAttempts EXCEPT ![o] = m]
      /\ n \in Nat /\ m \in Nat
  BY ShownOfOne
<1>2. \/ from = Absent /\ to = "DRAFT" /\ fromPayment = toPayment /\ n = m
      \/ from = "DRAFT" /\ to = "CONFIRMED" /\ fromPayment = toPayment /\ n = m
      \/ /\ from \in CancellableStatuses /\ to = "CANCELLED" /\ n = m
         /\ toPayment = IF fromPayment = "PENDING" THEN "VOID" ELSE fromPayment
      \/ /\ from \in {"CONFIRMED", "PAYMENT_FAILED"} /\ to = "PAYMENT_PENDING"
         /\ toPayment \in {"PENDING", fromPayment} /\ n = m
      \/ /\ from = "PAYMENT_PENDING" /\ to = "PAID"
         /\ fromPayment = "PENDING" /\ toPayment = "APPROVED" /\ n = m
      \/ /\ from = "PAYMENT_PENDING" /\ n < MaxPaymentAttempts /\ m = n + 1
         /\ to = RejectedStatus(m)
         /\ fromPayment = "PENDING" /\ toPayment = "REJECTED"
  BY DEF OperationSeen
<1>. HIDE DEF from, to, fromPayment, toPayment, n, m
<1>3. ASSUME NEW s, to = s, from # Absent, s \in Lifecycle!ValidTransitions[from]
      PROVE  Lifecycle!MoveTo(o, s)
  BY <1>1, <1>3 DEF ShownStatuses, Lifecycle!MoveTo, Lifecycle!CanTransition, Lifecycle!Absent,
     Absent
<1>4. ASSUME NEW s, toPayment = s PROVE Lifecycle!PaymentBecomes(o, s)
  BY <1>1, <1>4 DEF ShownPayments, Lifecycle!PaymentBecomes
<1>5. toPayment = fromPayment => ShownPayments' = ShownPayments
  BY <1>1 DEF ShownPayments
<1>6. n = m => ShownAttempts' = ShownAttempts
  BY <1>1 DEF ShownAttempts
<1>. USE DEF ShownStatuses, ShownPayments, ShownAttempts, Operation, Absent,
             Lifecycle!ValidTransitions, Lifecycle!OrderStatuses
<1>7. CASE from = Absent /\ to = "DRAFT" /\ fromPayment = toPayment /\ n = m
  BY <1>1, <1>5, <1>6, <1>7 DEF Lifecycle!Create, Lifecycle!Absent
<1>8. CASE from = "DRAFT" /\ to = "CONFIRMED" /\ fromPayment = toPayment /\ n = m
  BY <1>3, <1>5, <1>6, <1>8 DEF Lifecycle!Confirm
<1>9. CASE /\ from \in CancellableStatuses /\ to = "CANCELLED" /\ n = m
           /\ toPayment = IF fromPayment = "PENDING" THEN "VOID" ELSE fromPayment
  BY <1>1, <1>3, <1>4, <1>5, <1>6, <1>9 DEF Lifecycle!Cancel, CancellableStatuses
<1>10. CASE /\ from \in {"CONFIRMED", "PAYMENT_FAILED"} /\ to = "PAYMENT_PENDING"
           /\ toPayment = "PENDING" /\ n = m
  BY <1>3, <1>4, <1>6, <1>10 DEF Lifecycle!StartPayment
<1>11. CASE /\ from \in {"CONFIRMED", "PAYMENT_FAILED"} /\ to = "PAYMENT_PENDING"
           /\ toPayment = fromPayment /\ n = m
  BY <1>3, <1>5, <1>6, <1>11 DEF Lifecycle!LosePayment
<1>12. CASE /\ from = "PAYMENT_PENDING" /\ to = "PAID"
            /\ fromPayment = "PENDING" /\ toPayment = "APPROVED" /\ n = m
  BY <1>1, <1>3, <1>4, <1>6, <1>12 DEF Lifecycle!Approve
<1>13. CASE /\ from = "PAYMENT_PENDING" /\ n < MaxPaymentAttempts /\ m = n + 1
            /\ to = RejectedStatus(m)
            /\ fromPayment = "PENDING" /\ toPayment = "REJECTED"
  <2>1. /\ ShownAttempts' = [ShownAttempts EXCEPT ![o] = @ + 1] /\ ShownAttempts'[o] = m
    BY <1>1, <1>13 DEF ShownAttempts
  <2>2. to = IF m = Lifecycle!GiveUpAfter THEN "CANCELLED" ELSE "PAYMENT_FAILED"
    BY <1>1, <1>13 DEF RejectedStatus, MaxPaymentAttempts, Lifecycle!GiveUpAfter
  <2>3. Lifecycle!MoveTo(o, to) /\ Lifecycle!PaymentBecomes(o, "REJECTED")
    BY <1>3, <1>4, <1>13, <2>2
  <2>. QED BY <1>1, <1>13, <2>1, <2>2, <2>3 DEF Lifecycle!Reject
<1>. QED BY <1>2, <1>7, <1>8, <1>9, <1>10, <1>11, <1>12, <1>13

\* A save of the order is an operation, unless it edits the items, or belongs to
\* a payment that is being opened or given up.
LEMMA SaveSeen ==
  ASSUME OneAtATime, TypeOK, NEW r \in Requests, SessionInv(r), WorkInv(r), SequenceTables,
         NEW o \in Orders, req[r].order = o, HandlerOK(r, o), BetweenCommits(r, o),
            SaveCommit(r)
  PROVE  UNCHANGED Shown \/ Operation(o)
<1>1. /\ pc[r] = "commit" /\ pc'[r] = AfterOrderSave(r) /\ req' = req /\ prev' = prev
      /\ stage' = stage /\ pay' = pay /\ payments' = payments
  BY DEF SaveCommit, Goto, TypeOK, LocalsOK, flowLocal
<1>2. /\ Change(r, Stored(o), ord[r]) /\ req[r].op \in OpNames \ {"create"}
      /\ orders'[o].status = ord[r].status /\ orders'[o].attempts = ord[r].attempts
      /\ \A p \in Orders : p # o => orders'[p] = orders[p]
  BY SaveStores
<1>3. pc'[r] \in {"saga_select", "send", "gateway", "done"}
  BY <1>1 DEF AfterOrderSave
<1>4. orders[o].attempts \in Nat /\ orders'[o].attempts \in Nat
  <2>1. ord[r] \in Entity
    BY DEF TypeOK, LocalsOK
  <2>. QED BY <1>2, <2>1 DEF TypeOK, DatabaseOK, Row, Entity
<1>5. CASE req[r].op \in {"add", "remove"}
  <2>1. StatusSeen(r, o) = "DRAFT" /\ StatusSeen(r, o)' = "DRAFT" /\ orders'[o].attempts =
     orders[o].attempts
    BY <1>1, <1>2, <1>5, ChangeMade DEF StatusSeen, Initiating
  <2>2. PaymentSeen(r, o)' = PaymentSeen(r, o)
    BY <1>1, <1>5 DEF PaymentSeen, Settling
  <2>. QED BY <1>1, <1>2, <2>1, <2>2, AlikeStutters DEF SeenAlike
<1>6. CASE req[r].op = "confirm"
  <2>1. StatusSeen(r, o) = "DRAFT" /\ StatusSeen(r, o)' = "CONFIRMED" /\ orders'[o].attempts =
     orders[o].attempts
    BY <1>1, <1>2, <1>6, ChangeMade DEF StatusSeen, Initiating
  <2>2. PaymentSeen(r, o)' = PaymentSeen(r, o)
    BY <1>1, <1>6 DEF PaymentSeen, Settling
  <2>3. OperationSeen(r, o)
    BY <1>6, <2>1, <2>2 DEF OperationSeen
  <2>. QED BY <1>1, <1>2, <1>4, <2>3, OperationOf
<1>7. CASE req[r].op = "cancel"
  <2>1. /\ StatusSeen(r, o) \in CancellableStatuses /\ StatusSeen(r, o)' = "CANCELLED"
        /\ orders'[o].attempts = orders[o].attempts
    BY <1>1, <1>2, <1>7, ChangeMade DEF StatusSeen, Initiating
  <2>2. PaymentSeen(r, o)' = IF PaymentSeen(r, o) = "PENDING" THEN "VOID" ELSE PaymentSeen(r, o)
    BY <1>1, <1>3, <1>7 DEF PaymentSeen, Settling, BetweenCommits, HandlerOK, VoidingOK
  <2>3. OperationSeen(r, o)
    BY <2>1, <2>2 DEF OperationSeen
  <2>. QED BY <1>1, <1>2, <1>4, <2>3, OperationOf
<1>8. CASE req[r].op = "initiate"
  <2>1. prev[r] \in {"CONFIRMED", "PAYMENT_FAILED"}
    BY <1>1, <1>8 DEF HandlerOK, InitiatingOK, Initiated
  <2>2. StatusSeen(r, o) = prev[r] /\ orders'[o].attempts = orders[o].attempts
    BY <1>1, <1>2, <1>8, <2>1, ChangeMade DEF StatusSeen, Initiating, Absent
  <2>3. StatusSeen(r, o)' = prev[r]
    BY <1>1, <1>8, <2>1 DEF AfterOrderSave, StatusSeen, Initiating, Absent
  <2>4. PaymentSeen(r, o)' = PaymentSeen(r, o)
    BY <1>1, <1>8 DEF PaymentSeen, Settling
  <2>. QED BY <1>1, <1>2, <2>2, <2>3, <2>4, AlikeStutters DEF SeenAlike
<1>9. CASE req[r].op = "callback"
  <2>1. /\ pay[r].status # Absent /\ req[r].verdict \in Verdicts
        /\ payments[o].status = req[r].verdict
    BY <1>1, <1>9 DEF BetweenCommits, HandlerOK, SettlingOK, SessionInv, RequestOK
  <2>2. PaymentSeen(r, o) = "PENDING" /\ PaymentSeen(r, o)' = req[r].verdict
    BY <1>1, <1>3, <1>9, <2>1 DEF PaymentSeen, Settling
  <2>3. StatusSeen(r, o) = orders[o].status /\ StatusSeen(r, o)' = ord[r].status
    BY <1>1, <1>2, <1>9 DEF StatusSeen, Initiating
  <2>4. orders[o].status = "PAYMENT_PENDING" => orders[o].attempts < MaxPaymentAttempts
    BY <1>4 DEF SequenceTables, AttemptsCountRejections, MaxPaymentAttempts
  <2>5. CASE IsApproval(r)
    <3>1. /\ orders[o].status = "PAYMENT_PENDING" /\ ord[r].status = "PAID"
          /\ orders'[o].attempts = orders[o].attempts
      BY <1>2, <1>9, <2>5, ChangeMade
    <3>2. OperationSeen(r, o)
      BY <2>2, <2>3, <2>5, <3>1 DEF OperationSeen, IsApproval
    <3>. QED BY <1>1, <1>2, <1>4, <3>2, OperationOf
  <2>6. CASE ~IsApproval(r)
    <3>1. /\ orders[o].status = "PAYMENT_PENDING" /\ ord[r].status =
                RejectedStatus(orders'[o].attempts)
          /\ orders'[o].attempts = orders[o].attempts + 1
      BY <1>2, <1>9, <2>6, ChangeMade
    <3>2. req[r].verdict = "REJECTED"
      BY <2>1, <2>6 DEF IsApproval, Verdicts
    <3>3. OperationSeen(r, o)
      BY <2>2, <2>3, <2>4, <3>1, <3>2 DEF OperationSeen
    <3>. QED BY <1>1, <1>2, <1>4, <3>3, OperationOf
  <2>. QED BY <2>5, <2>6
<1>. QED BY <1>2, <1>5, <1>6, <1>7, <1>8, <1>9 DEF OpNames

\* An order is inserted in one step.
LEMMA InsertSeen ==
  ASSUME OneAtATime, TypeOK, NEW r \in Requests, SessionInv(r), WorkInv(r), SequenceTables,
         NEW o \in Orders, req[r].order = o, HandlerOK(r, o), BetweenCommits(r, o),
            InsertOrder(r)
  PROVE  Operation(o)
<1>1. /\ pc[r] = "insert" /\ req' = req /\ payments' = payments /\ req[r].op = "create"
      /\ orders'[o] = [status |-> "DRAFT", total |-> 0, attempts |-> 0, version |-> 1]
      /\ \A p \in Orders : p # o => orders'[p] = orders[p]
  BY DEF InsertOrder, TypeOK, DatabaseOK, SessionInv, RequestOK, Path, Request, OpNames
<1>2. orders[o].status = Absent /\ orders[o].attempts = 0
  BY <1>1 DEF HandlerOK, CreatingOK, SequenceTables, AbsentEmpty, NoOrder
<1>3. StatusSeen(r, o) = Absent /\ StatusSeen(r, o)' = "DRAFT"
  BY <1>1, <1>2 DEF StatusSeen, Initiating
<1>4. PaymentSeen(r, o)' = PaymentSeen(r, o)
  BY <1>1 DEF PaymentSeen, Settling
<1>5. OperationSeen(r, o)
  BY <1>1, <1>2, <1>3, <1>4 DEF OperationSeen
<1>. QED BY <1>1, <1>2, <1>5, OperationOf

\* A payment is opened by its own save, and settled or voided by that of the
\* order.
LEMMA PaymentSeenSave ==
  ASSUME OneAtATime, TypeOK, NEW r \in Requests, SessionInv(r), WorkInv(r), SequenceTables,
         NEW o \in Orders, req[r].order = o, HandlerOK(r, o), BetweenCommits(r, o),
            PaymentCommit(r)
  PROVE  UNCHANGED Shown \/ Operation(o)
<1>1. /\ pc[r] = "pay_commit" /\ pc'[r] = AfterPaymentSave(r) /\ req' = req /\ prev' = prev
      /\ stage' = stage /\ pay' = pay /\ orders' = orders /\ pay[r].status # Absent
  BY DEF PaymentCommit, Goto, TypeOK, LocalsOK, flowLocal, SessionInv, PaymentOK
<1>2. /\ req[r].op \in {"cancel", "initiate", "callback"} /\ orders[o].status =
            "PAYMENT_PENDING"
      /\ req[r].op \in {"cancel", "callback"} => payments[o].status = "PENDING"
      /\ req[r].op = "initiate" => payments'[o].status = "PENDING"
      /\ \A p \in Orders : p # o => payments'[p] = payments[p]
  BY PaymentStores
<1>3. CASE req[r].op \in {"cancel", "callback"}
  <2>1. StatusSeen(r, o)' = StatusSeen(r, o)
    BY <1>1, <1>3 DEF StatusSeen, Initiating
  <2>2. PaymentSeen(r, o) = "PENDING" /\ PaymentSeen(r, o)' = "PENDING"
    BY <1>1, <1>2, <1>3 DEF PaymentSeen, Settling, AfterPaymentSave
  <2>. QED BY <1>1, <1>2, <2>1, <2>2, AlikeStutters DEF SeenAlike
<1>4. CASE req[r].op = "initiate"
  <2>1. prev[r] \in {"CONFIRMED", "PAYMENT_FAILED"} /\ stage[r] # "compensating"
    BY <1>1, <1>4 DEF BetweenCommits, Opening, HandlerOK, RefusalKnown
  <2>2. StatusSeen(r, o) = prev[r] /\ StatusSeen(r, o)' = "PAYMENT_PENDING"
    BY <1>1, <1>2, <1>4, <2>1 DEF StatusSeen, Initiating, AfterPaymentSave, Absent
  <2>3. PaymentSeen(r, o)' = "PENDING"
    BY <1>1, <1>2, <1>4 DEF PaymentSeen, Settling
  <2>4. orders[o].attempts \in Nat
    BY DEF TypeOK, DatabaseOK, Row
  <2>5. OperationSeen(r, o)
    BY <1>1, <2>1, <2>2, <2>3 DEF OperationSeen
  <2>. QED BY <1>1, <1>2, <2>4, <2>5, OperationOf
<1>. QED BY <1>2, <1>3, <1>4

\* A payment that the gateway may have taken and the service did not record.
LEMMA LossSeen ==
  ASSUME OneAtATime, TypeOK, NEW r \in Requests, SessionInv(r), WorkInv(r), SequenceTables,
         NEW o \in Orders, req[r].order = o, HandlerOK(r, o), BetweenCommits(r, o),
            GatewayLost(r) \/ PaymentInsertFails(r)
  PROVE  Operation(o)
<1>1. /\ pc[r] \in {"gateway", "pay_commit"} /\ pc'[r] = "done" /\ req' = req /\ prev' = prev
      /\ stage' = stage /\ orders' = orders /\ payments' = payments
      /\ pc[r] = "pay_commit" => pay[r].fresh
  BY DEF GatewayLost, PaymentInsertFails, Finish, TypeOK, LocalsOK, flowLocal, dbVars
<1>2. req[r].op = "initiate"
  <2>1. CASE pc[r] = "gateway"
    BY <2>1 DEF SessionInv, RequestOK, Path, Request, OpNames
  <2>2. CASE pc[r] = "pay_commit"
    BY <1>1, <2>2 DEF SessionInv, RequestOK, Path, Request, OpNames, HandlerOK, SettlingOK,
       VoidingOK
  <2>. QED BY <1>1, <2>1, <2>2
<1>3. orders[o].status = "PAYMENT_PENDING"
  BY <1>1, <1>2 DEF HandlerOK, InitiatingOK, Initiated, Opening, AwaitsPayment
<1>4. prev[r] \in {"CONFIRMED", "PAYMENT_FAILED"} /\ stage[r] # "compensating"
  BY <1>1, <1>2 DEF BetweenCommits, Opening, HandlerOK, RefusalKnown, InitiatingOK, Initiated
<1>5. StatusSeen(r, o) = prev[r] /\ StatusSeen(r, o)' = "PAYMENT_PENDING"
  BY <1>1, <1>2, <1>3, <1>4 DEF StatusSeen, Initiating, Absent
<1>6. PaymentSeen(r, o)' = PaymentSeen(r, o)
  BY <1>1, <1>2 DEF PaymentSeen, Settling
<1>7. orders[o].attempts \in Nat
  BY DEF TypeOK, DatabaseOK, Row
<1>8. OperationSeen(r, o)
  BY <1>1, <1>4, <1>5, <1>6 DEF OperationSeen
<1>. QED BY <1>1, <1>7, <1>8, OperationOf

\* What the others see of an order that no step touches.
LEMMA AllAlike ==
  ASSUME OneAtATime, NEW r \in Requests, \A o \in Orders : SeenAlike(r, o)
  PROVE  UNCHANGED Shown
BY OneSlot DEF SeenAlike, Shown, ShownStatuses, ShownPayments, ShownAttempts

\* Requests come and go without being seen: between two of them the mapping
\* shows the tables as they are.
LEMMA ComingUnseen ==
  ASSUME OneAtATime, TypeOK, NEW r \in Requests, SessionInv(r), SequenceSession(r), CommitsJoin,
         Arrive(r) \/ Respond(r)
  PROVE  UNCHANGED Shown
<1>1. UNCHANGED <<orders, payments>>
  <2>1. CASE Arrive(r)
    <3>1. PICK request, first, firstStage : Brings(r, request, first, firstStage)
      BY <2>1, Arrival
    <3>. QED BY <3>1 DEF Brings, Receive, dbVars
  <2>2. CASE Respond(r)
    BY <2>2 DEF Respond, dbVars
  <2>. QED BY <2>1, <2>2
<1>2. pc[r] \in {"idle", "done"}
  <2>1. CASE Arrive(r)
    <3>1. PICK request, first, firstStage : Brings(r, request, first, firstStage)
      BY <2>1, Arrival
    <3>. QED BY <3>1 DEF Brings, Receive
  <2>2. CASE Respond(r)
    BY <2>2 DEF Respond
  <2>. QED BY <2>1, <2>2
<1>3. ASSUME NEW o \in Orders
      PROVE  StatusSeen(r, o) = orders[o].status /\ PaymentSeen(r, o) = payments[o].status
  <2>1. CASE Initiating(r, o)
    <3>1. HandlerOK(r, o) /\ BetweenCommits(r, o) /\ stage[r] = "compensating"
      BY <1>2, <2>1 DEF Initiating, SequenceSession, CommitsJoin
    <3>. QED BY <1>2, <2>1, <3>1
            DEF BetweenCommits, HandlerOK, RefusalKnown, StatusSeen, PaymentSeen, Settling
  <2>2. CASE ~Initiating(r, o)
    BY <1>2, <2>2 DEF StatusSeen, PaymentSeen, Settling
  <2>. QED BY <2>1, <2>2
<1>4. ASSUME NEW o \in Orders PROVE ~Initiating(r, o)' /\ ~Settling(r, o)'
  <2>1. CASE Arrive(r)
    <3>1. PICK request, first, firstStage : Brings(r, request, first, firstStage)
      BY <2>1, Arrival
    <3>2. /\ pc'[r] \in {"customer", "load", "idem_get", "pay_by_key", "pay_load"}
          /\ stage'[r] \in {"customer", "start"}
      BY <3>1 DEF Brings, Receive, TypeOK, LocalsOK
    <3>. QED BY <3>2 DEF Initiating, Settling
  <2>2. CASE Respond(r)
    <3>1. req'[r].order = Nil
      BY <2>2 DEF Respond, EndSessions, NoRequest
    <3>. QED BY <3>1, StoreAssumption DEF Initiating, Settling
  <2>. QED BY <2>1, <2>2
<1>5. \A o \in Orders : SeenAlike(r, o)
  BY <1>1, <1>3, <1>4 DEF SeenAlike, StatusSeen, PaymentSeen
<1>. QED BY <1>5, AllAlike

\* A crash ends a payment that is being opened, or given back, as a lost answer of
\* the gateway does; elsewhere it is not seen, unless it tears a callback or cancel.
LEMMA CrashSeen ==
  ASSUME OneAtATime, IndInv, IndWork, IndSequence, CommitsJoin, Crash, NotTorn
  PROVE  UNCHANGED Shown \/ \E o \in Orders : Operation(o)
<1>1. PICK r \in Requests : pc[r] # "idle"
  BY DEF Crash
<1>2. TypeOK /\ SessionInv(r) /\ WorkInv(r) /\ SequenceTables /\ SequenceSession(r)
  BY DEF IndInv, IndWork, IndSequence
<1>3. PICK o \in Orders : req[r].order = o
  BY <1>1, <1>2 DEF SessionInv, RequestOK, Request
<1>4. HandlerOK(r, o) /\ BetweenCommits(r, o)
  BY <1>2, <1>3 DEF SequenceSession, CommitsJoin
<1>5. /\ pc'[r] = "idle" /\ req'[r].order = Nil /\ UNCHANGED <<orders, payments>>
      /\ ~Settling(r, o)
  BY <1>2, <1>3 DEF Crash, EndSessions, NoRequest, NotTorn, TypeOK, WorldOK, dbVars
<1>6. /\ StatusSeen(r, o)' = orders[o].status
      /\ PaymentSeen(r, o) = payments[o].status /\ PaymentSeen(r, o)' = payments[o].status
  BY <1>5, StoreAssumption DEF StatusSeen, PaymentSeen, Initiating, Settling
<1>7. CASE StatusSeen(r, o) = orders[o].status
  <2>1. SeenAlike(r, o)
    BY <1>5, <1>6, <1>7 DEF SeenAlike
  <2>. QED BY <1>3, <1>5, <2>1, AlikeStutters
<1>8. CASE StatusSeen(r, o) # orders[o].status
  <2>1. Initiating(r, o) /\ StatusSeen(r, o) = prev[r] /\ prev[r] # orders[o].status
    BY <1>8 DEF StatusSeen
  <2>2. prev[r] \in {"CONFIRMED", "PAYMENT_FAILED"} /\ orders[o].status = "PAYMENT_PENDING"
    <3>1. CASE Opening(r)
      BY <1>4, <3>1 DEF BetweenCommits, HandlerOK, InitiatingOK, AwaitsPayment
    <3>2. CASE pc[r] = "done" /\ stage[r] = "compensating"
      BY <1>4, <2>1, <3>2 DEF BetweenCommits, HandlerOK, RefusalKnown
    <3>3. CASE pc[r] \in {"select", "select_items", "commit"}
      <4>1. Initiated(r) /\ Change(r, Stored(o), ord[r])
        BY <1>4, <2>1, <3>3 DEF HandlerOK, EntityCurrent, Changing, Initiating, Initiated
      <4>. QED BY <1>4, <2>1, <3>3, <4>1
               DEF HandlerOK, InitiatingOK, Initiating, Change, AwaitsPayment, Stored, InMemory
    <3>4. CASE pc[r] \in {"gateway", "load", "load_items", "restore"}
      BY <1>4, <2>1, <3>4 DEF HandlerOK, InitiatingOK, Initiated, Initiating, AwaitsPayment
    <3>. QED BY <1>4, <2>1, <3>1, <3>2, <3>3, <3>4
             DEF Initiating, Opening, BetweenCommits, HandlerOK, RefusalKnown
  <2>3. OperationSeen(r, o) /\ orders[o].attempts \in Nat
    BY <1>2, <1>5, <1>6, <2>1, <2>2 DEF OperationSeen, TypeOK, DatabaseOK, Row
  <2>. QED BY <1>3, <1>5, <2>3, OperationOf
<1>. QED BY <1>7, <1>8

\* Every step is an operation of one order, or is not seen.
LEMMA StepMaps ==
  ASSUME OneAtATime
  PROVE  IndInv /\ IndWork /\ IndSequence /\ CommitsJoin /\ [Next /\ NotTorn]_vars
            => UNCHANGED Shown \/ \E o \in Orders : Operation(o)
<1>. SUFFICES ASSUME IndInv, IndWork, IndSequence, CommitsJoin, [Next /\ NotTorn]_vars
              PROVE  UNCHANGED Shown \/ \E o \in Orders : Operation(o)
  OBVIOUS
<1>1. ASSUME NEW r \in Requests, RepositoryStep(r) \/ UseCaseStep(r)
      PROVE  UNCHANGED Shown \/ \E o \in Orders : Operation(o)
  <2>1. TypeOK /\ SequenceTables /\ SessionInv(r) /\ WorkInv(r) /\ SequenceSession(r)
    BY DEF IndInv, IndWork, IndSequence
  <2>2. PICK o \in Orders : req[r].order = o
    BY <1>1, <2>1, SameRequest
  <2>3. HandlerOK(r, o) /\ BetweenCommits(r, o) /\ req'[r].order = o
    BY <1>1, <2>1, <2>2, SameRequest DEF SequenceSession, CommitsJoin
  <2>4. CASE SaveCommit(r)
    BY <2>1, <2>2, <2>3, <2>4, SaveSeen
  <2>5. CASE InsertOrder(r)
    BY <2>1, <2>2, <2>3, <2>5, InsertSeen
  <2>6. CASE PaymentCommit(r)
    BY <2>1, <2>2, <2>3, <2>6, PaymentSeenSave
  <2>7. CASE GatewayLost(r) \/ PaymentInsertFails(r)
    BY <2>1, <2>2, <2>3, <2>7, LossSeen
  <2>8. CASE ~(SaveCommit(r) \/ InsertOrder(r) \/ PaymentCommit(r)
               \/ GatewayLost(r) \/ PaymentInsertFails(r))
    <3>1. SeenAlike(r, o)
      BY <1>1, <2>1, <2>2, <2>3, <2>8, RepositorySeen, UseCaseSeen
    <3>2. UNCHANGED <<orders, payments>>
      BY <1>1, <2>8, ViewWriters, CallCharges DEF View, dbVars
    <3>. QED BY <2>2, <2>3, <3>1, <3>2, AlikeStutters
  <2>. QED BY <2>4, <2>5, <2>6, <2>7, <2>8
<1>2. ASSUME NEW r \in Requests, Arrive(r) \/ Respond(r) PROVE UNCHANGED Shown
  <2>1. TypeOK /\ SessionInv(r) /\ SequenceSession(r)
    BY DEF IndInv, IndSequence
  <2>. QED BY <1>2, <2>1, ComingUnseen
<1>3. Crash /\ NotTorn => UNCHANGED Shown \/ \E o \in Orders : Operation(o)
  BY CrashSeen
<1>4. CASE UNCHANGED vars
  <2>1. UNCHANGED <<orders, payments, pc, req, pay, stage, prev>>
    BY <1>4 DEF vars, dbVars, flowLocal
  <2>2. ASSUME NEW r \in Requests PROVE UNCHANGED Shown
    <3>1. \A o \in Orders : SeenAlike(r, o)
      BY <2>1 DEF SeenAlike, StatusSeen, PaymentSeen, Initiating, Settling
    <3>. QED BY <3>1, AllAlike
  <2>3. CASE Requests = {}
    BY <2>1, <2>3 DEF Shown, ShownStatuses, ShownPayments, ShownAttempts, ShownStatus,
       ShownPayment
  <2>. QED BY <2>2, <2>3
<1>. QED BY <1>1, <1>2, <1>3, <1>4 DEF Next, Serve, Quiet

\* At the start the mapping shows the tables, and what was given agrees.
LEMMA InitMaps == Init => Lifecycle!Init
<1>. SUFFICES ASSUME Init PROVE Lifecycle!Init
  OBVIOUS
<1>1. ASSUME NEW o \in Orders
      PROVE  ShownStatus(o) = orders[o].status /\ ShownPayment(o) = payments[o].status
  BY StoreAssumption DEF Init, NoRequest, ShownStatus, ShownPayment, Initiating, Settling
<1>2. ASSUME NEW o \in Orders
      PROVE  \/ orders[o] = NoOrder /\ payments[o] = NoPayment
             \/ orders[o].status \in {"DRAFT", "CONFIRMED"} /\ orders[o].attempts = 0 /\
                   payments[o] = NoPayment
             \/ orders[o].status = "PAYMENT_FAILED" /\ orders[o].attempts = 2 /\
                   payments[o].status = "REJECTED"
  BY ServiceAssumption DEF Init, GivenRow, WasRejectedTwice
<1>3. ASSUME NEW o \in Orders
      PROVE  /\ ShownStatus(o) \in Lifecycle!OrderStatuses \cup {Absent}
             /\ ShownPayment(o) \in Lifecycle!PaymentStatuses \cup {Absent}
             /\ orders[o].attempts \in Nat
             /\ Lifecycle!Agreement(o)
  BY <1>1, <1>2 DEF NoOrder, NoPayment, Absent, Lifecycle!Absent, Lifecycle!OrderStatuses,
     Lifecycle!PaymentStatuses, Lifecycle!Agreement, Lifecycle!GiveUpAfter
<1>4. Lifecycle!TypeInv
  BY <1>3 DEF Lifecycle!TypeInv, Lifecycle!Absent, Absent
<1>. QED BY <1>3, <1>4 DEF Lifecycle!Init, Lifecycle!AgreementInv

\* A crash between two commits of a callback or a cancel is all that can tear an
\* order from its payment: one request at a time, and but for such a crash, each
\* handler behaves as one atomic operation on the two, whatever fails in between.
THEOREM ServiceIsAtomic ==
  ASSUME OneAtATime
  PROVE  UntornSpec => BehavesAtomically
<1>1. IndInv /\ IndWork /\ IndSequence /\ CommitsJoin /\ [Next /\ NotTorn]_vars
         => [Lifecycle!Next]_(Lifecycle!life)
  BY StepMaps DEF Operation, Lifecycle!Next, Lifecycle!life, Shown, ShownStatuses,
     ShownPayments, ShownAttempts
<1>2. UntornSpec => Spec
  BY PTL DEF UntornSpec, Spec
<1>. QED BY <1>1, <1>2, InitMaps, Invariance, WorkInvariance, SequenceInvariance, CommitsJoined, PTL
         DEF UntornSpec, BehavesAtomically, Lifecycle!Spec

\* Without crashes nothing is torn.
THEOREM UncrashedIsAtomic ==
  ASSUME OneAtATime, MaxCrashes = 0
  PROVE  Spec => BehavesAtomically
<1>1. TypeOK => NotTorn
  BY DEF TypeOK, WorldOK, Crash, NotTorn
<1>2. Spec => UntornSpec
  BY <1>1, TypeCorrect, PTL DEF Spec, UntornSpec
<1>. QED BY <1>2, ServiceIsAtomic, PTL

Life == INSTANCE OrderLifecycleProofs WITH
    status   <- [o \in Orders |-> ShownStatus(o)],
    attempts <- [o \in Orders |-> orders[o].attempts],
    payment  <- [o \in Orders |-> ShownPayment(o)]

\* So an order and its payment agree whenever no request is between two of its
\* commits: an order is paid exactly when its payment is approved, a pending
\* payment is awaited, and the third rejection ends the order.
THEOREM ServiceAgrees ==
  ASSUME OneAtATime
  PROVE  UntornSpec => []Lifecycle!AgreementInv
<1>1. Lifecycle!AgreementInv <=> Life!AgreementInv
  BY DEF Lifecycle!Agreement, Life!Agreement, Lifecycle!AgreementInv, Life!AgreementInv,
     Lifecycle!GiveUpAfter, Life!GiveUpAfter, Lifecycle!Absent, Life!Absent
<1>2. Lifecycle!Init <=> Life!Init
  BY <1>1 DEF Lifecycle!Init, Life!Init, Lifecycle!TypeInv, Life!TypeInv,
     Lifecycle!OrderStatuses, Life!OrderStatuses, Lifecycle!PaymentStatuses,
     Life!PaymentStatuses, Lifecycle!Absent, Life!Absent
<1>3. [Lifecycle!Next]_(Lifecycle!life) <=> [Life!Next]_(Life!life)
  BY DEF Lifecycle!MoveTo, Life!MoveTo, Lifecycle!PaymentBecomes, Life!PaymentBecomes,
     Lifecycle!Create, Life!Create, Lifecycle!Confirm, Life!Confirm, Lifecycle!StartPayment,
     Life!StartPayment, Lifecycle!LosePayment, Life!LosePayment, Lifecycle!Approve,
     Life!Approve, Lifecycle!Reject, Life!Reject, Lifecycle!Cancel, Life!Cancel, Lifecycle!Next,
     Life!Next, Lifecycle!life, Life!life, Lifecycle!CanTransition, Life!CanTransition,
     Lifecycle!ValidTransitions, Life!ValidTransitions, Lifecycle!GiveUpAfter, Life!GiveUpAfter,
     Lifecycle!OrderStatuses, Life!OrderStatuses, Lifecycle!PaymentStatuses,
     Life!PaymentStatuses, Lifecycle!Absent, Life!Absent
<1>4. Life!TypeInv /\ Life!AgreementInv => Lifecycle!AgreementInv
  BY <1>1
<1>. QED BY <1>2, <1>3, <1>4, ServiceIsAtomic, Life!LifeAgrees, PTL
         DEF BehavesAtomically, Lifecycle!Spec, Life!Spec

(***************************************************************************)
(* What a request has written by each await: the history of OrderAnswers   *)
(* is bounded until a check that ends in a client's error, or a refusal,   *)
(* is behind the request.  Crashes are included.                           *)
(***************************************************************************)

\* It has changed nothing but the saga row: a check that ends in a client's error comes next.
Early(r) ==
    \/ pc[r] \in {"customer", "active_check", "insert", "product", "remove",
                  "validate_customer", "prices", "cancel_payment", "initiate", "idem_get",
                  "pay_by_key", "pay_load", "apply"}
    \/ pc[r] \in {"load", "load_items"} /\ stage[r] # "compensating"
    \/ pc[r] = "cancel" /\ pay[r].status = Absent
    \/ /\ pc[r] \in {"saga_select", "saga_commit"}
       /\ stage[r] \in {"customer", "customer_failed", "catalog", "catalog_failed"}

\* It may be refused by the gateway, or has been.
Refusable(r) ==
    /\ req[r].op = "initiate"
    /\ pc[r] \in {"select", "select_items", "commit", "gateway"} \/ stage[r] = "compensating"

Excused(r) == IF req[r].op = "confirm" THEN {"saga"} ELSE {}

ClientErrors ==
    {"order_not_found", "item_not_found", "payment_not_found", "customer_validation_error",
     "catalog_validation_error", "invalid_order_state", "active_order_exists",
     "concurrency_conflict", "idempotency_conflict"}

AnswerInv(r) ==
    /\ pc[r] = "idle" => wrote[r] = {}
    /\ Early(r) => wrote[r] \subseteq Excused(r)
    /\ Refusable(r) => wrote[r] \subseteq {"orders"}
    /\ req[r].op = "confirm" /\ pc[r] \in {"select", "select_items", "commit"} => stage[r] =
          "persisted"
    /\ reply[r] \in ClientErrors =>
          /\ wrote[r] \subseteq Excused(r)
          /\ \/ pc[r] = "done"
             \/ /\ pc[r] \in {"saga_select", "saga_commit"}
                /\ stage[r] \in {"customer_failed", "catalog_failed"}

\* status_map, read backwards.
LEMMA StatusOfKind ==
  ASSUME NEW kind
  PROVE  /\ IsClientError(kind) <=> kind \in ClientErrors
         /\ HttpStatus(kind) = 503 <=> kind = "payment_gateway_error"
BY DEF IsClientError, HttpStatus, ClientErrors

Tables == <<orders, items, payments, idem, saga, outbox>>

\* A step that leaves the tables alone adds nothing.
LEMMA NothingWritten ==
  ASSUME NEW r \in Requests, NoteWrites, UNCHANGED Tables
  PROVE  pc'[r] # "idle" => wrote'[r] = wrote[r]
<1>1. Written = {}
  <2>1. /\ orders' = orders /\ items' = items /\ payments' = payments
        /\ idem' = idem /\ saga' = saga /\ outbox' = outbox
    BY DEF Tables
  <2>. QED BY <2>1 DEF Written
<1>2. wrote[r] \cup Written = wrote[r]
  BY <1>1
<1>. HIDE DEF Written
<1>. QED BY <1>2 DEF NoteWrites

\* A step adds to the history at most what it writes.
LEMMA NoteOf ==
  ASSUME NEW r \in Requests, NoteWrites, pc'[r] # "idle"
  PROVE  wrote'[r] = wrote[r] \/ wrote'[r] = wrote[r] \cup Written
BY DEF NoteWrites

\* A save of initiate leaves the items as they are.
LEMMA ItemsKept ==
  ASSUME TypeOK, NEW r \in Requests, SessionInv(r), SequenceTables, SaveCommit(r),
         NEW o \in Orders, req[r].order = o, HandlerOK(r, o), req[r].op = "initiate"
  PROVE  items' = items
<1>1. /\ Change(r, Stored(o), ord[r]) /\ ItemsOf(o)' = ord[r].items
      /\ \A p \in Orders : p # o => ItemsOf(p)' = ItemsOf(p)
  BY SaveStores
<1>2. ord[r].items = ItemsOf(o)
  <2>1. Stored(o) \in Entity /\ NextVersion(Stored(o)) \in Entity /\ Stored(o).items =
     ItemsOf(o)
    BY StoredType, ChangedType, StoredItems DEF SequenceTables
  <2>2. NextVersion(Stored(o)).items = ItemsOf(o)
    BY <2>1, SameItems
  <2>. DEFINE n == NextVersion(Stored(o))
  <2>3. MarkPaymentPending(n).items = n.items /\ RestoreStatus(n, prev[r]).items = n.items
    BY <2>1, SameItems
  <2>. QED BY <1>1, <2>2, <2>3 DEF Change
<1>3. \A p \in Orders : ItemsOf(p)' = ItemsOf(p)
  BY <1>1, <1>2
<1>4. \A i \in items : i.order \in Orders
  BY DEF TypeOK, DatabaseOK, ItemRow
<1>5. \A i \in items' : i.order \in Orders
  BY RepositoryType DEF TypeOK, DatabaseOK, ItemRow, RepositoryStep
<1>. QED BY <1>3, <1>4, <1>5 DEF ItemsOf

\* Round trips of the repositories.
LEMMA RepositoryAnswers ==
  ASSUME TypeOK, NEW r \in Requests, SessionInv(r), WorkInv(r), SequenceTables,
         NEW o \in Orders, req[r].order = o, HandlerOK(r, o), BetweenCommits(r, o),
         AnswerInv(r), NoteWrites, RepositoryStep(r)
  PROVE  AnswerInv(r)'
<1>1. CASE LoadRow(r)
  <2>1. UNCHANGED Tables
    BY <1>1 DEF Tables, dbVars, LoadRow
  <2>2. pc'[r] # "idle" => wrote'[r] = wrote[r]
    BY <2>1, NothingWritten
  <2>. QED BY <1>1, <2>2 DEF TypeOK, LocalsOK, orderLocal, flowLocal, SessionInv, RequestOK,
     Path, Request, OpNames, AnswerInv, Early, Excused, Refusable, ClientErrors, BetweenCommits,
     HandlerOK, RefusalKnown, WorkInv, PhaseKnown, Phases, LoadRow, Goto, Finish, InitiatingOK,
     Initiated, AwaitsPayment, Absent
<1>2. CASE LoadItems(r)
  <2>1. UNCHANGED Tables
    BY <1>2 DEF Tables, dbVars, LoadItems
  <2>2. pc'[r] # "idle" => wrote'[r] = wrote[r]
    BY <2>1, NothingWritten
  <2>. QED BY <1>2, <2>2 DEF TypeOK, LocalsOK, orderLocal, flowLocal, SessionInv, RequestOK,
     Path, Request, OpNames, AnswerInv, Early, Excused, Refusable, ClientErrors, BetweenCommits,
     HandlerOK, RefusalKnown, WorkInv, PhaseKnown, Phases, LoadItems, Goto, AfterLoad
<1>3. CASE LoadCached(r)
  <2>1. UNCHANGED Tables
    BY <1>3 DEF Tables, dbVars, LoadCached
  <2>2. pc'[r] # "idle" => wrote'[r] = wrote[r]
    BY <2>1, NothingWritten
  <2>. QED BY <1>3, <2>2 DEF TypeOK, LocalsOK, orderLocal, flowLocal, SessionInv, RequestOK,
     Path, Request, OpNames, AnswerInv, Early, Excused, Refusable, ClientErrors, BetweenCommits,
     HandlerOK, RefusalKnown, WorkInv, PhaseKnown, Phases, LoadCached, Goto, AfterLoad
<1>4. CASE SaveSelect(r)
  <2>1. UNCHANGED Tables
    BY <1>4 DEF Tables, dbVars, SaveSelect
  <2>2. pc'[r] # "idle" => wrote'[r] = wrote[r]
    BY <2>1, NothingWritten
  <2>. QED BY <1>4, <2>2 DEF TypeOK, LocalsOK, orderLocal, flowLocal, SessionInv, RequestOK,
     Path, Request, OpNames, AnswerInv, Early, Excused, Refusable, ClientErrors, BetweenCommits,
     HandlerOK, RefusalKnown, WorkInv, PhaseKnown, Phases, SaveSelect, Goto
<1>5. CASE SaveCheck(r)
  <2>1. UNCHANGED Tables
    BY <1>5 DEF Tables, dbVars, SaveCheck
  <2>2. pc'[r] # "idle" => wrote'[r] = wrote[r]
    BY <2>1, NothingWritten
  <2>3. VersionMatches(base[r], ord[r])
    BY <1>5, VersionFits DEF SaveCheck
  <2>. QED BY <1>5, <2>2, <2>3 DEF TypeOK, LocalsOK, orderLocal, flowLocal, SessionInv,
     RequestOK, Path, Request, OpNames, AnswerInv, Early, Excused, Refusable, ClientErrors,
     BetweenCommits, HandlerOK, RefusalKnown, WorkInv, PhaseKnown, Phases, SaveCheck,
     CheckVersion, Goto
<1>6. CASE SaveCheckCached(r)
  <2>1. UNCHANGED Tables
    BY <1>6 DEF Tables, dbVars, SaveCheckCached
  <2>2. pc'[r] # "idle" => wrote'[r] = wrote[r]
    BY <2>1, NothingWritten
  <2>3. VersionMatches(base[r], ord[r])
    BY <1>6, VersionFits DEF SaveCheckCached
  <2>. QED BY <1>6, <2>2, <2>3 DEF TypeOK, LocalsOK, orderLocal, flowLocal, SessionInv,
     RequestOK, Path, Request, OpNames, AnswerInv, Early, Excused, Refusable, ClientErrors,
     BetweenCommits, HandlerOK, RefusalKnown, WorkInv, PhaseKnown, Phases, SaveCheckCached,
     CheckVersion, Goto
<1>7. CASE SaveCommit(r)
  <2>1. /\ pc[r] = "commit" /\ pc'[r] = AfterOrderSave(r) /\ req' = req /\ stage' = stage
        /\ reply'[r] = reply[r] /\ pay' = pay
    BY <1>7 DEF SaveCommit, Goto, TypeOK, LocalsOK, flowLocal
  <2>2. req[r].op = "initiate" => Written \subseteq {"orders"}
    BY <1>7, ItemsKept DEF SaveCommit, Written
  <2>3. pc'[r] \in {"saga_select", "send", "gateway", "done"}
    BY <2>1 DEF AfterOrderSave
  <2>4. pc'[r] = "saga_select" => req[r].op = "confirm" /\ stage[r] = "persisted"
    BY <1>7, <2>1, <2>3 DEF AfterOrderSave, AnswerInv
  <2>5. pc'[r] # "idle" => wrote'[r] = wrote[r] \/ wrote'[r] = wrote[r] \cup Written
    BY NoteOf
  <2>. QED BY <2>1, <2>2, <2>3, <2>4, <2>5 DEF AnswerInv, Early, Excused, Refusable
<1>8. CASE SaveFails(r)
  BY <1>8, SaveSucceeds DEF SaveFails
<1>9. CASE InsertOrder(r)
  <2>1. pc[r] = "insert" /\ pc'[r] = "done" /\ req[r].op = "create" /\ reply' = reply
        /\ req' = req
    BY <1>9 DEF InsertOrder, Goto, AfterOrderSave, TypeOK, LocalsOK, SessionInv, RequestOK,
       Path, Request, OpNames
  <2>. QED BY <2>1 DEF AnswerInv, Early, Excused, Refusable
<1>10. CASE PaymentSelect(r)
  <2>1. UNCHANGED Tables
    BY <1>10 DEF Tables, dbVars, PaymentSelect
  <2>2. pc'[r] # "idle" => wrote'[r] = wrote[r]
    BY <2>1, NothingWritten
  <2>. QED BY <1>10, <2>2 DEF TypeOK, LocalsOK, orderLocal, flowLocal, SessionInv, RequestOK,
     Path, Request, OpNames, AnswerInv, Early, Excused, Refusable, ClientErrors, BetweenCommits,
     HandlerOK, RefusalKnown, WorkInv, PhaseKnown, Phases, PaymentSelect, Goto
<1>11. CASE PaymentCommit(r)
  <2>1. /\ pc[r] = "pay_commit" /\ pc'[r] = AfterPaymentSave(r) /\ req' = req /\ stage' = stage
        /\ reply'[r] = reply[r] /\ pay' = pay
    BY <1>11 DEF PaymentCommit, Goto, TypeOK, LocalsOK, flowLocal
  <2>2. pc'[r] \in {"cancel", "select", "send"} /\ (pc'[r] = "select" => req[r].op = "callback")
    BY <2>1 DEF AfterPaymentSave
  <2>3. pay[r].status # Absent /\ stage[r] # "compensating"
    BY <2>1 DEF SessionInv, PaymentOK, BetweenCommits, HandlerOK, RefusalKnown
  <2>4. pc'[r] # "idle" => wrote'[r] = wrote[r] \/ wrote'[r] = wrote[r] \cup Written
    BY NoteOf
  <2>. QED BY <2>1, <2>2, <2>3, <2>4 DEF AnswerInv, Early, Excused, Refusable, ClientErrors
<1>12. CASE PaymentInsertFails(r)
  <2>1. UNCHANGED Tables
    BY <1>12 DEF Tables, dbVars, PaymentInsertFails
  <2>2. pc'[r] # "idle" => wrote'[r] = wrote[r]
    BY <2>1, NothingWritten
  <2>. QED BY <1>12, <2>2 DEF TypeOK, LocalsOK, orderLocal, flowLocal, SessionInv, RequestOK,
     Path, Request, OpNames, AnswerInv, Early, Excused, Refusable, ClientErrors, BetweenCommits,
     HandlerOK, RefusalKnown, WorkInv, PhaseKnown, Phases, PaymentInsertFails, Finish
<1>13. CASE IdemGet(r)
  <2>1. UNCHANGED Tables
    BY <1>13 DEF Tables, dbVars, IdemGet
  <2>2. pc'[r] # "idle" => wrote'[r] = wrote[r]
    BY <2>1, NothingWritten
  <2>. QED BY <1>13, <2>2 DEF TypeOK, LocalsOK, orderLocal, flowLocal, SessionInv, RequestOK,
     Path, Request, OpNames, AnswerInv, Early, Excused, Refusable, ClientErrors, BetweenCommits,
     HandlerOK, RefusalKnown, WorkInv, PhaseKnown, Phases, IdemGet, Goto, Finish, AfterLookup,
     StageOnHit
<1>14. CASE IdemSave(r)
  <2>1. /\ pc[r] = "idem_save" /\ pc'[r] = "done" /\ req' = req /\ stage' = stage
        /\ reply'[r] \in {"ok", "error"} /\ pay' = pay
    BY <1>14 DEF IdemSave, Finish, TypeOK, LocalsOK, flowLocal
  <2>2. pc'[r] # "idle" => wrote'[r] = wrote[r] \/ wrote'[r] = wrote[r] \cup Written
    BY NoteOf
  <2>. QED BY <2>1, <2>2 DEF AnswerInv, Early, Excused, Refusable, ClientErrors, BetweenCommits,
     HandlerOK, RefusalKnown
<1>15. CASE Send(r)
  <2>1. UNCHANGED Tables
    BY <1>15 DEF Tables, dbVars, Send
  <2>2. pc'[r] # "idle" => wrote'[r] = wrote[r]
    BY <2>1, NothingWritten
  <2>. QED BY <1>15, <2>2 DEF TypeOK, LocalsOK, orderLocal, flowLocal, SessionInv, RequestOK,
     Path, Request, OpNames, AnswerInv, Early, Excused, Refusable, ClientErrors, BetweenCommits,
     HandlerOK, RefusalKnown, WorkInv, PhaseKnown, Phases, Send, Goto
<1>16. CASE OutboxCommit(r)
  <2>1. /\ pc[r] = "outbox_commit" /\ pc'[r] = AfterPublish(r) /\ req' = req /\ stage' = stage
        /\ reply'[r] = reply[r] /\ pay' = pay
    BY <1>16 DEF OutboxCommit, Goto, TypeOK, LocalsOK, flowLocal
  <2>2. pc'[r] \in {"notify", "idem_save", "done"}
    BY <2>1 DEF AfterPublish, Conclude
  <2>3. stage[r] # "compensating" /\ reply[r] # "payment_gateway_error"
    BY <1>16, <2>1 DEF HandlerOK, RefusalKnown, WorkInv, PhaseKnown
  <2>4. pc'[r] # "idle" => wrote'[r] = wrote[r] \/ wrote'[r] = wrote[r] \cup Written
    BY NoteOf
  <2>. QED BY <2>1, <2>2, <2>3, <2>4 DEF AnswerInv, Early, Excused, Refusable, ClientErrors
<1>17. CASE Notify(r)
  <2>1. UNCHANGED Tables
    BY <1>17 DEF Tables, dbVars, Notify
  <2>2. pc'[r] # "idle" => wrote'[r] = wrote[r]
    BY <2>1, NothingWritten
  <2>. QED BY <1>17, <2>2 DEF TypeOK, LocalsOK, orderLocal, flowLocal, SessionInv, RequestOK,
     Path, Request, OpNames, AnswerInv, Early, Excused, Refusable, ClientErrors, BetweenCommits,
     HandlerOK, RefusalKnown, WorkInv, PhaseKnown, Phases, Notify, Goto, Finish, Conclude
<1>. QED
  BY <1>1, <1>2, <1>3, <1>4, <1>5, <1>6, <1>7, <1>8, <1>9, <1>10, <1>11, <1>12, <1>13, <1>14,
     <1>15, <1>16, <1>17 DEF RepositoryStep

\* Steps of the handlers.
LEMMA UseCaseAnswers ==
  ASSUME TypeOK, NEW r \in Requests, SessionInv(r), WorkInv(r), SequenceTables,
         NEW o \in Orders, req[r].order = o, HandlerOK(r, o), BetweenCommits(r, o),
         AnswerInv(r), NoteWrites, UseCaseStep(r)
  PROVE  AnswerInv(r)'
<1>1. CASE CheckCustomer(r)
  <2>1. UNCHANGED Tables
    BY <1>1 DEF Tables, dbVars, CheckCustomer
  <2>2. pc'[r] # "idle" => wrote'[r] = wrote[r]
    BY <2>1, NothingWritten
  <2>. QED BY <1>1, <2>2 DEF TypeOK, LocalsOK, orderLocal, flowLocal, SessionInv, RequestOK,
     Path, Request, OpNames, AnswerInv, Early, Excused, Refusable, ClientErrors, BetweenCommits,
     HandlerOK, RefusalKnown, WorkInv, PhaseKnown, Phases, CheckCustomer, CustomerAnswers, Goto,
     Finish
<1>2. CASE CheckNoActiveOrder(r)
  <2>1. UNCHANGED Tables
    BY <1>2 DEF Tables, dbVars, CheckNoActiveOrder
  <2>2. pc'[r] # "idle" => wrote'[r] = wrote[r]
    BY <2>1, NothingWritten
  <2>. QED BY <1>2, <2>2 DEF TypeOK, LocalsOK, orderLocal, flowLocal, SessionInv, RequestOK,
     Path, Request, OpNames, AnswerInv, Early, Excused, Refusable, ClientErrors, BetweenCommits,
     HandlerOK, RefusalKnown, WorkInv, PhaseKnown, Phases, CheckNoActiveOrder, Goto, Finish
<1>3. CASE AddProduct(r)
  <2>1. UNCHANGED Tables
    BY <1>3 DEF Tables, dbVars, AddProduct
  <2>2. pc'[r] # "idle" => wrote'[r] = wrote[r]
    BY <2>1, NothingWritten
  <2>. QED BY <1>3, <2>2 DEF TypeOK, LocalsOK, orderLocal, flowLocal, SessionInv, RequestOK,
     Path, Request, OpNames, AnswerInv, Early, Excused, Refusable, ClientErrors, BetweenCommits,
     HandlerOK, RefusalKnown, WorkInv, PhaseKnown, Phases, AddProduct, Goto, Finish
<1>4. CASE RemoveProduct(r)
  <2>1. UNCHANGED Tables
    BY <1>4 DEF Tables, dbVars, RemoveProduct
  <2>2. pc'[r] # "idle" => wrote'[r] = wrote[r]
    BY <2>1, NothingWritten
  <2>. QED BY <1>4, <2>2 DEF TypeOK, LocalsOK, orderLocal, flowLocal, SessionInv, RequestOK,
     Path, Request, OpNames, AnswerInv, Early, Excused, Refusable, ClientErrors, BetweenCommits,
     HandlerOK, RefusalKnown, WorkInv, PhaseKnown, Phases, RemoveProduct, Goto, Finish
<1>5. CASE SagaSelect(r)
  <2>1. UNCHANGED Tables
    BY <1>5 DEF Tables, dbVars, SagaSelect
  <2>2. pc'[r] # "idle" => wrote'[r] = wrote[r]
    BY <2>1, NothingWritten
  <2>. QED BY <1>5, <2>2 DEF TypeOK, LocalsOK, orderLocal, flowLocal, SessionInv, RequestOK,
     Path, Request, OpNames, AnswerInv, Early, Excused, Refusable, ClientErrors, BetweenCommits,
     HandlerOK, RefusalKnown, WorkInv, PhaseKnown, Phases, SagaSelect, Goto
<1>6. CASE SagaCommit(r)
  <2>1. Written \subseteq {"saga"} /\ req[r].op = "confirm"
    BY <1>6 DEF SagaCommit, Written, SessionInv, RequestOK, Path, Request, OpNames
  <2>2. pc'[r] # "idle" => wrote'[r] = wrote[r] \/ wrote'[r] = wrote[r] \cup Written
    BY NoteOf
  <2>3. /\ pc[r] = "saga_commit" /\ req' = req /\ stage' = stage
        /\ \/ pc'[r] = AfterSagaSave(stage[r]) /\ reply' = reply
           \/ pc'[r] = "done" /\ reply'[r] = "error"
    BY <1>6 DEF SagaCommit, Goto, Finish, TypeOK, LocalsOK, flowLocal
  <2>4. stage[r] # "compensating"
    BY <2>1, <2>3 DEF WorkInv, PhaseKnown, Phases
  <2>. QED BY <2>1, <2>2, <2>3, <2>4 DEF AnswerInv, Early, Excused, Refusable, ClientErrors, AfterSagaSave
<1>7. CASE ValidateCustomer(r)
  <2>1. UNCHANGED Tables
    BY <1>7 DEF Tables, dbVars, ValidateCustomer
  <2>2. pc'[r] # "idle" => wrote'[r] = wrote[r]
    BY <2>1, NothingWritten
  <2>. QED BY <1>7, <2>2 DEF TypeOK, LocalsOK, orderLocal, flowLocal, SessionInv, RequestOK,
     Path, Request, OpNames, AnswerInv, Early, Excused, Refusable, ClientErrors, BetweenCommits,
     HandlerOK, RefusalKnown, WorkInv, PhaseKnown, Phases, ValidateCustomer, Goto, Finish,
     FailPhase
<1>8. CASE FetchPrices(r)
  <2>1. UNCHANGED Tables
    BY <1>8 DEF Tables, dbVars, FetchPrices
  <2>2. pc'[r] # "idle" => wrote'[r] = wrote[r]
    BY <2>1, NothingWritten
  <2>. QED BY <1>8, <2>2 DEF TypeOK, LocalsOK, orderLocal, flowLocal, SessionInv, RequestOK,
     Path, Request, OpNames, AnswerInv, Early, Excused, Refusable, ClientErrors, BetweenCommits,
     HandlerOK, RefusalKnown, WorkInv, PhaseKnown, Phases, FetchPrices, Goto, Finish, FailPhase
<1>9. CASE VoidPendingPayment(r)
  <2>1. UNCHANGED Tables
    BY <1>9 DEF Tables, dbVars, VoidPendingPayment
  <2>2. pc'[r] # "idle" => wrote'[r] = wrote[r]
    BY <2>1, NothingWritten
  <2>. QED BY <1>9, <2>2 DEF TypeOK, LocalsOK, orderLocal, flowLocal, SessionInv, RequestOK,
     Path, Request, OpNames, AnswerInv, Early, Excused, Refusable, ClientErrors, BetweenCommits,
     HandlerOK, RefusalKnown, WorkInv, PhaseKnown, Phases, VoidPendingPayment, Goto
<1>10. CASE ApplyCancel(r)
  <2>1. UNCHANGED Tables
    BY <1>10 DEF ApplyCancel, Tables, dbVars
  <2>2. pc'[r] # "idle" => wrote'[r] = wrote[r]
    BY <2>1, NothingWritten
  <2>3. ~CanCancel(ord[r]) => pay[r].status = Absent
    <3>1. /\ req[r].op = "cancel" /\ ord[r] = Stored(o)
          /\ pay[r].status # Absent => AwaitsPayment(orders[o])
      BY <1>10 DEF ApplyCancel, SessionInv, RequestOK, Path, Request, OpNames, HandlerOK,
         EntityCurrent, Reading, BetweenCommits
    <3>. QED BY <3>1 DEF Stored, InMemory, AwaitsPayment, CanCancel, CancellableStatuses
  <2>. QED BY <1>10, <2>2, <2>3 DEF TypeOK, LocalsOK, orderLocal, flowLocal, SessionInv,
     RequestOK, Path, Request, OpNames, AnswerInv, Early, Excused, Refusable, ClientErrors,
     BetweenCommits, HandlerOK, RefusalKnown, WorkInv, PhaseKnown, Phases, ApplyCancel, Goto,
     Finish
<1>11. CASE ReturnPaymentOfKey(r)
  <2>1. UNCHANGED Tables
    BY <1>11 DEF Tables, dbVars, ReturnPaymentOfKey
  <2>2. pc'[r] # "idle" => wrote'[r] = wrote[r]
    BY <2>1, NothingWritten
  <2>. QED BY <1>11, <2>2 DEF TypeOK, LocalsOK, orderLocal, flowLocal, SessionInv, RequestOK,
     Path, Request, OpNames, AnswerInv, Early, Excused, Refusable, ClientErrors, BetweenCommits,
     HandlerOK, RefusalKnown, WorkInv, PhaseKnown, Phases, ReturnPaymentOfKey, Goto, Finish
<1>12. CASE PreparePayment(r)
  <2>1. UNCHANGED Tables
    BY <1>12 DEF Tables, dbVars, PreparePayment
  <2>2. pc'[r] # "idle" => wrote'[r] = wrote[r]
    BY <2>1, NothingWritten
  <2>. QED BY <1>12, <2>2 DEF TypeOK, LocalsOK, orderLocal, flowLocal, SessionInv, RequestOK,
     Path, Request, OpNames, AnswerInv, Early, Excused, Refusable, ClientErrors, BetweenCommits,
     HandlerOK, RefusalKnown, WorkInv, PhaseKnown, Phases, PreparePayment, Goto, Finish
<1>13. CASE GatewayAccepts(r)
  <2>1. UNCHANGED Tables
    BY <1>13 DEF Tables, dbVars, GatewayAccepts
  <2>2. pc'[r] # "idle" => wrote'[r] = wrote[r]
    BY <2>1, NothingWritten
  <2>. QED BY <1>13, <2>2 DEF TypeOK, LocalsOK, orderLocal, flowLocal, SessionInv, RequestOK,
     Path, Request, OpNames, AnswerInv, Early, Excused, Refusable, ClientErrors, BetweenCommits,
     HandlerOK, RefusalKnown, WorkInv, PhaseKnown, Phases, GatewayAccepts, Goto
<1>14. CASE GatewayUnavailable(r)
  <2>1. UNCHANGED Tables
    BY <1>14 DEF Tables, dbVars, GatewayUnavailable
  <2>2. pc'[r] # "idle" => wrote'[r] = wrote[r]
    BY <2>1, NothingWritten
  <2>. QED BY <1>14, <2>2 DEF TypeOK, LocalsOK, orderLocal, flowLocal, SessionInv, RequestOK,
     Path, Request, OpNames, AnswerInv, Early, Excused, Refusable, ClientErrors, BetweenCommits,
     HandlerOK, RefusalKnown, WorkInv, PhaseKnown, Phases, GatewayUnavailable
<1>15. CASE GatewayRefuses(r)
  <2>1. UNCHANGED Tables
    BY <1>15 DEF Tables, dbVars, GatewayRefuses
  <2>2. pc'[r] # "idle" => wrote'[r] = wrote[r]
    BY <2>1, NothingWritten
  <2>. QED BY <1>15, <2>2 DEF TypeOK, LocalsOK, orderLocal, flowLocal, SessionInv, RequestOK,
     Path, Request, OpNames, AnswerInv, Early, Excused, Refusable, ClientErrors, BetweenCommits,
     HandlerOK, RefusalKnown, WorkInv, PhaseKnown, Phases, GatewayRefuses
<1>16. CASE GatewayLost(r)
  <2>1. UNCHANGED Tables
    BY <1>16 DEF Tables, dbVars, GatewayLost
  <2>2. pc'[r] # "idle" => wrote'[r] = wrote[r]
    BY <2>1, NothingWritten
  <2>. QED BY <1>16, <2>2 DEF TypeOK, LocalsOK, orderLocal, flowLocal, SessionInv, RequestOK,
     Path, Request, OpNames, AnswerInv, Early, Excused, Refusable, ClientErrors, BetweenCommits,
     HandlerOK, RefusalKnown, WorkInv, PhaseKnown, Phases, GatewayLost, Finish
<1>17. CASE RestorePreviousStatus(r)
  <2>1. UNCHANGED Tables
    BY <1>17 DEF Tables, dbVars, RestorePreviousStatus
  <2>2. pc'[r] # "idle" => wrote'[r] = wrote[r]
    BY <2>1, NothingWritten
  <2>. QED BY <1>17, <2>2 DEF TypeOK, LocalsOK, orderLocal, flowLocal, SessionInv, RequestOK,
     Path, Request, OpNames, AnswerInv, Early, Excused, Refusable, ClientErrors, BetweenCommits,
     HandlerOK, RefusalKnown, WorkInv, PhaseKnown, Phases, RestorePreviousStatus, Goto, Finish
<1>18. CASE LoadPayment(r)
  <2>1. UNCHANGED Tables
    BY <1>18 DEF Tables, dbVars, LoadPayment
  <2>2. pc'[r] # "idle" => wrote'[r] = wrote[r]
    BY <2>1, NothingWritten
  <2>. QED BY <1>18, <2>2 DEF TypeOK, LocalsOK, orderLocal, flowLocal, SessionInv, RequestOK,
     Path, Request, OpNames, AnswerInv, Early, Excused, Refusable, ClientErrors, BetweenCommits,
     HandlerOK, RefusalKnown, WorkInv, PhaseKnown, Phases, LoadPayment, Goto, Finish
<1>19. CASE ApplyVerdict(r)
  <2>1. UNCHANGED Tables
    BY <1>19 DEF Tables, dbVars, ApplyVerdict
  <2>2. pc'[r] # "idle" => wrote'[r] = wrote[r]
    BY <2>1, NothingWritten
  <2>. QED BY <1>19, <2>2 DEF TypeOK, LocalsOK, orderLocal, flowLocal, SessionInv, RequestOK,
     Path, Request, OpNames, AnswerInv, Early, Excused, Refusable, ClientErrors, BetweenCommits,
     HandlerOK, RefusalKnown, WorkInv, PhaseKnown, Phases, ApplyVerdict, Goto, Finish
<1>. QED
  BY <1>1, <1>2, <1>3, <1>4, <1>5, <1>6, <1>7, <1>8, <1>9, <1>10, <1>11, <1>12, <1>13, <1>14,
     <1>15, <1>16, <1>17, <1>18, <1>19 DEF UseCaseStep

\* A request that has just arrived has written nothing.
LEMMA ArrivalAnswers ==
  ASSUME TypeOK, NEW r \in Requests, SessionInv(r), AnswerInv(r), Arrive(r), NoteWrites
  PROVE  AnswerInv(r)'
<1>1. PICK request, first, firstStage : Brings(r, request, first, firstStage)
  BY Arrival
<1>2. UNCHANGED Tables
  BY <1>1 DEF Brings, Receive, Tables, dbVars
<1>3. /\ pc[r] = "idle" /\ pc'[r] = first /\ stage'[r] = firstStage /\ reply'[r] = "ok"
      /\ firstStage \in {"customer", "start"}
      /\ first \in {"customer", "load", "idem_get", "pay_by_key", "pay_load"}
  BY <1>1 DEF Brings, Receive, TypeOK, LocalsOK
<1>4. wrote'[r] = {}
  BY <1>2, <1>3, NothingWritten DEF AnswerInv
<1>. QED BY <1>3, <1>4 DEF AnswerInv, Refusable, ClientErrors

\* A session that has ended has no history.
LEMMA EndAnswers ==
  ASSUME NEW r \in Requests, AnswerInv(r), EndSessions({r}) \/ EndSessions(Requests), NoteWrites
  PROVE  AnswerInv(r)'
<1>1. pc'[r] = "idle" /\ req'[r] = NoRequest /\ reply'[r] = "none" /\ stage'[r] = "start"
  BY DEF EndSessions
<1>2. NoRequest.op = Nil
  BY DEF NoRequest
<1>3. wrote'[r] = {} => AnswerInv(r)'
  BY <1>1, <1>2 DEF AnswerInv, Early, Excused, Refusable, ClientErrors
<1>4. pc[r] = "idle" => wrote[r] = {}
  BY DEF AnswerInv
<1>5. wrote'[r] = {}
  BY <1>1, <1>4 DEF NoteWrites
<1>. QED BY <1>3, <1>5

AnswersInv == \A r \in Requests : AnswerInv(r)

\* Every step keeps it when there is one slot.
LEMMA StepAnswers ==
  ASSUME OneAtATime
  PROVE  IndInv /\ IndWork /\ IndSequence /\ CommitsJoin /\ AnswersInv
            /\ [Next /\ NoteWrites]_answerVars => AnswersInv'
<1>. SUFFICES ASSUME IndInv, IndWork, IndSequence, CommitsJoin, AnswersInv,
                     [Next /\ NoteWrites]_answerVars, NEW r \in Requests
              PROVE  AnswerInv(r)'
  BY DEF AnswersInv
<1>1. /\ TypeOK /\ SequenceTables /\ SessionInv(r) /\ WorkInv(r) /\ SequenceSession(r)
      /\ AnswerInv(r)
  BY DEF IndInv, IndWork, IndSequence, AnswersInv
<1>2. CASE (RepositoryStep(r) \/ UseCaseStep(r)) /\ NoteWrites
  <2>1. PICK o \in Orders : req[r].order = o
    BY <1>1, <1>2, SameRequest
  <2>2. HandlerOK(r, o) /\ BetweenCommits(r, o)
    BY <1>1, <2>1 DEF SequenceSession, CommitsJoin
  <2>. QED BY <1>1, <1>2, <2>1, <2>2, RepositoryAnswers, UseCaseAnswers
<1>3. CASE Arrive(r) /\ NoteWrites
  BY <1>1, <1>3, ArrivalAnswers
<1>4. CASE (Respond(r) \/ Crash) /\ NoteWrites
  BY <1>1, <1>4, EndAnswers DEF Respond, Crash
<1>5. CASE UNCHANGED answerVars
  <2>1. UNCHANGED <<pc, req, pay, stage, reply, wrote>>
    BY <1>5 DEF answerVars, vars, flowLocal
  <2>. QED BY <1>1, <2>1 DEF AnswerInv, Early, Excused, Refusable
<1>6. CASE Quiet /\ NoteWrites
  <2>1. pc[r] = "idle" /\ UNCHANGED <<pc, req, pay, stage, reply>> /\ UNCHANGED Tables
    BY <1>6 DEF Quiet, vars, dbVars, flowLocal, Tables
  <2>2. wrote'[r] = {}
    BY <1>1, <1>6, <2>1 DEF NoteWrites, AnswerInv
  <2>. QED BY <1>1, <2>1, <2>2 DEF AnswerInv, Early, Excused, Refusable
<1>7. \A q \in Requests : q = r
  BY DEF OneAtATime
<1>. QED BY <1>2, <1>3, <1>4, <1>5, <1>6, <1>7 DEF Next, Serve

\* At the start nobody has written.
LEMMA InitAnswers == Init /\ wrote = [r \in Requests |-> {}] => AnswersInv
BY DEF Init, NoRequest, AnswersInv, AnswerInv, Early, Excused, Refusable, ClientErrors

\* The history is only watched: it takes nothing from the service.
LEMMA AnswersAreService == AnswerSpec => Spec
<1>1. [Next /\ NoteWrites]_answerVars => [Next]_vars
  BY DEF answerVars
<1>. QED BY <1>1, PTL DEF AnswerSpec, Spec

\* One request at a time, what a request has written is bounded at every
\* await, crashes included.
THEOREM AnswerInvariance ==
  ASSUME OneAtATime
  PROVE  AnswerSpec => []AnswersInv
<1>1. IndInv /\ IndWork /\ IndSequence /\ CommitsJoin /\ AnswersInv
         /\ [Next /\ NoteWrites]_answerVars => AnswersInv'
  BY StepAnswers
<1>. QED BY <1>1, InitAnswers, AnswersAreService, Invariance, WorkInvariance,
            SequenceInvariance, CommitsJoined, PTL DEF AnswerSpec

\* One request at a time, a client that is answered 404, 409 or 422 finds
\* everything as it was but the saga row of its confirm: the handlers make several
\* commits, and each other check that ends in such an answer comes before the
\* first of them, or cannot fail after.
THEOREM ErrorsLeaveSagaOnly ==
  ASSUME OneAtATime
  PROVE  AnswerSpec => []ClientErrorLeavesSagaOnly
<1>1. AnswersInv => ClientErrorLeavesSagaOnly
  BY StatusOfKind DEF AnswersInv, AnswerInv, Excused, ClientErrorLeavesSagaOnly
<1>. QED BY <1>1, AnswerInvariance, PTL

\* One request at a time, a payment that the gateway refused (503) has touched
\* the order row alone, also after a crash during an earlier attempt.
THEOREM RefusalsOpenNothing ==
  ASSUME OneAtATime
  PROVE  AnswerSpec => []RefusalOpensNothing
<1>1. ASSUME IndInv, IndSequence, AnswersInv, NEW r \in Requests, pc[r] = "done",
   HttpStatus(reply[r]) = 503
      PROVE  wrote[r] \subseteq {"orders"}
  <2>1. reply[r] = "payment_gateway_error"
    BY <1>1, StatusOfKind
  <2>2. PICK o \in Orders : req[r].order = o
    BY <1>1 DEF IndInv, SessionInv, RequestOK, Request
  <2>3. HandlerOK(r, o)
    BY <1>1, <2>2 DEF IndSequence, SequenceSession
  <2>4. Refusable(r)
    BY <2>1, <2>3 DEF HandlerOK, RefusalKnown, Refusable
  <2>. QED BY <1>1, <2>4 DEF AnswersInv, AnswerInv
<1>2. IndInv /\ IndSequence /\ AnswersInv => RefusalOpensNothing
  BY <1>1 DEF RefusalOpensNothing
<1>. QED BY <1>2, AnswerInvariance, AnswersAreService, Invariance, SequenceInvariance, PTL
================================================================================
