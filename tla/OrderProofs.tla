------------------------------- MODULE OrderProofs -------------------------------
(***************************************************************************)
(* Every step of the service keeps TypeOK and IndInv, and with it the      *)
(* properties of OrderProperties that hold under every interleaving, for   *)
(* any number of orders, products and requests in flight: a step of one    *)
(* request leaves the sessions of the others and all that was committed    *)
(* before alone, and what a request knows of its order at each await is    *)
(* still true after its next step.                                         *)
(***************************************************************************)
EXTENDS OrderInvariant, TLAPS

(***************************************************************************)
(* Type correctness: operators.                                            *)
(***************************************************************************)

\* Every request announces one of the five event types.
LEMMA EventOfType == ASSUME NEW r \in Requests PROVE EventOf(r) \in EventTypes
  BY DEF EventOf, EventFor, EventTypes

\* Counting an event keeps a table of counters.
LEMMA BumpType ==
  ASSUME NEW f \in [Orders -> [EventTypes -> Nat]], NEW r \in Requests, req[r].order \in Orders
  PROVE  Bump(f, r) \in [Orders -> [EventTypes -> Nat]]
  BY EventOfType DEF Bump

\* An item that is given a price is an item.
LEMMA PricedItem ==
  ASSUME NEW i \in ItemRow, NEW x \in Nat
  PROVE  [i EXCEPT !.price = x] \in ItemRow
  BY DEF ItemRow

\* confirm_with_prices yields an order when no price is negative.
LEMMA ConfirmedType ==
  ASSUME NEW o \in Entity, NEW prices \in [ProductsOf(o) -> Int],
         \A p \in DOMAIN prices : prices[p] \in Nat,
         ConfirmWithPrices(NextVersion(o), prices).total \in Nat
  PROVE  ConfirmWithPrices(NextVersion(o), prices) \in Entity
<1>. DEFINE n == NextVersion(o)
            c == ConfirmWithPrices(n, prices)
            priced == {[i EXCEPT !.price = prices[i.product]] : i \in n.items}
<1>1. n \in Entity /\ n.items = o.items
  BY DEF Entity, NextVersion
<1>2. \A i \in n.items : i \in ItemRow /\ prices[i.product] \in Nat
  BY <1>1 DEF Entity, ProductsOf
<1>3. priced \subseteq ItemRow
  BY <1>2, PricedItem
<1>4. c = [n EXCEPT !.items = priced, !.total = c.total, !.status = "CONFIRMED"]
  BY <1>1 DEF ConfirmWithPrices, Entity
<1>. HIDE DEF n, c, priced
<1>5. c.total \in Nat
  BY DEF c, n
<1>6. c \in Entity
  BY <1>1, <1>3, <1>4, <1>5 DEF Entity, OrderStatuses
<1>. QED BY <1>6 DEF c, n

\* The order FetchPrices goes on with.
LEMMA PricedOrder ==
  ASSUME TypeOK, NEW r \in Requests, NEW prices \in [ProductsOf(ord[r]) -> Prices],
         \A p \in DOMAIN prices : prices[p] \in Nat,
         ConfirmWithPrices(NextVersion(ord[r]), prices).total \in Nat
  PROVE  ConfirmWithPrices(NextVersion(ord[r]), prices) \in Entity
  BY ConfirmedType, StoreAssumption DEF TypeOK, LocalsOK

\* add_item grows an item of the order or appends the new one.
LEMMA GrownType ==
  ASSUME NEW o \in Entity, NEW item \in ItemRow, NEW added \in AddItemTo(NextVersion(o), item)
  PROVE  added \in Entity
<1>. DEFINE n == NextVersion(o)
            same == {i \in n.items : i.product = item.product}
<1>1. n \in Entity
  BY DEF Entity, NextVersion
<1>. HIDE DEF n
<1>2. CASE same = {}
  BY <1>1, <1>2 DEF AddItemTo, Entity, n
<1>3. CASE same # {}
  <2>1. PICK i \in same :
          added = [n EXCEPT !.items = (@ \ {i}) \cup {[i EXCEPT !.qty = @ + item.qty]}]
    BY <1>3 DEF AddItemTo, n
  <2>2. i \in ItemRow
    BY <1>1 DEF Entity
  <2>3. [i EXCEPT !.qty = @ + item.qty] \in ItemRow
    BY <2>2 DEF ItemRow
  <2>. QED BY <1>1, <2>1, <2>3 DEF Entity
<1>. QED BY <1>2, <1>3

\* The order AddProduct goes on with.
LEMMA AddedType ==
  ASSUME TypeOK, NEW r \in Requests, SessionInv(r), pc[r] = "product",
         NEW id \in ItemIds, NEW added \in AddItemTo(NextVersion(ord[r]), NewItem(r, id))
  PROVE  added \in Entity
<1>1. NewItem(r, id) \in ItemRow
  BY DEF NewItem, ItemRow, SessionInv, RequestOK, Request, Path, OpNames
<1>. QED BY <1>1, GrownType DEF TypeOK, LocalsOK

\* Every change of the entity yields an order.
LEMMA ChangedType ==
  ASSUME NEW o \in Entity
  PROVE  /\ NextVersion(o) \in Entity
         /\ CancelOrder(o) \in Entity
         /\ MarkPaymentPending(o) \in Entity
         /\ ApplyApproved(o) \in Entity
         /\ ApplyRejected(o) \in Entity
         /\ \A id : RemoveItemFrom(o, id) \in Entity
         /\ \A s \in OrderStatuses \cup {Absent} : RestoreStatus(o, s) \in Entity
<1>1. NextVersion(o) \in Entity /\ CancelOrder(o) \in Entity /\ MarkPaymentPending(o) \in Entity
  BY DEF Entity, NextVersion, CancelOrder, MarkPaymentPending, OrderStatuses
<1>2. ApplyApproved(o) \in Entity /\ \A s \in OrderStatuses \cup {Absent} : RestoreStatus(o, s) \in Entity
  BY DEF Entity, ApplyApproved, RestoreStatus, OrderStatuses
<1>3. ApplyRejected(o) \in Entity
  <2>1. RejectedStatus(o.attempts + 1) \in OrderStatuses /\ o.attempts + 1 \in Nat
    BY DEF Entity, RejectedStatus, OrderStatuses
  <2>. QED BY <2>1 DEF Entity, ApplyRejected
<1>4. ASSUME NEW id PROVE RemoveItemFrom(o, id) \in Entity
  <2>1. {i \in o.items : i.id # id} \subseteq ItemRow
    BY DEF Entity
  <2>. QED BY <2>1 DEF Entity, RemoveItemFrom
<1>. QED BY <1>1, <1>2, <1>3, <1>4

\* A payment as it is stored, and with another status.
LEMMA StoredPaymentType ==
  ASSUME DatabaseOK, NEW o \in Orders
  PROVE  StoredPayment(o) \in PaymentEntity
  BY DEF DatabaseOK, StoredPayment, PaymentEntity

\* Payment.approve, reject, void and mark_pending.
LEMMA PaymentStatusType ==
  ASSUME NEW p \in PaymentEntity, NEW s \in PaymentStatuses
  PROVE  SetPaymentStatus(p, s) \in PaymentEntity
  BY DEF SetPaymentStatus, PaymentEntity

\* The payment row as save writes it.
LEMMA WrittenPaymentType ==
  ASSUME NEW current \in [status : PaymentStatuses \cup {Absent}, key : Keys \cup {Nil}],
         NEW p \in PaymentEntity
  PROVE  WrittenPayment(current, p) \in [status : PaymentStatuses \cup {Absent}, key : Keys \cup {Nil}]
<1>1. p.status \in PaymentStatuses \cup {Absent} /\ p.key \in Keys \cup {Nil}
  BY DEF PaymentEntity
<1>. QED BY <1>1 DEF WrittenPayment

\* The payment a handler is about to save belongs to an order.
LEMMA OwnPayment ==
  ASSUME TypeOK, NEW r \in Requests, SessionInv(r), pc[r] \in {"pay_select", "pay_commit"}
  PROVE  pay[r].order \in Orders
  BY DEF SessionInv, RequestOK, PaymentOK, Request

\* The row of an order, read into an entity.
LEMMA ReadRowType ==
  ASSUME TypeOK, NEW o \in Orders
  PROVE  InMemory(orders[o], {}) \in Entity
  BY DEF TypeOK, DatabaseOK, InMemory, Entity, Row

\* Items read into an entity.
LEMMA ReadItemsType ==
  ASSUME NEW e \in Entity, NEW S \in SUBSET ItemRow
  PROVE  [e EXCEPT !.items = S] \in Entity
<1>. HIDE DEF ItemRow
<1>. QED BY DEF Entity

\* The status of the payment at the SELECT of save.
LEMMA LoadedPaymentType ==
  ASSUME NEW p \in PaymentEntity, NEW s \in PaymentStatuses \cup {Absent}
  PROVE  [p EXCEPT !.loaded = s] \in PaymentEntity
  BY DEF PaymentEntity

\* Going on keeps the program counters and the answers.
LEMMA GotoType ==
  ASSUME LocalsOK, NEW r \in Requests, NEW label \in Labels, Goto(r, label)
  PROVE  pc' \in [Requests -> Labels] /\ reply' \in [Requests -> Replies]
  BY DEF LocalsOK, Goto

\* Ending a request keeps the program counters and the answers.
LEMMA FinishType ==
  ASSUME LocalsOK, NEW r \in Requests, NEW kind \in Replies, Finish(r, kind)
  PROVE  pc' \in [Requests -> Labels] /\ reply' \in [Requests -> Replies]
  BY DEF LocalsOK, Finish, Labels

\* One more entry in the log of an order.
LEMMA AppendType ==
  ASSUME NEW S, NEW f \in [Orders -> Seq(S)], NEW o \in Orders, NEW e \in S
  PROVE  [f EXCEPT ![o] = Append(@, e)] \in [Orders -> Seq(S)]
  OBVIOUS

\* A request in flight has an order and a key, or no key.
LEMMA RequestType ==
  ASSUME NEW r \in Requests, SessionInv(r), pc[r] # "idle"
  PROVE  /\ req[r].order \in Orders
         /\ req[r].key \in Keys \cup {Nil}
         /\ req[r].txn \in Nat
         /\ req[r].op = "callback" => req[r].verdict \in Verdicts
  BY DEF SessionInv, RequestOK, Request

\* Charges the gateway has taken, and a call of it: one charge at most is taken.
ChargeRecord == [verdict : Verdicts, key : Keys \cup {Nil}, hidden : BOOLEAN]

Calls(r) == GatewayAccepts(r) \/ GatewayUnavailable(r) \/ GatewayRefuses(r) \/ GatewayLost(r)

ChargesOnce(r) == (\E hidden \in BOOLEAN : TakeCharge(r, hidden)) \/ UNCHANGED charges

\* A call of the gateway changes nothing else that other requests see.
LEMMA CallCharges ==
  ASSUME NEW r \in Requests, Calls(r)
  PROVE  /\ pc[r] = "gateway" /\ ChargesOnce(r)
         /\ UNCHANGED <<dbVars, queue, req, boundVars, ghostVars>>
<1>1. CASE GatewayAccepts(r)
  BY <1>1 DEF GatewayAccepts, Charge, ChargesOnce
<1>2. CASE GatewayUnavailable(r)
  BY <1>2 DEF GatewayUnavailable, HiddenCharge, ChargesOnce
<1>3. CASE GatewayRefuses(r)
  BY <1>3 DEF GatewayRefuses, HiddenCharge, ChargesOnce
<1>4. CASE GatewayLost(r)
  BY <1>4 DEF GatewayLost, Charge, ChargesOnce
<1>. QED BY <1>1, <1>2, <1>3, <1>4 DEF Calls

\* A charge is one more entry in the gateway's log.
LEMMA ChargeType ==
  ASSUME TypeOK, NEW r \in Requests, SessionInv(r), pc[r] = "gateway", ChargesOnce(r)
  PROVE  charges' \in [Orders -> Seq(ChargeRecord)]
<1>. DEFINE C == ChargeRecord
<1>1. charges \in [Orders -> Seq(C)]
  BY DEF TypeOK, WorldOK, ChargeRecord
<1>2. ASSUME NEW verdict \in Verdicts, NEW hidden \in BOOLEAN
      PROVE  [charges EXCEPT ![req[r].order] =
                 Append(@, [verdict |-> verdict, key |-> req[r].key, hidden |-> hidden])]
                \in [Orders -> Seq(C)]
  <2>. DEFINE c == [verdict |-> verdict, key |-> req[r].key, hidden |-> hidden]
  <2>1. c \in C /\ req[r].order \in Orders
    BY RequestType DEF ChargeRecord
  <2>. HIDE DEF C, c
  <2>2. [charges EXCEPT ![req[r].order] = Append(@, c)] \in [Orders -> Seq(C)]
    BY ONLY <1>1, <2>1, AppendType
  <2>. QED BY <2>2 DEF c
<1>3. ASSUME NEW hidden \in BOOLEAN, TakeCharge(r, hidden)
      PROVE  charges' \in [Orders -> Seq(C)]
  <2>1. PICK verdict \in Verdicts :
           charges' = [charges EXCEPT ![req[r].order] =
                          Append(@, [verdict |-> verdict, key |-> req[r].key, hidden |-> hidden])]
    BY <1>3 DEF TakeCharge
  <2>2. [charges EXCEPT ![req[r].order] =
            Append(@, [verdict |-> verdict, key |-> req[r].key, hidden |-> hidden])]
           \in [Orders -> Seq(C)]
    BY <1>2
  <2>. QED BY ONLY <2>1, <2>2
<1>. QED BY <1>1, <1>3 DEF ChargesOnce

(***************************************************************************)
(* Steps.                                                                  *)
(***************************************************************************)

\* Every round trip of the repositories, the idempotency store and the publisher.
LEMMA RepositoryType ==
  ASSUME TypeOK, NEW r \in Requests, SessionInv(r), RepositoryStep(r)
  PROVE  TypeOK'
<1>1. CASE LoadRow(r)
  <2>1. DatabaseOK'
    BY <1>1 DEF TypeOK, DatabaseOK, LoadRow, dbVars
  <2>2. WorldOK'
    BY <1>1 DEF TypeOK, WorldOK, LoadRow, worldVars, boundVars, ghostVars
  <2>3. LocalsOK'
    <3>1. ord' \in [Requests -> Entity]
      <4>1. req[r].order \in Orders
        BY <1>1, RequestType DEF LoadRow
      <4>. QED BY <1>1, <4>1, ReadRowType DEF TypeOK, LocalsOK, LoadRow
    <3>2. pc' \in [Requests -> Labels] /\ reply' \in [Requests -> Replies]
      BY <1>1 DEF TypeOK, LocalsOK, LoadRow, Goto, Finish, Labels, Replies
    <3>. QED BY <1>1, <3>1, <3>2 DEF TypeOK, LocalsOK, LoadRow, flowLocal
  <2>. QED BY <2>1, <2>2, <2>3 DEF TypeOK
<1>2. CASE LoadItems(r)
  <2>1. DatabaseOK'
    BY <1>2 DEF TypeOK, DatabaseOK, LoadItems, dbVars
  <2>2. WorldOK'
    BY <1>2 DEF TypeOK, WorldOK, LoadItems, worldVars, boundVars, ghostVars
  <2>3. LocalsOK'
    <3>1. ord' \in [Requests -> Entity]
      <4>. DEFINE rows == {i \in items : i.order = req[r].order}
      <4>1. rows \in SUBSET ItemRow
        BY DEF TypeOK, DatabaseOK
      <4>2. ord' = [ord EXCEPT ![r].items = rows]
        BY <1>2 DEF LoadItems
      <4>. HIDE DEF rows
      <4>3. [ord[r] EXCEPT !.items = rows] \in Entity
        BY <4>1, ReadItemsType DEF TypeOK, LocalsOK
      <4>. QED BY <4>2, <4>3 DEF TypeOK, LocalsOK
    <3>2. AfterLoad(r) \in Labels
      BY DEF AfterLoad, Labels
    <3>3. pc' \in [Requests -> Labels] /\ reply' \in [Requests -> Replies]
      BY <1>2, <3>2, GotoType DEF TypeOK, LoadItems
    <3>. QED BY <1>2, <3>1, <3>3 DEF TypeOK, LocalsOK, LoadItems, flowLocal
  <2>. QED BY <2>1, <2>2, <2>3 DEF TypeOK
<1>3. CASE LoadCached(r)
  <2>1. DatabaseOK'
    BY <1>3 DEF TypeOK, DatabaseOK, LoadCached, dbVars
  <2>2. WorldOK'
    BY <1>3 DEF TypeOK, WorldOK, LoadCached, worldVars, boundVars, ghostVars
  <2>3. LocalsOK'
    BY <1>3 DEF TypeOK, LocalsOK, LoadCached, Goto, Labels, AfterLoad, Entity, flowLocal
  <2>. QED BY <2>1, <2>2, <2>3 DEF TypeOK
<1>4. CASE SaveSelect(r)
  <2>1. DatabaseOK'
    BY <1>4 DEF TypeOK, DatabaseOK, SaveSelect, dbVars
  <2>2. WorldOK'
    BY <1>4 DEF TypeOK, WorldOK, SaveSelect, worldVars, boundVars, ghostVars
  <2>3. LocalsOK'
    <3>1. base' \in [Requests -> Entity]
      <4>1. req[r].order \in Orders
        BY <1>4, RequestType DEF SaveSelect
      <4>. QED BY <1>4, <4>1, ReadRowType DEF TypeOK, LocalsOK, SaveSelect
    <3>. QED BY <1>4, <3>1 DEF TypeOK, LocalsOK, SaveSelect, Goto, Labels, flowLocal
  <2>. QED BY <2>1, <2>2, <2>3 DEF TypeOK
<1>5. CASE SaveCheck(r)
  <2>1. DatabaseOK'
    BY <1>5 DEF TypeOK, DatabaseOK, SaveCheck, dbVars
  <2>2. WorldOK'
    BY <1>5 DEF TypeOK, WorldOK, SaveCheck, worldVars, boundVars, ghostVars
  <2>3. LocalsOK'
    <3>1. base' \in [Requests -> Entity]
      <4>. DEFINE rows == {i \in items : i.order = req[r].order}
      <4>1. rows \in SUBSET ItemRow
        BY DEF TypeOK, DatabaseOK
      <4>2. base' = [base EXCEPT ![r].items = rows]
        BY <1>5 DEF SaveCheck
      <4>. HIDE DEF rows
      <4>3. [base[r] EXCEPT !.items = rows] \in Entity
        BY <4>1, ReadItemsType DEF TypeOK, LocalsOK
      <4>. QED BY <4>2, <4>3 DEF TypeOK, LocalsOK
    <3>2. pc' \in [Requests -> Labels] /\ reply' \in [Requests -> Replies]
      BY <1>5 DEF TypeOK, LocalsOK, SaveCheck, CheckVersion, Goto, Finish, Labels, Replies
    <3>. QED BY <1>5, <3>1, <3>2 DEF TypeOK, LocalsOK, SaveCheck, flowLocal
  <2>. QED BY <2>1, <2>2, <2>3 DEF TypeOK
<1>6. CASE SaveCheckCached(r)
  <2>1. DatabaseOK'
    BY <1>6 DEF TypeOK, DatabaseOK, SaveCheckCached, dbVars
  <2>2. WorldOK'
    BY <1>6 DEF TypeOK, WorldOK, SaveCheckCached, worldVars, boundVars, ghostVars
  <2>3. LocalsOK'
    BY <1>6 DEF TypeOK, LocalsOK, SaveCheckCached, Goto, Finish, Labels, Replies, CheckVersion,
       orderLocal, flowLocal
  <2>. QED BY <2>1, <2>2, <2>3 DEF TypeOK
<1>7. CASE SaveCommit(r)
  <2>1. DatabaseOK'
    BY <1>7 DEF TypeOK, DatabaseOK, SaveCommit, LocalsOK, WrittenRow, WrittenItems, Entity, Row,
       SessionInv, RequestOK, Request
  <2>2. WorldOK'
    BY BumpType, <1>7 DEF TypeOK, WorldOK, SaveCommit, worldVars, boundVars, SessionInv,
       RequestOK, Request
  <2>3. LocalsOK'
    BY <1>7 DEF TypeOK, LocalsOK, SaveCommit, Goto, Labels, AfterOrderSave, Entity, flowLocal
  <2>. QED BY <2>1, <2>2, <2>3 DEF TypeOK
<1>8. CASE SaveFails(r)
  <2>1. DatabaseOK'
    BY <1>8 DEF TypeOK, DatabaseOK, SaveFails, dbVars
  <2>2. WorldOK'
    BY <1>8 DEF TypeOK, WorldOK, SaveFails, worldVars, boundVars, ghostVars
  <2>3. LocalsOK'
    BY <1>8 DEF TypeOK, LocalsOK, SaveFails, Goto, Finish, Labels, Replies, orderLocal,
       flowLocal
  <2>. QED BY <2>1, <2>2, <2>3 DEF TypeOK
<1>9. CASE InsertOrder(r)
  <2>1. DatabaseOK'
    BY <1>9 DEF TypeOK, DatabaseOK, InsertOrder, Row, OrderStatuses, SessionInv, RequestOK,
       Request
  <2>2. WorldOK'
    BY <1>9 DEF TypeOK, WorldOK, InsertOrder, worldVars, boundVars, ghostVars
  <2>3. LocalsOK'
    BY <1>9 DEF TypeOK, LocalsOK, InsertOrder, Goto, Labels, AfterOrderSave, orderLocal,
       flowLocal
  <2>. QED BY <2>1, <2>2, <2>3 DEF TypeOK
<1>10. CASE PaymentSelect(r)
  <2>1. DatabaseOK'
    BY <1>10 DEF TypeOK, DatabaseOK, PaymentSelect, dbVars
  <2>2. WorldOK'
    BY <1>10 DEF TypeOK, WorldOK, PaymentSelect, worldVars, boundVars, ghostVars
  <2>3. LocalsOK'
    <3>. DEFINE found == IF pay[r].fresh THEN Absent ELSE payments[pay[r].order].status
    <3>1. found \in PaymentStatuses \cup {Absent}
      BY <1>10, OwnPayment DEF TypeOK, DatabaseOK, PaymentSelect
    <3>2. [pay[r] EXCEPT !.loaded = found] \in PaymentEntity
      BY <3>1, LoadedPaymentType DEF TypeOK, LocalsOK
    <3>3. pay' \in [Requests -> PaymentEntity]
      BY <1>10, <3>2 DEF TypeOK, LocalsOK, PaymentSelect
    <3>. QED BY <1>10, <3>3 DEF TypeOK, LocalsOK, PaymentSelect, Goto, Labels, orderLocal,
       flowLocal
  <2>. QED BY <2>1, <2>2, <2>3 DEF TypeOK
<1>11. CASE PaymentCommit(r)
  <2>1. DatabaseOK'
    <3>1. pay[r].order \in Orders
      BY <1>11, OwnPayment DEF PaymentCommit
    <3>2. WrittenPayment(payments[pay[r].order], pay[r])
             \in [status : PaymentStatuses \cup {Absent}, key : Keys \cup {Nil}]
      BY <3>1, WrittenPaymentType DEF TypeOK, DatabaseOK, LocalsOK
    <3>. QED BY <1>11, <3>1, <3>2 DEF TypeOK, DatabaseOK, PaymentCommit
  <2>2. WorldOK'
    <3>. DEFINE verdictOf == [txn |-> req[r].txn, verdict |-> req[r].verdict, key |->
       req[r].key]
                Settled == [txn : Nat, verdict : Verdicts, key : Keys \cup {Nil}]
    <3>1. commits' \in [Orders -> [EventTypes -> Nat]]
      BY <1>11, BumpType, RequestType DEF TypeOK, WorldOK, PaymentCommit
    <3>2. pay[r].order \in Orders
      BY <1>11, OwnPayment DEF PaymentCommit
    <3>3. CASE req[r].op = "callback"
      <4>1. verdictOf \in Settled
        BY <1>11, <3>3, RequestType DEF PaymentCommit
      <4>2. settled \in [Orders -> Seq(Settled)]
        BY DEF TypeOK, WorldOK
      <4>3. [settled EXCEPT ![pay[r].order] = Append(@, verdictOf)] \in [Orders -> Seq(Settled)]
        BY ONLY <3>2, <4>1, <4>2, AppendType
      <4>4. settled' = [settled EXCEPT ![pay[r].order] = Append(@, verdictOf)]
        BY <1>11, <3>3 DEF PaymentCommit
      <4>. QED BY <1>11, <3>1, <4>3, <4>4 DEF TypeOK, WorldOK, PaymentCommit, worldVars,
         boundVars
    <3>4. CASE req[r].op # "callback"
      BY <1>11, <3>1, <3>4 DEF TypeOK, WorldOK, PaymentCommit, worldVars, boundVars
    <3>. QED BY <3>3, <3>4
  <2>3. LocalsOK'
    BY <1>11 DEF TypeOK, LocalsOK, PaymentCommit, Goto, Labels, AfterPaymentSave, orderLocal,
       flowLocal
  <2>. QED BY <2>1, <2>2, <2>3 DEF TypeOK
<1>12. CASE PaymentInsertFails(r)
  <2>1. DatabaseOK'
    BY <1>12 DEF TypeOK, DatabaseOK, PaymentInsertFails, dbVars
  <2>2. WorldOK'
    BY <1>12 DEF TypeOK, WorldOK, PaymentInsertFails, worldVars, boundVars, ghostVars
  <2>3. LocalsOK'
    BY <1>12 DEF TypeOK, LocalsOK, PaymentInsertFails, Goto, Finish, Labels, Replies,
       orderLocal, flowLocal
  <2>. QED BY <2>1, <2>2, <2>3 DEF TypeOK
<1>13. CASE IdemGet(r)
  <2>1. DatabaseOK'
    BY <1>13 DEF TypeOK, DatabaseOK, IdemGet, dbVars
  <2>2. WorldOK'
    BY <1>13 DEF TypeOK, WorldOK, IdemGet, worldVars, boundVars, ghostVars
  <2>3. LocalsOK'
    BY <1>13 DEF TypeOK, LocalsOK, IdemGet, Goto, Finish, Labels, Replies, AfterLookup,
       StageOnHit, Stages, orderLocal
  <2>. QED BY <2>1, <2>2, <2>3 DEF TypeOK
<1>14. CASE IdemSave(r)
  <2>1. DatabaseOK'
    BY <1>14 DEF TypeOK, DatabaseOK, IdemSave, Path, OpNames, Hash, RequestHash, SessionInv,
       RequestOK, Request
  <2>2. WorldOK'
    BY <1>14 DEF TypeOK, WorldOK, IdemSave, worldVars, boundVars, ghostVars
  <2>3. LocalsOK'
    BY <1>14 DEF TypeOK, LocalsOK, IdemSave, Goto, Finish, Labels, Replies, orderLocal,
       flowLocal
  <2>. QED BY <2>1, <2>2, <2>3 DEF TypeOK
<1>15. CASE Send(r)
  <2>1. DatabaseOK'
    BY <1>15 DEF TypeOK, DatabaseOK, Send, dbVars
  <2>2. WorldOK'
    <3>1. queue' \in [Orders -> [EventTypes -> Nat]]
      <4>1. queue \in [Orders -> [EventTypes -> Nat]] /\ req[r].order \in Orders
        BY <1>15, RequestType DEF TypeOK, WorldOK, Send
      <4>2. Bump(queue, r) \in [Orders -> [EventTypes -> Nat]]
        BY <4>1, BumpType
      <4>. QED BY <1>15, <4>1, <4>2 DEF Send
    <3>. QED BY <1>15, <3>1 DEF TypeOK, WorldOK, Send, boundVars, ghostVars
  <2>3. LocalsOK'
    BY <1>15 DEF TypeOK, LocalsOK, Send, Goto, Labels, Stages, orderLocal
  <2>. QED BY <2>1, <2>2, <2>3 DEF TypeOK
<1>16. CASE OutboxCommit(r)
  <2>1. DatabaseOK'
    <3>1. \A b \in BOOLEAN : [order |-> req[r].order, type |-> EventOf(r), published |-> b]
             \in [order : Orders, type : EventTypes, published : BOOLEAN]
      BY <1>16, EventOfType, RequestType DEF OutboxCommit
    <3>2. (stage[r] = "sent") \in BOOLEAN
      OBVIOUS
    <3>3. outbox' \subseteq [order : Orders, type : EventTypes, published : BOOLEAN]
      BY <1>16, <3>1, <3>2 DEF TypeOK, DatabaseOK, OutboxCommit
    <3>. QED BY <1>16, <3>3 DEF TypeOK, DatabaseOK, OutboxCommit
  <2>2. WorldOK'
    BY <1>16 DEF TypeOK, WorldOK, OutboxCommit, worldVars, boundVars, ghostVars
  <2>3. LocalsOK'
    BY <1>16 DEF TypeOK, LocalsOK, OutboxCommit, Goto, Labels, AfterPublish, Conclude,
       orderLocal, flowLocal
  <2>. QED BY <2>1, <2>2, <2>3 DEF TypeOK
<1>17. CASE Notify(r)
  <2>1. DatabaseOK'
    BY <1>17 DEF TypeOK, DatabaseOK, Notify, dbVars
  <2>2. WorldOK'
    BY <1>17 DEF TypeOK, WorldOK, Notify, worldVars, boundVars, ghostVars
  <2>3. LocalsOK'
    BY <1>17 DEF TypeOK, LocalsOK, Notify, Goto, Finish, Labels, Replies, Conclude, orderLocal,
       flowLocal
  <2>. QED BY <2>1, <2>2, <2>3 DEF TypeOK
<1>. QED
  BY <1>1, <1>2, <1>3, <1>4, <1>5, <1>6, <1>7, <1>8, <1>9, <1>10, <1>11, <1>12, <1>13, <1>14,
     <1>15, <1>16, <1>17 DEF RepositoryStep

\* Every step of a handler between two round trips of the repositories.
LEMMA UseCaseType ==
  ASSUME TypeOK, NEW r \in Requests, SessionInv(r), UseCaseStep(r)
  PROVE  TypeOK'
<1>1. CASE CheckCustomer(r)
  <2>1. DatabaseOK'
    BY <1>1 DEF TypeOK, DatabaseOK, CheckCustomer, dbVars
  <2>2. WorldOK'
    BY <1>1 DEF TypeOK, WorldOK, CheckCustomer, worldVars, boundVars, ghostVars
  <2>3. LocalsOK'
    BY <1>1 DEF TypeOK, LocalsOK, CheckCustomer, Goto, Finish, Labels, Replies, CustomerAnswers,
       orderLocal, flowLocal
  <2>. QED BY <2>1, <2>2, <2>3 DEF TypeOK
<1>2. CASE CheckNoActiveOrder(r)
  <2>1. DatabaseOK'
    BY <1>2 DEF TypeOK, DatabaseOK, CheckNoActiveOrder, dbVars
  <2>2. WorldOK'
    BY <1>2 DEF TypeOK, WorldOK, CheckNoActiveOrder, worldVars, boundVars, ghostVars
  <2>3. LocalsOK'
    BY <1>2 DEF TypeOK, LocalsOK, CheckNoActiveOrder, Goto, Finish, Labels, Replies, orderLocal,
       flowLocal
  <2>. QED BY <2>1, <2>2, <2>3 DEF TypeOK
<1>3. CASE AddProduct(r)
  <2>1. DatabaseOK'
    BY <1>3 DEF TypeOK, DatabaseOK, AddProduct, dbVars
  <2>2. WorldOK'
    BY <1>3 DEF TypeOK, WorldOK, AddProduct, worldVars, boundVars, ghostVars
  <2>3. LocalsOK'
    BY AddedType, <1>3 DEF TypeOK, LocalsOK, AddProduct, Goto, Finish, Labels, Replies,
       flowLocal
  <2>. QED BY <2>1, <2>2, <2>3 DEF TypeOK
<1>4. CASE RemoveProduct(r)
  <2>1. DatabaseOK'
    BY <1>4 DEF TypeOK, DatabaseOK, RemoveProduct, dbVars
  <2>2. WorldOK'
    BY <1>4 DEF TypeOK, WorldOK, RemoveProduct, worldVars, boundVars, ghostVars
  <2>3. LocalsOK'
    <3>1. RemoveItemFrom(NextVersion(ord[r]), req[r].item) \in Entity
      BY ChangedType DEF TypeOK, LocalsOK
    <3>2. ord' \in [Requests -> Entity]
      BY <1>4, <3>1 DEF TypeOK, LocalsOK, RemoveProduct
    <3>. QED BY <1>4, <3>2 DEF TypeOK, LocalsOK, RemoveProduct, Goto, Finish, Labels, Replies,
       flowLocal
  <2>. QED BY <2>1, <2>2, <2>3 DEF TypeOK
<1>5. CASE SagaSelect(r)
  <2>1. DatabaseOK'
    BY <1>5 DEF TypeOK, DatabaseOK, SagaSelect, dbVars
  <2>2. WorldOK'
    BY <1>5 DEF TypeOK, WorldOK, SagaSelect, worldVars, boundVars, ghostVars
  <2>3. LocalsOK'
    BY <1>5 DEF TypeOK, LocalsOK, SagaSelect, Goto, Labels, DatabaseOK, orderLocal, SessionInv,
       RequestOK, Request
  <2>. QED BY <2>1, <2>2, <2>3 DEF TypeOK
<1>6. CASE SagaCommit(r)
  <2>1. DatabaseOK'
    BY <1>6 DEF TypeOK, DatabaseOK, SagaCommit, LocalsOK, WrittenSaga, SagaRecord, SagaRow,
       SessionInv, RequestOK, Request
  <2>2. WorldOK'
    BY <1>6 DEF TypeOK, WorldOK, SagaCommit, worldVars, boundVars, ghostVars
  <2>3. LocalsOK'
    BY <1>6 DEF TypeOK, LocalsOK, SagaCommit, Goto, Finish, Labels, Replies, AfterSagaSave,
       orderLocal, flowLocal
  <2>. QED BY <2>1, <2>2, <2>3 DEF TypeOK
<1>7. CASE ValidateCustomer(r)
  <2>1. DatabaseOK'
    BY <1>7 DEF TypeOK, DatabaseOK, ValidateCustomer, dbVars
  <2>2. WorldOK'
    BY <1>7 DEF TypeOK, WorldOK, ValidateCustomer, worldVars, boundVars, ghostVars
  <2>3. LocalsOK'
    BY <1>7 DEF TypeOK, LocalsOK, ValidateCustomer, Goto, Finish, Labels, Replies, FailPhase,
       Stages, orderLocal
  <2>. QED BY <2>1, <2>2, <2>3 DEF TypeOK
<1>8. CASE FetchPrices(r)
  <2>1. DatabaseOK'
    BY <1>8 DEF TypeOK, DatabaseOK, FetchPrices, dbVars
  <2>2. WorldOK'
    BY <1>8 DEF TypeOK, WorldOK, FetchPrices, worldVars, boundVars, ghostVars
  <2>3. LocalsOK'
    <3>1. ord' \in [Requests -> Entity]
      BY PricedOrder, <1>8 DEF TypeOK, LocalsOK, FetchPrices
    <3>2. stage' \in [Requests -> Stages]
      BY <1>8 DEF TypeOK, LocalsOK, FetchPrices, FailPhase, Stages
    <3>3. pc' \in [Requests -> Labels] /\ reply' \in [Requests -> Replies]
      BY <1>8 DEF TypeOK, LocalsOK, FetchPrices, FailPhase, Goto, Finish, Labels, Replies
    <3>. QED BY <1>8, <3>1, <3>2, <3>3 DEF TypeOK, LocalsOK, FetchPrices
  <2>. QED BY <2>1, <2>2, <2>3 DEF TypeOK
<1>9. CASE VoidPendingPayment(r)
  <2>1. DatabaseOK'
    BY <1>9 DEF TypeOK, DatabaseOK, VoidPendingPayment, dbVars
  <2>2. WorldOK'
    BY <1>9 DEF TypeOK, WorldOK, VoidPendingPayment, worldVars, boundVars, ghostVars
  <2>3. LocalsOK'
    <3>1. pay' \in [Requests -> PaymentEntity]
      BY <1>9, RequestType, StoredPaymentType, PaymentStatusType DEF TypeOK, LocalsOK,
         VoidPendingPayment, PaymentStatuses
    <3>. QED BY <1>9, <3>1 DEF TypeOK, LocalsOK, VoidPendingPayment, Goto, Finish, Labels,
       Replies, orderLocal, flowLocal
  <2>. QED BY <2>1, <2>2, <2>3 DEF TypeOK
<1>10. CASE ApplyCancel(r)
  <2>1. DatabaseOK'
    BY <1>10 DEF TypeOK, DatabaseOK, ApplyCancel, dbVars
  <2>2. WorldOK'
    BY <1>10 DEF TypeOK, WorldOK, ApplyCancel, worldVars, boundVars, ghostVars
  <2>3. LocalsOK'
    <3>1. CancelOrder(NextVersion(ord[r])) \in Entity
      BY ChangedType DEF TypeOK, LocalsOK
    <3>2. ord' \in [Requests -> Entity]
      BY <1>10, <3>1 DEF TypeOK, LocalsOK, ApplyCancel
    <3>. QED BY <1>10, <3>2 DEF TypeOK, LocalsOK, ApplyCancel, Goto, Finish, Labels, Replies,
       flowLocal
  <2>. QED BY <2>1, <2>2, <2>3 DEF TypeOK
<1>11. CASE ReturnPaymentOfKey(r)
  <2>1. DatabaseOK'
    BY <1>11 DEF TypeOK, DatabaseOK, ReturnPaymentOfKey, dbVars
  <2>2. WorldOK'
    BY <1>11 DEF TypeOK, WorldOK, ReturnPaymentOfKey, worldVars, boundVars, ghostVars
  <2>3. LocalsOK'
    <3>1. pay' \in [Requests -> PaymentEntity]
      BY <1>11, StoredPaymentType DEF TypeOK, LocalsOK, ReturnPaymentOfKey
    <3>. QED BY <1>11, <3>1 DEF TypeOK, LocalsOK, ReturnPaymentOfKey, Goto, Finish, Labels,
       Replies, orderLocal, flowLocal
  <2>. QED BY <2>1, <2>2, <2>3 DEF TypeOK
<1>12. CASE PreparePayment(r)
  <2>1. DatabaseOK'
    BY <1>12 DEF TypeOK, DatabaseOK, PreparePayment, dbVars
  <2>2. WorldOK'
    BY <1>12 DEF TypeOK, WorldOK, PreparePayment, worldVars, boundVars, ghostVars
  <2>3. LocalsOK'
    <3>1. pay' \in [Requests -> PaymentEntity]
      BY <1>12, RequestType, StoredPaymentType DEF TypeOK, LocalsOK, PreparePayment
    <3>2. ord' \in [Requests -> Entity]
      BY <1>12, ChangedType DEF TypeOK, LocalsOK, PreparePayment
    <3>3. prev' \in [Requests -> OrderStatuses \cup {Absent}]
      BY <1>12 DEF TypeOK, LocalsOK, PreparePayment, Entity
    <3>. QED BY <1>12, <3>1, <3>2, <3>3 DEF TypeOK, LocalsOK, PreparePayment, Goto, Finish,
       Labels, Replies
  <2>. QED BY <2>1, <2>2, <2>3 DEF TypeOK
<1>13. CASE GatewayAccepts(r)
  <2>1. DatabaseOK'
    BY <1>13 DEF TypeOK, DatabaseOK, GatewayAccepts, dbVars
  <2>2. WorldOK'
    BY <1>13, CallCharges, ChargeType DEF Calls, ChargeRecord, TypeOK, WorldOK, boundVars, ghostVars
  <2>3. LocalsOK'
    <3>1. OpenedPayment(r) \in PaymentEntity
      <4>1. CASE pay[r].status = "REJECTED"
        BY <4>1, PaymentStatusType DEF TypeOK, LocalsOK, OpenedPayment, PaymentStatuses
      <4>2. CASE pay[r].status # "REJECTED"
        BY <1>13, <4>2, RequestType DEF GatewayAccepts, OpenedPayment, PaymentEntity,
           PaymentStatuses
      <4>. QED BY <4>1, <4>2
    <3>. QED BY <1>13, <3>1 DEF TypeOK, LocalsOK, GatewayAccepts, Goto, Labels, orderLocal,
       flowLocal
  <2>. QED BY <2>1, <2>2, <2>3 DEF TypeOK
<1>14. CASE GatewayUnavailable(r)
  <2>1. DatabaseOK'
    BY <1>14 DEF TypeOK, DatabaseOK, GatewayUnavailable, dbVars
  <2>2. WorldOK'
    BY <1>14, CallCharges, ChargeType DEF Calls, ChargeRecord, TypeOK, WorldOK, boundVars, ghostVars
  <2>3. LocalsOK'
    BY <1>14 DEF TypeOK, LocalsOK, GatewayUnavailable, MayRetry, MaxGatewayCalls, orderLocal
  <2>. QED BY <2>1, <2>2, <2>3 DEF TypeOK
<1>15. CASE GatewayRefuses(r)
  <2>1. DatabaseOK'
    BY <1>15 DEF TypeOK, DatabaseOK, GatewayRefuses, dbVars
  <2>2. WorldOK'
    BY <1>15, CallCharges, ChargeType DEF Calls, ChargeRecord, TypeOK, WorldOK, boundVars, ghostVars
  <2>3. LocalsOK'
    BY <1>15 DEF TypeOK, LocalsOK, GatewayRefuses, Labels, Stages, Replies, orderLocal
  <2>. QED BY <2>1, <2>2, <2>3 DEF TypeOK
<1>16. CASE GatewayLost(r)
  <2>1. DatabaseOK'
    BY <1>16 DEF TypeOK, DatabaseOK, GatewayLost, dbVars
  <2>2. WorldOK'
    BY <1>16, CallCharges, ChargeType DEF Calls, ChargeRecord, TypeOK, WorldOK, boundVars, ghostVars
  <2>3. LocalsOK'
    BY <1>16 DEF TypeOK, LocalsOK, GatewayLost, Goto, Finish, Labels, Replies, orderLocal,
       flowLocal
  <2>. QED BY <2>1, <2>2, <2>3 DEF TypeOK
<1>17. CASE RestorePreviousStatus(r)
  <2>1. DatabaseOK'
    BY <1>17 DEF TypeOK, DatabaseOK, RestorePreviousStatus, dbVars
  <2>2. WorldOK'
    BY <1>17 DEF TypeOK, WorldOK, RestorePreviousStatus, worldVars, boundVars, ghostVars
  <2>3. LocalsOK'
    <3>1. RestoreStatus(NextVersion(ord[r]), prev[r]) \in Entity
      BY ChangedType DEF TypeOK, LocalsOK
    <3>2. ord' \in [Requests -> Entity]
      BY <1>17, <3>1 DEF TypeOK, LocalsOK, RestorePreviousStatus
    <3>. QED BY <1>17, <3>2 DEF TypeOK, LocalsOK, RestorePreviousStatus, Goto, Finish, Labels,
       Replies, flowLocal
  <2>. QED BY <2>1, <2>2, <2>3 DEF TypeOK
<1>18. CASE LoadPayment(r)
  <2>1. DatabaseOK'
    BY <1>18 DEF TypeOK, DatabaseOK, LoadPayment, dbVars
  <2>2. WorldOK'
    BY <1>18 DEF TypeOK, WorldOK, LoadPayment, worldVars, boundVars, ghostVars
  <2>3. LocalsOK'
    <3>1. pay' \in [Requests -> PaymentEntity]
      BY <1>18, RequestType, StoredPaymentType DEF TypeOK, LocalsOK, LoadPayment
    <3>. QED BY <1>18, <3>1 DEF TypeOK, LocalsOK, LoadPayment, Goto, Finish, Labels, Replies,
       orderLocal, flowLocal
  <2>. QED BY <2>1, <2>2, <2>3 DEF TypeOK
<1>19. CASE ApplyVerdict(r)
  <2>1. DatabaseOK'
    BY <1>19 DEF TypeOK, DatabaseOK, ApplyVerdict, dbVars
  <2>2. WorldOK'
    BY <1>19 DEF TypeOK, WorldOK, ApplyVerdict, worldVars, boundVars, ghostVars
  <2>3. LocalsOK'
    <3>1. ord' \in [Requests -> Entity]
      BY <1>19, ChangedType DEF TypeOK, LocalsOK, ApplyVerdict
    <3>2. pay' \in [Requests -> PaymentEntity]
      BY <1>19, PaymentStatusType DEF TypeOK, LocalsOK, ApplyVerdict, PaymentStatuses
    <3>. QED BY <1>19, <3>1, <3>2 DEF TypeOK, LocalsOK, ApplyVerdict, Goto, Finish, Labels,
       Replies, flowLocal
  <2>. QED BY <2>1, <2>2, <2>3 DEF TypeOK
<1>. QED
  BY <1>1, <1>2, <1>3, <1>4, <1>5, <1>6, <1>7, <1>8, <1>9, <1>10, <1>11, <1>12, <1>13, <1>14,
     <1>15, <1>16, <1>17, <1>18, <1>19 DEF UseCaseStep

\* What any request brings with it when it arrives.
Brings(r, request, first, firstStage) ==
    /\ request \in Request
    /\ first \in Path(request.op) \cap {"customer", "load", "idem_get", "pay_by_key", "pay_load"}
    /\ firstStage = IF request.op = "confirm" THEN "customer" ELSE "start"
    /\ request.op = "add" => request.product \in Products
    /\ first \in {"pay_by_key", "idem_get"} => request.key # Nil
    /\ request.op = "callback" =>
          /\ request.verdict \in Verdicts
          /\ Reported(request.order, request.txn, request.verdict)
          /\ first # "load"
    /\ Receive(r, request, first, firstStage)

\* An entry of the gateway's log.
LEMMA ReportedType ==
  ASSUME TypeOK, NEW o \in Orders, NEW n \in DOMAIN charges[o]
  PROVE  n \in Nat /\ charges[o][n].verdict \in Verdicts
<1>1. charges[o] \in Seq(ChargeRecord)
  BY DEF TypeOK, WorldOK, ChargeRecord
<1>2. n \in Nat /\ charges[o][n] \in ChargeRecord
  BY <1>1
<1>. QED BY <1>2 DEF ChargeRecord

\* Whatever arrives is a request for an order, on the path of its handler.
LEMMA Arrival ==
  ASSUME TypeOK, NEW r \in Requests, Arrive(r)
  PROVE  \E request, first, firstStage : Brings(r, request, first, firstStage)
<1>. USE DEF Brings, Request, NoRequest, OpNames, Path
<1>1. ASSUME NEW o \in Orders, ReceiveCreate(r, o)
      PROVE  \E request, first, firstStage : Brings(r, request, first, firstStage)
  <2>. DEFINE q == [NoRequest EXCEPT !.op = "create", !.order = o]
  <2>1. Brings(r, q, "customer", "start")
    BY <1>1 DEF ReceiveCreate
  <2>. QED BY <2>1
<1>2. ASSUME NEW o \in Orders, NEW p \in Products, ReceiveAddItem(r, o, p)
      PROVE  \E request, first, firstStage : Brings(r, request, first, firstStage)
  <2>. DEFINE q == [NoRequest EXCEPT !.op = "add", !.order = o, !.product = p]
  <2>1. Brings(r, q, "load", "start")
    BY <1>2 DEF ReceiveAddItem
  <2>. QED BY <2>1
<1>3. ASSUME NEW o \in Orders, NEW i \in ItemIds, ReceiveRemoveItem(r, o, i)
      PROVE  \E request, first, firstStage : Brings(r, request, first, firstStage)
  <2>. DEFINE q == [NoRequest EXCEPT !.op = "remove", !.order = o, !.item = i]
  <2>1. Brings(r, q, "load", "start")
    BY <1>3 DEF ReceiveRemoveItem
  <2>. QED BY <2>1
<1>4. ASSUME NEW o \in Orders, NEW k \in Keys \cup {Nil}, ReceiveConfirm(r, o, k)
      PROVE  \E request, first, firstStage : Brings(r, request, first, firstStage)
  <2>. DEFINE q == [NoRequest EXCEPT !.op = "confirm", !.order = o, !.key = k]
  <2>1. Brings(r, q, IF k = Nil THEN "load" ELSE "idem_get", "customer")
    BY <1>4 DEF ReceiveConfirm
  <2>. QED BY <2>1
<1>5. ASSUME NEW o \in Orders, ReceiveCancel(r, o)
      PROVE  \E request, first, firstStage : Brings(r, request, first, firstStage)
  <2>. DEFINE q == [NoRequest EXCEPT !.op = "cancel", !.order = o]
  <2>1. Brings(r, q, "load", "start")
    BY <1>5 DEF ReceiveCancel
  <2>. QED BY <2>1
<1>6. ASSUME NEW o \in Orders, NEW k \in Keys \cup {Nil}, ReceiveInitiate(r, o, k)
      PROVE  \E request, first, firstStage : Brings(r, request, first, firstStage)
  <2>. DEFINE q == [NoRequest EXCEPT !.op = "initiate", !.order = o, !.key = k]
  <2>1. Brings(r, q, IF k = Nil THEN "load" ELSE "pay_by_key", "start")
    BY <1>6 DEF ReceiveInitiate
  <2>. QED BY <2>1
<1>7. ASSUME NEW o \in Orders, NEW k \in Keys \cup {Nil}, NEW n \in DOMAIN charges[o],
             ReceiveCallback(r, o, n, k)
      PROVE  \E request, first, firstStage : Brings(r, request, first, firstStage)
  <2>. DEFINE q == [NoRequest EXCEPT !.op = "callback", !.order = o, !.key = k,
                                     !.verdict = charges[o][n].verdict, !.txn = n]
  <2>1. n \in Nat /\ charges[o][n].verdict \in Verdicts
    BY ReportedType
  <2>2. Reported(o, n, charges[o][n].verdict)
    BY DEF Reported
  <2>3. Brings(r, q, IF k = Nil THEN "pay_load" ELSE "idem_get", "start")
    BY <1>7, <2>1, <2>2 DEF ReceiveCallback
  <2>. QED BY <2>3
<1>. QED
  <2>. USE ONLY Arrive(r) DEF Arrive
  <2>. QED BY <1>1, <1>2, <1>3, <1>4, <1>5, <1>6, <1>7

\* A request that arrives.
LEMMA ArriveType ==
  ASSUME TypeOK, NEW r \in Requests, Arrive(r)
  PROVE  TypeOK'
<1>1. PICK request, first, firstStage : Brings(r, request, first, firstStage)
  BY Arrival
<1>2. first \in Labels /\ firstStage \in Stages
  BY <1>1 DEF Brings, Labels, Stages
<1>3. DatabaseOK'
  BY <1>1 DEF TypeOK, DatabaseOK, Brings, Receive, dbVars
<1>4. WorldOK'
  <2>1. UNCHANGED <<worldVars, crashes, ghostVars>> /\ begun' = begun + 1
    BY <1>1 DEF Brings, Receive
  <2>2. begun' \in Nat
    BY <2>1 DEF TypeOK, WorldOK
  <2>. QED BY <2>1, <2>2 DEF TypeOK, WorldOK, worldVars, ghostVars
<1>5. LocalsOK'
  BY <1>1, <1>2 DEF TypeOK, LocalsOK, Brings, Receive, Replies, orderLocal
<1>. QED BY <1>3, <1>4, <1>5 DEF TypeOK

\* A session that holds nothing.
LEMMA EmptySession ==
  /\ NoEntity \in Entity
  /\ NoPaymentEntity \in PaymentEntity
  /\ NoSaga \in SagaRow
  BY DEF NoEntity, InMemory, NoOrder, Entity, NoPaymentEntity, PaymentEntity, NoSaga, SagaRow

\* Requests that end leave the tables and an empty session behind.
LEMMA EndType ==
  ASSUME TypeOK, NEW S \in SUBSET Requests, EndSessions(S),
         UNCHANGED <<dbVars, worldVars, begun, ghostVars>>, crashes' \in Nat
  PROVE  TypeOK'
<1>1. DatabaseOK'
  BY DEF TypeOK, DatabaseOK, dbVars
<1>2. WorldOK'
  BY DEF TypeOK, WorldOK, worldVars, ghostVars
<1>3. pc' \in [Requests -> Labels] /\ req' \in [Requests -> Request \cup {NoRequest}]
  BY DEF TypeOK, LocalsOK, EndSessions, Labels
<1>4. ord' \in [Requests -> Entity] /\ base' \in [Requests -> Entity] /\ cached' \in [Requests -> BOOLEAN]
  BY EmptySession DEF TypeOK, LocalsOK, EndSessions
<1>5. pay' \in [Requests -> PaymentEntity] /\ sagaRow' \in [Requests -> SagaRow]
  BY EmptySession DEF TypeOK, LocalsOK, EndSessions
<1>6. stage' \in [Requests -> Stages] /\ reply' \in [Requests -> Replies]
  BY DEF TypeOK, LocalsOK, EndSessions, Stages, Replies
<1>7. tries' \in [Requests -> 0 .. MaxGatewayCalls - 1] /\ prev' \in [Requests -> OrderStatuses \cup {Absent}]
  BY DEF TypeOK, LocalsOK, EndSessions, MaxGatewayCalls
<1>. QED BY <1>1, <1>2, <1>3, <1>4, <1>5, <1>6, <1>7 DEF TypeOK, LocalsOK

\* Every step of the service.
LEMMA NextType ==
  ASSUME TypeOK, \A r \in Requests : SessionInv(r), [Next]_vars
  PROVE  TypeOK'
<1>1. ASSUME NEW r \in Requests, Arrive(r) PROVE TypeOK'
  BY <1>1, ArriveType
<1>2. ASSUME NEW r \in Requests, RepositoryStep(r) PROVE TypeOK'
  BY <1>2, RepositoryType
<1>3. ASSUME NEW r \in Requests, UseCaseStep(r) PROVE TypeOK'
  BY <1>3, UseCaseType
<1>4. ASSUME NEW r \in Requests, Respond(r) PROVE TypeOK'
  <2>1. crashes' \in Nat /\ UNCHANGED <<dbVars, worldVars, begun, ghostVars>>
    BY <1>4 DEF Respond, TypeOK, WorldOK, boundVars
  <2>. QED BY <1>4, <2>1, EndType DEF Respond
<1>5. CASE Crash
  <2>1. crashes' \in Nat
    BY <1>5 DEF Crash, TypeOK, WorldOK
  <2>. QED BY <1>5, <2>1, EndType DEF Crash
<1>6. CASE UNCHANGED vars
  <2>1. DatabaseOK'
    BY <1>6 DEF TypeOK, DatabaseOK, vars, dbVars
  <2>2. WorldOK'
    BY <1>6 DEF TypeOK, WorldOK, vars, worldVars, boundVars, ghostVars
  <2>3. LocalsOK'
    BY <1>6 DEF TypeOK, LocalsOK, vars, orderLocal, flowLocal
  <2>. QED BY <2>1, <2>2, <2>3 DEF TypeOK
<1>. QED BY <1>1, <1>2, <1>3, <1>4, <1>5, <1>6 DEF Next, Serve, Quiet

\* The tables an instance starts with, and no request.
LEMMA InitType == Init => TypeOK
<1>. SUFFICES ASSUME Init PROVE TypeOK
  OBVIOUS
<1>. USE ServiceAssumption
<1>1. orders \in [Orders -> Row]
  BY DEF Init, GivenRow, NoOrder, Row, OrderStatuses, Absent
<1>2. items \subseteq ItemRow
  BY DEF Init, GivenItemRow, ItemRow
<1>3. payments \in [Orders -> [status : PaymentStatuses \cup {Absent}, key : Keys \cup {Nil}]]
  BY DEF Init, NoPayment, PaymentStatuses
<1>4. saga \in [Orders -> SagaRow]
  BY DEF Init, NoSaga, SagaRow
<1>5. idem \subseteq [key : Keys, op : {"confirm", "initiate", "callback"}, hash : Hash]
  BY DEF Init
<1>6. outbox \subseteq [order : Orders, type : EventTypes, published : BOOLEAN]
  BY DEF Init
<1>7. DatabaseOK
  BY <1>1, <1>2, <1>3, <1>4, <1>5, <1>6 DEF DatabaseOK
<1>8. \A o \in Orders : GivenEvents(o) \in [EventTypes -> Nat]
  BY DEF GivenEvents
<1>9. queue \in [Orders -> [EventTypes -> Nat]] /\ commits \in [Orders -> [EventTypes -> Nat]]
  BY <1>8 DEF Init
<1>10. charges \in [Orders -> Seq(ChargeRecord)]
  <2>1. RejectedCharge \in ChargeRecord
    BY DEF Verdicts, RejectedCharge, ChargeRecord
  <2>. QED BY <2>1 DEF Init
<1>11. settled \in [Orders -> Seq([txn : Nat, verdict : Verdicts, key : Keys \cup {Nil}])]
  <2>. DEFINE S == [txn : Nat, verdict : Verdicts, key : Keys \cup {Nil}]
  <2>1. Rejection(1) \in S /\ Rejection(2) \in S
    BY DEF Verdicts, Rejection
  <2>2. settled = [o \in Orders |->
                     IF WasRejectedTwice(o) THEN <<Rejection(1), Rejection(2)>> ELSE <<>>]
    BY DEF Init
  <2>. HIDE DEF S
  <2>3. settled \in [Orders -> Seq(S)]
    BY <2>1, <2>2
  <2>. QED BY <2>3 DEF S
<1>12. WorldOK
  BY <1>9, <1>10, <1>11 DEF WorldOK, Init, ChargeRecord
<1>13. LocalsOK
  BY EmptySession DEF Init, LocalsOK, Labels, Stages, Replies, MaxGatewayCalls
<1>. QED BY <1>7, <1>12, <1>13 DEF TypeOK


(***************************************************************************)
(* A step of r does not touch the session of another request.              *)
(***************************************************************************)
Others(r) ==
    \A q \in Requests \ {r} :
        /\ pc'[q] = pc[q] /\ req'[q] = req[q] /\ ord'[q] = ord[q] /\ base'[q] = base[q]
        /\ pay'[q] = pay[q] /\ stage'[q] = stage[q] /\ prev'[q] = prev[q] /\ reply'[q] = reply[q]

\* Round trips of the repositories.
LEMMA RepositoryOthers ==
  ASSUME TypeOK, NEW r \in Requests, RepositoryStep(r)
  PROVE  Others(r)
<1>1. CASE LoadRow(r)
  BY <1>1 DEF TypeOK, LocalsOK, Others, orderLocal, flowLocal, LoadRow, Goto, Finish
<1>2. CASE LoadItems(r)
  BY <1>2 DEF TypeOK, LocalsOK, Others, orderLocal, flowLocal, LoadItems, Goto
<1>3. CASE LoadCached(r)
  BY <1>3 DEF TypeOK, LocalsOK, Others, orderLocal, flowLocal, LoadCached, Goto
<1>4. CASE SaveSelect(r)
  BY <1>4 DEF TypeOK, LocalsOK, Others, orderLocal, flowLocal, SaveSelect, Goto
<1>5. CASE SaveCheck(r)
  BY <1>5 DEF TypeOK, LocalsOK, Others, orderLocal, flowLocal, SaveCheck, CheckVersion, Goto,
     Finish
<1>6. CASE SaveCheckCached(r)
  BY <1>6 DEF TypeOK, LocalsOK, Others, orderLocal, flowLocal, SaveCheckCached, CheckVersion,
     Goto, Finish
<1>7. CASE SaveCommit(r)
  BY <1>7 DEF TypeOK, LocalsOK, Others, orderLocal, flowLocal, SaveCommit, Goto
<1>8. CASE SaveFails(r)
  BY <1>8 DEF TypeOK, LocalsOK, Others, orderLocal, flowLocal, SaveFails, Finish
<1>9. CASE InsertOrder(r)
  BY <1>9 DEF TypeOK, LocalsOK, Others, orderLocal, flowLocal, InsertOrder, Goto
<1>10. CASE PaymentSelect(r)
  BY <1>10 DEF TypeOK, LocalsOK, Others, orderLocal, flowLocal, PaymentSelect, Goto
<1>11. CASE PaymentCommit(r)
  BY <1>11 DEF TypeOK, LocalsOK, Others, orderLocal, flowLocal, PaymentCommit, Goto
<1>12. CASE PaymentInsertFails(r)
  BY <1>12 DEF TypeOK, LocalsOK, Others, orderLocal, flowLocal, PaymentInsertFails, Finish
<1>13. CASE IdemGet(r)
  BY <1>13 DEF TypeOK, LocalsOK, Others, orderLocal, flowLocal, IdemGet, Goto, Finish
<1>14. CASE IdemSave(r)
  BY <1>14 DEF TypeOK, LocalsOK, Others, orderLocal, flowLocal, IdemSave, Finish
<1>15. CASE Send(r)
  BY <1>15 DEF TypeOK, LocalsOK, Others, orderLocal, flowLocal, Send, Goto
<1>16. CASE OutboxCommit(r)
  BY <1>16 DEF TypeOK, LocalsOK, Others, orderLocal, flowLocal, OutboxCommit, Goto
<1>17. CASE Notify(r)
  BY <1>17 DEF TypeOK, LocalsOK, Others, orderLocal, flowLocal, Notify, Goto, Finish
<1>. QED
  BY <1>1, <1>2, <1>3, <1>4, <1>5, <1>6, <1>7, <1>8, <1>9, <1>10, <1>11, <1>12, <1>13, <1>14,
     <1>15, <1>16, <1>17 DEF RepositoryStep

\* Steps of the handlers.
LEMMA UseCaseOthers ==
  ASSUME TypeOK, NEW r \in Requests, UseCaseStep(r)
  PROVE  Others(r)
<1>1. CASE CheckCustomer(r)
  BY <1>1 DEF TypeOK, LocalsOK, Others, orderLocal, flowLocal, CheckCustomer, CustomerAnswers,
     Goto, Finish
<1>2. CASE CheckNoActiveOrder(r)
  BY <1>2 DEF TypeOK, LocalsOK, Others, orderLocal, flowLocal, CheckNoActiveOrder, Goto, Finish
<1>3. CASE AddProduct(r)
  BY <1>3 DEF TypeOK, LocalsOK, Others, orderLocal, flowLocal, AddProduct, Goto, Finish
<1>4. CASE RemoveProduct(r)
  BY <1>4 DEF TypeOK, LocalsOK, Others, orderLocal, flowLocal, RemoveProduct, Goto, Finish
<1>5. CASE SagaSelect(r)
  BY <1>5 DEF TypeOK, LocalsOK, Others, orderLocal, flowLocal, SagaSelect, Goto
<1>6. CASE SagaCommit(r)
  BY <1>6 DEF TypeOK, LocalsOK, Others, orderLocal, flowLocal, SagaCommit, Goto, Finish
<1>7. CASE ValidateCustomer(r)
  BY <1>7 DEF TypeOK, LocalsOK, Others, orderLocal, flowLocal, ValidateCustomer, Goto, Finish,
     FailPhase
<1>8. CASE FetchPrices(r)
  BY <1>8 DEF TypeOK, LocalsOK, Others, orderLocal, flowLocal, FetchPrices, Goto, Finish,
     FailPhase
<1>9. CASE VoidPendingPayment(r)
  BY <1>9 DEF TypeOK, LocalsOK, Others, orderLocal, flowLocal, VoidPendingPayment, Goto
<1>10. CASE ApplyCancel(r)
  BY <1>10 DEF TypeOK, LocalsOK, Others, orderLocal, flowLocal, ApplyCancel, Goto, Finish
<1>11. CASE ReturnPaymentOfKey(r)
  BY <1>11 DEF TypeOK, LocalsOK, Others, orderLocal, flowLocal, ReturnPaymentOfKey, Goto, Finish
<1>12. CASE PreparePayment(r)
  BY <1>12 DEF TypeOK, LocalsOK, Others, orderLocal, flowLocal, PreparePayment, Goto, Finish
<1>13. CASE GatewayAccepts(r)
  BY <1>13 DEF TypeOK, LocalsOK, Others, orderLocal, flowLocal, GatewayAccepts, Goto
<1>14. CASE GatewayUnavailable(r)
  BY <1>14 DEF TypeOK, LocalsOK, Others, orderLocal, flowLocal, GatewayUnavailable
<1>15. CASE GatewayRefuses(r)
  BY <1>15 DEF TypeOK, LocalsOK, Others, orderLocal, flowLocal, GatewayRefuses
<1>16. CASE GatewayLost(r)
  BY <1>16 DEF TypeOK, LocalsOK, Others, orderLocal, flowLocal, GatewayLost, Finish
<1>17. CASE RestorePreviousStatus(r)
  BY <1>17 DEF TypeOK, LocalsOK, Others, orderLocal, flowLocal, RestorePreviousStatus, Goto,
     Finish
<1>18. CASE LoadPayment(r)
  BY <1>18 DEF TypeOK, LocalsOK, Others, orderLocal, flowLocal, LoadPayment, Goto, Finish
<1>19. CASE ApplyVerdict(r)
  BY <1>19 DEF TypeOK, LocalsOK, Others, orderLocal, flowLocal, ApplyVerdict, Goto, Finish
<1>. QED
  BY <1>1, <1>2, <1>3, <1>4, <1>5, <1>6, <1>7, <1>8, <1>9, <1>10, <1>11, <1>12, <1>13, <1>14,
     <1>15, <1>16, <1>17, <1>18, <1>19 DEF UseCaseStep

\* Arrivals.
LEMMA ArriveOthers ==
  ASSUME TypeOK, NEW r \in Requests, Arrive(r)
  PROVE  Others(r)
<1>1. PICK request, first, firstStage : Receive(r, request, first, firstStage)
  BY Arrival DEF Brings
<1>. QED BY <1>1 DEF TypeOK, LocalsOK, Receive, Others, orderLocal

\* Answers.
LEMMA RespondOthers ==
  ASSUME TypeOK, NEW r \in Requests, Respond(r)
  PROVE  Others(r)
  BY DEF TypeOK, LocalsOK, Respond, EndSessions, Others

(***************************************************************************)
(* What was committed or reported stays so.                                *)
(***************************************************************************)
Grows ==
    \A o \in Orders :
        /\ EverConfirmed(o) => EverConfirmed(o)'
        /\ Approved(o) => Approved(o)'
        /\ \A n, v : Reported(o, n, v) => Reported(o, n, v)'

Still == UNCHANGED <<commits, settled, charges>>

\* In particular when nothing is committed or reported.
LEMMA StillGrows == Still => Grows
  BY DEF Still, Grows, EverConfirmed, Approved, Reported

\* Events are only ever counted upwards.
LEMMA BumpGrows ==
  ASSUME TypeOK, NEW r \in Requests, req[r].order \in Orders,
         commits' = Bump(commits, r) \/ UNCHANGED commits
  PROVE  \A o \in Orders : EverConfirmed(o) => EverConfirmed(o)'
<1>1. commits \in [Orders -> [EventTypes -> Nat]] /\ "ORDER_CONFIRMED" \in EventTypes
  BY DEF TypeOK, WorldOK, EventTypes
<1>. QED BY <1>1, EventOfType DEF Bump, EverConfirmed

\* A longer log holds every entry of the shorter one.
LEMMA AppendKeeps ==
  ASSUME NEW S, NEW s \in Seq(S), NEW e \in S
  PROVE  \A i \in DOMAIN s : i \in DOMAIN Append(s, e) /\ Append(s, e)[i] = s[i]
  OBVIOUS

\* The gateway forgets no charge.
LEMMA ChargeKeeps ==
  ASSUME TypeOK, NEW r \in Requests, SessionInv(r), pc[r] = "gateway", ChargesOnce(r)
  PROVE  \A o \in Orders : \A n, v : Reported(o, n, v) => Reported(o, n, v)'
<1>. DEFINE C == ChargeRecord
<1>1. charges \in [Orders -> Seq(C)] /\ req[r].order \in Orders /\ req[r].key \in Keys \cup {Nil}
  BY RequestType DEF TypeOK, WorldOK, ChargeRecord
<1>2. ASSUME NEW verdict \in Verdicts, NEW hidden \in BOOLEAN, NEW o \in Orders,
             charges' = [charges EXCEPT ![req[r].order] =
                            Append(@, [verdict |-> verdict, key |-> req[r].key, hidden |-> hidden])]
      PROVE  \A n \in DOMAIN charges[o] : n \in DOMAIN charges'[o] /\ charges'[o][n] = charges[o][n]
  <2>. DEFINE c == [verdict |-> verdict, key |-> req[r].key, hidden |-> hidden]
  <2>1. c \in C
    BY <1>1 DEF ChargeRecord
  <2>. HIDE DEF C, c
  <2>2. \A n \in DOMAIN charges[o] : n \in DOMAIN Append(charges[o], c) /\ Append(charges[o], c)[n] = charges[o][n]
    BY <1>1, <2>1, AppendKeeps
  <2>3. charges' = [charges EXCEPT ![req[r].order] = Append(@, c)]
    BY <1>2 DEF c
  <2>. QED BY <1>1, <2>2, <2>3
<1>. QED BY <1>2 DEF ChargesOnce, TakeCharge, Reported

\* So a call of the gateway keeps what was reported.
LEMMA ChargeGrows ==
  ASSUME TypeOK, NEW r \in Requests, SessionInv(r), Calls(r)
  PROVE  Grows
<1>1. UNCHANGED <<commits, settled>> /\ pc[r] = "gateway" /\ ChargesOnce(r)
  BY CallCharges DEF ghostVars
<1>2. \A o \in Orders : \A n, v : Reported(o, n, v) => Reported(o, n, v)'
  BY <1>1, ChargeKeeps
<1>. QED BY <1>1, <1>2 DEF Grows, EverConfirmed, Approved

\* A verdict that was committed stays in the log of its order.
LEMMA SettledKeeps ==
  ASSUME TypeOK, NEW r \in Requests, SessionInv(r), PaymentCommit(r), NEW o \in Orders
  PROVE  \A i \in DOMAIN settled[o] : i \in DOMAIN settled'[o] /\ settled'[o][i] = settled[o][i]
<1>. DEFINE S == [txn : Nat, verdict : Verdicts, key : Keys \cup {Nil}]
            s == [txn |-> req[r].txn, verdict |-> req[r].verdict, key |-> req[r].key]
<1>1. settled \in [Orders -> Seq(S)] /\ pay[r].order \in Orders
  BY OwnPayment DEF TypeOK, WorldOK, PaymentCommit
<1>2. CASE req[r].op = "callback"
  <2>1. s \in S
    BY <1>2, RequestType DEF PaymentCommit
  <2>2. settled' = [settled EXCEPT ![pay[r].order] = Append(@, s)]
    BY <1>2 DEF PaymentCommit
  <2>. HIDE DEF S, s
  <2>3. \A i \in DOMAIN settled[o] : i \in DOMAIN Append(settled[o], s) /\ Append(settled[o], s)[i] = settled[o][i]
    BY <1>1, <2>1, AppendKeeps
  <2>. QED BY <1>1, <2>2, <2>3
<1>3. CASE req[r].op # "callback"
  BY <1>3 DEF PaymentCommit
<1>. QED BY <1>2, <1>3

\* Round trips of the repositories.
LEMMA RepositoryGrows ==
  ASSUME TypeOK, NEW r \in Requests, SessionInv(r), RepositoryStep(r)
  PROVE  Grows
<1>1. CASE LoadRow(r)
  BY <1>1, StillGrows DEF Still, ghostVars, worldVars, LoadRow, Goto, Finish
<1>2. CASE LoadItems(r)
  BY <1>2, StillGrows DEF Still, ghostVars, worldVars, LoadItems, Goto
<1>3. CASE LoadCached(r)
  BY <1>3, StillGrows DEF Still, ghostVars, worldVars, LoadCached, Goto
<1>4. CASE SaveSelect(r)
  BY <1>4, StillGrows DEF Still, ghostVars, worldVars, SaveSelect, Goto
<1>5. CASE SaveCheck(r)
  BY <1>5, StillGrows DEF Still, ghostVars, worldVars, SaveCheck, CheckVersion, Goto, Finish
<1>6. CASE SaveCheckCached(r)
  BY <1>6, StillGrows DEF Still, ghostVars, worldVars, SaveCheckCached, CheckVersion, Goto,
     Finish
<1>7. CASE SaveCommit(r)
  <2>1. req[r].order \in Orders
    BY <1>7, RequestType DEF SaveCommit
  <2>2. commits' = Bump(commits, r) \/ UNCHANGED commits
    BY <1>7 DEF SaveCommit
  <2>3. UNCHANGED <<settled, charges>>
    BY <1>7 DEF SaveCommit, worldVars
  <2>. QED BY <2>1, <2>2, <2>3, BumpGrows DEF Grows, Approved, Reported
<1>8. CASE SaveFails(r)
  BY <1>8, StillGrows DEF Still, ghostVars, worldVars, SaveFails, Finish
<1>9. CASE InsertOrder(r)
  BY <1>9, StillGrows DEF Still, ghostVars, worldVars, InsertOrder, Goto
<1>10. CASE PaymentSelect(r)
  BY <1>10, StillGrows DEF Still, ghostVars, worldVars, PaymentSelect, Goto
<1>11. CASE PaymentCommit(r)
  <2>1. req[r].order \in Orders /\ pay[r].order \in Orders
    BY <1>11, RequestType, OwnPayment DEF PaymentCommit
  <2>2. commits' = Bump(commits, r) \/ UNCHANGED commits
    BY <1>11 DEF PaymentCommit
  <2>3. UNCHANGED charges
    BY <1>11 DEF PaymentCommit, worldVars
  <2>4. \A o \in Orders : Approved(o) => Approved(o)'
    <3>1. SUFFICES ASSUME NEW o \in Orders, Approved(o) PROVE Approved(o)'
      OBVIOUS
    <3>2. PICK i \in DOMAIN settled[o] :
            settled[o][i].verdict = "APPROVED" /\ Reported(o, settled[o][i].txn, "APPROVED")
      BY <3>1 DEF Approved
    <3>3. i \in DOMAIN settled'[o] /\ settled'[o][i] = settled[o][i]
      BY <1>11, SettledKeeps
    <3>4. Reported(o, settled[o][i].txn, "APPROVED")'
      BY <2>3, <3>2, <3>3 DEF Reported
    <3>. QED BY <3>2, <3>3, <3>4 DEF Approved
  <2>. QED BY <2>1, <2>2, <2>3, <2>4, BumpGrows DEF Grows, Reported
<1>12. CASE PaymentInsertFails(r)
  BY <1>12, StillGrows DEF Still, ghostVars, worldVars, PaymentInsertFails, Finish
<1>13. CASE IdemGet(r)
  BY <1>13, StillGrows DEF Still, ghostVars, worldVars, IdemGet, Goto, Finish
<1>14. CASE IdemSave(r)
  BY <1>14, StillGrows DEF Still, ghostVars, worldVars, IdemSave, Finish
<1>15. CASE Send(r)
  BY <1>15, StillGrows DEF Still, ghostVars, worldVars, Send, Goto
<1>16. CASE OutboxCommit(r)
  BY <1>16, StillGrows DEF Still, ghostVars, worldVars, OutboxCommit, Goto
<1>17. CASE Notify(r)
  BY <1>17, StillGrows DEF Still, ghostVars, worldVars, Notify, Goto, Finish
<1>. QED
  BY <1>1, <1>2, <1>3, <1>4, <1>5, <1>6, <1>7, <1>8, <1>9, <1>10, <1>11, <1>12, <1>13, <1>14,
     <1>15, <1>16, <1>17 DEF RepositoryStep

\* Steps of the handlers.
LEMMA UseCaseGrows ==
  ASSUME TypeOK, NEW r \in Requests, SessionInv(r), UseCaseStep(r)
  PROVE  Grows
<1>1. CASE CheckCustomer(r)
  BY <1>1, StillGrows DEF Still, ghostVars, worldVars, CheckCustomer, CustomerAnswers, Goto,
     Finish
<1>2. CASE CheckNoActiveOrder(r)
  BY <1>2, StillGrows DEF Still, ghostVars, worldVars, CheckNoActiveOrder, Goto, Finish
<1>3. CASE AddProduct(r)
  BY <1>3, StillGrows DEF Still, ghostVars, worldVars, AddProduct, Goto, Finish
<1>4. CASE RemoveProduct(r)
  BY <1>4, StillGrows DEF Still, ghostVars, worldVars, RemoveProduct, Goto, Finish
<1>5. CASE SagaSelect(r)
  BY <1>5, StillGrows DEF Still, ghostVars, worldVars, SagaSelect, Goto
<1>6. CASE SagaCommit(r)
  BY <1>6, StillGrows DEF Still, ghostVars, worldVars, SagaCommit, Goto, Finish
<1>7. CASE ValidateCustomer(r)
  BY <1>7, StillGrows DEF Still, ghostVars, worldVars, ValidateCustomer, Goto, Finish, FailPhase
<1>8. CASE FetchPrices(r)
  BY <1>8, StillGrows DEF Still, ghostVars, worldVars, FetchPrices, Goto, Finish, FailPhase
<1>9. CASE VoidPendingPayment(r)
  BY <1>9, StillGrows DEF Still, ghostVars, worldVars, VoidPendingPayment, Goto
<1>10. CASE ApplyCancel(r)
  BY <1>10, StillGrows DEF Still, ghostVars, worldVars, ApplyCancel, Goto, Finish
<1>11. CASE ReturnPaymentOfKey(r)
  BY <1>11, StillGrows DEF Still, ghostVars, worldVars, ReturnPaymentOfKey, Goto, Finish
<1>12. CASE PreparePayment(r)
  BY <1>12, StillGrows DEF Still, ghostVars, worldVars, PreparePayment, Goto, Finish
<1>13. CASE GatewayAccepts(r)
  BY <1>13, ChargeGrows DEF Calls
<1>14. CASE GatewayUnavailable(r)
  BY <1>14, ChargeGrows DEF Calls
<1>15. CASE GatewayRefuses(r)
  BY <1>15, ChargeGrows DEF Calls
<1>16. CASE GatewayLost(r)
  BY <1>16, ChargeGrows DEF Calls
<1>17. CASE RestorePreviousStatus(r)
  BY <1>17, StillGrows DEF Still, ghostVars, worldVars, RestorePreviousStatus, Goto, Finish
<1>18. CASE LoadPayment(r)
  BY <1>18, StillGrows DEF Still, ghostVars, worldVars, LoadPayment, Goto, Finish
<1>19. CASE ApplyVerdict(r)
  BY <1>19, StillGrows DEF Still, ghostVars, worldVars, ApplyVerdict, Goto, Finish
<1>. QED
  BY <1>1, <1>2, <1>3, <1>4, <1>5, <1>6, <1>7, <1>8, <1>9, <1>10, <1>11, <1>12, <1>13, <1>14,
     <1>15, <1>16, <1>17, <1>18, <1>19 DEF UseCaseStep

\* Every step of the service.
LEMMA NextGrows ==
  ASSUME TypeOK, \A r \in Requests : SessionInv(r), [Next]_vars
  PROVE  Grows
<1>1. ASSUME NEW r \in Requests, Arrive(r) PROVE Grows
  <2>1. PICK request, first, firstStage : Receive(r, request, first, firstStage)
    BY <1>1, Arrival DEF Brings
  <2>. QED BY <2>1, StillGrows DEF Receive, Still, worldVars, ghostVars
<1>2. ASSUME NEW r \in Requests, RepositoryStep(r) PROVE Grows
  BY <1>2, RepositoryGrows
<1>3. ASSUME NEW r \in Requests, UseCaseStep(r) PROVE Grows
  BY <1>3, UseCaseGrows
<1>4. ASSUME NEW r \in Requests, Respond(r) PROVE Grows
  BY <1>4, StillGrows DEF Respond, Still, worldVars, ghostVars
<1>5. CASE Crash
  BY <1>5, StillGrows DEF Crash, Still, worldVars, ghostVars
<1>6. CASE UNCHANGED vars
  BY <1>6, StillGrows DEF vars, Still, worldVars, ghostVars
<1>. QED BY <1>1, <1>2, <1>3, <1>4, <1>5, <1>6 DEF Next, Serve, Quiet

(***************************************************************************)
(* So what holds of the other sessions keeps holding.                      *)
(***************************************************************************)
LEMMA OthersKept ==
  ASSUME TypeOK, TypeOK', NEW r \in Requests, Others(r), Grows, NEW q \in Requests \ {r}, SessionInv(q)
  PROVE  SessionInv(q)'
<1>. USE DEF Others, Grows
<1>1. IdleOK(q)'
  BY DEF SessionInv, IdleOK
<1>2. RequestOK(q)'
  BY DEF SessionInv, RequestOK, Request
<1>3. PaymentOK(q)'
  BY DEF SessionInv, PaymentOK
<1>4. ConfirmationSeen(q)'
  BY DEF SessionInv, RequestOK, Request, ConfirmationSeen
<1>5. SagaPhase(q)'
  BY DEF SessionInv, RequestOK, Request, SagaPhase
<1>6. ApprovalSeen(q)'
  BY DEF SessionInv, RequestOK, Request, ApprovalSeen
<1>. QED BY <1>1, <1>2, <1>3, <1>4, <1>5, <1>6 DEF SessionInv

(***************************************************************************)
(* What a request knows of its order stays true when it takes a step.      *)
(***************************************************************************)

\* The status after each change an entity undergoes.
LEMMA StatusOf ==
  ASSUME NEW o \in Entity
  PROVE  /\ NextVersion(o) \in Entity /\ NextVersion(o).status = o.status
         /\ CancelOrder(o).status = "CANCELLED"
         /\ MarkPaymentPending(o).status = "PAYMENT_PENDING"
         /\ ApplyApproved(o).status = "PAID"
         /\ ApplyRejected(o).status \in {"CANCELLED", "PAYMENT_FAILED"}
         /\ \A s : RestoreStatus(o, s).status = s
         /\ \A id : RemoveItemFrom(o, id).status = o.status
         /\ \A prices : ConfirmWithPrices(o, prices).status = "CONFIRMED"
         /\ \A rows : [o EXCEPT !.items = rows].status = o.status
         /\ \A item : \A added \in AddItemTo(o, item) : added.status = o.status
<1>1. NextVersion(o) \in Entity
  BY ChangedType
<1>2. ApplyRejected(o).status \in {"CANCELLED", "PAYMENT_FAILED"}
  BY DEF ApplyRejected, RejectedStatus, Entity
<1>3. ASSUME NEW item, NEW added \in AddItemTo(o, item) PROVE added.status = o.status
  BY <1>3 DEF AddItemTo, Entity
<1>4. ASSUME NEW prices PROVE ConfirmWithPrices(o, prices).status = "CONFIRMED"
  <2>1. \A items1, total1 :
           [o EXCEPT !.items = items1, !.total = total1, !.status = "CONFIRMED"].status = "CONFIRMED"
    BY DEF Entity
  <2>. QED BY <2>1 DEF ConfirmWithPrices
<1>5. NextVersion(o).status = o.status
  BY DEF NextVersion, Entity
<1>6. /\ CancelOrder(o).status = "CANCELLED"
      /\ MarkPaymentPending(o).status = "PAYMENT_PENDING"
      /\ ApplyApproved(o).status = "PAID"
  BY DEF CancelOrder, MarkPaymentPending, ApplyApproved, Entity
<1>7. /\ \A s : RestoreStatus(o, s).status = s
      /\ \A id : RemoveItemFrom(o, id).status = o.status
      /\ \A rows : [o EXCEPT !.items = rows].status = o.status
  BY DEF RestoreStatus, RemoveItemFrom, Entity
<1>. QED BY <1>1, <1>2, <1>3, <1>4, <1>5, <1>6, <1>7

\* The changes that also raise the version.
LEMMA StatusOfNext ==
  ASSUME NEW o \in Entity
  PROVE  /\ \A item : \A added \in AddItemTo(NextVersion(o), item) : added.status = o.status
         /\ \A id : RemoveItemFrom(NextVersion(o), id).status = o.status
         /\ \A prices : ConfirmWithPrices(NextVersion(o), prices).status = "CONFIRMED"
         /\ \A s : RestoreStatus(NextVersion(o), s).status = s
<1>. DEFINE n == NextVersion(o)
<1>1. n \in Entity /\ n.status = o.status
  BY StatusOf
<1>. HIDE DEF n
<1>2. /\ \A item : \A added \in AddItemTo(n, item) : added.status = o.status
      /\ \A id : RemoveItemFrom(n, id).status = o.status
      /\ \A prices : ConfirmWithPrices(n, prices).status = "CONFIRMED"
      /\ \A s : RestoreStatus(n, s).status = s
  BY <1>1, StatusOf
<1>. QED BY <1>2 DEF n

\* An entity built from a row has its status.
LEMMA StatusInMemory == \A row, rows : InMemory(row, rows).status = row.status
  BY DEF InMemory

\* Committing a confirmation makes its order one that was confirmed.
LEMMA ConfirmationCommitted ==
  ASSUME TypeOK, NEW r \in Requests, req[r].order \in Orders, req[r].op = "confirm",
         commits' = Bump(commits, r), UNCHANGED req
  PROVE  EverConfirmed(req[r].order)'
<1>1. commits \in [Orders -> [EventTypes -> Nat]]
  BY DEF TypeOK, WorldOK
<1>2. EventOf(r) = "ORDER_CONFIRMED"
  BY DEF EventOf, EventFor
<1>3. commits'[req[r].order]["ORDER_CONFIRMED"] = commits[req[r].order]["ORDER_CONFIRMED"] + 1
  <2>1. "ORDER_CONFIRMED" \in EventTypes
    BY DEF EventTypes
  <2>2. commits[req[r].order] \in [EventTypes -> Nat]
    BY <1>1
  <2>. HIDE DEF EventTypes
  <2>. QED BY <1>1, <1>2, <2>1, <2>2 DEF Bump
<1>. QED BY <1>1, <1>3 DEF EverConfirmed, EventTypes

\* Committing an approval makes its order one that was paid for.
LEMMA ApprovalCommitted ==
  ASSUME TypeOK, NEW r \in Requests, SessionInv(r), PaymentCommit(r),
         req[r].op = "callback", req[r].verdict = "APPROVED"
  PROVE  Approved(req[r].order)'
<1>. DEFINE S == [txn : Nat, verdict : Verdicts, key : Keys \cup {Nil}]
            s == [txn |-> req[r].txn, verdict |-> req[r].verdict, key |-> req[r].key]
            o == req[r].order
<1>1. s \in S /\ o \in Orders /\ s.txn = req[r].txn /\ s.verdict = "APPROVED"
  BY RequestType DEF PaymentCommit
<1>2. pay[r].order = o
  BY DEF SessionInv, PaymentOK, PaymentCommit
<1>3. settled[o] \in Seq(S)
  BY <1>1 DEF TypeOK, WorldOK
<1>4. settled' = [settled EXCEPT ![o] = Append(@, s)]
  BY <1>2 DEF PaymentCommit
<1>5. UNCHANGED <<req, charges>>
  BY DEF PaymentCommit, worldVars
<1>6. Reported(o, s.txn, "APPROVED")
  BY <1>1 DEF SessionInv, RequestOK, PaymentCommit
<1>. DEFINE n == Len(settled[o]) + 1
<1>. HIDE DEF S, s
<1>7. n \in DOMAIN Append(settled[o], s) /\ Append(settled[o], s)[n] = s
  BY <1>1, <1>3
<1>8. settled'[o] = Append(settled[o], s)
  BY <1>1, <1>4 DEF TypeOK, WorldOK
<1>. HIDE DEF n
<1>. QED BY <1>1, <1>5, <1>6, <1>7, <1>8 DEF Approved, Reported

\* The payment a handler looks up, changes or opens.
LEMMA PaymentOf ==
  /\ \A o : StoredPayment(o).order = o /\ StoredPayment(o).status = payments[o].status
  /\ \A p \in PaymentEntity : \A s :
        SetPaymentStatus(p, s).order = p.order /\ SetPaymentStatus(p, s).status = s
  BY DEF StoredPayment, SetPaymentStatus, PaymentEntity

\* The request stays on the path of its handler.
LEMMA RepositoryRequest ==
  ASSUME TypeOK, NEW r \in Requests, SessionInv(r), Grows, RepositoryStep(r)
  PROVE  pc'[r] # "idle" /\ RequestOK(r)'
<1>1. CASE LoadRow(r)
  BY <1>1 DEF TypeOK, LocalsOK, SessionInv, RequestOK, Path, Request, OpNames, Grows,
     orderLocal, flowLocal, LoadRow, Goto, Finish
<1>2. CASE LoadItems(r)
  BY <1>2 DEF TypeOK, LocalsOK, SessionInv, RequestOK, Path, Request, OpNames, Grows,
     orderLocal, flowLocal, LoadItems, Goto, AfterLoad
<1>3. CASE LoadCached(r)
  BY <1>3 DEF TypeOK, LocalsOK, SessionInv, RequestOK, Path, Request, OpNames, Grows,
     orderLocal, flowLocal, LoadCached, Goto, AfterLoad
<1>4. CASE SaveSelect(r)
  BY <1>4 DEF TypeOK, LocalsOK, SessionInv, RequestOK, Path, Request, OpNames, Grows,
     orderLocal, flowLocal, SaveSelect, Goto
<1>5. CASE SaveCheck(r)
  BY <1>5 DEF TypeOK, LocalsOK, SessionInv, RequestOK, Path, Request, OpNames, Grows,
     orderLocal, flowLocal, SaveCheck, CheckVersion, Goto, Finish
<1>6. CASE SaveCheckCached(r)
  BY <1>6 DEF TypeOK, LocalsOK, SessionInv, RequestOK, Path, Request, OpNames, Grows,
     orderLocal, flowLocal, SaveCheckCached, CheckVersion, Goto, Finish
<1>7. CASE SaveCommit(r)
  BY <1>7 DEF TypeOK, LocalsOK, SessionInv, RequestOK, Path, Request, OpNames, Grows,
     orderLocal, flowLocal, SaveCommit, Goto, AfterOrderSave
<1>8. CASE SaveFails(r)
  BY <1>8 DEF TypeOK, LocalsOK, SessionInv, RequestOK, Path, Request, OpNames, Grows,
     orderLocal, flowLocal, SaveFails, Finish
<1>9. CASE InsertOrder(r)
  BY <1>9 DEF TypeOK, LocalsOK, SessionInv, RequestOK, Path, Request, OpNames, Grows,
     orderLocal, flowLocal, InsertOrder, Goto, AfterOrderSave
<1>10. CASE PaymentSelect(r)
  BY <1>10 DEF TypeOK, LocalsOK, SessionInv, RequestOK, Path, Request, OpNames, Grows,
     orderLocal, flowLocal, PaymentSelect, Goto
<1>11. CASE PaymentCommit(r)
  BY <1>11 DEF TypeOK, LocalsOK, SessionInv, RequestOK, Path, Request, OpNames, Grows,
     orderLocal, flowLocal, PaymentCommit, Goto, AfterPaymentSave
<1>12. CASE PaymentInsertFails(r)
  BY <1>12 DEF TypeOK, LocalsOK, SessionInv, RequestOK, Path, Request, OpNames, Grows,
     orderLocal, flowLocal, PaymentInsertFails, Finish
<1>13. CASE IdemGet(r)
  BY <1>13 DEF TypeOK, LocalsOK, SessionInv, RequestOK, Path, Request, OpNames, Grows,
     orderLocal, flowLocal, IdemGet, Goto, Finish, AfterLookup
<1>14. CASE IdemSave(r)
  BY <1>14 DEF TypeOK, LocalsOK, SessionInv, RequestOK, Path, Request, OpNames, Grows,
     orderLocal, flowLocal, IdemSave, Finish
<1>15. CASE Send(r)
  BY <1>15 DEF TypeOK, LocalsOK, SessionInv, RequestOK, Path, Request, OpNames, Grows,
     orderLocal, flowLocal, Send, Goto
<1>16. CASE OutboxCommit(r)
  BY <1>16 DEF TypeOK, LocalsOK, SessionInv, RequestOK, Path, Request, OpNames, Grows,
     orderLocal, flowLocal, OutboxCommit, Goto, AfterPublish, Conclude
<1>17. CASE Notify(r)
  BY <1>17 DEF TypeOK, LocalsOK, SessionInv, RequestOK, Path, Request, OpNames, Grows,
     orderLocal, flowLocal, Notify, Goto, Finish, Conclude
<1>. QED
  BY <1>1, <1>2, <1>3, <1>4, <1>5, <1>6, <1>7, <1>8, <1>9, <1>10, <1>11, <1>12, <1>13, <1>14,
     <1>15, <1>16, <1>17 DEF RepositoryStep

\* The same for the steps of the handlers.
LEMMA UseCaseRequest ==
  ASSUME TypeOK, NEW r \in Requests, SessionInv(r), Grows, UseCaseStep(r)
  PROVE  pc'[r] # "idle" /\ RequestOK(r)'
<1>1. CASE CheckCustomer(r)
  BY <1>1 DEF TypeOK, LocalsOK, SessionInv, RequestOK, Path, Request, OpNames, Grows,
     orderLocal, flowLocal, CheckCustomer, CustomerAnswers, Goto, Finish
<1>2. CASE CheckNoActiveOrder(r)
  BY <1>2 DEF TypeOK, LocalsOK, SessionInv, RequestOK, Path, Request, OpNames, Grows,
     orderLocal, flowLocal, CheckNoActiveOrder, Goto, Finish
<1>3. CASE AddProduct(r)
  BY <1>3 DEF TypeOK, LocalsOK, SessionInv, RequestOK, Path, Request, OpNames, Grows,
     orderLocal, flowLocal, AddProduct, Goto, Finish
<1>4. CASE RemoveProduct(r)
  BY <1>4 DEF TypeOK, LocalsOK, SessionInv, RequestOK, Path, Request, OpNames, Grows,
     orderLocal, flowLocal, RemoveProduct, Goto, Finish
<1>5. CASE SagaSelect(r)
  BY <1>5 DEF TypeOK, LocalsOK, SessionInv, RequestOK, Path, Request, OpNames, Grows,
     orderLocal, flowLocal, SagaSelect, Goto
<1>6. CASE SagaCommit(r)
  BY <1>6 DEF TypeOK, LocalsOK, SessionInv, RequestOK, Path, Request, OpNames, Grows,
     orderLocal, flowLocal, SagaCommit, Goto, Finish, AfterSagaSave
<1>7. CASE ValidateCustomer(r)
  BY <1>7 DEF TypeOK, LocalsOK, SessionInv, RequestOK, Path, Request, OpNames, Grows,
     orderLocal, flowLocal, ValidateCustomer, Goto, Finish, FailPhase
<1>8. CASE FetchPrices(r)
  BY <1>8 DEF TypeOK, LocalsOK, SessionInv, RequestOK, Path, Request, OpNames, Grows,
     orderLocal, flowLocal, FetchPrices, Goto, Finish, FailPhase
<1>9. CASE VoidPendingPayment(r)
  BY <1>9 DEF TypeOK, LocalsOK, SessionInv, RequestOK, Path, Request, OpNames, Grows,
     orderLocal, flowLocal, VoidPendingPayment, Goto
<1>10. CASE ApplyCancel(r)
  BY <1>10 DEF TypeOK, LocalsOK, SessionInv, RequestOK, Path, Request, OpNames, Grows,
     orderLocal, flowLocal, ApplyCancel, Goto, Finish
<1>11. CASE ReturnPaymentOfKey(r)
  BY <1>11 DEF TypeOK, LocalsOK, SessionInv, RequestOK, Path, Request, OpNames, Grows,
     orderLocal, flowLocal, ReturnPaymentOfKey, Goto, Finish
<1>12. CASE PreparePayment(r)
  BY <1>12 DEF TypeOK, LocalsOK, SessionInv, RequestOK, Path, Request, OpNames, Grows,
     orderLocal, flowLocal, PreparePayment, Goto, Finish
<1>13. CASE GatewayAccepts(r)
  BY <1>13 DEF TypeOK, LocalsOK, SessionInv, RequestOK, Path, Request, OpNames, Grows,
     orderLocal, flowLocal, GatewayAccepts, Goto
<1>14. CASE GatewayUnavailable(r)
  BY <1>14 DEF TypeOK, LocalsOK, SessionInv, RequestOK, Path, Request, OpNames, Grows,
     orderLocal, flowLocal, GatewayUnavailable
<1>15. CASE GatewayRefuses(r)
  BY <1>15 DEF TypeOK, LocalsOK, SessionInv, RequestOK, Path, Request, OpNames, Grows,
     orderLocal, flowLocal, GatewayRefuses
<1>16. CASE GatewayLost(r)
  BY <1>16 DEF TypeOK, LocalsOK, SessionInv, RequestOK, Path, Request, OpNames, Grows,
     orderLocal, flowLocal, GatewayLost, Finish
<1>17. CASE RestorePreviousStatus(r)
  BY <1>17 DEF TypeOK, LocalsOK, SessionInv, RequestOK, Path, Request, OpNames, Grows,
     orderLocal, flowLocal, RestorePreviousStatus, Goto, Finish
<1>18. CASE LoadPayment(r)
  BY <1>18 DEF TypeOK, LocalsOK, SessionInv, RequestOK, Path, Request, OpNames, Grows,
     orderLocal, flowLocal, LoadPayment, Goto, Finish
<1>19. CASE ApplyVerdict(r)
  BY <1>19 DEF TypeOK, LocalsOK, SessionInv, RequestOK, Path, Request, OpNames, Grows,
     orderLocal, flowLocal, ApplyVerdict, Goto, Finish
<1>. QED
  BY <1>1, <1>2, <1>3, <1>4, <1>5, <1>6, <1>7, <1>8, <1>9, <1>10, <1>11, <1>12, <1>13, <1>14,
     <1>15, <1>16, <1>17, <1>18, <1>19 DEF UseCaseStep

\* The payment in hand is the payment of the order.
LEMMA RepositoryPayment ==
  ASSUME TypeOK, NEW r \in Requests, SessionInv(r), Grows, RepositoryStep(r)
  PROVE  PaymentOK(r)'
<1>1. CASE LoadRow(r)
  BY <1>1 DEF TypeOK, LocalsOK, SessionInv, PaymentOK, RequestOK, Path, Request, OpNames,
     orderLocal, flowLocal, LoadRow, Goto, Finish
<1>2. CASE LoadItems(r)
  BY <1>2 DEF TypeOK, LocalsOK, SessionInv, PaymentOK, RequestOK, Path, Request, OpNames,
     orderLocal, flowLocal, LoadItems, Goto, AfterLoad
<1>3. CASE LoadCached(r)
  BY <1>3 DEF TypeOK, LocalsOK, SessionInv, PaymentOK, RequestOK, Path, Request, OpNames,
     orderLocal, flowLocal, LoadCached, Goto, AfterLoad
<1>4. CASE SaveSelect(r)
  BY <1>4 DEF TypeOK, LocalsOK, SessionInv, PaymentOK, RequestOK, Path, Request, OpNames,
     orderLocal, flowLocal, SaveSelect, Goto
<1>5. CASE SaveCheck(r)
  BY <1>5 DEF TypeOK, LocalsOK, SessionInv, PaymentOK, RequestOK, Path, Request, OpNames,
     orderLocal, flowLocal, SaveCheck, CheckVersion, Goto, Finish
<1>6. CASE SaveCheckCached(r)
  BY <1>6 DEF TypeOK, LocalsOK, SessionInv, PaymentOK, RequestOK, Path, Request, OpNames,
     orderLocal, flowLocal, SaveCheckCached, CheckVersion, Goto, Finish
<1>7. CASE SaveCommit(r)
  BY <1>7 DEF TypeOK, LocalsOK, SessionInv, PaymentOK, RequestOK, Path, Request, OpNames,
     orderLocal, flowLocal, SaveCommit, Goto, AfterOrderSave
<1>8. CASE SaveFails(r)
  BY <1>8 DEF TypeOK, LocalsOK, SessionInv, PaymentOK, RequestOK, Path, Request, OpNames,
     orderLocal, flowLocal, SaveFails, Finish
<1>9. CASE InsertOrder(r)
  BY <1>9 DEF TypeOK, LocalsOK, SessionInv, PaymentOK, RequestOK, Path, Request, OpNames,
     orderLocal, flowLocal, InsertOrder, Goto, AfterOrderSave
<1>10. CASE PaymentSelect(r)
  BY <1>10 DEF TypeOK, LocalsOK, SessionInv, PaymentOK, RequestOK, Path, Request, OpNames,
     orderLocal, flowLocal, PaymentSelect, Goto
<1>11. CASE PaymentCommit(r)
  BY <1>11 DEF TypeOK, LocalsOK, SessionInv, PaymentOK, RequestOK, Path, Request, OpNames,
     orderLocal, flowLocal, PaymentCommit, Goto, AfterPaymentSave
<1>12. CASE PaymentInsertFails(r)
  BY <1>12 DEF TypeOK, LocalsOK, SessionInv, PaymentOK, RequestOK, Path, Request, OpNames,
     orderLocal, flowLocal, PaymentInsertFails, Finish
<1>13. CASE IdemGet(r)
  BY <1>13 DEF TypeOK, LocalsOK, SessionInv, PaymentOK, RequestOK, Path, Request, OpNames,
     orderLocal, flowLocal, IdemGet, Goto, Finish, AfterLookup
<1>14. CASE IdemSave(r)
  BY <1>14 DEF TypeOK, LocalsOK, SessionInv, PaymentOK, RequestOK, Path, Request, OpNames,
     orderLocal, flowLocal, IdemSave, Finish
<1>15. CASE Send(r)
  BY <1>15 DEF TypeOK, LocalsOK, SessionInv, PaymentOK, RequestOK, Path, Request, OpNames,
     orderLocal, flowLocal, Send, Goto
<1>16. CASE OutboxCommit(r)
  BY <1>16 DEF TypeOK, LocalsOK, SessionInv, PaymentOK, RequestOK, Path, Request, OpNames,
     orderLocal, flowLocal, OutboxCommit, Goto, AfterPublish, Conclude
<1>17. CASE Notify(r)
  BY <1>17 DEF TypeOK, LocalsOK, SessionInv, PaymentOK, RequestOK, Path, Request, OpNames,
     orderLocal, flowLocal, Notify, Goto, Finish, Conclude
<1>. QED
  BY <1>1, <1>2, <1>3, <1>4, <1>5, <1>6, <1>7, <1>8, <1>9, <1>10, <1>11, <1>12, <1>13, <1>14,
     <1>15, <1>16, <1>17 DEF RepositoryStep

\* The same for the steps of the handlers.
LEMMA UseCasePayment ==
  ASSUME TypeOK, NEW r \in Requests, SessionInv(r), Grows, UseCaseStep(r)
  PROVE  PaymentOK(r)'
<1>1. CASE CheckCustomer(r)
  BY <1>1, PaymentOf DEF TypeOK, LocalsOK, SessionInv, PaymentOK, RequestOK, Path, Request,
     OpNames, orderLocal, flowLocal, CheckCustomer, CustomerAnswers, Goto, Finish
<1>2. CASE CheckNoActiveOrder(r)
  BY <1>2, PaymentOf DEF TypeOK, LocalsOK, SessionInv, PaymentOK, RequestOK, Path, Request,
     OpNames, orderLocal, flowLocal, CheckNoActiveOrder, Goto, Finish
<1>3. CASE AddProduct(r)
  BY <1>3, PaymentOf DEF TypeOK, LocalsOK, SessionInv, PaymentOK, RequestOK, Path, Request,
     OpNames, orderLocal, flowLocal, AddProduct, Goto, Finish
<1>4. CASE RemoveProduct(r)
  BY <1>4, PaymentOf DEF TypeOK, LocalsOK, SessionInv, PaymentOK, RequestOK, Path, Request,
     OpNames, orderLocal, flowLocal, RemoveProduct, Goto, Finish
<1>5. CASE SagaSelect(r)
  BY <1>5, PaymentOf DEF TypeOK, LocalsOK, SessionInv, PaymentOK, RequestOK, Path, Request,
     OpNames, orderLocal, flowLocal, SagaSelect, Goto
<1>6. CASE SagaCommit(r)
  BY <1>6, PaymentOf DEF TypeOK, LocalsOK, SessionInv, PaymentOK, RequestOK, Path, Request,
     OpNames, orderLocal, flowLocal, SagaCommit, Goto, Finish, AfterSagaSave
<1>7. CASE ValidateCustomer(r)
  BY <1>7, PaymentOf DEF TypeOK, LocalsOK, SessionInv, PaymentOK, RequestOK, Path, Request,
     OpNames, orderLocal, flowLocal, ValidateCustomer, Goto, Finish, FailPhase
<1>8. CASE FetchPrices(r)
  BY <1>8, PaymentOf DEF TypeOK, LocalsOK, SessionInv, PaymentOK, RequestOK, Path, Request,
     OpNames, orderLocal, flowLocal, FetchPrices, Goto, Finish, FailPhase
<1>9. CASE VoidPendingPayment(r)
  <2>1. StoredPayment(req[r].order) \in PaymentEntity
    BY <1>9, RequestType, StoredPaymentType DEF VoidPendingPayment, TypeOK
  <2>. QED BY <1>9, <2>1, PaymentOf DEF TypeOK, LocalsOK, SessionInv, PaymentOK, RequestOK,
     VoidPendingPayment, Goto, IsVoidable, Absent
<1>10. CASE ApplyCancel(r)
  BY <1>10, PaymentOf DEF TypeOK, LocalsOK, SessionInv, PaymentOK, RequestOK, Path, Request,
     OpNames, orderLocal, flowLocal, ApplyCancel, Goto, Finish
<1>11. CASE ReturnPaymentOfKey(r)
  BY <1>11, PaymentOf DEF TypeOK, LocalsOK, SessionInv, PaymentOK, RequestOK, Path, Request,
     OpNames, orderLocal, flowLocal, ReturnPaymentOfKey, Goto, Finish
<1>12. CASE PreparePayment(r)
  BY <1>12, PaymentOf DEF TypeOK, LocalsOK, SessionInv, PaymentOK, RequestOK, Path, Request,
     OpNames, orderLocal, flowLocal, PreparePayment, Goto, Finish
<1>13. CASE GatewayAccepts(r)
  BY <1>13, PaymentOf DEF TypeOK, LocalsOK, SessionInv, PaymentOK, RequestOK, Path, Request,
     OpNames, orderLocal, flowLocal, GatewayAccepts, Goto, OpenedPayment, Absent
<1>14. CASE GatewayUnavailable(r)
  BY <1>14, PaymentOf DEF TypeOK, LocalsOK, SessionInv, PaymentOK, RequestOK, Path, Request,
     OpNames, orderLocal, flowLocal, GatewayUnavailable
<1>15. CASE GatewayRefuses(r)
  BY <1>15, PaymentOf DEF TypeOK, LocalsOK, SessionInv, PaymentOK, RequestOK, Path, Request,
     OpNames, orderLocal, flowLocal, GatewayRefuses
<1>16. CASE GatewayLost(r)
  BY <1>16, PaymentOf DEF TypeOK, LocalsOK, SessionInv, PaymentOK, RequestOK, Path, Request,
     OpNames, orderLocal, flowLocal, GatewayLost, Finish
<1>17. CASE RestorePreviousStatus(r)
  BY <1>17, PaymentOf DEF TypeOK, LocalsOK, SessionInv, PaymentOK, RequestOK, Path, Request,
     OpNames, orderLocal, flowLocal, RestorePreviousStatus, Goto, Finish
<1>18. CASE LoadPayment(r)
  BY <1>18, PaymentOf DEF TypeOK, LocalsOK, SessionInv, PaymentOK, RequestOK, Path, Request,
     OpNames, orderLocal, flowLocal, LoadPayment, Goto, Finish, Absent
<1>19. CASE ApplyVerdict(r)
  BY <1>19, PaymentOf DEF TypeOK, LocalsOK, SessionInv, PaymentOK, RequestOK, Path, Request,
     OpNames, orderLocal, flowLocal, ApplyVerdict, Goto, Finish, Absent
<1>. QED
  BY <1>1, <1>2, <1>3, <1>4, <1>5, <1>6, <1>7, <1>8, <1>9, <1>10, <1>11, <1>12, <1>13, <1>14,
     <1>15, <1>16, <1>17, <1>18, <1>19 DEF UseCaseStep

\* The saga row is about to tell what has happened.
LEMMA RepositorySaga ==
  ASSUME TypeOK, NEW r \in Requests, SessionInv(r), Grows, ConfirmationSeen(r)',
     RepositoryStep(r)
  PROVE  SagaPhase(r)'
<1>1. CASE LoadRow(r)
  BY <1>1 DEF TypeOK, LocalsOK, SessionInv, RequestOK, Path, Request, OpNames, Grows, SagaPhase,
     orderLocal, flowLocal, LoadRow, Goto, Finish
<1>2. CASE LoadItems(r)
  BY <1>2 DEF TypeOK, LocalsOK, SessionInv, RequestOK, Path, Request, OpNames, Grows, SagaPhase,
     orderLocal, flowLocal, LoadItems, Goto, AfterLoad
<1>3. CASE LoadCached(r)
  BY <1>3 DEF TypeOK, LocalsOK, SessionInv, RequestOK, Path, Request, OpNames, Grows, SagaPhase,
     orderLocal, flowLocal, LoadCached, Goto, AfterLoad
<1>4. CASE SaveSelect(r)
  BY <1>4 DEF TypeOK, LocalsOK, SessionInv, RequestOK, Path, Request, OpNames, Grows, SagaPhase,
     orderLocal, flowLocal, SaveSelect, Goto
<1>5. CASE SaveCheck(r)
  BY <1>5 DEF TypeOK, LocalsOK, SessionInv, RequestOK, Path, Request, OpNames, Grows, SagaPhase,
     orderLocal, flowLocal, SaveCheck, CheckVersion, Goto, Finish
<1>6. CASE SaveCheckCached(r)
  BY <1>6 DEF TypeOK, LocalsOK, SessionInv, RequestOK, Path, Request, OpNames, Grows, SagaPhase,
     orderLocal, flowLocal, SaveCheckCached, CheckVersion, Goto, Finish
<1>7. CASE SaveCommit(r)
  <2>1. req[r].op = "confirm" => EverConfirmed(req[r].order)'
    BY <1>7, RequestType, ConfirmationCommitted DEF SaveCommit
  <2>2. req' = req /\ pc'[r] = AfterOrderSave(r) /\ stage' = stage /\ ord' = ord /\ base'[r] =
     ord[r]
    BY <1>7 DEF SaveCommit, Goto, flowLocal, TypeOK, LocalsOK
  <2>. QED BY <1>7, <2>1, <2>2 DEF SagaPhase, SessionInv, RequestOK, Request, SaveCommit,
     AfterOrderSave, Grows, ConfirmedStatuses
<1>8. CASE SaveFails(r)
  BY <1>8 DEF TypeOK, LocalsOK, SessionInv, RequestOK, Path, Request, OpNames, Grows, SagaPhase,
     orderLocal, flowLocal, SaveFails, Finish
<1>9. CASE InsertOrder(r)
  BY <1>9 DEF TypeOK, LocalsOK, SessionInv, RequestOK, Path, Request, OpNames, Grows, SagaPhase,
     orderLocal, flowLocal, InsertOrder, Goto, AfterOrderSave
<1>10. CASE PaymentSelect(r)
  BY <1>10 DEF TypeOK, LocalsOK, SessionInv, RequestOK, Path, Request, OpNames, Grows,
     SagaPhase, orderLocal, flowLocal, PaymentSelect, Goto
<1>11. CASE PaymentCommit(r)
  BY <1>11 DEF TypeOK, LocalsOK, SessionInv, RequestOK, Path, Request, OpNames, Grows,
     SagaPhase, orderLocal, flowLocal, PaymentCommit, Goto, AfterPaymentSave
<1>12. CASE PaymentInsertFails(r)
  BY <1>12 DEF TypeOK, LocalsOK, SessionInv, RequestOK, Path, Request, OpNames, Grows,
     SagaPhase, orderLocal, flowLocal, PaymentInsertFails, Finish
<1>13. CASE IdemGet(r)
  BY <1>13 DEF TypeOK, LocalsOK, SessionInv, RequestOK, Path, Request, OpNames, Grows,
     SagaPhase, orderLocal, flowLocal, IdemGet, Goto, Finish, AfterLookup, StageOnHit
<1>14. CASE IdemSave(r)
  BY <1>14 DEF TypeOK, LocalsOK, SessionInv, RequestOK, Path, Request, OpNames, Grows,
     SagaPhase, orderLocal, flowLocal, IdemSave, Finish
<1>15. CASE Send(r)
  BY <1>15 DEF TypeOK, LocalsOK, SessionInv, RequestOK, Path, Request, OpNames, Grows,
     SagaPhase, orderLocal, flowLocal, Send, Goto
<1>16. CASE OutboxCommit(r)
  BY <1>16 DEF TypeOK, LocalsOK, SessionInv, RequestOK, Path, Request, OpNames, Grows,
     SagaPhase, orderLocal, flowLocal, OutboxCommit, Goto, AfterPublish, Conclude
<1>17. CASE Notify(r)
  BY <1>17 DEF TypeOK, LocalsOK, SessionInv, RequestOK, Path, Request, OpNames, Grows,
     SagaPhase, orderLocal, flowLocal, Notify, Goto, Finish, Conclude
<1>. QED
  BY <1>1, <1>2, <1>3, <1>4, <1>5, <1>6, <1>7, <1>8, <1>9, <1>10, <1>11, <1>12, <1>13, <1>14,
     <1>15, <1>16, <1>17 DEF RepositoryStep

\* The same for the steps of the handlers.
LEMMA UseCaseSaga ==
  ASSUME TypeOK, NEW r \in Requests, SessionInv(r), Grows, UseCaseStep(r)
  PROVE  SagaPhase(r)'
<1>1. CASE CheckCustomer(r)
  BY <1>1 DEF TypeOK, LocalsOK, SessionInv, RequestOK, Path, Request, OpNames, Grows, SagaPhase,
     orderLocal, flowLocal, CheckCustomer, CustomerAnswers, Goto, Finish
<1>2. CASE CheckNoActiveOrder(r)
  BY <1>2 DEF TypeOK, LocalsOK, SessionInv, RequestOK, Path, Request, OpNames, Grows, SagaPhase,
     orderLocal, flowLocal, CheckNoActiveOrder, Goto, Finish
<1>3. CASE AddProduct(r)
  BY <1>3 DEF TypeOK, LocalsOK, SessionInv, RequestOK, Path, Request, OpNames, Grows, SagaPhase,
     orderLocal, flowLocal, AddProduct, Goto, Finish
<1>4. CASE RemoveProduct(r)
  BY <1>4 DEF TypeOK, LocalsOK, SessionInv, RequestOK, Path, Request, OpNames, Grows, SagaPhase,
     orderLocal, flowLocal, RemoveProduct, Goto, Finish
<1>5. CASE SagaSelect(r)
  BY <1>5 DEF TypeOK, LocalsOK, SessionInv, RequestOK, Path, Request, OpNames, Grows, SagaPhase,
     orderLocal, flowLocal, SagaSelect, Goto
<1>6. CASE SagaCommit(r)
  BY <1>6 DEF TypeOK, LocalsOK, SessionInv, RequestOK, Path, Request, OpNames, Grows, SagaPhase,
     orderLocal, flowLocal, SagaCommit, Goto, Finish, AfterSagaSave
<1>7. CASE ValidateCustomer(r)
  BY <1>7 DEF TypeOK, LocalsOK, SessionInv, RequestOK, Path, Request, OpNames, Grows, SagaPhase,
     orderLocal, flowLocal, ValidateCustomer, Goto, Finish, FailPhase
<1>8. CASE FetchPrices(r)
  BY <1>8 DEF TypeOK, LocalsOK, SessionInv, RequestOK, Path, Request, OpNames, Grows, SagaPhase,
     orderLocal, flowLocal, FetchPrices, Goto, Finish, FailPhase
<1>9. CASE VoidPendingPayment(r)
  BY <1>9 DEF TypeOK, LocalsOK, SessionInv, RequestOK, Path, Request, OpNames, Grows, SagaPhase,
     orderLocal, flowLocal, VoidPendingPayment, Goto
<1>10. CASE ApplyCancel(r)
  BY <1>10 DEF TypeOK, LocalsOK, SessionInv, RequestOK, Path, Request, OpNames, Grows,
     SagaPhase, orderLocal, flowLocal, ApplyCancel, Goto, Finish
<1>11. CASE ReturnPaymentOfKey(r)
  BY <1>11 DEF TypeOK, LocalsOK, SessionInv, RequestOK, Path, Request, OpNames, Grows,
     SagaPhase, orderLocal, flowLocal, ReturnPaymentOfKey, Goto, Finish
<1>12. CASE PreparePayment(r)
  BY <1>12 DEF TypeOK, LocalsOK, SessionInv, RequestOK, Path, Request, OpNames, Grows,
     SagaPhase, orderLocal, flowLocal, PreparePayment, Goto, Finish
<1>13. CASE GatewayAccepts(r)
  BY <1>13 DEF TypeOK, LocalsOK, SessionInv, RequestOK, Path, Request, OpNames, Grows,
     SagaPhase, orderLocal, flowLocal, GatewayAccepts, Goto
<1>14. CASE GatewayUnavailable(r)
  BY <1>14 DEF TypeOK, LocalsOK, SessionInv, RequestOK, Path, Request, OpNames, Grows,
     SagaPhase, orderLocal, flowLocal, GatewayUnavailable
<1>15. CASE GatewayRefuses(r)
  BY <1>15 DEF TypeOK, LocalsOK, SessionInv, RequestOK, Path, Request, OpNames, Grows,
     SagaPhase, orderLocal, flowLocal, GatewayRefuses
<1>16. CASE GatewayLost(r)
  BY <1>16 DEF TypeOK, LocalsOK, SessionInv, RequestOK, Path, Request, OpNames, Grows,
     SagaPhase, orderLocal, flowLocal, GatewayLost, Finish
<1>17. CASE RestorePreviousStatus(r)
  BY <1>17 DEF TypeOK, LocalsOK, SessionInv, RequestOK, Path, Request, OpNames, Grows,
     SagaPhase, orderLocal, flowLocal, RestorePreviousStatus, Goto, Finish
<1>18. CASE LoadPayment(r)
  BY <1>18 DEF TypeOK, LocalsOK, SessionInv, RequestOK, Path, Request, OpNames, Grows,
     SagaPhase, orderLocal, flowLocal, LoadPayment, Goto, Finish
<1>19. CASE ApplyVerdict(r)
  BY <1>19 DEF TypeOK, LocalsOK, SessionInv, RequestOK, Path, Request, OpNames, Grows,
     SagaPhase, orderLocal, flowLocal, ApplyVerdict, Goto, Finish
<1>. QED
  BY <1>1, <1>2, <1>3, <1>4, <1>5, <1>6, <1>7, <1>8, <1>9, <1>10, <1>11, <1>12, <1>13, <1>14,
     <1>15, <1>16, <1>17, <1>18, <1>19 DEF UseCaseStep

\* A confirmed order in hand was confirmed.
LEMMA RepositoryConfirmation ==
  ASSUME TypeOK, NEW r \in Requests, SessionInv(r), Grows, TablesInv, RepositoryStep(r)
  PROVE  ConfirmationSeen(r)'
<1>1. CASE LoadRow(r)
  BY <1>1, StatusOf, StatusInMemory DEF TypeOK, LocalsOK, SessionInv, RequestOK, Path, Request,
     OpNames, Grows, ConfirmationSeen, ConfirmedStatuses, orderLocal, flowLocal, LoadRow, Goto,
     Finish, TablesInv, StatusConfirmed
<1>2. CASE LoadItems(r)
  BY <1>2, StatusOf, StatusInMemory DEF TypeOK, LocalsOK, SessionInv, RequestOK, Path, Request,
     OpNames, Grows, ConfirmationSeen, ConfirmedStatuses, orderLocal, flowLocal, LoadItems,
     Goto, AfterLoad
<1>3. CASE LoadCached(r)
  BY <1>3, StatusOf, StatusInMemory DEF TypeOK, LocalsOK, SessionInv, RequestOK, Path, Request,
     OpNames, Grows, ConfirmationSeen, ConfirmedStatuses, orderLocal, flowLocal, LoadCached,
     Goto, AfterLoad
<1>4. CASE SaveSelect(r)
  BY <1>4, StatusOf, StatusInMemory DEF TypeOK, LocalsOK, SessionInv, RequestOK, Path, Request,
     OpNames, Grows, ConfirmationSeen, ConfirmedStatuses, orderLocal, flowLocal, SaveSelect,
     Goto, TablesInv, StatusConfirmed
<1>5. CASE SaveCheck(r)
  BY <1>5, StatusOf, StatusInMemory DEF TypeOK, LocalsOK, SessionInv, RequestOK, Path, Request,
     OpNames, Grows, ConfirmationSeen, ConfirmedStatuses, orderLocal, flowLocal, SaveCheck,
     CheckVersion, Goto, Finish
<1>6. CASE SaveCheckCached(r)
  BY <1>6, StatusOf, StatusInMemory DEF TypeOK, LocalsOK, SessionInv, RequestOK, Path, Request,
     OpNames, Grows, ConfirmationSeen, ConfirmedStatuses, orderLocal, flowLocal,
     SaveCheckCached, CheckVersion, Goto, Finish
<1>7. CASE SaveCommit(r)
  <2>1. req[r].op = "confirm" => EverConfirmed(req[r].order)'
    BY <1>7, RequestType, ConfirmationCommitted DEF SaveCommit
  <2>2. req' = req /\ pc'[r] = AfterOrderSave(r) /\ stage' = stage /\ ord' = ord /\ base'[r] =
     ord[r]
    BY <1>7 DEF SaveCommit, Goto, flowLocal, TypeOK, LocalsOK
  <2>. QED BY <1>7, <2>1, <2>2 DEF ConfirmationSeen, SessionInv, RequestOK, Request, SaveCommit,
     AfterOrderSave, Grows, ConfirmedStatuses
<1>8. CASE SaveFails(r)
  BY <1>8, StatusOf, StatusInMemory DEF TypeOK, LocalsOK, SessionInv, RequestOK, Path, Request,
     OpNames, Grows, ConfirmationSeen, ConfirmedStatuses, orderLocal, flowLocal, SaveFails,
     Finish
<1>9. CASE InsertOrder(r)
  BY <1>9, StatusOf, StatusInMemory DEF TypeOK, LocalsOK, SessionInv, RequestOK, Path, Request,
     OpNames, Grows, ConfirmationSeen, ConfirmedStatuses, orderLocal, flowLocal, InsertOrder,
     Goto, AfterOrderSave
<1>10. CASE PaymentSelect(r)
  BY <1>10, StatusOf, StatusInMemory DEF TypeOK, LocalsOK, SessionInv, RequestOK, Path, Request,
     OpNames, Grows, ConfirmationSeen, ConfirmedStatuses, orderLocal, flowLocal, PaymentSelect,
     Goto
<1>11. CASE PaymentCommit(r)
  BY <1>11, StatusOf, StatusInMemory DEF TypeOK, LocalsOK, SessionInv, RequestOK, Path, Request,
     OpNames, Grows, ConfirmationSeen, ConfirmedStatuses, orderLocal, flowLocal, PaymentCommit,
     Goto, AfterPaymentSave
<1>12. CASE PaymentInsertFails(r)
  BY <1>12, StatusOf, StatusInMemory DEF TypeOK, LocalsOK, SessionInv, RequestOK, Path, Request,
     OpNames, Grows, ConfirmationSeen, ConfirmedStatuses, orderLocal, flowLocal,
     PaymentInsertFails, Finish
<1>13. CASE IdemGet(r)
  BY <1>13, StatusOf, StatusInMemory DEF TypeOK, LocalsOK, SessionInv, RequestOK, Path, Request,
     OpNames, Grows, ConfirmationSeen, ConfirmedStatuses, orderLocal, flowLocal, IdemGet, Goto,
     Finish, AfterLookup
<1>14. CASE IdemSave(r)
  BY <1>14, StatusOf, StatusInMemory DEF TypeOK, LocalsOK, SessionInv, RequestOK, Path, Request,
     OpNames, Grows, ConfirmationSeen, ConfirmedStatuses, orderLocal, flowLocal, IdemSave,
     Finish
<1>15. CASE Send(r)
  BY <1>15, StatusOf, StatusInMemory DEF TypeOK, LocalsOK, SessionInv, RequestOK, Path, Request,
     OpNames, Grows, ConfirmationSeen, ConfirmedStatuses, orderLocal, flowLocal, Send, Goto
<1>16. CASE OutboxCommit(r)
  BY <1>16, StatusOf, StatusInMemory DEF TypeOK, LocalsOK, SessionInv, RequestOK, Path, Request,
     OpNames, Grows, ConfirmationSeen, ConfirmedStatuses, orderLocal, flowLocal, OutboxCommit,
     Goto, AfterPublish, Conclude
<1>17. CASE Notify(r)
  BY <1>17, StatusOf, StatusInMemory DEF TypeOK, LocalsOK, SessionInv, RequestOK, Path, Request,
     OpNames, Grows, ConfirmationSeen, ConfirmedStatuses, orderLocal, flowLocal, Notify, Goto,
     Finish, Conclude
<1>. QED
  BY <1>1, <1>2, <1>3, <1>4, <1>5, <1>6, <1>7, <1>8, <1>9, <1>10, <1>11, <1>12, <1>13, <1>14,
     <1>15, <1>16, <1>17 DEF RepositoryStep

\* The same for the steps of the handlers.
LEMMA UseCaseConfirmation ==
  ASSUME TypeOK, NEW r \in Requests, SessionInv(r), Grows, TablesInv, UseCaseStep(r)
  PROVE  ConfirmationSeen(r)'
<1>1. CASE CheckCustomer(r)
  BY <1>1, StatusOf, StatusInMemory DEF TypeOK, LocalsOK, SessionInv, RequestOK, Path, Request,
     OpNames, Grows, ConfirmationSeen, ConfirmedStatuses, orderLocal, flowLocal, CheckCustomer,
     CustomerAnswers, Goto, Finish
<1>2. CASE CheckNoActiveOrder(r)
  BY <1>2, StatusOf, StatusInMemory DEF TypeOK, LocalsOK, SessionInv, RequestOK, Path, Request,
     OpNames, Grows, ConfirmationSeen, ConfirmedStatuses, orderLocal, flowLocal,
     CheckNoActiveOrder, Goto, Finish
<1>3. CASE AddProduct(r)
  <2>1. ord'[r].status = ord[r].status
    <3>1. ASSUME NEW id, NEW added \in AddItemTo(NextVersion(ord[r]), NewItem(r, id)),
                 ord' = [ord EXCEPT ![r] = added]
          PROVE  ord'[r].status = ord[r].status
      BY <3>1, StatusOfNext DEF TypeOK, LocalsOK
    <3>. QED BY <1>3, <3>1 DEF AddProduct
  <2>2. req' = req /\ base' = base /\ prev' = prev /\ pc[r] \in {"product", "remove"}
        /\ pc'[r] \in {"select", "done"}
    BY <1>3 DEF TypeOK, LocalsOK, flowLocal, AddProduct, Goto, Finish
  <2>. QED BY <2>1, <2>2 DEF SessionInv, RequestOK, Request, Path, ConfirmationSeen, Grows
<1>4. CASE RemoveProduct(r)
  <2>1. ord'[r].status = ord[r].status
    <3>1. \A id : RemoveItemFrom(NextVersion(ord[r]), id).status = ord[r].status
      BY StatusOfNext DEF TypeOK, LocalsOK
    <3>. QED BY <1>4, <3>1 DEF RemoveProduct, TypeOK, LocalsOK
  <2>2. req' = req /\ base' = base /\ prev' = prev /\ pc[r] \in {"product", "remove"}
        /\ pc'[r] \in {"select", "done"}
    BY <1>4 DEF TypeOK, LocalsOK, flowLocal, RemoveProduct, Goto, Finish
  <2>. QED BY <2>1, <2>2 DEF SessionInv, RequestOK, Request, Path, ConfirmationSeen, Grows
<1>5. CASE SagaSelect(r)
  BY <1>5, StatusOf, StatusInMemory DEF TypeOK, LocalsOK, SessionInv, RequestOK, Path, Request,
     OpNames, Grows, ConfirmationSeen, ConfirmedStatuses, orderLocal, flowLocal, SagaSelect,
     Goto
<1>6. CASE SagaCommit(r)
  BY <1>6, StatusOf, StatusInMemory DEF TypeOK, LocalsOK, SessionInv, RequestOK, Path, Request,
     OpNames, Grows, ConfirmationSeen, ConfirmedStatuses, orderLocal, flowLocal, SagaCommit,
     Goto, Finish, AfterSagaSave
<1>7. CASE ValidateCustomer(r)
  BY <1>7, StatusOf, StatusInMemory DEF TypeOK, LocalsOK, SessionInv, RequestOK, Path, Request,
     OpNames, Grows, ConfirmationSeen, ConfirmedStatuses, orderLocal, flowLocal,
     ValidateCustomer, Goto, Finish, FailPhase
<1>8. CASE FetchPrices(r)
  BY <1>8, StatusOf, StatusInMemory DEF TypeOK, LocalsOK, SessionInv, RequestOK, Path, Request,
     OpNames, Grows, ConfirmationSeen, ConfirmedStatuses, orderLocal, flowLocal, FetchPrices,
     Goto, Finish, FailPhase
<1>9. CASE VoidPendingPayment(r)
  BY <1>9, StatusOf, StatusInMemory DEF TypeOK, LocalsOK, SessionInv, RequestOK, Path, Request,
     OpNames, Grows, ConfirmationSeen, ConfirmedStatuses, orderLocal, flowLocal,
     VoidPendingPayment, Goto
<1>10. CASE ApplyCancel(r)
  BY <1>10, StatusOf, StatusInMemory DEF TypeOK, LocalsOK, SessionInv, RequestOK, Path, Request,
     OpNames, Grows, ConfirmationSeen, ConfirmedStatuses, orderLocal, flowLocal, ApplyCancel,
     Goto, Finish
<1>11. CASE ReturnPaymentOfKey(r)
  BY <1>11, StatusOf, StatusInMemory DEF TypeOK, LocalsOK, SessionInv, RequestOK, Path, Request,
     OpNames, Grows, ConfirmationSeen, ConfirmedStatuses, orderLocal, flowLocal,
     ReturnPaymentOfKey, Goto, Finish
<1>12. CASE PreparePayment(r)
  BY <1>12, StatusOf, StatusInMemory DEF TypeOK, LocalsOK, SessionInv, RequestOK, Path, Request,
     OpNames, Grows, ConfirmationSeen, ConfirmedStatuses, orderLocal, flowLocal, PreparePayment,
     Goto, Finish, CanInitiatePayment
<1>13. CASE GatewayAccepts(r)
  BY <1>13, StatusOf, StatusInMemory DEF TypeOK, LocalsOK, SessionInv, RequestOK, Path, Request,
     OpNames, Grows, ConfirmationSeen, ConfirmedStatuses, orderLocal, flowLocal, GatewayAccepts,
     Goto
<1>14. CASE GatewayUnavailable(r)
  BY <1>14, StatusOf, StatusInMemory DEF TypeOK, LocalsOK, SessionInv, RequestOK, Path, Request,
     OpNames, Grows, ConfirmationSeen, ConfirmedStatuses, orderLocal, flowLocal,
     GatewayUnavailable
<1>15. CASE GatewayRefuses(r)
  BY <1>15, StatusOf, StatusInMemory DEF TypeOK, LocalsOK, SessionInv, RequestOK, Path, Request,
     OpNames, Grows, ConfirmationSeen, ConfirmedStatuses, orderLocal, flowLocal, GatewayRefuses
<1>16. CASE GatewayLost(r)
  BY <1>16, StatusOf, StatusInMemory DEF TypeOK, LocalsOK, SessionInv, RequestOK, Path, Request,
     OpNames, Grows, ConfirmationSeen, ConfirmedStatuses, orderLocal, flowLocal, GatewayLost,
     Finish
<1>17. CASE RestorePreviousStatus(r)
  BY <1>17, StatusOf, StatusInMemory DEF TypeOK, LocalsOK, SessionInv, RequestOK, Path, Request,
     OpNames, Grows, ConfirmationSeen, ConfirmedStatuses, orderLocal, flowLocal,
     RestorePreviousStatus, Goto, Finish, AwaitsPayment
<1>18. CASE LoadPayment(r)
  BY <1>18, StatusOf, StatusInMemory DEF TypeOK, LocalsOK, SessionInv, RequestOK, Path, Request,
     OpNames, Grows, ConfirmationSeen, ConfirmedStatuses, orderLocal, flowLocal, LoadPayment,
     Goto, Finish
<1>19. CASE ApplyVerdict(r)
  BY <1>19, StatusOf, StatusInMemory DEF TypeOK, LocalsOK, SessionInv, RequestOK, Path, Request,
     OpNames, Grows, ConfirmationSeen, ConfirmedStatuses, orderLocal, flowLocal, ApplyVerdict,
     Goto, Finish, AwaitsPayment
<1>. QED
  BY <1>1, <1>2, <1>3, <1>4, <1>5, <1>6, <1>7, <1>8, <1>9, <1>10, <1>11, <1>12, <1>13, <1>14,
     <1>15, <1>16, <1>17, <1>18, <1>19 DEF UseCaseStep

\* A paid order in hand was paid for.
LEMMA RepositoryApproval ==
  ASSUME TypeOK, NEW r \in Requests, SessionInv(r), Grows, TablesInv, RepositoryStep(r)
  PROVE  ApprovalSeen(r)'
<1>1. CASE LoadRow(r)
  <2>1. orders[req[r].order].status = "PAID" => Approved(req[r].order)'
    BY <1>1, RequestType DEF LoadRow, TablesInv, PaidOnlyAfterApproval, Approved, Reported,
       Grows
  <2>. QED BY <1>1, <2>1, StatusInMemory DEF TypeOK, LocalsOK, SessionInv, RequestOK, Request,
     Grows,
     ApprovalSeen, flowLocal, LoadRow, Goto, Finish
<1>2. CASE LoadItems(r)
  BY <1>2, StatusOf, StatusInMemory DEF TypeOK, LocalsOK, SessionInv, RequestOK, Path, Request,
     OpNames, Grows, ApprovalSeen, orderLocal, flowLocal, LoadItems, Goto, AfterLoad
<1>3. CASE LoadCached(r)
  BY <1>3, StatusOf, StatusInMemory DEF TypeOK, LocalsOK, SessionInv, RequestOK, Path, Request,
     OpNames, Grows, ApprovalSeen, orderLocal, flowLocal, LoadCached, Goto, AfterLoad
<1>4. CASE SaveSelect(r)
  <2>1. orders[req[r].order].status = "PAID" => Approved(req[r].order)'
    BY <1>4, RequestType DEF SaveSelect, TablesInv, PaidOnlyAfterApproval, Approved, Reported,
       Grows
  <2>. QED BY <1>4, <2>1, StatusInMemory DEF TypeOK, LocalsOK, SessionInv, RequestOK, Request,
     Grows,
     ApprovalSeen, flowLocal, SaveSelect, Goto, Finish
<1>5. CASE SaveCheck(r)
  BY <1>5, StatusOf, StatusInMemory DEF TypeOK, LocalsOK, SessionInv, RequestOK, Path, Request,
     OpNames, Grows, ApprovalSeen, orderLocal, flowLocal, SaveCheck, CheckVersion, Goto, Finish
<1>6. CASE SaveCheckCached(r)
  BY <1>6, StatusOf, StatusInMemory DEF TypeOK, LocalsOK, SessionInv, RequestOK, Path, Request,
     OpNames, Grows, ApprovalSeen, orderLocal, flowLocal, SaveCheckCached, CheckVersion, Goto,
     Finish
<1>7. CASE SaveCommit(r)
  BY <1>7, StatusOf, StatusInMemory DEF TypeOK, LocalsOK, SessionInv, RequestOK, Path, Request,
     OpNames, Grows, ApprovalSeen, orderLocal, flowLocal, SaveCommit, Goto, AfterOrderSave
<1>8. CASE SaveFails(r)
  BY <1>8, StatusOf, StatusInMemory DEF TypeOK, LocalsOK, SessionInv, RequestOK, Path, Request,
     OpNames, Grows, ApprovalSeen, orderLocal, flowLocal, SaveFails, Finish
<1>9. CASE InsertOrder(r)
  BY <1>9, StatusOf, StatusInMemory DEF TypeOK, LocalsOK, SessionInv, RequestOK, Path, Request,
     OpNames, Grows, ApprovalSeen, orderLocal, flowLocal, InsertOrder, Goto, AfterOrderSave
<1>10. CASE PaymentSelect(r)
  BY <1>10, StatusOf, StatusInMemory DEF TypeOK, LocalsOK, SessionInv, RequestOK, Path, Request,
     OpNames, Grows, ApprovalSeen, orderLocal, flowLocal, PaymentSelect, Goto
<1>11. CASE PaymentCommit(r)
  <2>1. UNCHANGED <<req, ord, base, prev>> /\ pc'[r] = AfterPaymentSave(r) /\ pc[r] =
     "pay_commit"
    BY <1>11 DEF TypeOK, LocalsOK, PaymentCommit, Goto, orderLocal, flowLocal
  <2>2. CASE req[r].op # "callback" \/ req[r].verdict # "APPROVED"
    BY <2>1, <2>2 DEF SessionInv, RequestOK, Request, ApprovalSeen, Grows
  <2>3. CASE req[r].op = "callback" /\ req[r].verdict = "APPROVED"
    <3>1. Approved(req[r].order)'
      BY <1>11, <2>1, <2>3, ApprovalCommitted
    <3>. QED BY <2>1, <3>1 DEF SessionInv, RequestOK, Request, ApprovalSeen, Grows
  <2>. QED BY <2>2, <2>3
<1>12. CASE PaymentInsertFails(r)
  BY <1>12, StatusOf, StatusInMemory DEF TypeOK, LocalsOK, SessionInv, RequestOK, Path, Request,
     OpNames, Grows, ApprovalSeen, orderLocal, flowLocal, PaymentInsertFails, Finish
<1>13. CASE IdemGet(r)
  BY <1>13, StatusOf, StatusInMemory DEF TypeOK, LocalsOK, SessionInv, RequestOK, Path, Request,
     OpNames, Grows, ApprovalSeen, orderLocal, flowLocal, IdemGet, Goto, Finish, AfterLookup
<1>14. CASE IdemSave(r)
  BY <1>14, StatusOf, StatusInMemory DEF TypeOK, LocalsOK, SessionInv, RequestOK, Path, Request,
     OpNames, Grows, ApprovalSeen, orderLocal, flowLocal, IdemSave, Finish
<1>15. CASE Send(r)
  BY <1>15, StatusOf, StatusInMemory DEF TypeOK, LocalsOK, SessionInv, RequestOK, Path, Request,
     OpNames, Grows, ApprovalSeen, orderLocal, flowLocal, Send, Goto
<1>16. CASE OutboxCommit(r)
  BY <1>16, StatusOf, StatusInMemory DEF TypeOK, LocalsOK, SessionInv, RequestOK, Path, Request,
     OpNames, Grows, ApprovalSeen, orderLocal, flowLocal, OutboxCommit, Goto, AfterPublish,
     Conclude
<1>17. CASE Notify(r)
  BY <1>17, StatusOf, StatusInMemory DEF TypeOK, LocalsOK, SessionInv, RequestOK, Path, Request,
     OpNames, Grows, ApprovalSeen, orderLocal, flowLocal, Notify, Goto, Finish, Conclude
<1>. QED
  BY <1>1, <1>2, <1>3, <1>4, <1>5, <1>6, <1>7, <1>8, <1>9, <1>10, <1>11, <1>12, <1>13, <1>14,
     <1>15, <1>16, <1>17 DEF RepositoryStep

\* The same for the steps of the handlers.
LEMMA UseCaseApproval ==
  ASSUME TypeOK, NEW r \in Requests, SessionInv(r), Grows, TablesInv, UseCaseStep(r)
  PROVE  ApprovalSeen(r)'
<1>1. CASE CheckCustomer(r)
  BY <1>1, StatusOf, StatusInMemory DEF TypeOK, LocalsOK, SessionInv, RequestOK, Path, Request,
     OpNames, Grows, ApprovalSeen, orderLocal, flowLocal, CheckCustomer, CustomerAnswers, Goto,
     Finish
<1>2. CASE CheckNoActiveOrder(r)
  BY <1>2, StatusOf, StatusInMemory DEF TypeOK, LocalsOK, SessionInv, RequestOK, Path, Request,
     OpNames, Grows, ApprovalSeen, orderLocal, flowLocal, CheckNoActiveOrder, Goto, Finish
<1>3. CASE AddProduct(r)
  <2>1. ord'[r].status = ord[r].status
    <3>1. ASSUME NEW id, NEW added \in AddItemTo(NextVersion(ord[r]), NewItem(r, id)),
                 ord' = [ord EXCEPT ![r] = added]
          PROVE  ord'[r].status = ord[r].status
      BY <3>1, StatusOfNext DEF TypeOK, LocalsOK
    <3>. QED BY <1>3, <3>1 DEF AddProduct
  <2>2. req' = req /\ base' = base /\ prev' = prev /\ pc[r] \in {"product", "remove"}
        /\ pc'[r] \in {"select", "done"}
    BY <1>3 DEF TypeOK, LocalsOK, flowLocal, AddProduct, Goto, Finish
  <2>. QED BY <2>1, <2>2, RequestType DEF SessionInv, ApprovalSeen, Grows
<1>4. CASE RemoveProduct(r)
  <2>1. ord'[r].status = ord[r].status
    <3>1. \A id : RemoveItemFrom(NextVersion(ord[r]), id).status = ord[r].status
      BY StatusOfNext DEF TypeOK, LocalsOK
    <3>. QED BY <1>4, <3>1 DEF RemoveProduct, TypeOK, LocalsOK
  <2>2. req' = req /\ base' = base /\ prev' = prev /\ pc[r] \in {"product", "remove"}
        /\ pc'[r] \in {"select", "done"}
    BY <1>4 DEF TypeOK, LocalsOK, flowLocal, RemoveProduct, Goto, Finish
  <2>. QED BY <2>1, <2>2, RequestType DEF SessionInv, ApprovalSeen, Grows
<1>5. CASE SagaSelect(r)
  BY <1>5, StatusOf, StatusInMemory DEF TypeOK, LocalsOK, SessionInv, RequestOK, Path, Request,
     OpNames, Grows, ApprovalSeen, orderLocal, flowLocal, SagaSelect, Goto
<1>6. CASE SagaCommit(r)
  BY <1>6, StatusOf, StatusInMemory DEF TypeOK, LocalsOK, SessionInv, RequestOK, Path, Request,
     OpNames, Grows, ApprovalSeen, orderLocal, flowLocal, SagaCommit, Goto, Finish,
     AfterSagaSave
<1>7. CASE ValidateCustomer(r)
  BY <1>7, StatusOf, StatusInMemory DEF TypeOK, LocalsOK, SessionInv, RequestOK, Path, Request,
     OpNames, Grows, ApprovalSeen, orderLocal, flowLocal, ValidateCustomer, Goto, Finish,
     FailPhase
<1>8. CASE FetchPrices(r)
  <2>1. ord'[r].status = "CONFIRMED" \/ ord' = ord
    <3>1. \A prices : ConfirmWithPrices(NextVersion(ord[r]), prices).status = "CONFIRMED"
      BY StatusOfNext DEF TypeOK, LocalsOK
    <3>. QED BY <1>8, <3>1 DEF FetchPrices, TypeOK, LocalsOK
  <2>2. UNCHANGED <<req, base, prev>>
    BY <1>8 DEF FetchPrices
  <2>3. pc[r] = "prices"
    BY <1>8 DEF FetchPrices
  <2>. QED BY <2>1, <2>2, <2>3 DEF SessionInv, RequestOK, Request, Path, ApprovalSeen, Grows
<1>9. CASE VoidPendingPayment(r)
  BY <1>9, StatusOf, StatusInMemory DEF TypeOK, LocalsOK, SessionInv, RequestOK, Path, Request,
     OpNames, Grows, ApprovalSeen, orderLocal, flowLocal, VoidPendingPayment, Goto
<1>10. CASE ApplyCancel(r)
  BY <1>10, StatusOf, StatusInMemory DEF TypeOK, LocalsOK, SessionInv, RequestOK, Path, Request,
     OpNames, Grows, ApprovalSeen, orderLocal, flowLocal, ApplyCancel, Goto, Finish
<1>11. CASE ReturnPaymentOfKey(r)
  BY <1>11, StatusOf, StatusInMemory DEF TypeOK, LocalsOK, SessionInv, RequestOK, Path, Request,
     OpNames, Grows, ApprovalSeen, orderLocal, flowLocal, ReturnPaymentOfKey, Goto, Finish
<1>12. CASE PreparePayment(r)
  BY <1>12, StatusOf, StatusInMemory DEF TypeOK, LocalsOK, SessionInv, RequestOK, Path, Request,
     OpNames, Grows, ApprovalSeen, orderLocal, flowLocal, PreparePayment, Goto, Finish,
     CanInitiatePayment
<1>13. CASE GatewayAccepts(r)
  BY <1>13, StatusOf, StatusInMemory DEF TypeOK, LocalsOK, SessionInv, RequestOK, Path, Request,
     OpNames, Grows, ApprovalSeen, orderLocal, flowLocal, GatewayAccepts, Goto
<1>14. CASE GatewayUnavailable(r)
  BY <1>14, StatusOf, StatusInMemory DEF TypeOK, LocalsOK, SessionInv, RequestOK, Path, Request,
     OpNames, Grows, ApprovalSeen, orderLocal, flowLocal, GatewayUnavailable
<1>15. CASE GatewayRefuses(r)
  BY <1>15, StatusOf, StatusInMemory DEF TypeOK, LocalsOK, SessionInv, RequestOK, Path, Request,
     OpNames, Grows, ApprovalSeen, orderLocal, flowLocal, GatewayRefuses
<1>16. CASE GatewayLost(r)
  BY <1>16, StatusOf, StatusInMemory DEF TypeOK, LocalsOK, SessionInv, RequestOK, Path, Request,
     OpNames, Grows, ApprovalSeen, orderLocal, flowLocal, GatewayLost, Finish
<1>17. CASE RestorePreviousStatus(r)
  <2>1. ord'[r].status = prev[r] \/ ord' = ord
    <3>1. RestoreStatus(NextVersion(ord[r]), prev[r]).status = prev[r]
      BY StatusOfNext DEF TypeOK, LocalsOK
    <3>. QED BY <1>17, <3>1 DEF RestorePreviousStatus, TypeOK, LocalsOK
  <2>2. UNCHANGED <<req, base, prev>> /\ pc[r] = "restore"
    BY <1>17 DEF RestorePreviousStatus, flowLocal
  <2>. QED BY <2>1, <2>2 DEF SessionInv, RequestOK, Request, ApprovalSeen, Grows
<1>18. CASE LoadPayment(r)
  BY <1>18, StatusOf, StatusInMemory DEF TypeOK, LocalsOK, SessionInv, RequestOK, Path, Request,
     OpNames, Grows, ApprovalSeen, orderLocal, flowLocal, LoadPayment, Goto, Finish
<1>19. CASE ApplyVerdict(r)
  BY <1>19, StatusOf, StatusInMemory DEF TypeOK, LocalsOK, SessionInv, RequestOK, Path, Request,
     OpNames, Grows, ApprovalSeen, orderLocal, flowLocal, ApplyVerdict, Goto, Finish,
     AwaitsPayment, IsApproval
<1>. QED
  BY <1>1, <1>2, <1>3, <1>4, <1>5, <1>6, <1>7, <1>8, <1>9, <1>10, <1>11, <1>12, <1>13, <1>14,
     <1>15, <1>16, <1>17, <1>18, <1>19 DEF UseCaseStep

(***************************************************************************)
(* Sessions.                                                               *)
(***************************************************************************)

\* A step of a handler keeps what its own request relies on.
LEMMA OwnSession ==
  ASSUME TypeOK, TablesInv, NEW r \in Requests, SessionInv(r), Grows,
         RepositoryStep(r) \/ UseCaseStep(r)
  PROVE  SessionInv(r)'
<1>1. pc'[r] # "idle" /\ RequestOK(r)'
  BY RepositoryRequest, UseCaseRequest
<1>2. IdleOK(r)'
  BY <1>1 DEF IdleOK
<1>3. PaymentOK(r)'
  BY RepositoryPayment, UseCasePayment
<1>4. ConfirmationSeen(r)'
  BY RepositoryConfirmation, UseCaseConfirmation
<1>5. SagaPhase(r)'
  BY <1>4, RepositorySaga, UseCaseSaga
<1>6. ApprovalSeen(r)'
  BY RepositoryApproval, UseCaseApproval
<1>. QED BY <1>1, <1>2, <1>3, <1>4, <1>5, <1>6 DEF SessionInv

\* A request that has just arrived relies on nothing yet.
LEMMA ArrivingSession ==
  ASSUME TypeOK, NEW r \in Requests, SessionInv(r), Arrive(r)
  PROVE  SessionInv(r)'
<1>1. PICK request, first, firstStage : Brings(r, request, first, firstStage)
  BY Arrival
<1>2. /\ pc[r] = "idle" /\ pc'[r] = first /\ req'[r] = request /\ stage'[r] = firstStage
      /\ ord'[r] = NoEntity /\ base'[r] = NoEntity /\ pay'[r] = NoPaymentEntity
      /\ prev'[r] = prev[r] /\ UNCHANGED charges
  BY <1>1 DEF Brings, Receive, TypeOK, LocalsOK, SessionInv, IdleOK, orderLocal, worldVars
<1>3. NoEntity.status = Absent /\ NoPaymentEntity.status = Absent
  BY DEF NoEntity, InMemory, NoOrder, NoPaymentEntity
<1>4. IdleOK(r)' /\ RequestOK(r)'
  BY <1>1, <1>2 DEF Brings, IdleOK, RequestOK, Reported
<1>5. PaymentOK(r)' /\ SagaPhase(r)'
  BY <1>1, <1>2, <1>3 DEF Brings, PaymentOK, SagaPhase
<1>6. ConfirmationSeen(r)' /\ ApprovalSeen(r)'
  BY <1>1, <1>2, <1>3 DEF Brings, ConfirmationSeen, ApprovalSeen, SessionInv, ConfirmedStatuses, Absent
<1>. QED BY <1>4, <1>5, <1>6 DEF SessionInv

\* A slot whose request has ended holds nothing.
LEMMA EndedSession ==
  ASSUME NEW r \in Requests, pc'[r] = "idle", req'[r] = NoRequest, ord'[r] = NoEntity,
         base'[r] = NoEntity, pay'[r] = NoPaymentEntity, prev'[r] = Absent
  PROVE  SessionInv(r)'
<1>1. NoPaymentEntity.status = Absent
  BY DEF NoPaymentEntity
<1>2. IdleOK(r)' /\ RequestOK(r)' /\ PaymentOK(r)' /\ ConfirmationSeen(r)' /\ ApprovalSeen(r)'
  BY <1>1 DEF IdleOK, RequestOK, PaymentOK, ConfirmationSeen, ApprovalSeen, Absent
<1>3. SagaPhase(r)'
  BY DEF SagaPhase
<1>. QED BY <1>2, <1>3 DEF SessionInv

\* So every step of the service keeps every session.
LEMMA SessionsKept ==
  ASSUME IndInv, TypeOK', Grows, [Next]_vars
  PROVE  \A q \in Requests : SessionInv(q)'
<1>. SUFFICES ASSUME NEW q \in Requests PROVE SessionInv(q)'
  OBVIOUS
<1>. USE DEF IndInv
<1>1. ASSUME NEW r \in Requests, RepositoryStep(r) \/ UseCaseStep(r) PROVE SessionInv(q)'
  <2>1. CASE q = r
    BY <1>1, <2>1, OwnSession
  <2>2. CASE q # r
    BY <1>1, <2>2, RepositoryOthers, UseCaseOthers, OthersKept
  <2>. QED BY <2>1, <2>2
<1>2. ASSUME NEW r \in Requests, Arrive(r) PROVE SessionInv(q)'
  <2>1. CASE q = r
    BY <1>2, <2>1, ArrivingSession
  <2>2. CASE q # r
    BY <1>2, <2>2, ArriveOthers, OthersKept
  <2>. QED BY <2>1, <2>2
<1>3. ASSUME NEW r \in Requests, Respond(r) PROVE SessionInv(q)'
  <2>1. CASE q = r
    BY <1>3, <2>1, EndedSession DEF Respond, EndSessions
  <2>2. CASE q # r
    BY <1>3, <2>2, RespondOthers, OthersKept
  <2>. QED BY <2>1, <2>2
<1>4. CASE Crash
  BY <1>4, EndedSession DEF Crash, EndSessions
<1>5. CASE UNCHANGED vars
  <2>1. UNCHANGED <<pc, req, ord, base, pay, stage, prev, charges, commits, settled>>
    BY <1>5 DEF vars, worldVars, orderLocal, flowLocal, ghostVars
  <2>2. IdleOK(q)' /\ RequestOK(q)' /\ PaymentOK(q)'
    <3>1. IdleOK(q)'
      BY <2>1 DEF SessionInv, IdleOK
    <3>2. RequestOK(q)'
      BY <2>1 DEF SessionInv, RequestOK, Reported
    <3>3. PaymentOK(q)'
      BY <2>1 DEF SessionInv, PaymentOK
    <3>. QED BY <3>1, <3>2, <3>3
  <2>3. ConfirmationSeen(q)' /\ SagaPhase(q)'
    BY <2>1 DEF SessionInv, ConfirmationSeen, SagaPhase, EverConfirmed
  <2>4. ApprovalSeen(q)'
    BY <2>1 DEF SessionInv, ApprovalSeen, Approved, Reported
  <2>. QED BY <2>2, <2>3, <2>4 DEF SessionInv
<1>. QED BY <1>1, <1>2, <1>3, <1>4, <1>5 DEF Next, Serve, Quiet

(***************************************************************************)
(* Tables.                                                                 *)
(***************************************************************************)

\* What SaveCommit leaves in the row of its order.
LEMMA SavedStatus ==
  ASSUME TypeOK, TablesInv, NEW r \in Requests, SessionInv(r), Grows, SaveCommit(r),
         NEW o \in Orders, req[r].order = o
  PROVE  /\ orders'[o].status \in ConfirmedStatuses => EverConfirmed(o)'
         /\ orders'[o].status = "PAID" => Approved(o)'
<1>1. pc[r] = "commit" /\ UNCHANGED req
  BY DEF SaveCommit
<1>2. orders'[o].status \in {ord[r].status, orders[o].status}
  BY <1>1 DEF SaveCommit, WrittenRow, TypeOK, DatabaseOK
<1>3. req[r].op = "confirm" => EverConfirmed(o)'
  BY ConfirmationCommitted DEF SaveCommit
<1>4. ord[r].status \in ConfirmedStatuses => EverConfirmed(o)'
  BY <1>1, <1>3 DEF SessionInv, ConfirmationSeen, Grows
<1>5. ord[r].status = "PAID" => Approved(o)'
  BY <1>1 DEF SessionInv, ApprovalSeen, Grows
<1>6. orders[o].status \in ConfirmedStatuses => EverConfirmed(o)'
  BY <1>1 DEF TablesInv, StatusConfirmed, Grows
<1>7. orders[o].status = "PAID" => Approved(o)'
  BY <1>1 DEF TablesInv, PaidOnlyAfterApproval, Approved, Reported, Grows
<1>. QED BY <1>2, <1>4, <1>5, <1>6, <1>7

\* Any step that leaves the three tables alone keeps what is said of them.
LEMMA TablesUntouched ==
  ASSUME TablesInv, Grows, UNCHANGED <<orders, saga, charges>>
  PROVE  TablesInv'
<1>1. StatusConfirmed' /\ ChargedOnlyIfConfirmed' /\ SagaCompletedIfConfirmed'
  BY DEF TablesInv, Grows, StatusConfirmed, ChargedOnlyIfConfirmed, SagaCompletedIfConfirmed, EverConfirmed
<1>2. PaidOnlyAfterApproval'
  BY DEF TablesInv, Grows, PaidOnlyAfterApproval, Approved, Reported
<1>. QED BY <1>1, <1>2 DEF TablesInv

\* Commits of the orders table.
LEMMA OrderCommitTables ==
  ASSUME TypeOK, TablesInv, NEW r \in Requests, SessionInv(r), Grows, SaveCommit(r) \/ InsertOrder(r)
  PROVE  TablesInv'
<1>0. PICK o \in Orders : req[r].order = o
  BY RequestType DEF SaveCommit, InsertOrder
<1>1. \A x \in Orders \ {o} : orders'[x] = orders[x]
  BY <1>0 DEF SaveCommit, InsertOrder, TypeOK, DatabaseOK
<1>2. /\ orders'[o].status \in ConfirmedStatuses => EverConfirmed(o)'
      /\ orders'[o].status = "PAID" => Approved(o)'
  <2>1. CASE SaveCommit(r)
    BY <1>0, <2>1, SavedStatus
  <2>2. CASE InsertOrder(r)
    BY <1>0, <2>2 DEF InsertOrder, TypeOK, DatabaseOK, ConfirmedStatuses
  <2>. QED BY <2>1, <2>2
<1>3. UNCHANGED <<saga, charges>>
  BY DEF SaveCommit, InsertOrder, worldVars
<1>4. StatusConfirmed'
  BY <1>1, <1>2 DEF TablesInv, StatusConfirmed, Grows
<1>5. PaidOnlyAfterApproval'
  BY <1>1, <1>2 DEF TablesInv, PaidOnlyAfterApproval, Approved, Reported, Grows
<1>6. ChargedOnlyIfConfirmed' /\ SagaCompletedIfConfirmed'
  BY <1>3 DEF TablesInv, ChargedOnlyIfConfirmed, SagaCompletedIfConfirmed, EverConfirmed, Grows
<1>. QED BY <1>4, <1>5, <1>6 DEF TablesInv

\* Commits of the saga table.
LEMMA SagaCommitTables ==
  ASSUME TypeOK, TablesInv, NEW r \in Requests, SessionInv(r), Grows, SagaCommit(r)
  PROVE  TablesInv'
<1>0. PICK o \in Orders : req[r].order = o
  BY RequestType DEF SagaCommit
<1>1. UNCHANGED <<orders, charges>>
  BY DEF SagaCommit, worldVars
<1>2. SagaRecord(stage[r]).status = "COMPLETED" => EverConfirmed(o)
  BY <1>0 DEF SagaCommit, SagaRecord, SessionInv, SagaPhase
<1>3. /\ \A x \in Orders \ {o} : saga'[x] = saga[x]
      /\ saga'[o].status \in {saga[o].status, SagaRecord(stage[r]).status}
  BY <1>0 DEF SagaCommit, WrittenSaga, TypeOK, DatabaseOK
<1>4. SagaCompletedIfConfirmed'
  BY <1>1, <1>2, <1>3 DEF TablesInv, SagaCompletedIfConfirmed, EverConfirmed, Grows
<1>5. StatusConfirmed' /\ ChargedOnlyIfConfirmed'
  BY <1>1 DEF TablesInv, Grows, StatusConfirmed, ChargedOnlyIfConfirmed, EverConfirmed
<1>6. PaidOnlyAfterApproval'
  BY <1>1 DEF TablesInv, Grows, PaidOnlyAfterApproval, Approved, Reported
<1>. QED BY <1>4, <1>5, <1>6 DEF TablesInv

\* Charges.
LEMMA ChargeTables ==
  ASSUME TypeOK, TablesInv, NEW r \in Requests, SessionInv(r), Grows, Calls(r)
  PROVE  TablesInv'
<1>. DEFINE o == req[r].order
<1>1. pc[r] = "gateway" /\ UNCHANGED <<orders, saga>>
  BY CallCharges DEF dbVars
<1>2. o \in Orders /\ EverConfirmed(o)
  BY <1>1, RequestType DEF SessionInv, ConfirmationSeen, RequestOK, Path, Request, OpNames
<1>3. \A x \in Orders \ {o} : charges'[x] = charges[x]
  BY CallCharges DEF ChargesOnce, TakeCharge, TypeOK, WorldOK
<1>4. ChargedOnlyIfConfirmed'
  BY <1>2, <1>3 DEF TablesInv, ChargedOnlyIfConfirmed, EverConfirmed, Grows
<1>5. StatusConfirmed' /\ SagaCompletedIfConfirmed'
  BY <1>1 DEF TablesInv, Grows, StatusConfirmed, SagaCompletedIfConfirmed, EverConfirmed
<1>6. PaidOnlyAfterApproval'
  BY <1>1 DEF TablesInv, Grows, PaidOnlyAfterApproval, Approved, Reported
<1>. QED BY <1>4, <1>5, <1>6 DEF TablesInv

\* Every other round trip of the repositories leaves them alone.
LEMMA RepositoryTables ==
  ASSUME TypeOK, TablesInv, NEW r \in Requests, SessionInv(r), Grows, RepositoryStep(r)
  PROVE  TablesInv'
<1>1. CASE LoadRow(r)
  BY <1>1, TablesUntouched DEF dbVars, worldVars, LoadRow, Goto, Finish
<1>2. CASE LoadItems(r)
  BY <1>2, TablesUntouched DEF dbVars, worldVars, LoadItems, Goto
<1>3. CASE LoadCached(r)
  BY <1>3, TablesUntouched DEF dbVars, worldVars, LoadCached, Goto
<1>4. CASE SaveSelect(r)
  BY <1>4, TablesUntouched DEF dbVars, worldVars, SaveSelect, Goto
<1>5. CASE SaveCheck(r)
  BY <1>5, TablesUntouched DEF dbVars, worldVars, SaveCheck, CheckVersion, Goto, Finish
<1>6. CASE SaveCheckCached(r)
  BY <1>6, TablesUntouched DEF dbVars, worldVars, SaveCheckCached, CheckVersion, Goto, Finish
<1>7. CASE SaveCommit(r)
  BY <1>7, OrderCommitTables
<1>8. CASE SaveFails(r)
  BY <1>8, TablesUntouched DEF dbVars, worldVars, SaveFails, Finish
<1>9. CASE InsertOrder(r)
  BY <1>9, OrderCommitTables
<1>10. CASE PaymentSelect(r)
  BY <1>10, TablesUntouched DEF dbVars, worldVars, PaymentSelect, Goto
<1>11. CASE PaymentCommit(r)
  BY <1>11, TablesUntouched DEF dbVars, worldVars, PaymentCommit, Goto
<1>12. CASE PaymentInsertFails(r)
  BY <1>12, TablesUntouched DEF dbVars, worldVars, PaymentInsertFails, Finish
<1>13. CASE IdemGet(r)
  BY <1>13, TablesUntouched DEF dbVars, worldVars, IdemGet, Goto, Finish
<1>14. CASE IdemSave(r)
  BY <1>14, TablesUntouched DEF dbVars, worldVars, IdemSave, Finish
<1>15. CASE Send(r)
  BY <1>15, TablesUntouched DEF dbVars, worldVars, Send, Goto
<1>16. CASE OutboxCommit(r)
  BY <1>16, TablesUntouched DEF dbVars, worldVars, OutboxCommit, Goto
<1>17. CASE Notify(r)
  BY <1>17, TablesUntouched DEF dbVars, worldVars, Notify, Goto, Finish
<1>. QED
  BY <1>1, <1>2, <1>3, <1>4, <1>5, <1>6, <1>7, <1>8, <1>9, <1>10, <1>11, <1>12, <1>13, <1>14,
     <1>15, <1>16, <1>17 DEF RepositoryStep

\* The same for the steps of the handlers.
LEMMA UseCaseTables ==
  ASSUME TypeOK, TablesInv, NEW r \in Requests, SessionInv(r), Grows, UseCaseStep(r)
  PROVE  TablesInv'
<1>1. CASE CheckCustomer(r)
  BY <1>1, TablesUntouched DEF dbVars, worldVars, CheckCustomer, CustomerAnswers, Goto, Finish
<1>2. CASE CheckNoActiveOrder(r)
  BY <1>2, TablesUntouched DEF dbVars, worldVars, CheckNoActiveOrder, Goto, Finish
<1>3. CASE AddProduct(r)
  BY <1>3, TablesUntouched DEF dbVars, worldVars, AddProduct, Goto, Finish
<1>4. CASE RemoveProduct(r)
  BY <1>4, TablesUntouched DEF dbVars, worldVars, RemoveProduct, Goto, Finish
<1>5. CASE SagaSelect(r)
  BY <1>5, TablesUntouched DEF dbVars, worldVars, SagaSelect, Goto
<1>6. CASE SagaCommit(r)
  BY <1>6, SagaCommitTables
<1>7. CASE ValidateCustomer(r)
  BY <1>7, TablesUntouched DEF dbVars, worldVars, ValidateCustomer, Goto, Finish, FailPhase
<1>8. CASE FetchPrices(r)
  BY <1>8, TablesUntouched DEF dbVars, worldVars, FetchPrices, Goto, Finish, FailPhase
<1>9. CASE VoidPendingPayment(r)
  BY <1>9, TablesUntouched DEF dbVars, worldVars, VoidPendingPayment, Goto
<1>10. CASE ApplyCancel(r)
  BY <1>10, TablesUntouched DEF dbVars, worldVars, ApplyCancel, Goto, Finish
<1>11. CASE ReturnPaymentOfKey(r)
  BY <1>11, TablesUntouched DEF dbVars, worldVars, ReturnPaymentOfKey, Goto, Finish
<1>12. CASE PreparePayment(r)
  BY <1>12, TablesUntouched DEF dbVars, worldVars, PreparePayment, Goto, Finish
<1>13. CASE GatewayAccepts(r)
  BY <1>13, ChargeTables DEF Calls
<1>14. CASE GatewayUnavailable(r)
  BY <1>14, ChargeTables DEF Calls
<1>15. CASE GatewayRefuses(r)
  BY <1>15, ChargeTables DEF Calls
<1>16. CASE GatewayLost(r)
  BY <1>16, ChargeTables DEF Calls
<1>17. CASE RestorePreviousStatus(r)
  BY <1>17, TablesUntouched DEF dbVars, worldVars, RestorePreviousStatus, Goto, Finish
<1>18. CASE LoadPayment(r)
  BY <1>18, TablesUntouched DEF dbVars, worldVars, LoadPayment, Goto, Finish
<1>19. CASE ApplyVerdict(r)
  BY <1>19, TablesUntouched DEF dbVars, worldVars, ApplyVerdict, Goto, Finish
<1>. QED
  BY <1>1, <1>2, <1>3, <1>4, <1>5, <1>6, <1>7, <1>8, <1>9, <1>10, <1>11, <1>12, <1>13, <1>14,
     <1>15, <1>16, <1>17, <1>18, <1>19 DEF UseCaseStep

\* So every step of the service keeps the tables.
LEMMA TablesKept ==
  ASSUME IndInv, Grows, [Next]_vars
  PROVE  TablesInv'
<1>. USE DEF IndInv
<1>1. ASSUME NEW r \in Requests, RepositoryStep(r) PROVE TablesInv'
  BY <1>1, RepositoryTables
<1>2. ASSUME NEW r \in Requests, UseCaseStep(r) PROVE TablesInv'
  BY <1>2, UseCaseTables
<1>3. ASSUME NEW r \in Requests, Arrive(r) PROVE TablesInv'
  <2>1. PICK request, first, firstStage : Receive(r, request, first, firstStage)
    BY <1>3, Arrival DEF Brings
  <2>. QED BY <2>1, TablesUntouched DEF Receive, dbVars, worldVars
<1>4. ASSUME NEW r \in Requests, Respond(r) PROVE TablesInv'
  BY <1>4, TablesUntouched DEF Respond, dbVars, worldVars
<1>5. CASE Crash
  BY <1>5, TablesUntouched DEF Crash, dbVars, worldVars
<1>6. CASE UNCHANGED vars
  BY <1>6, TablesUntouched DEF vars, dbVars, worldVars
<1>. QED BY <1>1, <1>2, <1>3, <1>4, <1>5, <1>6 DEF Next, Serve, Quiet

(***************************************************************************)
(* The invariant.                                                          *)
(***************************************************************************)

\* The database a behaviour starts from is one the service can have written.
LEMMA InitInv == Init => IndInv
<1>. SUFFICES ASSUME Init PROVE IndInv
  OBVIOUS
<1>1. TypeOK
  BY InitType
<1>2. \A o \in Orders : orders[o].status \in ConfirmedStatuses \/ charges[o] # <<>> => WasConfirmed(o)
  BY DEF Init, GivenRow, NoOrder, Absent, ConfirmedStatuses, WasConfirmed, WasRejectedTwice
<1>3. \A o \in Orders : WasConfirmed(o) => EverConfirmed(o)
  BY DEF Init, GivenEvents, EverConfirmed, EventTypes
<1>4. StatusConfirmed /\ ChargedOnlyIfConfirmed
  BY <1>2, <1>3 DEF StatusConfirmed, ChargedOnlyIfConfirmed, EverConfirmed
<1>5. SagaCompletedIfConfirmed
  BY <1>3 DEF Init, NoSaga, Absent, SagaCompletedIfConfirmed, EverConfirmed
<1>6. PaidOnlyAfterApproval
  BY DEF Init, GivenRow, NoOrder, Absent, PaidOnlyAfterApproval
<1>7. ASSUME NEW r \in Requests PROVE SessionInv(r)
  <2>1. /\ pc[r] = "idle" /\ req[r] = NoRequest /\ ord[r] = NoEntity /\ base[r] = NoEntity
        /\ pay[r] = NoPaymentEntity /\ prev[r] = Absent
    BY DEF Init
  <2>2. NoPaymentEntity.status = Absent
    BY DEF NoPaymentEntity
  <2>. QED BY <2>1, <2>2 DEF SessionInv, IdleOK, RequestOK, PaymentOK, ConfirmationSeen, SagaPhase,
       ApprovalSeen, Absent
<1>. QED BY <1>1, <1>4, <1>5, <1>6, <1>7 DEF IndInv, TablesInv

\* IndInv is inductive.
LEMMA StepInv == IndInv /\ [Next]_vars => IndInv'
<1>. SUFFICES ASSUME IndInv, [Next]_vars PROVE IndInv'
  OBVIOUS
<1>1. TypeOK'
  BY NextType DEF IndInv
<1>2. Grows
  BY NextGrows DEF IndInv
<1>3. \A q \in Requests : SessionInv(q)'
  BY <1>1, <1>2, SessionsKept
<1>4. TablesInv'
  BY <1>2, TablesKept
<1>. QED BY <1>1, <1>3, <1>4 DEF IndInv

\* It holds throughout every behaviour of the service.
THEOREM Invariance == Spec => []IndInv
BY InitInv, StepInv, PTL DEF Spec

\* Every table row, message and local of a handler always has its type.
THEOREM TypeCorrect == Spec => []TypeOK
<1>1. IndInv => TypeOK
  BY DEF IndInv
<1>. QED BY <1>1, Invariance, PTL

\* No interleaving of callbacks, cancellations, retries and crashes makes an
\* order PAID without an approval of a charge the gateway accepted.
THEOREM PaidWasApproved == Spec => []PaidOnlyAfterApproval
<1>1. IndInv => PaidOnlyAfterApproval
  BY DEF IndInv, TablesInv
<1>. QED BY <1>1, Invariance, PTL

\* The gateway never sees a charge for an order whose confirmation was not committed.
THEOREM ChargedWasConfirmed == Spec => []ChargedOnlyIfConfirmed
<1>1. IndInv => ChargedOnlyIfConfirmed
  BY DEF IndInv, TablesInv
<1>. QED BY <1>1, Invariance, PTL

\* However many sagas of one order write its row, COMPLETED tells the truth.
THEOREM CompletedWasConfirmed == Spec => []SagaCompletedIfConfirmed
<1>1. IndInv => SagaCompletedIfConfirmed
  BY DEF IndInv, TablesInv
<1>. QED BY <1>1, Invariance, PTL
================================================================================
