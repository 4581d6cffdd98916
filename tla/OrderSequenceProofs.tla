-------------------------- MODULE OrderSequenceProofs --------------------------
(***************************************************************************)
(* One request at a time: IndSequence is kept by every step, relative to   *)
(* IndInv and IndWork, and with it the properties that OrderProperties     *)
(* states for one slot.                                                    *)
(***************************************************************************)
EXTENDS OrderWorkProofs, OrderSequence, FiniteSetTheorems

View == <<orders, items, payments, charges, settled>>

\* What the handlers rely on of an order, seen from a step that writes no table.
Unseen(o) ==
    /\ orders' = orders /\ items' = items /\ payments' = payments
    /\ Stored(o)' = Stored(o) /\ Rejections(o)' = Rejections(o)
    /\ AllRejected(o)' <=> AllRejected(o)
    /\ HasActiveOrder(Owner[o])' <=> HasActiveOrder(Owner[o])

\* A step that writes none of the tables a handler reads is not seen by it.
LEMMA UnseenView ==
  ASSUME NEW o \in Orders, UNCHANGED View
  PROVE  Unseen(o)
BY DEF View, Unseen, Stored, InMemory, ItemsOf, Rejections, AllRejected, Undenied, HasActiveOrder

\* The items of the stored order are its own.
LEMMA StoredItems ==
  ASSUME ItemIdsUnique, NEW o \in Orders
  PROVE  /\ Stored(o).items = ItemsOf(o)
         /\ \A i \in ItemsOf(o) : i \in items /\ i.order = o
         /\ \A i \in ItemsOf(o), j \in items : i.id = j.id => j \in ItemsOf(o)
         /\ \A i, j \in ItemsOf(o) : i.id = j.id => i = j
  BY DEF Stored, InMemory, ItemsOf, ItemIdsUnique

\* The order as it would be loaded is an entity with the columns of its row.
LEMMA StoredType ==
  ASSUME TypeOK, NEW o \in Orders
  PROVE  /\ Stored(o) \in Entity
         /\ Stored(o).status = orders[o].status /\ Stored(o).attempts = orders[o].attempts
         /\ Stored(o).version = orders[o].version /\ Stored(o).total = orders[o].total
<1>1. ItemsOf(o) \subseteq ItemRow
  BY DEF TypeOK, DatabaseOK, ItemsOf
<1>. QED BY <1>1 DEF TypeOK, DatabaseOK, Stored, InMemory, Entity, Row

\* The changes that leave the items alone.
LEMMA SameItems ==
  ASSUME NEW e \in Entity
  PROVE  /\ NextVersion(e).items = e.items /\ CancelOrder(e).items = e.items
         /\ MarkPaymentPending(e).items = e.items /\ ApplyApproved(e).items = e.items
         /\ ApplyRejected(e).items = e.items /\ \A s : RestoreStatus(e, s).items = e.items
<1>1. NextVersion(e).items = e.items /\ CancelOrder(e).items = e.items
  BY DEF Entity, NextVersion, CancelOrder
<1>2. MarkPaymentPending(e).items = e.items /\ ApplyApproved(e).items = e.items
  BY DEF Entity, MarkPaymentPending, ApplyApproved
<1>3. ApplyRejected(e).items = e.items /\ \A s : RestoreStatus(e, s).items = e.items
  BY DEF Entity, ApplyRejected, RestoreStatus
<1>. QED BY <1>1, <1>2, <1>3

\* So whoever made one of them writes back the items it found.
LEMMA KeepsItems ==
  ASSUME TypeOK, ItemIdsUnique, NEW r \in Requests, NEW o \in Orders, UNCHANGED items,
         ord'[r].items = Stored(o).items
  PROVE  ItemsOwned(r, o)'
<1>1. \A i \in ord'[r].items : i \in ItemsOf(o)
  BY StoredItems
<1>. QED BY <1>1, StoredItems DEF ItemsOwned

\* add_item and remove_item change nothing but the items.
LEMMA OnlyItems ==
  ASSUME NEW e \in Entity
  PROVE  /\ \A item : \A added \in AddItemTo(e, item) : added = [e EXCEPT !.items = added.items]
         /\ \A id : RemoveItemFrom(e, id) = [e EXCEPT !.items = RemoveItemFrom(e, id).items]
<1>1. ASSUME NEW item, NEW added \in AddItemTo(e, item) PROVE added = [e EXCEPT !.items =
   added.items]
  <2>1. PICK rows : added = [e EXCEPT !.items = rows]
    BY <1>1 DEF AddItemTo
  <2>. QED BY <2>1 DEF Entity
<1>2. ASSUME NEW id PROVE RemoveItemFrom(e, id) = [e EXCEPT !.items = RemoveItemFrom(e,
   id).items]
  BY DEF RemoveItemFrom, Entity
<1>. QED BY <1>1, <1>2

\* An added item has an id that no row has.
LEMMA AddedItems ==
  ASSUME TypeOK, ItemIdsUnique, NEW r \in Requests, NEW o \in Orders, req[r].order = o,
         NEW id \in ItemIds, FreshItem(id), NEW added \in AddItemTo(NextVersion(Stored(o)),
            NewItem(r, id))
  PROVE  /\ \A i \in added.items : i.order = o
         /\ \A i, j \in added.items : i.id = j.id => i = j
         /\ \A i \in added.items, j \in items : i.id = j.id => j.order = o
<1>. DEFINE n == NextVersion(Stored(o))
            item == NewItem(r, id)
            same == {i \in n.items : i.product = item.product}
<1>1. n \in Entity /\ n.items = ItemsOf(o)
  BY StoredType, StoredItems, SameItems, ChangedType
<1>2. item.id = id /\ item.order = o /\ \A i \in items : i.id # id
  BY DEF NewItem, FreshItem, Ids
<1>. HIDE DEF n, item
<1>3. CASE same = {}
  <2>1. added = [n EXCEPT !.items = @ \cup {item}]
    BY <1>3 DEF AddItemTo, n, item
  <2>2. added.items = ItemsOf(o) \cup {item}
    BY <1>1, <2>1 DEF Entity
  <2>. QED BY <1>2, <2>2, StoredItems
<1>4. CASE same # {}
  <2>1. PICK i \in same : added = [n EXCEPT !.items = (@ \ {i}) \cup {[i EXCEPT !.qty = @ +
     item.qty]}]
    BY <1>4 DEF AddItemTo, n, item
  <2>. DEFINE grown == [i EXCEPT !.qty = @ + item.qty]
  <2>2. added.items = (ItemsOf(o) \ {i}) \cup {grown} /\ i \in ItemsOf(o)
    BY <1>1, <2>1 DEF Entity
  <2>3. grown.id = i.id /\ grown.order = i.order
    BY <1>1, <2>2 DEF Entity, ItemRow
  <2>. HIDE DEF grown
  <2>. QED BY <2>2, <2>3, StoredItems
<1>. QED BY <1>3, <1>4

(***************************************************************************)
(* The five steps that write what the tables below are about.              *)
(***************************************************************************)

\* What the change of a handler does to the columns of the order.
LEMMA ChangeMade ==
  ASSUME TypeOK, NEW r \in Requests, NEW o \in Orders, req[r].op \in OpNames \ {"create"},
         Change(r, Stored(o), ord[r])
  PROVE  /\ ord[r].version = orders[o].version + 1
         /\ \/ /\ req[r].op \in {"add", "remove"}
               /\ orders[o].status = "DRAFT" /\ ord[r].status = "DRAFT"
               /\ ord[r].attempts = orders[o].attempts
            \/ /\ req[r].op = "confirm"
               /\ orders[o].status = "DRAFT" /\ ord[r].status = "CONFIRMED"
               /\ ord[r].attempts = orders[o].attempts
            \/ /\ req[r].op = "cancel"
               /\ orders[o].status \in CancellableStatuses /\ ord[r].status = "CANCELLED"
               /\ ord[r].attempts = orders[o].attempts
            \/ /\ req[r].op = "initiate" /\ stage[r] # "compensating"
               /\ orders[o].status \in {"CONFIRMED", "PAYMENT_FAILED"}
               /\ ord[r].status = "PAYMENT_PENDING" /\ ord[r].attempts = orders[o].attempts
            \/ /\ req[r].op = "initiate" /\ stage[r] = "compensating"
               /\ orders[o].status = "PAYMENT_PENDING"
               /\ ord[r].status = prev[r] /\ ord[r].attempts = orders[o].attempts
            \/ /\ req[r].op = "callback" /\ IsApproval(r)
               /\ orders[o].status = "PAYMENT_PENDING"
               /\ ord[r].status = "PAID" /\ ord[r].attempts = orders[o].attempts
            \/ /\ req[r].op = "callback" /\ ~IsApproval(r)
               /\ orders[o].status = "PAYMENT_PENDING"
               /\ ord[r].attempts = orders[o].attempts + 1
               /\ ord[r].status = RejectedStatus(ord[r].attempts)
<1>. DEFINE n == NextVersion(Stored(o))
<1>1. /\ Stored(o) \in Entity /\ n \in Entity
      /\ n.status = orders[o].status /\ n.attempts = orders[o].attempts
      /\ n.version = orders[o].version + 1
      /\ Stored(o).status = orders[o].status
  BY StoredType, ChangedType DEF NextVersion, Entity
<1>. HIDE DEF n
<1>2. CASE req[r].op \in {"add", "remove"}
  BY <1>1, <1>2 DEF Change, CanEditItems, EditableStatuses, Entity, n
<1>3. CASE req[r].op = "confirm"
  BY <1>1, <1>3 DEF Change, CanConfirm, ConfirmWithPrices, Entity, n
<1>4. CASE req[r].op = "cancel"
  BY <1>1, <1>4 DEF Change, CanCancel, CancelOrder, Entity, n
<1>5. CASE req[r].op = "initiate" /\ stage[r] # "compensating"
  BY <1>1, <1>5 DEF Change, CanInitiatePayment, MarkPaymentPending, Entity, n
<1>6. CASE req[r].op = "initiate" /\ stage[r] = "compensating"
  BY <1>1, <1>6 DEF Change, AwaitsPayment, RestoreStatus, Entity, n
<1>7. CASE req[r].op = "callback" /\ IsApproval(r)
  BY <1>1, <1>7 DEF Change, AwaitsPayment, ApplyApproved, Entity, n
<1>8. CASE req[r].op = "callback" /\ ~IsApproval(r)
  BY <1>1, <1>8 DEF Change, AwaitsPayment, ApplyRejected, Entity, n
<1>. QED BY <1>2, <1>3, <1>4, <1>5, <1>6, <1>7, <1>8 DEF OpNames

\* The items of a save that knows the stored ones: the order's are replaced,
\* the others' stay.
LEMMA WrittenOwn ==
  ASSUME TypeOK, ItemIdsUnique, NEW r \in Requests, NEW o \in Orders, ItemsOwned(r, o),
         base[r].items = ItemsOf(o), items' = WrittenItems(base[r], ord[r])
  PROVE  /\ ItemIdsUnique'
         /\ ItemsOf(o)' = ord[r].items
         /\ \A p \in Orders : p # o => ItemsOf(p)' = ItemsOf(p)
<1>. DEFINE kept == {i \in items : i.id \notin Ids(ItemsOf(o))}
<1>1. \A i \in items : i.id \in Ids(ItemsOf(o)) <=> i.order = o
  BY DEF Ids, ItemsOf, ItemIdsUnique
<1>2. kept = {i \in items : i.order # o}
  BY <1>1
<1>3. Ids(ItemsOf(o)) \subseteq Ids(items)
  BY DEF Ids, ItemsOf
<1>4. items' = kept \cup ord[r].items
  BY <1>3 DEF WrittenItems
<1>. HIDE DEF kept
<1>5. \A i \in ord[r].items : i.order = o
  BY DEF ItemsOwned
<1>6. ItemsOf(o)' = ord[r].items
  BY <1>2, <1>4, <1>5 DEF ItemsOf
<1>7. \A p \in Orders : p # o => ItemsOf(p)' = ItemsOf(p)
  BY <1>2, <1>4, <1>5 DEF ItemsOf
<1>8. \A i \in kept, j \in ord[r].items : i.id # j.id
  BY <1>2 DEF ItemsOwned
<1>9. ItemIdsUnique'
  BY <1>2, <1>4, <1>8 DEF ItemIdsUnique, ItemsOwned
<1>. QED BY <1>6, <1>7, <1>9

\* A save that knows the stored order stores the order that the handler holds.
LEMMA SaveStores ==
  ASSUME TypeOK, NEW r \in Requests, SessionInv(r), SequenceTables, SaveCommit(r),
         NEW o \in Orders, req[r].order = o, HandlerOK(r, o)
  PROVE  /\ Change(r, Stored(o), ord[r]) /\ req[r].op \in OpNames \ {"create"}
         /\ ItemIdsUnique'
         /\ Stored(o)' = ord[r] /\ ItemsOf(o)' = ord[r].items
         /\ orders'[o].status = ord[r].status /\ orders'[o].attempts = ord[r].attempts
         /\ orders'[o].version = ord[r].version
         /\ \A p \in Orders : p # o => orders'[p] = orders[p] /\ ItemsOf(p)' = ItemsOf(p)
<1>1. /\ Change(r, Stored(o), ord[r]) /\ ItemsOwned(r, o) /\ base[r] = Stored(o)
      /\ pc[r] = "commit"
  BY DEF SaveCommit, HandlerOK, EntityCurrent, Changing, BaseCurrent
<1>2. req[r].op \in OpNames \ {"create"}
  BY <1>1 DEF SessionInv, RequestOK, Request, Path
<1>3. /\ base[r].items = ItemsOf(o) /\ base[r].status = orders[o].status
      /\ base[r].total = orders[o].total /\ base[r].attempts = orders[o].attempts
      /\ base[r].version = orders[o].version
  BY <1>1 DEF Stored, InMemory
<1>4. /\ ItemIdsUnique' /\ ItemsOf(o)' = ord[r].items
      /\ \A p \in Orders : p # o => ItemsOf(p)' = ItemsOf(p)
  BY <1>1, <1>3, WrittenOwn DEF SaveCommit, SequenceTables
<1>5. orders'[o] = [status |-> ord[r].status, total |-> ord[r].total,
                    attempts |-> ord[r].attempts, version |-> ord[r].version]
  <2>1. orders'[o] = WrittenRow(orders[o], base[r], ord[r], cached[r])
    BY DEF SaveCommit, TypeOK, DatabaseOK
  <2>. QED BY <1>3, <2>1 DEF WrittenRow, SameTotal
<1>6. \A p \in Orders : p # o => orders'[p] = orders[p]
  BY DEF SaveCommit, TypeOK, DatabaseOK
<1>7. ord[r] \in Entity
  BY DEF TypeOK, LocalsOK
<1>8. Stored(o)' = ord[r]
  BY <1>4, <1>5, <1>7 DEF Stored, InMemory, Entity
<1>. QED BY <1>1, <1>2, <1>4, <1>5, <1>6, <1>8

\* What the handler knows after its order was saved: the model it keeps is the
\* order as it is stored now.
LEMMA SaveCommitHandler ==
  ASSUME TypeOK, NEW r \in Requests, SessionInv(r), WorkInv(r), SequenceTables,
         NEW o \in Orders, req[r].order = o, HandlerOK(r, o), SaveCommit(r)
  PROVE  HandlerOK(r, o)'
<1>1. /\ pc[r] = "commit" /\ pc'[r] = AfterOrderSave(r) /\ req' = req /\ ord' = ord /\ pay' =
            pay
      /\ stage' = stage /\ prev' = prev /\ reply' = reply /\ base'[r] = ord[r]
      /\ payments' = payments /\ charges' = charges /\ settled' = settled
  BY DEF SaveCommit, Goto, TypeOK, LocalsOK, flowLocal, worldVars
<1>2. /\ Stored(o)' = ord[r] /\ orders'[o].status = ord[r].status
      /\ Change(r, Stored(o), ord[r]) /\ req[r].op \in OpNames \ {"create"}
  BY SaveStores
<1>3. pc'[r] \in {"saga_select", "send", "gateway", "done"}
  BY <1>1 DEF AfterOrderSave
<1>4. EntityCurrent(r, o)' /\ BaseCurrent(r, o)'
  BY <1>1, <1>2, <1>3 DEF EntityCurrent, BaseCurrent, Reading, Changing
<1>5. SettlingOK(r, o)' /\ VoidingOK(r, o)' /\ LoadedCurrent(r, o)' /\ CreatingOK(r, o)'
  BY <1>1, <1>2, <1>3 DEF SettlingOK, VoidingOK, LoadedCurrent, CreatingOK
<1>6. req[r].op = "initiate" =>
         ord[r].status = IF stage[r] = "compensating" THEN prev[r] ELSE "PAYMENT_PENDING"
  BY <1>2, ChangeMade
<1>7. InitiatingOK(r, o)'
  <2>1. CASE pc'[r] # "gateway"
    BY <1>1, <1>3, <2>1 DEF InitiatingOK, Initiated, Opening
  <2>2. CASE pc'[r] = "gateway"
    <3>1. req[r].op = "initiate" /\ stage[r] # "compensating"
      BY <1>1, <2>2 DEF AfterOrderSave
    <3>2. /\ prev[r] \in {"CONFIRMED", "PAYMENT_FAILED"}
          /\ payments[o].status = IF prev[r] = "CONFIRMED" THEN Absent ELSE "REJECTED"
          /\ pay[r].status = payments[o].status /\ ~pay[r].fresh /\ AllRejected(o)
      BY <1>1, <3>1 DEF HandlerOK, InitiatingOK, Initiated
    <3>3. AllRejected(o)' /\ AwaitsPayment(orders[o])'
      BY <1>1, <1>2, <1>6, <3>1, <3>2 DEF AllRejected, Undenied, Rejections, AwaitsPayment
    <3>. QED BY <1>1, <2>2, <3>2, <3>3 DEF InitiatingOK, Opening
  <2>. QED BY <2>1, <2>2
<1>8. RefusalKnown(r, o)'
  BY <1>1, <1>2, <1>6 DEF HandlerOK, RefusalKnown, AfterOrderSave
<1>. QED BY <1>4, <1>5, <1>7, <1>8 DEF HandlerOK

\* A create is over once its order is inserted.
LEMMA InsertHandler ==
  ASSUME TypeOK, NEW r \in Requests, SessionInv(r), WorkInv(r), SequenceTables,
         NEW o \in Orders, req[r].order = o, HandlerOK(r, o), InsertOrder(r)
  PROVE  HandlerOK(r, o)'
<1>1. /\ req[r].op = "create" /\ pc'[r] = "done" /\ req' = req /\ cached' = cached
      /\ reply' = reply
  BY DEF InsertOrder, Goto, AfterOrderSave, TypeOK, LocalsOK, SessionInv, RequestOK, Path,
     Request, OpNames, orderLocal
<1>2. ~cached[r] /\ reply[r] # "payment_gateway_error"
  BY <1>1 DEF HandlerOK, CreatingOK, RefusalKnown
<1>. QED BY <1>1, <1>2 DEF HandlerOK, EntityCurrent, BaseCurrent, Reading, Changing, SettlingOK,
   VoidingOK, InitiatingOK, Initiated, Opening, LoadedCurrent, CreatingOK, RefusalKnown

\* The rejections on record are so many.
LEMMA RejectionsCounted ==
  ASSUME TypeOK, NEW o \in Orders
  PROVE  Rejections(o) \in Nat
<1>1. settled[o] \in Seq([txn : Nat, verdict : Verdicts, key : Keys \cup {Nil}])
  BY DEF TypeOK, WorldOK
<1>2. IsFiniteSet(DOMAIN settled[o])
  BY <1>1, FS_Interval
<1>3. IsFiniteSet({i \in DOMAIN settled[o] : settled[o][i].verdict = "REJECTED"})
  BY <1>2, FS_Subset
<1>. QED BY <1>3, FS_CardinalityType DEF Rejections

\* One more verdict is one more rejection, or none.
LEMMA RejectionsGrow ==
  ASSUME TypeOK, NEW o \in Orders, NEW v, settled'[o] = Append(settled[o], v)
  PROVE  /\ Rejections(o) \in Nat /\ Rejections(o)' \in Nat
         /\ Rejections(o)' = IF v.verdict = "REJECTED" THEN Rejections(o) + 1 ELSE Rejections(o)
<1>. DEFINE n == Len(settled[o])
            S == {i \in 1 .. n : settled[o][i].verdict = "REJECTED"}
<1>1. /\ n \in Nat /\ DOMAIN settled[o] = 1 .. n
      /\ DOMAIN settled'[o] = 1 .. n + 1
      /\ settled'[o][n + 1] = v /\ \A i \in 1 .. n : settled'[o][i] = settled[o][i]
  <2>1. settled[o] \in Seq([txn : Nat, verdict : Verdicts, key : Keys \cup {Nil}])
    BY DEF TypeOK, WorldOK
  <2>. QED BY <2>1
<1>2. IsFiniteSet(S) /\ n + 1 \notin S
  <2>1. IsFiniteSet(1 .. n)
    BY <1>1, FS_Interval
  <2>. QED BY <1>1, <2>1, FS_Subset
<1>3. {i \in DOMAIN settled'[o] : settled'[o][i].verdict = "REJECTED"} =
         IF v.verdict = "REJECTED" THEN S \cup {n + 1} ELSE S
  BY <1>1
<1>4. Rejections(o) = Cardinality(S)
  BY <1>1 DEF Rejections
<1>5. Rejections(o)' = Cardinality(IF v.verdict = "REJECTED" THEN S \cup {n + 1} ELSE S)
  BY <1>3 DEF Rejections
<1>. HIDE DEF S, n
<1>. QED BY <1>2, <1>4, <1>5, FS_CardinalityType, FS_AddElement

\* The charges that the gateway did not deny are so many.
LEMMA UndeniedCounted ==
  ASSUME TypeOK, NEW o \in Orders
  PROVE  IsFiniteSet(Undenied(o)) /\ Cardinality(Undenied(o)) \in Nat
<1>1. charges[o] \in Seq(ChargeRecord)
  BY DEF TypeOK, WorldOK, ChargeRecord
<1>2. IsFiniteSet(DOMAIN charges[o])
  BY <1>1, FS_Interval
<1>3. IsFiniteSet(Undenied(o))
  BY <1>2, FS_Subset DEF Undenied
<1>. QED BY <1>3, FS_CardinalityType

\* One more charge is one more that was not denied, or none behind an error answer.
LEMMA UndeniedGrow ==
  ASSUME TypeOK, NEW r \in Requests, SessionInv(r), pc[r] = "gateway",
         NEW hidden \in BOOLEAN, TakeCharge(r, hidden), NEW o \in Orders, req[r].order = o
  PROVE  /\ Cardinality(Undenied(o))' = Cardinality(Undenied(o)) + (IF hidden THEN 0 ELSE 1)
         /\ \A p \in Orders : p # o => charges'[p] = charges[p]
<1>. DEFINE Record(v) == [verdict |-> v, key |-> req[r].key, hidden |-> hidden]
            n == Len(charges[o]) + 1
<1>1. PICK v \in Verdicts : charges' = [charges EXCEPT ![o] = Append(@, Record(v))]
  BY DEF TakeCharge
<1>2. Record(v).hidden = hidden
  OBVIOUS
<1>. HIDE DEF Record
<1>3. /\ charges'[o] = Append(charges[o], Record(v)) /\ charges[o] \in Seq(ChargeRecord)
      /\ \A p \in Orders : p # o => charges'[p] = charges[p]
  BY <1>1 DEF TypeOK, WorldOK, ChargeRecord
<1>4. /\ n \notin DOMAIN charges[o] /\ DOMAIN charges'[o] = DOMAIN charges[o] \cup {n}
      /\ charges'[o][n] = Record(v) /\ \A i \in DOMAIN charges[o] : charges'[o][i] = charges[o][i]
  BY <1>3
<1>. HIDE DEF n
<1>5. Undenied(o)' = IF hidden THEN Undenied(o) ELSE Undenied(o) \cup {n}
  BY <1>2, <1>4 DEF Undenied
<1>6. n \notin Undenied(o)
  BY <1>4 DEF Undenied
<1>7. /\ Cardinality(Undenied(o) \cup {n}) = Cardinality(Undenied(o)) + 1
      /\ Cardinality(Undenied(o)) \in Nat
  BY <1>6, UndeniedCounted, FS_AddElement
<1>8. Cardinality(Undenied(o)') = Cardinality(Undenied(o)) + (IF hidden THEN 0 ELSE 1)
  BY <1>5, <1>7
<1>. QED BY <1>3, <1>8

\* What a handler relies on does not change with a charge behind an error answer.
LEMMA DeniedUnseen ==
  ASSUME TypeOK, NEW r \in Requests, SessionInv(r), GatewayUnavailable(r) \/ GatewayRefuses(r),
         NEW o \in Orders
  PROVE  Unseen(o)
<1>1. /\ pc[r] = "gateway" /\ orders' = orders /\ items' = items /\ payments' = payments
      /\ settled' = settled /\ (TakeCharge(r, TRUE) \/ UNCHANGED charges)
  BY DEF GatewayUnavailable, GatewayRefuses, HiddenCharge, dbVars, ghostVars
<1>2. Cardinality(Undenied(o))' = Cardinality(Undenied(o))
  <2>1. CASE UNCHANGED charges
    BY <2>1 DEF Undenied
  <2>2. CASE TakeCharge(r, TRUE)
    <3>1. PICK x \in Orders : req[r].order = x
      BY <1>1, SavingOrder
    <3>2. CASE o = x
      <4>1. Cardinality(Undenied(o))' = Cardinality(Undenied(o)) + (IF TRUE THEN 0 ELSE 1)
        BY <1>1, <2>2, <3>1, <3>2, UndeniedGrow
      <4>. QED BY <4>1, UndeniedCounted
    <3>3. CASE o # x
      BY <1>1, <2>2, <3>1, <3>3, UndeniedGrow DEF Undenied
    <3>. QED BY <3>2, <3>3
  <2>. QED BY <1>1, <2>1, <2>2
<1>. QED BY <1>1, <1>2 DEF Unseen, Stored, InMemory, ItemsOf, Rejections, AllRejected, HasActiveOrder

\* A payment that is committed belongs to the order, and was pending or is new.
LEMMA PaymentStores ==
  ASSUME TypeOK, NEW r \in Requests, SessionInv(r), SequenceTables, PaymentCommit(r),
         NEW o \in Orders, req[r].order = o, HandlerOK(r, o)
  PROVE  /\ req[r].op \in {"cancel", "initiate", "callback"}
         /\ orders[o].status = "PAYMENT_PENDING"
         /\ req[r].op = "cancel" => payments[o].status = "PENDING" /\ payments'[o].status =
               "VOID"
         /\ req[r].op = "callback" => payments[o].status = "PENDING" /\ payments'[o].status =
               req[r].verdict
         /\ req[r].op = "initiate" => payments[o].status \in {Absent, "REJECTED"} /\
               payments'[o].status = "PENDING"
         /\ \A p \in Orders : p # o => payments'[p] = payments[p] /\ settled'[p] = settled[p]
         /\ req[r].op # "callback" => settled' = settled
         /\ req[r].op = "callback" =>
               settled'[o] = Append(settled[o], [txn |-> req[r].txn, verdict |-> req[r].verdict,
                  key |-> req[r].key])
<1>1. pc[r] = "pay_commit" /\ req[r].op \in {"cancel", "initiate", "callback"}
  BY DEF PaymentCommit, SessionInv, RequestOK, Path, Request, OpNames
<1>2. pay[r].order = o
  BY <1>1, SavingOrder
<1>3. /\ payments' = [payments EXCEPT ![o] = WrittenPayment(@, pay[r])]
      /\ settled' = IF req[r].op # "callback" THEN settled
                    ELSE [settled EXCEPT ![o] = Append(@, [txn |-> req[r].txn, verdict |->
                       req[r].verdict, key |-> req[r].key])]
  BY <1>2 DEF PaymentCommit
<1>4. pay[r].fresh \in BOOLEAN /\ (~pay[r].fresh => pay[r].loaded = payments[o].status)
  BY <1>1 DEF HandlerOK, LoadedCurrent, TypeOK, LocalsOK, PaymentEntity
<1>5. payments'[o].status = pay[r].status
  <2>1. /\ payments'[o] = WrittenPayment(payments[o], pay[r])
        /\ payments[o] \in [status : PaymentStatuses \cup {Absent}, key : Keys \cup {Nil}]
    BY <1>3 DEF TypeOK, DatabaseOK
  <2>. QED BY <1>4, <2>1 DEF WrittenPayment
<1>6. /\ req[r].op = "cancel" => payments[o].status = "PENDING" /\ pay[r].status = "VOID"
      /\ req[r].op = "callback" => payments[o].status = "PENDING" /\ pay[r].status =
            req[r].verdict
      /\ req[r].op = "initiate" => payments[o].status \in {Absent, "REJECTED"} /\ pay[r].status
            = "PENDING"
      /\ req[r].op = "initiate" => AwaitsPayment(orders[o])
  BY <1>1 DEF HandlerOK, SettlingOK, VoidingOK, InitiatingOK, Opening
<1>7. orders[o].status = "PAYMENT_PENDING"
  BY <1>1, <1>6 DEF AwaitsPayment, SequenceTables, PaymentsFit, OrdersWith, Absent
<1>8. /\ \A p \in Orders : p # o => payments'[p] = payments[p] /\ settled'[p] = settled[p]
      /\ req[r].op # "callback" => settled' = settled
      /\ req[r].op = "callback" =>
            settled'[o] = Append(settled[o], [txn |-> req[r].txn, verdict |-> req[r].verdict,
               key |-> req[r].key])
  BY <1>3 DEF TypeOK, DatabaseOK, WorldOK
<1>. QED BY <1>1, <1>5, <1>6, <1>7, <1>8

\* What the handler knows after its payment was saved: a callback and a cancel
\* go on to their order, an initiate to its event.
LEMMA PaymentCommitHandler ==
  ASSUME TypeOK, NEW r \in Requests, SessionInv(r), WorkInv(r), SequenceTables,
         NEW o \in Orders, req[r].order = o, HandlerOK(r, o), PaymentCommit(r)
  PROVE  HandlerOK(r, o)'
<1>1. /\ pc[r] = "pay_commit" /\ pc'[r] = AfterPaymentSave(r) /\ req' = req /\ ord' = ord
      /\ base' = base /\ cached' = cached /\ stage' = stage /\ prev' = prev /\ reply' = reply
      /\ orders' = orders /\ items' = items /\ charges' = charges
  BY DEF PaymentCommit, Goto, TypeOK, LocalsOK, flowLocal, worldVars, orderLocal
<1>2. /\ req[r].op \in {"cancel", "initiate", "callback"}
      /\ req[r].op = "cancel" => payments'[o].status = "VOID" /\ pc'[r] = "cancel"
      /\ req[r].op = "callback" => payments'[o].status = req[r].verdict /\ pc'[r] = "select"
      /\ req[r].op = "initiate" => pc'[r] = "send"
      /\ req[r].op = "callback" =>
            settled'[o] = Append(settled[o], [txn |-> req[r].txn, verdict |-> req[r].verdict,
               key |-> req[r].key])
  BY <1>1, PaymentStores DEF AfterPaymentSave
<1>3. Stored(o)' = Stored(o) /\ (ItemsOwned(r, o)' <=> ItemsOwned(r, o))
  BY <1>1 DEF Stored, InMemory, ItemsOf, ItemsOwned
<1>4. EntityCurrent(r, o)'
  <2>1. Change(r, Stored(o), ord[r]) => Change(r, Stored(o), ord[r])'
    BY <1>1, <1>3 DEF Change, IsApproval
  <2>. QED BY <1>1, <1>2, <1>3, <2>1 DEF HandlerOK, EntityCurrent, Reading, Changing
<1>5. BaseCurrent(r, o)' /\ LoadedCurrent(r, o)' /\ CreatingOK(r, o)' /\ VoidingOK(r, o)'
  BY <1>1, <1>2, <1>3 DEF HandlerOK, BaseCurrent, LoadedCurrent, CreatingOK, VoidingOK
<1>6. InitiatingOK(r, o)' /\ RefusalKnown(r, o)'
  BY <1>1, <1>2 DEF HandlerOK, InitiatingOK, Initiated, Opening, RefusalKnown
<1>7. SettlingOK(r, o)'
  <2>1. CASE req[r].op # "callback"
    BY <1>1, <2>1 DEF SettlingOK
  <2>2. CASE req[r].op = "callback"
    <3>1. ~IsApproval(r) => AllRejected(o)' /\ orders[o].attempts < Rejections(o)'
      <4>. SUFFICES ASSUME ~IsApproval(r) PROVE AllRejected(o)' /\ orders[o].attempts <
         Rejections(o)'
        OBVIOUS
      <4>1. req[r].verdict = "REJECTED"
        BY <1>1, <2>2 DEF SessionInv, RequestOK, IsApproval, Verdicts
      <4>2. Rejections(o)' = Rejections(o) + 1 /\ Rejections(o) \in Nat
        BY <1>2, <2>2, <4>1, RejectionsGrow
      <4>3. /\ Cardinality(Undenied(o)) <= Rejections(o) + 1 /\ Cardinality(Undenied(o)) \in Nat
            /\ orders[o].attempts <= Rejections(o)
        BY UndeniedCounted DEF SequenceTables, ChargeAgainOnlyAfterRejectionOrError,
           AttemptsCountRejections
      <4>4. orders[o].attempts \in Nat
        BY DEF TypeOK, DatabaseOK, Row
      <4>. QED BY <1>1, <4>2, <4>3, <4>4 DEF AllRejected, Undenied
    <3>. QED BY <1>1, <1>2, <2>2, <3>1 DEF SettlingOK, IsApproval
  <2>. QED BY <2>1, <2>2
<1>. QED BY <1>4, <1>5, <1>6, <1>7 DEF HandlerOK

\* What initiate knows after the gateway was called, whether it got an answer or
\* lost it.
LEMMA ChargeHandler ==
  ASSUME TypeOK, NEW r \in Requests, SessionInv(r), WorkInv(r), SequenceTables,
         NEW o \in Orders, req[r].order = o, HandlerOK(r, o),
         GatewayAccepts(r) \/ GatewayLost(r)
  PROVE  HandlerOK(r, o)'
<1>1. /\ pc[r] = "gateway" /\ req' = req /\ orders' = orders /\ items' = items
      /\ payments' = payments /\ base' = base /\ cached' = cached /\ stage' = stage /\ prev' =
            prev
      /\ reply'[r] \in {reply[r], "error"}
  BY DEF GatewayAccepts, GatewayLost, Goto, Finish, TypeOK, LocalsOK, flowLocal, dbVars,
     orderLocal
<1>2. /\ req[r].op = "initiate" /\ prev[r] \in {"CONFIRMED", "PAYMENT_FAILED"}
      /\ payments[o].status = IF prev[r] = "CONFIRMED" THEN Absent ELSE "REJECTED"
      /\ pay[r].status = payments[o].status /\ ~pay[r].fresh
      /\ AwaitsPayment(orders[o]) /\ reply[r] # "payment_gateway_error"
  BY <1>1 DEF SessionInv, RequestOK, Path, Request, OpNames, HandlerOK, InitiatingOK, Initiated,
     RefusalKnown
<1>3. Stored(o)' = Stored(o)
  BY <1>1 DEF Stored, InMemory, ItemsOf
<1>4. \/ pc'[r] = "pay_select" /\ pay'[r] = OpenedPayment(r)
      \/ pc'[r] = "done"
  BY DEF GatewayAccepts, GatewayLost, Goto, Finish, TypeOK, LocalsOK
<1>5. /\ EntityCurrent(r, o)' /\ BaseCurrent(r, o)' /\ SettlingOK(r, o)' /\ VoidingOK(r, o)'
      /\ LoadedCurrent(r, o)' /\ CreatingOK(r, o)' /\ RefusalKnown(r, o)'
  BY <1>1, <1>2, <1>3, <1>4 DEF HandlerOK, EntityCurrent, Reading, Changing, BaseCurrent,
     SettlingOK, VoidingOK, LoadedCurrent, CreatingOK, RefusalKnown
<1>6. InitiatingOK(r, o)'
  <2>1. CASE pc'[r] = "done"
    BY <2>1 DEF InitiatingOK, Initiated, Opening
  <2>2. CASE pc'[r] = "pay_select"
    <3>1. pay'[r].status = "PENDING" /\ payments[o].status = IF pay'[r].fresh THEN Absent ELSE
       "REJECTED"
      BY <1>2, <1>4, <2>2 DEF OpenedPayment, SetPaymentStatus, TypeOK, LocalsOK, PaymentEntity,
         Absent
    <3>. QED BY <1>1, <1>2, <2>2, <3>1 DEF InitiatingOK, Initiated
  <2>. QED BY <1>4, <2>1, <2>2
<1>. QED BY <1>5, <1>6 DEF HandlerOK

\* The order a handler holds: round trips of the repositories.
LEMMA RepositoryEntity ==
  ASSUME TypeOK, NEW r \in Requests, SessionInv(r), WorkInv(r), SequenceTables,
         NEW o \in Orders, req[r].order = o, HandlerOK(r, o), RepositoryStep(r)
  PROVE  EntityCurrent(r, o)'
<1>0. /\ req'[r] = req[r]
      /\ UNCHANGED View => Unseen(o)
  BY SameRequest, UnseenView
<1>1. CASE LoadRow(r)
  BY <1>1, <1>0 DEF TypeOK, LocalsOK, dbVars, worldVars, ghostVars, orderLocal, flowLocal,
     SessionInv, RequestOK, Path, Request, OpNames, HandlerOK, View, Unseen, EntityCurrent,
     Reading, Changing, Change, ItemsOwned, IsApproval, WorkInv, PhaseKnown, Phases, LoadRow,
     Goto, Finish, InMemory
<1>2. CASE LoadItems(r)
  <2>1. ord[r] = InMemory(orders[o], {}) /\ ord' = [ord EXCEPT ![r].items = ItemsOf(o)]
    BY <1>2 DEF LoadItems, HandlerOK, EntityCurrent, ItemsOf
  <2>3. ord'[r] = Stored(o)
    BY <2>1 DEF TypeOK, LocalsOK, InMemory, Stored
  <2>2. pc'[r] = AfterLoad(r) /\ pc[r] = "load_items" /\ stage'[r] = stage[r] /\ Stored(o)' =
     Stored(o)
    BY <1>2, UnseenView DEF LoadItems, Goto, TypeOK, LocalsOK, View, Unseen, dbVars, worldVars,
       ghostVars, flowLocal
  <2>. QED BY <1>0, <2>3, <2>2 DEF EntityCurrent, Reading, Changing, AfterLoad, SessionInv,
     RequestOK, Path, Request, OpNames
<1>3. CASE LoadCached(r)
  <2>1. ord'[r] = Stored(o)
    BY <1>3 DEF LoadCached, TypeOK, LocalsOK, HandlerOK, BaseCurrent
  <2>2. pc'[r] = AfterLoad(r) /\ pc[r] = "load" /\ stage'[r] = stage[r] /\ Stored(o)' =
     Stored(o)
    BY <1>3, UnseenView DEF LoadCached, Goto, TypeOK, LocalsOK, View, Unseen, dbVars, worldVars,
       ghostVars, flowLocal
  <2>. QED BY <1>0, <2>1, <2>2 DEF EntityCurrent, Reading, Changing, AfterLoad, SessionInv,
     RequestOK, Path, Request, OpNames
<1>4. CASE SaveSelect(r)
  BY <1>4, <1>0 DEF TypeOK, LocalsOK, dbVars, worldVars, ghostVars, orderLocal, flowLocal,
     SessionInv, RequestOK, Path, Request, OpNames, HandlerOK, View, Unseen, EntityCurrent,
     Reading, Changing, Change, ItemsOwned, IsApproval, WorkInv, PhaseKnown, Phases, SaveSelect,
     Goto
<1>5. CASE SaveCheck(r)
  BY <1>5, <1>0 DEF TypeOK, LocalsOK, dbVars, worldVars, ghostVars, orderLocal, flowLocal,
     SessionInv, RequestOK, Path, Request, OpNames, HandlerOK, View, Unseen, EntityCurrent,
     Reading, Changing, Change, ItemsOwned, IsApproval, WorkInv, PhaseKnown, Phases, SaveCheck,
     CheckVersion, Goto, Finish
<1>6. CASE SaveCheckCached(r)
  BY <1>6, <1>0 DEF TypeOK, LocalsOK, dbVars, worldVars, ghostVars, orderLocal, flowLocal,
     SessionInv, RequestOK, Path, Request, OpNames, HandlerOK, View, Unseen, EntityCurrent,
     Reading, Changing, Change, ItemsOwned, IsApproval, WorkInv, PhaseKnown, Phases,
     SaveCheckCached, CheckVersion, Goto, Finish
<1>7. CASE SaveCommit(r)
  BY <1>7, SaveCommitHandler DEF HandlerOK
<1>8. CASE SaveFails(r)
  BY <1>8, <1>0 DEF TypeOK, LocalsOK, dbVars, worldVars, ghostVars, orderLocal, flowLocal,
     SessionInv, RequestOK, Path, Request, OpNames, HandlerOK, View, Unseen, EntityCurrent,
     Reading, Changing, Change, ItemsOwned, IsApproval, WorkInv, PhaseKnown, Phases, SaveFails,
     Finish
<1>9. CASE InsertOrder(r)
  BY <1>9, InsertHandler DEF HandlerOK
<1>10. CASE PaymentSelect(r)
  BY <1>10, <1>0 DEF TypeOK, LocalsOK, dbVars, worldVars, ghostVars, orderLocal, flowLocal,
     SessionInv, RequestOK, Path, Request, OpNames, HandlerOK, View, Unseen, EntityCurrent,
     Reading, Changing, Change, ItemsOwned, IsApproval, WorkInv, PhaseKnown, Phases,
     PaymentSelect, Goto
<1>11. CASE PaymentCommit(r)
  BY <1>11, PaymentCommitHandler DEF HandlerOK
<1>12. CASE PaymentInsertFails(r)
  BY <1>12, <1>0 DEF TypeOK, LocalsOK, dbVars, worldVars, ghostVars, orderLocal, flowLocal,
     SessionInv, RequestOK, Path, Request, OpNames, HandlerOK, View, Unseen, EntityCurrent,
     Reading, Changing, Change, ItemsOwned, IsApproval, WorkInv, PhaseKnown, Phases,
     PaymentInsertFails, Finish
<1>13. CASE IdemGet(r)
  BY <1>13, <1>0 DEF TypeOK, LocalsOK, dbVars, worldVars, ghostVars, orderLocal, flowLocal,
     SessionInv, RequestOK, Path, Request, OpNames, HandlerOK, View, Unseen, EntityCurrent,
     Reading, Changing, Change, ItemsOwned, IsApproval, WorkInv, PhaseKnown, Phases, IdemGet,
     Goto, Finish, AfterLookup
<1>14. CASE IdemSave(r)
  BY <1>14, <1>0 DEF TypeOK, LocalsOK, dbVars, worldVars, ghostVars, orderLocal, flowLocal,
     SessionInv, RequestOK, Path, Request, OpNames, HandlerOK, View, Unseen, EntityCurrent,
     Reading, Changing, Change, ItemsOwned, IsApproval, WorkInv, PhaseKnown, Phases, IdemSave,
     Finish
<1>15. CASE Send(r)
  BY <1>15, <1>0 DEF TypeOK, LocalsOK, dbVars, worldVars, ghostVars, orderLocal, flowLocal,
     SessionInv, RequestOK, Path, Request, OpNames, HandlerOK, View, Unseen, EntityCurrent,
     Reading, Changing, Change, ItemsOwned, IsApproval, WorkInv, PhaseKnown, Phases, Send, Goto
<1>16. CASE OutboxCommit(r)
  BY <1>16, <1>0 DEF TypeOK, LocalsOK, dbVars, worldVars, ghostVars, orderLocal, flowLocal,
     SessionInv, RequestOK, Path, Request, OpNames, HandlerOK, View, Unseen, EntityCurrent,
     Reading, Changing, Change, ItemsOwned, IsApproval, WorkInv, PhaseKnown, Phases,
     OutboxCommit, Goto, AfterPublish, Conclude
<1>17. CASE Notify(r)
  BY <1>17, <1>0 DEF TypeOK, LocalsOK, dbVars, worldVars, ghostVars, orderLocal, flowLocal,
     SessionInv, RequestOK, Path, Request, OpNames, HandlerOK, View, Unseen, EntityCurrent,
     Reading, Changing, Change, ItemsOwned, IsApproval, WorkInv, PhaseKnown, Phases, Notify,
     Goto, Finish, Conclude
<1>. QED
  BY <1>1, <1>2, <1>3, <1>4, <1>5, <1>6, <1>7, <1>8, <1>9, <1>10, <1>11, <1>12, <1>13, <1>14,
     <1>15, <1>16, <1>17 DEF RepositoryStep

\* The same for the steps of the handlers.
LEMMA UseCaseEntity ==
  ASSUME TypeOK, NEW r \in Requests, SessionInv(r), WorkInv(r), SequenceTables,
         NEW o \in Orders, req[r].order = o, HandlerOK(r, o), UseCaseStep(r)
  PROVE  EntityCurrent(r, o)'
<1>0. /\ req'[r] = req[r]
      /\ UNCHANGED View => Unseen(o)
  BY SameRequest, UnseenView
<1>1. CASE CheckCustomer(r)
  BY <1>1, <1>0 DEF TypeOK, LocalsOK, dbVars, worldVars, ghostVars, orderLocal, flowLocal,
     SessionInv, RequestOK, Path, Request, OpNames, HandlerOK, View, Unseen, EntityCurrent,
     Reading, Changing, Change, ItemsOwned, IsApproval, WorkInv, PhaseKnown, Phases,
     CheckCustomer, CustomerAnswers, Goto, Finish
<1>2. CASE CheckNoActiveOrder(r)
  BY <1>2, <1>0 DEF TypeOK, LocalsOK, dbVars, worldVars, ghostVars, orderLocal, flowLocal,
     SessionInv, RequestOK, Path, Request, OpNames, HandlerOK, View, Unseen, EntityCurrent,
     Reading, Changing, Change, ItemsOwned, IsApproval, WorkInv, PhaseKnown, Phases,
     CheckNoActiveOrder, Goto, Finish
<1>3. CASE AddProduct(r)
  <2>1. req[r].op = "add" /\ ord[r] = Stored(o)
    BY <1>3 DEF AddProduct, SessionInv, RequestOK, Path, Request, OpNames, HandlerOK,
       EntityCurrent, Reading
  <2>2. Stored(o)' = Stored(o) /\ UNCHANGED items
    BY <1>3, UnseenView DEF AddProduct, View, Unseen, dbVars, worldVars, ghostVars
  <2>3. CASE pc'[r] = "done"
    BY <2>3 DEF EntityCurrent, Reading, Changing
  <2>4. CASE pc'[r] # "done"
    <3>1. CanEditItems(ord[r]) /\ pc'[r] = "select"
      BY <1>3, <2>4 DEF AddProduct, Goto, Finish, TypeOK, LocalsOK
    <3>2. PICK id \in ItemIds : FreshItem(id) /\ ord'[r] \in AddItemTo(NextVersion(Stored(o)),
       NewItem(r, id))
      BY <1>3, <2>1, <2>4 DEF AddProduct, Goto, Finish, TypeOK, LocalsOK
    <3>3. ord'[r] = [NextVersion(Stored(o)) EXCEPT !.items = ord'[r].items]
      BY <3>2, OnlyItems, StoredType, ChangedType
    <3>4. ItemsOwned(r, o)'
      BY <2>2, <3>2, AddedItems DEF ItemsOwned, SequenceTables
    <3>. QED BY <1>0, <2>1, <2>2, <3>1, <3>3, <3>4 DEF EntityCurrent, Reading, Changing, Change
  <2>. QED BY <2>3, <2>4
<1>4. CASE RemoveProduct(r)
  <2>1. req[r].op = "remove" /\ ord[r] = Stored(o)
    BY <1>4 DEF RemoveProduct, SessionInv, RequestOK, Path, Request, OpNames, HandlerOK,
       EntityCurrent, Reading
  <2>2. Stored(o)' = Stored(o) /\ UNCHANGED items
    BY <1>4, UnseenView DEF RemoveProduct, View, Unseen, dbVars, worldVars, ghostVars
  <2>3. CASE pc'[r] = "done"
    BY <2>3 DEF EntityCurrent, Reading, Changing
  <2>4. CASE pc'[r] # "done"
    <3>. DEFINE n == NextVersion(Stored(o))
    <3>1. /\ CanEditItems(ord[r]) /\ pc'[r] = "select"
          /\ ord'[r] = RemoveItemFrom(n, req[r].item)
      BY <1>4, <2>1, <2>4 DEF RemoveProduct, Goto, Finish, TypeOK, LocalsOK
    <3>2. n \in Entity /\ n.items = ItemsOf(o)
      BY StoredType, StoredItems, SameItems, ChangedType DEF SequenceTables
    <3>. HIDE DEF n
    <3>3. ord'[r] = [n EXCEPT !.items = ord'[r].items]
      BY <3>1, <3>2, OnlyItems
    <3>4. \A i \in ord'[r].items : i \in ItemsOf(o)
      BY <3>1, <3>2 DEF RemoveItemFrom, Entity
    <3>5. ItemsOwned(r, o)'
      BY <2>2, <3>4, StoredItems DEF ItemsOwned, SequenceTables
    <3>. QED BY <1>0, <2>1, <2>2, <3>1, <3>3, <3>5 DEF EntityCurrent, Reading, Changing, Change,
       n
  <2>. QED BY <2>3, <2>4
<1>5. CASE SagaSelect(r)
  BY <1>5, <1>0 DEF TypeOK, LocalsOK, dbVars, worldVars, ghostVars, orderLocal, flowLocal,
     SessionInv, RequestOK, Path, Request, OpNames, HandlerOK, View, Unseen, EntityCurrent,
     Reading, Changing, Change, ItemsOwned, IsApproval, WorkInv, PhaseKnown, Phases, SagaSelect,
     Goto
<1>6. CASE SagaCommit(r)
  BY <1>6, <1>0 DEF TypeOK, LocalsOK, dbVars, worldVars, ghostVars, orderLocal, flowLocal,
     SessionInv, RequestOK, Path, Request, OpNames, HandlerOK, View, Unseen, EntityCurrent,
     Reading, Changing, Change, ItemsOwned, IsApproval, WorkInv, PhaseKnown, Phases, SagaCommit,
     Goto, Finish, AfterSagaSave
<1>7. CASE ValidateCustomer(r)
  BY <1>7, <1>0 DEF TypeOK, LocalsOK, dbVars, worldVars, ghostVars, orderLocal, flowLocal,
     SessionInv, RequestOK, Path, Request, OpNames, HandlerOK, View, Unseen, EntityCurrent,
     Reading, Changing, Change, ItemsOwned, IsApproval, WorkInv, PhaseKnown, Phases,
     ValidateCustomer, Goto, Finish, FailPhase
<1>8. CASE FetchPrices(r)
  <2>1. req[r].op = "confirm" /\ ord[r] = Stored(o)
    BY <1>8 DEF FetchPrices, SessionInv, RequestOK, Path, Request, OpNames, HandlerOK,
       EntityCurrent, Reading
  <2>2. Stored(o)' = Stored(o) /\ UNCHANGED items
    BY <1>8, UnseenView DEF FetchPrices, View, Unseen, dbVars, worldVars, ghostVars
  <2>3. CASE pc'[r] = "done"
    BY <2>3 DEF EntityCurrent, Reading, Changing
  <2>4. CASE pc'[r] = "saga_select"
    BY <1>8, <2>4 DEF FetchPrices, FailPhase, Goto, Finish, TypeOK, LocalsOK, EntityCurrent,
       Reading, Changing
  <2>5. CASE pc'[r] \notin {"done", "saga_select"}
    <3>. DEFINE n == NextVersion(Stored(o))
    <3>1. /\ CanConfirm(ord[r]) /\ pc'[r] = "select"
          /\ \E prices \in [ProductsOf(Stored(o)) -> Prices] : ord'[r] = ConfirmWithPrices(n,
                prices)
      BY <1>8, <2>1, <2>5 DEF FetchPrices, FailPhase, Goto, Finish, TypeOK, LocalsOK
    <3>2. n \in Entity /\ n.items = ItemsOf(o)
      BY StoredType, StoredItems, SameItems, ChangedType DEF SequenceTables
    <3>. HIDE DEF n
    <3>3. ItemsOwned(r, o)'
      <4>1. PICK prices : ord'[r] = ConfirmWithPrices(n, prices)
        BY <3>1
      <4>2. ord'[r].items = {[i EXCEPT !.price = prices[i.product]] : i \in ItemsOf(o)}
        BY <3>2, <4>1 DEF ConfirmWithPrices, Entity
      <4>3. \A i \in ord'[r].items : \E k \in ItemsOf(o) :
               i = [k EXCEPT !.price = prices[k.product]] /\ i.id = k.id /\ i.order = k.order
        BY <4>2, <3>2 DEF Entity, ItemRow
      <4>. QED BY <2>2, <4>3, StoredItems DEF ItemsOwned, SequenceTables
    <3>. QED BY <1>0, <2>1, <2>2, <3>1, <3>3 DEF EntityCurrent, Reading, Changing, Change, n
  <2>. QED BY <2>3, <2>4, <2>5
<1>9. CASE VoidPendingPayment(r)
  BY <1>9, <1>0 DEF TypeOK, LocalsOK, dbVars, worldVars, ghostVars, orderLocal, flowLocal,
     SessionInv, RequestOK, Path, Request, OpNames, HandlerOK, View, Unseen, EntityCurrent,
     Reading, Changing, Change, ItemsOwned, IsApproval, WorkInv, PhaseKnown, Phases,
     VoidPendingPayment, Goto
<1>10. CASE ApplyCancel(r)
  <2>1. req[r].op = "cancel" /\ ord[r] = Stored(o) /\ stage'[r] = stage[r]
    BY <1>10 DEF ApplyCancel, SessionInv, RequestOK, Path, Request, OpNames, HandlerOK,
       EntityCurrent, Reading, flowLocal
  <2>2. Stored(o)' = Stored(o) /\ UNCHANGED items
    BY <1>10, UnseenView DEF ApplyCancel, View, Unseen, dbVars, worldVars, ghostVars
  <2>3. CASE pc'[r] = "done"
    BY <2>3 DEF EntityCurrent, Reading, Changing
  <2>4. CASE pc'[r] # "done"
    <3>1. /\ CanCancel(Stored(o)) /\ pc'[r] = "select"
          /\ ord'[r] = CancelOrder(NextVersion(Stored(o)))
      BY <1>10, <2>1, <2>4 DEF ApplyCancel, Goto, Finish, TypeOK, LocalsOK, flowLocal
    <3>2. NextVersion(Stored(o)) \in Entity /\ NextVersion(Stored(o)).items = Stored(o).items
      BY StoredType, ChangedType, SameItems
    <3>3. ord'[r].items = Stored(o).items
      BY <3>1, <3>2, SameItems
    <3>4. ItemsOwned(r, o)'
      BY <2>2, <3>3, KeepsItems DEF SequenceTables
    <3>. QED BY <1>0, <2>1, <2>2, <3>1, <3>4 DEF EntityCurrent, Reading, Changing, Change,
       IsApproval
  <2>. QED BY <2>3, <2>4
<1>11. CASE ReturnPaymentOfKey(r)
  BY <1>11, <1>0 DEF TypeOK, LocalsOK, dbVars, worldVars, ghostVars, orderLocal, flowLocal,
     SessionInv, RequestOK, Path, Request, OpNames, HandlerOK, View, Unseen, EntityCurrent,
     Reading, Changing, Change, ItemsOwned, IsApproval, WorkInv, PhaseKnown, Phases,
     ReturnPaymentOfKey, Goto, Finish
<1>12. CASE PreparePayment(r)
  <2>1. req[r].op = "initiate" /\ ord[r] = Stored(o) /\ stage'[r] = stage[r] /\ stage[r] #
     "compensating"
    BY <1>12 DEF PreparePayment, SessionInv, RequestOK, Path, Request, OpNames, HandlerOK,
       EntityCurrent, Reading, flowLocal, WorkInv, PhaseKnown
  <2>2. Stored(o)' = Stored(o) /\ UNCHANGED items
    BY <1>12, UnseenView DEF PreparePayment, View, Unseen, dbVars, worldVars, ghostVars
  <2>3. CASE pc'[r] = "done"
    BY <2>3 DEF EntityCurrent, Reading, Changing
  <2>4. CASE pc'[r] # "done"
    <3>1. /\ CanInitiatePayment(Stored(o)) /\ pc'[r] = "select"
          /\ ord'[r] = MarkPaymentPending(NextVersion(Stored(o))) /\ prev'[r] = Stored(o).status
                /\ stage[r] # "compensating"
      BY <1>12, <2>1, <2>4 DEF PreparePayment, Goto, Finish, TypeOK, LocalsOK, flowLocal
    <3>2. NextVersion(Stored(o)) \in Entity /\ NextVersion(Stored(o)).items = Stored(o).items
      BY StoredType, ChangedType, SameItems
    <3>3. ord'[r].items = Stored(o).items
      BY <3>1, <3>2, SameItems
    <3>4. ItemsOwned(r, o)'
      BY <2>2, <3>3, KeepsItems DEF SequenceTables
    <3>. QED BY <1>0, <2>1, <2>2, <3>1, <3>4 DEF EntityCurrent, Reading, Changing, Change,
       IsApproval
  <2>. QED BY <2>3, <2>4
<1>13. CASE GatewayAccepts(r)
  BY <1>13, ChargeHandler DEF HandlerOK
<1>14. CASE GatewayUnavailable(r)
  BY <1>14, <1>0, DeniedUnseen DEF TypeOK, LocalsOK, dbVars, worldVars, ghostVars, orderLocal, flowLocal,
     SessionInv, RequestOK, Path, Request, OpNames, HandlerOK, View, Unseen, EntityCurrent,
     Reading, Changing, Change, ItemsOwned, IsApproval, WorkInv, PhaseKnown, Phases,
     GatewayUnavailable
<1>15. CASE GatewayRefuses(r)
  BY <1>15, <1>0, DeniedUnseen DEF TypeOK, LocalsOK, dbVars, worldVars, ghostVars, orderLocal, flowLocal,
     SessionInv, RequestOK, Path, Request, OpNames, HandlerOK, View, Unseen, EntityCurrent,
     Reading, Changing, Change, ItemsOwned, IsApproval, WorkInv, PhaseKnown, Phases,
     GatewayRefuses
<1>16. CASE GatewayLost(r)
  BY <1>16, ChargeHandler DEF HandlerOK
<1>17. CASE RestorePreviousStatus(r)
  <2>1. req[r].op = "initiate" /\ ord[r] = Stored(o) /\ stage'[r] = stage[r] /\ stage[r] =
     "compensating"
    BY <1>17 DEF RestorePreviousStatus, SessionInv, RequestOK, Path, Request, OpNames,
       HandlerOK, EntityCurrent, Reading, flowLocal, WorkInv, PhaseKnown
  <2>2. Stored(o)' = Stored(o) /\ UNCHANGED items
    BY <1>17, UnseenView DEF RestorePreviousStatus, View, Unseen, dbVars, worldVars, ghostVars
  <2>3. CASE pc'[r] = "done"
    BY <2>3 DEF EntityCurrent, Reading, Changing
  <2>4. CASE pc'[r] # "done"
    <3>1. /\ AwaitsPayment(Stored(o)) /\ pc'[r] = "select"
          /\ ord'[r] = RestoreStatus(NextVersion(Stored(o)), prev[r]) /\ prev'[r] = prev[r]
      BY <1>17, <2>1, <2>4 DEF RestorePreviousStatus, Goto, Finish, TypeOK, LocalsOK, flowLocal
    <3>2. NextVersion(Stored(o)) \in Entity /\ NextVersion(Stored(o)).items = Stored(o).items
      BY StoredType, ChangedType, SameItems
    <3>3. ord'[r].items = Stored(o).items
      BY <3>1, <3>2, SameItems
    <3>4. ItemsOwned(r, o)'
      BY <2>2, <3>3, KeepsItems DEF SequenceTables
    <3>. QED BY <1>0, <2>1, <2>2, <3>1, <3>4 DEF EntityCurrent, Reading, Changing, Change,
       IsApproval
  <2>. QED BY <2>3, <2>4
<1>18. CASE LoadPayment(r)
  BY <1>18, <1>0 DEF TypeOK, LocalsOK, dbVars, worldVars, ghostVars, orderLocal, flowLocal,
     SessionInv, RequestOK, Path, Request, OpNames, HandlerOK, View, Unseen, EntityCurrent,
     Reading, Changing, Change, ItemsOwned, IsApproval, WorkInv, PhaseKnown, Phases,
     LoadPayment, Goto, Finish
<1>19. CASE ApplyVerdict(r)
  <2>1. req[r].op = "callback" /\ ord[r] = Stored(o) /\ stage'[r] = stage[r]
    BY <1>19 DEF ApplyVerdict, SessionInv, RequestOK, Path, Request, OpNames, HandlerOK,
       EntityCurrent, Reading, flowLocal
  <2>2. Stored(o)' = Stored(o) /\ UNCHANGED items
    BY <1>19, UnseenView DEF ApplyVerdict, View, Unseen, dbVars, worldVars, ghostVars
  <2>3. CASE pc'[r] = "done"
    BY <2>3 DEF EntityCurrent, Reading, Changing
  <2>4. CASE pc'[r] # "done"
    <3>1. /\ AwaitsPayment(Stored(o)) /\ pc'[r] = "pay_select"
          /\ ord'[r] = IF IsApproval(r) THEN ApplyApproved(NextVersion(Stored(o))) ELSE
                ApplyRejected(NextVersion(Stored(o)))
      BY <1>19, <2>1, <2>4 DEF ApplyVerdict, Goto, Finish, TypeOK, LocalsOK, flowLocal
    <3>2. NextVersion(Stored(o)) \in Entity /\ NextVersion(Stored(o)).items = Stored(o).items
      BY StoredType, ChangedType, SameItems
    <3>3. ord'[r].items = Stored(o).items
      BY <3>1, <3>2, SameItems
    <3>4. ItemsOwned(r, o)'
      BY <2>2, <3>3, KeepsItems DEF SequenceTables
    <3>. QED BY <1>0, <2>1, <2>2, <3>1, <3>4 DEF EntityCurrent, Reading, Changing, Change,
       IsApproval
  <2>. QED BY <2>3, <2>4
<1>. QED
  BY <1>1, <1>2, <1>3, <1>4, <1>5, <1>6, <1>7, <1>8, <1>9, <1>10, <1>11, <1>12, <1>13, <1>14,
     <1>15, <1>16, <1>17, <1>18, <1>19 DEF UseCaseStep

\* What the other handlers than initiate rely on: round trips of the repositories.
LEMMA RepositoryOrder ==
  ASSUME TypeOK, NEW r \in Requests, SessionInv(r), WorkInv(r), SequenceTables,
         NEW o \in Orders, req[r].order = o, HandlerOK(r, o), RepositoryStep(r)
  PROVE  (BaseCurrent(r, o) /\ SettlingOK(r, o) /\ VoidingOK(r, o) /\ CreatingOK(r, o))'
<1>0. /\ req'[r] = req[r]
      /\ UNCHANGED View => Unseen(o)
  BY SameRequest, UnseenView
<1>1. CASE LoadRow(r)
  BY <1>1, <1>0 DEF TypeOK, LocalsOK, dbVars, worldVars, ghostVars, orderLocal, flowLocal,
     SessionInv, RequestOK, Path, Request, OpNames, HandlerOK, View, Unseen, BaseCurrent,
     SettlingOK, VoidingOK, CreatingOK, IsApproval, LoadRow, Goto, Finish
<1>2. CASE LoadItems(r)
  BY <1>2, <1>0 DEF TypeOK, LocalsOK, dbVars, worldVars, ghostVars, orderLocal, flowLocal,
     SessionInv, RequestOK, Path, Request, OpNames, HandlerOK, View, Unseen, BaseCurrent,
     SettlingOK, VoidingOK, CreatingOK, IsApproval, LoadItems, Goto, AfterLoad
<1>3. CASE LoadCached(r)
  BY <1>3, <1>0 DEF TypeOK, LocalsOK, dbVars, worldVars, ghostVars, orderLocal, flowLocal,
     SessionInv, RequestOK, Path, Request, OpNames, HandlerOK, View, Unseen, BaseCurrent,
     SettlingOK, VoidingOK, CreatingOK, IsApproval, LoadCached, Goto, AfterLoad
<1>4. CASE SaveSelect(r)
  BY <1>4, <1>0 DEF TypeOK, LocalsOK, dbVars, worldVars, ghostVars, orderLocal, flowLocal,
     SessionInv, RequestOK, Path, Request, OpNames, HandlerOK, View, Unseen, BaseCurrent,
     SettlingOK, VoidingOK, CreatingOK, IsApproval, SaveSelect, Goto, InMemory
<1>5. CASE SaveCheck(r)
  <2>1. base[r] = InMemory(orders[o], {}) /\ base' = [base EXCEPT ![r].items = ItemsOf(o)]
    BY <1>5 DEF SaveCheck, HandlerOK, BaseCurrent, ItemsOf
  <2>2. base'[r] = Stored(o) /\ Stored(o)' = Stored(o) /\ Unseen(o)
    <3>1. base'[r] = Stored(o)
      BY <2>1 DEF TypeOK, LocalsOK, InMemory, Stored
    <3>2. UNCHANGED View
      BY <1>5 DEF SaveCheck, View, dbVars, worldVars, ghostVars
    <3>. QED BY <3>1, <3>2, UnseenView DEF Unseen
  <2>. QED
    BY <1>5, <1>0, <2>2 DEF SaveCheck, CheckVersion, Goto, Finish, TypeOK, LocalsOK, flowLocal,
       HandlerOK, BaseCurrent, SettlingOK, VoidingOK, CreatingOK, IsApproval, Unseen
<1>6. CASE SaveCheckCached(r)
  BY <1>6, <1>0 DEF TypeOK, LocalsOK, dbVars, worldVars, ghostVars, orderLocal, flowLocal,
     SessionInv, RequestOK, Path, Request, OpNames, HandlerOK, View, Unseen, BaseCurrent,
     SettlingOK, VoidingOK, CreatingOK, IsApproval, SaveCheckCached, CheckVersion, Goto, Finish
<1>7. CASE SaveCommit(r)
  BY <1>7, SaveCommitHandler DEF HandlerOK
<1>8. CASE SaveFails(r)
  BY <1>8, <1>0 DEF TypeOK, LocalsOK, dbVars, worldVars, ghostVars, orderLocal, flowLocal,
     SessionInv, RequestOK, Path, Request, OpNames, HandlerOK, View, Unseen, BaseCurrent,
     SettlingOK, VoidingOK, CreatingOK, IsApproval, SaveFails, Finish
<1>9. CASE InsertOrder(r)
  BY <1>9, InsertHandler DEF HandlerOK
<1>10. CASE PaymentSelect(r)
  BY <1>10, <1>0 DEF TypeOK, LocalsOK, dbVars, worldVars, ghostVars, orderLocal, flowLocal,
     SessionInv, RequestOK, Path, Request, OpNames, HandlerOK, View, Unseen, BaseCurrent,
     SettlingOK, VoidingOK, CreatingOK, IsApproval, PaymentSelect, Goto
<1>11. CASE PaymentCommit(r)
  BY <1>11, PaymentCommitHandler DEF HandlerOK
<1>12. CASE PaymentInsertFails(r)
  BY <1>12, <1>0 DEF TypeOK, LocalsOK, dbVars, worldVars, ghostVars, orderLocal, flowLocal,
     SessionInv, RequestOK, Path, Request, OpNames, HandlerOK, View, Unseen, BaseCurrent,
     SettlingOK, VoidingOK, CreatingOK, IsApproval, PaymentInsertFails, Finish
<1>13. CASE IdemGet(r)
  BY <1>13, <1>0 DEF TypeOK, LocalsOK, dbVars, worldVars, ghostVars, orderLocal, flowLocal,
     SessionInv, RequestOK, Path, Request, OpNames, HandlerOK, View, Unseen, BaseCurrent,
     SettlingOK, VoidingOK, CreatingOK, IsApproval, IdemGet, Goto, Finish, AfterLookup
<1>14. CASE IdemSave(r)
  BY <1>14, <1>0 DEF TypeOK, LocalsOK, dbVars, worldVars, ghostVars, orderLocal, flowLocal,
     SessionInv, RequestOK, Path, Request, OpNames, HandlerOK, View, Unseen, BaseCurrent,
     SettlingOK, VoidingOK, CreatingOK, IsApproval, IdemSave, Finish
<1>15. CASE Send(r)
  BY <1>15, <1>0 DEF TypeOK, LocalsOK, dbVars, worldVars, ghostVars, orderLocal, flowLocal,
     SessionInv, RequestOK, Path, Request, OpNames, HandlerOK, View, Unseen, BaseCurrent,
     SettlingOK, VoidingOK, CreatingOK, IsApproval, Send, Goto
<1>16. CASE OutboxCommit(r)
  BY <1>16, <1>0 DEF TypeOK, LocalsOK, dbVars, worldVars, ghostVars, orderLocal, flowLocal,
     SessionInv, RequestOK, Path, Request, OpNames, HandlerOK, View, Unseen, BaseCurrent,
     SettlingOK, VoidingOK, CreatingOK, IsApproval, OutboxCommit, Goto, AfterPublish, Conclude
<1>17. CASE Notify(r)
  BY <1>17, <1>0 DEF TypeOK, LocalsOK, dbVars, worldVars, ghostVars, orderLocal, flowLocal,
     SessionInv, RequestOK, Path, Request, OpNames, HandlerOK, View, Unseen, BaseCurrent,
     SettlingOK, VoidingOK, CreatingOK, IsApproval, Notify, Goto, Finish, Conclude
<1>. QED
  BY <1>1, <1>2, <1>3, <1>4, <1>5, <1>6, <1>7, <1>8, <1>9, <1>10, <1>11, <1>12, <1>13, <1>14,
     <1>15, <1>16, <1>17 DEF RepositoryStep

\* The same for the steps of the handlers.
LEMMA UseCaseOrder ==
  ASSUME TypeOK, NEW r \in Requests, SessionInv(r), WorkInv(r), SequenceTables,
         NEW o \in Orders, req[r].order = o, HandlerOK(r, o), UseCaseStep(r)
  PROVE  (BaseCurrent(r, o) /\ SettlingOK(r, o) /\ VoidingOK(r, o) /\ CreatingOK(r, o))'
<1>0. /\ req'[r] = req[r]
      /\ UNCHANGED View => Unseen(o)
  BY SameRequest, UnseenView
<1>1. CASE CheckCustomer(r)
  BY <1>1, <1>0 DEF TypeOK, LocalsOK, dbVars, worldVars, ghostVars, orderLocal, flowLocal,
     SessionInv, RequestOK, Path, Request, OpNames, HandlerOK, View, Unseen, BaseCurrent,
     SettlingOK, VoidingOK, CreatingOK, IsApproval, CheckCustomer, CustomerAnswers, Goto, Finish
<1>2. CASE CheckNoActiveOrder(r)
  BY <1>2, <1>0 DEF TypeOK, LocalsOK, dbVars, worldVars, ghostVars, orderLocal, flowLocal,
     SessionInv, RequestOK, Path, Request, OpNames, HandlerOK, View, Unseen, BaseCurrent,
     SettlingOK, VoidingOK, CreatingOK, IsApproval, CheckNoActiveOrder, Goto, Finish
<1>3. CASE AddProduct(r)
  BY <1>3, <1>0 DEF TypeOK, LocalsOK, dbVars, worldVars, ghostVars, orderLocal, flowLocal,
     SessionInv, RequestOK, Path, Request, OpNames, HandlerOK, View, Unseen, BaseCurrent,
     SettlingOK, VoidingOK, CreatingOK, IsApproval, AddProduct, Goto, Finish
<1>4. CASE RemoveProduct(r)
  BY <1>4, <1>0 DEF TypeOK, LocalsOK, dbVars, worldVars, ghostVars, orderLocal, flowLocal,
     SessionInv, RequestOK, Path, Request, OpNames, HandlerOK, View, Unseen, BaseCurrent,
     SettlingOK, VoidingOK, CreatingOK, IsApproval, RemoveProduct, Goto, Finish
<1>5. CASE SagaSelect(r)
  BY <1>5, <1>0 DEF TypeOK, LocalsOK, dbVars, worldVars, ghostVars, orderLocal, flowLocal,
     SessionInv, RequestOK, Path, Request, OpNames, HandlerOK, View, Unseen, BaseCurrent,
     SettlingOK, VoidingOK, CreatingOK, IsApproval, SagaSelect, Goto
<1>6. CASE SagaCommit(r)
  BY <1>6, <1>0 DEF TypeOK, LocalsOK, dbVars, worldVars, ghostVars, orderLocal, flowLocal,
     SessionInv, RequestOK, Path, Request, OpNames, HandlerOK, View, Unseen, BaseCurrent,
     SettlingOK, VoidingOK, CreatingOK, IsApproval, SagaCommit, Goto, Finish, AfterSagaSave
<1>7. CASE ValidateCustomer(r)
  BY <1>7, <1>0 DEF TypeOK, LocalsOK, dbVars, worldVars, ghostVars, orderLocal, flowLocal,
     SessionInv, RequestOK, Path, Request, OpNames, HandlerOK, View, Unseen, BaseCurrent,
     SettlingOK, VoidingOK, CreatingOK, IsApproval, ValidateCustomer, Goto, Finish, FailPhase
<1>8. CASE FetchPrices(r)
  BY <1>8, <1>0 DEF TypeOK, LocalsOK, dbVars, worldVars, ghostVars, orderLocal, flowLocal,
     SessionInv, RequestOK, Path, Request, OpNames, HandlerOK, View, Unseen, BaseCurrent,
     SettlingOK, VoidingOK, CreatingOK, IsApproval, FetchPrices, Goto, Finish, FailPhase
<1>9. CASE VoidPendingPayment(r)
  BY <1>9, <1>0 DEF TypeOK, LocalsOK, dbVars, worldVars, ghostVars, orderLocal, flowLocal,
     SessionInv, RequestOK, Path, Request, OpNames, HandlerOK, View, Unseen, BaseCurrent,
     SettlingOK, VoidingOK, CreatingOK, IsApproval, VoidPendingPayment, Goto, StoredPayment,
     SetPaymentStatus, IsVoidable
<1>10. CASE ApplyCancel(r)
  BY <1>10, <1>0 DEF TypeOK, LocalsOK, dbVars, worldVars, ghostVars, orderLocal, flowLocal,
     SessionInv, RequestOK, Path, Request, OpNames, HandlerOK, View, Unseen, BaseCurrent,
     SettlingOK, VoidingOK, CreatingOK, IsApproval, ApplyCancel, Goto, Finish
<1>11. CASE ReturnPaymentOfKey(r)
  BY <1>11, <1>0 DEF TypeOK, LocalsOK, dbVars, worldVars, ghostVars, orderLocal, flowLocal,
     SessionInv, RequestOK, Path, Request, OpNames, HandlerOK, View, Unseen, BaseCurrent,
     SettlingOK, VoidingOK, CreatingOK, IsApproval, ReturnPaymentOfKey, Goto, Finish
<1>12. CASE PreparePayment(r)
  BY <1>12, <1>0 DEF TypeOK, LocalsOK, dbVars, worldVars, ghostVars, orderLocal, flowLocal,
     SessionInv, RequestOK, Path, Request, OpNames, HandlerOK, View, Unseen, BaseCurrent,
     SettlingOK, VoidingOK, CreatingOK, IsApproval, PreparePayment, Goto, Finish
<1>13. CASE GatewayAccepts(r)
  BY <1>13, ChargeHandler DEF HandlerOK
<1>14. CASE GatewayUnavailable(r)
  BY <1>14, <1>0, DeniedUnseen DEF TypeOK, LocalsOK, dbVars, worldVars, ghostVars, orderLocal, flowLocal,
     SessionInv, RequestOK, Path, Request, OpNames, HandlerOK, View, Unseen, BaseCurrent,
     SettlingOK, VoidingOK, CreatingOK, IsApproval, GatewayUnavailable
<1>15. CASE GatewayRefuses(r)
  BY <1>15, <1>0, DeniedUnseen DEF TypeOK, LocalsOK, dbVars, worldVars, ghostVars, orderLocal, flowLocal,
     SessionInv, RequestOK, Path, Request, OpNames, HandlerOK, View, Unseen, BaseCurrent,
     SettlingOK, VoidingOK, CreatingOK, IsApproval, GatewayRefuses
<1>16. CASE GatewayLost(r)
  BY <1>16, ChargeHandler DEF HandlerOK
<1>17. CASE RestorePreviousStatus(r)
  BY <1>17, <1>0 DEF TypeOK, LocalsOK, dbVars, worldVars, ghostVars, orderLocal, flowLocal,
     SessionInv, RequestOK, Path, Request, OpNames, HandlerOK, View, Unseen, BaseCurrent,
     SettlingOK, VoidingOK, CreatingOK, IsApproval, RestorePreviousStatus, Goto, Finish
<1>18. CASE LoadPayment(r)
  BY <1>18, <1>0 DEF TypeOK, LocalsOK, dbVars, worldVars, ghostVars, orderLocal, flowLocal,
     SessionInv, RequestOK, Path, Request, OpNames, HandlerOK, View, Unseen, BaseCurrent,
     SettlingOK, VoidingOK, CreatingOK, IsApproval, LoadPayment, Goto, Finish, StoredPayment
<1>19. CASE ApplyVerdict(r)
  <2>1. UNCHANGED View /\ Unseen(o) /\ base' = base /\ cached' = cached
    BY <1>19, UnseenView DEF ApplyVerdict, View, dbVars, worldVars, ghostVars
  <2>2. req[r].op = "callback" /\ payments[o].status = "PENDING" /\ ~pay[r].fresh
    BY <1>19 DEF ApplyVerdict, SessionInv, RequestOK, Path, Request, OpNames, HandlerOK,
       SettlingOK
  <2>3. req[r].verdict \in Verdicts
    BY <1>19, <2>2 DEF ApplyVerdict, SessionInv, RequestOK
  <2>4. \/ pc'[r] = "done"
        \/ pc'[r] = "pay_select" /\ ~pay'[r].fresh /\ pay'[r].status = req[r].verdict
    <3>1. pc \in [Requests -> Labels] /\ pay \in [Requests -> PaymentEntity]
      BY DEF TypeOK, LocalsOK
    <3>2. \/ pc'[r] = "done"
          \/ pc'[r] = "pay_select" /\ IsApproval(r) /\ pay'[r] = SetPaymentStatus(pay[r],
                "APPROVED")
          \/ pc'[r] = "pay_select" /\ ~IsApproval(r) /\ pay'[r] = SetPaymentStatus(pay[r],
                "REJECTED")
      BY <1>19, <3>1 DEF ApplyVerdict, Goto, Finish
    <3>3. \A s : SetPaymentStatus(pay[r], s).status = s /\ ~SetPaymentStatus(pay[r], s).fresh
      BY <2>2, <3>1 DEF SetPaymentStatus, PaymentEntity
    <3>4. IF IsApproval(r) THEN req[r].verdict = "APPROVED" ELSE req[r].verdict = "REJECTED"
      BY <2>3 DEF IsApproval, Verdicts
    <3>. QED BY <2>2, <3>2, <3>3, <3>4
  <2>. QED
    BY <1>0, <2>1, <2>2, <2>4 DEF HandlerOK, BaseCurrent, SettlingOK, VoidingOK, CreatingOK,
       Unseen
<1>. QED
  BY <1>1, <1>2, <1>3, <1>4, <1>5, <1>6, <1>7, <1>8, <1>9, <1>10, <1>11, <1>12, <1>13, <1>14,
     <1>15, <1>16, <1>17, <1>18, <1>19 DEF UseCaseStep

\* What an initiate relies on: round trips of the repositories.
LEMMA RepositoryInitiate ==
  ASSUME TypeOK, NEW r \in Requests, SessionInv(r), WorkInv(r), SequenceTables,
         NEW o \in Orders, req[r].order = o, HandlerOK(r, o), RepositoryStep(r)
  PROVE  (InitiatingOK(r, o) /\ LoadedCurrent(r, o) /\ RefusalKnown(r, o))'
<1>0. /\ req'[r] = req[r]
      /\ UNCHANGED View => Unseen(o)
  BY SameRequest, UnseenView
<1>1. CASE LoadRow(r)
  BY <1>1, <1>0 DEF TypeOK, LocalsOK, dbVars, worldVars, ghostVars, orderLocal, flowLocal,
     SessionInv, RequestOK, Path, Request, OpNames, HandlerOK, View, Unseen, InitiatingOK,
     Initiated, Opening, AwaitsPayment, WorkInv, PhaseKnown, Phases, LoadedCurrent,
     RefusalKnown, LoadRow, Goto, Finish
<1>2. CASE LoadItems(r)
  BY <1>2, <1>0 DEF TypeOK, LocalsOK, dbVars, worldVars, ghostVars, orderLocal, flowLocal,
     SessionInv, RequestOK, Path, Request, OpNames, HandlerOK, View, Unseen, InitiatingOK,
     Initiated, Opening, AwaitsPayment, WorkInv, PhaseKnown, Phases, LoadedCurrent,
     RefusalKnown, LoadItems, Goto, AfterLoad
<1>3. CASE LoadCached(r)
  BY <1>3, <1>0 DEF TypeOK, LocalsOK, dbVars, worldVars, ghostVars, orderLocal, flowLocal,
     SessionInv, RequestOK, Path, Request, OpNames, HandlerOK, View, Unseen, InitiatingOK,
     Initiated, Opening, AwaitsPayment, WorkInv, PhaseKnown, Phases, LoadedCurrent,
     RefusalKnown, LoadCached, Goto, AfterLoad
<1>4. CASE SaveSelect(r)
  BY <1>4, <1>0 DEF TypeOK, LocalsOK, dbVars, worldVars, ghostVars, orderLocal, flowLocal,
     SessionInv, RequestOK, Path, Request, OpNames, HandlerOK, View, Unseen, InitiatingOK,
     Initiated, Opening, AwaitsPayment, WorkInv, PhaseKnown, Phases, LoadedCurrent,
     RefusalKnown, SaveSelect, Goto
<1>5. CASE SaveCheck(r)
  BY <1>5, <1>0 DEF TypeOK, LocalsOK, dbVars, worldVars, ghostVars, orderLocal, flowLocal,
     SessionInv, RequestOK, Path, Request, OpNames, HandlerOK, View, Unseen, InitiatingOK,
     Initiated, Opening, AwaitsPayment, WorkInv, PhaseKnown, Phases, LoadedCurrent,
     RefusalKnown, SaveCheck, CheckVersion, Goto, Finish
<1>6. CASE SaveCheckCached(r)
  BY <1>6, <1>0 DEF TypeOK, LocalsOK, dbVars, worldVars, ghostVars, orderLocal, flowLocal,
     SessionInv, RequestOK, Path, Request, OpNames, HandlerOK, View, Unseen, InitiatingOK,
     Initiated, Opening, AwaitsPayment, WorkInv, PhaseKnown, Phases, LoadedCurrent,
     RefusalKnown, SaveCheckCached, CheckVersion, Goto, Finish
<1>7. CASE SaveCommit(r)
  BY <1>7, SaveCommitHandler DEF HandlerOK
<1>8. CASE SaveFails(r)
  BY <1>8, <1>0 DEF TypeOK, LocalsOK, dbVars, worldVars, ghostVars, orderLocal, flowLocal,
     SessionInv, RequestOK, Path, Request, OpNames, HandlerOK, View, Unseen, InitiatingOK,
     Initiated, Opening, AwaitsPayment, WorkInv, PhaseKnown, Phases, LoadedCurrent,
     RefusalKnown, SaveFails, Finish
<1>9. CASE InsertOrder(r)
  BY <1>9, InsertHandler DEF HandlerOK
<1>10. CASE PaymentSelect(r)
  BY <1>10, <1>0 DEF TypeOK, LocalsOK, dbVars, worldVars, ghostVars, orderLocal, flowLocal,
     SessionInv, RequestOK, Path, Request, OpNames, HandlerOK, View, Unseen, InitiatingOK,
     Initiated, Opening, AwaitsPayment, WorkInv, PhaseKnown, Phases, LoadedCurrent,
     RefusalKnown, PaymentSelect, Goto, PaymentOK, SettlingOK, VoidingOK
<1>11. CASE PaymentCommit(r)
  BY <1>11, PaymentCommitHandler DEF HandlerOK
<1>12. CASE PaymentInsertFails(r)
  BY <1>12, <1>0 DEF TypeOK, LocalsOK, dbVars, worldVars, ghostVars, orderLocal, flowLocal,
     SessionInv, RequestOK, Path, Request, OpNames, HandlerOK, View, Unseen, InitiatingOK,
     Initiated, Opening, AwaitsPayment, WorkInv, PhaseKnown, Phases, LoadedCurrent,
     RefusalKnown, PaymentInsertFails, Finish
<1>13. CASE IdemGet(r)
  BY <1>13, <1>0 DEF TypeOK, LocalsOK, dbVars, worldVars, ghostVars, orderLocal, flowLocal,
     SessionInv, RequestOK, Path, Request, OpNames, HandlerOK, View, Unseen, InitiatingOK,
     Initiated, Opening, AwaitsPayment, WorkInv, PhaseKnown, Phases, LoadedCurrent,
     RefusalKnown, IdemGet, Goto, Finish, AfterLookup, StageOnHit
<1>14. CASE IdemSave(r)
  BY <1>14, <1>0 DEF TypeOK, LocalsOK, dbVars, worldVars, ghostVars, orderLocal, flowLocal,
     SessionInv, RequestOK, Path, Request, OpNames, HandlerOK, View, Unseen, InitiatingOK,
     Initiated, Opening, AwaitsPayment, WorkInv, PhaseKnown, Phases, LoadedCurrent,
     RefusalKnown, IdemSave, Finish
<1>15. CASE Send(r)
  BY <1>15, <1>0 DEF TypeOK, LocalsOK, dbVars, worldVars, ghostVars, orderLocal, flowLocal,
     SessionInv, RequestOK, Path, Request, OpNames, HandlerOK, View, Unseen, InitiatingOK,
     Initiated, Opening, AwaitsPayment, WorkInv, PhaseKnown, Phases, LoadedCurrent,
     RefusalKnown, Send, Goto
<1>16. CASE OutboxCommit(r)
  BY <1>16, <1>0 DEF TypeOK, LocalsOK, dbVars, worldVars, ghostVars, orderLocal, flowLocal,
     SessionInv, RequestOK, Path, Request, OpNames, HandlerOK, View, Unseen, InitiatingOK,
     Initiated, Opening, AwaitsPayment, WorkInv, PhaseKnown, Phases, LoadedCurrent,
     RefusalKnown, OutboxCommit, Goto, AfterPublish, Conclude
<1>17. CASE Notify(r)
  BY <1>17, <1>0 DEF TypeOK, LocalsOK, dbVars, worldVars, ghostVars, orderLocal, flowLocal,
     SessionInv, RequestOK, Path, Request, OpNames, HandlerOK, View, Unseen, InitiatingOK,
     Initiated, Opening, AwaitsPayment, WorkInv, PhaseKnown, Phases, LoadedCurrent,
     RefusalKnown, Notify, Goto, Finish, Conclude
<1>. QED
  BY <1>1, <1>2, <1>3, <1>4, <1>5, <1>6, <1>7, <1>8, <1>9, <1>10, <1>11, <1>12, <1>13, <1>14,
     <1>15, <1>16, <1>17 DEF RepositoryStep

\* The same for the steps of the handlers.
LEMMA UseCaseInitiate ==
  ASSUME TypeOK, NEW r \in Requests, SessionInv(r), WorkInv(r), SequenceTables,
         NEW o \in Orders, req[r].order = o, HandlerOK(r, o), UseCaseStep(r)
  PROVE  (InitiatingOK(r, o) /\ LoadedCurrent(r, o) /\ RefusalKnown(r, o))'
<1>0. /\ req'[r] = req[r]
      /\ UNCHANGED View => Unseen(o)
  BY SameRequest, UnseenView
<1>1. CASE CheckCustomer(r)
  BY <1>1, <1>0 DEF TypeOK, LocalsOK, dbVars, worldVars, ghostVars, orderLocal, flowLocal,
     SessionInv, RequestOK, Path, Request, OpNames, HandlerOK, View, Unseen, InitiatingOK,
     Initiated, Opening, AwaitsPayment, WorkInv, PhaseKnown, Phases, LoadedCurrent,
     RefusalKnown, CheckCustomer, CustomerAnswers, Goto, Finish
<1>2. CASE CheckNoActiveOrder(r)
  BY <1>2, <1>0 DEF TypeOK, LocalsOK, dbVars, worldVars, ghostVars, orderLocal, flowLocal,
     SessionInv, RequestOK, Path, Request, OpNames, HandlerOK, View, Unseen, InitiatingOK,
     Initiated, Opening, AwaitsPayment, WorkInv, PhaseKnown, Phases, LoadedCurrent,
     RefusalKnown, CheckNoActiveOrder, Goto, Finish
<1>3. CASE AddProduct(r)
  BY <1>3, <1>0 DEF TypeOK, LocalsOK, dbVars, worldVars, ghostVars, orderLocal, flowLocal,
     SessionInv, RequestOK, Path, Request, OpNames, HandlerOK, View, Unseen, InitiatingOK,
     Initiated, Opening, AwaitsPayment, WorkInv, PhaseKnown, Phases, LoadedCurrent,
     RefusalKnown, AddProduct, Goto, Finish
<1>4. CASE RemoveProduct(r)
  BY <1>4, <1>0 DEF TypeOK, LocalsOK, dbVars, worldVars, ghostVars, orderLocal, flowLocal,
     SessionInv, RequestOK, Path, Request, OpNames, HandlerOK, View, Unseen, InitiatingOK,
     Initiated, Opening, AwaitsPayment, WorkInv, PhaseKnown, Phases, LoadedCurrent,
     RefusalKnown, RemoveProduct, Goto, Finish
<1>5. CASE SagaSelect(r)
  BY <1>5, <1>0 DEF TypeOK, LocalsOK, dbVars, worldVars, ghostVars, orderLocal, flowLocal,
     SessionInv, RequestOK, Path, Request, OpNames, HandlerOK, View, Unseen, InitiatingOK,
     Initiated, Opening, AwaitsPayment, WorkInv, PhaseKnown, Phases, LoadedCurrent,
     RefusalKnown, SagaSelect, Goto
<1>6. CASE SagaCommit(r)
  BY <1>6, <1>0 DEF TypeOK, LocalsOK, dbVars, worldVars, ghostVars, orderLocal, flowLocal,
     SessionInv, RequestOK, Path, Request, OpNames, HandlerOK, View, Unseen, InitiatingOK,
     Initiated, Opening, AwaitsPayment, WorkInv, PhaseKnown, Phases, LoadedCurrent,
     RefusalKnown, SagaCommit, Goto, Finish, AfterSagaSave
<1>7. CASE ValidateCustomer(r)
  BY <1>7, <1>0 DEF TypeOK, LocalsOK, dbVars, worldVars, ghostVars, orderLocal, flowLocal,
     SessionInv, RequestOK, Path, Request, OpNames, HandlerOK, View, Unseen, InitiatingOK,
     Initiated, Opening, AwaitsPayment, WorkInv, PhaseKnown, Phases, LoadedCurrent,
     RefusalKnown, ValidateCustomer, Goto, Finish, FailPhase
<1>8. CASE FetchPrices(r)
  BY <1>8, <1>0 DEF TypeOK, LocalsOK, dbVars, worldVars, ghostVars, orderLocal, flowLocal,
     SessionInv, RequestOK, Path, Request, OpNames, HandlerOK, View, Unseen, InitiatingOK,
     Initiated, Opening, AwaitsPayment, WorkInv, PhaseKnown, Phases, LoadedCurrent,
     RefusalKnown, FetchPrices, Goto, Finish, FailPhase
<1>9. CASE VoidPendingPayment(r)
  BY <1>9, <1>0 DEF TypeOK, LocalsOK, dbVars, worldVars, ghostVars, orderLocal, flowLocal,
     SessionInv, RequestOK, Path, Request, OpNames, HandlerOK, View, Unseen, InitiatingOK,
     Initiated, Opening, AwaitsPayment, WorkInv, PhaseKnown, Phases, LoadedCurrent,
     RefusalKnown, VoidPendingPayment, Goto
<1>10. CASE ApplyCancel(r)
  BY <1>10, <1>0 DEF TypeOK, LocalsOK, dbVars, worldVars, ghostVars, orderLocal, flowLocal,
     SessionInv, RequestOK, Path, Request, OpNames, HandlerOK, View, Unseen, InitiatingOK,
     Initiated, Opening, AwaitsPayment, WorkInv, PhaseKnown, Phases, LoadedCurrent,
     RefusalKnown, ApplyCancel, Goto, Finish
<1>11. CASE ReturnPaymentOfKey(r)
  BY <1>11, <1>0 DEF TypeOK, LocalsOK, dbVars, worldVars, ghostVars, orderLocal, flowLocal,
     SessionInv, RequestOK, Path, Request, OpNames, HandlerOK, View, Unseen, InitiatingOK,
     Initiated, Opening, AwaitsPayment, WorkInv, PhaseKnown, Phases, LoadedCurrent,
     RefusalKnown, ReturnPaymentOfKey, Goto, Finish
<1>12. CASE PreparePayment(r)
  <2>1. UNCHANGED View /\ Unseen(o) /\ stage' = stage /\ req[r].op = "initiate" /\ stage[r] #
     "compensating"
    BY <1>12, UnseenView DEF PreparePayment, View, dbVars, worldVars, ghostVars, SessionInv,
       RequestOK, Path, Request, OpNames, WorkInv, PhaseKnown
  <2>2. ord[r].status = orders[o].status
    BY <1>12, StoredType DEF PreparePayment, HandlerOK, EntityCurrent, Reading
  <2>3. \/ pc'[r] = "done" /\ reply'[r] # "payment_gateway_error"
        \/ /\ CanInitiatePayment(ord[r]) /\ ~IsOpen(payments[o])
           /\ pc'[r] = "select" /\ pay'[r] = StoredPayment(o) /\ prev'[r] = ord[r].status
           /\ reply'[r] = reply[r]
    BY <1>12 DEF PreparePayment, Goto, Finish, TypeOK, LocalsOK
  <2>4. CASE pc'[r] = "done" /\ reply'[r] # "payment_gateway_error"
    BY <1>0, <2>1, <2>4 DEF InitiatingOK, Initiated, Opening, LoadedCurrent, RefusalKnown
  <2>5. CASE pc'[r] # "done"
    <3>1. /\ prev'[r] \in {"CONFIRMED", "PAYMENT_FAILED"}
          /\ prev'[r] = orders[o].status
          /\ pc'[r] = "select" /\ pay'[r] = StoredPayment(o) /\ reply'[r] = reply[r]
      BY <2>2, <2>3, <2>5 DEF CanInitiatePayment
    <3>2. payments[o].status = IF orders[o].status = "CONFIRMED" THEN Absent ELSE "REJECTED"
      BY <3>1 DEF SequenceTables, PaymentsFit, OrdersWith, TypeOK, DatabaseOK, PaymentStatuses,
         Absent
    <3>3. AllRejected(o)
      BY <3>1 DEF SequenceTables, NoChargeBefore
    <3>4. pay'[r].status = payments[o].status /\ ~pay'[r].fresh
      BY <3>1 DEF StoredPayment
    <3>5. reply[r] # "payment_gateway_error"
      BY <1>12, <2>1 DEF PreparePayment, HandlerOK, RefusalKnown
    <3>. QED
      BY <1>0, <2>1, <3>1, <3>2, <3>3, <3>4, <3>5 DEF Unseen, InitiatingOK, Initiated, Opening,
         LoadedCurrent, RefusalKnown
  <2>. QED BY <2>3, <2>4, <2>5
<1>13. CASE GatewayAccepts(r)
  BY <1>13, ChargeHandler DEF HandlerOK
<1>14. CASE GatewayUnavailable(r)
  BY <1>14, <1>0, DeniedUnseen DEF TypeOK, LocalsOK, dbVars, worldVars, ghostVars, orderLocal, flowLocal,
     SessionInv, RequestOK, Path, Request, OpNames, HandlerOK, View, Unseen, InitiatingOK,
     Initiated, Opening, AwaitsPayment, WorkInv, PhaseKnown, Phases, LoadedCurrent,
     RefusalKnown, GatewayUnavailable
<1>15. CASE GatewayRefuses(r)
  BY <1>15, <1>0, DeniedUnseen DEF TypeOK, LocalsOK, dbVars, worldVars, ghostVars, orderLocal, flowLocal,
     SessionInv, RequestOK, Path, Request, OpNames, HandlerOK, View, Unseen, InitiatingOK,
     Initiated, Opening, AwaitsPayment, WorkInv, PhaseKnown, Phases, LoadedCurrent,
     RefusalKnown, GatewayRefuses
<1>16. CASE GatewayLost(r)
  BY <1>16, ChargeHandler DEF HandlerOK
<1>17. CASE RestorePreviousStatus(r)
  BY <1>17, <1>0 DEF TypeOK, LocalsOK, dbVars, worldVars, ghostVars, orderLocal, flowLocal,
     SessionInv, RequestOK, Path, Request, OpNames, HandlerOK, View, Unseen, InitiatingOK,
     Initiated, Opening, AwaitsPayment, WorkInv, PhaseKnown, Phases, LoadedCurrent,
     RefusalKnown, RestorePreviousStatus, Goto, Finish, EntityCurrent, Reading, Stored, InMemory
<1>18. CASE LoadPayment(r)
  BY <1>18, <1>0 DEF TypeOK, LocalsOK, dbVars, worldVars, ghostVars, orderLocal, flowLocal,
     SessionInv, RequestOK, Path, Request, OpNames, HandlerOK, View, Unseen, InitiatingOK,
     Initiated, Opening, AwaitsPayment, WorkInv, PhaseKnown, Phases, LoadedCurrent,
     RefusalKnown, LoadPayment, Goto, Finish
<1>19. CASE ApplyVerdict(r)
  BY <1>19, <1>0 DEF TypeOK, LocalsOK, dbVars, worldVars, ghostVars, orderLocal, flowLocal,
     SessionInv, RequestOK, Path, Request, OpNames, HandlerOK, View, Unseen, InitiatingOK,
     Initiated, Opening, AwaitsPayment, WorkInv, PhaseKnown, Phases, LoadedCurrent,
     RefusalKnown, ApplyVerdict, Goto, Finish
<1>. QED
  BY <1>1, <1>2, <1>3, <1>4, <1>5, <1>6, <1>7, <1>8, <1>9, <1>10, <1>11, <1>12, <1>13, <1>14,
     <1>15, <1>16, <1>17, <1>18, <1>19 DEF UseCaseStep

(***************************************************************************)
(* The tables.                                                             *)
(***************************************************************************)

\* The steps that write them.
LEMMA ViewWriters ==
  ASSUME NEW r \in Requests, RepositoryStep(r) \/ UseCaseStep(r)
  PROVE  \/ UNCHANGED View
         \/ SaveCommit(r) \/ InsertOrder(r) \/ PaymentCommit(r) \/ Calls(r)
<1>1. CASE RepositoryStep(r)
  BY <1>1 DEF View, dbVars, worldVars, ghostVars, RepositoryStep, LoadRow, LoadItems,
     LoadCached, SaveSelect, SaveCheck, SaveCheckCached, SaveFails, PaymentSelect,
     PaymentInsertFails, IdemGet, IdemSave, Send, OutboxCommit, Notify
<1>2. CASE UseCaseStep(r)
  BY <1>2 DEF View, dbVars, worldVars, ghostVars, UseCaseStep, CheckCustomer,
     CheckNoActiveOrder, AddProduct, RemoveProduct, SagaSelect, SagaCommit, ValidateCustomer,
     FetchPrices, VoidPendingPayment, ApplyCancel, ReturnPaymentOfKey, PreparePayment,
     RestorePreviousStatus, LoadPayment, ApplyVerdict, Calls
<1>. QED BY <1>1, <1>2

\* A step that writes none of them.
LEMMA QuietTables ==
  ASSUME SequenceTables, UNCHANGED View
  PROVE  SequenceTables'
BY DEF SequenceTables, ItemIdsUnique, AbsentEmpty, PaymentsFit, NoChargeBefore, AllRejected,
   ChargeAgainOnlyAfterRejectionOrError, AttemptsCountRejections, Rejections, Undenied, ItemsOf, View

\* A save moves the order to a status that its payment allows, and counts an
\* attempt only for a rejection on record.
LEMMA SaveKeepsTables ==
  ASSUME TypeOK, NEW r \in Requests, SessionInv(r), WorkInv(r), SequenceTables, SaveCommit(r),
         NEW o \in Orders, req[r].order = o, HandlerOK(r, o)
  PROVE  SequenceTables'
<1>1. /\ Change(r, Stored(o), ord[r]) /\ req[r].op \in OpNames \ {"create"}
      /\ ItemIdsUnique'
      /\ orders'[o].status = ord[r].status /\ orders'[o].attempts = ord[r].attempts
      /\ \A p \in Orders : p # o => orders'[p] = orders[p] /\ ItemsOf(p)' = ItemsOf(p)
  BY SaveStores
<1>2. /\ payments' = payments /\ charges' = charges /\ settled' = settled /\ pc[r] = "commit"
      /\ \A p \in Orders : /\ Rejections(p)' = Rejections(p)
                           /\ AllRejected(p)' <=> AllRejected(p)
  BY DEF SaveCommit, worldVars, Rejections, AllRejected, Undenied
<1>3. /\ req[r].op = "cancel" => payments[o].status # "PENDING"
      /\ req[r].op = "callback" => payments[o].status = req[r].verdict /\ req[r].verdict \in
            Verdicts
      /\ req[r].op = "callback" /\ ~IsApproval(r) =>
            AllRejected(o) /\ orders[o].attempts < Rejections(o)
  BY <1>2 DEF HandlerOK, VoidingOK, SettlingOK, SessionInv, RequestOK
<1>4. req[r].op = "initiate" =>
         /\ prev[r] \in {"CONFIRMED", "PAYMENT_FAILED"} /\ AllRejected(o)
         /\ payments[o].status = IF prev[r] = "CONFIRMED" THEN Absent ELSE "REJECTED"
  BY <1>2 DEF HandlerOK, InitiatingOK, Initiated
<1>5. /\ payments[o].status \in PaymentStatuses \cup {Absent}
      /\ orders[o].attempts \in Nat /\ ord[r].attempts \in Nat /\ Rejections(o) \in Nat
  <2>1. Rejections(o) \in Nat
    BY RejectionsCounted
  <2>. QED BY <2>1 DEF TypeOK, DatabaseOK, LocalsOK, Row, Entity
<1>. DEFINE before == orders[o]
            after  == orders'[o]
            paid   == payments[o].status
<1>6. after.status # Absent
  BY <1>1, <1>4, ChangeMade DEF Absent, RejectedStatus
<1>7. AbsentEmpty'
  BY <1>1, <1>6 DEF SequenceTables, AbsentEmpty
<1>8. after.status \in OrdersWith(paid)
  <2>1. before.status \in OrdersWith(paid)
    BY DEF SequenceTables, PaymentsFit
  <2>2. CASE req[r].op \in {"add", "remove"}
    BY <1>1, <2>1, <2>2, ChangeMade
  <2>3. CASE req[r].op = "confirm"
    BY <1>1, <1>5, <2>1, <2>3, ChangeMade DEF OrdersWith, PaymentStatuses, Absent
  <2>4. CASE req[r].op = "cancel"
    BY <1>1, <1>3, <1>5, <2>4, ChangeMade DEF OrdersWith, PaymentStatuses, Absent
  <2>5. CASE req[r].op = "initiate"
    BY <1>1, <1>4, <2>5, ChangeMade DEF OrdersWith, PaymentStatuses, Absent
  <2>6. CASE req[r].op = "callback"
    BY <1>1, <1>3, <2>6, ChangeMade DEF OrdersWith, PaymentStatuses, Absent, Verdicts,
       IsApproval, RejectedStatus
  <2>. QED BY <1>1, <2>2, <2>3, <2>4, <2>5, <2>6 DEF OpNames
<1>9. PaymentsFit'
  BY <1>1, <1>2, <1>8 DEF SequenceTables, PaymentsFit
<1>10. after.status \in {Absent, "DRAFT", "CONFIRMED", "PAYMENT_FAILED"} => AllRejected(o)
  BY <1>1, <1>3, <1>4, ChangeMade DEF SequenceTables, NoChargeBefore, Absent
<1>11. NoChargeBefore'
  BY <1>1, <1>2, <1>10 DEF SequenceTables, NoChargeBefore
<1>12. /\ after.attempts <= Rejections(o) /\ after.attempts <= MaxPaymentAttempts
       /\ after.attempts = MaxPaymentAttempts => after.status = "CANCELLED"
  <2>1. /\ before.attempts <= Rejections(o) /\ before.attempts <= MaxPaymentAttempts
        /\ before.attempts = MaxPaymentAttempts => before.status = "CANCELLED"
    BY DEF SequenceTables, AttemptsCountRejections
  <2>2. before.status # "CANCELLED"
    BY <1>1, ChangeMade DEF CancellableStatuses
  <2>3. CASE after.attempts = before.attempts
    BY <2>1, <2>2, <2>3
  <2>4. CASE after.attempts # before.attempts
    <3>1. /\ req[r].op = "callback" /\ ~IsApproval(r)
          /\ after.attempts = before.attempts + 1
          /\ after.status = RejectedStatus(after.attempts)
      BY <1>1, <2>4, ChangeMade
    <3>. QED BY <1>3, <1>5, <2>1, <2>2, <3>1 DEF RejectedStatus, MaxPaymentAttempts
  <2>. QED BY <2>3, <2>4
<1>13. AttemptsCountRejections'
  BY <1>1, <1>2, <1>12 DEF SequenceTables, AttemptsCountRejections
<1>14. ChargeAgainOnlyAfterRejectionOrError'
  BY <1>2 DEF SequenceTables, ChargeAgainOnlyAfterRejectionOrError, Undenied, Rejections
<1>. QED BY <1>1, <1>7, <1>9, <1>11, <1>13, <1>14 DEF SequenceTables

\* A new order has no items, no payment and no charge.
LEMMA InsertKeepsTables ==
  ASSUME TypeOK, NEW r \in Requests, SessionInv(r), WorkInv(r), SequenceTables, InsertOrder(r),
         NEW o \in Orders, req[r].order = o, HandlerOK(r, o)
  PROVE  SequenceTables'
<1>1. /\ orders[o].status = Absent
      /\ orders' = [orders EXCEPT ![o] = [status |-> "DRAFT", total |-> 0, attempts |-> 0,
            version |-> 1]]
      /\ items' = items /\ payments' = payments /\ charges' = charges /\ settled' = settled
  BY DEF InsertOrder, SessionInv, RequestOK, Path, Request, OpNames, HandlerOK, CreatingOK,
     worldVars, ghostVars
<1>2. /\ orders'[o] = [status |-> "DRAFT", total |-> 0, attempts |-> 0, version |-> 1]
      /\ \A p \in Orders : p # o => orders'[p] = orders[p]
  BY <1>1 DEF TypeOK, DatabaseOK
<1>3. \A p \in Orders : /\ Rejections(p)' = Rejections(p)
                        /\ AllRejected(p)' <=> AllRejected(p)
                        /\ ItemsOf(p)' = ItemsOf(p)
  BY <1>1 DEF Rejections, AllRejected, Undenied, ItemsOf
<1>4. payments[o].status = Absent
  BY <1>1 DEF SequenceTables, PaymentsFit, OrdersWith, Absent, TypeOK, DatabaseOK,
     PaymentStatuses
<1>5. ItemIdsUnique' /\ ChargeAgainOnlyAfterRejectionOrError'
  BY <1>1, <1>3 DEF SequenceTables, ItemIdsUnique, ChargeAgainOnlyAfterRejectionOrError, Undenied
<1>6. AbsentEmpty'
  BY <1>2, <1>3 DEF SequenceTables, AbsentEmpty, Absent
<1>7. PaymentsFit'
  BY <1>1, <1>2, <1>4 DEF SequenceTables, PaymentsFit, OrdersWith
<1>8. NoChargeBefore'
  BY <1>1, <1>2, <1>3 DEF SequenceTables, NoChargeBefore
<1>9. AttemptsCountRejections'
  BY <1>2, <1>3, RejectionsCounted DEF SequenceTables, AttemptsCountRejections,
     MaxPaymentAttempts
<1>. QED BY <1>5, <1>6, <1>7, <1>8, <1>9 DEF SequenceTables

\* A payment is saved while its order waits for one.
LEMMA PaymentKeepsTables ==
  ASSUME TypeOK, NEW r \in Requests, SessionInv(r), WorkInv(r), SequenceTables,
     PaymentCommit(r),
         NEW o \in Orders, req[r].order = o, HandlerOK(r, o)
  PROVE  SequenceTables'
<1>1. /\ req[r].op \in {"cancel", "initiate", "callback"} /\ orders[o].status =
            "PAYMENT_PENDING"
      /\ payments'[o].status \in {"VOID", "PENDING"} \cup {req[r].verdict}
      /\ req[r].op # "callback" => payments'[o].status \in {"VOID", "PENDING"}
      /\ \A p \in Orders : p # o => payments'[p] = payments[p] /\ settled'[p] = settled[p]
      /\ orders' = orders /\ items' = items /\ charges' = charges
  BY PaymentStores DEF PaymentCommit, worldVars
<1>2. req[r].op = "callback" => req[r].verdict \in Verdicts
  BY DEF PaymentCommit, SessionInv, RequestOK
<1>3. \A p \in Orders : /\ Rejections(p) \in Nat /\ Rejections(p)' \in Nat
                        /\ Rejections(p) <= Rejections(p)'
                        /\ Cardinality(Undenied(p)) \in Nat /\ Undenied(p)' = Undenied(p)
                        /\ orders[p].attempts \in Nat
  <2>1. ASSUME NEW p \in Orders
        PROVE  Rejections(p) \in Nat /\ Rejections(p)' \in Nat /\ Rejections(p) <=
           Rejections(p)'
    <3>1. CASE settled'[p] = settled[p]
      BY <3>1, RejectionsCounted DEF Rejections
    <3>2. CASE settled'[p] # settled[p]
      <4>. DEFINE v == [txn |-> req[r].txn, verdict |-> req[r].verdict, key |-> req[r].key]
      <4>1. p = o /\ settled'[o] = Append(settled[o], v)
        BY <1>1, <3>2, PaymentStores
      <4>. HIDE DEF v
      <4>2. Rejections(o) \in Nat /\ Rejections(o)' \in Nat /\ Rejections(o)' \in
         {Rejections(o), Rejections(o) + 1}
        BY <4>1, RejectionsGrow
      <4>. QED BY <4>1, <4>2
    <3>. QED BY <3>1, <3>2
  <2>. QED BY <1>1, <2>1, UndeniedCounted DEF Undenied, TypeOK, DatabaseOK, Row
<1>4. ItemIdsUnique' /\ AbsentEmpty'
  BY <1>1 DEF SequenceTables, ItemIdsUnique, AbsentEmpty, ItemsOf
<1>5. PaymentsFit'
  <2>1. orders'[o].status \in OrdersWith(payments'[o].status)
    BY <1>1, <1>2 DEF OrdersWith, Verdicts, Absent
  <2>. QED BY <1>1, <2>1 DEF SequenceTables, PaymentsFit
<1>6. NoChargeBefore' /\ ChargeAgainOnlyAfterRejectionOrError'
  BY <1>1, <1>3 DEF SequenceTables, NoChargeBefore, AllRejected,
     ChargeAgainOnlyAfterRejectionOrError
<1>7. AttemptsCountRejections'
  BY <1>1, <1>3 DEF SequenceTables, AttemptsCountRejections
<1>. QED BY <1>4, <1>5, <1>6, <1>7 DEF SequenceTables

\* The gateway is called only when every earlier charge was rejected or denied.
LEMMA ChargeKeepsTables ==
  ASSUME TypeOK, NEW r \in Requests, SessionInv(r), WorkInv(r), SequenceTables,
         Calls(r), NEW o \in Orders, req[r].order = o, HandlerOK(r, o)
  PROVE  SequenceTables'
<1>1. /\ pc[r] = "gateway" /\ orders' = orders /\ items' = items /\ payments' = payments
      /\ settled' = settled /\ ChargesOnce(r)
  BY CallCharges DEF dbVars, ghostVars
<1>2. orders[o].status = "PAYMENT_PENDING" /\ AllRejected(o)
  BY <1>1 DEF SessionInv, RequestOK, Path, Request, OpNames, HandlerOK, InitiatingOK, Initiated,
     AwaitsPayment
<1>3. \A p \in Orders : /\ Rejections(p)' = Rejections(p) /\ Rejections(p) \in Nat
                        /\ ItemsOf(p)' = ItemsOf(p)
  BY <1>1, RejectionsCounted DEF Rejections, ItemsOf
<1>4. /\ \A p \in Orders : p # o => charges'[p] = charges[p]
      /\ Cardinality(Undenied(o))' <= Cardinality(Undenied(o)) + 1
      /\ Cardinality(Undenied(o)) \in Nat /\ Cardinality(Undenied(o))' \in Nat
  <2>1. CASE UNCHANGED charges
    <3>1. Undenied(o)' = Undenied(o)
      BY <2>1 DEF Undenied
    <3>. QED BY <2>1, <3>1, UndeniedCounted
  <2>2. ASSUME NEW hidden \in BOOLEAN, TakeCharge(r, hidden)
        PROVE  /\ \A p \in Orders : p # o => charges'[p] = charges[p]
               /\ Cardinality(Undenied(o))' = Cardinality(Undenied(o)) + (IF hidden THEN 0 ELSE 1)
    BY <1>1, <2>2, UndeniedGrow
  <2>. QED BY <1>1, <2>1, <2>2, UndeniedCounted DEF ChargesOnce
<1>5. ItemIdsUnique' /\ AbsentEmpty' /\ PaymentsFit'
  BY <1>1, <1>3 DEF SequenceTables, ItemIdsUnique, AbsentEmpty, PaymentsFit
<1>6. NoChargeBefore'
  BY <1>1, <1>2, <1>3, <1>4 DEF SequenceTables, NoChargeBefore, AllRejected, Undenied, Absent
<1>7. ChargeAgainOnlyAfterRejectionOrError'
  <2>1. Cardinality(Undenied(o))' <= Rejections(o)' + 1
    BY <1>2, <1>3, <1>4 DEF AllRejected
  <2>2. ASSUME NEW p \in Orders, p # o PROVE Cardinality(Undenied(p))' <= Rejections(p)' + 1
    BY <1>3, <1>4, <2>2 DEF SequenceTables, ChargeAgainOnlyAfterRejectionOrError, Undenied
  <2>. QED BY <2>1, <2>2 DEF ChargeAgainOnlyAfterRejectionOrError
<1>8. AttemptsCountRejections'
  BY <1>1, <1>3 DEF SequenceTables, AttemptsCountRejections
<1>. QED BY <1>5, <1>6, <1>7, <1>8 DEF SequenceTables

(***************************************************************************)
(* The session.                                                            *)
(***************************************************************************)

\* A step of a handler keeps what its request relies on.
LEMMA OwnSequence ==
  ASSUME TypeOK, NEW r \in Requests, SessionInv(r), WorkInv(r), SequenceTables,
     SequenceSession(r),
         Grows, RepositoryStep(r) \/ UseCaseStep(r)
  PROVE  SequenceTables' /\ SequenceSession(r)'
<1>1. PICK o \in Orders : req[r].order = o
  BY SameRequest
<1>2. HandlerOK(r, o)
  BY <1>1 DEF SequenceSession
<1>3. req'[r] = req[r]
  BY SameRequest
<1>4. HandlerOK(r, o)'
  <2>1. EntityCurrent(r, o)'
    BY <1>1, <1>2, <1>3, RepositoryEntity, UseCaseEntity
  <2>2. (BaseCurrent(r, o) /\ SettlingOK(r, o) /\ VoidingOK(r, o) /\ CreatingOK(r, o))'
    BY <1>1, <1>2, <1>3, RepositoryOrder, UseCaseOrder
  <2>3. (InitiatingOK(r, o) /\ LoadedCurrent(r, o) /\ RefusalKnown(r, o))'
    BY <1>1, <1>2, <1>3, RepositoryInitiate, UseCaseInitiate
  <2>. QED BY <2>1, <2>2, <2>3 DEF HandlerOK
<1>5. SequenceSession(r)'
  <2>1. pc'[r] # "idle"
    BY RepositoryRequest, UseCaseRequest
  <2>. QED BY <1>1, <1>3, <1>4, <2>1 DEF SequenceSession
<1>6. SequenceTables'
  BY <1>1, <1>2, <1>3, ViewWriters, QuietTables, SaveKeepsTables, InsertKeepsTables,
     PaymentKeepsTables, ChargeKeepsTables
<1>. QED BY <1>5, <1>6

\* A request that has just arrived has loaded nothing; the order of a create is
\* not there.
LEMMA ArrivingSequence ==
  ASSUME TypeOK, NEW r \in Requests, SequenceSession(r), Arrive(r)
  PROVE  SequenceSession(r)'
<1>1. PICK request, first, firstStage : Brings(r, request, first, firstStage)
  BY Arrival
<1>2. /\ pc[r] = "idle" /\ pc'[r] = first /\ req'[r] = request /\ stage'[r] = firstStage
      /\ cached'[r] = cached[r] /\ reply'[r] = "ok" /\ orders' = orders
  BY <1>1 DEF Brings, Receive, TypeOK, LocalsOK, orderLocal, dbVars
<1>3. first = "customer" => orders[request.order].status = Absent
  <2>1. CASE \E o \in Orders : ReceiveCreate(r, o)
    <3>1. PICK o \in Orders : ReceiveCreate(r, o)
      BY <2>1
    <3>2. orders[o].status = Absent /\ req'[r].order = o
      BY <3>1 DEF ReceiveCreate, FreshOrder, Receive, NoRequest, TypeOK, LocalsOK
    <3>. QED BY <1>2, <3>2
  <2>2. CASE ~\E o \in Orders : ReceiveCreate(r, o)
    <3>1. pc'[r] # "customer"
      BY <2>2 DEF Arrive, ReceiveAddItem, ReceiveRemoveItem, ReceiveConfirm, ReceiveCancel,
         ReceiveInitiate,
         ReceiveCallback, Receive, TypeOK, LocalsOK
    <3>. QED BY <1>2, <3>1
  <2>. QED BY <2>1, <2>2
<1>4. /\ first \in Path(request.op) \cap {"customer", "load", "idem_get", "pay_by_key",
            "pay_load"}
      /\ firstStage \in {"customer", "start"} /\ request.op \in OpNames
      /\ request.op = "callback" => first # "load"
  BY <1>1 DEF Brings, Request
<1>5. ~cached[r]
  BY <1>2 DEF SequenceSession
<1>6. ASSUME NEW o \in Orders, request.order = o PROVE HandlerOK(r, o)'
  <2>1. /\ EntityCurrent(r, o)' /\ BaseCurrent(r, o)' /\ SettlingOK(r, o)' /\ VoidingOK(r, o)'
        /\ LoadedCurrent(r, o)' /\ RefusalKnown(r, o)'
    BY <1>2, <1>4, <1>5 DEF EntityCurrent, Reading, Changing, BaseCurrent, SettlingOK,
       VoidingOK, LoadedCurrent, RefusalKnown
  <2>2. InitiatingOK(r, o)'
    BY <1>2, <1>4 DEF InitiatingOK, Initiated, Opening
  <2>3. CreatingOK(r, o)'
    BY <1>2, <1>3, <1>4, <1>5, <1>6 DEF CreatingOK, Path, OpNames
  <2>. QED BY <2>1, <2>2, <2>3 DEF HandlerOK
<1>. QED BY <1>2, <1>4, <1>5, <1>6 DEF SequenceSession

\* A slot whose request has ended holds nothing.
LEMMA EndedSequence ==
  ASSUME NEW r \in Requests, pc'[r] = "idle", req'[r] = NoRequest, cached'[r] = FALSE
  PROVE  SequenceSession(r)'
BY StoreAssumption DEF SequenceSession, NoRequest

\* Nothing changes while nothing happens.
LEMMA StutterSequence ==
  ASSUME NEW r \in Requests, SequenceSession(r), UNCHANGED vars
  PROVE  SequenceSession(r)'
<1>1. UNCHANGED <<pc, req, ord, base, cached, pay, stage, prev, reply>> /\ UNCHANGED View
  BY DEF vars, dbVars, worldVars, orderLocal, flowLocal, ghostVars, View
<1>2. ASSUME NEW o \in Orders, HandlerOK(r, o) PROVE HandlerOK(r, o)'
  <2>1. Unseen(o)
    BY <1>1, UnseenView
  <2>2. EntityCurrent(r, o)'
    BY <1>1, <1>2, <2>1 DEF HandlerOK, EntityCurrent, Reading, Changing, Change, ItemsOwned,
       IsApproval, Unseen
  <2>3. BaseCurrent(r, o)' /\ LoadedCurrent(r, o)' /\ CreatingOK(r, o)' /\ VoidingOK(r, o)' /\
     RefusalKnown(r, o)'
    BY <1>1, <1>2, <2>1 DEF HandlerOK, BaseCurrent, LoadedCurrent, CreatingOK, VoidingOK,
       RefusalKnown, Unseen
  <2>4. SettlingOK(r, o)' /\ InitiatingOK(r, o)'
    BY <1>1, <1>2, <2>1 DEF HandlerOK, SettlingOK, IsApproval, InitiatingOK, Initiated, Opening,
       AwaitsPayment, Unseen
  <2>. QED BY <2>2, <2>3, <2>4 DEF HandlerOK
<1>. QED BY <1>1, <1>2 DEF SequenceSession

(***************************************************************************)
(* The invariant.                                                          *)
(***************************************************************************)

\* The given orders have gone through whole requests.
LEMMA InitSequence == Init => IndSequence
<1>. SUFFICES ASSUME Init PROVE IndSequence
  OBVIOUS
<1>1. TypeOK
  BY InitType
<1>2. ItemIdsUnique
  BY ServiceAssumption DEF Init, GivenItemRow, ItemIdsUnique
<1>3. AbsentEmpty
  <2>1. ASSUME NEW o \in Orders, orders[o].status = Absent PROVE orders[o] = NoOrder /\
     ItemsOf(o) = {}
    <3>1. orders[o] = NoOrder /\ Given[o] = "ABSENT"
      BY <2>1, ServiceAssumption DEF Init, GivenRow, Absent
    <3>2. \A i \in items : i.order # o
      BY <3>1 DEF Init, GivenItemRow
    <3>. QED BY <3>1, <3>2 DEF ItemsOf
  <2>. QED BY <2>1 DEF AbsentEmpty
<1>4. PaymentsFit
  BY ServiceAssumption DEF Init, GivenRow, NoOrder, NoPayment, Absent, WasRejectedTwice,
     PaymentsFit, OrdersWith
<1>5. ASSUME NEW o \in Orders
      PROVE  IF WasRejectedTwice(o)
             THEN Cardinality(Undenied(o)) = 2 /\ Rejections(o) = 2 /\ orders[o].attempts = 2
             ELSE Cardinality(Undenied(o)) = 0 /\ Rejections(o) \in Nat /\ orders[o].attempts = 0
  <2>1. CASE WasRejectedTwice(o)
    <3>1. DOMAIN settled[o] = 1 .. 2 /\ \A i \in 1 .. 2 : settled[o][i].verdict = "REJECTED"
      BY <2>1 DEF Init, Rejection
    <3>2. {i \in DOMAIN settled[o] : settled[o][i].verdict = "REJECTED"} = 1 .. 2
      BY <3>1
    <3>3. Cardinality(1 .. 2) = 2
      <4>1. 1 .. 2 = {1} \cup {2}
        OBVIOUS
      <4>2. IsFiniteSet({1}) /\ Cardinality({1}) = 1
        BY FS_Singleton
      <4>3. Cardinality({1} \cup {2}) = 2
        BY <4>2, FS_AddElement
      <4>. QED BY <4>1, <4>3
    <3>4. Undenied(o) = 1 .. 2
      BY <2>1 DEF Init, RejectedCharge, Undenied
    <3>. QED BY <2>1, <3>2, <3>3, <3>4 DEF Init, Rejections, GivenRow, WasRejectedTwice
  <2>2. CASE ~WasRejectedTwice(o)
    <3>1. Undenied(o) = {}
      BY <2>2 DEF Init, Undenied
    <3>. QED BY <1>1, <2>2, <3>1, RejectionsCounted, FS_EmptySet DEF Init, GivenRow, NoOrder,
            WasRejectedTwice
  <2>. QED BY <2>1, <2>2
<1>6. NoChargeBefore /\ ChargeAgainOnlyAfterRejectionOrError /\ AttemptsCountRejections
  <2>1. \A o \in Orders : AllRejected(o)
    BY <1>5 DEF AllRejected
  <2>2. ChargeAgainOnlyAfterRejectionOrError
    <3>. SUFFICES ASSUME NEW o \in Orders PROVE Cardinality(Undenied(o)) <= Rejections(o) + 1
      BY DEF ChargeAgainOnlyAfterRejectionOrError
    <3>. QED BY <1>5
  <2>3. AttemptsCountRejections
    BY <1>5 DEF AttemptsCountRejections, MaxPaymentAttempts
  <2>. QED BY <2>1, <2>2, <2>3 DEF NoChargeBefore
<1>7. ASSUME NEW r \in Requests PROVE SequenceSession(r)
  BY StoreAssumption DEF Init, SequenceSession, NoRequest
<1>. QED BY <1>2, <1>3, <1>4, <1>6, <1>7 DEF IndSequence, SequenceTables

\* Every step keeps it when there is one slot.
LEMMA StepSequence ==
  ASSUME OneAtATime
  PROVE  IndInv /\ IndWork /\ IndSequence /\ [Next]_vars => IndSequence'
<1>. SUFFICES ASSUME IndInv, IndWork, IndSequence, [Next]_vars PROVE IndSequence'
  OBVIOUS
<1>1. /\ TypeOK /\ SequenceTables
      /\ \A r \in Requests : SessionInv(r) /\ WorkInv(r) /\ SequenceSession(r)
  BY DEF IndInv, IndWork, IndSequence
<1>2. ASSUME NEW r \in Requests, RepositoryStep(r) \/ UseCaseStep(r) PROVE IndSequence'
  <2>1. SequenceTables' /\ SequenceSession(r)'
    BY <1>1, <1>2, NextGrows, OwnSequence DEF IndInv
  <2>. QED BY <2>1 DEF IndSequence, OneAtATime
<1>3. ASSUME NEW r \in Requests, Arrive(r) PROVE IndSequence'
  <2>1. SequenceSession(r)'
    BY <1>1, <1>3, ArrivingSequence
  <2>2. UNCHANGED View
    <3>1. PICK request, first, firstStage : Brings(r, request, first, firstStage)
      BY <1>1, <1>3, Arrival
    <3>. QED BY <3>1 DEF Brings, Receive, View, dbVars, worldVars, ghostVars
  <2>3. SequenceTables'
    BY <1>1, <2>2, QuietTables
  <2>. QED BY <2>1, <2>3 DEF IndSequence, OneAtATime
<1>4. CASE (\E r \in Requests : Respond(r)) \/ Crash
  <2>1. UNCHANGED View
    BY <1>4 DEF Respond, Crash, View, dbVars, worldVars, ghostVars
  <2>2. SequenceTables'
    BY <1>1, <2>1, QuietTables
  <2>3. \A r \in Requests : SequenceSession(r)'
    <3>1. CASE \E r \in Requests : Respond(r)
      <4>1. PICK r \in Requests : Respond(r)
        BY <3>1
      <4>2. SequenceSession(r)'
        BY <4>1, EndedSequence DEF Respond, EndSessions
      <4>. QED BY <4>2 DEF OneAtATime
    <3>2. CASE Crash
      BY <3>2, EndedSequence DEF Crash, EndSessions
    <3>. QED BY <1>4, <3>1, <3>2
  <2>. QED BY <2>2, <2>3 DEF IndSequence
<1>5. CASE UNCHANGED vars
  <2>1. UNCHANGED View
    BY <1>5 DEF vars, dbVars, worldVars, ghostVars, View
  <2>. QED BY <1>1, <1>5, <2>1, QuietTables, StutterSequence DEF IndSequence
<1>. QED BY <1>2, <1>3, <1>4, <1>5 DEF Next, Serve, Quiet

\* One request at a time, no handler ever works on an order that has changed
\* since it was loaded: crashes between any two of its steps included.
THEOREM SequenceInvariance ==
  ASSUME OneAtATime
  PROVE  Spec => []IndSequence
<1>1. IndInv /\ IndWork /\ IndSequence /\ [Next]_vars => IndSequence'
  BY StepSequence
<1>. QED BY <1>1, InitSequence, Invariance, WorkInvariance, PTL DEF Spec

(***************************************************************************)
(* What it says of the tables and of the gateway.                          *)
(***************************************************************************)

\* A payment waits for the gateway only while its order does, whichever of the
\* two a crash left unsaved.
THEOREM PendingWasAwaited ==
  ASSUME OneAtATime
  PROVE  Spec => []PendingPaymentIsAwaited
<1>1. IndSequence => PendingPaymentIsAwaited
  BY DEF IndSequence, SequenceTables, PaymentsFit, OrdersWith, Absent, PendingPaymentIsAwaited
<1>. QED BY <1>1, SequenceInvariance, PTL

\* The gateway is called only when its answer can be recorded.
THEOREM ChargeWasRecordable ==
  ASSUME OneAtATime
  PROVE  Spec => []ChargeCanBeRecorded
<1>1. IndInv /\ IndSequence => ChargeCanBeRecorded
  <2>. SUFFICES ASSUME IndInv, IndSequence, NEW r \in Requests, pc[r] = "gateway"
                PROVE  payments[req[r].order].status \in {Absent, "REJECTED"}
    BY DEF ChargeCanBeRecorded
  <2>1. req[r].order \in Orders /\ req[r].op = "initiate"
    BY DEF IndInv, SessionInv, RequestOK, Path, Request, OpNames
  <2>2. HandlerOK(r, req[r].order)
    BY <2>1 DEF IndSequence, SequenceSession
  <2>. QED BY <2>1, <2>2 DEF HandlerOK, InitiatingOK, Initiated
<1>. QED BY <1>1, SequenceInvariance, Invariance, PTL

\* But for charges behind an error answer, an order is charged again only after
\* another rejection was committed.
THEOREM ChargedAgainAfterRejectionOrError ==
  ASSUME OneAtATime
  PROVE  Spec => []ChargeAgainOnlyAfterRejectionOrError
<1>1. IndSequence => ChargeAgainOnlyAfterRejectionOrError
  BY DEF IndSequence, SequenceTables
<1>. QED BY <1>1, SequenceInvariance, PTL

\* The attempts never overtake the rejections, and the third ends the order.
THEOREM AttemptsWereRejections ==
  ASSUME OneAtATime
  PROVE  Spec => []AttemptsCountRejections
<1>1. IndSequence => AttemptsCountRejections
  BY DEF IndSequence, SequenceTables
<1>. QED BY <1>1, SequenceInvariance, PTL

\* A client that is told of a refusal finds its order as it was.
THEOREM RefusalRestored ==
  ASSUME OneAtATime
  PROVE  Spec => []RefusalRestoresOrder
<1>1. IndInv /\ IndSequence => RefusalRestoresOrder
  <2>. SUFFICES ASSUME IndInv, IndSequence, NEW r \in Requests,
                       pc[r] = "done", reply[r] = "payment_gateway_error"
                PROVE  orders[req[r].order].status = prev[r]
    BY DEF RefusalRestoresOrder
  <2>1. req[r].order \in Orders
    BY DEF IndInv, SessionInv, RequestOK, Request
  <2>2. HandlerOK(r, req[r].order)
    BY <2>1 DEF IndSequence, SequenceSession
  <2>. QED BY <2>2 DEF HandlerOK, RefusalKnown
<1>. QED BY <1>1, SequenceInvariance, Invariance, PTL

(***************************************************************************)
(* What a request has stored when its client is told of a success.         *)
(***************************************************************************)

\* The steps of the repositories before the last commit of a handler announce
\* nothing and answer nothing but errors.
LEMMA RepositoryUntold ==
  ASSUME TypeOK, NEW r \in Requests, SessionInv(r), WorkInv(r),
         req[r].op \in {"cancel", "initiate", "callback"},
         LoadRow(r) \/ LoadItems(r) \/ LoadCached(r) \/ SaveSelect(r) \/ SaveCheck(r)
            \/ SaveCheckCached(r) \/ SaveFails(r) \/ InsertOrder(r) \/ PaymentSelect(r)
            \/ PaymentInsertFails(r) \/ IdemGet(r)
  PROVE  ~Announcing(r)' /\ ~Answering(r)'
<1>1. CASE LoadRow(r)
  BY <1>1 DEF TypeOK, LocalsOK, SessionInv, RequestOK, Path, Request, OpNames, WorkInv,
     PhaseKnown, Phases, orderLocal, flowLocal, Announcing, Answering, LoadRow, Goto, Finish
<1>2. CASE LoadItems(r)
  BY <1>2 DEF TypeOK, LocalsOK, SessionInv, RequestOK, Path, Request, OpNames, WorkInv,
     PhaseKnown, Phases, orderLocal, flowLocal, Announcing, Answering, LoadItems, Goto,
     AfterLoad
<1>3. CASE LoadCached(r)
  BY <1>3 DEF TypeOK, LocalsOK, SessionInv, RequestOK, Path, Request, OpNames, WorkInv,
     PhaseKnown, Phases, orderLocal, flowLocal, Announcing, Answering, LoadCached, Goto,
     AfterLoad
<1>4. CASE SaveSelect(r)
  BY <1>4 DEF TypeOK, LocalsOK, SessionInv, RequestOK, Path, Request, OpNames, WorkInv,
     PhaseKnown, Phases, orderLocal, flowLocal, Announcing, Answering, SaveSelect, Goto
<1>5. CASE SaveCheck(r)
  BY <1>5 DEF TypeOK, LocalsOK, SessionInv, RequestOK, Path, Request, OpNames, WorkInv,
     PhaseKnown, Phases, orderLocal, flowLocal, Announcing, Answering, SaveCheck, CheckVersion,
     Goto, Finish
<1>6. CASE SaveCheckCached(r)
  BY <1>6 DEF TypeOK, LocalsOK, SessionInv, RequestOK, Path, Request, OpNames, WorkInv,
     PhaseKnown, Phases, orderLocal, flowLocal, Announcing, Answering, SaveCheckCached,
     CheckVersion, Goto, Finish
<1>7. CASE SaveFails(r)
  BY <1>7 DEF TypeOK, LocalsOK, SessionInv, RequestOK, Path, Request, OpNames, WorkInv,
     PhaseKnown, Phases, orderLocal, flowLocal, Announcing, Answering, SaveFails, Finish
<1>8. CASE InsertOrder(r)
  BY <1>8 DEF TypeOK, LocalsOK, SessionInv, RequestOK, Path, Request, OpNames, WorkInv,
     PhaseKnown, Phases, orderLocal, flowLocal, Announcing, Answering, InsertOrder, Goto,
     AfterOrderSave
<1>9. CASE PaymentSelect(r)
  BY <1>9 DEF TypeOK, LocalsOK, SessionInv, RequestOK, Path, Request, OpNames, WorkInv,
     PhaseKnown, Phases, orderLocal, flowLocal, Announcing, Answering, PaymentSelect, Goto
<1>10. CASE PaymentInsertFails(r)
  BY <1>10 DEF TypeOK, LocalsOK, SessionInv, RequestOK, Path, Request, OpNames, WorkInv,
     PhaseKnown, Phases, orderLocal, flowLocal, Announcing, Answering, PaymentInsertFails,
     Finish
<1>11. CASE IdemGet(r)
  BY <1>11 DEF TypeOK, LocalsOK, SessionInv, RequestOK, Path, Request, OpNames, WorkInv,
     PhaseKnown, Phases, orderLocal, flowLocal, Announcing, Answering, IdemGet, Goto, Finish,
     AfterLookup, StageOnHit
<1>. QED
  BY <1>1, <1>2, <1>3, <1>4, <1>5, <1>6, <1>7, <1>8, <1>9, <1>10, <1>11

\* The same for the steps of the handlers, but those that answer with a payment
\* they found.
LEMMA UseCaseUntold ==
  ASSUME TypeOK, NEW r \in Requests, SessionInv(r), WorkInv(r),
         req[r].op \in {"cancel", "initiate", "callback"},
         CheckCustomer(r) \/ CheckNoActiveOrder(r) \/ AddProduct(r) \/ RemoveProduct(r)
            \/ SagaSelect(r) \/ SagaCommit(r) \/ ValidateCustomer(r) \/ FetchPrices(r)
            \/ VoidPendingPayment(r) \/ ApplyCancel(r) \/ GatewayAccepts(r)
            \/ GatewayUnavailable(r) \/ GatewayRefuses(r) \/ GatewayLost(r)
            \/ RestorePreviousStatus(r) \/ ApplyVerdict(r)
  PROVE  ~Announcing(r)' /\ ~Answering(r)'
<1>1. CASE CheckCustomer(r)
  BY <1>1 DEF TypeOK, LocalsOK, SessionInv, RequestOK, Path, Request, OpNames, WorkInv,
     PhaseKnown, Phases, orderLocal, flowLocal, Announcing, Answering, CheckCustomer,
     CustomerAnswers, Goto, Finish
<1>2. CASE CheckNoActiveOrder(r)
  BY <1>2 DEF TypeOK, LocalsOK, SessionInv, RequestOK, Path, Request, OpNames, WorkInv,
     PhaseKnown, Phases, orderLocal, flowLocal, Announcing, Answering, CheckNoActiveOrder, Goto,
     Finish
<1>3. CASE AddProduct(r)
  BY <1>3 DEF TypeOK, LocalsOK, SessionInv, RequestOK, Path, Request, OpNames, WorkInv,
     PhaseKnown, Phases, orderLocal, flowLocal, Announcing, Answering, AddProduct, Goto, Finish
<1>4. CASE RemoveProduct(r)
  BY <1>4 DEF TypeOK, LocalsOK, SessionInv, RequestOK, Path, Request, OpNames, WorkInv,
     PhaseKnown, Phases, orderLocal, flowLocal, Announcing, Answering, RemoveProduct, Goto,
     Finish
<1>5. CASE SagaSelect(r)
  BY <1>5 DEF TypeOK, LocalsOK, SessionInv, RequestOK, Path, Request, OpNames, WorkInv,
     PhaseKnown, Phases, orderLocal, flowLocal, Announcing, Answering, SagaSelect, Goto
<1>6. CASE SagaCommit(r)
  BY <1>6 DEF TypeOK, LocalsOK, SessionInv, RequestOK, Path, Request, OpNames, WorkInv,
     PhaseKnown, Phases, orderLocal, flowLocal, Announcing, Answering, SagaCommit, Goto, Finish,
     AfterSagaSave
<1>7. CASE ValidateCustomer(r)
  BY <1>7 DEF TypeOK, LocalsOK, SessionInv, RequestOK, Path, Request, OpNames, WorkInv,
     PhaseKnown, Phases, orderLocal, flowLocal, Announcing, Answering, ValidateCustomer, Goto,
     Finish, FailPhase
<1>8. CASE FetchPrices(r)
  BY <1>8 DEF TypeOK, LocalsOK, SessionInv, RequestOK, Path, Request, OpNames, WorkInv,
     PhaseKnown, Phases, orderLocal, flowLocal, Announcing, Answering, FetchPrices, Goto,
     Finish, FailPhase
<1>9. CASE VoidPendingPayment(r)
  BY <1>9 DEF TypeOK, LocalsOK, SessionInv, RequestOK, Path, Request, OpNames, WorkInv,
     PhaseKnown, Phases, orderLocal, flowLocal, Announcing, Answering, VoidPendingPayment, Goto
<1>10. CASE ApplyCancel(r)
  BY <1>10 DEF TypeOK, LocalsOK, SessionInv, RequestOK, Path, Request, OpNames, WorkInv,
     PhaseKnown, Phases, orderLocal, flowLocal, Announcing, Answering, ApplyCancel, Goto, Finish
<1>11. CASE GatewayAccepts(r)
  BY <1>11 DEF TypeOK, LocalsOK, SessionInv, RequestOK, Path, Request, OpNames, WorkInv,
     PhaseKnown, Phases, orderLocal, flowLocal, Announcing, Answering, GatewayAccepts, Goto
<1>12. CASE GatewayUnavailable(r)
  BY <1>12 DEF TypeOK, LocalsOK, SessionInv, RequestOK, Path, Request, OpNames, WorkInv,
     PhaseKnown, Phases, orderLocal, flowLocal, Announcing, Answering, GatewayUnavailable
<1>13. CASE GatewayRefuses(r)
  BY <1>13 DEF TypeOK, LocalsOK, SessionInv, RequestOK, Path, Request, OpNames, WorkInv,
     PhaseKnown, Phases, orderLocal, flowLocal, Announcing, Answering, GatewayRefuses
<1>14. CASE GatewayLost(r)
  BY <1>14 DEF TypeOK, LocalsOK, SessionInv, RequestOK, Path, Request, OpNames, WorkInv,
     PhaseKnown, Phases, orderLocal, flowLocal, Announcing, Answering, GatewayLost, Finish
<1>15. CASE RestorePreviousStatus(r)
  BY <1>15 DEF TypeOK, LocalsOK, SessionInv, RequestOK, Path, Request, OpNames, WorkInv,
     PhaseKnown, Phases, orderLocal, flowLocal, Announcing, Answering, RestorePreviousStatus,
     Goto, Finish
<1>16. CASE ApplyVerdict(r)
  BY <1>16 DEF TypeOK, LocalsOK, SessionInv, RequestOK, Path, Request, OpNames, WorkInv,
     PhaseKnown, Phases, orderLocal, flowLocal, Announcing, Answering, ApplyVerdict, Goto,
     Finish
<1>. QED
  BY <1>1, <1>2, <1>3, <1>4, <1>5, <1>6, <1>7, <1>8, <1>9, <1>10, <1>11, <1>12, <1>13, <1>14,
     <1>15, <1>16

\* A request that announces nothing and is not answered with success has nothing to show.
LEMMA UntoldStored ==
  ASSUME NEW r \in Requests, NEW o \in Orders, ~Announcing(r)', ~Answering(r)'
  PROVE  RequestStored(r, o)'
BY DEF RequestStored, CancelStored, PaymentStored, VerdictStored, EarlierVerdict

\* Nor has one of another operation.
LEMMA OtherStored ==
  ASSUME NEW r \in Requests, NEW o \in Orders, req'[r].op \notin {"cancel", "initiate",
     "callback"}
  PROVE  RequestStored(r, o)'
BY DEF RequestStored, CancelStored, PaymentStored, VerdictStored, EarlierVerdict

\* The event, its row, the notification and the key leave the tables of orders
\* and payments as they are.
LEMMA AnnouncedStored ==
  ASSUME TypeOK, NEW r \in Requests, SessionInv(r), WorkInv(r), NEW o \in Orders,
         RequestStored(r, o), req'[r] = req[r],
         Send(r) \/ OutboxCommit(r) \/ Notify(r) \/ IdemSave(r)
  PROVE  RequestStored(r, o)'
<1>1. orders' = orders /\ payments' = payments /\ Announcing(r)
  BY DEF Send, OutboxCommit, Notify, IdemSave, dbVars, Announcing
<1>2. CASE Send(r)
  <2>1. pc'[r] = "outbox_commit"
    BY <1>2 DEF Send, Goto, TypeOK, LocalsOK
  <2>. QED BY <1>1, <2>1 DEF RequestStored, CancelStored, PaymentStored, VerdictStored,
          EarlierVerdict, Announcing, Answering
<1>3. CASE OutboxCommit(r) \/ Notify(r) \/ IdemSave(r)
  <2>1. /\ stage'[r] = stage[r] /\ stage[r] \in {"sent", "unsent"}
        /\ pc[r] = "idem_save" => req[r].key # Nil
        /\ pc[r] = "notify" => req[r].op # "cancel" /\ req[r].op # "initiate"
        /\ pc[r] = "idem_save" => pc'[r] = "done"
    BY <1>3 DEF OutboxCommit, Notify, IdemSave, Goto, Finish, flowLocal, SessionInv, RequestOK,
       Path,
       Request, OpNames, WorkInv, PhaseKnown, TypeOK, LocalsOK
  <2>. QED BY <1>1, <2>1 DEF RequestStored, CancelStored, PaymentStored, VerdictStored,
          EarlierVerdict, Announcing, Answering, Published
<1>. QED BY <1>2, <1>3

\* The order that a cancel, an initiate or a callback saves.
LEMMA SaveStored ==
  ASSUME TypeOK, NEW r \in Requests, SessionInv(r), WorkInv(r), SequenceTables,
         NEW o \in Orders, req[r].order = o, HandlerOK(r, o), SaveCommit(r),
         req[r].op \in {"cancel", "initiate", "callback"}
  PROVE  RequestStored(r, o)'
<1>1. /\ pc[r] = "commit" /\ pc'[r] = AfterOrderSave(r) /\ req' = req /\ stage' = stage
      /\ reply' = reply /\ payments' = payments
  BY DEF SaveCommit, Goto, TypeOK, LocalsOK, flowLocal
<1>2. orders'[o].status = ord[r].status /\ Change(r, Stored(o), ord[r])
  BY SaveStores
<1>3. CASE req[r].op = "cancel"
  <2>1. ord[r].status = "CANCELLED"
    BY <1>2, <1>3, ChangeMade DEF OpNames
  <2>2. payments[o].status # "PENDING"
    BY <1>1, <1>3 DEF HandlerOK, VoidingOK
  <2>. QED BY <1>1, <1>2, <1>3, <2>1, <2>2 DEF RequestStored, CancelStored, PaymentStored,
          VerdictStored, EarlierVerdict
<1>4. CASE req[r].op = "initiate"
  <2>1. pc'[r] = "gateway" \/ (pc'[r] = "done" /\ reply[r] # "ok")
    BY <1>1, <1>4 DEF AfterOrderSave, WorkInv, PhaseKnown
  <2>. QED BY <1>1, <2>1, UntoldStored DEF Announcing, Answering
<1>5. CASE req[r].op = "callback"
  <2>1. /\ payments[o].status = req[r].verdict /\ req[r].verdict \in Verdicts
        /\ pc'[r] = "send"
    BY <1>1, <1>5 DEF HandlerOK, SettlingOK, SessionInv, RequestOK, AfterOrderSave
  <2>2. ord[r].status \in IF req[r].verdict = "APPROVED" THEN {"PAID"}
                          ELSE {"PAYMENT_FAILED", "CANCELLED"}
    BY <1>2, <1>5, ChangeMade DEF OpNames, IsApproval, RejectedStatus
  <2>. QED BY <1>1, <1>2, <1>5, <2>1, <2>2 DEF RequestStored, CancelStored, PaymentStored,
          VerdictStored, EarlierVerdict, Answering
<1>. QED BY <1>3, <1>4, <1>5

\* The payment that an initiate saves; a cancel and a callback have yet to save their order.
LEMMA OpenedStored ==
  ASSUME TypeOK, NEW r \in Requests, SessionInv(r), WorkInv(r), SequenceTables,
         NEW o \in Orders, req[r].order = o, HandlerOK(r, o), PaymentCommit(r)
  PROVE  RequestStored(r, o)'
<1>1. /\ pc'[r] = AfterPaymentSave(r) /\ req' = req /\ orders' = orders
  BY DEF PaymentCommit, Goto, TypeOK, LocalsOK
<1>2. /\ req[r].op \in {"cancel", "initiate", "callback"} /\ orders[o].status =
            "PAYMENT_PENDING"
      /\ req[r].op = "initiate" => payments'[o].status = "PENDING"
  BY PaymentStores
<1>3. CASE req[r].op = "initiate"
  BY <1>1, <1>2, <1>3 DEF RequestStored, CancelStored, PaymentStored, VerdictStored,
     EarlierVerdict
<1>4. CASE req[r].op # "initiate"
  BY <1>1, <1>2, <1>4, UntoldStored DEF AfterPaymentSave, Announcing, Answering
<1>. QED BY <1>3, <1>4

\* A payment that is found: under the request's key, for the order that initiate
\* is to open one for (there is none, the order would not be ready for another),
\* or decided before the callback came.
LEMMA FoundStored ==
  ASSUME TypeOK, NEW r \in Requests, SessionInv(r), WorkInv(r), SequenceTables,
         NEW o \in Orders, req[r].order = o, HandlerOK(r, o), req'[r] = req[r],
         ReturnPaymentOfKey(r) \/ PreparePayment(r) \/ LoadPayment(r)
  PROVE  RequestStored(r, o)'
<1>1. CASE ReturnPaymentOfKey(r)
  <2>1. /\ req[r].op = "initiate" /\ req[r].key # Nil /\ pc'[r] \in {"done", "idem_get"}
    BY <1>1 DEF ReturnPaymentOfKey, Goto, Finish, SessionInv, RequestOK, Path, Request, OpNames,
       TypeOK, LocalsOK
  <2>. QED BY <2>1 DEF RequestStored, CancelStored, PaymentStored, VerdictStored,
     EarlierVerdict,
          Announcing
<1>2. CASE PreparePayment(r)
  <2>1. pc[r] = "initiate" /\ ord[r] = Stored(o)
    BY <1>2 DEF PreparePayment, HandlerOK, EntityCurrent, Reading
  <2>2. ord[r].status = orders[o].status
    BY <2>1, StoredType
  <2>3. ~(CanInitiatePayment(ord[r]) /\ IsOpen(payments[o]))
    BY <2>2 DEF CanInitiatePayment, IsOpen, SequenceTables, PaymentsFit, OrdersWith, Absent
  <2>4. pc'[r] = "select" \/ (pc'[r] = "done" /\ reply'[r] = "invalid_order_state")
    BY <1>2, <2>3 DEF PreparePayment, Goto, Finish, TypeOK, LocalsOK
  <2>. QED BY <2>4, UntoldStored DEF Announcing, Answering
<1>3. CASE LoadPayment(r)
  <2>1. /\ req[r].op = "callback" /\ stage'[r] = stage[r] /\ stage[r] \notin {"sent", "unsent"}
        /\ payments' = payments /\ pc'[r] \in {"done", "load"}
    BY <1>3 DEF LoadPayment, Goto, Finish, SessionInv, RequestOK, Path, Request, OpNames,
       WorkInv,
       PhaseKnown, flowLocal, dbVars, TypeOK, LocalsOK
  <2>2. pc'[r] = "done" /\ reply'[r] = "ok" /\ stage[r] = "start" =>
           payments[o].status \notin {Absent, "PENDING"}
    BY <1>3 DEF LoadPayment, Goto, Finish, TypeOK, LocalsOK
  <2>. QED BY <2>1, <2>2 DEF RequestStored, CancelStored, PaymentStored, VerdictStored,
          EarlierVerdict, Announcing, Answering, Published
<1>. QED BY <1>1, <1>2, <1>3

\* A request's own steps keep what it has stored.
LEMMA OwnStored ==
  ASSUME TypeOK, NEW r \in Requests, SessionInv(r), WorkInv(r), SequenceTables, Grows,
         NEW o \in Orders, req[r].order = o, HandlerOK(r, o), RequestStored(r, o),
         RepositoryStep(r) \/ UseCaseStep(r)
  PROVE  RequestStored(r, o)'
<1>1. req'[r] = req[r]
  BY SameRequest
<1>2. CASE req[r].op \notin {"cancel", "initiate", "callback"}
  BY <1>1, <1>2, OtherStored
<1>3. CASE req[r].op \in {"cancel", "initiate", "callback"} /\ RepositoryStep(r)
  BY <1>1, <1>3, RepositoryUntold, UntoldStored, AnnouncedStored, SaveStored, OpenedStored
     DEF RepositoryStep
<1>4. CASE req[r].op \in {"cancel", "initiate", "callback"} /\ UseCaseStep(r)
  BY <1>1, <1>4, UseCaseUntold, UntoldStored, FoundStored DEF UseCaseStep
<1>. QED BY <1>2, <1>3, <1>4

\* Every step keeps it when there is one slot.
LEMMA StepStored ==
  ASSUME OneAtATime
  PROVE  IndInv /\ IndWork /\ IndSequence /\ WorkStored /\ [Next]_vars => WorkStored'
<1>. SUFFICES ASSUME IndInv, IndWork, IndSequence, WorkStored, [Next]_vars,
                     NEW r \in Requests, NEW o \in Orders, req'[r].order = o
              PROVE  RequestStored(r, o)'
  BY DEF WorkStored
<1>1. /\ TypeOK /\ SequenceTables /\ SessionInv(r) /\ WorkInv(r)
      /\ SequenceSession(r) /\ \A s \in Requests : s = r
  BY DEF IndInv, IndWork, IndSequence, OneAtATime
<1>2. CASE RepositoryStep(r) \/ UseCaseStep(r)
  <2>1. req[r].order = o /\ Grows
    BY <1>1, <1>2, NextGrows, SameRequest DEF IndInv
  <2>. QED BY <1>1, <1>2, <2>1, OwnStored DEF SequenceSession, WorkStored
<1>3. CASE Arrive(r)
  <2>1. PICK request, first, firstStage : Brings(r, request, first, firstStage)
    BY <1>1, <1>3, Arrival
  <2>2. pc'[r] \notin {"send", "outbox_commit", "notify", "idem_save", "done"}
    BY <1>1, <2>1 DEF Brings, Receive, TypeOK, LocalsOK
  <2>. QED BY <2>2, UntoldStored DEF Announcing, Answering
<1>4. CASE Respond(r) \/ Crash
  <2>1. pc'[r] = "idle"
    BY <1>1, <1>4 DEF Respond, Crash, EndSessions
  <2>. QED BY <2>1, UntoldStored DEF Announcing, Answering
<1>5. CASE UNCHANGED vars
  BY <1>5 DEF vars, dbVars, flowLocal, WorkStored, RequestStored, CancelStored, PaymentStored,
     VerdictStored, EarlierVerdict, Announcing, Answering, Published
<1>. QED BY <1>1, <1>2, <1>3, <1>4, <1>5 DEF Next, Serve, Quiet

\* A success is in the tables when the client is told of it: the order cancelled
\* and no payment pending, the payment that was asked for pending and its order
\* waiting for it, the verdict in both tables; a callback that found the payment
\* decided speaks of the payment only.
THEOREM SuccessWasStored ==
  ASSUME OneAtATime
  PROVE  Spec => []SuccessIsInTables
<1>1. Init => WorkStored
  BY DEF Init, WorkStored, RequestStored, CancelStored, PaymentStored, VerdictStored,
     EarlierVerdict, Announcing, Answering
<1>2. IndInv /\ IndWork /\ IndSequence /\ WorkStored /\ [Next]_vars => WorkStored'
  BY StepStored
<1>3. IndInv /\ WorkStored => SuccessIsInTables
  <2>. SUFFICES ASSUME IndInv, WorkStored, NEW r \in Requests, pc[r] = "done", reply[r] = "ok"
                PROVE  LET order   == orders[req[r].order].status
                           payment == payments[req[r].order].status
                       IN  /\ req[r].op = "cancel" => order = "CANCELLED" /\ payment # "PENDING"
                           /\ req[r].op = "initiate" /\ req[r].key = Nil =>
                                 order = "PAYMENT_PENDING" /\ payment = "PENDING"
                           /\ req[r].op = "callback" /\ Published(r) =>
                                 /\ payment = req[r].verdict
                                 /\ order \in IF payment = "APPROVED" THEN {"PAID"}
                                              ELSE {"PAYMENT_FAILED", "CANCELLED"}
                           /\ req[r].op = "callback" /\ stage[r] = "start" =>
                                 payment \notin {Absent, "PENDING"}
    BY DEF SuccessIsInTables
  <2>1. req[r].order \in Orders
    BY DEF IndInv, SessionInv, RequestOK, Request
  <2>2. RequestStored(r, req[r].order)
    BY <2>1 DEF WorkStored
  <2>. QED BY <2>2 DEF RequestStored, CancelStored, PaymentStored, VerdictStored,
     EarlierVerdict,
          Answering
<1>. QED BY <1>1, <1>2, <1>3, SequenceInvariance, Invariance, WorkInvariance, PTL DEF Spec

(***************************************************************************)
(* What it says of the steps.                                              *)
(***************************************************************************)

\* The order's row changes in a SaveCommit or an InsertOrder alone.
LEMMA OrderWriters ==
  ASSUME IndInv, Next
  PROVE  \/ UNCHANGED <<orders, items>>
         \/ \E r \in Requests : SaveCommit(r) \/ InsertOrder(r)
<1>1. ASSUME NEW r \in Requests, RepositoryStep(r) \/ UseCaseStep(r)
      PROVE  UNCHANGED <<orders, items>> \/ SaveCommit(r) \/ InsertOrder(r)
  BY <1>1, ViewWriters, CallCharges DEF View, PaymentCommit, dbVars
<1>2. ASSUME NEW r \in Requests, Arrive(r) PROVE UNCHANGED <<orders, items>>
  <2>1. PICK request, first, firstStage : Brings(r, request, first, firstStage)
    BY <1>2, Arrival DEF IndInv
  <2>. QED BY <2>1 DEF Brings, Receive, dbVars
<1>3. ASSUME NEW r \in Requests, Respond(r) PROVE UNCHANGED <<orders, items>>
  BY <1>3 DEF Respond, dbVars
<1>4. Crash \/ Quiet => UNCHANGED <<orders, items>>
  BY DEF Crash, Quiet, vars, dbVars
<1>. QED BY <1>1, <1>2, <1>3, <1>4 DEF Next, Serve

\* What the request that writes an order relies on.
LEMMA WriterKnows ==
  ASSUME IndInv, IndWork, IndSequence, NEW r \in Requests, pc[r] \in {"commit", "insert",
     "pay_commit"}
  PROVE  /\ TypeOK /\ SessionInv(r) /\ WorkInv(r) /\ SequenceTables
         /\ req[r].order \in Orders /\ HandlerOK(r, req[r].order)
<1>1. TypeOK /\ SessionInv(r) /\ WorkInv(r) /\ SequenceTables /\ SequenceSession(r)
  BY DEF IndInv, IndWork, IndSequence
<1>2. req[r].order \in Orders
  BY <1>1 DEF SessionInv, RequestOK, Request
<1>. QED BY <1>1, <1>2 DEF SequenceSession

\* What a SaveCommit does to a table of orders.
LEMMA SavedOrder ==
  ASSUME IndInv, IndWork, IndSequence, NEW r \in Requests, SaveCommit(r), NEW o \in Orders
  PROVE  \/ orders'[o] = orders[o] /\ ItemsOf(o)' = ItemsOf(o)
         \/ /\ o = req[r].order /\ Change(r, Stored(o), ord[r]) /\ req[r].op \in OpNames \
                  {"create"}
            /\ orders'[o].status = ord[r].status /\ orders'[o].version = ord[r].version
            /\ req[r].op = "initiate" /\ stage[r] = "compensating" => prev[r] \in {"CONFIRMED",
                  "PAYMENT_FAILED"}
<1>1. pc[r] = "commit"
  BY DEF SaveCommit
<1>2. /\ TypeOK /\ SessionInv(r) /\ WorkInv(r) /\ SequenceTables
      /\ req[r].order \in Orders /\ HandlerOK(r, req[r].order)
  BY <1>1, WriterKnows
<1>3. CASE o = req[r].order
  <2>1. req[r].op = "initiate" => prev[r] \in {"CONFIRMED", "PAYMENT_FAILED"}
    BY <1>1, <1>2, <1>3 DEF HandlerOK, InitiatingOK, Initiated
  <2>. QED BY <1>2, <1>3, <2>1, SaveStores
<1>4. CASE o # req[r].order
  <2>. DEFINE p == req[r].order
  <2>1. p \in Orders /\ req[r].order = p /\ HandlerOK(r, p) /\ o # p
    BY <1>2, <1>4
  <2>. HIDE DEF p
  <2>. QED BY <1>2, <2>1, SaveStores
<1>. QED BY <1>3, <1>4

\* An order that is inserted was not there.
LEMMA InsertedOrder ==
  ASSUME IndInv, IndWork, IndSequence, NEW r \in Requests, InsertOrder(r)
  PROVE  /\ items' = items /\ req[r].order \in Orders
         /\ orders[req[r].order] = NoOrder
         /\ orders'[req[r].order] = [status |-> "DRAFT", total |-> 0, attempts |-> 0, version
               |-> 1]
         /\ \A o \in Orders : o # req[r].order => orders'[o] = orders[o]
         /\ ~HasActiveOrder(Owner[req[r].order])
<1>1. pc[r] = "insert" /\ TypeOK /\ SessionInv(r) /\ SequenceTables
  BY WriterKnows DEF InsertOrder
<1>2. req[r].order \in Orders /\ HandlerOK(r, req[r].order)
  BY WriterKnows DEF InsertOrder
<1>3. req[r].op = "create"
  BY <1>1 DEF SessionInv, RequestOK, Path, Request, OpNames
<1>4. orders[req[r].order] = NoOrder /\ ~HasActiveOrder(Owner[req[r].order])
  BY <1>1, <1>2, <1>3 DEF HandlerOK, CreatingOK, SequenceTables, AbsentEmpty
<1>. QED BY <1>1, <1>2, <1>4 DEF InsertOrder, TypeOK, DatabaseOK

\* Every change of an order or of its items raises its version by one.
THEOREM VersionsCountChanges ==
  ASSUME OneAtATime
  PROVE  Spec => VersionCountsChanges
<1>. DEFINE Counted(o) == orders'[o] # orders[o] \/ ItemsOf(o)' # ItemsOf(o) =>
                             orders'[o].version = orders[o].version + 1
<1>1. IndInv /\ IndWork /\ IndSequence /\ [Next]_vars => [\A o \in Orders : Counted(o)]_vars
  <2>. SUFFICES ASSUME IndInv, IndWork, IndSequence, Next, NEW o \in Orders PROVE Counted(o)
    OBVIOUS
  <2>1. CASE UNCHANGED <<orders, items>>
    BY <2>1 DEF ItemsOf
  <2>2. ASSUME NEW r \in Requests, SaveCommit(r) PROVE Counted(o)
    BY <2>2, SavedOrder, ChangeMade DEF IndInv
  <2>3. ASSUME NEW r \in Requests, InsertOrder(r) PROVE Counted(o)
    BY <2>3, InsertedOrder DEF NoOrder, ItemsOf
  <2>. QED BY <2>1, <2>2, <2>3, OrderWriters
<1>. QED BY <1>1, SequenceInvariance, Invariance, WorkInvariance, PTL DEF Spec,
   VersionCountsChanges

\* The status of an order moves along the table of state_machine.py, but for the
\* compensation of a refused payment.
THEOREM StatusFollowed ==
  ASSUME OneAtATime
  PROVE  Spec => StatusFollowsTable
<1>. DEFINE Follows(o) ==
       LET from == orders[o].status
           to   == orders'[o].status
       IN  from # to => \/ from = Absent /\ to = "DRAFT"
                        \/ from # Absent /\ CanTransition(from, to)
                        \/ from = "PAYMENT_PENDING" /\ \E r \in Requests : stage[r] =
                              "compensating" /\ to = prev[r]
<1>1. IndInv /\ IndWork /\ IndSequence /\ [Next]_vars => [\A o \in Orders : Follows(o)]_vars
  <2>. SUFFICES ASSUME IndInv, IndWork, IndSequence, Next, NEW o \in Orders PROVE Follows(o)
    OBVIOUS
  <2>1. CASE UNCHANGED <<orders, items>>
    BY <2>1
  <2>2. ASSUME NEW r \in Requests, SaveCommit(r) PROVE Follows(o)
    <3>1. TypeOK
      BY DEF IndInv
    <3>. QED BY <2>2, <3>1, SavedOrder, ChangeMade
            DEF CanTransition, ValidTransitions, OrderStatuses, CancellableStatuses,
               RejectedStatus, Absent
  <2>3. ASSUME NEW r \in Requests, InsertOrder(r) PROVE Follows(o)
    BY <2>3, InsertedOrder DEF NoOrder
  <2>. QED BY <2>1, <2>2, <2>3, OrderWriters
<1>. QED BY <1>1, SequenceInvariance, Invariance, WorkInvariance, PTL DEF Spec,
   StatusFollowsTable

\* A payment that was approved stays approved.
THEOREM ApprovalStays ==
  ASSUME OneAtATime
  PROVE  Spec => ApprovalIsFinal
<1>. DEFINE Stays(o) == payments[o].status = "APPROVED" => payments'[o].status = "APPROVED"
<1>1. IndInv /\ IndWork /\ IndSequence /\ [Next]_vars => [\A o \in Orders : Stays(o)]_vars
  <2>. SUFFICES ASSUME IndInv, IndWork, IndSequence, Next, NEW o \in Orders PROVE Stays(o)
    OBVIOUS
  <2>1. CASE UNCHANGED payments
    BY <2>1
  <2>2. ASSUME NEW r \in Requests, PaymentCommit(r) PROVE Stays(o)
    <3>. DEFINE p == req[r].order
    <3>1. TypeOK /\ SessionInv(r) /\ SequenceTables /\ p \in Orders /\ HandlerOK(r, p) /\
       req[r].order = p
      BY <2>2, WriterKnows DEF PaymentCommit
    <3>. HIDE DEF p
    <3>2. payments[p].status # "APPROVED" /\ \A q \in Orders : q # p => payments'[q] =
       payments[q]
      BY <2>2, <3>1, PaymentStores DEF Absent
    <3>. QED BY <3>2
  <2>3. UNCHANGED payments \/ \E r \in Requests : PaymentCommit(r)
    <3>1. ASSUME NEW r \in Requests, RepositoryStep(r) \/ UseCaseStep(r)
          PROVE  UNCHANGED payments \/ PaymentCommit(r)
      BY <3>1, ViewWriters, CallCharges DEF View, SaveCommit, InsertOrder, dbVars
    <3>2. ASSUME NEW r \in Requests, Arrive(r) PROVE UNCHANGED payments
      <4>1. PICK request, first, firstStage : Brings(r, request, first, firstStage)
        BY <3>2, Arrival DEF IndInv
      <4>. QED BY <4>1 DEF Brings, Receive, dbVars
    <3>3. ASSUME NEW r \in Requests, Respond(r) PROVE UNCHANGED payments
      BY <3>3 DEF Respond, dbVars
    <3>4. Crash \/ Quiet => UNCHANGED payments
      BY DEF Crash, Quiet, vars, dbVars
    <3>. QED BY <3>1, <3>2, <3>3, <3>4 DEF Next, Serve
  <2>. QED BY <2>1, <2>2, <2>3
<1>. QED BY <1>1, SequenceInvariance, Invariance, WorkInvariance, PTL DEF Spec, ApprovalIsFinal

\* A customer has at most one active order, when none has two at the start.
THEOREM OneActive ==
  ASSUME OneAtATime, OneGivenPerCustomer
  PROVE  Spec => []OneActiveOrder
<1>1. Init => OneActiveOrder
  <2>1. Init => \A o \in Orders : orders[o].status # Absent => Given[o] # "ABSENT"
    BY DEF Init, GivenRow, NoOrder, Absent
  <2>. QED BY <2>1 DEF OneActiveOrder, OneGivenPerCustomer
<1>2. IndInv /\ IndWork /\ IndSequence /\ OneActiveOrder /\ [Next]_vars => OneActiveOrder'
  <2>. SUFFICES ASSUME IndInv, IndWork, IndSequence, OneActiveOrder, [Next]_vars PROVE
     OneActiveOrder'
    OBVIOUS
  <2>. DEFINE Active(o) == orders[o].status \notin {Absent, "PAID", "CANCELLED"}
  <2>1. CASE UNCHANGED <<orders, items>>
    BY <2>1 DEF OneActiveOrder
  <2>2. ASSUME NEW r \in Requests, SaveCommit(r) PROVE OneActiveOrder'
    <3>1. \A o \in Orders : Active(o)' => Active(o)
      BY <2>2, SavedOrder, ChangeMade DEF IndInv, CancellableStatuses, Absent
    <3>. QED BY <3>1 DEF OneActiveOrder
  <2>3. ASSUME NEW r \in Requests, InsertOrder(r) PROVE OneActiveOrder'
    <3>1. \A o \in Orders : Active(o)' => Active(o) \/ o = req[r].order
      BY <2>3, InsertedOrder
    <3>2. \A o \in Orders : Active(o) => Owner[o] # Owner[req[r].order]
      BY <2>3, InsertedOrder DEF HasActiveOrder, ActiveStatuses, IndInv, TypeOK, DatabaseOK,
         Row, OrderStatuses
    <3>. QED BY <3>1, <3>2 DEF OneActiveOrder
  <2>4. UNCHANGED vars => UNCHANGED <<orders, items>>
    BY DEF vars, dbVars
  <2>. QED BY <2>1, <2>2, <2>3, <2>4, OrderWriters
<1>. QED BY <1>1, <1>2, SequenceInvariance, Invariance, WorkInvariance, PTL DEF Spec
================================================================================
