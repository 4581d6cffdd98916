----------------------------- MODULE DraftUseCases -----------------------------
(***************************************************************************)
(* CreateOrderUseCase, AddItemUseCase and RemoveItemUseCase: the life of   *)
(* an order while it is a draft.                                           *)
(***************************************************************************)
EXTENDS EventPublisher

\* uuid4: the id of the new order is in no table and in no other request.
FreshOrder(o) ==
    /\ orders[o].status = Absent
    /\ \A r \in Requests : req[r].order # o

ReceiveCreate(r, o) ==
    /\ FreshOrder(o)
    /\ Receive(r, [NoRequest EXCEPT !.op = "create", !.order = o], "customer", "start")

CheckCustomer(r) ==
    /\ pc[r] = "customer"
    /\ CustomerAnswers(r, "active_check")
    /\ UNCHANGED <<dbVars, worldVars, req, orderLocal, pay, flowLocal, boundVars, ghostVars>>

\* A query that looks at drafts alone.
HasActiveOrder_DraftsOnly(c) ==
    \E o \in Orders : Owner[o] = c /\ orders[o].status = "DRAFT"

HasActiveOrder(c) ==
    \E o \in Orders : Owner[o] = c /\ orders[o].status \in ActiveStatuses

CheckNoActiveOrder(r) ==
    /\ pc[r] = "active_check"
    /\ \/ ~HasActiveOrder(Owner[req[r].order]) /\ Goto(r, "insert")
       \/ HasActiveOrder(Owner[req[r].order]) /\ Finish(r, "active_order_exists")
    /\ UNCHANGED <<dbVars, worldVars, req, orderLocal, pay, flowLocal, boundVars, ghostVars>>

ReceiveAddItem(r, o, p) ==
    Receive(r, [NoRequest EXCEPT !.op = "add", !.order = o, !.product = p], "load", "start")

ReceiveRemoveItem(r, o, i) ==
    Receive(r, [NoRequest EXCEPT !.op = "remove", !.order = o, !.item = i], "load", "start")

\* uuid4: an item id no table and no request knows.
FreshItem(id) ==
    /\ id \notin Ids(items)
    /\ \A r \in Requests : id \notin Ids(ord[r].items) \cup Ids(base[r].items) \cup {req[r].item}

NewItem(r, id) ==
    [id |-> id, order |-> req[r].order, product |-> req[r].product, qty |-> 1, price |-> NoPrice]

\* catalog_gateway.get_product, then version += 1 and add_item.
AddProduct(r) ==
    /\ pc[r] = "product"
    /\ \/ /\ CanEditItems(ord[r])
          /\ \E id \in ItemIds : FreshItem(id) /\ \E added \in AddItemTo(NextVersion(ord[r]), NewItem(r, id)) :
                ord' = [ord EXCEPT ![r] = added]
          /\ Goto(r, "select")
       \/ ~CanEditItems(ord[r]) /\ Finish(r, "invalid_order_state") /\ UNCHANGED ord
       \/ Finish(r, "catalog_validation_error") /\ UNCHANGED ord
       \/ Finish(r, "error") /\ UNCHANGED ord
    /\ UNCHANGED <<dbVars, worldVars, req, base, cached, pay, flowLocal, boundVars, ghostVars>>

\* remove_item: the state is checked first, then the item is looked up.
RemoveProduct(r) ==
    /\ pc[r] = "remove"
    /\ \/ /\ CanEditItems(ord[r])
          /\ req[r].item \in Ids(ord[r].items)
          /\ ord' = [ord EXCEPT ![r] = RemoveItemFrom(NextVersion(@), req[r].item)]
          /\ Goto(r, "select")
       \/ /\ CanEditItems(ord[r])
          /\ req[r].item \notin Ids(ord[r].items)
          /\ Finish(r, "item_not_found")
          /\ UNCHANGED ord
       \/ ~CanEditItems(ord[r]) /\ Finish(r, "invalid_order_state") /\ UNCHANGED ord
    /\ UNCHANGED <<dbVars, worldVars, req, base, cached, pay, flowLocal, boundVars, ghostVars>>
================================================================================
