----------------------------- MODULE OrderQueries -----------------------------
(***************************************************************************)
(* GetOrderUseCase, ListOrdersUseCase and GetPaymentUseCase: a client that *)
(* reads while the requests of OrderService write.  A read is several      *)
(* statements at READ COMMITTED, each with a snapshot of its own; a walk   *)
(* over the pages of a customer is several requests.                       *)
(*                                                                         *)
(* The reader changes nothing the service has: a step is one of the        *)
(* service's, or one of the reader's that leaves vars unchanged.           *)
(***************************************************************************)
EXTENDS OrderProperties

CONSTANTS
    PageSizes,   \* values of the size parameter
    MaxQueries   \* bound: reads (a walk is one) begun in one behaviour

ASSUME QueriesAssumption ==
    /\ IsFiniteSet(Orders) /\ Nil \notin Customers
    /\ PageSizes \subseteq 1 .. 100
    /\ MaxQueries \in Nat

VARIABLES
    born,    \* created_at of an order, 0 as long as it has none
    at,      \* the reader's next round trip
    query,   \* what the reader asks for
    rows,    \* the orders selected, with their items
    pays,    \* the statuses of the payments selected, by order
    total,   \* count(*) of the customer's orders
    walk,    \* the client's walk: what it has to see, and what it saw
    queries  \* reads begun so far (bound)

readerVars == <<at, query, rows, pays, total, walk>>

queryVars == <<vars, born, readerVars, queries>>

NoQuery == [order |-> Nil, customer |-> Nil, page |-> 0, size |-> 0]

NoWalk == [existing |-> {}, seen |-> {}, insert |-> "none"]

(***************************************************************************)
(* PaginatedResult and the clamps of ListOrdersUseCase.                    *)
(***************************************************************************)
MaxPageSize == 100

PageSize(n) == Min({Max({n, 1}), MaxPageSize})

\* Pages that overlap by a row.
Offset_Overlapping(page, size) == (page - 1) * (size - 1)

Offset(page, size) == (page - 1) * size

TotalPages(count, size) ==
    IF size <= 0 THEN 0 ELSE (count + size - 1) \div size

\* A last page that is never announced.
HasNext_Early(page, count, size) == page + 1 < TotalPages(count, size)

HasNext(page, count, size) == page < TotalPages(count, size)

(***************************************************************************)
(* The database as a SELECT of the reader sees it.                         *)
(***************************************************************************)
ShownRow(o) == [status |-> orders[o].status, total |-> orders[o].total, items |-> {}]

OrdersOfCustomer(c) == {o \in Orders : Owner[o] = c /\ orders[o].status # Absent}

\* How many others of its customer ORDER BY created_at DESC puts before this one.
Newer(o) == Cardinality({p \in OrdersOfCustomer(Owner[o]) \ {o} : born[p] > born[o]})

\* OFFSET and LIMIT
Page(c, page, size) ==
    {o \in OrdersOfCustomer(c) : Offset(page, size) <= Newer(o) /\ Newer(o) < Offset(page, size) + size}

(***************************************************************************)
(* The statements a read goes through.                                     *)
(***************************************************************************)
\* The payment of an order before the order.
AfterRead_PaymentFirst(statement) ==
    CASE statement = "none"    -> "select_payments"
      [] statement = "payment" -> "select_order"
      [] statement = "order"   -> "select_items"
      [] OTHER                 -> "answer"

AfterRead(statement) ==
    CASE statement = "none"  -> "select_order"
      [] statement = "order" -> "select_items"
      [] statement = "items" -> "select_payments"
      [] OTHER               -> "answer"

(***************************************************************************)
(* Requests of the reader.                                                 *)
(***************************************************************************)
Ask(q, first) ==
    /\ at = "idle"
    /\ queries < MaxQueries
    /\ queries' = queries + 1
    /\ query' = q
    /\ at' = first
    /\ UNCHANGED <<rows, pays, total>>

AskOrder(o) ==
    /\ Ask([NoQuery EXCEPT !.order = o], AfterRead("none"))
    /\ UNCHANGED walk

AskPayment(o) ==
    /\ Ask([NoQuery EXCEPT !.order = o], "select_payment")
    /\ UNCHANGED walk

AskPages(c, n) ==
    /\ Ask([NoQuery EXCEPT !.customer = c, !.page = 1, !.size = PageSize(n)], "count")
    /\ walk' = [NoWalk EXCEPT !.existing = OrdersOfCustomer(c)]

(***************************************************************************)
(* The statements: the rows, their items (selectinload), their payments.   *)
(***************************************************************************)
SelectOrder ==
    /\ at = "select_order"
    /\ \/ /\ orders[query.order].status # Absent
          /\ rows' = [o \in {query.order} |-> ShownRow(o)]
          /\ at' = AfterRead("order")
       \/ /\ orders[query.order].status = Absent
          /\ at' = "answer"
          /\ UNCHANGED rows
    /\ UNCHANGED <<query, pays, total, walk, queries>>

CountOrders ==
    /\ at = "count"
    /\ total' = Cardinality(OrdersOfCustomer(query.customer))
    /\ at' = "select_page"
    /\ UNCHANGED <<query, rows, pays, walk, queries>>

ShownIds == DOMAIN rows

\* An empty page asks for neither items nor payments.
SelectPage ==
    /\ at = "select_page"
    /\ rows' = [o \in Page(query.customer, query.page, query.size) |-> ShownRow(o)]
    /\ at' = IF ShownIds' = {} THEN "answer" ELSE AfterRead("order")
    /\ UNCHANGED <<query, pays, total, walk, queries>>

SelectItems ==
    /\ at = "select_items"
    /\ rows' = [o \in ShownIds |-> [rows[o] EXCEPT !.items = ItemsOf(o)]]
    /\ at' = AfterRead("items")
    /\ UNCHANGED <<query, pays, total, walk, queries>>

Walking == query.customer # Nil

\* get_by_order_id, or find_by_order_ids in one statement for the whole page.
SelectPayments ==
    /\ at = "select_payments"
    /\ pays' = [o \in IF Walking THEN ShownIds ELSE {query.order} |-> payments[o].status]
    /\ at' = AfterRead("payment")
    /\ UNCHANGED <<query, rows, total, walk, queries>>

\* get_by_id of a payment, which is named by its order; without one, a 404.
SelectPayment ==
    /\ at = "select_payment"
    /\ pays' = [o \in {query.order} |-> payments[o].status]
    /\ at' = "answer"
    /\ UNCHANGED <<query, rows, total, walk, queries>>

(***************************************************************************)
(* Answers.  A client that walks asks for the next page as long as         *)
(* has_next says that there is one.                                        *)
(***************************************************************************)
EndRead ==
    /\ at' = "idle"
    /\ query' = NoQuery /\ rows' = <<>> /\ pays' = <<>> /\ total' = 0 /\ walk' = NoWalk

MorePages == HasNext(query.page, total, query.size)

AnswerOne ==
    /\ at = "answer"
    /\ ~(Walking /\ MorePages)
    /\ EndRead
    /\ UNCHANGED queries

AnswerPage ==
    /\ at = "answer"
    /\ Walking /\ MorePages
    /\ walk' = [walk EXCEPT !.seen = @ \cup ShownIds, !.insert = IF @ = "none" THEN @ ELSE "earlier"]
    /\ query' = [query EXCEPT !.page = @ + 1]
    /\ rows' = <<>> /\ pays' = <<>>
    /\ total' = 0
    /\ at' = "count"
    /\ UNCHANGED queries

ReaderStep ==
    \/ \E o \in Orders : AskOrder(o) \/ AskPayment(o)
    \/ \E c \in Customers, n \in PageSizes : AskPages(c, n)
    \/ SelectOrder \/ CountOrders \/ SelectPage \/ SelectItems \/ SelectPayments \/ SelectPayment
    \/ AnswerOne \/ AnswerPage

(***************************************************************************)
(* The service beside the reader.                                          *)
(***************************************************************************)
\* The order whose entity a create makes in this step.
Created == {req[r].order : r \in {s \in Requests : pc[s] = "active_check" /\ pc'[s] = "insert"}}

\* created_at is taken when the entity is made, between the query for an active
\* order and the INSERT.
NoteCreation ==
    born' = [o \in Orders |-> IF o \in Created THEN 1 + Max({0} \cup {born[p] : p \in Orders \ Created})
                              ELSE born[o]]

\* When an order of the customer was inserted last, seen from the walk.
NoteInsert ==
    walk' = IF /\ Walking
               /\ \E o \in Orders : /\ Owner[o] = query.customer
                                    /\ orders[o].status = Absent /\ orders'[o].status # Absent
            THEN [walk EXCEPT !.insert =
                     IF at = "select_page" THEN "count_to_page" ELSE IF @ = "none" THEN "earlier" ELSE @]
            ELSE walk

\* A crash ends the reader's request, and its client gives up the walk.
ServiceStep ==
    /\ Next
    /\ NoteCreation
    /\ \/ /\ crashes' = crashes
          /\ NoteInsert
          /\ UNCHANGED <<at, query, rows, pays, total>>
       \/ crashes' # crashes /\ EndRead
    /\ UNCHANGED queries

InitQueries ==
    /\ Init
    /\ born \in [Orders -> 0 .. Cardinality({o \in Orders : Given[o] # "ABSENT"})]
    /\ \A o \in Orders : born[o] = 0 <=> Given[o] = "ABSENT"
    /\ \A o, p \in Orders : born[o] = born[p] /\ born[o] # 0 => o = p
    /\ at = "idle"
    /\ query = NoQuery /\ rows = <<>> /\ pays = <<>> /\ total = 0 /\ walk = NoWalk
    /\ queries = 0

NextWithQueries ==
    \/ ServiceStep
    \/ ReaderStep /\ UNCHANGED <<vars, born>>

QuerySpec == InitQueries /\ [][NextWithQueries]_queryVars

(***************************************************************************)
(* What a reader is told.  Requests that write come one at a time.         *)
(***************************************************************************)
Answered == at = "answer"

AnswersPayment(o) == IF o \in DOMAIN pays THEN pays[o] ELSE Absent

\* An answer that shows an order as PAID shows its approved payment, in spite of
\* the two snapshots: the callback commits the payment before the order, and the
\* readers select the order before the payment.
PaidShownWithApproval ==
    Answered => \A o \in ShownIds : rows[o].status = "PAID" => AnswersPayment(o) = "APPROVED"

\* An answer that shows an order as CANCELLED shows no payment that is still
\* awaited: cancel voids the payment before it saves the order.
CancelledShownWithoutPending ==
    Answered => \A o \in ShownIds : rows[o].status = "CANCELLED" => AnswersPayment(o) # "PENDING"

\* An answer that shows an order as confirmed, or beyond, shows all its items
\* with their prices, adding up to the total shown, although the items come from
\* a later snapshot than the total.
ShownTotalMatchesItems ==
    Answered => \A o \in ShownIds :
        rows[o].status \in {"CONFIRMED", "PAYMENT_PENDING", "PAYMENT_FAILED", "PAID"} =>
            /\ rows[o].items # {}
            /\ \A i \in rows[o].items : i.price # NoPrice
            /\ rows[o].total = LineTotal(rows[o].items)

\* A walk that follows has_next to its end saw every order the customer had when
\* it began, whatever was created and cancelled meanwhile, unless an order was
\* inserted between the count and the page of its last request: the page then
\* moved by one and has_next did not.
WalkMissesNothing ==
    Answered /\ Walking /\ ~MorePages /\ walk.insert # "count_to_page" =>
        walk.existing \subseteq walk.seen \cup ShownIds

\* As long as no order is inserted, no page repeats an order of an earlier one.
WalkRepeatsNothing ==
    Answered /\ Walking /\ walk.insert = "none" => walk.seen \cap ShownIds = {}
================================================================================
