------------------------------ MODULE OrderReading ------------------------------
(***************************************************************************)
(* What a reader and a client that walks can rely on while the orders      *)
(* change under them: the inductive strengthening of the properties of     *)
(* OrderQueries.  It rests on OrderSequence.                               *)
(***************************************************************************)
EXTENDS OrderQueries, OrderSequence

AfterPage == {"select_items", "select_payments", "answer"}

ReaderType ==
    /\ at \in {"idle", "select_order", "count", "select_page", "select_payment"} \cup AfterPage
    /\ query \in [order : Orders \cup {Nil}, customer : Customers \cup {Nil}, page : Nat, size : Nat]
    /\ ShownIds \subseteq Orders
    /\ rows \in [ShownIds -> [status : OrderStatuses \cup {Absent}, total : Nat, items : SUBSET ItemRow]]
    /\ total \in Nat
    /\ walk \in [existing : SUBSET Orders, seen : SUBSET Orders,
                insert : {"none", "earlier", "count_to_page"}]

\* The statements of a read, and of a walk.
ReaderPath ==
    /\ at \notin AfterPage => ShownIds = {}
    /\ at = "idle" => ~Walking
    /\ at \in {"count", "select_page"} => Walking
    /\ at # "idle" /\ ~Walking => query.order \in Orders /\ ShownIds \subseteq {query.order}
    /\ Walking => at \in {"count", "select_page"} \cup AfterPage /\ query.page > 0 /\ query.size > 0

\* What an answer shows of an order that is past its draft is still so.
RowStands(o) ==
    /\ rows[o].status \in {"PAID", "CANCELLED"} => orders[o].status = rows[o].status
    /\ rows[o].status \in ConfirmedStatuses =>
          /\ EverConfirmed(o)
          /\ rows[o].total = orders[o].total
          /\ at # "select_items" => rows[o].items = ItemsOf(o)

\* A payment is selected after its order, and so is never behind it.
PaymentFits(o) ==
    at = "answer" =>
        /\ rows[o].status = "PAID" => AnswersPayment(o) = "APPROVED"
        /\ rows[o].status = "CANCELLED" => AnswersPayment(o) # "PENDING"

ShownOK == \A o \in ShownIds : RowStands(o) /\ PaymentFits(o)

\* The order is on this page or on a later one.
Ahead(o, page) == Newer(o) >= Offset(page, query.size)

\* The next page that will be selected.
NextPage == IF at \in AfterPage THEN query.page + 1 ELSE query.page

WalkOK ==
    Walking =>
        /\ walk.existing \cup walk.seen \cup ShownIds \subseteq OrdersOfCustomer(query.customer)
        \* Nothing is missed: what was not seen is still to come.
        /\ \A o \in walk.existing \ (walk.seen \cup ShownIds) : Ahead(o, NextPage)
        /\ at = "select_page" /\ walk.insert # "count_to_page" =>
              total = Cardinality(OrdersOfCustomer(query.customer))
        /\ at \in AfterPage /\ walk.insert # "count_to_page" /\ ~MorePages =>
              walk.existing \subseteq walk.seen \cup ShownIds
        \* Nothing is repeated, as long as the pages do not move.
        /\ walk.insert = "none" =>
              /\ \A o \in walk.seen : ~Ahead(o, query.page)
              /\ \A o \in ShownIds : Ahead(o, query.page) /\ ~Ahead(o, query.page + 1)

IndReading == ReaderType /\ ReaderPath /\ ShownOK /\ WalkOK
================================================================================
