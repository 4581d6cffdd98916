-------------------------- MODULE OrderReadingProofs ---------------------------
(***************************************************************************)
(* What readers are shown while requests write one at a time: IndReading   *)
(* is kept by every step of the service and of the reader, and with it the *)
(* properties of OrderQueries.                                             *)
(***************************************************************************)
EXTENDS OrderTotalProofs, OrderReading

IndAll == IndInv /\ IndWork /\ IndSequence /\ IndTotal

(***************************************************************************)
(* What no step of the service takes back.                                 *)
(***************************************************************************)

\* An order stays, PAID and CANCELLED stay, and what was confirmed keeps its
\* total and its items.
Stands(o) ==
    /\ orders[o].status # Absent => orders'[o].status # Absent
    /\ orders[o].status \in {"PAID", "CANCELLED"} => orders'[o].status = orders[o].status
    /\ EverConfirmed(o) =>
          EverConfirmed(o)' /\ orders'[o].total = orders[o].total /\ ItemsOf(o)' = ItemsOf(o)

\* Whichever request saves or inserts.
LEMMA OrdersStand ==
  ASSUME IndAll, [Next]_vars, NEW o \in Orders
  PROVE  Stands(o)
<1>1. TypeOK /\ IndInv /\ IndWork /\ IndSequence /\ IndTotal /\ StoredTotal(o) /\ ItemIdsUnique
  BY DEF IndAll, IndInv, IndTotal, IndSequence, SequenceTables
<1>2. EverConfirmed(o) => EverConfirmed(o)'
  BY <1>1, NextWorkGrows DEF WorkGrows, EverConfirmed, EventTypes
<1>3. CASE UNCHANGED <<orders, items>>
  BY <1>2, <1>3 DEF Stands, ItemsOf
<1>4. ASSUME NEW r \in Requests, SaveCommit(r) PROVE Stands(o)
  <2>1. CASE orders'[o] = orders[o] /\ ItemsOf(o)' = ItemsOf(o)
    BY <1>2, <2>1 DEF Stands
  <2>2. CASE ~(orders'[o] = orders[o] /\ ItemsOf(o)' = ItemsOf(o))
    <3>1. /\ o = req[r].order /\ Change(r, Stored(o), ord[r]) /\ req[r].op \in OpNames \ {"create"}
          /\ orders'[o].status = ord[r].status
          /\ req[r].op = "initiate" /\ stage[r] = "compensating" => prev[r] \in {"CONFIRMED", "PAYMENT_FAILED"}
      BY <1>1, <1>4, <2>2, SavedOrder
    <3>2. /\ orders[o].status \notin {Absent, "PAID", "CANCELLED"}
          /\ ord[r].status # Absent
          /\ req[r].op \in {"add", "remove", "confirm"} => orders[o].status = "DRAFT"
      BY <1>1, <3>1, ChangeMade DEF CancellableStatuses, RejectedStatus, Absent
    <3>3. EverConfirmed(o) => orders[o].status # "DRAFT"
      BY <1>1 DEF StoredTotal
    <3>4. EverConfirmed(o) => ord[r].total = orders[o].total /\ ord[r].items = ItemsOf(o)
      BY <1>1, <3>1, <3>2, <3>3, ChangeKeepsTotal
    <3>5. Stored(o)' = ord[r]
      <4>1. pc[r] = "commit"
        BY <1>4 DEF SaveCommit
      <4>2. SessionInv(r) /\ SequenceTables /\ HandlerOK(r, o)
        BY <1>1, <3>1, <4>1, WriterKnows
      <4>. QED BY <1>1, <1>4, <3>1, <4>2, SaveStores
    <3>6. orders'[o].total = ord[r].total /\ ItemsOf(o)' = ord[r].items
      BY <3>5 DEF Stored, InMemory
    <3>. QED BY <1>2, <3>1, <3>2, <3>4, <3>6 DEF Stands
  <2>. QED BY <2>1, <2>2
<1>5. ASSUME NEW r \in Requests, InsertOrder(r) PROVE Stands(o)
  <2>1. /\ items' = items /\ orders[req[r].order] = NoOrder
        /\ orders'[req[r].order] = [status |-> "DRAFT", total |-> 0, attempts |-> 0, version |-> 1]
        /\ o # req[r].order => orders'[o] = orders[o]
    BY <1>1, <1>5, InsertedOrder
  <2>2. EverConfirmed(o) => orders[o].status # Absent
    BY <1>1 DEF StoredTotal
  <2>3. ItemsOf(o)' = ItemsOf(o)
    BY <2>1 DEF ItemsOf
  <2>4. CASE o = req[r].order
    BY <2>1, <2>2, <2>4 DEF Stands, NoOrder, Absent
  <2>. QED BY <1>2, <2>1, <2>3, <2>4 DEF Stands
<1>6. UNCHANGED vars => UNCHANGED <<orders, items>>
  BY DEF vars, dbVars
<1>. QED BY <1>1, <1>3, <1>4, <1>5, <1>6, OrderWriters

\* created_at of an order that is there does not change.
LEMMA CreationStands ==
  ASSUME IndAll, NoteCreation, NEW o \in Orders, orders[o].status # Absent
  PROVE  born'[o] = born[o]
<1>1. o \notin Created
  <2>. SUFFICES ASSUME NEW r \in Requests, pc[r] = "active_check", req[r].order = o PROVE FALSE
    BY DEF Created
  <2>1. SessionInv(r) /\ HandlerOK(r, o)
    BY DEF IndAll, IndInv, IndSequence, SequenceSession
  <2>2. req[r].op = "create"
    BY <2>1 DEF SessionInv, RequestOK, Path, Request, OpNames
  <2>. QED BY <2>1, <2>2 DEF HandlerOK, CreatingOK
<1>. QED BY <1>1 DEF NoteCreation

(***************************************************************************)
(* Pages.                                                                  *)
(***************************************************************************)

\* Where an order stands among the orders of its customer.
LEMMA Positions ==
  ASSUME NEW c, NEW o \in OrdersOfCustomer(c)
  PROVE  /\ Newer(o) \in Nat /\ Cardinality(OrdersOfCustomer(c)) \in Nat
         /\ Newer(o) < Cardinality(OrdersOfCustomer(c))
<1>. DEFINE S == OrdersOfCustomer(c)
            N == {p \in S \ {o} : born[p] > born[o]}
<1>1. o \in S /\ S \subseteq Orders /\ Newer(o) = Cardinality(N) /\ N \subseteq S \ {o}
  BY DEF OrdersOfCustomer, Newer
<1>. HIDE DEF S, N
<1>2. IsFiniteSet(S) /\ Cardinality(S) \in Nat
  BY <1>1, QueriesAssumption, FS_Subset, FS_CardinalityType
<1>3. IsFiniteSet(S \ {o}) /\ Cardinality(S \ {o}) = Cardinality(S) - 1
  BY <1>1, <1>2, FS_RemoveElement
<1>4. Cardinality(N) \in Nat /\ Cardinality(N) <= Cardinality(S \ {o})
  BY <1>1, <1>3, FS_Subset, FS_CardinalityType
<1>5. Cardinality(N) < Cardinality(S)
  BY <1>2, <1>3, <1>4
<1>. QED BY <1>1, <1>2, <1>4, <1>5 DEF S

\* A count of the orders of a customer is a number, though there be none.
LEMMA CountIsNat ==
  ASSUME NEW c
  PROVE  Cardinality(OrdersOfCustomer(c)) \in Nat
<1>1. OrdersOfCustomer(c) \subseteq Orders
  BY DEF OrdersOfCustomer
<1>. QED BY <1>1, QueriesAssumption, FS_Subset, FS_CardinalityType

\* An order moves back by the orders inserted before it, and by nothing else.
LEMMA PagesStand ==
  ASSUME IndAll, [Next]_vars, NoteCreation, NEW c, NEW o \in OrdersOfCustomer(c)
  PROVE  /\ OrdersOfCustomer(c) \subseteq OrdersOfCustomer(c)'
         /\ Newer(o) \in Nat /\ Newer(o)' \in Nat /\ Newer(o) <= Newer(o)'
         /\ Newer(o) < Cardinality(OrdersOfCustomer(c))
         /\ OrdersOfCustomer(c)' = OrdersOfCustomer(c) => Newer(o)' = Newer(o)
<1>. DEFINE S == OrdersOfCustomer(c)
            N == {p \in S \ {o} : born[p] > born[o]}
<1>1. \A p \in Orders : Stands(p)
  BY OrdersStand
<1>2. S \subseteq S' /\ S' \subseteq Orders /\ o \in S /\ o \in Orders /\ Owner[o] = c
  BY <1>1 DEF OrdersOfCustomer, Stands
<1>3. \A p \in S : born'[p] = born[p]
  BY CreationStands DEF OrdersOfCustomer
<1>4. Newer(o) = Cardinality(N) /\ Newer(o)' = Cardinality(N')
  BY <1>2 DEF Newer
<1>5. N \subseteq N' /\ N' \subseteq S' /\ (S' = S => N' = N)
  BY <1>2, <1>3
<1>6. Newer(o) \in Nat /\ Newer(o) < Cardinality(S)
  BY Positions
<1>. HIDE DEF S, N
<1>7. IsFiniteSet(N')
  BY <1>2, <1>5, QueriesAssumption, FS_Subset
<1>8. Cardinality(N') \in Nat /\ Cardinality(N) <= Cardinality(N')
  BY <1>5, <1>7, FS_Subset, FS_CardinalityType
<1>. QED BY <1>2, <1>4, <1>5, <1>6, <1>8 DEF S

\* Pages follow one another without a gap.
LEMMA Offsets ==
  ASSUME NEW page \in Nat, page > 0, NEW size \in Nat
  PROVE  Offset(page, size) \in Nat /\ Offset(page + 1, size) = Offset(page, size) + size
<1>1. page - 1 \in Nat /\ (page + 1) - 1 = (page - 1) + 1
  OBVIOUS
<1>2. \A k \in Nat : k * size \in Nat /\ (k + 1) * size = k * size + size
  OBVIOUS
<1>. QED BY <1>1, <1>2 DEF Offset

\* The last page ends behind the last order.
LEMMA LastPage ==
  ASSUME NEW page \in Nat, page > 0, NEW size \in Nat, size > 0, NEW count \in Nat,
         ~HasNext(page, count, size)
  PROVE  count <= Offset(page + 1, size)
<1>. DEFINE n == (count + size - 1) \div size
<1>1. page >= n
  BY DEF HasNext, TotalPages
<1>2. n \in Int /\ count + size - 1 < n * size + size
  OBVIOUS
<1>. HIDE DEF n
<1>3. n * size <= page * size
  BY <1>1, <1>2
<1>4. Offset(page + 1, size) = page * size
  <2>1. (page + 1) - 1 = page
    OBVIOUS
  <2>. QED BY <2>1 DEF Offset
<1>5. n * size \in Int /\ page * size \in Int
  BY <1>2
<1>. DEFINE x == n * size
            y == page * size
<1>6. x \in Int /\ y \in Int /\ x <= y /\ count + size - 1 < x + size
  BY <1>2, <1>3, <1>5
<1>. HIDE DEF x, y
<1>7. count <= y
  BY <1>6
<1>. QED BY <1>4, <1>7 DEF y

(***************************************************************************)
(* A step of the service, seen from the reader.                            *)
(***************************************************************************)

\* The reader's request dies with the process.
LEMMA EndReading ==
  ASSUME EndRead
  PROVE  IndReading'
<1>1. /\ at' = "idle" /\ query' = NoQuery /\ rows' = <<>> /\ total' = 0 /\ walk' = NoWalk
  BY DEF EndRead
<1>2. ShownIds' = {} /\ rows' \in [{} -> [status : OrderStatuses \cup {Absent}, total : Nat, items : SUBSET ItemRow]]
  BY <1>1 DEF ShownIds
<1>3. ~Walking'
  BY <1>1 DEF Walking, NoQuery
<1>4. ReaderType'
  BY <1>1, <1>2 DEF ReaderType, NoQuery, NoWalk
<1>5. ReaderPath' /\ ShownOK' /\ WalkOK'
  BY <1>1, <1>2, <1>3 DEF ReaderPath, ShownOK, WalkOK, AfterPage
<1>. QED BY <1>4, <1>5 DEF IndReading

\* What an answer shows stands.
LEMMA ServiceShows ==
  ASSUME IndAll, [Next]_vars, ReaderType, ShownOK, UNCHANGED <<at, rows, pays>>
  PROVE  ShownOK'
<1>. SUFFICES ASSUME NEW o \in ShownIds PROVE RowStands(o)' /\ PaymentFits(o)'
  BY DEF ShownOK, ShownIds
<1>1. o \in Orders /\ Stands(o) /\ RowStands(o) /\ PaymentFits(o)
  BY OrdersStand DEF ShownOK, ReaderType
<1>2. RowStands(o)'
  BY <1>1 DEF RowStands, Stands
<1>3. PaymentFits(o)'
  BY <1>1 DEF PaymentFits, AnswersPayment
<1>. QED BY <1>2, <1>3

\* A walk is not disturbed but by an insert, which is noted.
LEMMA ServiceWalks ==
  ASSUME IndAll, [Next]_vars, NoteCreation, ReaderType, ReaderPath, WalkOK, NoteInsert,
         UNCHANGED <<at, query, rows, total>>
  PROVE  walk' \in [existing : SUBSET Orders, seen : SUBSET Orders, insert : {"none", "earlier", "count_to_page"}]
         /\ WalkOK'
<1>. DEFINE c == query.customer
            S == OrdersOfCustomer(c)
<1>1. /\ walk'.existing = walk.existing /\ walk'.seen = walk.seen
      /\ walk' \in [existing : SUBSET Orders, seen : SUBSET Orders, insert : {"none", "earlier", "count_to_page"}]
      /\ walk'.insert = "none" => walk.insert = "none"
      /\ walk'.insert # "count_to_page" => walk.insert # "count_to_page"
  BY DEF NoteInsert, ReaderType
<1>2. S \subseteq S'
  BY OrdersStand DEF OrdersOfCustomer, Stands
<1>3. ASSUME Walking, S' # S
      PROVE  walk'.insert # "none" /\ (at = "select_page" => walk'.insert = "count_to_page")
  <2>1. \E o \in Orders : orders[o].status = Absent /\ orders'[o].status # Absent /\ Owner[o] = c
    BY <1>2, <1>3 DEF OrdersOfCustomer
  <2>. QED BY <1>3, <2>1 DEF NoteInsert, ReaderType
<1>4. /\ ShownIds' = ShownIds /\ Walking' = Walking /\ NextPage' = NextPage /\ MorePages' = MorePages
      /\ at' = at /\ query' = query /\ rows' = rows /\ total' = total
  BY DEF ShownIds, Walking, NextPage, MorePages
<1>. SUFFICES ASSUME Walking PROVE WalkOK'
  BY <1>1, <1>4 DEF WalkOK
<1>5. /\ query.page \in Nat /\ query.page > 0 /\ query.size \in Nat
      /\ NextPage \in Nat /\ NextPage > 0
  BY DEF ReaderType, ReaderPath, NextPage
<1>6. \A page \in Nat : page > 0 => Offset(page, query.size) \in Nat
  BY <1>5, Offsets
<1>7. ASSUME NEW o \in S, NEW page \in Nat, page > 0
      PROVE  /\ Ahead(o, page) => Ahead(o, page)'
             /\ S' = S => Ahead(o, page)' = Ahead(o, page)
  <2>1. Newer(o) \in Nat /\ Newer(o)' \in Nat /\ Newer(o) <= Newer(o)' /\ (S' = S => Newer(o)' = Newer(o))
    BY PagesStand
  <2>2. Offset(page, query.size)' = Offset(page, query.size)
    BY DEF Offset
  <2>. QED BY <1>6, <1>7, <2>1, <2>2 DEF Ahead
<1>8. /\ walk.existing \cup walk.seen \cup ShownIds \subseteq S
      /\ \A o \in walk.existing \ (walk.seen \cup ShownIds) : Ahead(o, NextPage)
      /\ at = "select_page" /\ walk.insert # "count_to_page" => total = Cardinality(S)
      /\ at \in AfterPage /\ walk.insert # "count_to_page" /\ ~MorePages =>
            walk.existing \subseteq walk.seen \cup ShownIds
      /\ walk.insert = "none" =>
            /\ \A o \in walk.seen : ~Ahead(o, query.page)
            /\ \A o \in ShownIds : Ahead(o, query.page) /\ ~Ahead(o, query.page + 1)
  BY DEF WalkOK
<1>. HIDE DEF S
<1>9. /\ walk'.existing \cup walk'.seen \cup ShownIds' \subseteq S'
      /\ \A o \in walk'.existing \ (walk'.seen \cup ShownIds') : Ahead(o, NextPage)'
  BY <1>1, <1>2, <1>4, <1>5, <1>7, <1>8
<1>10. at' = "select_page" /\ walk'.insert # "count_to_page" => total' = Cardinality(S')
  BY <1>1, <1>3, <1>4, <1>8
<1>11. at' \in AfterPage /\ walk'.insert # "count_to_page" /\ ~MorePages' =>
            walk'.existing \subseteq walk'.seen \cup ShownIds'
  BY <1>1, <1>4, <1>8
<1>12. walk'.insert = "none" =>
            /\ \A o \in walk'.seen : ~Ahead(o, query.page)'
            /\ \A o \in ShownIds' : Ahead(o, query.page)' /\ ~Ahead(o, query.page + 1)'
  <2>. SUFFICES ASSUME walk'.insert = "none"
                PROVE  /\ \A o \in walk.seen : ~Ahead(o, query.page)'
                       /\ \A o \in ShownIds : Ahead(o, query.page)' /\ ~Ahead(o, query.page + 1)'
    BY <1>1, <1>4
  <2>1. S' = S /\ walk.insert = "none"
    BY <1>1, <1>3
  <2>2. query.page + 1 \in Nat /\ query.page + 1 > 0
    BY <1>5
  <2>. QED BY <1>5, <1>7, <1>8, <2>1, <2>2
<1>. QED BY <1>4, <1>9, <1>10, <1>11, <1>12 DEF WalkOK, S

\* The service keeps what readers rely on.
LEMMA ServiceReading ==
  ASSUME IndAll, IndReading, ServiceStep
  PROVE  IndReading'
<1>1. /\ [Next]_vars /\ NoteCreation /\ ReaderType /\ ReaderPath /\ ShownOK /\ WalkOK
      /\ (NoteInsert /\ UNCHANGED <<at, query, rows, pays, total>>) \/ EndRead
  BY DEF ServiceStep, IndReading
<1>2. CASE NoteInsert /\ UNCHANGED <<at, query, rows, pays, total>>
  <2>1. ShownOK'
    BY <1>1, <1>2, ServiceShows
  <2>2. /\ walk' \in [existing : SUBSET Orders, seen : SUBSET Orders,
                      insert : {"none", "earlier", "count_to_page"}]
        /\ WalkOK'
    BY <1>1, <1>2, ServiceWalks
  <2>3. ReaderType'
    BY <1>1, <1>2, <2>2 DEF ReaderType, ShownIds
  <2>4. ReaderPath'
    BY <1>1, <1>2 DEF ReaderPath, ShownIds, Walking
  <2>. QED BY <2>1, <2>2, <2>3, <2>4 DEF IndReading
<1>. QED BY <1>1, <1>2, EndReading

(***************************************************************************)
(* A step of the reader, which leaves the tables alone.                    *)
(***************************************************************************)
TablesStay ==
    /\ \A o \in Orders : /\ orders'[o] = orders[o] /\ payments'[o] = payments[o]
                         /\ ItemsOf(o)' = ItemsOf(o) /\ EverConfirmed(o)' = EverConfirmed(o)
                         /\ Newer(o)' = Newer(o)
    /\ \A c : OrdersOfCustomer(c)' = OrdersOfCustomer(c)

LEMMA ReaderLeaves ==
  ASSUME UNCHANGED <<vars, born>>
  PROVE  TablesStay
<1>1. orders' = orders /\ items' = items /\ payments' = payments /\ commits' = commits /\ born' = born
  BY DEF vars, dbVars, ghostVars
<1>2. \A c : OrdersOfCustomer(c)' = OrdersOfCustomer(c)
  BY <1>1 DEF OrdersOfCustomer
<1>3. \A o \in Orders : Newer(o)' = Newer(o)
  BY <1>1, <1>2 DEF Newer
<1>. QED BY <1>1, <1>2, <1>3 DEF TablesStay, ItemsOf, EverConfirmed

\* The statement after each.
LEMMA Statements ==
  /\ AfterRead("none") = "select_order" /\ AfterRead("order") = "select_items"
  /\ AfterRead("items") = "select_payments" /\ AfterRead("payment") = "answer"
BY DEF AfterRead

\* A page has between one row and a hundred.
LEMMA PageSizeRange ==
  ASSUME NEW n \in PageSizes
  PROVE  PageSize(n) = n /\ n \in Nat /\ n > 0
<1>1. n \in 1 .. 100
  BY QueriesAssumption
<1>2. Max({n, 1}) = n
  BY <1>1 DEF Max
<1>3. Min({n, MaxPageSize}) = n
  BY <1>1 DEF Min, MaxPageSize
<1>. QED BY <1>1, <1>2, <1>3 DEF PageSize

\* A row as it is selected now.
LEMMA RowSelected ==
  ASSUME IndAll, NEW o \in Orders
  PROVE  /\ ShownRow(o) \in [status : OrderStatuses \cup {Absent}, total : Nat, items : SUBSET ItemRow]
         /\ ShownRow(o).status = orders[o].status /\ ShownRow(o).total = orders[o].total
         /\ orders[o].status \in ConfirmedStatuses => EverConfirmed(o)
         /\ ItemsOf(o) \subseteq ItemRow
<1>1. TypeOK /\ StatusConfirmed
  BY DEF IndAll, IndInv, TablesInv
<1>2. orders[o] \in Row /\ items \subseteq ItemRow
  BY <1>1 DEF TypeOK, DatabaseOK
<1>. QED BY <1>1, <1>2 DEF ShownRow, Row, StatusConfirmed, ItemsOf

\* A request of the reader arrives.
LEMMA AskReading ==
  ASSUME IndAll, IndReading, UNCHANGED <<vars, born>>,
         \/ \E o \in Orders : AskOrder(o) \/ AskPayment(o)
         \/ \E c \in Customers, n \in PageSizes : AskPages(c, n)
  PROVE  IndReading'
<1>1. at = "idle" /\ ShownIds = {} /\ ~Walking /\ ReaderType /\ WalkOK
  BY DEF IndReading, ReaderPath, AskOrder, AskPayment, AskPages, Ask, AfterPage
<1>2. ShownIds' = {} /\ UNCHANGED <<rows, pays, total>>
  BY <1>1 DEF AskOrder, AskPayment, AskPages, Ask, ShownIds
<1>3. ShownOK'
  BY <1>2 DEF ShownOK
<1>4. CASE \E o \in Orders : AskOrder(o) \/ AskPayment(o)
  <2>1. PICK o \in Orders : query' = [NoQuery EXCEPT !.order = o]
    BY <1>4 DEF AskOrder, AskPayment, Ask
  <2>2. at' \in {"select_order", "select_payment"} /\ walk' = walk
    BY <1>4, Statements DEF AskOrder, AskPayment, Ask
  <2>3. query'.order = o /\ query'.customer = Nil
        /\ query' \in [order : Orders \cup {Nil}, customer : Customers \cup {Nil}, page : Nat, size : Nat]
    BY <2>1 DEF NoQuery
  <2>4. ~Walking'
    BY <2>3 DEF Walking
  <2>5. ReaderType'
    BY <1>1, <1>2, <2>2, <2>3 DEF ReaderType, ShownIds
  <2>6. ReaderPath' /\ WalkOK'
    BY <1>2, <2>2, <2>3, <2>4 DEF ReaderPath, WalkOK, AfterPage
  <2>. QED BY <1>3, <2>5, <2>6 DEF IndReading
<1>5. CASE \E c \in Customers, n \in PageSizes : AskPages(c, n)
  <2>1. PICK c \in Customers, n \in PageSizes : AskPages(c, n)
    BY <1>5
  <2>2. /\ at' = "count" /\ query' = [NoQuery EXCEPT !.customer = c, !.page = 1, !.size = PageSize(n)]
        /\ walk' = [NoWalk EXCEPT !.existing = OrdersOfCustomer(c)]
    BY <2>1 DEF AskPages, Ask
  <2>3. PageSize(n) \in Nat /\ PageSize(n) > 0
    BY PageSizeRange
  <2>4. /\ query'.customer = c /\ query'.page = 1 /\ query'.size = PageSize(n)
        /\ query' \in [order : Orders \cup {Nil}, customer : Customers \cup {Nil}, page : Nat, size : Nat]
    BY <2>2, <2>3 DEF NoQuery
  <2>5. /\ walk'.existing = OrdersOfCustomer(c) /\ walk'.seen = {} /\ walk'.insert = "none"
        /\ walk' \in [existing : SUBSET Orders, seen : SUBSET Orders,
                      insert : {"none", "earlier", "count_to_page"}]
    BY <2>2 DEF NoWalk, OrdersOfCustomer
  <2>6. Walking'
    BY <2>4, QueriesAssumption DEF Walking
  <2>7. ReaderType'
    BY <1>1, <1>2, <2>2, <2>4, <2>5 DEF ReaderType, ShownIds
  <2>8. ReaderPath'
    BY <1>2, <2>2, <2>3, <2>4, <2>6 DEF ReaderPath, AfterPage
  <2>9. ASSUME NEW o \in OrdersOfCustomer(c) PROVE Ahead(o, 1)'
    <3>1. o \in Orders /\ Newer(o)' = Newer(o) /\ Newer(o) \in Nat
      BY ReaderLeaves, Positions DEF TablesStay, OrdersOfCustomer
    <3>2. Offset(1, query.size)' = 0
      BY <2>3, <2>4 DEF Offset
    <3>. QED BY <3>1, <3>2 DEF Ahead
  <2>10. NextPage' = 1
    BY <2>2, <2>4 DEF NextPage, AfterPage
  <2>11. WalkOK'
    <3>1. OrdersOfCustomer(query.customer)' = OrdersOfCustomer(c)
      BY <2>4, ReaderLeaves DEF TablesStay, OrdersOfCustomer, vars, dbVars
    <3>. QED BY <1>2, <2>2, <2>5, <2>9, <2>10, <3>1 DEF WalkOK, AfterPage
  <2>. QED BY <1>3, <2>7, <2>8, <2>11 DEF IndReading
<1>. QED BY <1>4, <1>5

\* A SELECT that adds to the rows of a page does not disturb the walk.
LEMMA WalkStays ==
  ASSUME IndReading, UNCHANGED <<vars, born>>, UNCHANGED <<query, walk, total>>,
         ShownIds' = ShownIds, at \in AfterPage, at' \in AfterPage
  PROVE  WalkOK'
<1>1. \A o \in Orders : \A page : Ahead(o, page)' = Ahead(o, page)
  BY ReaderLeaves DEF TablesStay, Ahead, Offset
<1>2. /\ OrdersOfCustomer(query.customer)' = OrdersOfCustomer(query.customer)
      /\ Walking' = Walking /\ NextPage' = query.page + 1 /\ NextPage = query.page + 1
      /\ MorePages' = MorePages
  BY DEF vars, dbVars, OrdersOfCustomer, Walking, NextPage, MorePages
<1>3. at # "select_page" /\ at' # "select_page"
  BY DEF AfterPage
<1>4. WalkOK /\ walk.existing \cup walk.seen \cup ShownIds \subseteq Orders
  BY DEF IndReading, ReaderType
<1>. SUFFICES ASSUME Walking PROVE WalkOK'
  BY <1>2 DEF WalkOK
<1>5. \A o \in walk.existing \ (walk.seen \cup ShownIds) : Ahead(o, NextPage)'
  BY <1>1, <1>2, <1>4 DEF WalkOK, Ahead, Offset
<1>6. walk.insert = "none" =>
        /\ \A o \in walk.seen : ~Ahead(o, query.page)'
        /\ \A o \in ShownIds : Ahead(o, query.page)' /\ ~Ahead(o, query.page + 1)'
  BY <1>1, <1>4 DEF WalkOK
<1>. QED BY <1>2, <1>3, <1>4, <1>5, <1>6 DEF WalkOK

\* What is shown of an order stands in the tables as they were selected.
LEMMA RowsStay ==
  ASSUME IndReading, UNCHANGED <<vars, born>>, UNCHANGED rows, at \notin {"select_items"}
  PROVE  \A o \in ShownIds : RowStands(o)'
<1>. SUFFICES ASSUME NEW o \in ShownIds PROVE RowStands(o)'
  OBVIOUS
<1>1. o \in Orders /\ RowStands(o)
  BY DEF IndReading, ShownOK, ReaderType
<1>. QED BY <1>1, ReaderLeaves DEF TablesStay, RowStands

\* SELECT of one order.
LEMMA SelectOrderReading ==
  ASSUME IndAll, IndReading, UNCHANGED <<vars, born>>, SelectOrder
  PROVE  IndReading'
<1>. DEFINE o == query.order
<1>1. /\ at = "select_order" /\ ShownIds = {} /\ ~Walking /\ ReaderType /\ query.order \in Orders
      /\ UNCHANGED <<query, total, walk>>
  BY DEF SelectOrder, IndReading, ReaderPath, AfterPage
<1>2. ~Walking' /\ WalkOK'
  BY <1>1 DEF Walking, WalkOK
<1>3. CASE orders[o].status # Absent
  <2>1. at' = "select_items" /\ rows' = [p \in {query.order} |-> ShownRow(p)]
    BY <1>3, Statements DEF SelectOrder
  <2>2. ShownIds' = {query.order} /\ rows'[query.order] = ShownRow(query.order)
    BY <2>1 DEF ShownIds
  <2>3. rows' \in [{query.order} ->
                      [status : OrderStatuses \cup {Absent}, total : Nat, items : SUBSET ItemRow]]
    BY <1>1, <2>1, RowSelected
  <2>4. ReaderType'
    BY <1>1, <2>1, <2>2, <2>3 DEF ReaderType, AfterPage
  <2>5. ReaderPath'
    BY <1>1, <1>2, <2>1, <2>2 DEF ReaderPath, AfterPage
  <2>6. RowStands(query.order)' /\ PaymentFits(query.order)'
    BY <1>1, <2>1, <2>2, RowSelected, ReaderLeaves DEF RowStands, PaymentFits, TablesStay
  <2>7. ShownOK'
    BY <1>1, <2>2, <2>6 DEF ShownOK
  <2>. QED BY <1>2, <2>4, <2>5, <2>7 DEF IndReading
<1>4. CASE orders[o].status = Absent
  <2>1. at' = "answer" /\ rows' = rows
    BY <1>4 DEF SelectOrder
  <2>2. ShownIds' = {}
    BY <1>1, <2>1 DEF ShownIds
  <2>. QED BY <1>1, <1>2, <2>1, <2>2
           DEF IndReading, ReaderType, ReaderPath, ShownOK, ShownIds, AfterPage
<1>. QED BY <1>3, <1>4

\* SELECT of the items, which are those of now.
LEMMA SelectItemsReading ==
  ASSUME IndAll, IndReading, UNCHANGED <<vars, born>>, SelectItems
  PROVE  IndReading'
<1>1. /\ at = "select_items" /\ at' = "select_payments" /\ UNCHANGED <<query, total, walk>>
      /\ rows' = [o \in ShownIds |-> [rows[o] EXCEPT !.items = ItemsOf(o)]]
      /\ ReaderType /\ ReaderPath /\ ShownOK
  BY Statements DEF SelectItems, IndReading
<1>2. ShownIds' = ShownIds
  BY <1>1 DEF ShownIds
<1>3. WalkOK'
  BY <1>1, <1>2, WalkStays DEF AfterPage
<1>4. ASSUME NEW o \in ShownIds
      PROVE  /\ o \in Orders /\ rows'[o].status = rows[o].status
             /\ rows'[o].total = rows[o].total /\ rows'[o].items = ItemsOf(o)
             /\ rows'[o] \in [status : OrderStatuses \cup {Absent}, total : Nat, items : SUBSET ItemRow]
  BY <1>1, RowSelected DEF ReaderType
<1>5. ReaderType'
  BY <1>1, <1>2, <1>4 DEF ReaderType, AfterPage
<1>6. ReaderPath'
  BY <1>1, <1>2 DEF ReaderPath, Walking, AfterPage
<1>7. ASSUME NEW o \in ShownIds PROVE RowStands(o)' /\ PaymentFits(o)'
  <2>1. RowStands(o)
    BY <1>1 DEF ShownOK
  <2>. QED BY <1>1, <1>4, <2>1, ReaderLeaves DEF RowStands, PaymentFits, TablesStay
<1>. QED BY <1>2, <1>3, <1>5, <1>6, <1>7 DEF IndReading, ShownOK

\* SELECT of the payments: by now each is as far as its order, at least.
LEMMA SelectPaymentsReading ==
  ASSUME IndAll, IndReading, UNCHANGED <<vars, born>>, SelectPayments
  PROVE  IndReading'
<1>1. /\ at = "select_payments" /\ at' = "answer" /\ UNCHANGED <<query, rows, total, walk>>
      /\ pays' = [o \in IF Walking THEN ShownIds ELSE {query.order} |-> payments[o].status]
      /\ ReaderType /\ ReaderPath /\ ShownOK
  BY Statements DEF SelectPayments, IndReading
<1>2. ShownIds' = ShownIds
  BY <1>1 DEF ShownIds
<1>3. WalkOK'
  BY <1>1, <1>2, WalkStays DEF AfterPage
<1>4. ReaderType' /\ ReaderPath'
  BY <1>1, <1>2 DEF ReaderType, ReaderPath, Walking, AfterPage
<1>5. ASSUME NEW o \in ShownIds PROVE RowStands(o)' /\ PaymentFits(o)'
  <2>1. o \in Orders /\ RowStands(o) /\ RowStands(o)'
    BY <1>1, RowsStay DEF ShownOK, ReaderType
  <2>2. AnswersPayment(o)' = payments[o].status
    BY <1>1 DEF AnswersPayment, ReaderPath
  <2>3. orders[o].status \in OrdersWith(payments[o].status)
    BY <2>1 DEF IndAll, IndSequence, SequenceTables, PaymentsFit
  <2>4. rows[o].status = "PAID" => payments[o].status = "APPROVED"
    BY <2>1, <2>3 DEF RowStands, OrdersWith, Absent
  <2>5. rows[o].status = "CANCELLED" => payments[o].status # "PENDING"
    BY <2>1, <2>3 DEF RowStands, OrdersWith, Absent
  <2>. QED BY <1>1, <2>1, <2>2, <2>4, <2>5 DEF PaymentFits
<1>. QED BY <1>2, <1>3, <1>4, <1>5 DEF IndReading, ShownOK

\* SELECT of a payment on its own shows no order.
LEMMA SelectPaymentReading ==
  ASSUME IndAll, IndReading, UNCHANGED <<vars, born>>, SelectPayment
  PROVE  IndReading'
<1>1. /\ at = "select_payment" /\ at' = "answer" /\ UNCHANGED <<query, rows, total, walk>>
      /\ ReaderType /\ ReaderPath /\ ShownIds = {} /\ ~Walking
  BY DEF SelectPayment, IndReading, ReaderPath, AfterPage
<1>2. ShownIds' = {} /\ ~Walking'
  BY <1>1 DEF ShownIds, Walking
<1>. QED BY <1>1, <1>2 DEF IndReading, ReaderType, ReaderPath, ShownOK, WalkOK, ShownIds, AfterPage

\* count(*) of a customer's orders.
LEMMA CountReading ==
  ASSUME IndAll, IndReading, UNCHANGED <<vars, born>>, CountOrders
  PROVE  IndReading'
<1>. DEFINE S == OrdersOfCustomer(query.customer)
<1>1. /\ at = "count" /\ at' = "select_page" /\ UNCHANGED <<query, rows, pays, walk>>
      /\ total' = Cardinality(S) /\ ShownIds = {} /\ Walking
      /\ ReaderType /\ ReaderPath /\ WalkOK
  BY DEF CountOrders, IndReading, ReaderPath, AfterPage
<1>2. ShownIds' = ShownIds /\ Walking' /\ NextPage' = NextPage /\ NextPage = query.page
  BY <1>1 DEF ShownIds, Walking, NextPage, AfterPage
<1>3. S' = S
  BY <1>1 DEF OrdersOfCustomer, vars, dbVars
<1>4. Cardinality(S) \in Nat
  BY CountIsNat
<1>5. \A o \in Orders : \A page : Ahead(o, page)' = Ahead(o, page)
  BY <1>1, ReaderLeaves DEF TablesStay, Ahead, Offset
<1>6. ReaderType' /\ ReaderPath' /\ ShownOK'
  BY <1>1, <1>2, <1>4 DEF ReaderType, ReaderPath, ShownOK, ShownIds, AfterPage
<1>7. /\ walk.existing \cup walk.seen \subseteq S
      /\ \A o \in walk.existing \ walk.seen : Ahead(o, query.page)
      /\ walk.insert = "none" => \A o \in walk.seen : ~Ahead(o, query.page)
      /\ S \subseteq Orders
  BY <1>1, <1>2 DEF WalkOK, OrdersOfCustomer
<1>. HIDE DEF S
<1>8. /\ \A o \in walk.existing \ walk.seen : Ahead(o, query.page)'
      /\ walk.insert = "none" => \A o \in walk.seen : ~Ahead(o, query.page)'
  BY <1>1, <1>5, <1>7
<1>9. \A o : Ahead(o, NextPage)' = Ahead(o, query.page)'
  BY <1>1, <1>2 DEF Ahead
<1>10. walk' = walk /\ query' = query /\ ShownIds' = {} /\ at' = "select_page" /\ total' = Cardinality(S')
  BY <1>1, <1>2, <1>3
<1>11. WalkOK'
  BY <1>3, <1>7, <1>8, <1>9, <1>10 DEF WalkOK, AfterPage, S
<1>. QED BY <1>6, <1>11 DEF IndReading

\* SELECT of a page: what was not seen is on it, or behind it.
LEMMA SelectPageReading ==
  ASSUME IndAll, IndReading, UNCHANGED <<vars, born>>, SelectPage
  PROVE  IndReading'
<1>. DEFINE c == query.customer
            S == OrdersOfCustomer(c)
            P == Page(c, query.page, query.size)
<1>1. /\ at = "select_page" /\ UNCHANGED <<query, pays, total, walk>>
      /\ rows' = [o \in P |-> ShownRow(o)]
      /\ at' \in {"answer", "select_items"} /\ (at' = "answer" => ShownIds' = {})
      /\ ShownIds = {} /\ Walking /\ ReaderType /\ ReaderPath /\ WalkOK
  BY Statements DEF SelectPage, IndReading, ReaderPath, AfterPage
<1>2. ShownIds' = P /\ Walking' /\ NextPage = query.page /\ NextPage' = query.page + 1
  BY <1>1 DEF ShownIds, Walking, NextPage, AfterPage
<1>3. /\ S' = S /\ S \subseteq Orders /\ P \subseteq S
  BY <1>1 DEF OrdersOfCustomer, Page, vars, dbVars
<1>4. \A o \in P : /\ rows'[o] = ShownRow(o)
                   /\ ShownRow(o) \in [status : OrderStatuses \cup {Absent}, total : Nat, items : SUBSET ItemRow]
  BY <1>1, <1>3, RowSelected
<1>5. ReaderType'
  BY <1>1, <1>2, <1>3, <1>4 DEF ReaderType, AfterPage
<1>6. ReaderPath'
  BY <1>1, <1>2 DEF ReaderPath, AfterPage
<1>7. ShownOK'
  <2>. SUFFICES ASSUME NEW o \in P PROVE RowStands(o)' /\ PaymentFits(o)'
    BY <1>2 DEF ShownOK
  <2>1. at' = "select_items"
    BY <1>1, <1>2
  <2>. QED BY <1>3, <1>4, <2>1, RowSelected, ReaderLeaves DEF RowStands, PaymentFits, TablesStay
<1>8. /\ query.page \in Nat /\ query.page > 0 /\ query.size \in Nat /\ query.size > 0 /\ total \in Nat
  BY <1>1 DEF ReaderType, ReaderPath
<1>9. /\ Offset(query.page, query.size) \in Nat
      /\ Offset(query.page + 1, query.size) = Offset(query.page, query.size) + query.size
  BY <1>8, Offsets
<1>10. ASSUME NEW o \in S
       PROVE  /\ o \in P <=> Ahead(o, query.page) /\ ~Ahead(o, query.page + 1)
              /\ Newer(o) \in Nat /\ Newer(o) < Cardinality(S) /\ Cardinality(S) \in Nat
              /\ Ahead(o, query.page + 1) => Ahead(o, query.page)
  <2>1. Newer(o) \in Nat /\ Newer(o) < Cardinality(S) /\ Cardinality(S) \in Nat
    BY Positions
  <2>. QED BY <1>8, <1>9, <2>1 DEF Ahead, Page
<1>11. \A o \in Orders : \A page : Ahead(o, page)' = Ahead(o, page)
  BY <1>1, ReaderLeaves DEF TablesStay, Ahead, Offset
<1>12. /\ walk.existing \cup walk.seen \subseteq S
       /\ \A o \in walk.existing \ walk.seen : Ahead(o, query.page)
       /\ walk.insert # "count_to_page" => total = Cardinality(S)
       /\ walk.insert = "none" => \A o \in walk.seen : ~Ahead(o, query.page)
  BY <1>1, <1>2 DEF WalkOK
<1>13. MorePages' = HasNext(query.page, total, query.size)
  BY <1>1 DEF MorePages
<1>14. total = Cardinality(S) /\ ~MorePages' => \A o \in S : ~Ahead(o, query.page + 1)
  <2>. SUFFICES ASSUME total = Cardinality(S), ~MorePages', NEW o \in S PROVE ~Ahead(o, query.page + 1)
    OBVIOUS
  <2>1. Cardinality(S) <= Offset(query.page + 1, query.size)
    BY <1>8, <1>13, LastPage
  <2>. QED BY <1>8, <1>9, <1>10, <2>1 DEF Ahead
<1>. HIDE DEF S, P
<1>15. \A o \in walk.existing \ (walk.seen \cup P) : Ahead(o, query.page + 1)
  BY <1>10, <1>12
<1>16. walk.insert # "count_to_page" /\ ~MorePages' => walk.existing \subseteq walk.seen \cup P
  BY <1>12, <1>14, <1>15
<1>17. /\ \A o \in walk.existing \ (walk.seen \cup P) : Ahead(o, query.page + 1)'
       /\ walk.insert = "none" => \A o \in walk.seen : ~Ahead(o, query.page)'
       /\ \A o \in P : Ahead(o, query.page)' /\ ~Ahead(o, query.page + 1)'
  BY <1>1, <1>3, <1>10, <1>11, <1>12, <1>15
<1>18. \A o : Ahead(o, NextPage)' = Ahead(o, query.page + 1)'
  BY <1>1, <1>2 DEF Ahead
<1>19. walk' = walk /\ query' = query /\ ShownIds' = P /\ at' # "select_page"
  BY <1>1, <1>2
<1>20. WalkOK'
  BY <1>3, <1>12, <1>16, <1>17, <1>18, <1>19 DEF WalkOK, S
<1>. QED BY <1>5, <1>6, <1>7, <1>20 DEF IndReading

\* The client that walks asks for the next page.
LEMMA AnswerPageReading ==
  ASSUME IndAll, IndReading, UNCHANGED <<vars, born>>, AnswerPage
  PROVE  IndReading'
<1>. DEFINE S == OrdersOfCustomer(query.customer)
<1>1. /\ at = "answer" /\ at' = "count" /\ Walking /\ total' = 0 /\ rows' = <<>>
      /\ walk' = [walk EXCEPT !.seen = @ \cup ShownIds, !.insert = IF @ = "none" THEN @ ELSE "earlier"]
      /\ query' = [query EXCEPT !.page = @ + 1]
      /\ ReaderType /\ ReaderPath /\ WalkOK
  BY DEF AnswerPage, IndReading
<1>2. /\ query \in [order : Orders \cup {Nil}, customer : Customers \cup {Nil}, page : Nat, size : Nat]
      /\ query.page > 0 /\ query.size > 0
      /\ walk \in [existing : SUBSET Orders, seen : SUBSET Orders,
                  insert : {"none", "earlier", "count_to_page"}]
      /\ ShownIds \subseteq Orders
  BY <1>1 DEF ReaderType, ReaderPath
<1>3. /\ query'.page = query.page + 1 /\ query'.size = query.size /\ query'.customer = query.customer
      /\ query' \in [order : Orders \cup {Nil}, customer : Customers \cup {Nil}, page : Nat, size : Nat]
  BY <1>1, <1>2
<1>4. /\ walk'.existing = walk.existing /\ walk'.seen = walk.seen \cup ShownIds
      /\ walk'.insert = "none" => walk.insert = "none"
      /\ walk' \in [existing : SUBSET Orders, seen : SUBSET Orders,
                    insert : {"none", "earlier", "count_to_page"}]
  BY <1>1, <1>2
<1>5. /\ ShownIds' = {}
      /\ rows' \in [{} -> [status : OrderStatuses \cup {Absent}, total : Nat, items : SUBSET ItemRow]]
  BY <1>1 DEF ShownIds
<1>6. Walking' /\ NextPage = query.page + 1 /\ NextPage' = query.page + 1
  BY <1>1, <1>3 DEF Walking, NextPage, AfterPage
<1>7. ReaderType' /\ ReaderPath' /\ ShownOK'
  BY <1>1, <1>2, <1>3, <1>4, <1>5, <1>6 DEF ReaderType, ReaderPath, ShownOK, AfterPage
<1>8. S' = OrdersOfCustomer(query.customer) /\ OrdersOfCustomer(query.customer)' = S
  BY <1>3 DEF OrdersOfCustomer, vars, dbVars
<1>9. \A o \in Orders : Ahead(o, query.page)' = Ahead(o, query.page + 1)
  <2>1. Offset(query.page, query.size)' = Offset(query.page + 1, query.size)
    BY <1>3 DEF Offset
  <2>. QED BY <2>1, ReaderLeaves DEF TablesStay, Ahead
<1>10. \A o : Ahead(o, NextPage)' = Ahead(o, query.page)'
  BY <1>3, <1>6 DEF Ahead
<1>11. /\ walk.existing \cup walk.seen \cup ShownIds \subseteq S
       /\ \A o \in walk.existing \ (walk.seen \cup ShownIds) : Ahead(o, query.page + 1)
       /\ walk.insert = "none" => /\ \A o \in walk.seen : ~Ahead(o, query.page)
                                  /\ \A o \in ShownIds : ~Ahead(o, query.page + 1)
       /\ S \subseteq Orders
  BY <1>1, <1>6 DEF WalkOK, OrdersOfCustomer
<1>12. ASSUME NEW o \in S PROVE ~Ahead(o, query.page) => ~Ahead(o, query.page + 1)
  <2>1. Newer(o) \in Nat
    BY Positions
  <2>2. /\ Offset(query.page, query.size) \in Nat
        /\ Offset(query.page + 1, query.size) = Offset(query.page, query.size) + query.size
    BY <1>2, Offsets
  <2>. QED BY <1>2, <2>1, <2>2 DEF Ahead
<1>. HIDE DEF S
<1>13. /\ \A o \in walk'.existing \ walk'.seen : Ahead(o, query.page)'
       /\ walk'.insert = "none" => \A o \in walk'.seen : ~Ahead(o, query.page)'
       /\ walk'.existing \cup walk'.seen \subseteq S
  BY <1>4, <1>9, <1>11, <1>12
<1>14. WalkOK'
  BY <1>1, <1>5, <1>6, <1>8, <1>10, <1>13 DEF WalkOK, AfterPage
<1>. QED BY <1>7, <1>14 DEF IndReading

(***************************************************************************)
(* Every behaviour.                                                        *)
(***************************************************************************)

LEMMA StepReading == IndAll /\ IndReading /\ [NextWithQueries]_queryVars => IndReading'
<1>. SUFFICES ASSUME IndAll, IndReading, [NextWithQueries]_queryVars PROVE IndReading'
  OBVIOUS
<1>1. CASE ServiceStep
  BY <1>1, ServiceReading
<1>2. CASE ReaderStep /\ UNCHANGED <<vars, born>>
  <2>1. ASSUME AnswerOne PROVE IndReading'
    BY <2>1, EndReading DEF AnswerOne
  <2>. QED BY <1>2, <2>1, AskReading, SelectOrderReading, CountReading, SelectPageReading,
              SelectItemsReading, SelectPaymentsReading, SelectPaymentReading, AnswerPageReading
           DEF ReaderStep
<1>3. CASE UNCHANGED queryVars
  <2>1. UNCHANGED <<vars, born>> /\ UNCHANGED <<at, query, rows, pays, total, walk>>
    BY <1>3 DEF queryVars, readerVars
  <2>2. TablesStay /\ ShownIds' = ShownIds /\ ShownIds \subseteq Orders
    BY <2>1, ReaderLeaves DEF ShownIds, IndReading, ReaderType
  <2>3. ReaderType' /\ ReaderPath'
    BY <2>1, <2>2 DEF IndReading, ReaderType, ReaderPath, Walking
  <2>4. ShownOK'
    BY <2>1, <2>2 DEF IndReading, ShownOK, RowStands, PaymentFits, AnswersPayment, TablesStay
  <2>5. WalkOK'
    <3>1. \A o \in Orders : \A page : Ahead(o, page)' = Ahead(o, page)
      BY <2>1, <2>2 DEF TablesStay, Ahead, Offset
    <3>2. NextPage' = NextPage /\ MorePages' = MorePages /\ Walking' = Walking
          /\ OrdersOfCustomer(query.customer)' = OrdersOfCustomer(query.customer)
      BY <2>1 DEF NextPage, MorePages, Walking, OrdersOfCustomer, vars, dbVars
    <3>3. walk.existing \cup walk.seen \cup ShownIds \subseteq Orders
      BY DEF IndReading, ReaderType
    <3>. QED BY <2>1, <2>2, <3>1, <3>2, <3>3 DEF IndReading, WalkOK
  <2>. QED BY <2>3, <2>4, <2>5 DEF IndReading
<1>. QED BY <1>1, <1>2, <1>3 DEF NextWithQueries

LEMMA InitReading == InitQueries => IndReading
<1>. SUFFICES ASSUME InitQueries PROVE IndReading
  OBVIOUS
<1>1. /\ at = "idle" /\ query = NoQuery /\ rows = <<>> /\ total = 0 /\ walk = NoWalk
  BY DEF InitQueries
<1>2. ShownIds = {} /\ ~Walking
      /\ rows \in [{} -> [status : OrderStatuses \cup {Absent}, total : Nat, items : SUBSET ItemRow]]
  BY <1>1 DEF ShownIds, Walking, NoQuery
<1>. QED BY <1>1, <1>2 DEF IndReading, ReaderType, ReaderPath, ShownOK, WalkOK, NoQuery, NoWalk, AfterPage

\* The reader takes nothing from the service.
LEMMA ReadingIsService == QuerySpec => Spec
<1>1. InitQueries => Init
  BY DEF InitQueries
<1>2. [NextWithQueries]_queryVars => [Next]_vars
  BY DEF NextWithQueries, ServiceStep, queryVars
<1>. QED BY <1>1, <1>2, PTL DEF QuerySpec, Spec

\* A read under way and a walk under way can rely on IndReading, one writer at a time.
THEOREM ReadingInvariance ==
  ASSUME OneAtATime
  PROVE  QuerySpec => [](IndAll /\ IndReading)
<1>1. IndInv /\ IndWork /\ IndSequence /\ IndTotal /\ [Next]_vars => IndTotal'
  BY StepTotal
<1>2. Spec => []IndTotal
  BY <1>1, InitTotal, SequenceInvariance, Invariance, WorkInvariance, PTL DEF Spec
<1>3. IndInv /\ IndWork /\ IndSequence /\ IndTotal => IndAll
  BY DEF IndAll
<1>4. QuerySpec => []IndAll
  BY <1>2, <1>3, ReadingIsService, SequenceInvariance, Invariance, WorkInvariance, PTL
<1>. QED BY <1>4, InitReading, StepReading, PTL DEF QuerySpec

\* An answer that shows an order as PAID shows its payment as APPROVED.
THEOREM PaidWasShownApproved ==
  ASSUME OneAtATime
  PROVE  QuerySpec => []PaidShownWithApproval
<1>1. IndReading => PaidShownWithApproval
  BY DEF IndReading, ShownOK, PaymentFits, PaidShownWithApproval, Answered
<1>. QED BY <1>1, ReadingInvariance, PTL

\* An answer that shows an order as CANCELLED shows no payment as PENDING.
THEOREM CancelledWasShownSettled ==
  ASSUME OneAtATime
  PROVE  QuerySpec => []CancelledShownWithoutPending
<1>1. IndReading => CancelledShownWithoutPending
  BY DEF IndReading, ShownOK, PaymentFits, CancelledShownWithoutPending, Answered
<1>. QED BY <1>1, ReadingInvariance, PTL

\* An answer that shows a confirmed order shows all its items, with prices that
\* add up to the total it shows.
THEOREM ShownTotalsMatch ==
  ASSUME OneAtATime
  PROVE  QuerySpec => []ShownTotalMatchesItems
<1>1. IndAll /\ IndReading => ShownTotalMatchesItems
  <2>. SUFFICES ASSUME IndAll, IndReading, Answered, NEW o \in ShownIds,
                       rows[o].status \in ConfirmedStatuses
                PROVE  /\ rows[o].items # {} /\ \A i \in rows[o].items : i.price # NoPrice
                       /\ rows[o].total = LineTotal(rows[o].items)
    BY DEF ShownTotalMatchesItems, ConfirmedStatuses
  <2>1. o \in Orders /\ EverConfirmed(o) /\ rows[o].total = orders[o].total /\ rows[o].items = ItemsOf(o)
    BY DEF IndReading, ReaderType, ShownOK, RowStands, Answered
  <2>2. Priced(Stored(o))
    BY <2>1 DEF IndAll, IndTotal, StoredTotal
  <2>3. Stored(o).items = ItemsOf(o) /\ Stored(o).total = orders[o].total
    BY DEF Stored, InMemory
  <2>. QED BY <2>1, <2>2, <2>3 DEF Priced
<1>. QED BY <1>1, ReadingInvariance, PTL

\* A walk over the pages of a customer ends with every order that was there when
\* it began, unless one was inserted between the count and the page of a request.
THEOREM WalksMissNothing ==
  ASSUME OneAtATime
  PROVE  QuerySpec => []WalkMissesNothing
<1>1. IndReading => WalkMissesNothing
  BY DEF IndReading, WalkOK, AfterPage, WalkMissesNothing, Answered
<1>. QED BY <1>1, ReadingInvariance, PTL

\* Pages do not overlap as long as no order is inserted.
THEOREM WalksRepeatNothing ==
  ASSUME OneAtATime
  PROVE  QuerySpec => []WalkRepeatsNothing
<1>1. IndReading => WalkRepeatsNothing
  BY DEF IndReading, WalkOK, WalkRepeatsNothing
<1>. QED BY <1>1, ReadingInvariance, PTL
================================================================================
