--------------------------- MODULE OrderTotalProofs ---------------------------
(***************************************************************************)
(* The stored total of a confirmed order is the sum of its stored lines.   *)
(* The sums are folds over finite sets: the first part shows, by induction *)
(* on the size of the set, that a sum does not depend on the order in      *)
(* which the elements are taken, so that pricing the items of an order one *)
(* by one leaves them with the total that was computed from the prices.    *)
(* The second part shows that IndTotal is kept by every step when requests *)
(* come one at a time.                                                     *)
(***************************************************************************)
EXTENDS OrderSequenceProofs

(***************************************************************************)
(* Sums over finite sets.                                                  *)
(***************************************************************************)

\* Induction, with a set in the place of the property.
LEMMA SetInduction ==
  ASSUME NEW P, 0 \in P, \A n \in Nat : n \in P => n + 1 \in P
  PROVE  Nat \subseteq P
<1>. SUFFICES ASSUME ~(Nat \subseteq P) PROVE FALSE
  OBVIOUS
<1>. DEFINE T == Nat \ P
<1>1. \E m \in T : \A n \in T : ~(<<n, m>> \in OpToRel(<, Nat))
  <2>1. T \subseteq Nat /\ T # {}
    OBVIOUS
  <2>. QED BY <2>1, WFMin, NatLessThanWellFounded, Zenon
<1>2. \A n, m \in T : n < m => <<n, m>> \in OpToRel(<, Nat)
  BY DEF OpToRel
<1>3. PICK m \in T : \A n \in T : ~(n < m)
  BY <1>1, <1>2, Zenon
<1>4. m \in Nat /\ m # 0 /\ m - 1 \in Nat
  OBVIOUS
<1>5. m - 1 \in P
  BY <1>3, <1>4
<1>. QED BY <1>4, <1>5

Some(s) == CHOOSE x \in s : TRUE

Steps(g, f, S) ==
    g[{}] = 0 /\ \A s \in SUBSET S : s # {} => g[s] = f[Some(s)] + g[s \ {Some(s)}]

\* g sums f over each subset of S, taking one element after the other.
Sums(g, f, S) ==
    /\ IsFiniteSet(S) /\ f \in [S -> Int]
    /\ g \in [SUBSET S -> Int]
    /\ Steps(g, f, S)

AnyOrder(g, f, S) == \A s \in SUBSET S : \A x \in s : g[s] = f[x] + g[s \ {x}]

\* The element that is taken is one of the set.
LEMMA SomeIn == ASSUME NEW s, s # {} PROVE Some(s) \in s
BY DEF Some

\* The subsets of at most n elements, and a sum over each of them.
Upto(S, n) == {s \in SUBSET S : Cardinality(s) <= n}

PartSums(g, f, S, n) ==
    /\ g \in [Upto(S, n) -> Int]
    /\ g[{}] = 0
    /\ \A s \in Upto(S, n) : s # {} => g[s] = f[Some(s)] + g[s \ {Some(s)}]

\* There is such a function.
LEMMA SumsExist ==
  ASSUME NEW S, IsFiniteSet(S), NEW f \in [S -> Int]
  PROVE  \E g : Sums(g, f, S)
<1>. DEFINE P == {n \in Nat : \E g : PartSums(g, f, S, n)}
<1>1. \A s \in SUBSET S : IsFiniteSet(s) /\ Cardinality(s) \in Nat /\ Cardinality(s) <=
   Cardinality(S)
  BY FS_Subset, FS_CardinalityType
<1>2. ASSUME NEW s \in SUBSET S, s # {}
      PROVE  s \ {Some(s)} \in SUBSET S /\ Cardinality(s \ {Some(s)}) = Cardinality(s) - 1
  BY <1>1, <1>2, SomeIn, FS_RemoveElement
<1>3. {} \in SUBSET S /\ Cardinality({}) = 0 /\ \A s \in SUBSET S : Cardinality(s) = 0 => s = {}
  BY <1>1, FS_EmptySet
<1>4. 0 \in P
  <2>. DEFINE g == [s \in Upto(S, 0) |-> 0]
  <2>1. \A s \in Upto(S, 0) : s = {}
    BY <1>1, <1>3 DEF Upto
  <2>2. PartSums(g, f, S, 0)
    BY <1>3, <2>1 DEF PartSums, Upto
  <2>. QED BY <2>2
<1>5. ASSUME NEW n \in Nat, n \in P PROVE n + 1 \in P
  <2>1. PICK g : PartSums(g, f, S, n)
    BY <1>5
  <2>. DEFINE h == [s \in Upto(S, n + 1) |-> IF s = {} THEN 0 ELSE f[Some(s)] + g[s \
     {Some(s)}]]
  <2>2. ASSUME NEW s \in Upto(S, n + 1), s # {}
        PROVE  s \ {Some(s)} \in Upto(S, n) /\ f[Some(s)] \in Int
    BY <1>1, <1>2, <2>2, SomeIn DEF Upto
  <2>3. {} \in Upto(S, n) /\ {} \in Upto(S, n + 1)
    BY <1>3 DEF Upto
  <2>4. h \in [Upto(S, n + 1) -> Int]
    BY <2>1, <2>2 DEF PartSums
  <2>5. \A s \in Upto(S, n) : h[s] = g[s]
    <3>1. \A s \in Upto(S, n) : s \in Upto(S, n + 1)
      BY <1>1 DEF Upto
    <3>. QED BY <2>1, <3>1 DEF PartSums
  <2>6. \A s \in Upto(S, n + 1) : s # {} => h[s] = f[Some(s)] + h[s \ {Some(s)}]
    BY <2>2, <2>5 DEF PartSums
  <2>7. PartSums(h, f, S, n + 1)
    <3>. HIDE DEF h
    <3>1. h[{}] = 0
      BY <2>1, <2>3, <2>5 DEF PartSums
    <3>. QED BY <2>4, <2>6, <3>1 DEF PartSums
  <2>. HIDE DEF h
  <2>. QED BY <2>7
<1>6. Cardinality(S) \in P
  <2>. HIDE DEF P
  <2>1. Nat \subseteq P
    BY <1>4, <1>5, SetInduction
  <2>. QED BY <1>1, <2>1
<1>7. Upto(S, Cardinality(S)) = SUBSET S
  BY <1>1 DEF Upto
<1>8. PICK g : PartSums(g, f, S, Cardinality(S))
  BY <1>6
<1>. QED BY <1>7, <1>8 DEF Sums, Steps, PartSums


\* Sizes of subsets.
LEMMA SubsetSizes ==
  ASSUME NEW S, IsFiniteSet(S)
  PROVE  /\ \A s \in SUBSET S, n \in Nat : s \in Upto(S, n) <=> Cardinality(s) <= n
         /\ \A s \in Upto(S, 0) : s = {}
         /\ \A n \in Nat : {} \in Upto(S, n)
         /\ \A n \in Nat : \A s \in Upto(S, n + 1) : \A x \in s : s \ {x} \in Upto(S, n)
         /\ SUBSET S = Upto(S, Cardinality(S)) /\ Cardinality(S) \in Nat
<1>1. \A s \in SUBSET S : IsFiniteSet(s) /\ Cardinality(s) \in Nat /\ Cardinality(s) <=
   Cardinality(S)
  BY FS_Subset, FS_CardinalityType
<1>2. {} \in SUBSET S /\ Cardinality({}) = 0 /\ \A s \in SUBSET S : Cardinality(s) = 0 => s = {}
  BY <1>1, FS_EmptySet
<1>3. ASSUME NEW s \in SUBSET S, NEW x \in s
      PROVE  s \ {x} \in SUBSET S /\ Cardinality(s \ {x}) = Cardinality(s) - 1
  BY <1>1, FS_RemoveElement
<1>4. S \in SUBSET S
  OBVIOUS
<1>. QED BY <1>1, <1>2, <1>3, <1>4 DEF Upto

\* There is only one.
LEMMA SumsUnique ==
  \A S, f, g, h : Sums(g, f, S) /\ Steps(h, f, S) => h[S] = g[S]
<1>. SUFFICES ASSUME NEW S, NEW f, NEW g, NEW h, Sums(g, f, S), Steps(h, f, S)
              PROVE  h[S] = g[S]
  OBVIOUS
<1>. DEFINE P == {n \in Nat : \A s \in Upto(S, n) : h[s] = g[s]}
<1>0. IsFiniteSet(S) /\ f \in [S -> Int]
  BY DEF Sums, Steps
<1>1. 0 \in P
  BY <1>0, SubsetSizes DEF Sums, Steps
<1>2. ASSUME NEW n \in Nat, n \in P PROVE n + 1 \in P
  <2>. SUFFICES ASSUME NEW s \in Upto(S, n + 1) PROVE h[s] = g[s]
    OBVIOUS
  <2>0. CASE s = {}
    BY <2>0 DEF Sums, Steps
  <2>. SUFFICES ASSUME s # {} PROVE h[s] = g[s]
    BY <2>0
  <2>1. s \in SUBSET S /\ s \ {Some(s)} \in Upto(S, n)
    BY SomeIn, <1>0, SubsetSizes DEF Upto
  <2>. QED BY <1>2, <2>1 DEF Sums, Steps
<1>3. Nat \subseteq P
  <2>. HIDE DEF P
  <2>. QED BY <1>1, <1>2, SetInduction
<1>. QED BY <1>3, <1>0, SubsetSizes

\* The order in which the elements are taken does not matter.
LEMMA SumsRemove == \A S, f, g : Sums(g, f, S) => AnyOrder(g, f, S)
<1>. SUFFICES ASSUME NEW S, NEW f, NEW g, Sums(g, f, S)
              PROVE  \A s \in SUBSET S : \A x \in s : g[s] = f[x] + g[s \ {x}]
  BY DEF AnyOrder
<1>0. IsFiniteSet(S) /\ f \in [S -> Int]
  BY DEF Sums, Steps
<1>. DEFINE P == {n \in Nat : \A s \in Upto(S, n) : \A x \in s : g[s] = f[x] + g[s \ {x}]}
<1>1. 0 \in P
  BY <1>0, SubsetSizes
<1>2. ASSUME NEW n \in Nat, n \in P PROVE n + 1 \in P
  <2>. SUFFICES ASSUME NEW s \in Upto(S, n + 1), NEW x \in s PROVE g[s] = f[x] + g[s \ {x}]
    OBVIOUS
  <2>. DEFINE y == Some(s)
              rest == (s \ {x}) \ {y}
  <2>1. y \in s /\ s \in SUBSET S /\ g[s] = f[y] + g[s \ {y}]
    BY SomeIn DEF Upto, Sums, Steps
  <2>. HIDE DEF y
  <2>2. CASE x = y
    BY <2>1, <2>2
  <2>3. CASE x # y
    <3>1. s \ {x} \in Upto(S, n) /\ s \ {y} \in Upto(S, n)
      BY <1>0, <2>1, SubsetSizes
    <3>2. y \in s \ {x} /\ x \in s \ {y} /\ (s \ {y}) \ {x} = rest
      BY <2>1, <2>3
    <3>3. g[s \ {x}] = f[y] + g[rest] /\ g[s \ {y}] = f[x] + g[rest]
      BY <1>2, <3>1, <3>2
    <3>4. f[x] \in Int /\ f[y] \in Int /\ g[rest] \in Int
      BY <2>1 DEF Sums, Steps
    <3>. HIDE DEF rest
    <3>. QED BY <2>1, <3>3, <3>4
  <2>. QED BY <2>2, <2>3
<1>3. Nat \subseteq P
  <2>. HIDE DEF P
  <2>. QED BY <1>1, <1>2, SetInduction
<1>. QED BY <1>0, <1>3, SubsetSizes

\* Nor does what the elements are, as long as they stay apart.
LEMMA SumsAlike ==
  ASSUME NEW S, NEW f, NEW g, Sums(g, f, S), NEW T, NEW k, NEW h, Sums(h, k, T),
         NEW b \in [S -> T], \A x \in S : k[b[x]] = f[x],
         \A x, y \in S : b[x] = b[y] => x = y
  PROVE  g[S] = h[{b[x] : x \in S}]
<1>0. \A t \in SUBSET T : \A x \in t : h[t] = k[x] + h[t \ {x}]
  <2>1. AnyOrder(h, k, T)
    BY SumsRemove
  <2>. QED BY <2>1 DEF AnyOrder
<1>. DEFINE Image(s) == {b[x] : x \in s}
            P == {n \in Nat : \A s \in Upto(S, n) : g[s] = h[Image(s)]}
<1>9. IsFiniteSet(S) /\ f \in [S -> Int]
  BY DEF Sums, Steps
<1>1. 0 \in P
  <2>1. Image({}) = {}
    OBVIOUS
  <2>. HIDE DEF Image
  <2>. QED BY <2>1, <1>9, SubsetSizes DEF Sums, Steps
<1>2. ASSUME NEW n \in Nat, n \in P PROVE n + 1 \in P
  <2>. SUFFICES ASSUME NEW s \in Upto(S, n + 1) PROVE g[s] = h[Image(s)]
    OBVIOUS
  <2>0. CASE s = {}
    <3>1. Image({}) = {}
      OBVIOUS
    <3>. HIDE DEF Image
    <3>. QED BY <2>0, <3>1 DEF Sums, Steps
  <2>. SUFFICES ASSUME s # {} PROVE g[s] = h[Image(s)]
    BY <2>0
  <2>1. PICK y \in s : s \in SUBSET S /\ g[s] = f[y] + g[s \ {y}]
    BY SomeIn DEF Upto, Sums, Steps
  <2>2. /\ Image(s) \in SUBSET T /\ b[y] \in Image(s)
        /\ Image(s) \ {b[y]} = Image(s \ {y})
    BY <2>1
  <2>3. s \ {y} \in Upto(S, n)
    BY <2>1, <1>9, SubsetSizes
  <2>. HIDE DEF Image
  <2>4. h[Image(s)] = k[b[y]] + h[Image(s) \ {b[y]}]
    BY <1>0, <2>2
  <2>5. g[s \ {y}] = h[Image(s \ {y})]
    BY <1>2, <2>3
  <2>. QED BY <2>1, <2>2, <2>4, <2>5
<1>3. Nat \subseteq P
  <2>. HIDE DEF P
  <2>. QED BY <1>1, <1>2, SetInduction
<1>. QED BY <1>3, <1>9, SubsetSizes

\* LineTotal, a fold of the community modules, is such a sum.
LEMMA LineTotalSums ==
  ASSUME NEW S, IsFiniteSet(S), \A i \in S : i.price * i.qty \in Int
  PROVE  \E g : Sums(g, [i \in S |-> i.price * i.qty], S) /\ LineTotal(S) = g[S]
<1>. DEFINE f == [i \in S |-> i.price * i.qty]
            step(g) == [s \in SUBSET S |-> IF s = {} THEN 0
                          ELSE (CHOOSE x \in s : TRUE).price * (CHOOSE x \in s : TRUE).qty
                               + g[s \ {CHOOSE x \in s : TRUE}]]
            iter == CHOOSE g : g = step(g)
<1>0. f \in [S -> Int]
  OBVIOUS
<1>1. PICK g : Sums(g, f, S)
  BY <1>0, SumsExist
<1>2. g = step(g)
  BY <1>1, SomeIn DEF Sums, Steps, Some
<1>3. iter = step(iter)
  BY <1>2
<1>4. LineTotal(S) = iter[S]
  BY DEF LineTotal, MapThenSumSet, MapThenFoldSet
<1>5. Steps(iter, f, S)
  <2>. HIDE DEF iter
  <2>. QED BY <1>3, SomeIn DEF Some, Steps
<1>. HIDE DEF iter, step
<1>6. iter[S] = g[S]
  <2>. HIDE DEF f
  <2>. QED BY <1>1, <1>5, SumsUnique
<1>. QED BY <1>1, <1>4, <1>6

\* And so is the total that PricingService computes.
LEMMA CalculateTotalSums ==
  ASSUME NEW S, IsFiniteSet(S), NEW prices, \A i \in S : prices[i.product] * i.qty \in Int
  PROVE  \E g : Sums(g, [i \in S |-> prices[i.product] * i.qty], S) /\ CalculateTotal(S, prices)
     = g[S]
<1>. DEFINE f == [i \in S |-> prices[i.product] * i.qty]
            step(g) == [s \in SUBSET S |-> IF s = {} THEN 0
                          ELSE prices[(CHOOSE x \in s : TRUE).product] * (CHOOSE x \in s :
                             TRUE).qty
                               + g[s \ {CHOOSE x \in s : TRUE}]]
            iter == CHOOSE g : g = step(g)
<1>0. f \in [S -> Int]
  OBVIOUS
<1>1. PICK g : Sums(g, f, S)
  BY <1>0, SumsExist
<1>2. g = step(g)
  BY <1>1, SomeIn DEF Sums, Steps, Some
<1>3. iter = step(iter)
  BY <1>2
<1>4. CalculateTotal(S, prices) = iter[S]
  BY DEF CalculateTotal, MapThenSumSet, MapThenFoldSet
<1>5. Steps(iter, f, S)
  <2>. HIDE DEF iter
  <2>. QED BY <1>3, SomeIn DEF Some, Steps
<1>. HIDE DEF iter, step
<1>6. iter[S] = g[S]
  <2>. HIDE DEF f
  <2>. QED BY <1>1, <1>5, SumsUnique
<1>. QED BY <1>1, <1>4, <1>6

\* A single line.
LEMMA OneLine ==
  ASSUME NEW i, i.price * i.qty \in Int
  PROVE  LineTotal({i}) = i.price * i.qty
<1>. DEFINE S == {i}
            f == [x \in S |-> x.price * x.qty]
<1>1. IsFiniteSet(S) /\ \A x \in S : x.price * x.qty \in Int
  BY FS_Singleton
<1>2. PICK g : Sums(g, f, S) /\ LineTotal(S) = g[S]
  BY <1>1, LineTotalSums
<1>3. f[i] = i.price * i.qty /\ S \in SUBSET S /\ i \in S /\ S \ {i} = {}
  OBVIOUS
<1>. HIDE DEF f, S
<1>4. g[S] = f[i] + g[S \ {i}] /\ g[{}] = 0
  <2>1. AnyOrder(g, f, S)
    BY <1>2, SumsRemove
  <2>. QED BY <1>2, <1>3, <2>1 DEF AnyOrder, Sums, Steps
<1>. DEFINE x == i.price * i.qty
<1>5. LineTotal(S) = x + 0 /\ x \in Int
  <2>. HIDE DEF x
  <2>1. f[i] = x /\ x \in Int
    BY <1>3 DEF x
  <2>. QED BY <1>2, <1>3, <1>4, <2>1
<1>6. LineTotal(S) = x
  <2>. HIDE DEF x
  <2>. QED BY <1>5
<1>. QED BY <1>6 DEF S

\* confirm_with_prices leaves the order with the total of its priced lines.
LEMMA PricedSum ==
  ASSUME NEW e \in Entity, IsFiniteSet(e.items), e.items # {},
         \A i, j \in e.items : i.id = j.id => i = j,
         NEW prices, \A i \in e.items : prices[i.product] \in Nat
  PROVE  /\ IsFiniteSet(ConfirmWithPrices(e, prices).items)
         /\ Priced(ConfirmWithPrices(e, prices))
<1>. DEFINE S == e.items
            b == [i \in S |-> [i EXCEPT !.price = prices[i.product]]]
            T == {b[i] : i \in S}
            f == [i \in S |-> prices[i.product] * i.qty]
            k == [i \in T |-> i.price * i.qty]
            c == ConfirmWithPrices(e, prices)
<1>1. ASSUME NEW i \in S
      PROVE  /\ i \in ItemRow /\ i.qty \in Nat /\ prices[i.product] \in Nat
             /\ b[i].price = prices[i.product] /\ b[i].qty = i.qty /\ b[i].id = i.id
  BY <1>1 DEF Entity, ItemRow
<1>2. c.items = T /\ c.total = CalculateTotal(S, prices)
  <2>1. T = {[i EXCEPT !.price = prices[i.product]] : i \in S}
    OBVIOUS
  <2>. QED BY <2>1 DEF ConfirmWithPrices, Entity
<1>3. \A i \in S : prices[i.product] * i.qty \in Int /\ b[i].price * b[i].qty =
   prices[i.product] * i.qty
  BY <1>1
<1>4. b \in [S -> T] /\ \A x, y \in S : b[x] = b[y] => x = y
  <2>1. b \in [S -> T]
    OBVIOUS
  <2>2. ASSUME NEW x \in S, NEW y \in S, b[x] = b[y] PROVE x = y
    <3>1. b[x].id = x.id /\ b[y].id = y.id
      BY <1>1
    <3>. QED BY <2>2, <3>1
  <2>. QED BY <2>1, <2>2
<1>5. IsFiniteSet(T) /\ T # {}
  <2>. HIDE DEF b
  <2>1. b \in Surjection(S, T)
    BY <1>4 DEF Surjection
  <2>. QED BY <2>1, FS_Surjection
<1>6. \A t \in T : t.price \in Nat /\ t.price * t.qty \in Int
  <2>. SUFFICES ASSUME NEW i \in S PROVE b[i].price \in Nat /\ b[i].price * b[i].qty \in Int
    OBVIOUS
  <2>. QED BY <1>1, <1>3
<1>7. PICK g : Sums(g, f, S) /\ CalculateTotal(S, prices) = g[S]
  BY <1>3, CalculateTotalSums
<1>8. PICK h : Sums(h, k, T) /\ LineTotal(T) = h[T]
  <2>. HIDE DEF T
  <2>. QED BY <1>5, <1>6, LineTotalSums
<1>9. \A x \in S : k[b[x]] = f[x]
  <2>. SUFFICES ASSUME NEW x \in S PROVE k[b[x]] = f[x]
    OBVIOUS
  <2>1. b[x] \in T /\ k[b[x]] = b[x].price * b[x].qty
    OBVIOUS
  <2>2. f[x] = prices[x.product] * x.qty
    OBVIOUS
  <2>. QED BY <1>3, <2>1, <2>2
<1>10. g[S] = h[T]
  <2>. HIDE DEF b, f, k
  <2>1. g[S] = h[{b[x] : x \in S}]
    <3>. HIDE DEF T
    <3>. QED BY <1>4, <1>7, <1>8, <1>9, SumsAlike
  <2>. QED BY <2>1
<1>. HIDE DEF T, c, S, f, k
<1>11. \A t \in T : t.price # NoPrice
  BY <1>6 DEF NoPrice
<1>12. IsFiniteSet(c.items) /\ Priced(c)
  BY <1>2, <1>5, <1>7, <1>8, <1>10, <1>11 DEF Priced
<1>. QED BY <1>12 DEF c


(***************************************************************************)
(* What the handlers hold.                                                 *)
(***************************************************************************)

\* The items of a stored draft, while it is read.
LEMMA DraftItems ==
  ASSUME TypeOK, SequenceTables, NEW o \in Orders, StoredTotal(o), CanEditItems(Stored(o))
  PROVE  /\ NextVersion(Stored(o)) \in Entity /\ NextVersion(Stored(o)).items = ItemsOf(o)
         /\ IsFiniteSet(ItemsOf(o)) /\ Unpriced(ItemsOf(o))
<1>1. Stored(o) \in Entity /\ Stored(o).items = ItemsOf(o) /\ Stored(o).status =
   orders[o].status
  BY StoredType, StoredItems DEF SequenceTables
<1>2. NextVersion(Stored(o)) \in Entity /\ NextVersion(Stored(o)).items = ItemsOf(o)
  BY <1>1, ChangedType, SameItems
<1>. QED BY <1>1, <1>2 DEF StoredTotal, CanEditItems, EditableStatuses

\* add_item adds no price.
LEMMA AddedUnpriced ==
  ASSUME NEW e \in Entity, IsFiniteSet(e.items), Unpriced(e.items), NEW r \in Requests, NEW id,
         NEW added \in AddItemTo(e, NewItem(r, id))
  PROVE  IsFiniteSet(added.items) /\ Unpriced(added.items)
<1>. DEFINE item == NewItem(r, id)
            same == {i \in e.items : i.product = item.product}
<1>1. item.price = NoPrice
  BY DEF NewItem
<1>. HIDE DEF item
<1>2. CASE same = {}
  <2>1. added = [e EXCEPT !.items = @ \cup {item}]
    BY <1>2 DEF AddItemTo, item
  <2>2. added.items = e.items \cup {item}
    BY <2>1 DEF Entity
  <2>. QED BY <1>1, <2>2, FS_AddElement DEF Unpriced
<1>3. CASE same # {}
  <2>1. PICK i \in same : added = [e EXCEPT !.items = (@ \ {i}) \cup {[i EXCEPT !.qty = @ +
     item.qty]}]
    BY <1>3 DEF AddItemTo, item
  <2>. DEFINE grown == [i EXCEPT !.qty = @ + item.qty]
  <2>2. added.items = (e.items \ {i}) \cup {grown} /\ i \in e.items
    BY <2>1 DEF Entity
  <2>3. grown.price = i.price
    BY <2>2 DEF Entity, ItemRow
  <2>. HIDE DEF grown
  <2>4. IsFiniteSet(e.items \ {i})
    BY FS_RemoveElement
  <2>. QED BY <2>2, <2>3, <2>4, FS_AddElement DEF Unpriced
<1>. QED BY <1>2, <1>3

\* Neither does remove_item.
LEMMA RemovedUnpriced ==
  ASSUME NEW e \in Entity, IsFiniteSet(e.items), Unpriced(e.items), NEW id
  PROVE  IsFiniteSet(RemoveItemFrom(e, id).items) /\ Unpriced(RemoveItemFrom(e, id).items)
<1>1. RemoveItemFrom(e, id).items \in SUBSET e.items
  BY DEF RemoveItemFrom, Entity
<1>2. IsFiniteSet(RemoveItemFrom(e, id).items)
  BY <1>1, FS_Subset
<1>. QED BY <1>1, <1>2 DEF Unpriced

\* What a handler is going to save of items and total.
LEMMA RepositoryHolds ==
  ASSUME TypeOK, NEW r \in Requests, SessionInv(r), WorkInv(r), SequenceTables,
         NEW o \in Orders, req[r].order = o, HandlerOK(r, o), StoredTotal(o), HeldTotal(r),
            RepositoryStep(r)
  PROVE  HeldTotal(r)'
<1>0. req'[r] = req[r]
  BY SameRequest
<1>1. CASE LoadRow(r)
  BY <1>1, <1>0 DEF TypeOK, LocalsOK, orderLocal, flowLocal, SessionInv, RequestOK, Path,
     Request, OpNames, HeldTotal, Priced, Unpriced, LoadRow, Goto, Finish
<1>2. CASE LoadItems(r)
  BY <1>2, <1>0 DEF TypeOK, LocalsOK, orderLocal, flowLocal, SessionInv, RequestOK, Path,
     Request, OpNames, HeldTotal, Priced, Unpriced, LoadItems, Goto, AfterLoad
<1>3. CASE LoadCached(r)
  BY <1>3, <1>0 DEF TypeOK, LocalsOK, orderLocal, flowLocal, SessionInv, RequestOK, Path,
     Request, OpNames, HeldTotal, Priced, Unpriced, LoadCached, Goto, AfterLoad
<1>4. CASE SaveSelect(r)
  BY <1>4, <1>0 DEF TypeOK, LocalsOK, orderLocal, flowLocal, SessionInv, RequestOK, Path,
     Request, OpNames, HeldTotal, Priced, Unpriced, SaveSelect, Goto
<1>5. CASE SaveCheck(r)
  BY <1>5, <1>0 DEF TypeOK, LocalsOK, orderLocal, flowLocal, SessionInv, RequestOK, Path,
     Request, OpNames, HeldTotal, Priced, Unpriced, SaveCheck, CheckVersion, Goto, Finish
<1>6. CASE SaveCheckCached(r)
  BY <1>6, <1>0 DEF TypeOK, LocalsOK, orderLocal, flowLocal, SessionInv, RequestOK, Path,
     Request, OpNames, HeldTotal, Priced, Unpriced, SaveCheckCached, CheckVersion, Goto, Finish
<1>7. CASE SaveCommit(r)
  BY <1>7, <1>0 DEF TypeOK, LocalsOK, orderLocal, flowLocal, SessionInv, RequestOK, Path,
     Request, OpNames, HeldTotal, Priced, Unpriced, SaveCommit, Goto, AfterOrderSave
<1>8. CASE SaveFails(r)
  BY <1>8, <1>0 DEF TypeOK, LocalsOK, orderLocal, flowLocal, SessionInv, RequestOK, Path,
     Request, OpNames, HeldTotal, Priced, Unpriced, SaveFails, Finish
<1>9. CASE InsertOrder(r)
  BY <1>9, <1>0 DEF TypeOK, LocalsOK, orderLocal, flowLocal, SessionInv, RequestOK, Path,
     Request, OpNames, HeldTotal, Priced, Unpriced, InsertOrder, Goto, AfterOrderSave
<1>10. CASE PaymentSelect(r)
  BY <1>10, <1>0 DEF TypeOK, LocalsOK, orderLocal, flowLocal, SessionInv, RequestOK, Path,
     Request, OpNames, HeldTotal, Priced, Unpriced, PaymentSelect, Goto
<1>11. CASE PaymentCommit(r)
  BY <1>11, <1>0 DEF TypeOK, LocalsOK, orderLocal, flowLocal, SessionInv, RequestOK, Path,
     Request, OpNames, HeldTotal, Priced, Unpriced, PaymentCommit, Goto, AfterPaymentSave
<1>12. CASE PaymentInsertFails(r)
  BY <1>12, <1>0 DEF TypeOK, LocalsOK, orderLocal, flowLocal, SessionInv, RequestOK, Path,
     Request, OpNames, HeldTotal, Priced, Unpriced, PaymentInsertFails, Finish
<1>13. CASE IdemGet(r)
  BY <1>13, <1>0 DEF TypeOK, LocalsOK, orderLocal, flowLocal, SessionInv, RequestOK, Path,
     Request, OpNames, HeldTotal, Priced, Unpriced, IdemGet, Goto, Finish, AfterLookup
<1>14. CASE IdemSave(r)
  BY <1>14, <1>0 DEF TypeOK, LocalsOK, orderLocal, flowLocal, SessionInv, RequestOK, Path,
     Request, OpNames, HeldTotal, Priced, Unpriced, IdemSave, Finish
<1>15. CASE Send(r)
  BY <1>15, <1>0 DEF TypeOK, LocalsOK, orderLocal, flowLocal, SessionInv, RequestOK, Path,
     Request, OpNames, HeldTotal, Priced, Unpriced, Send, Goto
<1>16. CASE OutboxCommit(r)
  BY <1>16, <1>0 DEF TypeOK, LocalsOK, orderLocal, flowLocal, SessionInv, RequestOK, Path,
     Request, OpNames, HeldTotal, Priced, Unpriced, OutboxCommit, Goto, AfterPublish, Conclude
<1>17. CASE Notify(r)
  BY <1>17, <1>0 DEF TypeOK, LocalsOK, orderLocal, flowLocal, SessionInv, RequestOK, Path,
     Request, OpNames, HeldTotal, Priced, Unpriced, Notify, Goto, Finish, Conclude
<1>. QED
  BY <1>1, <1>2, <1>3, <1>4, <1>5, <1>6, <1>7, <1>8, <1>9, <1>10, <1>11, <1>12, <1>13, <1>14,
     <1>15, <1>16, <1>17 DEF RepositoryStep

\* An item is added without a price, and all of them are priced at once.
LEMMA UseCaseHolds ==
  ASSUME TypeOK, NEW r \in Requests, SessionInv(r), WorkInv(r), SequenceTables,
         NEW o \in Orders, req[r].order = o, HandlerOK(r, o), StoredTotal(o), HeldTotal(r),
            UseCaseStep(r)
  PROVE  HeldTotal(r)'
<1>0. req'[r] = req[r]
  BY SameRequest
<1>1. CASE CheckCustomer(r)
  BY <1>1, <1>0 DEF TypeOK, LocalsOK, orderLocal, flowLocal, SessionInv, RequestOK, Path,
     Request, OpNames, HeldTotal, Priced, Unpriced, CheckCustomer, CustomerAnswers, Goto, Finish
<1>2. CASE CheckNoActiveOrder(r)
  BY <1>2, <1>0 DEF TypeOK, LocalsOK, orderLocal, flowLocal, SessionInv, RequestOK, Path,
     Request, OpNames, HeldTotal, Priced, Unpriced, CheckNoActiveOrder, Goto, Finish
<1>3. CASE AddProduct(r)
  <2>1. req[r].op = "add" /\ ord[r] = Stored(o)
    BY <1>3 DEF AddProduct, SessionInv, RequestOK, Path, Request, OpNames, HandlerOK,
       EntityCurrent, Reading
  <2>2. CASE pc'[r] = "done"
    BY <2>2 DEF HeldTotal
  <2>3. CASE pc'[r] # "done"
    <3>. DEFINE n == NextVersion(Stored(o))
    <3>1. PICK id \in ItemIds : CanEditItems(ord[r]) /\ ord'[r] \in AddItemTo(n, NewItem(r, id))
      BY <1>3, <2>1, <2>3 DEF AddProduct, Goto, Finish, TypeOK, LocalsOK
    <3>2. n \in Entity /\ IsFiniteSet(n.items) /\ Unpriced(n.items)
      BY <2>1, <3>1, DraftItems
    <3>. HIDE DEF n
    <3>3. IsFiniteSet(ord'[r].items) /\ Unpriced(ord'[r].items)
      BY <3>1, <3>2, AddedUnpriced
    <3>. QED BY <1>0, <2>1, <3>3 DEF HeldTotal, Unpriced
  <2>. QED BY <2>2, <2>3
<1>4. CASE RemoveProduct(r)
  <2>1. req[r].op = "remove" /\ ord[r] = Stored(o)
    BY <1>4 DEF RemoveProduct, SessionInv, RequestOK, Path, Request, OpNames, HandlerOK,
       EntityCurrent, Reading
  <2>2. CASE pc'[r] = "done"
    BY <2>2 DEF HeldTotal
  <2>3. CASE pc'[r] # "done"
    <3>. DEFINE n == NextVersion(Stored(o))
    <3>1. CanEditItems(ord[r]) /\ ord'[r] = RemoveItemFrom(n, req[r].item)
      BY <1>4, <2>1, <2>3 DEF RemoveProduct, Goto, Finish, TypeOK, LocalsOK
    <3>2. n \in Entity /\ IsFiniteSet(n.items) /\ Unpriced(n.items)
      BY <2>1, <3>1, DraftItems
    <3>. HIDE DEF n
    <3>3. IsFiniteSet(ord'[r].items) /\ Unpriced(ord'[r].items)
      BY <3>1, <3>2, RemovedUnpriced
    <3>. QED BY <1>0, <2>1, <3>3 DEF HeldTotal, Unpriced
  <2>. QED BY <2>2, <2>3
<1>5. CASE SagaSelect(r)
  BY <1>5, <1>0 DEF TypeOK, LocalsOK, orderLocal, flowLocal, SessionInv, RequestOK, Path,
     Request, OpNames, HeldTotal, Priced, Unpriced, SagaSelect, Goto
<1>6. CASE SagaCommit(r)
  BY <1>6, <1>0 DEF TypeOK, LocalsOK, orderLocal, flowLocal, SessionInv, RequestOK, Path,
     Request, OpNames, HeldTotal, Priced, Unpriced, SagaCommit, Goto, Finish, AfterSagaSave
<1>7. CASE ValidateCustomer(r)
  BY <1>7, <1>0 DEF TypeOK, LocalsOK, orderLocal, flowLocal, SessionInv, RequestOK, Path,
     Request, OpNames, HeldTotal, Priced, Unpriced, ValidateCustomer, Goto, Finish, FailPhase
<1>8. CASE FetchPrices(r)
  <2>1. req[r].op = "confirm" /\ ord[r] = Stored(o)
    BY <1>8 DEF FetchPrices, SessionInv, RequestOK, Path, Request, OpNames, HandlerOK,
       EntityCurrent, Reading
  <2>2. CASE pc'[r] # "select"
    BY <1>8, <2>2 DEF HeldTotal, FetchPrices, Goto, Finish, FailPhase, TypeOK, LocalsOK
  <2>3. CASE pc'[r] = "select"
    <3>. DEFINE n == NextVersion(Stored(o))
    <3>1. PICK prices \in [ProductsOf(ord[r]) -> Prices] :
             /\ CanConfirm(ord[r])
             /\ \A p \in DOMAIN prices : prices[p] \in Nat
             /\ ord'[r] = ConfirmWithPrices(n, prices)
      BY <1>8, <2>1, <2>3 DEF FetchPrices, Goto, Finish, FailPhase, TypeOK, LocalsOK
    <3>2. CanEditItems(Stored(o)) /\ ItemsOf(o) # {}
      BY <2>1, <3>1, StoredItems DEF CanConfirm, CanEditItems, EditableStatuses, SequenceTables
    <3>3. n \in Entity /\ n.items = ItemsOf(o) /\ IsFiniteSet(n.items) /\ n.items # {}
      BY <3>2, DraftItems
    <3>4. \A i \in n.items : prices[i.product] \in Nat
      BY <2>1, <3>1, <3>3, StoredItems DEF ProductsOf, SequenceTables
    <3>5. \A i, j \in n.items : i.id = j.id => i = j
      BY <3>3, StoredItems DEF SequenceTables
    <3>. HIDE DEF n
    <3>6. IsFiniteSet(ord'[r].items) /\ Priced(ord'[r])
      BY <3>1, <3>3, <3>4, <3>5, PricedSum
    <3>. QED BY <1>0, <2>1, <3>6 DEF HeldTotal, Priced
  <2>. QED BY <2>2, <2>3
<1>9. CASE VoidPendingPayment(r)
  BY <1>9, <1>0 DEF TypeOK, LocalsOK, orderLocal, flowLocal, SessionInv, RequestOK, Path,
     Request, OpNames, HeldTotal, Priced, Unpriced, VoidPendingPayment, Goto
<1>10. CASE ApplyCancel(r)
  BY <1>10, <1>0 DEF TypeOK, LocalsOK, orderLocal, flowLocal, SessionInv, RequestOK, Path,
     Request, OpNames, HeldTotal, Priced, Unpriced, ApplyCancel, Goto, Finish
<1>11. CASE ReturnPaymentOfKey(r)
  BY <1>11, <1>0 DEF TypeOK, LocalsOK, orderLocal, flowLocal, SessionInv, RequestOK, Path,
     Request, OpNames, HeldTotal, Priced, Unpriced, ReturnPaymentOfKey, Goto, Finish
<1>12. CASE PreparePayment(r)
  BY <1>12, <1>0 DEF TypeOK, LocalsOK, orderLocal, flowLocal, SessionInv, RequestOK, Path,
     Request, OpNames, HeldTotal, Priced, Unpriced, PreparePayment, Goto, Finish
<1>13. CASE GatewayAccepts(r)
  BY <1>13, <1>0 DEF TypeOK, LocalsOK, orderLocal, flowLocal, SessionInv, RequestOK, Path,
     Request, OpNames, HeldTotal, Priced, Unpriced, GatewayAccepts, Goto
<1>14. CASE GatewayUnavailable(r)
  BY <1>14, <1>0 DEF TypeOK, LocalsOK, orderLocal, flowLocal, SessionInv, RequestOK, Path,
     Request, OpNames, HeldTotal, Priced, Unpriced, GatewayUnavailable
<1>15. CASE GatewayRefuses(r)
  BY <1>15, <1>0 DEF TypeOK, LocalsOK, orderLocal, flowLocal, SessionInv, RequestOK, Path,
     Request, OpNames, HeldTotal, Priced, Unpriced, GatewayRefuses
<1>16. CASE GatewayLost(r)
  BY <1>16, <1>0 DEF TypeOK, LocalsOK, orderLocal, flowLocal, SessionInv, RequestOK, Path,
     Request, OpNames, HeldTotal, Priced, Unpriced, GatewayLost, Finish
<1>17. CASE RestorePreviousStatus(r)
  BY <1>17, <1>0 DEF TypeOK, LocalsOK, orderLocal, flowLocal, SessionInv, RequestOK, Path,
     Request, OpNames, HeldTotal, Priced, Unpriced, RestorePreviousStatus, Goto, Finish
<1>18. CASE LoadPayment(r)
  BY <1>18, <1>0 DEF TypeOK, LocalsOK, orderLocal, flowLocal, SessionInv, RequestOK, Path,
     Request, OpNames, HeldTotal, Priced, Unpriced, LoadPayment, Goto, Finish
<1>19. CASE ApplyVerdict(r)
  BY <1>19, <1>0 DEF TypeOK, LocalsOK, orderLocal, flowLocal, SessionInv, RequestOK, Path,
     Request, OpNames, HeldTotal, Priced, Unpriced, ApplyVerdict, Goto, Finish
<1>. QED
  BY <1>1, <1>2, <1>3, <1>4, <1>5, <1>6, <1>7, <1>8, <1>9, <1>10, <1>11, <1>12, <1>13, <1>14,
     <1>15, <1>16, <1>17, <1>18, <1>19 DEF UseCaseStep

(***************************************************************************)
(* The table of orders.                                                    *)
(***************************************************************************)

\* An order is confirmed by the commit of a confirm alone.
LEMMA ConfirmedByConfirm ==
  ASSUME IndInv, [Next]_vars, NEW o \in Orders
  PROVE  \/ EverConfirmed(o)' = EverConfirmed(o)
         \/ \E r \in Requests : SaveCommit(r) /\ req[r].op = "confirm" /\ req[r].order = o
<1>1. commits \in [Orders -> [EventTypes -> Nat]] /\ "ORDER_CONFIRMED" \in EventTypes
  BY DEF IndInv, TypeOK, WorldOK, EventTypes
<1>2. CASE UNCHANGED Reports
  BY <1>2 DEF Reports, EverConfirmed
<1>3. ASSUME NEW r \in Requests, SaveCommit(r) \/ PaymentCommit(r),
             ~(SaveCommit(r) /\ req[r].op = "confirm" /\ req[r].order = o)
      PROVE  EverConfirmed(o)' = EverConfirmed(o)
  <2>1. req[r].order \in Orders
    BY <1>3, SavingOrder DEF SaveCommit, PaymentCommit, IndInv
  <2>2. \/ UNCHANGED commits
        \/ /\ commits' = Bump(commits, r)
           /\ EventOf(r) # "ORDER_CONFIRMED" \/ req[r].order # o
    BY <1>3 DEF SaveCommit, PaymentCommit, EventOf, EventFor
  <2>. QED BY <1>1, <2>1, <2>2, BumpCounts DEF EverConfirmed
<1>4. ASSUME NEW r \in Requests, IdemSave(r) \/ Send(r) \/ OutboxCommit(r) \/ Calls(r)
      PROVE  EverConfirmed(o)' = EverConfirmed(o)
  BY <1>4, CallCharges DEF IdemSave, Send, OutboxCommit, ghostVars, EverConfirmed
<1>. QED BY <1>2, <1>3, <1>4, Writers DEF IndInv

\* The change of a handler leaves the total alone, or prices the items; none but
\* a drafting handler touches the items.
LEMMA ChangeKeepsTotal ==
  ASSUME TypeOK, ItemIdsUnique, NEW r \in Requests, NEW o \in Orders,
         req[r].op \in OpNames \ {"create"}, Change(r, Stored(o), ord[r])
  PROVE  /\ req[r].op # "confirm" => ord[r].total = orders[o].total
         /\ req[r].op \notin {"add", "remove", "confirm"} => ord[r].items = ItemsOf(o)
<1>. DEFINE n == NextVersion(Stored(o))
<1>1. n \in Entity /\ n.items = ItemsOf(o) /\ n.total = orders[o].total
  <2>1. Stored(o) \in Entity /\ Stored(o).items = ItemsOf(o) /\ Stored(o).total =
     orders[o].total
    BY StoredType, StoredItems
  <2>2. NextVersion(Stored(o)) \in Entity /\ NextVersion(Stored(o)).items = Stored(o).items
    BY <2>1, ChangedType, SameItems
  <2>3. NextVersion(Stored(o)).total = Stored(o).total
    BY <2>1 DEF NextVersion, Entity
  <2>. QED BY <2>1, <2>2, <2>3
<1>2. \/ req[r].op \in {"add", "remove"} /\ ord[r] = [n EXCEPT !.items = ord[r].items]
      \/ req[r].op = "confirm"
      \/ ord[r] \in {CancelOrder(n), MarkPaymentPending(n), ApplyApproved(n), ApplyRejected(n)}
      \/ \E s : ord[r] = RestoreStatus(n, s)
  BY DEF Change, OpNames
<1>3. req[r].op \notin {"add", "remove", "confirm"} =>
         \/ ord[r] \in {CancelOrder(n), MarkPaymentPending(n), ApplyApproved(n),
               ApplyRejected(n)}
         \/ \E s : ord[r] = RestoreStatus(n, s)
  BY <1>2
<1>. HIDE DEF n
<1>4. ASSUME ord[r] \in {CancelOrder(n), MarkPaymentPending(n), ApplyApproved(n),
   ApplyRejected(n)}
             \/ \E s : ord[r] = RestoreStatus(n, s)
      PROVE  ord[r].items = ItemsOf(o) /\ ord[r].total = orders[o].total
  <2>1. ord[r].items = n.items
    BY <1>1, <1>4, SameItems
  <2>2. ord[r].total = n.total
    BY <1>1, <1>4 DEF Entity, CancelOrder, MarkPaymentPending, ApplyApproved, ApplyRejected,
       RestoreStatus
  <2>. QED BY <1>1, <2>1, <2>2
<1>5. req[r].op \in {"add", "remove"} /\ ord[r] = [n EXCEPT !.items = ord[r].items] =>
   ord[r].total = orders[o].total
  BY <1>1 DEF Entity
<1>. QED BY <1>2, <1>3, <1>4, <1>5

\* Another order keeps what is stored of it.
LEMMA OtherTotal ==
  ASSUME NEW o \in Orders, StoredTotal(o), orders'[o] = orders[o], ItemsOf(o)' = ItemsOf(o),
         EverConfirmed(o)' = EverConfirmed(o)
  PROVE  StoredTotal(o)'
BY DEF StoredTotal, Stored, InMemory, Priced, Unpriced

\* A save stores a draft without prices or an order with the total of its lines.
LEMMA SaveKeepsTotals ==
  ASSUME IndInv, IndWork, IndSequence, IndTotal, NEW r \in Requests, SaveCommit(r), [Next]_vars,
         NEW p \in Orders
  PROVE  StoredTotal(p)'
<1>1. pc[r] = "commit"
  BY DEF SaveCommit
<1>2. PICK o \in Orders : o = req[r].order
  BY <1>1, WriterKnows
<1>3. TypeOK /\ SessionInv(r) /\ SequenceTables /\ HandlerOK(r, o) /\ ItemIdsUnique
  BY <1>1, <1>2, WriterKnows DEF SequenceTables
<1>4. StoredTotal(o) /\ StoredTotal(p) /\ HeldTotal(r)
  BY DEF IndTotal
<1>5. /\ Change(r, Stored(o), ord[r]) /\ req[r].op \in OpNames \ {"create"}
      /\ Stored(o)' = ord[r] /\ ItemsOf(o)' = ord[r].items
      /\ orders'[o].status = ord[r].status
      /\ \A q \in Orders : q # o => orders'[q] = orders[q] /\ ItemsOf(q)' = ItemsOf(q)
  BY <1>2, <1>3, SaveStores
<1>6. orders'[o].total = ord[r].total
  BY <1>5 DEF Stored, InMemory
<1>7. ~(p = o /\ req[r].op = "confirm") => EverConfirmed(p)' = EverConfirmed(p)
  <2>1. commits \in [Orders -> [EventTypes -> Nat]] /\ "ORDER_CONFIRMED" \in EventTypes
    BY <1>3 DEF TypeOK, WorldOK, EventTypes
  <2>2. commits' = Bump(commits, r) \/ UNCHANGED commits
    BY DEF SaveCommit
  <2>3. EventOf(r) = "ORDER_CONFIRMED" => req[r].op = "confirm"
    BY DEF EventOf, EventFor
  <2>. QED BY <1>2, <2>1, <2>2, <2>3, BumpCounts DEF EverConfirmed
<1>8. CASE p # o
  BY <1>4, <1>5, <1>7, <1>8, OtherTotal
<1>9. CASE p = o /\ req[r].op \in {"add", "remove"}
  <2>1. orders[o].status = "DRAFT" /\ ord[r].status = "DRAFT"
    BY <1>3, <1>5, <1>9, ChangeMade
  <2>2. ord[r].total = orders[o].total
    BY <1>3, <1>5, <1>9, ChangeKeepsTotal
  <2>3. IsFiniteSet(ord[r].items) /\ Unpriced(ord[r].items)
    BY <1>1, <1>4, <1>9 DEF HeldTotal
  <2>4. orders[o].total = 0 /\ ~EverConfirmed(o) /\ ~EverConfirmed(o)'
    BY <1>4, <1>7, <1>9, <2>1 DEF StoredTotal
  <2>. QED BY <1>5, <1>6, <1>9, <2>2, <2>3, <2>4 DEF StoredTotal, Unpriced
<1>10. CASE p = o /\ req[r].op = "confirm"
  <2>1. ord[r].status = "CONFIRMED"
    BY <1>3, <1>5, <1>10, ChangeMade
  <2>2. IsFiniteSet(ord[r].items) /\ Priced(ord[r])
    BY <1>1, <1>4, <1>10 DEF HeldTotal
  <2>3. Priced(Stored(o))'
    BY <1>5, <2>2 DEF Priced
  <2>. QED BY <1>5, <1>10, <2>1, <2>2, <2>3 DEF StoredTotal, Absent
<1>11. CASE p = o /\ req[r].op \notin {"add", "remove", "confirm"}
  <2>1. ord[r].total = orders[o].total /\ ord[r].items = ItemsOf(o)
    BY <1>3, <1>5, <1>11, ChangeKeepsTotal
  <2>2. ord[r].status \notin {Absent, "DRAFT"}
    <3>1. req[r].op = "initiate" => prev[r] \in {"CONFIRMED", "PAYMENT_FAILED"}
      BY <1>1, <1>2, <1>3 DEF HandlerOK, InitiatingOK, Initiated
    <3>. QED BY <1>3, <1>5, <1>11, <3>1, ChangeMade DEF Absent, RejectedStatus
  <2>3. Priced(Stored(o)) => Priced(Stored(o))'
    <3>1. Stored(o).items = ItemsOf(o) /\ Stored(o).total = orders[o].total
      BY DEF Stored, InMemory
    <3>. QED BY <1>5, <2>1, <3>1 DEF Priced
  <2>. QED BY <1>4, <1>5, <1>7, <1>11, <2>1, <2>2, <2>3 DEF StoredTotal
<1>. QED BY <1>8, <1>9, <1>10, <1>11

\* An order that is inserted has no items and no total.
LEMMA InsertKeepsTotals ==
  ASSUME IndInv, IndWork, IndSequence, IndTotal, NEW r \in Requests, InsertOrder(r), NEW p \in
     Orders
  PROVE  StoredTotal(p)'
<1>1. /\ items' = items /\ orders[req[r].order] = NoOrder /\ req[r].order \in Orders
      /\ orders'[req[r].order] = [status |-> "DRAFT", total |-> 0, attempts |-> 0, version |->
            1]
      /\ \A q \in Orders : q # req[r].order => orders'[q] = orders[q]
  BY InsertedOrder
<1>2. StoredTotal(p) /\ ItemsOf(p)' = ItemsOf(p)
  BY <1>1 DEF IndTotal, ItemsOf
<1>3. EverConfirmed(p)' = EverConfirmed(p)
  BY DEF InsertOrder, ghostVars, EverConfirmed
<1>4. CASE p # req[r].order
  BY <1>1, <1>2, <1>3, <1>4, OtherTotal
<1>5. CASE p = req[r].order
  <2>1. orders[p].status = Absent /\ orders'[p].status = "DRAFT" /\ orders'[p].total = 0
    BY <1>1, <1>5 DEF NoOrder
  <2>2. Unpriced(ItemsOf(p))' /\ IsFiniteSet(ItemsOf(p)') /\ ~EverConfirmed(p)'
    BY <1>2, <1>3, <2>1 DEF StoredTotal, Unpriced
  <2>. QED BY <2>1, <2>2 DEF StoredTotal
<1>. QED BY <1>4, <1>5

(***************************************************************************)
(* The invariant.                                                          *)
(***************************************************************************)

\* The given orders have no item, or one: a draft's has no price.
LEMMA InitTotal == Init => IndTotal
<1>. SUFFICES ASSUME Init PROVE IndTotal
  OBVIOUS
<1>1. ASSUME NEW o \in Orders PROVE StoredTotal(o)
  <2>1. CASE Given[o] = "ABSENT"
    <3>1. orders[o] = NoOrder /\ ~EverConfirmed(o)
      BY <2>1 DEF Init, GivenRow, GivenEvents, WasConfirmed, WasRejectedTwice, EverConfirmed,
         EventTypes
    <3>2. \A i \in items : i.order # o
      BY <2>1 DEF Init, GivenItemRow
    <3>3. ItemsOf(o) = {}
      BY <3>2 DEF ItemsOf
    <3>. QED BY <3>1, <3>3, FS_EmptySet DEF StoredTotal, NoOrder, Unpriced
  <2>2. CASE Given[o] # "ABSENT"
    <3>. DEFINE i == GivenItemRow(o)
    <3>1. ItemsOf(o) = {i}
      BY <2>2 DEF Init, ItemsOf, GivenItemRow
    <3>2. IsFiniteSet(ItemsOf(o))
      BY <3>1, FS_Singleton
    <3>3. CASE Given[o] = "DRAFT"
      <4>1. orders[o].status = "DRAFT" /\ orders[o].total = 0 /\ i.price = NoPrice /\
         ~EverConfirmed(o)
        BY <3>3 DEF Init, GivenRow, GivenItemRow, GivenEvents, WasConfirmed, WasRejectedTwice,
           EverConfirmed, EventTypes
      <4>. HIDE DEF i
      <4>. QED BY <3>1, <3>2, <4>1 DEF StoredTotal, Unpriced
    <3>4. CASE Given[o] # "DRAFT"
      <4>1. WasConfirmed(o)
        BY <2>2, <3>4, ServiceAssumption DEF WasConfirmed
      <4>2. orders[o].status \in {"CONFIRMED", "PAYMENT_FAILED"} /\ orders[o].total = GivenPrice
        BY <4>1 DEF Init, GivenRow, WasConfirmed
      <4>3. i.price = GivenPrice /\ i.qty = 1 /\ i.price * i.qty = GivenPrice /\ i.price \in Nat
        BY <4>1, ServiceAssumption DEF GivenItemRow
      <4>. HIDE DEF i
      <4>4. LineTotal({i}) = GivenPrice
        BY <4>3, OneLine
      <4>5. Stored(o).items = {i} /\ Stored(o).total = GivenPrice
        BY <3>1, <4>2 DEF Stored, InMemory
      <4>6. Priced(Stored(o))
        BY <4>3, <4>4, <4>5 DEF Priced, NoPrice
      <4>. QED BY <3>2, <4>2, <4>6 DEF StoredTotal, Absent
    <3>. QED BY <3>3, <3>4
  <2>. QED BY <2>1, <2>2
<1>2. ASSUME NEW r \in Requests PROVE HeldTotal(r)
  BY DEF Init, HeldTotal
<1>. QED BY <1>1, <1>2 DEF IndTotal

\* Every step keeps it when there is one slot.
LEMMA StepTotal ==
  ASSUME OneAtATime
  PROVE  IndInv /\ IndWork /\ IndSequence /\ IndTotal /\ [Next]_vars => IndTotal'
<1>. SUFFICES ASSUME IndInv, IndWork, IndSequence, IndTotal, [Next]_vars PROVE IndTotal'
  OBVIOUS
<1>1. ASSUME NEW o \in Orders PROVE StoredTotal(o)'
  <2>1. StoredTotal(o)
    BY DEF IndTotal
  <2>2. CASE UNCHANGED <<orders, items>> /\ ~\E r \in Requests : SaveCommit(r)
    <3>1. EverConfirmed(o)' = EverConfirmed(o)
      BY <2>2, ConfirmedByConfirm
    <3>2. orders'[o] = orders[o] /\ ItemsOf(o)' = ItemsOf(o)
      BY <2>2 DEF ItemsOf
    <3>. QED BY <2>1, <3>1, <3>2, OtherTotal
  <2>3. CASE \E r \in Requests : SaveCommit(r)
    BY <2>3, SaveKeepsTotals
  <2>4. CASE \E r \in Requests : InsertOrder(r)
    BY <2>4, InsertKeepsTotals
  <2>5. UNCHANGED vars => UNCHANGED <<orders, items>>
    BY DEF vars, dbVars
  <2>. QED BY <2>2, <2>3, <2>4, <2>5, OrderWriters
<1>2. ASSUME NEW r \in Requests PROVE HeldTotal(r)'
  <2>1. /\ TypeOK /\ SessionInv(r) /\ WorkInv(r) /\ SequenceTables /\ SequenceSession(r)
        /\ HeldTotal(r) /\ \A o \in Orders : StoredTotal(o)
    BY DEF IndInv, IndWork, IndSequence, IndTotal
  <2>2. CASE RepositoryStep(r) \/ UseCaseStep(r)
    <3>1. PICK o \in Orders : req[r].order = o
      BY <2>1, <2>2, SameRequest
    <3>2. HandlerOK(r, o)
      BY <2>1, <3>1 DEF SequenceSession
    <3>. QED BY <2>1, <2>2, <3>1, <3>2, RepositoryHolds, UseCaseHolds
  <2>3. CASE Arrive(r)
    <3>1. PICK request, first, firstStage : Brings(r, request, first, firstStage)
      BY <2>1, <2>3, Arrival
    <3>2. pc'[r] \in {"customer", "load", "idem_get", "pay_by_key", "pay_load"}
      BY <2>1, <3>1 DEF Brings, Receive, TypeOK, LocalsOK
    <3>. QED BY <3>2 DEF HeldTotal
  <2>4. CASE Respond(r) \/ Crash
    <3>1. pc'[r] = "idle"
      BY <2>4 DEF Respond, Crash, EndSessions
    <3>. QED BY <3>1 DEF HeldTotal
  <2>5. CASE UNCHANGED vars
    BY <2>1, <2>5 DEF vars, orderLocal, HeldTotal, Priced, Unpriced
  <2>6. \A q \in Requests : q = r
    BY DEF OneAtATime
  <2>. QED BY <2>2, <2>3, <2>4, <2>5, <2>6 DEF Next, Serve, Quiet
<1>. QED BY <1>1, <1>2 DEF IndTotal

\* Prices are fixed at confirmation and the stored total is the sum of the stored
\* lines, one request at a time.
THEOREM TotalsMatch ==
  ASSUME OneAtATime
  PROVE  Spec => []TotalMatchesItems
<1>1. IndInv /\ IndWork /\ IndSequence /\ IndTotal /\ [Next]_vars => IndTotal'
  BY StepTotal
<1>2. IndTotal => TotalMatchesItems
  <2>. SUFFICES ASSUME IndTotal, NEW o \in Orders
                PROVE  /\ orders[o].status = "DRAFT" =>
                            orders[o].total = 0 /\ Unpriced(ItemsOf(o))
                       /\ EverConfirmed(o) =>
                            /\ ItemsOf(o) # {} /\ \A i \in ItemsOf(o) : i.price # NoPrice
                            /\ orders[o].total = LineTotal(ItemsOf(o))
    BY DEF TotalMatchesItems, EverConfirmed, Unpriced
  <2>1. Stored(o).items = ItemsOf(o) /\ Stored(o).total = orders[o].total
    BY DEF Stored, InMemory
  <2>. QED BY <2>1 DEF IndTotal, StoredTotal, Priced
<1>. QED BY <1>1, <1>2, InitTotal, SequenceInvariance, Invariance, WorkInvariance, PTL DEF Spec
================================================================================
