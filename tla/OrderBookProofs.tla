--------------------------- MODULE OrderBookProofs ---------------------------
(***************************************************************************)
(* What the matching engine does to any book of any size: a match fills    *)
(* resting orders that cross, in the order of its scan, each at most once  *)
(* and for no more than it holds, and fills and remainder are the quantity *)
(* asked for; filling, resting, cancelling and cranking leave every other  *)
(* order as it was; and the rounding of the escrows covers every fill.     *)
(***************************************************************************)
EXTENDS OrderBook, FiniteSums

-----------------------------------------------------------------------------
(* Order.                                                                  *)

Before(S, R, a) == {b \in S : <<b, a>> \in R}

StrictOrder(S, R) ==
  /\ \A a \in S : <<a, a>> \notin R
  /\ \A a, b, c \in S : <<a, b>> \in R /\ <<b, c>> \in R => <<a, c>> \in R
  /\ \A a, b \in S : a # b => <<a, b>> \in R \/ <<b, a>> \in R

(* s lists each element of S once, in the order of R.                      *)
Lists(s, S, R) ==
  /\ s \in [1 .. Cardinality(S) -> S]
  /\ \A j, k \in 1 .. Cardinality(S) : s[j] = s[k] => j = k
  /\ \A a \in S : \E k \in 1 .. Cardinality(S) : s[k] = a
  /\ \A j, k \in 1 .. Cardinality(S) : j < k => <<s[j], s[k]>> \in R

(* Counting those before it gives every element a place of its own.        *)
LEMMA Ranking ==
  ASSUME NEW S, IsFiniteSet(S), NEW R, StrictOrder(S, R)
  PROVE  Lists([k \in 1 .. Cardinality(S) |->
                  CHOOSE a \in S : Cardinality(Before(S, R, a)) = k - 1], S, R)
<1> DEFINE n == Cardinality(S)
           rank == [a \in S |-> Cardinality(Before(S, R, a))]
           s == [k \in 1 .. n |-> CHOOSE a \in S : rank[a] = k - 1]
<1>1. n \in Nat
  BY FS_CardinalityType
<1>2. ASSUME NEW a \in S
      PROVE  rank[a] \in 0 .. n - 1
  <2>1. Before(S, R, a) \in SUBSET S /\ a \notin Before(S, R, a)
    BY DEF Before, StrictOrder
  <2>2. /\ IsFiniteSet(Before(S, R, a))
        /\ Cardinality(Before(S, R, a)) <= Cardinality(S)
        /\ Cardinality(Before(S, R, a)) # Cardinality(S)
    BY <2>1, FS_Subset
  <2>3. Cardinality(Before(S, R, a)) \in Nat
    BY <2>2, FS_CardinalityType
  <2> QED BY <1>1, <2>2, <2>3
<1>3. ASSUME NEW a \in S, NEW b \in S, <<a, b>> \in R
      PROVE  rank[a] < rank[b]
  <2>1. Before(S, R, a) \in SUBSET Before(S, R, b) /\ a \in Before(S, R, b)
        /\ a \notin Before(S, R, a) /\ Before(S, R, b) \in SUBSET S
    BY <1>3 DEF Before, StrictOrder
  <2>2. IsFiniteSet(Before(S, R, b))
    BY <2>1, FS_Subset
  <2>3. /\ Cardinality(Before(S, R, a)) <= Cardinality(Before(S, R, b))
        /\ Cardinality(Before(S, R, a)) # Cardinality(Before(S, R, b))
    BY <2>1, <2>2, FS_Subset
  <2> QED BY <1>2, <2>3
<1> HIDE DEF rank
<1>4. ASSUME NEW a \in S, NEW b \in S, rank[a] = rank[b]
      PROVE  a = b
  <2>1. rank[a] \in Int /\ rank[b] \in Int
    BY <1>2
  <2>2. <<a, b>> \notin R /\ <<b, a>> \notin R
    BY <1>3, <1>4, <2>1
  <2> QED BY <2>2, Zenon DEF StrictOrder
<1>5. ASSUME NEW k \in 1 .. n
      PROVE  \E a \in S : rank[a] = k - 1
  <2> DEFINE T == 0 .. n - 1
  <2>1. IsFiniteSet(T) /\ Cardinality(T) = n
    <3> HIDE DEF n
    <3>1. n - 1 \in Int /\ 0 \in Int
      BY <1>1
    <3>2. IsFiniteSet(T) /\ Cardinality(T) = IF 0 > n - 1 THEN 0 ELSE (n - 1) - 0 + 1
      BY <3>1, FS_Interval
    <3> QED BY <1>1, <3>2
  <2>2. rank \in Injection(S, T)
    BY <1>2, <1>4 DEF Injection, IsInjective, rank
  <2>3. rank \in Surjection(S, T)
    <3> HIDE DEF T
    <3> QED BY <2>1, <2>2, FS_Injection
  <2>4. k - 1 \in T
    BY <1>1
  <2> QED BY <2>3, <2>4 DEF Surjection
<1>6. ASSUME NEW k \in 1 .. n
      PROVE  s[k] \in S /\ rank[s[k]] = k - 1
  BY <1>5
<1> HIDE DEF s
<1>7. s \in [1 .. n -> S]
  BY <1>6 DEF s
<1>8. \A j, k \in 1 .. n : s[j] = s[k] => j = k
  <2>1. ASSUME NEW j \in 1 .. n, NEW k \in 1 .. n, s[j] = s[k]
        PROVE  j = k
    <3>1. j - 1 = k - 1
      BY <1>6, <2>1
    <3> QED BY <1>1, <3>1
  <2> QED BY <2>1
<1>9. ASSUME NEW a \in S
      PROVE  \E k \in 1 .. n : s[k] = a
  <2>1. rank[a] + 1 \in 1 .. n /\ (rank[a] + 1) - 1 = rank[a]
    BY <1>1, <1>2
  <2>2. s[rank[a] + 1] \in S /\ rank[s[rank[a] + 1]] = rank[a]
    BY <1>6, <2>1
  <2> QED BY <1>4, <2>1, <2>2
<1>10. ASSUME NEW j \in 1 .. n, NEW k \in 1 .. n, j < k
       PROVE  <<s[j], s[k]>> \in R
  <2>1. rank[s[j]] < rank[s[k]] /\ s[j] \in S /\ s[k] \in S
    BY <1>1, <1>6, <1>10
  <2>2. s[j] # s[k] /\ ~ (rank[s[k]] < rank[s[j]])
    BY <1>1, <1>2, <2>1
  <2> QED BY <1>3, <2>1, <2>2 DEF StrictOrder
<1>11. Lists(s, S, R)
  BY <1>7, <1>8, <1>9, <1>10 DEF Lists
<1>12. s = [k \in 1 .. n |-> CHOOSE a \in S : Cardinality(Before(S, R, a)) = k - 1]
  BY DEF s, rank
<1> QED BY <1>11, <1>12

(* There is one such list.                                                 *)
LEMMA ListsOnce ==
  ASSUME NEW S, IsFiniteSet(S), NEW R, StrictOrder(S, R),
         NEW s, Lists(s, S, R), NEW t, Lists(t, S, R)
  PROVE  s = t
<1> DEFINE n == Cardinality(S)
           D == {k \in 1 .. n : s[k] # t[k]}
<1>1. n \in Nat
  BY FS_CardinalityType
<1>2. s \in [1 .. n -> S] /\ t \in [1 .. n -> S]
  BY DEF Lists
<1> SUFFICES ASSUME s # t PROVE FALSE
  OBVIOUS
<1>0. D # {}
  <2>1. (\A k \in 1 .. n : s[k] = t[k]) => s = t
    <3> HIDE DEF n, D
    <3>1. s = [k \in 1 .. n |-> s[k]] /\ t = [k \in 1 .. n |-> t[k]]
      BY <1>2
    <3> SUFFICES ASSUME \A k \in 1 .. n : s[k] = t[k] PROVE s = t
      OBVIOUS
    <3>2. [k \in 1 .. n |-> s[k]] = [k \in 1 .. n |-> t[k]]
      OBVIOUS
    <3> QED BY <3>1, <3>2, Zenon
  <2> QED BY <2>1
<1>3. PICK k \in D : \A j \in D : k <= j
  <2>1. D \in SUBSET (1 .. n)
    OBVIOUS
  <2> HIDE DEF D
  <2> QED BY <1>0, <1>1, <2>1, SmallestMember
<1>4. k \in 1 .. n /\ s[k] \in S /\ t[k] \in S /\ s[k] # t[k]
  BY <1>2
<1>5. \A j \in 1 .. n : j < k => s[j] = t[j]
  BY <1>1, <1>3, <1>4
<1>6. /\ \A i, j \in 1 .. n : s[i] = s[j] => i = j
      /\ \A i, j \in 1 .. n : t[i] = t[j] => i = j
      /\ \A a \in S : (\E i \in 1 .. n : s[i] = a) /\ \E j \in 1 .. n : t[j] = a
      /\ \A i, j \in 1 .. n : i < j => <<s[i], s[j]>> \in R /\ <<t[i], t[j]>> \in R
  BY DEF Lists
<1>7. PICK j \in 1 .. n : t[j] = s[k]
  BY <1>4, <1>6
<1>8. PICK i \in 1 .. n : s[i] = t[k]
  BY <1>4, <1>6
<1> HIDE DEF D, n
<1>9. k < j /\ k < i
  <2>1. k \in Nat /\ i \in Nat /\ j \in Nat
    BY <1>1, <1>4
  <2>2. i # k /\ j # k
    BY <1>4, <1>7, <1>8
  <2>3. ASSUME j < k PROVE FALSE
    <3>1. s[j] = s[k]
      BY <1>5, <1>7, <2>3
    <3> QED BY <1>4, <1>6, <2>2, <3>1
  <2>4. ASSUME i < k PROVE FALSE
    <3>1. t[i] = t[k]
      BY <1>5, <1>8, <2>4
    <3> QED BY <1>4, <1>6, <2>2, <3>1
  <2> QED BY <2>1, <2>2, <2>3, <2>4
<1>10. <<t[k], s[k]>> \in R /\ <<s[k], t[k]>> \in R
  BY <1>4, <1>6, <1>7, <1>8, <1>9, Zenon
<1> QED BY <1>4, <1>10, Zenon DEF StrictOrder

-----------------------------------------------------------------------------
(* Books.                                                                  *)

(* The level of each price holds orders of Os and free slots.              *)
LevelsOK(levels, Os) ==
  /\ levels \in [Prices -> Seq(Os \cup {NoOrder})]
  /\ NoOrder \notin Os
  /\ \A o \in Os : o.qty \in Nat \ {0} /\ o.ts \in Nat /\ o.side \in Sides

(* A place is active when it holds an order.                               *)
LEMMA RestingPlaces ==
  ASSUME NEW levels
  PROVE  \A at : at \in Resting(levels) <=>
           \E p \in Prices : \E i \in DOMAIN levels[p] :
             at = <<p, i>> /\ IsOrder(levels[p][i])
BY DEF Resting

(* Where an order rests there is one of the orders, with a quantity.       *)
LEMMA RestingOrders ==
  ASSUME NEW levels, NEW Os, LevelsOK(levels, Os), NEW at \in Resting(levels)
  PROVE  /\ at[1] \in Prices /\ at[2] \in 1 .. Len(levels[at[1]]) /\ at = <<at[1], at[2]>>
         /\ OrderAt(levels, at) \in Os
         /\ OrderAt(levels, at).qty \in Nat \ {0}
         /\ OrderAt(levels, at).ts \in Nat
         /\ OrderAt(levels, at).side \in Sides
<1>1. PICK p \in Prices : \E i \in DOMAIN levels[p] : at = <<p, i>> /\ IsOrder(levels[p][i])
  BY RestingPlaces
<1>2. PICK i \in DOMAIN levels[p] : at = <<p, i>> /\ IsOrder(levels[p][i])
  BY <1>1
<1>3. levels[p] \in Seq(Os \cup {NoOrder})
  BY DEF LevelsOK
<1>4. levels[p][i] \in Os \cup {NoOrder} /\ i \in 1 .. Len(levels[p])
  BY <1>2, <1>3
<1>5. levels[p][i] \in Os
  BY <1>2, <1>4 DEF IsOrder
<1> QED BY <1>2, <1>4, <1>5 DEF OrderAt, LevelsOK

(* A book has finitely many active orders.                                 *)
LEMMA RestingFinite ==
  ASSUME NEW levels, NEW Os, LevelsOK(levels, Os)
  PROVE  IsFiniteSet(Resting(levels))
<1> DEFINE at(p) == {i \in DOMAIN levels[p] : IsOrder(levels[p][i])}
           here(p) == {<<p, i>> : i \in at(p)}
           f == [p \in Prices |-> here(p)]
<1>1. IsFiniteSet(Prices)
  <2>1. 1 \in Int /\ Dollar - 1 \in Int
    BY DollarAssumption
  <2> QED BY <2>1, FS_Interval DEF Prices
<1>2. ASSUME NEW p \in Prices
      PROVE  IsFiniteSet(here(p))
  <2>1. levels[p] \in Seq(Os \cup {NoOrder})
    BY DEF LevelsOK
  <2>2. at(p) \in SUBSET (1 .. Len(levels[p])) /\ Len(levels[p]) \in Nat
    BY <2>1
  <2>3. IsFiniteSet(at(p))
    <3> HIDE DEF at
    <3> QED BY <2>2, SubsetsFinite
  <2> DEFINE g == [i \in at(p) |-> <<p, i>>]
  <2>4. g \in Surjection(at(p), here(p))
    BY DEF Surjection
  <2> HIDE DEF g, at, here
  <2> QED BY <2>3, <2>4, FS_Surjection
<1>3. f \in Surjection(Prices, {here(p) : p \in Prices})
  BY DEF Surjection
<1>4. IsFiniteSet({here(p) : p \in Prices})
  <2> HIDE DEF f, here
  <2> QED BY <1>1, <1>3, FS_Surjection
<1>5. IsFiniteSet(UNION {here(p) : p \in Prices})
  <2>1. \A T \in {here(p) : p \in Prices} : IsFiniteSet(T)
    BY <1>2
  <2> HIDE DEF here
  <2> QED BY <1>4, <2>1, FS_UNION
<1> QED BY <1>5 DEF Resting
-----------------------------------------------------------------------------
(* The order in which a taker and the crank walk through the book.         *)

Crossing(levels, side, limit) ==
  {at \in Resting(levels) : Crosses(side, limit, at[1], OrderAt(levels, at))}

ScanRelation(levels, side, S) ==
  {z \in S \X S : ScannedBefore(levels, side, z[1], z[2])}

(* Price, then time, then slot decide between any two orders.              *)
LEMMA ScanIsStrict ==
  ASSUME NEW levels, NEW Os, LevelsOK(levels, Os), NEW side, NEW S \in SUBSET Resting(levels)
  PROVE  StrictOrder(S, ScanRelation(levels, side, S))
<1> DEFINE B(a, b) == ScannedBefore(levels, side, a, b)
           ts(a) == OrderAt(levels, a).ts
<1>1. ASSUME NEW a \in S
      PROVE  a = <<a[1], a[2]>> /\ a[1] \in Int /\ a[2] \in Int /\ ts(a) \in Int
  <2>1. a \in Resting(levels)
    OBVIOUS
  <2>2. a[1] \in Prices /\ a[2] \in 1 .. Len(levels[a[1]]) /\ a = <<a[1], a[2]>> /\ ts(a) \in Nat
    BY <2>1, RestingOrders
  <2>3. levels[a[1]] \in Seq(Os \cup {NoOrder})
    BY <2>2 DEF LevelsOK
  <2>4. Len(levels[a[1]]) \in Nat
    BY <2>3
  <2> QED BY <2>2, <2>4, DollarAssumption DEF Prices
<1> HIDE DEF ts
<1>2. \A a, b \in S : B(a, b) <=>
        IF a[1] # b[1] THEN IF side = YesAsk THEN a[1] > b[1] ELSE a[1] < b[1]
        ELSE ts(a) < ts(b) \/ (ts(a) = ts(b) /\ a[2] < b[2])
  BY DEF ScannedBefore, ts
<1> HIDE DEF B
<1>3. \A a \in S : ~ B(a, a)
  BY <1>1, <1>2
<1>4. \A a, b, c \in S : B(a, b) /\ B(b, c) => B(a, c)
  <2> SUFFICES ASSUME NEW a \in S, NEW b \in S, NEW c \in S, B(a, b), B(b, c)
               PROVE  B(a, c)
    OBVIOUS
  <2>1. /\ a[1] \in Int /\ a[2] \in Int /\ ts(a) \in Int
        /\ b[1] \in Int /\ b[2] \in Int /\ ts(b) \in Int
        /\ c[1] \in Int /\ c[2] \in Int /\ ts(c) \in Int
    BY <1>1
  <2> QED BY <1>2, <2>1
<1>5. \A a, b \in S : a # b => B(a, b) \/ B(b, a)
  <2> SUFFICES ASSUME NEW a \in S, NEW b \in S, a # b
               PROVE  B(a, b) \/ B(b, a)
    OBVIOUS
  <2>1. /\ a[1] \in Int /\ a[2] \in Int /\ ts(a) \in Int
        /\ b[1] \in Int /\ b[2] \in Int /\ ts(b) \in Int
        /\ a[1] # b[1] \/ a[2] # b[2]
    BY <1>1
  <2> QED BY <1>2, <2>1
<1>6. \A a, b \in S : <<a, b>> \in ScanRelation(levels, side, S) <=> B(a, b)
  BY DEF ScanRelation, B
<1> QED BY <1>3, <1>4, <1>5, <1>6 DEF StrictOrder

(* Of the resting orders finitely many cross.                              *)
LEMMA CrossingFinite ==
  ASSUME NEW levels, NEW Os, LevelsOK(levels, Os), NEW side, NEW limit
  PROVE  /\ Crossing(levels, side, limit) \in SUBSET Resting(levels)
         /\ IsFiniteSet(Crossing(levels, side, limit))
         /\ Cardinality(Crossing(levels, side, limit)) \in Nat
<1> DEFINE C == Crossing(levels, side, limit)
<1>1. C \in SUBSET Resting(levels)
  BY DEF Crossing
<1> HIDE DEF C
<1>2. IsFiniteSet(C) /\ Cardinality(C) \in Nat
  BY <1>1, RestingFinite, FS_Subset, FS_CardinalityType
<1> QED BY <1>1, <1>2 DEF C

(* So the scan meets each crossing order exactly once, in that order.      *)
LEMMA ScanLists ==
  ASSUME NEW levels, NEW Os, LevelsOK(levels, Os), NEW side, NEW limit
  PROVE  LET S == Crossing(levels, side, limit)
         IN  Lists(ScanOrder(levels, side, limit), S, ScanRelation(levels, side, S))
<1> DEFINE S == Crossing(levels, side, limit)
           R == ScanRelation(levels, side, S)
<1>1. S \in SUBSET Resting(levels) /\ IsFiniteSet(S)
  <2>1. S \in SUBSET Resting(levels)
    BY DEF Crossing
  <2> HIDE DEF S
  <2> QED BY <2>1, RestingFinite, FS_Subset
<1> HIDE DEF S
<1>2. StrictOrder(S, R)
  BY <1>1, ScanIsStrict
<1>3. \A a \in S : Before(S, R, a) = {b \in S : ScannedBefore(levels, side, b, a)}
  BY DEF Before, ScanRelation
<1>4. ScanOrder(levels, side, limit)
        = [k \in 1 .. Cardinality(S) |->
             CHOOSE a \in S : Cardinality({b \in S : ScannedBefore(levels, side, b, a)}) = k - 1]
  BY Zenon DEF ScanOrder, InOrder, Crossing, S
<1> HIDE DEF R
<1>5. \A k : (CHOOSE a \in S : Cardinality({b \in S : ScannedBefore(levels, side, b, a)}) = k - 1)
             = (CHOOSE a \in S : Cardinality(Before(S, R, a)) = k - 1)
  BY <1>3
<1>6. ScanOrder(levels, side, limit)
        = [k \in 1 .. Cardinality(S) |->
             CHOOSE a \in S : Cardinality(Before(S, R, a)) = k - 1]
  BY <1>4, <1>5
<1> QED BY <1>1, <1>2, <1>6, Ranking DEF S, R
-----------------------------------------------------------------------------
(* Matching.                                                               *)

(* The fills a match of orders of Os can make, and what it has made so far.*)
Fills(Os) ==
  [maker : {o.owner : o \in Os}, id : {o.id : o \in Os}, makerSide : Sides,
   at : Prices \X Nat, price : Prices, qty : Nat \ {0}, isMerge : BOOLEAN]
Matches(Os) == [remaining : Nat, fills : Seq(Fills(Os))]

Start(qty) == [remaining |-> qty, fills |-> <<>>]

(* One more fill at the end of the list.                                   *)
LEMMA AppendFacts ==
  ASSUME NEW T, NEW s \in Seq(T), NEW x \in T
  PROVE  /\ Append(s, x) \in Seq(T)
         /\ Len(s) \in Nat /\ Len(Append(s, x)) = Len(s) + 1
         /\ DOMAIN s = 1 .. Len(s) /\ DOMAIN Append(s, x) = 1 .. Len(s) + 1
         /\ \A k \in 1 .. Len(s) : Append(s, x)[k] = s[k]
         /\ Append(s, x)[Len(s) + 1] = x
OBVIOUS

(* What one step of the scan does: nothing, or a fill of the order it is   *)
(* at, for what both sides still have.                                     *)
LEMMA FillStep ==
  ASSUME NEW levels, NEW Os, LevelsOK(levels, Os), NEW side, NEW maxFills,
         NEW m \in Matches(Os), NEW at \in Resting(levels)
  PROVE  LET n == FillFrom(levels, side, maxFills, m, at)
             o == OrderAt(levels, at)
         IN  /\ n \in Matches(Os)
             /\ \/ n = m
                \/ \E f \in Fills(Os) :
                     /\ n.fills = Append(m.fills, f)
                     /\ n.remaining + f.qty = m.remaining
                     /\ f.at = at /\ f.price = at[1] /\ f.qty \in 1 .. o.qty
                     /\ f.maker = o.owner /\ f.id = o.id /\ f.makerSide = o.side
                     /\ f.isMerge = (NoBid \in {side, o.side})
<1> DEFINE o == OrderAt(levels, at)
           q == IF m.remaining < o.qty THEN m.remaining ELSE o.qty
           f == [maker |-> o.owner, id |-> o.id, makerSide |-> o.side, at |-> at,
                 price |-> at[1], qty |-> q, isMerge |-> NoBid \in {side, o.side}]
           n == FillFrom(levels, side, maxFills, m, at)
<1>1. /\ at \in Prices \X Nat /\ at[1] \in Prices
      /\ o \in Os /\ o.qty \in Nat \ {0} /\ o.side \in Sides
  <2>1. /\ at[1] \in Prices /\ at[2] \in 1 .. Len(levels[at[1]]) /\ at = <<at[1], at[2]>>
        /\ o \in Os /\ o.qty \in Nat \ {0} /\ o.side \in Sides
    BY RestingOrders
  <2>2. levels[at[1]] \in Seq(Os \cup {NoOrder})
    BY <2>1 DEF LevelsOK
  <2>3. at[2] \in Nat
    BY <2>1, <2>2
  <2> HIDE DEF o
  <2> QED BY <2>1, <2>3
<1>2. m.remaining \in Nat /\ m.fills \in Seq(Fills(Os))
  BY DEF Matches
<1> HIDE DEF o
<1>3. CASE m.remaining < MinOrder \/ Len(m.fills) >= maxFills
  <2>1. n = m
    BY <1>3 DEF FillFrom
  <2> QED BY <2>1
<1>4. CASE ~ (m.remaining < MinOrder \/ Len(m.fills) >= maxFills)
  <2>1. n = [remaining |-> m.remaining - q, fills |-> Append(m.fills, f)]
    BY <1>4 DEF FillFrom, o
  <2>2. q \in 1 .. o.qty /\ q \in Nat \ {0} /\ m.remaining - q \in Nat
        /\ (m.remaining - q) + q = m.remaining
    BY <1>1, <1>2, <1>4, BookAssumption
  <2> HIDE DEF q
  <2>3. f \in Fills(Os)
    BY <1>1, <2>2 DEF Fills
  <2> HIDE DEF f
  <2>4. Append(m.fills, f) \in Seq(Fills(Os))
    BY <1>2, <2>3
  <2>5. n \in Matches(Os) /\ n.fills = Append(m.fills, f) /\ n.remaining + q = m.remaining
    BY <2>1, <2>2, <2>4 DEF Matches
  <2>6. /\ f.qty = q /\ f.at = at /\ f.price = at[1] /\ f.maker = o.owner /\ f.id = o.id
        /\ f.makerSide = o.side /\ f.isMerge = (NoBid \in {side, o.side})
    BY DEF f
  <2> HIDE DEF n
  <2> QED BY <2>2, <2>3, <2>5, <2>6 DEF n, o
<1> QED BY <1>3, <1>4

(* The largest of the first k numbers is the last.                         *)
LEMMA MaxOfFirst ==
  ASSUME NEW k \in Nat \ {0}
  PROVE  Max(1 .. k) = k /\ (1 .. k) \ {k} = 1 .. k - 1
<1>1. \A y \in 1 .. k : y <= k
  OBVIOUS
<1>2. ASSUME NEW x \in 1 .. k, \A y \in 1 .. k : x >= y
      PROVE  x = k
  BY <1>2
<1> QED BY <1>1, <1>2 DEF Max

(* A match is the last of a chain of matches, one for each crossing order. *)
IsChain(m, levels, Os, side, limit, qty, maxFills) ==
  LET scan == ScanOrder(levels, side, limit)
      n == Cardinality(Crossing(levels, side, limit))
  IN  /\ m \in [0 .. n -> Matches(Os)]
      /\ m[0] = Start(qty)
      /\ \A k \in 1 .. n : m[k] = FillFrom(levels, side, maxFills, m[k - 1], scan[k])
      /\ MatchAgainstBook(levels, side, limit, qty, maxFills) = m[n]

(* The matching goes through the crossing orders one after the other.      *)
LEMMA MatchFolds ==
  ASSUME NEW levels, NEW Os, LevelsOK(levels, Os), NEW side, NEW limit,
         NEW qty \in Nat, NEW maxFills
  PROVE  \E m : IsChain(m, levels, Os, side, limit, qty, maxFills)
<1> DEFINE scan == ScanOrder(levels, side, limit)
           C == Crossing(levels, side, limit)
           n == Cardinality(C)
           D == Matches(Os)
           I == 1 .. n
           c == [T \in SUBSET I |-> Max(T)]
           step == [z \in I \X D |-> FillFrom(levels, side, maxFills, z[2], scan[z[1]])]
           base == Start(qty)
<1>1. scan \in [I -> C] /\ DOMAIN scan = I
  BY ScanLists DEF Lists
<1>2. n \in Nat /\ IsFiniteSet(I)
  <2>1. C \in SUBSET Resting(levels)
    BY DEF Crossing
  <2> HIDE DEF C
  <2>2. IsFiniteSet(C)
    BY <2>1, RestingFinite, FS_Subset
  <2> QED BY <2>2, FS_CardinalityType, FS_Interval
<1>3. \A T \in SUBSET I : T # {} => Max(T) \in T
  <2> SUFFICES ASSUME NEW T \in SUBSET I, T # {} PROVE Max(T) \in T
    OBVIOUS
  <2>1. PICK x \in T : \A y \in T : y <= x
    <3> HIDE DEF n
    <3> QED BY <1>2, LargestMember
  <2>2. \A y \in T : x >= y
    BY <1>2, <2>1
  <2> QED BY <2>2 DEF Max
<1>4. Picks(c, I)
  BY <1>3 DEF Picks
<1>5. base \in D
  BY DEF Start, Matches
<1>6. ASSUME NEW k \in I, NEW x \in D
      PROVE  FillFrom(levels, side, maxFills, x, scan[k]) \in D
  <2>1. scan[k] \in Resting(levels)
    BY <1>1 DEF Crossing
  <2> HIDE DEF scan, n
  <2> QED BY <2>1, FillStep
<1> HIDE DEF C, scan, n, D, base
<1>7. PICK g : IsFold(g, I, c, base, step)
  <2> HIDE DEF c, step, I
  <2> QED BY <1>2, <1>4, FoldExists
<1>8. g[{}] = base
  <2> HIDE DEF c, step
  <2> QED BY <1>7 DEF IsFold
<1>9. ASSUME NEW T \in SUBSET I, T # {}
      PROVE  /\ Max(T) \in T /\ T \ {Max(T)} \in SUBSET I
             /\ g[T] = step[<<Max(T), g[T \ {Max(T)}]>>]
  <2>1. c[T] = Max(T)
    OBVIOUS
  <2>2. g[T] = step[<<c[T], g[T \ {c[T]}]>>]
    <3> HIDE DEF c, step
    <3> QED BY <1>7, <1>9 DEF IsFold
  <2> HIDE DEF c, step
  <2> QED BY <1>3, <1>9, <2>1, <2>2
<1>10. \A T \in SUBSET I : g[T] \in D
  <2> DEFINE F == {T \in SUBSET I : g[T] \notin D}
  <2>1. SUFFICES ASSUME F # {} PROVE FALSE
    OBVIOUS
  <2>2. PICK T \in F : \A U \in F : U \subseteq T => U = T
    <3>1. F \in SUBSET (SUBSET I)
      OBVIOUS
    <3> HIDE DEF F, I
    <3> QED BY <1>2, <2>1, <3>1, MinimalSubset
  <2>3. T \in SUBSET I /\ g[T] \notin D /\ T # {}
    BY <1>5, <1>8
  <2>4. /\ Max(T) \in T /\ T \ {Max(T)} \in SUBSET I
        /\ g[T] = step[<<Max(T), g[T \ {Max(T)}]>>]
    <3> HIDE DEF step, I
    <3> QED BY <1>9, <2>3
  <2>5. T \ {Max(T)} \notin F
    <3> HIDE DEF F
    <3> QED BY <2>2, <2>4
  <2>6. g[T \ {Max(T)}] \in D
    BY <2>4, <2>5
  <2>7. step[<<Max(T), g[T \ {Max(T)}]>>] \in D
    BY <1>6, <2>3, <2>4, <2>6
  <2> QED BY <2>3, <2>4, <2>7
<1>11. ASSUME NEW T \in SUBSET I, T # {}
       PROVE  g[T] = FillFrom(levels, side, maxFills, g[T \ {Max(T)}], scan[Max(T)])
  <2>1. /\ Max(T) \in I /\ T \ {Max(T)} \in SUBSET I
        /\ g[T] = step[<<Max(T), g[T \ {Max(T)}]>>]
    BY <1>9, <1>11
  <2>2. g[T \ {Max(T)}] \in D
    BY <1>10, <2>1
  <2> QED BY <2>1, <2>2
<1> HIDE DEF c, step
<1> DEFINE rec(i) == i = [s \in SUBSET I |-> IF s = {} THEN base
                            ELSE FillFrom(levels, side, maxFills, i[s \ {Max(s)}], scan[Max(s)])]
           iter == CHOOSE i : rec(i)
<1>12. MatchAgainstBook(levels, side, limit, qty, maxFills) = iter[I]
  BY <1>1 DEF MatchAgainstBook, FoldLeft, MapThenFoldSet, scan, base, Start
<1>13. rec(iter)
  <2> DEFINE r == [T \in SUBSET I |-> g[T]]
  <2>1. ASSUME NEW T \in SUBSET I
        PROVE  r[T] = IF T = {} THEN base
                      ELSE FillFrom(levels, side, maxFills, r[T \ {Max(T)}], scan[Max(T)])
    BY <1>8, <1>11
  <2>2. rec(r)
    BY <2>1
  <2> HIDE DEF rec
  <2> QED BY <2>2
<1>14. /\ iter[{}] = base
       /\ \A T \in SUBSET I : T # {} =>
            iter[T] = FillFrom(levels, side, maxFills, iter[T \ {Max(T)}], scan[Max(T)])
  <2> HIDE DEF iter, I
  <2> QED BY <1>13
<1> HIDE DEF iter
<1> DEFINE m == [k \in 0 .. n |-> iter[1 .. k]]
<1>15. m[0] = base
  <2>1. 1 .. 0 = {} /\ 0 \in 0 .. n
    BY <1>2
  <2> QED BY <1>14, <2>1
<1>16. ASSUME NEW k \in 1 .. n
       PROVE  m[k] = FillFrom(levels, side, maxFills, m[k - 1], scan[k])
  <2>1. /\ 1 .. k \in SUBSET I /\ 1 .. k # {} /\ k \in Nat \ {0}
        /\ k \in 0 .. n /\ k - 1 \in 0 .. n
    BY <1>2
  <2>2. Max(1 .. k) = k /\ (1 .. k) \ {k} = 1 .. k - 1
    BY <2>1, MaxOfFirst
  <2>3. iter[1 .. k] = FillFrom(levels, side, maxFills, iter[1 .. k - 1], scan[k])
    BY <1>14, <2>1, <2>2
  <2> QED BY <2>1, <2>3
<1>17. MatchAgainstBook(levels, side, limit, qty, maxFills) = m[n]
  BY <1>2, <1>12
<1> HIDE DEF m
<1>18. \A k \in 0 .. n : m[k] \in D
  <2> DEFINE E == {k \in 0 .. n : m[k] \in D}
  <2>1. 0 \in E
    BY <1>2, <1>5, <1>15
  <2>2. ASSUME NEW k \in 0 .. n - 1, k \in E PROVE k + 1 \in E
    <3>1. k + 1 \in 1 .. n /\ (k + 1) - 1 = k /\ k + 1 \in 0 .. n
      BY <1>2
    <3>2. m[k + 1] = FillFrom(levels, side, maxFills, m[k], scan[k + 1])
      BY <1>16, <3>1
    <3> QED BY <1>6, <2>2, <3>1, <3>2
  <2> HIDE DEF E
  <2>3. \A k \in 0 .. n : k \in E
    BY <1>2, <2>1, <2>2, CountingUp
  <2> QED BY <2>3 DEF E
<1>19. m \in [0 .. n -> D]
  BY <1>18 DEF m
<1>20. IsChain(m, levels, Os, side, limit, qty, maxFills)
  BY <1>15, <1>16, <1>17, <1>19 DEF D, n, C, scan, base, IsChain
<1> QED BY <1>20

Qtys(fs) == [k \in DOMAIN fs |-> fs[k].qty]

(* A fill takes from an order that crosses no more than the order holds,   *)
(* at the price of its level, and says whose order it was.                 *)
FillOK(levels, side, limit, f) ==
  LET o == OrderAt(levels, f.at)
  IN  /\ f.at \in Crossing(levels, side, limit)
      /\ f.price = f.at[1] /\ f.qty \in 1 .. o.qty
      /\ f.maker = o.owner /\ f.id = o.id /\ f.makerSide = o.side
      /\ f.isMerge = (NoBid \in {side, o.side})

(* No order is filled twice, and what is not filled remains.               *)
MatchOK(levels, Os, side, limit, qty, m) ==
  /\ m \in Matches(Os)
  /\ \A k \in DOMAIN m.fills : FillOK(levels, side, limit, m.fills[k])
  /\ \A j, k \in DOMAIN m.fills : m.fills[j].at = m.fills[k].at => j = k
  /\ m.remaining + SumOf(Qtys(m.fills), DOMAIN m.fills) = qty

(* A fill adds its quantity to the quantity filled.                        *)
LEMMA AppendQty ==
  ASSUME NEW Os, NEW fs \in Seq(Fills(Os)), NEW f \in Fills(Os)
  PROVE  /\ SumOf(Qtys(fs), DOMAIN fs) \in Nat
         /\ SumOf(Qtys(Append(fs, f)), DOMAIN Append(fs, f)) = SumOf(Qtys(fs), DOMAIN fs) + f.qty
<1> DEFINE gs == Append(fs, f)
           n == Len(fs)
           I == 1 .. n
<1>1. /\ n \in Nat /\ DOMAIN fs = I /\ DOMAIN gs = 1 .. n + 1
      /\ (\A k \in I : gs[k] = fs[k]) /\ gs[n + 1] = f
      /\ (\A k \in I : fs[k] \in Fills(Os))
  BY AppendFacts
<1> HIDE DEF gs, n
<1>2. 1 .. n + 1 = I \cup {n + 1} /\ n + 1 \notin I /\ IsFiniteSet(I)
  <2>1. 1 .. n + 1 = I \cup {n + 1} /\ n + 1 \notin I
    BY <1>1
  <2>2. IsFiniteSet(1 .. n)
    BY <1>1, FS_Interval
  <2> QED BY <2>1, <2>2
<1> HIDE DEF I
<1>3. \A g \in Fills(Os) : g.qty \in Nat
  BY DEF Fills
<1>4. \A k \in I : Qtys(fs)[k] = fs[k].qty /\ Qtys(gs)[k] = fs[k].qty /\ fs[k].qty \in Nat
  BY <1>1, <1>2, <1>3 DEF Qtys
<1>5. Qtys(gs)[n + 1] = f.qty /\ f.qty \in Nat
  BY <1>1, <1>2, <1>3 DEF Qtys
<1>6. SumOf(Qtys(fs), I) = SumOf(Qtys(gs), I) /\ SumOf(Qtys(fs), I) \in Nat
  <2>1. Ints(Qtys(fs), I) /\ Nats(Qtys(fs), I) /\ \A k \in I : Qtys(fs)[k] = Qtys(gs)[k]
    BY <1>4 DEF Ints, Nats
  <2> QED BY <1>2, <2>1, SumSame, SumNat
<1>7. Ints(Qtys(gs), I) /\ Qtys(gs)[n + 1] \in Int
  BY <1>4, <1>5 DEF Ints
<1>8. SumOf(Qtys(gs), I \cup {n + 1}) = Qtys(gs)[n + 1] + SumOf(Qtys(gs), I)
  BY <1>2, <1>7, SumAdd
<1>9. SumOf(Qtys(gs), DOMAIN gs) = SumOf(Qtys(fs), DOMAIN fs) + f.qty
  <2>1. DOMAIN gs = I \cup {n + 1} /\ DOMAIN fs = I
    BY <1>1, <1>2
  <2>2. SumOf(Qtys(gs), DOMAIN gs) = f.qty + SumOf(Qtys(fs), DOMAIN fs)
    BY <1>5, <1>6, <1>8, <2>1, Zenon
  <2> DEFINE a == SumOf(Qtys(fs), DOMAIN fs)
  <2>3. a \in Nat
    BY <1>6, <2>1
  <2> HIDE DEF a
  <2>4. f.qty + a = a + f.qty
    BY <1>5, <2>3
  <2> QED BY <2>2, <2>4 DEF a
<1>10. SumOf(Qtys(fs), DOMAIN fs) \in Nat
  BY <1>1, <1>6
<1> QED BY <1>9, <1>10 DEF gs

(* What a match has done at any of its steps.                              *)
LEMMA ChainMatches ==
  ASSUME NEW levels, NEW Os, LevelsOK(levels, Os), NEW side, NEW limit,
         NEW qty \in Nat, NEW maxFills,
         NEW m, IsChain(m, levels, Os, side, limit, qty, maxFills)
  PROVE  \A k \in 0 .. Cardinality(Crossing(levels, side, limit)) :
           MatchOK(levels, Os, side, limit, qty, m[k])
<1> DEFINE scan == ScanOrder(levels, side, limit)
           C == Crossing(levels, side, limit)
           n == Cardinality(C)
<1>1. /\ scan \in [1 .. n -> C]
      /\ \A j, k \in 1 .. n : scan[j] = scan[k] => j = k
  BY ScanLists DEF Lists
<1>2. n \in Nat
  BY CrossingFinite
<1>3. /\ m \in [0 .. n -> Matches(Os)]
      /\ m[0] = Start(qty)
      /\ \A k \in 1 .. n : m[k] = FillFrom(levels, side, maxFills, m[k - 1], scan[k])
  BY Zenon DEF IsChain
<1>4. C \subseteq Resting(levels)
  BY DEF Crossing
<1> HIDE DEF scan, n
<1> DEFINE met(x, k) == \A j \in DOMAIN x.fills : \E i \in 1 .. k : x.fills[j].at = scan[i]
           OK(k) == MatchOK(levels, Os, side, limit, qty, m[k]) /\ met(m[k], k)
           E == {k \in 0 .. n : OK(k)}
<1>5. 0 \in E
  <2>1. m[0].fills = <<>> /\ DOMAIN m[0].fills = {} /\ m[0].remaining = qty /\ m[0] \in Matches(Os)
    BY <1>2, <1>3 DEF Start
  <2>2. SumOf(Qtys(m[0].fills), {}) = 0
    BY SumEmpty
  <2>3. MatchOK(levels, Os, side, limit, qty, m[0])
    BY <2>1, <2>2 DEF MatchOK
  <2>4. met(m[0], 0)
    BY <2>1
  <2>5. 0 \in 0 .. n
    BY <1>2
  <2> QED BY <2>3, <2>4, <2>5
<1>6. ASSUME NEW k \in 0 .. n - 1, k \in E
      PROVE  k + 1 \in E
  <2> DEFINE x == m[k]
             y == m[k + 1]
             at == scan[k + 1]
             o == OrderAt(levels, at)
  <2>1. k + 1 \in 1 .. n /\ k + 1 \in 0 .. n /\ (k + 1) - 1 = k /\ k \in 0 .. n /\ k \in Nat
    BY <1>2
  <2>2. y = FillFrom(levels, side, maxFills, x, at) /\ x \in Matches(Os) /\ y \in Matches(Os)
    <3>1. m[k + 1] = FillFrom(levels, side, maxFills, m[(k + 1) - 1], scan[k + 1])
      BY <1>3, <2>1
    <3> QED BY <1>3, <2>1, <3>1
  <2>3. at \in C /\ at \in Resting(levels)
    BY <1>1, <1>4, <2>1
  <2>4. MatchOK(levels, Os, side, limit, qty, x) /\ met(x, k)
    BY <1>6
  <2> HIDE DEF x, y, at
  <2>5. \/ y = x
        \/ \E f \in Fills(Os) :
             /\ y.fills = Append(x.fills, f)
             /\ y.remaining + f.qty = x.remaining
             /\ f.at = at /\ f.price = at[1] /\ f.qty \in 1 .. o.qty
             /\ f.maker = o.owner /\ f.id = o.id /\ f.makerSide = o.side
             /\ f.isMerge = (NoBid \in {side, o.side})
    BY <2>2, <2>3, FillStep
  <2>6. CASE y = x
    <3>1. \A i \in 1 .. k : i \in 1 .. k + 1
      BY <2>1
    <3>2. met(x, k + 1)
      BY <2>4, <3>1
    <3> QED BY <2>1, <2>4, <2>6, <3>2 DEF x, y
  <2>7. ASSUME NEW f \in Fills(Os),
               y.fills = Append(x.fills, f), y.remaining + f.qty = x.remaining,
               f.at = at, f.price = at[1], f.qty \in 1 .. o.qty,
               f.maker = o.owner, f.id = o.id, f.makerSide = o.side,
               f.isMerge = (NoBid \in {side, o.side})
        PROVE  k + 1 \in E
    <3> DEFINE l == Len(x.fills)
    <3>1. x.fills \in Seq(Fills(Os)) /\ x.remaining \in Nat /\ y.remaining \in Nat
      BY <2>2 DEF Matches
    <3>2. /\ l \in Nat /\ DOMAIN x.fills = 1 .. l /\ DOMAIN y.fills = 1 .. l + 1
          /\ (\A j \in 1 .. l : y.fills[j] = x.fills[j]) /\ y.fills[l + 1] = f
      BY <2>7, <3>1, AppendFacts
    <3> HIDE DEF l
    <3>3. \A j \in 1 .. l + 1 : j \in 1 .. l \/ j = l + 1
      BY <3>2
    <3>4. FillOK(levels, side, limit, f)
      BY <2>3, <2>7 DEF FillOK, C
    <3>5. \A j \in DOMAIN y.fills : FillOK(levels, side, limit, y.fills[j])
      BY <2>4, <3>2, <3>3, <3>4 DEF MatchOK
    <3>6. \A j \in 1 .. l : y.fills[j].at # at
      <4> SUFFICES ASSUME NEW j \in 1 .. l, x.fills[j].at = at
                   PROVE  FALSE
        BY <3>2
      <4>1. PICK i \in 1 .. k : x.fills[j].at = scan[i]
        BY <2>4, <3>2
      <4>2. i \in 1 .. n /\ i # k + 1 /\ scan[i] = scan[k + 1]
        BY <1>2, <2>1, <4>1 DEF at
      <4> QED BY <1>1, <2>1, <4>2
    <3>7. \A i, j \in DOMAIN y.fills : y.fills[i].at = y.fills[j].at => i = j
      <4>1. \A i, j \in 1 .. l : y.fills[i].at = y.fills[j].at => i = j
        BY <2>4, <3>2 DEF MatchOK
      <4>2. y.fills[l + 1].at = at
        BY <2>7, <3>2
      <4> QED BY <3>2, <3>3, <3>6, <4>1, <4>2
    <3>8. y.remaining + SumOf(Qtys(y.fills), DOMAIN y.fills) = qty
      <4>1. /\ SumOf(Qtys(x.fills), DOMAIN x.fills) \in Nat
            /\ SumOf(Qtys(y.fills), DOMAIN y.fills) = SumOf(Qtys(x.fills), DOMAIN x.fills) + f.qty
        BY <2>7, <3>1, AppendQty
      <4>2. x.remaining + SumOf(Qtys(x.fills), DOMAIN x.fills) = qty
        BY <2>4 DEF MatchOK
      <4>3. f.qty \in Nat
        BY DEF Fills
      <4> QED BY <2>7, <3>1, <4>1, <4>2, <4>3
    <3>9. MatchOK(levels, Os, side, limit, qty, y)
      BY <2>2, <3>5, <3>7, <3>8 DEF MatchOK
    <3>10. met(y, k + 1)
      <4>1. \A i \in 1 .. k : i \in 1 .. k + 1
        BY <2>1
      <4>2. \A j \in 1 .. l : \E i \in 1 .. k + 1 : y.fills[j].at = scan[i]
        BY <2>4, <3>2, <4>1
      <4>3. k + 1 \in 1 .. k + 1 /\ y.fills[l + 1].at = scan[k + 1]
        BY <2>1, <2>7, <3>2 DEF at
      <4> QED BY <3>2, <3>3, <4>2, <4>3
    <3> QED BY <2>1, <3>9, <3>10 DEF y
  <2> QED BY <2>5, <2>6, <2>7
<1> HIDE DEF E
<1>7. \A k \in 0 .. n : k \in E
  BY <1>2, <1>5, <1>6, CountingUp
<1> QED BY <1>7 DEF E, n

(* What every match does, whatever the book, the limit and the cap.        *)
LEMMA MatchFacts ==
  ASSUME NEW levels, NEW Os, LevelsOK(levels, Os), NEW side, NEW limit,
         NEW qty \in Nat, NEW maxFills
  PROVE  MatchOK(levels, Os, side, limit, qty,
                 MatchAgainstBook(levels, side, limit, qty, maxFills))
<1> DEFINE n == Cardinality(Crossing(levels, side, limit))
<1>1. PICK m : IsChain(m, levels, Os, side, limit, qty, maxFills)
  BY MatchFolds
<1>2. MatchAgainstBook(levels, side, limit, qty, maxFills) = m[n]
  BY <1>1, Zenon DEF IsChain
<1>3. n \in 0 .. n
  <2>1. n \in Nat
    BY CrossingFinite
  <2> QED BY <2>1
<1>4. MatchOK(levels, Os, side, limit, qty, m[n])
  BY <1>1, <1>3, ChainMatches
<1> QED BY <1>2, <1>4

(* The taker still wants something, and the cap lets it have it.           *)
GoesOn(m, maxFills) == ~(m.remaining < MinOrder \/ Len(m.fills) >= maxFills)

(* What a match that goes on takes from the order at `at`, for the least of*)
(* what both sides have.                                                   *)
TakenFrom(levels, m, at) ==
  IF m.remaining < OrderAt(levels, at).qty THEN m.remaining ELSE OrderAt(levels, at).qty

(* The fill that comes of it.                                              *)
FillAt(levels, side, m, at) ==
  [maker |-> OrderAt(levels, at).owner, id |-> OrderAt(levels, at).id,
   makerSide |-> OrderAt(levels, at).side, at |-> at, price |-> at[1],
   qty |-> TakenFrom(levels, m, at), isMerge |-> NoBid \in {side, OrderAt(levels, at).side}]

(* One step of the scan, by whether the match goes on.                     *)
LEMMA StepByCase ==
  ASSUME NEW levels, NEW side, NEW maxFills, NEW m, NEW at
  PROVE  /\ ~GoesOn(m, maxFills) => FillFrom(levels, side, maxFills, m, at) = m
         /\ GoesOn(m, maxFills) =>
              FillFrom(levels, side, maxFills, m, at)
                = [remaining |-> m.remaining - TakenFrom(levels, m, at),
                   fills |-> Append(m.fills, FillAt(levels, side, m, at))]
BY Zenon DEF FillFrom, GoesOn, TakenFrom, FillAt

(* The fills of m take the first of the crossing orders, in the order of   *)
(* the scan, and only the last one may leave part of an order, when the    *)
(* taker wants no more.                                                    *)
InScanOrder(levels, side, limit, m) ==
  LET scan == ScanOrder(levels, side, limit)
  IN  /\ Len(m.fills) \in 0 .. Cardinality(Crossing(levels, side, limit))
      /\ \A i \in DOMAIN m.fills : m.fills[i].at = scan[i]
      /\ \A i \in DOMAIN m.fills : i < Len(m.fills) \/ m.remaining > 0 =>
           m.fills[i].qty = OrderAt(levels, scan[i]).qty

(* A match serves the crossing orders strictly in turn.                    *)
LEMMA ChainInOrder ==
  ASSUME NEW levels, NEW Os, LevelsOK(levels, Os), NEW side, NEW limit,
         NEW qty \in Nat, NEW maxFills,
         NEW m, IsChain(m, levels, Os, side, limit, qty, maxFills)
  PROVE  \A k \in 0 .. Cardinality(Crossing(levels, side, limit)) :
           /\ InScanOrder(levels, side, limit, m[k])
           /\ Len(m[k].fills) <= k
           /\ GoesOn(m[k], maxFills) => Len(m[k].fills) = k
<1> DEFINE scan == ScanOrder(levels, side, limit)
           C == Crossing(levels, side, limit)
           n == Cardinality(C)
           whole(x, i) == x.fills[i].qty = OrderAt(levels, scan[i]).qty
           OK(k) == /\ Len(m[k].fills) <= k
                    /\ \A i \in 1 .. Len(m[k].fills) : m[k].fills[i].at = scan[i]
                    /\ \A i \in 1 .. Len(m[k].fills) :
                         i < Len(m[k].fills) \/ m[k].remaining > 0 => whole(m[k], i)
                    /\ GoesOn(m[k], maxFills) => Len(m[k].fills) = k
           E == {k \in 0 .. n : OK(k)}
<1>1. /\ m \in [0 .. n -> Matches(Os)]
      /\ m[0] = Start(qty)
      /\ \A k \in 1 .. n : m[k] = FillFrom(levels, side, maxFills, m[k - 1], scan[k])
  BY Zenon DEF IsChain
<1>2. n \in Nat /\ C \in SUBSET Resting(levels) /\ scan \in [1 .. n -> C]
  <2>1. scan \in [1 .. n -> C]
    BY ScanLists DEF Lists
  <2> QED BY <2>1, CrossingFinite
<1>3. \A k \in 0 .. n : /\ m[k].remaining \in Nat /\ m[k].fills \in Seq(Fills(Os))
                        /\ Len(m[k].fills) \in Nat
                        /\ DOMAIN m[k].fills = 1 .. Len(m[k].fills)
  BY <1>1 DEF Matches
<1> HIDE DEF n, C, scan
<1>4. 0 \in E
  <2>1. m[0].fills = <<>> /\ 0 \in 0 .. n
    BY <1>1, <1>2 DEF Start
  <2>2. Len(m[0].fills) = 0
    BY <2>1
  <2> QED BY <2>1, <2>2
<1>5. ASSUME NEW k \in 0 .. n - 1, k \in E
      PROVE  k + 1 \in E
  <2> DEFINE x == m[k]
             y == m[k + 1]
             at == scan[k + 1]
             o == OrderAt(levels, at)
             q == TakenFrom(levels, x, at)
             f == FillAt(levels, side, x, at)
             l == Len(x.fills)
  <2>1. k + 1 \in 1 .. n /\ k + 1 \in 0 .. n /\ (k + 1) - 1 = k /\ k \in 0 .. n /\ k \in Nat
    BY <1>2
  <2>2. y = FillFrom(levels, side, maxFills, x, at)
    <3>1. m[k + 1] = FillFrom(levels, side, maxFills, m[(k + 1) - 1], scan[k + 1])
      BY <1>1, <2>1
    <3> QED BY <2>1, <3>1
  <2>3. /\ l <= k
        /\ \A i \in 1 .. l : x.fills[i].at = scan[i]
        /\ \A i \in 1 .. l : i < l \/ x.remaining > 0 => whole(x, i)
        /\ GoesOn(x, maxFills) => l = k
    BY <1>5
  <2>4. /\ x.remaining \in Nat /\ l \in Nat /\ y.remaining \in Nat
        /\ x.fills \in Seq(Fills(Os)) /\ y.fills \in Seq(Fills(Os))
    BY <1>3, <2>1
  <2>5. at \in Resting(levels) /\ o.qty \in Nat \ {0}
    <3>1. at \in Resting(levels)
      BY <1>2, <2>1
    <3> QED BY <3>1, RestingOrders
  <2>6. CASE ~GoesOn(x, maxFills)
    <3>1. y = x
      <4> HIDE DEF x, y, at
      <4> QED BY <2>2, <2>6, StepByCase
    <3>2. l <= k + 1
      BY <2>1, <2>3, <2>4
    <3>3. OK(k + 1)
      <4> HIDE DEF l
      <4>1. m[k + 1] = x
        BY <3>1
      <4> QED BY <2>3, <2>6, <3>2, <4>1 DEF l
    <3> QED BY <2>1, <3>3
  <2>7. CASE GoesOn(x, maxFills)
    <3>1. y = [remaining |-> x.remaining - q, fills |-> Append(x.fills, f)]
      <4> HIDE DEF x, y, at
      <4> QED BY <2>2, <2>7, StepByCase
    <3>2. y.remaining = x.remaining - q /\ y.fills = Append(x.fills, f)
      BY <3>1
    <3>3. f.at = at /\ f.qty = q
      BY DEF FillAt
    <3>4. l = k
      BY <2>3, <2>7
    <3> HIDE DEF y
    <3>5. /\ Len(y.fills) = k + 1 /\ y.fills[k + 1] = f
          /\ \A i \in 1 .. k : y.fills[i] = x.fills[i]
      <4> HIDE DEF x, f
      <4> QED BY <2>4, <3>2, <3>4 DEF l
    <3>6. y.remaining > 0 => q = o.qty
      <4>1. q = x.remaining \/ q = o.qty
        BY DEF TakenFrom
      <4>2. q = x.remaining => y.remaining = 0
        <5> HIDE DEF x, q
        <5> QED BY <2>4, <3>2
      <4> HIDE DEF q, o
      <4> QED BY <4>1, <4>2
    <3>10. x.remaining > 0
      BY <2>4, <2>7, BookAssumption DEF GoesOn
    <3>7. \A i \in 1 .. k + 1 : y.fills[i].at = scan[i]
      <4> SUFFICES ASSUME NEW i \in 1 .. k + 1 PROVE y.fills[i].at = scan[i]
        OBVIOUS
      <4>1. CASE i = k + 1
        BY <3>3, <3>5, <4>1
      <4>2. CASE i # k + 1
        <5>1. i \in 1 .. k
          BY <2>1, <4>2
        <5> QED BY <2>3, <3>4, <3>5, <5>1
      <4> QED BY <4>1, <4>2
    <3>8. \A i \in 1 .. k + 1 : i < k + 1 \/ y.remaining > 0 => whole(y, i)
      <4> SUFFICES ASSUME NEW i \in 1 .. k + 1, i < k + 1 \/ y.remaining > 0
                   PROVE  whole(y, i)
        OBVIOUS
      <4>1. CASE i = k + 1
        <5>1. y.remaining > 0
          BY <2>1, <4>1
        <5> QED BY <3>3, <3>5, <3>6, <4>1, <5>1
      <4>2. CASE i # k + 1
        <5>1. i \in 1 .. k
          BY <2>1, <4>2
        <5>2. whole(x, i)
          BY <2>3, <3>4, <3>10, <5>1
        <5> QED BY <3>5, <5>1, <5>2
      <4> QED BY <4>1, <4>2
    <3>9. OK(k + 1)
      <4>1. k + 1 <= k + 1
        BY <2>1
      <4> QED BY <3>5, <3>7, <3>8, <4>1 DEF y
    <3> QED BY <2>1, <3>9
  <2> QED BY <2>6, <2>7
<1> HIDE DEF E
<1>6. \A k \in 0 .. n : k \in E
  BY <1>2, <1>4, <1>5, CountingUp
<1>7. ASSUME NEW k \in 0 .. n
      PROVE  /\ InScanOrder(levels, side, limit, m[k])
             /\ Len(m[k].fills) <= k
             /\ GoesOn(m[k], maxFills) => Len(m[k].fills) = k
  <2>1. OK(k)
    BY <1>6 DEF E
  <2>2. Len(m[k].fills) \in 0 .. n
    BY <1>2, <1>3, <2>1
  <2> QED BY <1>3, <2>1, <2>2 DEF InScanOrder, n, C, scan
<1> QED BY <1>7 DEF n, C

(* A match that is over stays as it is.                                    *)
LEMMA ChainStops ==
  ASSUME NEW levels, NEW Os, LevelsOK(levels, Os), NEW side, NEW limit,
         NEW qty \in Nat, NEW maxFills,
         NEW m, IsChain(m, levels, Os, side, limit, qty, maxFills),
         NEW k \in 0 .. Cardinality(Crossing(levels, side, limit)),
         \/ ~GoesOn(m[k], maxFills)
         \/ k = Cardinality(Crossing(levels, side, limit))
  PROVE  MatchAgainstBook(levels, side, limit, qty, maxFills) = m[k]
<1> DEFINE scan == ScanOrder(levels, side, limit)
           n == Cardinality(Crossing(levels, side, limit))
           E == {j \in 0 .. n : j < k \/ m[j] = m[k]}
<1>1. /\ \A j \in 1 .. n : m[j] = FillFrom(levels, side, maxFills, m[j - 1], scan[j])
      /\ MatchAgainstBook(levels, side, limit, qty, maxFills) = m[n]
  BY Zenon DEF IsChain
<1>2. n \in Nat
  BY CrossingFinite
<1> HIDE DEF n, scan
<1>3. CASE k = n
  BY <1>1, <1>3
<1>4. CASE ~GoesOn(m[k], maxFills)
  <2>1. 0 \in E
    <3>1. 0 \in 0 .. n /\ (0 < k \/ 0 = k)
      BY <1>2 DEF n
    <3> QED BY <3>1
  <2>2. ASSUME NEW j \in 0 .. n - 1, j \in E PROVE j + 1 \in E
    <3>1. j + 1 \in 1 .. n /\ j + 1 \in 0 .. n /\ (j + 1) - 1 = j /\ j \in Nat /\ k \in Nat
      BY <1>2
    <3>2. CASE j < k
      <4>1. j + 1 < k \/ j + 1 = k
        BY <3>1, <3>2
      <4> QED BY <3>1, <4>1
    <3>3. CASE m[j] = m[k]
      <4>1. m[j + 1] = FillFrom(levels, side, maxFills, m[k], scan[j + 1])
        BY <1>1, <3>1, <3>3
      <4>2. m[j + 1] = m[k]
        BY <1>4, <4>1, StepByCase
      <4> QED BY <3>1, <4>2
    <3> QED BY <2>2, <3>2, <3>3
  <2>3. \A j \in 0 .. n : j \in E
    <3> HIDE DEF E
    <3> QED BY <1>2, <2>1, <2>2, CountingUp
  <2>4. n \in E /\ ~(n < k)
    BY <1>2, <2>3 DEF n
  <2> QED BY <1>1, <2>4
<1> QED BY <1>3, <1>4 DEF n

(* A match serves the orders in the order of the scan, ...                 *)
LEMMA MatchInScanOrder ==
  ASSUME NEW levels, NEW Os, LevelsOK(levels, Os), NEW side, NEW limit,
         NEW qty \in Nat, NEW maxFills
  PROVE  InScanOrder(levels, side, limit, MatchAgainstBook(levels, side, limit, qty, maxFills))
<1> DEFINE n == Cardinality(Crossing(levels, side, limit))
           m == MatchAgainstBook(levels, side, limit, qty, maxFills)
<1>1. PICK c : IsChain(c, levels, Os, side, limit, qty, maxFills)
  BY MatchFolds
<1>2. n \in 0 .. n
  <2>1. n \in Nat
    BY CrossingFinite
  <2> QED BY <2>1
<1>3. m = c[n]
  BY <1>1, Zenon DEF IsChain
<1>4. InScanOrder(levels, side, limit, c[n])
  <2> HIDE DEF m
  <2> QED BY <1>1, <1>2, ChainInOrder
<1> HIDE DEF m, n
<1>5. InScanOrder(levels, side, limit, m)
  BY <1>3, <1>4
<1> QED BY <1>5 DEF m

(* ... and no more of them than the cap lets it.                           *)
LEMMA MatchCapped ==
  ASSUME NEW levels, NEW Os, LevelsOK(levels, Os), NEW side, NEW limit,
         NEW qty \in Nat, NEW maxFills \in Nat
  PROVE  Len(MatchAgainstBook(levels, side, limit, qty, maxFills).fills) <= maxFills
<1> DEFINE n == Cardinality(Crossing(levels, side, limit))
           m == MatchAgainstBook(levels, side, limit, qty, maxFills)
           scan == ScanOrder(levels, side, limit)
<1>1. PICK c : IsChain(c, levels, Os, side, limit, qty, maxFills)
  BY MatchFolds
<1>2. /\ c \in [0 .. n -> Matches(Os)] /\ c[0] = Start(qty) /\ m = c[n]
      /\ \A k \in 1 .. n : c[k] = FillFrom(levels, side, maxFills, c[k - 1], scan[k])
  BY <1>1, Zenon DEF IsChain
<1>3. n \in Nat
  BY CrossingFinite
<1> DEFINE E == {k \in 0 .. n : Len(c[k].fills) <= maxFills}
<1> HIDE DEF n, m, scan
<1>4. 0 \in E
  <2>1. Len(c[0].fills) = 0
    BY <1>2 DEF Start
  <2> QED BY <1>3, <2>1
<1>5. ASSUME NEW k \in 0 .. n - 1, k \in E
      PROVE  k + 1 \in E
  <2> DEFINE x == c[k]
             y == c[k + 1]
             at == scan[k + 1]
  <2>1. k \in 0 .. n /\ k + 1 \in 1 .. n /\ k + 1 \in 0 .. n /\ (k + 1) - 1 = k
    BY <1>3
  <2>2. y = FillFrom(levels, side, maxFills, x, at) /\ x.fills \in Seq(Fills(Os))
    <3>1. c[k + 1] = FillFrom(levels, side, maxFills, c[(k + 1) - 1], scan[k + 1])
      BY <1>2, <2>1
    <3>2. c[k] \in Matches(Os)
      BY <1>2, <2>1
    <3> QED BY <2>1, <3>1, <3>2 DEF Matches
  <2>3. Len(x.fills) \in Nat /\ Len(x.fills) <= maxFills
    BY <1>5, <2>2
  <2> HIDE DEF x, y, at, E
  <2>4. CASE GoesOn(x, maxFills)
    <3>1. y.fills = Append(x.fills, FillAt(levels, side, x, at))
      <4>1. y = [remaining |-> x.remaining - TakenFrom(levels, x, at),
                 fills |-> Append(x.fills, FillAt(levels, side, x, at))]
        BY <2>2, <2>4, StepByCase
      <4> QED BY <4>1
    <3>2. Len(y.fills) = Len(x.fills) + 1
      BY <2>2, <3>1
    <3>3. Len(x.fills) < maxFills
      BY <2>3, <2>4 DEF GoesOn
    <3> QED BY <2>1, <2>3, <3>2, <3>3 DEF E, y
  <2>5. CASE ~ GoesOn(x, maxFills)
    <3>1. y = x
      BY <2>2, <2>5, StepByCase
    <3> QED BY <2>1, <2>3, <3>1 DEF E, y
  <2> QED BY <2>4, <2>5
<1> HIDE DEF E
<1>6. \A k \in 0 .. n : k \in E
  BY <1>3, <1>4, <1>5, CountingUp
<1>7. n \in 0 .. n
  BY <1>3
<1> QED BY <1>2, <1>6, <1>7 DEF E, m

(* What each order has to give.                                            *)
QtyAt(levels) == [at \in Resting(levels) |-> OrderAt(levels, at).qty]

LEMMA QtyAtFacts ==
  ASSUME NEW levels, NEW Os, LevelsOK(levels, Os)
  PROVE  /\ IsFiniteSet(Resting(levels)) /\ Nats(QtyAt(levels), Resting(levels))
         /\ Ints(QtyAt(levels), Resting(levels))
         /\ \A S \in SUBSET Resting(levels) :
              IsFiniteSet(S) /\ Nats(QtyAt(levels), S) /\ Ints(QtyAt(levels), S)
<1>1. IsFiniteSet(Resting(levels))
  BY RestingFinite
<1>2. \A at \in Resting(levels) : QtyAt(levels)[at] \in Nat
  BY RestingOrders DEF QtyAt
<1>3. Nats(QtyAt(levels), Resting(levels)) /\ Ints(QtyAt(levels), Resting(levels))
  BY <1>2 DEF Nats, Ints
<1>4. ASSUME NEW S \in SUBSET Resting(levels)
      PROVE  IsFiniteSet(S) /\ Nats(QtyAt(levels), S) /\ Ints(QtyAt(levels), S)
  <2>1. IsFiniteSet(S)
    BY <1>1, FS_Subset
  <2> QED BY <1>2, <2>1 DEF Nats, Ints
<1> QED BY <1>1, <1>3, <1>4

(* A match may fill at most what the crossing orders have; a taker that    *)
(* wants more than all of them, with room for all fills, gets all of it.   *)
LEMMA MatchServesAll ==
  ASSUME NEW levels, NEW Os, LevelsOK(levels, Os), NEW side, NEW limit,
         NEW qty \in Nat, qty >= SumOf(QtyAt(levels), Resting(levels)) + MinOrder,
         NEW maxFills \in Nat, maxFills >= Cardinality(Resting(levels))
  PROVE  qty - MatchAgainstBook(levels, side, limit, qty, maxFills).remaining
           = SumOf(QtyAt(levels), Crossing(levels, side, limit))
<1> DEFINE C == Crossing(levels, side, limit)
           n == Cardinality(C)
           R == Resting(levels)
           f == QtyAt(levels)
           m == MatchAgainstBook(levels, side, limit, qty, maxFills)
           fs == m.fills
           K == DOMAIN fs
           scan == ScanOrder(levels, side, limit)
           r == [k \in K |-> fs[k].at]
           q == Qtys(fs)
           given == [k \in K |-> f[r[k]]]
           taken == {r[k] : k \in K}
<1>1. MatchOK(levels, Os, side, limit, qty, m)
  BY MatchFacts
<1>2. /\ fs \in Seq(Fills(Os)) /\ m.remaining \in Nat
      /\ \A k \in K : fs[k].at \in C /\ fs[k].qty \in 1 .. OrderAt(levels, fs[k].at).qty
      /\ \A j, k \in K : fs[j].at = fs[k].at => j = k
      /\ m.remaining + SumOf(q, K) = qty
  BY <1>1 DEF MatchOK, Matches, FillOK
<1>3. /\ C \in SUBSET R /\ IsFiniteSet(C) /\ n \in Nat /\ IsFiniteSet(R) /\ Nats(f, R) /\ Ints(f, R)
      /\ Nats(f, C) /\ Ints(f, C) /\ Lists(scan, C, ScanRelation(levels, side, C))
  BY CrossingFinite, QtyAtFacts, ScanLists
<1>4. /\ InScanOrder(levels, side, limit, m)
      /\ GoesOn(m, maxFills) => Len(fs) = n
  <2>1. PICK c : IsChain(c, levels, Os, side, limit, qty, maxFills)
    BY MatchFolds
  <2>2. n \in 0 .. n
    BY <1>3
  <2>3. m = c[n]
    BY <2>1, Zenon DEF IsChain
  <2>4. /\ InScanOrder(levels, side, limit, c[n])
        /\ GoesOn(c[n], maxFills) => Len(c[n].fills) = n
    <3> HIDE DEF m, n, fs
    <3> QED BY <2>1, <2>2, ChainInOrder DEF n, C
  <2> HIDE DEF m, n
  <2> QED BY <2>3, <2>4
<1> HIDE DEF m, C, n, R, scan, f
<1>5. K = 1 .. Len(fs) /\ Len(fs) \in Nat /\ IsFiniteSet(K) /\ Len(fs) \in 0 .. n
  <2>1. K = 1 .. Len(fs) /\ Len(fs) \in Nat
    BY <1>2
  <2>2. Len(fs) \in 0 .. n
    BY <1>4 DEF InScanOrder, n, C
  <2> QED BY <2>1, <2>2, FS_Interval
<1>6. /\ r \in [K -> C] /\ \A j, k \in K : r[j] = r[k] => j = k
      /\ \A k \in K : q[k] = fs[k].qty /\ q[k] \in Nat /\ q[k] <= given[k]
                      /\ given[k] \in Nat /\ given[k] = f[r[k]]
  <2>1. \A at \in R : f[at] = OrderAt(levels, at).qty /\ f[at] \in Nat
    <3>1. \A at \in Resting(levels) : QtyAt(levels)[at] = OrderAt(levels, at).qty
      BY DEF QtyAt
    <3> QED BY <1>3, <3>1 DEF Nats, R, f
  <2> HIDE DEF fs
  <2>2. ASSUME NEW k \in K PROVE fs[k].at \in C /\ fs[k].at \in R /\ fs[k].qty \in 1 .. f[fs[k].at]
    BY <1>2, <1>3, <2>1
  <2> HIDE DEF K
  <2> QED BY <1>2, <2>1, <2>2 DEF Qtys, K
<1> HIDE DEF q, r, given, fs
<1>7. taken \in SUBSET C /\ SumOf(f, taken) = SumOf(given, K)
  <2>1. taken \in SUBSET C
    BY <1>6
  <2>2. Ints(f, taken) /\ IsFiniteSet(taken)
    BY <1>3, <2>1, FS_Subset DEF Ints
  <2>3. r \in [K -> taken]
    BY <1>6
  <2> HIDE DEF K
  <2>4. \A x \in taken : (\A k \in K : r[k] # x) => f[x] = 0
    BY Zenon
  <2>6. \A j, k \in K : r[j] = r[k] => j = k
    BY <1>6
  <2>7. \A k \in K : given[k] = f[r[k]]
    BY <1>6
  <2> HIDE DEF taken
  <2>5. SumOf(f, taken) = SumOf(given, K)
    BY <1>5, <2>2, <2>3, <2>4, <2>6, <2>7, SumRenumber
  <2> QED BY <2>1, <2>5 DEF taken
<1>8. SumOf(q, K) <= SumOf(given, K) /\ SumOf(q, K) \in Nat /\ SumOf(given, K) \in Nat
  <2>1. Nats(q, K) /\ Nats(given, K) /\ Ints(q, K) /\ Ints(given, K)
    BY <1>6 DEF Nats, Ints
  <2> QED BY <1>5, <1>6, <2>1, SumLeq, SumNat
<1> HIDE DEF taken, K
<1>9. SumOf(f, taken) <= SumOf(f, C) /\ SumOf(f, C) <= SumOf(f, R) /\ SumOf(f, R) \in Nat
      /\ SumOf(f, C) \in Nat
  BY <1>3, <1>7, SumPart, SumNat
<1>10. MinOrder \in Nat /\ m.remaining >= MinOrder /\ m.remaining > 0 /\ SumOf(q, K) \in Nat
  <2>1. SumOf(q, K) <= SumOf(f, R)
    BY <1>7, <1>8, <1>9
  <2>2. qty >= SumOf(f, R) + MinOrder
    BY DEF f, R
  <2> QED BY <1>2, <1>8, <1>9, <2>1, <2>2, BookAssumption
<1>11. Len(fs) = n
  <2>1. CASE GoesOn(m, maxFills)
    BY <1>4, <2>1 DEF fs
  <2>2. CASE Len(fs) >= maxFills
    <3>1. n <= Cardinality(R)
      BY <1>3, FS_Subset DEF n
    <3>2. Cardinality(R) \in Nat /\ maxFills >= Cardinality(R)
      BY <1>3, FS_CardinalityType DEF R
    <3> QED BY <1>3, <1>5, <2>2, <3>1, <3>2
  <2> QED BY <1>2, <1>10, <2>1, <2>2 DEF GoesOn, fs
<1>12. \A k \in K : fs[k].at = scan[k]
  BY <1>4 DEF InScanOrder, scan, K, fs
<1>13. taken = C
  <2>1. \A x \in C : \E k \in 1 .. n : scan[k] = x
    BY <1>3, Zenon DEF Lists, n
  <2>2. \A x \in C : \E k \in K : r[k] = x
    BY <1>5, <1>11, <1>12, <2>1 DEF r
  <2> QED BY <1>7, <2>2 DEF taken
<1>14. \A k \in K : q[k] = given[k]
  <2> SUFFICES ASSUME NEW k \in K, q[k] # given[k] PROVE FALSE
    OBVIOUS
  <2>1. fs[k].qty = OrderAt(levels, scan[k]).qty
    BY <1>4, <1>10 DEF InScanOrder, scan, K, fs
  <2>2. r[k] = scan[k] /\ scan[k] \in R
    BY <1>3, <1>6, <1>12 DEF r
  <2>3. f[scan[k]] = OrderAt(levels, scan[k]).qty
    BY <2>2 DEF f, R, QtyAt
  <2> QED BY <1>6, <2>1, <2>2, <2>3
<1>15. SumOf(q, K) = SumOf(given, K)
  <2>1. Ints(q, K)
    BY <1>6 DEF Ints
  <2> QED BY <1>5, <1>14, <2>1, SumSame
<1>16. qty - m.remaining = SumOf(f, C)
  BY <1>2, <1>7, <1>8, <1>13, <1>15
<1> QED BY <1>16 DEF m, f, C

-----------------------------------------------------------------------------
(* Changing the levels.                                                    *)

(* Freeing an empty level moves no order.                                  *)
LEMMA FreeingKeepsOrders ==
  ASSUME NEW T, NEW level \in Seq(T)
  PROVE  /\ FreeIfEmpty(level) \in Seq(T)
         /\ \A i : /\ i \in DOMAIN FreeIfEmpty(level) /\ IsOrder(FreeIfEmpty(level)[i])
                        <=> i \in DOMAIN level /\ IsOrder(level[i])
                   /\ i \in DOMAIN FreeIfEmpty(level) => FreeIfEmpty(level)[i] = level[i]
<1>1. CASE \E i \in DOMAIN level : IsOrder(level[i])
  <2>1. FreeIfEmpty(level) = level
    BY <1>1 DEF FreeIfEmpty
  <2> QED BY <2>1
<1>2. CASE ~ \E i \in DOMAIN level : IsOrder(level[i])
  <2>1. FreeIfEmpty(level) = <<>>
    BY <1>2 DEF FreeIfEmpty
  <2> QED BY <1>2, <2>1
<1> QED BY <1>1, <1>2

(* A function on the slots of a level is again a level.                    *)
LEMMA NewLevel ==
  ASSUME NEW T, NEW level \in Seq(T), NEW slot, \A i \in DOMAIN level : slot[i] \in T
  PROVE  [i \in DOMAIN level |-> slot[i]] \in Seq(T)
<1>1. Len(level) \in Nat /\ DOMAIN level = 1 .. Len(level)
  OBVIOUS
<1>2. [i \in 1 .. Len(level) |-> slot[i]] \in Seq(T)
  BY <1>1
<1> QED BY <1>1, <1>2

(* The orders of a book can be made smaller.                               *)
Reducible(Os) == \A o \in Os : \A q \in 1 .. o.qty - 1 : [o EXCEPT !.qty = @ - q] \in Os

(* What a list of fills does to the resting orders: one that is filled     *)
(* whole goes, one that is filled in part loses what was taken and nothing *)
(* else, and every other one stays as it was.                              *)
FillsApplied(levels, fs, new) ==
  /\ \A at : at \in Resting(new) <=>
       /\ at \in Resting(levels)
       /\ \A k \in DOMAIN fs : fs[k].at = at => fs[k].qty < OrderAt(levels, at).qty
  /\ \A at \in Resting(new) :
       (\A k \in DOMAIN fs : fs[k].at # at) => OrderAt(new, at) = OrderAt(levels, at)
  /\ \A k \in DOMAIN fs : fs[k].at \in Resting(new) =>
       OrderAt(new, fs[k].at) = [OrderAt(levels, fs[k].at) EXCEPT !.qty = @ - fs[k].qty]

(* Fills that a match can have made on these levels.                       *)
FillsFit(levels, fs) ==
  /\ \A k \in DOMAIN fs :
       /\ fs[k].at \in Resting(levels) /\ fs[k].price = fs[k].at[1]
       /\ fs[k].qty \in 1 .. OrderAt(levels, fs[k].at).qty
  /\ \A j, k \in DOMAIN fs : fs[j].at = fs[k].at => j = k

(* The levels after the fills are levels, with each order less its fill.   *)
LEMMA AfterFillsApplied ==
  ASSUME NEW levels, NEW Os, LevelsOK(levels, Os), Reducible(Os),
         NEW fs, FillsFit(levels, fs)
  PROVE  /\ LevelsOK(AfterFills(levels, fs), Os)
         /\ FillsApplied(levels, fs, AfterFills(levels, fs))
<1> DEFINE new == AfterFills(levels, fs)
           hit(p, i) == \E k \in DOMAIN fs : fs[k].at = <<p, i>>
           the(p, i) == CHOOSE k \in DOMAIN fs : fs[k].at = <<p, i>>
           slot(p) == [i \in DOMAIN levels[p] |->
                         IF hit(p, i) THEN FilledSlot(levels[p][i], fs[the(p, i)].qty)
                         ELSE levels[p][i]]
           T == Os \cup {NoOrder}
<1>1. /\ DOMAIN new = Prices
      /\ \A p \in Prices :
           new[p] = IF \E k \in DOMAIN fs : fs[k].price = p THEN FreeIfEmpty(slot(p)) ELSE levels[p]
  BY Zenon DEF AfterFills
<1>2. \A p \in Prices : levels[p] \in Seq(T) /\ DOMAIN levels[p] = 1 .. Len(levels[p])
  BY DEF LevelsOK
<1>3. \A k \in DOMAIN fs : \E p \in Prices : \E i \in DOMAIN levels[p] :
        /\ fs[k].at = <<p, i>> /\ IsOrder(levels[p][i]) /\ fs[k].price = p
        /\ fs[k].qty \in 1 .. levels[p][i].qty
        /\ levels[p][i] \in Os /\ levels[p][i].qty \in Nat \ {0}
  <2> SUFFICES ASSUME NEW k \in DOMAIN fs
               PROVE  \E p \in Prices : \E i \in DOMAIN levels[p] :
                        /\ fs[k].at = <<p, i>> /\ IsOrder(levels[p][i]) /\ fs[k].price = p
                        /\ fs[k].qty \in 1 .. levels[p][i].qty
                        /\ levels[p][i] \in Os /\ levels[p][i].qty \in Nat \ {0}
    OBVIOUS
  <2>1. fs[k].at \in Resting(levels) /\ fs[k].price = fs[k].at[1]
        /\ fs[k].qty \in 1 .. OrderAt(levels, fs[k].at).qty
    BY DEF FillsFit
  <2>2. PICK p \in Prices : \E i \in DOMAIN levels[p] :
               fs[k].at = <<p, i>> /\ IsOrder(levels[p][i])
    BY <2>1, RestingPlaces
  <2>3. PICK i \in DOMAIN levels[p] : fs[k].at = <<p, i>> /\ IsOrder(levels[p][i])
    BY <2>2
  <2>4. OrderAt(levels, fs[k].at) = levels[p][i] /\ fs[k].price = p
    BY <2>1, <2>3 DEF OrderAt
  <2>5. levels[p][i] \in Os /\ levels[p][i].qty \in Nat \ {0}
    BY <2>1, <2>4, RestingOrders
  <2> QED BY <2>1, <2>3, <2>4, <2>5
<1>4. ASSUME NEW p \in Prices, NEW i \in DOMAIN levels[p], hit(p, i)
      PROVE  /\ the(p, i) \in DOMAIN fs /\ fs[the(p, i)].at = <<p, i>>
             /\ IsOrder(levels[p][i]) /\ levels[p][i] \in Os
             /\ fs[the(p, i)].qty \in 1 .. levels[p][i].qty /\ levels[p][i].qty \in Nat \ {0}
             /\ fs[the(p, i)].price = p
  <2>1. the(p, i) \in DOMAIN fs /\ fs[the(p, i)].at = <<p, i>>
    BY <1>4, Zenon
  <2> DEFINE k == the(p, i)
  <2>2. k \in DOMAIN fs /\ fs[k].at = <<p, i>>
    BY <2>1
  <2> HIDE DEF k
  <2>3. PICK pp, ii :
            /\ pp \in Prices /\ ii \in DOMAIN levels[pp]
            /\ fs[k].at = <<pp, ii>> /\ IsOrder(levels[pp][ii]) /\ fs[k].price = pp
            /\ fs[k].qty \in 1 .. levels[pp][ii].qty
            /\ levels[pp][ii] \in Os /\ levels[pp][ii].qty \in Nat \ {0}
    BY <1>3, <2>2
  <2>4. pp = p /\ ii = i
    BY <2>2, <2>3
  <2> QED BY <2>2, <2>3, <2>4 DEF k
<1> HIDE DEF the
<1>5. ASSUME NEW p \in Prices, NEW i \in DOMAIN levels[p]
      PROVE  slot(p)[i] \in T
  <2>1. CASE ~ hit(p, i)
    BY <1>2, <2>1
  <2>2. CASE hit(p, i)
    <3> DEFINE q == fs[the(p, i)].qty
               o == levels[p][i]
    <3>1. slot(p)[i] = FilledSlot(o, q)
      BY <2>2
    <3>2. o \in Os /\ q \in 1 .. o.qty /\ o.qty \in Nat \ {0}
      BY <1>4, <2>2
    <3> HIDE DEF o, q
    <3>3. q >= o.qty \/ q \in 1 .. o.qty - 1
      BY <3>2
    <3>4. FilledSlot(o, q) \in T
      BY <3>2, <3>3 DEF FilledSlot, Reducible
    <3> QED BY <3>1, <3>4
  <2> QED BY <2>1, <2>2
<1>6. ASSUME NEW p \in Prices
      PROVE  /\ new[p] \in Seq(T)
             /\ \A i : i \in DOMAIN new[p] /\ IsOrder(new[p][i])
                         <=> i \in DOMAIN levels[p] /\ IsOrder(slot(p)[i])
             /\ \A i \in DOMAIN new[p] : new[p][i] = slot(p)[i]
  <2> DEFINE s == slot(p)
  <2>1. s \in Seq(T) /\ DOMAIN s = DOMAIN levels[p]
    <3>1. s = [i \in DOMAIN levels[p] |-> s[i]] /\ \A i \in DOMAIN levels[p] : s[i] \in T
      BY <1>5
    <3> HIDE DEF s, T
    <3>2. levels[p] \in Seq(T)
      BY <1>2
    <3>3. [i \in DOMAIN levels[p] |-> s[i]] \in Seq(T)
      BY <3>1, <3>2, NewLevel
    <3> QED BY <3>1, <3>3
  <2>2. CASE \E k \in DOMAIN fs : fs[k].price = p
    <3>1. new[p] = FreeIfEmpty(s)
      BY <1>1, <2>2
    <3> HIDE DEF s, new, T
    <3>2. /\ FreeIfEmpty(s) \in Seq(T)
          /\ \A i : /\ i \in DOMAIN FreeIfEmpty(s) /\ IsOrder(FreeIfEmpty(s)[i])
                         <=> i \in DOMAIN s /\ IsOrder(s[i])
                    /\ i \in DOMAIN FreeIfEmpty(s) => FreeIfEmpty(s)[i] = s[i]
      BY <2>1, FreeingKeepsOrders
    <3>3. /\ new[p] \in Seq(T)
          /\ \A i : i \in DOMAIN new[p] /\ IsOrder(new[p][i])
                      <=> i \in DOMAIN levels[p] /\ IsOrder(s[i])
          /\ \A i \in DOMAIN new[p] : new[p][i] = s[i]
      BY <2>1, <3>1, <3>2
    <3> QED BY <3>3 DEF s
  <2>3. CASE ~ \E k \in DOMAIN fs : fs[k].price = p
    <3>1. new[p] = levels[p]
      BY <1>1, <2>3
    <3>2. \A i \in DOMAIN levels[p] : ~ hit(p, i)
      BY <1>4, <2>3
    <3>3. \A i \in DOMAIN levels[p] : s[i] = levels[p][i]
      BY <3>2
    <3> HIDE DEF s, new
    <3>4. /\ new[p] \in Seq(T)
          /\ \A i : i \in DOMAIN new[p] /\ IsOrder(new[p][i])
                      <=> i \in DOMAIN levels[p] /\ IsOrder(s[i])
          /\ \A i \in DOMAIN new[p] : new[p][i] = s[i]
      BY <1>2, <3>1, <3>3
    <3> QED BY <3>4 DEF s
  <2> QED BY <2>2, <2>3
<1>7. LevelsOK(new, Os)
  <2>1. new = [p \in Prices |-> new[p]]
    BY Zenon DEF AfterFills
  <2> HIDE DEF new
  <2>2. new \in [Prices -> Seq(T)]
    BY <1>6, <2>1
  <2> QED BY <2>2 DEF LevelsOK
<1> HIDE DEF new
<1>8. ASSUME NEW p \in Prices, NEW i \in DOMAIN levels[p], hit(p, i),
             NEW k \in DOMAIN fs, fs[k].at = <<p, i>>
      PROVE  /\ k = the(p, i) /\ fs[k].qty \in Nat /\ levels[p][i].qty \in Nat
             /\ IsOrder(levels[p][i]) /\ levels[p][i] \in Os
             /\ slot(p)[i] = FilledSlot(levels[p][i], fs[k].qty)
  <2>1. k = the(p, i)
    BY <1>4, <1>8 DEF FillsFit
  <2> QED BY <1>4, <1>8, <2>1
<1>9. ASSUME NEW p \in Prices, NEW i \in DOMAIN levels[p]
      PROVE  IsOrder(slot(p)[i]) <=>
               /\ IsOrder(levels[p][i])
               /\ \A k \in DOMAIN fs : fs[k].at = <<p, i>> => fs[k].qty < levels[p][i].qty
  <2>1. CASE ~ hit(p, i)
    BY <2>1
  <2>2. CASE hit(p, i)
    <3>1. PICK k \in DOMAIN fs : fs[k].at = <<p, i>>
      BY <2>2
    <3> DEFINE o == levels[p][i]
    <3>2. /\ \A j \in DOMAIN fs : fs[j].at = <<p, i>> => j = k
          /\ slot(p)[i] = FilledSlot(o, fs[k].qty)
          /\ fs[k].qty \in Nat /\ o.qty \in Nat /\ IsOrder(o) /\ o \in Os
      <4> HIDE DEF slot, hit, the
      <4>1. /\ k = the(p, i) /\ slot(p)[i] = FilledSlot(o, fs[k].qty)
            /\ fs[k].qty \in Nat /\ o.qty \in Nat /\ IsOrder(o) /\ o \in Os
        BY <1>8, <2>2, <3>1
      <4>2. \A j \in DOMAIN fs : fs[j].at = <<p, i>> => j = the(p, i)
        BY <1>8, <2>2
      <4> QED BY <4>1, <4>2
    <3>3. fs[k].qty \in 1 .. o.qty
      BY <1>3, <3>1
    <3> HIDE DEF o
    <3>4. CASE fs[k].qty >= o.qty
      <4>1. FilledSlot(o, fs[k].qty) = NoOrder
        BY <3>4 DEF FilledSlot
      <4> QED BY <3>1, <3>2, <3>4, <4>1 DEF IsOrder, o
    <3>5. CASE fs[k].qty < o.qty
      <4>1. FilledSlot(o, fs[k].qty) \in Os
        BY <3>2, <3>3, <3>5 DEF FilledSlot, Reducible
      <4>2. IsOrder(FilledSlot(o, fs[k].qty))
        BY <4>1 DEF IsOrder, LevelsOK
      <4> QED BY <3>1, <3>2, <3>5, <4>2 DEF o
    <3> QED BY <3>2, <3>4, <3>5
  <2> QED BY <2>1, <2>2
<1> HIDE DEF slot
<1>10. ASSUME NEW at
       PROVE  at \in Resting(new) <=>
                /\ at \in Resting(levels)
                /\ \A k \in DOMAIN fs : fs[k].at = at => fs[k].qty < OrderAt(levels, at).qty
  <2>1. at \in Resting(new) <=> \E p \in Prices : \E i \in DOMAIN new[p] :
             at = <<p, i>> /\ IsOrder(new[p][i])
    BY RestingPlaces
  <2>2. at \in Resting(levels) <=> \E p \in Prices : \E i \in DOMAIN levels[p] :
             at = <<p, i>> /\ IsOrder(levels[p][i])
    BY RestingPlaces
  <2>3. ASSUME NEW p \in Prices, NEW i, at = <<p, i>>
        PROVE  OrderAt(levels, at) = levels[p][i]
    BY <2>3 DEF OrderAt
  <2>4. ASSUME at \in Resting(new)
        PROVE  /\ at \in Resting(levels)
               /\ \A k \in DOMAIN fs : fs[k].at = at => fs[k].qty < OrderAt(levels, at).qty
    <3>1. PICK p, i : p \in Prices /\ i \in DOMAIN new[p] /\ at = <<p, i>> /\ IsOrder(new[p][i])
      BY <2>1, <2>4
    <3>2. i \in DOMAIN levels[p] /\ IsOrder(slot(p)[i])
      BY <1>6, <3>1
    <3> QED BY <1>9, <2>2, <2>3, <3>1, <3>2
  <2>5. ASSUME at \in Resting(levels),
               \A k \in DOMAIN fs : fs[k].at = at => fs[k].qty < OrderAt(levels, at).qty
        PROVE  at \in Resting(new)
    <3>1. PICK p, i : p \in Prices /\ i \in DOMAIN levels[p] /\ at = <<p, i>> /\ IsOrder(levels[p][i])
      BY <2>2, <2>5
    <3>2. IsOrder(slot(p)[i])
      BY <1>9, <2>3, <2>5, <3>1
    <3>3. i \in DOMAIN new[p] /\ IsOrder(new[p][i])
      BY <1>6, <3>1, <3>2
    <3> QED BY <2>1, <3>1, <3>3
  <2> QED BY <2>4, <2>5
<1>11. ASSUME NEW at \in Resting(new)
       PROVE  \E p \in Prices : \E i \in DOMAIN levels[p] :
                /\ at = <<p, i>> /\ OrderAt(levels, at) = levels[p][i]
                /\ OrderAt(new, at) = slot(p)[i] /\ IsOrder(slot(p)[i])
  <2>1. PICK p, i : p \in Prices /\ i \in DOMAIN new[p] /\ at = <<p, i>> /\ IsOrder(new[p][i])
    BY RestingPlaces
  <2>2. i \in DOMAIN levels[p] /\ new[p][i] = slot(p)[i]
    BY <1>6, <2>1
  <2> QED BY <2>1, <2>2 DEF OrderAt
<1>12. ASSUME NEW at \in Resting(new), \A k \in DOMAIN fs : fs[k].at # at
       PROVE  OrderAt(new, at) = OrderAt(levels, at)
  <2>1. PICK p, i :
            /\ p \in Prices /\ i \in DOMAIN levels[p]
            /\ at = <<p, i>> /\ OrderAt(levels, at) = levels[p][i]
            /\ OrderAt(new, at) = slot(p)[i]
    BY <1>11
  <2>2. slot(p)[i] = levels[p][i]
    BY <1>12, <2>1 DEF slot
  <2> QED BY <2>1, <2>2
<1>13. ASSUME NEW k \in DOMAIN fs, fs[k].at \in Resting(new)
       PROVE  OrderAt(new, fs[k].at) = [OrderAt(levels, fs[k].at) EXCEPT !.qty = @ - fs[k].qty]
  <2>1. PICK p, i :
            /\ p \in Prices /\ i \in DOMAIN levels[p]
            /\ fs[k].at = <<p, i>> /\ OrderAt(levels, fs[k].at) = levels[p][i]
            /\ OrderAt(new, fs[k].at) = slot(p)[i] /\ IsOrder(slot(p)[i])
    BY <1>11, <1>13
  <2>2. slot(p)[i] = FilledSlot(levels[p][i], fs[k].qty)
    BY <1>8, <2>1
  <2>3. ~ (fs[k].qty >= levels[p][i].qty)
    BY <2>1, <2>2 DEF FilledSlot, IsOrder
  <2> QED BY <2>1, <2>2, <2>3 DEF FilledSlot
<1> QED BY <1>7, <1>10, <1>12, <1>13 DEF FillsApplied, new

(* What a match has filled can be taken from the book.                     *)
LEMMA MatchFits ==
  ASSUME NEW levels, NEW Os, NEW side, NEW limit, NEW qty, NEW m,
         MatchOK(levels, Os, side, limit, qty, m)
  PROVE  FillsFit(levels, m.fills)
BY DEF MatchOK, FillOK, FillsFit, Crossing

(* The slots of a level after fills h, before the level is freed.          *)
FilledLevel(levels, h, p) ==
  [i \in DOMAIN levels[p] |->
     IF \E k \in DOMAIN h : h[k].at = <<p, i>>
     THEN FilledSlot(levels[p][i], h[CHOOSE k \in DOMAIN h : h[k].at = <<p, i>>].qty)
     ELSE levels[p][i]]

(* A fill more is a write to one slot more.                                *)
LEMMA AfterOneMore ==
  ASSUME NEW levels, NEW Os, LevelsOK(levels, Os),
         NEW fs \in Seq(Fills(Os)), FillsFit(levels, fs),
         NEW f \in Fills(Os), f.at \in Resting(levels), f.price = f.at[1],
         \A k \in DOMAIN fs : fs[k].at # f.at
  PROVE  LET p == f.at[1]
             s == f.at[2]
             old == AfterFills(levels, fs)
         IN  AfterFills(levels, Append(fs, f))
               = [old EXCEPT ![p] = FreeIfEmpty([old[p] EXCEPT ![s] =
                                                   FilledSlot(levels[p][s], f.qty)])]
<1> DEFINE p == f.at[1]
           s == f.at[2]
           gs == Append(fs, f)
           n == Len(fs)
           old == AfterFills(levels, fs)
           new == AfterFills(levels, gs)
           x == FilledSlot(levels[p][s], f.qty)
           slot(h, q) == FilledLevel(levels, h, q)
           hit(h, q, i) == \E k \in DOMAIN h : h[k].at = <<q, i>>
           the(h, q, i) == CHOOSE k \in DOMAIN h : h[k].at = <<q, i>>
<1>1. /\ p \in Prices /\ s \in 1 .. Len(levels[p]) /\ f.at = <<p, s>>
      /\ levels[p][s] \in Os /\ levels[p] \in Seq(Os \cup {NoOrder})
  BY RestingOrders DEF OrderAt, LevelsOK
<1>2. /\ s \in DOMAIN levels[p] /\ IsOrder(levels[p][s])
  BY <1>1 DEF IsOrder, LevelsOK
<1>3. /\ n \in Nat /\ DOMAIN fs = 1 .. n /\ DOMAIN gs = 1 .. n + 1
      /\ (\A k \in 1 .. n : gs[k] = fs[k]) /\ gs[n + 1] = f
  BY AppendFacts
<1>4. \A h : /\ DOMAIN AfterFills(levels, h) = Prices
             /\ AfterFills(levels, h) = [q \in Prices |-> AfterFills(levels, h)[q]]
             /\ \A q \in Prices :
                  AfterFills(levels, h)[q] = IF \E k \in DOMAIN h : h[k].price = q
                                             THEN FreeIfEmpty(slot(h, q)) ELSE levels[q]
  BY Zenon DEF AfterFills, FilledLevel
<1>5. \A j, k \in DOMAIN fs : fs[j].at = fs[k].at => j = k
  BY DEF FillsFit
<1>6. \A k \in DOMAIN fs : fs[k].price = fs[k].at[1]
  BY DEF FillsFit
<1> HIDE DEF gs, n, x
<1>7. \A q, i : <<q, i>> # f.at => (hit(gs, q, i) <=> hit(fs, q, i))
  <2> SUFFICES ASSUME NEW q, NEW i, <<q, i>> # f.at PROVE hit(gs, q, i) <=> hit(fs, q, i)
    OBVIOUS
  <2>1. ASSUME NEW k \in DOMAIN gs, gs[k].at = <<q, i>> PROVE hit(fs, q, i)
    <3>1. k \in 1 .. n
      BY <1>3, <2>1
    <3> QED BY <1>3, <2>1, <3>1
  <2>2. ASSUME NEW k \in DOMAIN fs, fs[k].at = <<q, i>> PROVE hit(gs, q, i)
    <3>1. k \in 1 .. n + 1 /\ gs[k] = fs[k]
      BY <1>3
    <3> QED BY <1>3, <2>2, <3>1
  <2> QED BY <2>1, <2>2
<1>8. ASSUME NEW q, NEW i, <<q, i>> # f.at, hit(fs, q, i)
      PROVE  gs[the(gs, q, i)] = fs[the(fs, q, i)]
  <2>1. the(fs, q, i) \in DOMAIN fs /\ fs[the(fs, q, i)].at = <<q, i>>
    BY <1>8
  <2>2. hit(gs, q, i)
    BY <1>7, <1>8
  <2>3. the(gs, q, i) \in DOMAIN gs /\ gs[the(gs, q, i)].at = <<q, i>>
    BY <2>2
  <2> HIDE DEF the
  <2>4. the(gs, q, i) \in 1 .. n
    BY <1>3, <1>8, <2>3
  <2>5. fs[the(gs, q, i)].at = <<q, i>>
    BY <1>3, <2>3, <2>4
  <2>6. the(gs, q, i) = the(fs, q, i)
    BY <1>3, <1>5, <2>1, <2>4, <2>5
  <2> QED BY <1>3, <2>4, <2>6
<1>9. ASSUME NEW q \in Prices, NEW i \in DOMAIN levels[q]
      PROVE  slot(gs, q)[i] = IF <<q, i>> = f.at THEN x ELSE slot(fs, q)[i]
  <2>1. slot(gs, q)[i] = IF hit(gs, q, i) THEN FilledSlot(levels[q][i], gs[the(gs, q, i)].qty)
                         ELSE levels[q][i]
    BY Zenon DEF FilledLevel
  <2>2. slot(fs, q)[i] = IF hit(fs, q, i) THEN FilledSlot(levels[q][i], fs[the(fs, q, i)].qty)
                         ELSE levels[q][i]
    BY Zenon DEF FilledLevel
  <2>3. CASE <<q, i>> = f.at
    <3>1. q = p /\ i = s
      BY <1>1, <2>3
    <3>2. hit(gs, q, i)
      <4>1. n + 1 \in DOMAIN gs /\ gs[n + 1].at = <<q, i>>
        BY <1>3, <2>3
      <4> QED BY <4>1
    <3>3. the(gs, q, i) \in DOMAIN gs /\ gs[the(gs, q, i)].at = f.at
      BY <2>3, <3>2
    <3>4. gs[the(gs, q, i)] = f
      <4> HIDE DEF the
      <4>1. the(gs, q, i) \notin 1 .. n
        BY <1>3, <3>3
      <4>2. the(gs, q, i) = n + 1
        BY <1>3, <3>3, <4>1
      <4> QED BY <1>3, <4>2
    <3> QED BY <2>1, <2>3, <3>1, <3>2, <3>4 DEF x
  <2>4. CASE <<q, i>> # f.at
    <3> HIDE DEF slot
    <3>1. hit(gs, q, i) <=> hit(fs, q, i)
      BY <1>7, <2>4
    <3>2. hit(fs, q, i) => gs[the(gs, q, i)] = fs[the(fs, q, i)]
      BY <1>8, <2>4
    <3> HIDE DEF hit, the
    <3> QED BY <2>1, <2>2, <2>4, <3>1, <3>2
  <2> QED BY <2>3, <2>4
<1>10. \A h, q : DOMAIN slot(h, q) = DOMAIN levels[q] /\ slot(h, q) = [i \in DOMAIN levels[q] |-> slot(h, q)[i]]
  BY DEF FilledLevel
<1>11. ASSUME NEW q \in Prices, q # p PROVE new[q] = old[q]
  <2>1. (\E k \in DOMAIN gs : gs[k].price = q) <=> (\E k \in DOMAIN fs : fs[k].price = q)
    <3>1. ASSUME NEW k \in DOMAIN gs, gs[k].price = q PROVE \E j \in DOMAIN fs : fs[j].price = q
      <4>1. k \in 1 .. n
        BY <1>3, <1>11, <3>1
      <4> QED BY <1>3, <3>1, <4>1
    <3>2. ASSUME NEW k \in DOMAIN fs, fs[k].price = q PROVE \E j \in DOMAIN gs : gs[j].price = q
      <4>1. k \in 1 .. n + 1 /\ gs[k] = fs[k]
        BY <1>3
      <4> QED BY <1>3, <3>2, <4>1
    <3> QED BY <3>1, <3>2
  <2>2. slot(gs, q) = slot(fs, q)
    <3>1. \A i \in DOMAIN levels[q] : slot(gs, q)[i] = slot(fs, q)[i]
      BY <1>1, <1>9, <1>11
    <3> HIDE DEF slot
    <3> QED BY <1>10, <3>1
  <2> HIDE DEF slot
  <2>3. /\ new[q] = IF \E k \in DOMAIN gs : gs[k].price = q THEN FreeIfEmpty(slot(gs, q)) ELSE levels[q]
        /\ old[q] = IF \E k \in DOMAIN fs : fs[k].price = q THEN FreeIfEmpty(slot(fs, q)) ELSE levels[q]
    BY <1>4
  <2> QED BY <2>1, <2>2, <2>3
<1>12. old[p] = slot(fs, p)
  <2>1. ~ hit(fs, p, s)
    BY <1>1
  <2>2. slot(fs, p)[s] = levels[p][s]
    BY <1>2, <2>1 DEF FilledLevel
  <2>3. FreeIfEmpty(slot(fs, p)) = slot(fs, p)
    <3> HIDE DEF slot
    <3>1. s \in DOMAIN slot(fs, p) /\ IsOrder(slot(fs, p)[s])
      BY <1>2, <1>10, <2>2
    <3> QED BY <3>1 DEF FreeIfEmpty
  <2>4. CASE \E k \in DOMAIN fs : fs[k].price = p
    BY <1>1, <1>4, <2>3, <2>4
  <2>5. CASE ~ \E k \in DOMAIN fs : fs[k].price = p
    <3>1. \A i : ~ hit(fs, p, i)
      BY <1>6, <2>5
    <3>2. \A i \in DOMAIN levels[p] : slot(fs, p)[i] = levels[p][i]
      BY <3>1 DEF FilledLevel
    <3>3. levels[p] = [i \in DOMAIN levels[p] |-> levels[p][i]]
      BY <1>1
    <3>4. slot(fs, p) = levels[p]
      <4> HIDE DEF slot
      <4> QED BY <1>10, <3>2, <3>3
    <3> QED BY <1>1, <1>4, <2>5, <3>4
  <2> QED BY <2>4, <2>5
<1>13. slot(gs, p) = [slot(fs, p) EXCEPT ![s] = x]
  <2>1. \A i \in DOMAIN levels[p] : slot(gs, p)[i] = IF i = s THEN x ELSE slot(fs, p)[i]
    BY <1>1, <1>9
  <2> HIDE DEF slot
  <2> QED BY <1>10, <2>1
<1>14. new[p] = FreeIfEmpty([old[p] EXCEPT ![s] = x])
  <2>1. n + 1 \in DOMAIN gs /\ gs[n + 1].price = p
    BY <1>3
  <2>2. new[p] = FreeIfEmpty(slot(gs, p))
    BY <1>1, <1>4, <2>1
  <2> HIDE DEF slot
  <2> QED BY <1>12, <1>13, <2>2
<1>15. /\ new = [q \in Prices |-> new[q]] /\ old = [q \in Prices |-> old[q]]
  BY <1>4
<1> HIDE DEF new, old
<1>16. new = [old EXCEPT ![p] = FreeIfEmpty([old[p] EXCEPT ![s] = x])]
  BY <1>1, <1>11, <1>14, <1>15
<1> QED BY <1>16 DEF new, old, gs, x

(* While a match goes on, the orders it has still to serve are on the book *)
(* as they were, and no other order on the book crosses.                   *)
LEMMA CrossingLeft ==
  ASSUME NEW levels, NEW Os, LevelsOK(levels, Os), Reducible(Os),
         NEW side, NEW limit, NEW qty, NEW maxFills, NEW m,
         MatchOK(levels, Os, side, limit, qty, m),
         InScanOrder(levels, side, limit, m), GoesOn(m, maxFills)
  PROVE  LET new == AfterFills(levels, m.fills)
             scan == ScanOrder(levels, side, limit)
             left == Len(m.fills) + 1 .. Cardinality(Crossing(levels, side, limit))
         IN  /\ LevelsOK(new, Os)
             /\ Resting(new) \subseteq Resting(levels)
             /\ \A at \in Resting(new) : OrderAt(new, at) = OrderAt(levels, at)
             /\ \A j \in left : scan[j] \in Resting(new)
             /\ \A at \in Resting(new) :
                  Crosses(side, limit, at[1], OrderAt(new, at)) => \E j \in left : at = scan[j]
<1> DEFINE new == AfterFills(levels, m.fills)
           scan == ScanOrder(levels, side, limit)
           C == Crossing(levels, side, limit)
           n == Cardinality(C)
           k == Len(m.fills)
<1>1. LevelsOK(new, Os) /\ FillsApplied(levels, m.fills, new)
  BY MatchFits, AfterFillsApplied
<1>2. /\ m.fills \in Seq(Fills(Os)) /\ k \in Nat /\ DOMAIN m.fills = 1 .. k
  BY DEF MatchOK, Matches
<1>3. /\ n \in Nat /\ C \in SUBSET Resting(levels) /\ scan \in [1 .. n -> C]
      /\ \A a \in C : \E j \in 1 .. n : scan[j] = a
      /\ \A i, j \in 1 .. n : scan[i] = scan[j] => i = j
  <2>1. /\ scan \in [1 .. n -> C]
        /\ \A a \in C : \E j \in 1 .. n : scan[j] = a
        /\ \A i, j \in 1 .. n : scan[i] = scan[j] => i = j
    BY ScanLists DEF Lists
  <2> QED BY <2>1, CrossingFinite
<1>4. /\ k <= n
      /\ \A i \in 1 .. k : m.fills[i].at = scan[i] /\ m.fills[i].qty = OrderAt(levels, scan[i]).qty
  <2>1. m.remaining > 0
    BY BookAssumption DEF GoesOn, MatchOK, Matches
  <2> QED BY <1>2, <2>1 DEF InScanOrder
<1> HIDE DEF new, scan, n, k
<1>5. /\ \A at : at \in Resting(new) <=>
           /\ at \in Resting(levels)
           /\ \A i \in 1 .. k : m.fills[i].at = at => m.fills[i].qty < OrderAt(levels, at).qty
      /\ \A at \in Resting(new) :
           (\A i \in 1 .. k : m.fills[i].at # at) => OrderAt(new, at) = OrderAt(levels, at)
  BY <1>1, <1>2 DEF FillsApplied
<1>6. ASSUME NEW at \in Resting(new), NEW i \in 1 .. k, scan[i] = at
      PROVE  FALSE
  <2>1. OrderAt(levels, at).qty < OrderAt(levels, at).qty /\ at \in Resting(levels)
    BY <1>4, <1>5, <1>6
  <2>2. OrderAt(levels, at).qty \in Nat
    BY <2>1, RestingOrders
  <2> QED BY <2>1, <2>2
<1>7. \A at \in Resting(new) : at \in Resting(levels) /\ OrderAt(new, at) = OrderAt(levels, at)
  BY <1>4, <1>5, <1>6
<1>8. ASSUME NEW j \in k + 1 .. n
      PROVE  scan[j] \in Resting(new)
  <2>1. j \in 1 .. n /\ \A i \in 1 .. k : i \in 1 .. n /\ i # j
    BY <1>2, <1>3, <1>4
  <2>2. \A i \in 1 .. k : m.fills[i].at # scan[j]
    BY <1>3, <1>4, <2>1
  <2> QED BY <1>3, <1>5, <2>1, <2>2
<1>9. ASSUME NEW at \in Resting(new), Crosses(side, limit, at[1], OrderAt(new, at))
      PROVE  \E j \in k + 1 .. n : at = scan[j]
  <2>1. at \in C
    BY <1>7, <1>9 DEF Crossing
  <2>2. PICK j \in 1 .. n : scan[j] = at
    BY <1>3, <2>1
  <2>3. j \notin 1 .. k
    BY <1>6, <2>2
  <2>4. j \in k + 1 .. n
    BY <1>2, <1>3, <2>3
  <2> QED BY <2>2, <2>4
<1> QED BY <1>1, <1>7, <1>8, <1>9 DEF new, scan, n, k, C

(* Taking orders off the book, and putting one on it, leaves the others    *)
(* where and as they were.                                                 *)
Removed(levels, places, new) ==
  /\ Resting(new) = Resting(levels) \ places
  /\ \A at \in Resting(new) : OrderAt(new, at) = OrderAt(levels, at)

Added(levels, x, order, new) ==
  /\ x \notin Resting(levels) /\ Resting(new) = Resting(levels) \cup {x}
  /\ OrderAt(new, x) = order
  /\ \A at \in Resting(levels) : OrderAt(new, at) = OrderAt(levels, at)

(* Each level either is as it was or lost the slots of `places`.           *)
LEMMA LevelwiseRemoved ==
  ASSUME NEW levels, NEW Os, LevelsOK(levels, Os), NEW places, NEW new,
         DOMAIN new = Prices, new = [p \in Prices |-> new[p]],
         \A p \in Prices :
           \/ new[p] = FreeIfEmpty([i \in DOMAIN levels[p] |->
                         IF <<p, i>> \in places THEN NoOrder ELSE levels[p][i]])
           \/ new[p] = levels[p] /\ \A i : <<p, i>> \notin places
  PROVE  LevelsOK(new, Os) /\ Removed(levels, places, new)
<1> DEFINE T == Os \cup {NoOrder}
           slot(p) == [i \in DOMAIN levels[p] |->
                         IF <<p, i>> \in places THEN NoOrder ELSE levels[p][i]]
<1>1. \A p \in Prices : levels[p] \in Seq(T)
  BY DEF LevelsOK
<1>2. ASSUME NEW p \in Prices
      PROVE  /\ new[p] \in Seq(T)
             /\ \A i : i \in DOMAIN new[p] /\ IsOrder(new[p][i])
                         <=> i \in DOMAIN levels[p] /\ IsOrder(levels[p][i]) /\ <<p, i>> \notin places
             /\ \A i \in DOMAIN new[p] : IsOrder(new[p][i]) => new[p][i] = levels[p][i]
  <2>1. CASE new[p] = levels[p] /\ \A i : <<p, i>> \notin places
    BY <1>1, <2>1
  <2>2. CASE new[p] = FreeIfEmpty(slot(p))
    <3> DEFINE s == slot(p)
    <3>1. /\ DOMAIN s = DOMAIN levels[p]
          /\ \A i \in DOMAIN s : s[i] = IF <<p, i>> \in places THEN NoOrder ELSE levels[p][i]
      OBVIOUS
    <3>2. s = [i \in DOMAIN levels[p] |-> s[i]]
      OBVIOUS
    <3> HIDE DEF s
    <3>3. \A i \in DOMAIN levels[p] : s[i] \in T
      <4>1. \A i \in DOMAIN levels[p] : levels[p][i] \in T
        BY <1>1
      <4> QED BY <3>1, <4>1
    <3>4. s \in Seq(T)
      <4>1. levels[p] \in Seq(T)
        BY <1>1
      <4> HIDE DEF T
      <4>2. [i \in DOMAIN levels[p] |-> s[i]] \in Seq(T)
        BY <3>3, <4>1, NewLevel
      <4> QED BY <3>2, <4>2
    <3>5. /\ FreeIfEmpty(s) \in Seq(T)
          /\ \A i : /\ i \in DOMAIN FreeIfEmpty(s) /\ IsOrder(FreeIfEmpty(s)[i])
                         <=> i \in DOMAIN s /\ IsOrder(s[i])
                    /\ i \in DOMAIN FreeIfEmpty(s) => FreeIfEmpty(s)[i] = s[i]
      <4> HIDE DEF T
      <4> QED BY <3>4, FreeingKeepsOrders
    <3>6. new[p] = FreeIfEmpty(s)
      BY <2>2 DEF s
    <3>7. \A i \in DOMAIN s : IsOrder(s[i]) <=> <<p, i>> \notin places /\ IsOrder(levels[p][i])
      BY <3>1 DEF IsOrder
    <3>8. \A i \in DOMAIN s : IsOrder(s[i]) => s[i] = levels[p][i]
      BY <3>1 DEF IsOrder
    <3> QED BY <3>1, <3>5, <3>6, <3>7, <3>8
  <2> QED BY <2>1, <2>2
<1>3. LevelsOK(new, Os)
  BY <1>2 DEF LevelsOK
<1>4. ASSUME NEW at
      PROVE  at \in Resting(new) <=> at \in Resting(levels) /\ at \notin places
  <2>1. at \in Resting(new) <=> \E p \in Prices : \E i \in DOMAIN new[p] :
             at = <<p, i>> /\ IsOrder(new[p][i])
    BY RestingPlaces
  <2>2. at \in Resting(levels) <=> \E p \in Prices : \E i \in DOMAIN levels[p] :
             at = <<p, i>> /\ IsOrder(levels[p][i])
    BY RestingPlaces
  <2> QED BY <1>2, <2>1, <2>2
<1>5. Resting(new) = Resting(levels) \ places
  BY <1>4
<1>6. ASSUME NEW at \in Resting(new)
      PROVE  OrderAt(new, at) = OrderAt(levels, at)
  <2>1. PICK p \in Prices : \E i \in DOMAIN new[p] : at = <<p, i>> /\ IsOrder(new[p][i])
    BY RestingPlaces
  <2>2. PICK i \in DOMAIN new[p] : at = <<p, i>> /\ IsOrder(new[p][i])
    BY <2>1
  <2>3. new[p][i] = levels[p][i]
    BY <1>2, <2>2
  <2> QED BY <2>2, <2>3 DEF OrderAt
<1> QED BY <1>3, <1>5, <1>6 DEF Removed

(* A cancelled order goes, and nothing else.                               *)
LEMMA RemoveOrderRemoves ==
  ASSUME NEW levels, NEW Os, LevelsOK(levels, Os), NEW at \in Resting(levels)
  PROVE  /\ LevelsOK(RemoveOrder(levels, at), Os)
         /\ Removed(levels, {at}, RemoveOrder(levels, at))
<1> DEFINE new == RemoveOrder(levels, at)
<1>1. /\ at[1] \in Prices /\ at[2] \in 1 .. Len(levels[at[1]]) /\ at = <<at[1], at[2]>>
  BY RestingOrders
<1>2. /\ DOMAIN levels = Prices /\ levels = [p \in Prices |-> levels[p]]
      /\ levels[at[1]] \in Seq(Os \cup {NoOrder})
  BY <1>1 DEF LevelsOK
<1>3. new = [p \in Prices |-> IF p = at[1]
                              THEN FreeIfEmpty([levels[p] EXCEPT ![at[2]] = NoOrder])
                              ELSE levels[p]]
  BY <1>1, <1>2 DEF RemoveOrder
<1>4. [levels[at[1]] EXCEPT ![at[2]] = NoOrder]
        = [i \in DOMAIN levels[at[1]] |->
             IF <<at[1], i>> \in {at} THEN NoOrder ELSE levels[at[1]][i]]
  BY <1>1, <1>2
<1>5. DOMAIN new = Prices /\ new = [p \in Prices |-> new[p]]
  BY <1>3
<1>6. \A p \in Prices :
        \/ new[p] = FreeIfEmpty([i \in DOMAIN levels[p] |->
                      IF <<p, i>> \in {at} THEN NoOrder ELSE levels[p][i]])
        \/ new[p] = levels[p] /\ \A i : <<p, i>> \notin {at}
  <2> SUFFICES ASSUME NEW p \in Prices
               PROVE  \/ new[p] = FreeIfEmpty([i \in DOMAIN levels[p] |->
                                    IF <<p, i>> \in {at} THEN NoOrder ELSE levels[p][i]])
                      \/ new[p] = levels[p] /\ \A i : <<p, i>> \notin {at}
    OBVIOUS
  <2>1. CASE p = at[1]
    <3>1. new[p] = FreeIfEmpty([levels[at[1]] EXCEPT ![at[2]] = NoOrder])
      BY <1>3, <2>1
    <3> QED BY <1>4, <2>1, <3>1
  <2>2. CASE p # at[1]
    <3>1. new[p] = levels[p]
      BY <1>3, <2>2
    <3>2. \A i : <<p, i>> # at
      BY <1>1, <2>2
    <3> QED BY <3>1, <3>2
  <2> QED BY <2>1, <2>2
<1> HIDE DEF new
<1>7. LevelsOK(new, Os) /\ Removed(levels, {at}, new)
  BY <1>5, <1>6, LevelwiseRemoved
<1> QED BY <1>7 DEF new

CrankRelation(S) ==
  {z \in S \X S : z[1][1] < z[2][1] \/ (z[1][1] = z[2][1] /\ z[1][2] < z[2][2])}

(* The crank meets every order once, from the lowest price up.             *)
LEMMA CrankLists ==
  ASSUME NEW levels, NEW Os, LevelsOK(levels, Os)
  PROVE  Lists(CrankOrder(levels), Resting(levels), CrankRelation(Resting(levels)))
<1> DEFINE S == Resting(levels)
           R == CrankRelation(S)
           B(a, b) == a[1] < b[1] \/ (a[1] = b[1] /\ a[2] < b[2])
<1>1. IsFiniteSet(S)
  BY RestingFinite
<1>2. ASSUME NEW a \in S
      PROVE  a = <<a[1], a[2]>> /\ a[1] \in Int /\ a[2] \in Int
  <2>1. a[1] \in Prices /\ a[2] \in 1 .. Len(levels[a[1]]) /\ a = <<a[1], a[2]>>
    BY RestingOrders
  <2>2. levels[a[1]] \in Seq(Os \cup {NoOrder})
    BY <2>1 DEF LevelsOK
  <2>3. Len(levels[a[1]]) \in Nat
    BY <2>2
  <2> QED BY <2>1, <2>3, DollarAssumption DEF Prices
<1> HIDE DEF S
<1>3. \A a, b \in S : <<a, b>> \in R <=> B(a, b)
  BY DEF CrankRelation
<1>4. \A a \in S : ~ B(a, a)
  BY <1>2
<1>5. \A a, b, c \in S : B(a, b) /\ B(b, c) => B(a, c)
  BY <1>2
<1>6. \A a, b \in S : a # b => B(a, b) \/ B(b, a)
  <2> SUFFICES ASSUME NEW a \in S, NEW b \in S, a # b
               PROVE  B(a, b) \/ B(b, a)
    OBVIOUS
  <2>1. /\ a[1] \in Int /\ a[2] \in Int /\ b[1] \in Int /\ b[2] \in Int
        /\ a[1] # b[1] \/ a[2] # b[2]
    BY <1>2
  <2> QED BY <2>1
<1> HIDE DEF B
<1>7. StrictOrder(S, R)
  BY <1>3, <1>4, <1>5, <1>6 DEF StrictOrder
<1>8. CrankOrder(levels)
        = [k \in 1 .. Cardinality(S) |->
             CHOOSE a \in S : Cardinality({b \in S : B(b, a)}) = k - 1]
  BY Zenon DEF CrankOrder, InOrder, S, B
<1>9. \A a \in S : Before(S, R, a) = {b \in S : B(b, a)}
  BY <1>3 DEF Before
<1> HIDE DEF R
<1>10. \A k : (CHOOSE a \in S : Cardinality({b \in S : B(b, a)}) = k - 1)
              = (CHOOSE a \in S : Cardinality(Before(S, R, a)) = k - 1)
  BY <1>9
<1>11. CrankOrder(levels)
         = [k \in 1 .. Cardinality(S) |->
              CHOOSE a \in S : Cardinality(Before(S, R, a)) = k - 1]
  BY <1>8, <1>10
<1> QED BY <1>1, <1>7, <1>11, Ranking DEF S, R

(* What a crank removes are its batch: orders of the book, all of them if  *)
(* the batch is smaller than asked for.                                    *)
LEMMA AfterCrankRemoves ==
  ASSUME NEW levels, NEW Os, LevelsOK(levels, Os), NEW n \in Nat,
         CrankBatch(levels, n) # <<>>
  PROVE  LET batch == CrankBatch(levels, n)
             new == AfterCrank(levels, batch, n)
         IN  /\ ToSet(batch) \in SUBSET Resting(levels)
             /\ LevelsOK(new, Os)
             /\ Removed(levels, ToSet(batch), new)
<1> DEFINE all == CrankOrder(levels)
           S == Resting(levels)
           N == Cardinality(S)
           l == IF n < N THEN n ELSE N
           batch == CrankBatch(levels, n)
           new == AfterCrank(levels, batch, n)
<1>1. /\ all \in [1 .. N -> S]
      /\ \A j, k \in 1 .. N : all[j] = all[k] => j = k
      /\ \A a \in S : \E k \in 1 .. N : all[k] = a
      /\ \A j, k \in 1 .. N : j < k => <<all[j], all[k]>> \in CrankRelation(S)
  BY CrankLists DEF Lists
<1>2. N \in Nat
  BY RestingFinite, FS_CardinalityType
<1>3. ASSUME NEW a \in S
      PROVE  a = <<a[1], a[2]>> /\ a[1] \in Prices /\ a[1] \in Int
  BY RestingOrders, DollarAssumption DEF Prices
<1> HIDE DEF all, S, N
<1>4. all \in Seq(S) /\ Len(all) = N
  BY <1>1, <1>2
<1>5. l \in Nat /\ l <= N
  BY <1>2
<1>6. batch = SubSeq(all, 1, l)
  BY <1>4 DEF CrankBatch, all
<1> HIDE DEF l, batch
<1>7. /\ batch \in Seq(S) /\ Len(batch) = l /\ DOMAIN batch = 1 .. l
      /\ \A k \in 1 .. l : batch[k] = all[k]
  BY <1>2, <1>4, <1>5, <1>6
<1>8. l # 0
  <2>1. batch # <<>>
    BY DEF batch
  <2> QED BY <1>7, <2>1
<1>9. ToSet(batch) \in SUBSET S /\ \A x : x \in ToSet(batch) <=> Contains(batch, x)
  BY <1>7 DEF ToSet, Contains
<1>10. batch[l] \in S /\ batch[l][1] \in Int
  BY <1>3, <1>5, <1>7, <1>8
<1>11. ASSUME NEW x \in ToSet(batch)
       PROVE  x \in S /\ x[1] <= batch[l][1]
  <2>1. PICK k \in 1 .. l : x = batch[k]
    BY <1>7 DEF ToSet
  <2>2. k \in 1 .. N /\ l \in 1 .. N /\ x = all[k] /\ batch[l] = all[l] /\ x \in S
    BY <1>2, <1>5, <1>7, <1>8, <1>9, <2>1
  <2>3. CASE k = l
    BY <1>10, <2>1, <2>2, <2>3
  <2>4. CASE k < l
    <3>1. <<all[k], all[l]>> \in CrankRelation(S)
      BY <1>1, <2>2, <2>4
    <3>2. all[k][1] < all[l][1] \/ all[k][1] = all[l][1]
      BY <3>1 DEF CrankRelation
    <3>3. all[k][1] \in Int /\ all[l][1] \in Int
      BY <1>3, <1>10, <2>2
    <3> QED BY <2>2, <3>2, <3>3
  <2> QED BY <1>5, <2>1, <2>3, <2>4
<1>12. new = [p \in Prices |->
                IF Len(batch) < n \/ p <= batch[Len(batch)][1]
                THEN FreeIfEmpty([i \in DOMAIN levels[p] |->
                       IF Contains(batch, <<p, i>>) THEN NoOrder ELSE levels[p][i]])
                ELSE levels[p]]
  BY Zenon DEF AfterCrank
<1>13. DOMAIN new = Prices /\ new = [p \in Prices |-> new[p]]
  BY <1>12
<1>14. ASSUME NEW p \in Prices
       PROVE  \/ new[p] = FreeIfEmpty([i \in DOMAIN levels[p] |->
                            IF <<p, i>> \in ToSet(batch) THEN NoOrder ELSE levels[p][i]])
              \/ new[p] = levels[p] /\ \A i : <<p, i>> \notin ToSet(batch)
  <2>1. CASE Len(batch) < n \/ p <= batch[Len(batch)][1]
    <3>1. new[p] = FreeIfEmpty([i \in DOMAIN levels[p] |->
                       IF Contains(batch, <<p, i>>) THEN NoOrder ELSE levels[p][i]])
      BY <1>12, <2>1
    <3> QED BY <1>9, <3>1
  <2>2. CASE ~ (Len(batch) < n \/ p <= batch[Len(batch)][1])
    <3>1. new[p] = levels[p]
      BY <1>12, <2>2
    <3>2. \A i : <<p, i>> \notin ToSet(batch)
      <4> SUFFICES ASSUME NEW i, <<p, i>> \in ToSet(batch)
                   PROVE  FALSE
        OBVIOUS
      <4>1. p <= batch[l][1]
        BY <1>11
      <4> QED BY <1>7, <2>2, <4>1
    <3> QED BY <3>1, <3>2
  <2> QED BY <2>1, <2>2
<1> HIDE DEF new
<1>15. LevelsOK(new, Os) /\ Removed(levels, ToSet(batch), new)
  BY <1>13, <1>14, LevelwiseRemoved
<1> QED BY <1>9, <1>15 DEF new, batch, S

(* A book account with orders of Os.                                       *)
BookOK(book, Os) ==
  /\ book \in [levels : [Prices -> Seq(Os \cup {NoOrder})], nextId : Nat, allocated : Nat]
  /\ LevelsOK(book.levels, Os)

(* A level has a first free slot when it has any.                          *)
LEMMA FirstFreeIsFree ==
  ASSUME NEW T, NEW level \in Seq(T), FreeSlots(level) # {}
  PROVE  FirstFree(level) \in FreeSlots(level)
<1>1. Len(level) \in Nat /\ FreeSlots(level) \in SUBSET (1 .. Len(level))
  BY DEF FreeSlots
<1>2. \E i \in FreeSlots(level) : \A j \in FreeSlots(level) : i <= j
  BY <1>1, SmallestMember
<1> QED BY <1>2 DEF FirstFree

(* Making room at a price moves no order and leaves a free slot there.     *)
LEMMA RoomIsMade ==
  ASSUME NEW book, NEW Os, BookOK(book, Os), NEW p \in Prices
  PROVE  LET b == WithFreeSlot(book, p)
         IN  /\ BookOK(b, Os) /\ b.nextId = book.nextId
             /\ b.allocated = IF NeedsNewLevel(book, p) THEN book.allocated + 1
                                                        ELSE book.allocated
             /\ Removed(book.levels, {}, b.levels)
             /\ FirstFree(b.levels[p]) \in DOMAIN b.levels[p]
             /\ ~ IsOrder(b.levels[p][FirstFree(b.levels[p])])
<1> DEFINE T == Os \cup {NoOrder}
           b == WithFreeSlot(book, p)
           old == book.levels
           lvl == old[p]
           wide == IF FreeSlots(lvl) # {} THEN lvl ELSE Append(lvl, NoOrder)
           count == IF NeedsNewLevel(book, p) THEN book.allocated + 1 ELSE book.allocated
<1>1. /\ book = [levels |-> old, nextId |-> book.nextId, allocated |-> book.allocated]
      /\ book.nextId \in Nat /\ book.allocated \in Nat
      /\ old \in [Prices -> Seq(T)] /\ LevelsOK(old, Os)
  BY DEF BookOK
<1>2. b = [levels |-> [old EXCEPT ![p] = wide], nextId |-> book.nextId, allocated |-> count]
  <2>1. b = [book EXCEPT !.levels[p] = wide, !.allocated = count]
    BY Zenon DEF WithFreeSlot
  <2> HIDE DEF wide, count, b
  <2> QED BY <1>1, <2>1
<1>3. lvl \in Seq(T) /\ NoOrder \in T
  BY <1>1
<1> HIDE DEF T
<1>4. /\ wide \in Seq(T)
      /\ FreeSlots(wide) # {}
      /\ \A i : i \in DOMAIN wide /\ IsOrder(wide[i]) <=> i \in DOMAIN lvl /\ IsOrder(lvl[i])
      /\ \A i \in DOMAIN wide : IsOrder(wide[i]) => wide[i] = lvl[i]
  <2> HIDE DEF lvl
  <2>1. CASE FreeSlots(lvl) # {}
    BY <1>3, <2>1
  <2>2. CASE FreeSlots(lvl) = {}
    <3>1. wide = Append(lvl, NoOrder)
      BY <2>2
    <3>2. /\ Append(lvl, NoOrder) \in Seq(T) /\ Len(lvl) \in Nat
          /\ DOMAIN lvl = 1 .. Len(lvl) /\ DOMAIN Append(lvl, NoOrder) = 1 .. Len(lvl) + 1
          /\ \A k \in 1 .. Len(lvl) : Append(lvl, NoOrder)[k] = lvl[k]
          /\ Append(lvl, NoOrder)[Len(lvl) + 1] = NoOrder
      BY <1>3, AppendFacts
    <3> HIDE DEF wide
    <3>3. Len(lvl) + 1 \in FreeSlots(wide)
      BY <3>1, <3>2 DEF FreeSlots, IsOrder
    <3>4. \A i \in DOMAIN wide : i \in DOMAIN lvl \/ (i = Len(lvl) + 1 /\ wide[i] = NoOrder)
      BY <3>1, <3>2
    <3>5. \A i \in DOMAIN lvl : i \in DOMAIN wide /\ wide[i] = lvl[i]
      BY <3>1, <3>2
    <3> QED BY <3>1, <3>2, <3>3, <3>4, <3>5 DEF IsOrder
  <2> QED BY <2>1, <2>2
<1>5. FirstFree(wide) \in FreeSlots(wide)
  <2> HIDE DEF wide
  <2> QED BY <1>4, FirstFreeIsFree
<1> HIDE DEF wide, count, b
<1>6. /\ b.levels = [q \in Prices |-> IF q = p THEN wide ELSE old[q]]
      /\ b.nextId = book.nextId /\ b.allocated = count /\ count \in Nat
  <2>1. count \in Nat
    BY <1>1 DEF count
  <2> QED BY <1>1, <1>2, <2>1
<1>7. /\ b.levels[p] = wide /\ DOMAIN b.levels = Prices
      /\ \A q \in Prices : q # p => b.levels[q] = old[q]
  BY <1>6
<1>8. b.levels \in [Prices -> Seq(T)]
  BY <1>1, <1>4, <1>6 DEF T
<1>9. BookOK(b, Os)
  <2>1. b = [levels |-> b.levels, nextId |-> b.nextId, allocated |-> b.allocated]
    BY <1>2
  <2>2. LevelsOK(b.levels, Os)
    BY <1>1, <1>8 DEF LevelsOK, T
  <2>3. b.nextId \in Nat /\ b.allocated \in Nat
    BY <1>1, <1>6
  <2> QED BY <1>8, <2>1, <2>2, <2>3 DEF BookOK, T
<1> DEFINE lv == b.levels
<1>10. ASSUME NEW at
       PROVE  at \in Resting(lv) <=> at \in Resting(old)
  <2>1. at \in Resting(lv) <=> \E q \in Prices : \E i \in DOMAIN lv[q] :
             at = <<q, i>> /\ IsOrder(lv[q][i])
    BY RestingPlaces
  <2>2. at \in Resting(old) <=> \E q \in Prices : \E i \in DOMAIN old[q] :
             at = <<q, i>> /\ IsOrder(old[q][i])
    BY RestingPlaces
  <2>3. \A q \in Prices : \A i :
          i \in DOMAIN lv[q] /\ IsOrder(lv[q][i]) <=> i \in DOMAIN old[q] /\ IsOrder(old[q][i])
    BY <1>4, <1>7
  <2> HIDE DEF lv, old
  <2> QED BY <2>1, <2>2, <2>3
<1>11. ASSUME NEW at \in Resting(lv)
       PROVE  OrderAt(lv, at) = OrderAt(old, at)
  <2>1. PICK q \in Prices : \E i \in DOMAIN lv[q] : at = <<q, i>> /\ IsOrder(lv[q][i])
    BY RestingPlaces
  <2>2. PICK i \in DOMAIN lv[q] : at = <<q, i>> /\ IsOrder(lv[q][i])
    BY <2>1
  <2>3. lv[q][i] = old[q][i]
    BY <1>4, <1>7, <2>2
  <2> QED BY <2>2, <2>3 DEF OrderAt
<1>12. Removed(old, {}, lv)
  <2> HIDE DEF lv, old
  <2> QED BY <1>10, <1>11 DEF Removed
<1>13. FirstFree(lv[p]) \in DOMAIN lv[p] /\ ~ IsOrder(lv[p][FirstFree(lv[p])])
  BY <1>5, <1>7 DEF FreeSlots
<1> QED BY <1>6, <1>9, <1>12, <1>13 DEF b, count

(* Resting an order adds it to the book, or nothing when there is no id    *)
(* left for it.                                                            *)
LEMMA RestOrderAdds ==
  ASSUME NEW book, NEW Os, BookOK(book, Os), NEW p \in Prices,
         NEW owner, NEW side, NEW qty, NEW ts,
         [owner |-> owner, id |-> book.nextId, side |-> side, qty |-> qty, ts |-> ts] \in Os
  PROVE  LET new == RestOrder(book, owner, side, p, qty, ts)
             order == [owner |-> owner, id |-> book.nextId, side |-> side, qty |-> qty,
                       ts |-> ts]
         IN  /\ BookOK(new, Os)
             /\ new.allocated = IF NeedsNewLevel(book, p) THEN book.allocated + 1
                                                          ELSE book.allocated
             /\ new.nextId = IF CanAssignId(book) THEN book.nextId + 1 ELSE book.nextId
             /\ IF CanAssignId(book)
                THEN \E x : x[1] = p /\ Added(book.levels, x, order, new.levels)
                ELSE Removed(book.levels, {}, new.levels)
<1> DEFINE T == Os \cup {NoOrder}
           b == WithFreeSlot(book, p)
           lv == b.levels
           i == FirstFree(lv[p])
           order == [owner |-> owner, id |-> book.nextId, side |-> side, qty |-> qty, ts |-> ts]
           new == RestOrder(book, owner, side, p, qty, ts)
<1>1. /\ BookOK(b, Os) /\ b.nextId = book.nextId
      /\ b.allocated = IF NeedsNewLevel(book, p) THEN book.allocated + 1 ELSE book.allocated
      /\ Removed(book.levels, {}, lv)
      /\ i \in DOMAIN lv[p] /\ ~ IsOrder(lv[p][i])
  BY RoomIsMade
<1>2. CASE ~ CanAssignId(book)
  <2>1. new = b
    BY <1>2 DEF RestOrder
  <2> HIDE DEF b, new
  <2> QED BY <1>1, <1>2, <2>1 DEF new
<1>3. CASE CanAssignId(book)
  <2>1. new = [b EXCEPT !.levels[p][i] = order, !.nextId = @ + 1]
    BY <1>3 DEF RestOrder
  <2>2. order \in Os
    OBVIOUS
  <2> HIDE DEF b, order, new
  <2>3. /\ b = [levels |-> lv, nextId |-> b.nextId, allocated |-> b.allocated]
        /\ b.nextId \in Nat /\ b.allocated \in Nat
        /\ lv \in [Prices -> Seq(T)] /\ LevelsOK(lv, Os)
    BY <1>1 DEF BookOK
  <2> HIDE DEF lv, i
  <2> DEFINE put == [lv[p] EXCEPT ![i] = order]
  <2>4. new = [levels |-> [lv EXCEPT ![p] = put], nextId |-> b.nextId + 1,
               allocated |-> b.allocated]
    BY <2>1, <2>3 DEF lv
  <2>5. /\ put \in Seq(T) /\ DOMAIN put = DOMAIN lv[p] /\ put[i] = order
        /\ \A j \in DOMAIN lv[p] : j # i => put[j] = lv[p][j]
    <3>1. lv[p] \in Seq(T) /\ order \in T
      BY <2>2, <2>3
    <3> HIDE DEF T
    <3> QED BY <1>1, <3>1
  <2> HIDE DEF put
  <2> DEFINE nl == new.levels
  <2>6. /\ nl = [q \in Prices |-> IF q = p THEN put ELSE lv[q]]
        /\ new.nextId = b.nextId + 1 /\ new.allocated = b.allocated
    BY <2>3, <2>4
  <2>7. nl \in [Prices -> Seq(T)] /\ nl[p] = put
        /\ \A q \in Prices : q # p => nl[q] = lv[q]
    BY <2>3, <2>5, <2>6
  <2>8. BookOK(new, Os)
    <3>1. new = [levels |-> nl, nextId |-> new.nextId, allocated |-> new.allocated]
      BY <2>4
    <3>2. LevelsOK(nl, Os)
      BY <2>3, <2>7 DEF LevelsOK
    <3>3. new.nextId \in Nat /\ new.allocated \in Nat
      BY <2>3, <2>6
    <3> QED BY <2>7, <3>1, <3>2, <3>3 DEF BookOK
  <2> HIDE DEF nl
  <2>9. IsOrder(order)
    BY <2>2, <2>3 DEF IsOrder, LevelsOK
  <2> DEFINE x == <<p, i>>
  <2>10. \A q \in Prices : \A j :
           j \in DOMAIN nl[q] /\ IsOrder(nl[q][j])
             <=> (j \in DOMAIN lv[q] /\ IsOrder(lv[q][j])) \/ (q = p /\ j = i)
    BY <1>1, <2>5, <2>7, <2>9
  <2>11. ASSUME NEW at
         PROVE  at \in Resting(nl) <=> at \in Resting(lv) \/ at = x
    <3>1. at \in Resting(nl) <=> \E q \in Prices : \E j \in DOMAIN nl[q] :
               at = <<q, j>> /\ IsOrder(nl[q][j])
      BY RestingPlaces
    <3>2. at \in Resting(lv) <=> \E q \in Prices : \E j \in DOMAIN lv[q] :
               at = <<q, j>> /\ IsOrder(lv[q][j])
      BY RestingPlaces
    <3> QED BY <2>10, <3>1, <3>2
  <2>12. x \notin Resting(lv)
    BY <1>1, RestingPlaces
  <2>13. OrderAt(nl, x) = order /\ x[1] = p
    BY <2>5, <2>7 DEF OrderAt
  <2>14. ASSUME NEW at \in Resting(lv)
         PROVE  OrderAt(nl, at) = OrderAt(lv, at)
    <3>1. PICK q \in Prices : \E j \in DOMAIN lv[q] : at = <<q, j>> /\ IsOrder(lv[q][j])
      BY RestingPlaces
    <3>2. PICK j \in DOMAIN lv[q] : at = <<q, j>> /\ IsOrder(lv[q][j])
      BY <3>1
    <3>3. nl[q][j] = lv[q][j]
      BY <1>1, <2>5, <2>7, <3>2
    <3> QED BY <3>2, <3>3 DEF OrderAt
  <2> HIDE DEF x
  <2>15. Resting(lv) = Resting(book.levels)
         /\ \A at \in Resting(lv) : OrderAt(lv, at) = OrderAt(book.levels, at)
    BY <1>1 DEF Removed
  <2>16. Added(book.levels, x, order, nl)
    BY <2>11, <2>12, <2>13, <2>14, <2>15 DEF Added
  <2>17. \E y : y[1] = p /\ Added(book.levels, y, order, nl)
    BY <2>13, <2>16
  <2> QED BY <1>1, <1>3, <2>6, <2>8, <2>17 DEF nl, new, order
<1> QED BY <1>2, <1>3

-----------------------------------------------------------------------------
(* The rounding of the prices: the facts every solvency argument of the    *)
(* exchange rests on, for every price scale and every fee rate.            *)

(* The two bounds that characterise a truncating division.                 *)
LEMMA DivBounds ==
  ASSUME NEW n \in Nat, NEW d \in Nat \ {0}
  PROVE  /\ n \div d \in Nat
         /\ d * (n \div d) <= n
         /\ n < d * (n \div d) + d
  OBVIOUS

(* A common positive factor can be cancelled in a strict inequality.       *)
LEMMA CancelFactor ==
  ASSUME NEW d \in Nat \ {0}, NEW x \in Int, NEW y \in Int, d * x < d * y
  PROVE  x < y
  OBVIOUS

(* A product of two naturals is a natural: the provers need it by name.    *)
LEMMA ProductNat ==
  ASSUME NEW a \in Nat, NEW b \in Nat
  PROVE  a * b \in Nat
  OBVIOUS

(* The two bounds that characterise the division that rounds up.           *)
LEMMA CeilBounds ==
  ASSUME NEW n \in Nat, NEW d \in Nat \ {0}
  PROVE  /\ CeilDiv(n, d) \in Nat
         /\ n <= d * CeilDiv(n, d)
         /\ d * CeilDiv(n, d) < n + d
<1>1. n + d - 1 \in Nat
  OBVIOUS
<1>2. /\ (n + d - 1) \div d \in Nat
      /\ d * ((n + d - 1) \div d) <= n + d - 1
      /\ n + d - 1 < d * ((n + d - 1) \div d) + d
  BY <1>1, DivBounds
<1>3. d * ((n + d - 1) \div d) \in Int
  BY <1>2
<1>4. QED
  BY <1>2, <1>3 DEF CeilDiv

(* The heart of escrow solvency: splitting a whole into three parts, two   *)
(* rounded down and one rounded up, never costs more than the whole rounded*)
(* up.                                                                     *)
LEMMA SplitUnderCeil ==
  ASSUME NEW d \in Nat \ {0}, NEW a \in Nat, NEW b \in Nat, NEW c \in Nat
  PROVE  (a \div d) + (b \div d) + CeilDiv(c, d) <= CeilDiv(a + b + c, d)
<1> DEFINE u == a \div d
           v == b \div d
           x == CeilDiv(c, d)
           w == CeilDiv(a + b + c, d)
<1>1. u \in Nat /\ d * u <= a
  BY DivBounds
<1>2. v \in Nat /\ d * v <= b
  BY DivBounds
<1>3. x \in Nat /\ d * x < c + d
  BY CeilBounds
<1>4. w \in Nat /\ a + b + c <= d * w
  <2>1. a + b + c \in Nat
    OBVIOUS
  <2>2. QED
    BY <2>1, CeilBounds
<1> HIDE DEF u, v, x, w
<1>5. d * (u + v + x) = d * u + d * v + d * x
  BY <1>1, <1>2, <1>3
<1>6. d * (w + 1) = d * w + d
  BY <1>4
<1>7. /\ d * u \in Nat
      /\ d * v \in Nat
      /\ d * x \in Nat
      /\ d * w \in Nat
  BY <1>1, <1>2, <1>3, <1>4, ProductNat
<1>8. d * (u + v + x) < d * (w + 1)
  BY <1>1, <1>2, <1>3, <1>4, <1>5, <1>6, <1>7
<1>9. u + v + x < w + 1
  BY <1>1, <1>2, <1>3, <1>4, <1>8, CancelFactor
<1>10. u + v + x <= w
  BY <1>1, <1>2, <1>3, <1>4, <1>9
<1>11. QED
  BY <1>10 DEF u, v, x, w

(* A bid of qf + qr tokens at limit price p is filled for qf at the price  *)
(* f <= p.  The escrow it paid covers the swap (net and fee), the price    *)
(* improvement handed back and the escrow its remainder must still hold:   *)
(* no fill can draw on the collateral of another order (escrow.rs,         *)
(* fill_processor.rs).                                                     *)
THEOREM EscrowCoversFill ==
  ASSUME NEW qf \in Nat, NEW qr \in Nat, NEW p \in Prices, NEW f \in 1 .. p
  PROVE  SwapUsdc(qf, f) + Improvement(qf, p, f) + EscrowFor(qr, p)
           <= EscrowFor(qf + qr, p)
<1>1. /\ Dollar \in Nat \ {0}
      /\ p \in Nat
      /\ f \in Nat
      /\ p - f \in Nat
  BY DollarAssumption DEF Prices
<1>2. /\ qf * f \in Nat
      /\ qf * (p - f) \in Nat
      /\ qr * p \in Nat
  BY <1>1, ProductNat
<1>3. qf * f + qf * (p - f) + qr * p = (qf + qr) * p
  BY <1>1
<1>4. ((qf * f) \div Dollar) + ((qf * (p - f)) \div Dollar) + CeilDiv(qr * p, Dollar)
        <= CeilDiv((qf + qr) * p, Dollar)
  BY <1>1, <1>2, <1>3, SplitUnderCeil
<1>5. Improvement(qf, p, f) = (qf * (p - f)) \div Dollar
  <2>1. CASE f < p
    BY <2>1 DEF Improvement
  <2>2. CASE f = p
    <3>1. qf * (p - f) = 0
      BY <2>2, <1>1
    <3>2. 0 \div Dollar = 0
      BY <1>1
    <3>3. QED
      BY <2>2, <3>1, <3>2, <1>1 DEF Improvement
  <2>3. QED
    BY <2>1, <2>2, <1>1
<1>6. QED
  BY <1>4, <1>5 DEF SwapUsdc, EscrowFor

(* The fee on any amount is a natural number no larger than the amount.    *)
LEMMA FeeBounds ==
  ASSUME NEW g \in Nat
  PROVE  FeeOn(g) \in 0 .. g
<1>1. /\ BpsBase \in Nat \ {0}
      /\ FeeBps \in Nat
      /\ FeeBps <= BpsBase
  BY FeeAssumption
<1>2. g * FeeBps \in Nat /\ g * FeeBps <= g * BpsBase
  BY <1>1
<1>3. /\ FeeOn(g) \in Nat
      /\ BpsBase * FeeOn(g) <= g * FeeBps
  BY <1>1, <1>2, DivBounds DEF FeeOn
<1>4. BpsBase * FeeOn(g) < BpsBase * (g + 1)
  <2>1. BpsBase * (g + 1) = g * BpsBase + BpsBase
    BY <1>1
  <2>2. BpsBase * FeeOn(g) \in Nat /\ g * BpsBase \in Nat
    BY <1>1, <1>3, ProductNat
  <2>3. QED
    BY <1>1, <1>2, <1>3, <2>1, <2>2
<1>5. FeeOn(g) < g + 1
  BY <1>1, <1>3, <1>4, CancelFactor
<1>6. QED
  BY <1>3, <1>5

(* A merge of q pairs pays out exactly the q lamports the vault held for   *)
(* them - fee, taker and maker - and the maker, whose price it was, gets at*)
(* least that price on the net amount (process_merge_fill).                *)
THEOREM MergeSplitsExactly ==
  ASSUME NEW q \in Nat, NEW p \in Prices
  PROVE  /\ FeeOn(q) \in Nat /\ MergeTaker(q, p) \in Nat /\ MergeMaker(q, p) \in Nat
         /\ FeeOn(q) + MergeTaker(q, p) + MergeMaker(q, p) = q
         /\ (MergeNet(q) * p) \div Dollar <= MergeMaker(q, p)
<1>1. /\ Dollar \in Nat \ {0}
      /\ p \in Nat
      /\ Dollar - p \in Nat
  BY DollarAssumption DEF Prices
<1>2. FeeOn(q) \in Nat /\ MergeNet(q) \in Nat /\ FeeOn(q) + MergeNet(q) = q
  BY FeeBounds DEF MergeNet
<1> DEFINE n == MergeNet(q)
           t == (n * (Dollar - p)) \div Dollar
           m == (n * p) \div Dollar
<1>3. n * (Dollar - p) \in Nat /\ n * p \in Nat
  BY <1>1, <1>2, ProductNat
<1>4. t \in Nat /\ Dollar * t <= n * (Dollar - p)
  BY <1>1, <1>3, DivBounds
<1>5. m \in Nat /\ Dollar * m <= n * p
  BY <1>1, <1>3, DivBounds
<1>6. n \in Nat
  BY <1>2
<1>7. MergeTaker(q, p) = t /\ MergeMaker(q, p) = m + (n - (m + t))
  BY DEF MergeTaker, MergeMaker
<1>8. MergeNet(q) = n
  OBVIOUS
<1> HIDE DEF n, t, m
<1>9. n * (Dollar - p) + n * p = n * Dollar
  BY <1>1, <1>6
<1>10. Dollar * (t + m) = Dollar * t + Dollar * m
  BY <1>1, <1>4, <1>5
<1>11. Dollar * (t + m) < Dollar * (n + 1)
  <2>1. Dollar * (n + 1) = n * Dollar + Dollar
    BY <1>1, <1>6
  <2>2. /\ Dollar * t \in Nat
        /\ Dollar * m \in Nat
        /\ n * Dollar \in Nat
    BY <1>1, <1>4, <1>5, <1>6, ProductNat
  <2>3. n * (Dollar - p) \in Nat /\ n * p \in Nat
    BY <1>1, <1>6, ProductNat
  <2>4. QED
    BY <1>1, <1>4, <1>5, <1>9, <1>10, <2>1, <2>2, <2>3
<1>12. t + m < n + 1
  BY <1>1, <1>4, <1>5, <1>6, <1>11, CancelFactor
<1>13. t + m <= n
  BY <1>4, <1>5, <1>6, <1>12
<1>14. m <= m + (n - (m + t))
  BY <1>4, <1>5, <1>6, <1>13
<1>15. QED
  BY <1>2, <1>4, <1>5, <1>6, <1>7, <1>8, <1>13, <1>14 DEF m, n
=============================================================================
