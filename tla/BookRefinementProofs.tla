------------------------ MODULE BookRefinementProofs ------------------------
(***************************************************************************)
(* The engine at work on the cells of the account implements Book, and     *)
(* with it fills by price and by age, for every book, price scale, level   *)
(* width and sequence of transactions.  EngineInv says of each phase of a  *)
(* transaction how far the copy has come on the way from the book before   *)
(* it to the book Book promises after it.                                  *)
(***************************************************************************)
EXTENDS BookAccountProofs, OrderBookProofs

-----------------------------------------------------------------------------
(* The operators of the book, seen through the refinement mapping.         *)

(* Abstract names what INSTANCE makes of each operator of Book: each of    *)
(* them is the operator BookAccount itself uses.                           *)
LEMMA SameResting == \A levels : Abstract!Resting(levels) = Resting(levels)
  BY Zenon DEF Abstract!Resting, Resting, Abstract!IsOrder, IsOrder, Abstract!Prices, Prices

(* ... the size of a set,                                                  *)
LEMMA SameCard == \A S : Abstract!Cardinality(S) = Cardinality(S)
  BY Zenon DEF Abstract!Cardinality, Cardinality, Abstract!IsFiniteSet, IsFiniteSet

(* ... whether an order crosses,                                           *)
LEMMA SameCrosses == \A side, limit, p, o :
  Abstract!Crosses(side, limit, p, o) = Crosses(side, limit, p, o)
  BY Zenon DEF Abstract!Crosses, Crosses, 
  Abstract!UsdcBid, Abstract!YesAsk, Abstract!NoBid, UsdcBid, YesAsk, NoBid

(* ... the order in a slot,                                                *)
LEMMA SameAt == \A levels, at : Abstract!OrderAt(levels, at) = OrderAt(levels, at)
  BY DEF Abstract!OrderAt, OrderAt

(* ... which of two orders is scanned first,                               *)
LEMMA SameBefore == \A levels, side, a, b :
  Abstract!ScannedBefore(levels, side, a, b) <=> ScannedBefore(levels, side, a, b)
  BY Zenon DEF Abstract!ScannedBefore, ScannedBefore, Abstract!OrderAt, OrderAt,
               Abstract!YesAsk, YesAsk

(* ... the order of the scan,                                              *)
LEMMA SameScan == \A levels, side, limit :
  Abstract!ScanOrder(levels, side, limit) = ScanOrder(levels, side, limit)
<1> TAKE levels, side, limit
<1> DEFINE S == {at \in Resting(levels) : Crosses(side, limit, at[1], OrderAt(levels, at))}
<1>1. Abstract!ScanOrder(levels, side, limit)
        = Abstract!InOrder(S, LAMBDA a, b : Abstract!ScannedBefore(levels, side, a, b))
  BY SameResting, SameCrosses, SameAt, Zenon DEF Abstract!ScanOrder
<1> QED
  BY <1>1, SameCard, Zenon
     DEF ScanOrder, Abstract!InOrder, InOrder, Abstract!ScannedBefore, ScannedBefore,
         Abstract!OrderAt, OrderAt, Abstract!YesAsk, YesAsk

(* ... the match,                                                          *)
LEMMA SameMatch == \A levels, side, limit, qty, maxFills :
  Abstract!MatchAgainstBook(levels, side, limit, qty, maxFills)
    = MatchAgainstBook(levels, side, limit, qty, maxFills)
<1> TAKE levels, side, limit, qty, maxFills
<1> DEFINE theirs(seq) == Abstract!FoldLeft(
                  LAMBDA m, at : Abstract!FillFrom(levels, side, maxFills, m, at),
                  [remaining |-> qty, fills |-> <<>>], seq)
           ours(seq) == FoldLeft(LAMBDA m, at : FillFrom(levels, side, maxFills, m, at),
                  [remaining |-> qty, fills |-> <<>>], seq)
<1>1. ASSUME NEW seq PROVE theirs(seq) = ours(seq)
  BY Zenon DEF Abstract!FoldLeft, FoldLeft,
     Abstract!MapThenFoldSet, MapThenFoldSet, Abstract!FillFrom, FillFrom, Abstract!OrderAt, OrderAt,
     Abstract!Max, Max, Abstract!NoBid, NoBid
<1>2. /\ Abstract!MatchAgainstBook(levels, side, limit, qty, maxFills)
           = theirs(Abstract!ScanOrder(levels, side, limit))
      /\ MatchAgainstBook(levels, side, limit, qty, maxFills) = ours(ScanOrder(levels, side, limit))
  BY Zenon DEF Abstract!MatchAgainstBook, MatchAgainstBook
<1> HIDE DEF theirs, ours
<1> QED BY <1>1, <1>2, SameScan

(* ... the book after fills,                                               *)
LEMMA SameAfterFills == \A levels, fs : Abstract!AfterFills(levels, fs) = AfterFills(levels, fs)
  BY Zenon DEF Abstract!AfterFills, AfterFills, Abstract!FreeIfEmpty, FreeIfEmpty,
     Abstract!IsOrder, IsOrder,
     Abstract!FilledSlot, FilledSlot, Abstract!Prices, Prices

(* ... whether a price has room or can get it,                             *)
LEMMA SameCanAllocate == \A b, p : Abstract!CanAllocate(b, p) <=> CanAllocate(b, p)
  BY DEF Abstract!CanAllocate, CanAllocate, Abstract!NeedsNewLevel, NeedsNewLevel

(* ... a book with a free slot made, and that slot,                        *)
LEMMA SameFree == \A b, p, level :
   /\ Abstract!WithFreeSlot(b, p) = WithFreeSlot(b, p)
   /\ Abstract!FirstFree(level) = FirstFree(level)
  BY Zenon DEF Abstract!WithFreeSlot, WithFreeSlot, Abstract!FreeSlots, FreeSlots,
  Abstract!IsOrder, IsOrder, Abstract!NeedsNewLevel, NeedsNewLevel, Abstract!FirstFree, FirstFree

(* ... the resting of an order,                                            *)
LEMMA SameRest == \A b, o, side, p, q, ts :
   Abstract!RestOrder(b, o, side, p, q, ts) = RestOrder(b, o, side, p, q, ts)
<1> TAKE b, o, side, p, q, ts
<1> DEFINE w == WithFreeSlot(b, p)
<1>1. Abstract!WithFreeSlot(b, p) = w /\ Abstract!FirstFree(w.levels[p]) = FirstFree(w.levels[p])
  BY SameFree, Zenon
<1> HIDE DEF w
<1> QED BY <1>1, Zenon DEF Abstract!RestOrder, RestOrder, Abstract!CanAssignId, CanAssignId, w

(* ... the removal of an order,                                            *)
LEMMA SameRemove == \A levels, at : Abstract!RemoveOrder(levels, at) = RemoveOrder(levels, at)
  BY Zenon DEF Abstract!RemoveOrder, RemoveOrder, Abstract!FreeIfEmpty, FreeIfEmpty,
     Abstract!IsOrder, IsOrder

(* ... the batch of a crank,                                               *)
LEMMA SameBatch == \A levels, n : Abstract!CrankBatch(levels, n) = CrankBatch(levels, n)
  BY Zenon DEF Abstract!CrankOrder, CrankOrder, Abstract!InOrder, InOrder, 
     Abstract!Cardinality, Cardinality, Abstract!IsFiniteSet, IsFiniteSet,
     Abstract!Resting, Resting, Abstract!IsOrder, IsOrder, Abstract!Prices, Prices,
     Abstract!CrankBatch, CrankBatch

(* ... and the book after it.                                              *)
LEMMA SameAfterCrank == \A levels, batch, n :
  Abstract!AfterCrank(levels, batch, n) = AfterCrank(levels, batch, n)
  BY Zenon DEF Abstract!AfterCrank, AfterCrank, Abstract!FreeIfEmpty, FreeIfEmpty,
     Abstract!IsOrder, IsOrder,
     Abstract!Contains, Contains, Abstract!Prices, Prices

-----------------------------------------------------------------------------
(* The match in progress.                                                  *)

(* What fills leave of an order is an order.                               *)
LEMMA OrdersReducible == Reducible(Orders)
BY DEF Reducible, Orders

(* The slots of a sound account make a book.                               *)
LEMMA SoundLevels ==
  ASSUME NEW a, Sound(a)
  PROVE  LevelsOK(SlotsOf(a), Orders) /\ BookOK(BookOf(a), Orders)
<1> DEFINE T == Orders \cup {NoOrder}
<1>1. AccountOK(a) /\ \A p \in Prices : HasLevel(a, p) => LevelOK(a, p)
  BY LevelsOfSound
<1>2. ASSUME NEW p \in Prices
      PROVE  SlotsOf(a)[p] \in Seq(T)
  <2>1. CASE HasLevel(a, p)
    <3>1. SlotsOf(a)[p] = [s \in 1 .. Level(a, p).slots |-> a.cells[a.map[p] + s]]
      BY <2>1, SlotsAt
    <3>2. /\ Level(a, p).slots \in Nat
          /\ \A s \in 1 .. Level(a, p).slots : a.cells[a.map[p] + s] \in T
      BY <1>1, <2>1 DEF LevelOK, Headers
    <3>3. SlotsOf(a)[p] \in [1 .. Level(a, p).slots -> T]
      BY <3>1, <3>2
    <3> HIDE DEF T
    <3> QED BY <3>2, <3>3
  <2>2. CASE ~HasLevel(a, p)
    <3>1. SlotsOf(a)[p] = <<>>
      BY <2>2, SlotsAt
    <3> QED BY <3>1
  <2> QED BY <2>1, <2>2
<1>3. SlotsOf(a) \in [Prices -> Seq(T)]
  <2>1. SlotsOf(a) = [p \in Prices |-> SlotsOf(a)[p]]
    BY DEF SlotsOf, BookOf
  <2> HIDE DEF T
  <2> QED BY <1>2, <2>1
<1>4. NoOrder \notin Orders
  BY AccountAssumption
<1>5. \A o \in Orders : o.qty \in Nat \ {0} /\ o.ts \in Nat /\ o.side \in Sides
  BY DEF Orders
<1>6. LevelsOK(SlotsOf(a), Orders)
  BY <1>3, <1>4, <1>5 DEF LevelsOK
<1>7. BookOf(a) = [levels |-> SlotsOf(a), nextId |-> a.nextId, allocated |-> a.maxLevels]
  BY DEF SlotsOf, BookOf
<1>8. a.nextId \in Nat /\ a.maxLevels \in Nat
  BY <1>1 DEF AccountOK
<1> QED BY <1>3, <1>6, <1>7, <1>8 DEF BookOK

(* An account is its book, as far as the book goes.                        *)
LEMMA BookByParts ==
  ASSUME NEW a
  PROVE  /\ BookOf(a) = [levels |-> SlotsOf(a), nextId |-> a.nextId, allocated |-> a.maxLevels]
         /\ BookOf(a).levels = SlotsOf(a) /\ BookOf(a).nextId = a.nextId
         /\ BookOf(a).allocated = a.maxLevels
BY DEF SlotsOf, BookOf

(* The active slots of the levels are the places of the resting orders.    *)
LEMMA ActiveIsResting ==
  ASSUME NEW a, Sound(a)
  PROVE  /\ \A p \in Prices : \A s \in ActiveAt(a, p) : HasLevel(a, p) =>
              /\ <<p, s>> \in Resting(SlotsOf(a))
              /\ OrderAt(SlotsOf(a), <<p, s>>) = Slot(a, a.map[p], s)
              /\ Slot(a, a.map[p], s) \in Orders
              /\ s \in 1 .. Level(a, p).slots /\ SlotsOf(a)[p][s] = Slot(a, a.map[p], s)
         /\ \A at \in Resting(SlotsOf(a)) :
              /\ at[1] \in Prices /\ HasLevel(a, at[1]) /\ at = <<at[1], at[2]>>
              /\ at[2] \in ActiveAt(a, at[1])
<1>1. ASSUME NEW p \in Prices, HasLevel(a, p)
      PROVE  /\ DOMAIN SlotsOf(a)[p] = 1 .. Level(a, p).slots
             /\ \A s \in 1 .. Level(a, p).slots : SlotsOf(a)[p][s] = Slot(a, a.map[p], s)
             /\ \A s : s \in ActiveAt(a, p) <=> s \in 1 .. Level(a, p).slots /\ IsOrder(Slot(a, a.map[p], s))
  <2>1. SlotsOf(a)[p] = [s \in 1 .. Level(a, p).slots |-> a.cells[a.map[p] + s]]
    BY <1>1, SlotsAt
  <2> QED BY <2>1 DEF Slot, ActiveAt, ActiveSlots
<1>2. ASSUME NEW p \in Prices, NEW s \in ActiveAt(a, p), HasLevel(a, p)
      PROVE  /\ <<p, s>> \in Resting(SlotsOf(a))
             /\ OrderAt(SlotsOf(a), <<p, s>>) = Slot(a, a.map[p], s)
             /\ Slot(a, a.map[p], s) \in Orders
             /\ s \in 1 .. Level(a, p).slots /\ SlotsOf(a)[p][s] = Slot(a, a.map[p], s)
  <2>1. /\ s \in DOMAIN SlotsOf(a)[p] /\ IsOrder(SlotsOf(a)[p][s])
        /\ SlotsOf(a)[p][s] = Slot(a, a.map[p], s) /\ s \in 1 .. Level(a, p).slots
    BY <1>1, <1>2
  <2>2. <<p, s>> \in Resting(SlotsOf(a))
    BY <2>1, RestingPlaces
  <2>3. OrderAt(SlotsOf(a), <<p, s>>) = SlotsOf(a)[p][s]
    BY DEF OrderAt
  <2>4. OrderAt(SlotsOf(a), <<p, s>>) \in Orders
    BY <2>2, SoundLevels, RestingOrders
  <2> QED BY <2>1, <2>2, <2>3, <2>4
<1>3. ASSUME NEW at \in Resting(SlotsOf(a))
      PROVE  /\ at[1] \in Prices /\ HasLevel(a, at[1]) /\ at = <<at[1], at[2]>>
             /\ at[2] \in ActiveAt(a, at[1])
  <2>1. PICK p \in Prices : \E s \in DOMAIN SlotsOf(a)[p] : at = <<p, s>> /\ IsOrder(SlotsOf(a)[p][s])
    BY RestingPlaces
  <2>2. PICK s \in DOMAIN SlotsOf(a)[p] : at = <<p, s>> /\ IsOrder(SlotsOf(a)[p][s])
    BY <2>1
  <2>3. HasLevel(a, p)
    <3> SUFFICES ASSUME ~HasLevel(a, p) PROVE FALSE
      OBVIOUS
    <3>1. SlotsOf(a)[p] = <<>>
      BY SlotsAt
    <3> QED BY <2>2, <3>1
  <2>4. s \in ActiveAt(a, p)
    <3>1. s \in 1 .. Level(a, p).slots /\ SlotsOf(a)[p][s] = Slot(a, a.map[p], s)
      BY <1>1, <2>2, <2>3
    <3> QED BY <1>1, <2>2, <2>3, <3>1
  <2>5. at[1] = p /\ at[2] = s
    BY <2>2
  <2> QED BY <2>2, <2>3, <2>4, <2>5
<1> QED BY <1>2, <1>3

-----------------------------------------------------------------------------
(* A match in progress.                                                    *)

(* The scan of the order at work: its order, its length, and the states of *)
(* its match, one for each order scanned.                                  *)
Scan == ScanOrder(SlotsOf(account), call.side, call.price)
CrossingCount == Cardinality(Crossing(SlotsOf(account), call.side, call.price))
Chain(m) == IsChain(m, SlotsOf(account), Orders, call.side, call.price, call.qty, call.maxFills)

(* The events that a match's fills are reported with.                      *)
Events(fs) == [i \in DOMAIN fs |-> Abstract!FillEvent(call.owner, call.side, fs[i])]

(* What the loops have done so far is the match x.                         *)
DoneSoFar(x) ==
  /\ result.remaining = x.remaining
  /\ result.fills = Events(x.fills)
  /\ SlotsOf(data) = AfterFills(SlotsOf(account), x.fills)
  /\ SameCounters(account, data)

(* No order that is still to be served lies behind the loop.               *)
NonePassed(k) ==
  \A j \in k + 1 .. CrossingCount :
    Scan[j][1] = loop.price \/ AheadOf(loop.price, Scan[j][1])

(* The loops are k fills into the match.                                   *)
At(m, k) ==
  /\ Chain(m)
  /\ k \in 0 .. CrossingCount
  /\ Len(m[k].fills) = k
  /\ DoneSoFar(m[k])
  /\ NonePassed(k)

(* The order at work is one the program accepts.                           *)
OrderCall ==
  /\ trading
  /\ call.owner \in Owners /\ call.side \in Sides /\ call.price \in Prices
  /\ call.qty \in Nat /\ call.qty >= MinOrder /\ call.maxFills \in Nat

(* While it is matched, the copy holds the first k steps of its match.     *)
MatchInv == phase = "match" => OrderCall /\ \E m, k : At(m, k)

(* There are as many events as fills.                                      *)
LEMMA EventsFacts ==
  ASSUME NEW Os, NEW fs \in Seq(Fills(Os))
  PROVE  /\ Len(Events(fs)) = Len(fs) /\ DOMAIN Events(fs) = DOMAIN fs
         /\ (Events(fs) = <<>> <=> fs = <<>>)
         /\ \A f \in Fills(Os) :
              Events(Append(fs, f))
                = Append(Events(fs), Abstract!FillEvent(call.owner, call.side, f))
<1> DEFINE n == Len(fs)
           ev(f) == Abstract!FillEvent(call.owner, call.side, f)
           T == {ev(f) : f \in Fills(Os)}
<1>1. n \in Nat /\ DOMAIN fs = 1 .. n /\ \A i \in 1 .. n : fs[i] \in Fills(Os)
  OBVIOUS
<1>2. Events(fs) = [i \in 1 .. n |-> ev(fs[i])]
  BY <1>1 DEF Events
<1> HIDE DEF ev
<1>3. Events(fs) \in [1 .. n -> T]
  BY <1>1, <1>2
<1> HIDE DEF n
<1>4. Events(fs) \in Seq(T) /\ Len(Events(fs)) = n /\ DOMAIN Events(fs) = 1 .. n
  <2> HIDE DEF T
  <2> QED BY <1>1, <1>3
<1>5. Events(fs) = <<>> <=> fs = <<>>
  <2>1. Events(fs) = <<>> <=> n = 0
    <3> HIDE DEF T
    <3> QED BY <1>4
  <2>2. fs = <<>> <=> n = 0
    BY DEF n
  <2> QED BY <2>1, <2>2
<1>6. ASSUME NEW f \in Fills(Os)
      PROVE  Events(Append(fs, f)) = Append(Events(fs), ev(f))
  <2> DEFINE gs == Append(fs, f)
             e == Events(fs)
             g == Append(e, ev(f))
             h == Events(gs)
  <2>1. /\ DOMAIN gs = 1 .. n + 1 /\ gs[n + 1] = f /\ \A i \in 1 .. n : gs[i] = fs[i]
    BY AppendFacts DEF n
  <2>2. e \in Seq(T) /\ Len(e) = n /\ ev(f) \in T
    BY <1>4
  <2> HIDE DEF T, e
  <2>3. /\ g \in Seq(T) /\ Len(g) = n + 1 /\ g[n + 1] = ev(f)
        /\ \A i \in 1 .. n : g[i] = e[i]
    BY <2>2, AppendFacts
  <2>4. h = [i \in 1 .. n + 1 |-> ev(gs[i])]
    BY <2>1, Zenon DEF Events, ev
  <2> HIDE DEF gs, g
  <2>5. \A i \in 1 .. n + 1 : g[i] = ev(gs[i])
    <3> SUFFICES ASSUME NEW i \in 1 .. n + 1 PROVE g[i] = ev(gs[i])
      OBVIOUS
    <3>1. CASE i = n + 1
      BY <2>1, <2>3, <3>1
    <3>2. CASE i # n + 1
      <4>1. i \in 1 .. n
        BY <1>1, <3>2
      <4>2. e[i] = ev(fs[i])
        BY <1>2, <4>1 DEF e
      <4> QED BY <2>1, <2>3, <4>1, <4>2
    <3> QED BY <3>1, <3>2
  <2>6. g = [i \in 1 .. n + 1 |-> g[i]]
    BY <1>1, <2>3
  <2>7. g = h
    <3> HIDE DEF h
    <3> QED BY <2>4, <2>5, <2>6
  <2> QED BY <2>7 DEF g, h, e, gs
<1> QED BY <1>1, <1>4, <1>5, <1>6 DEF n, ev

(* An order trades with the sides that cross it.                           *)
LEMMA SidesCross ==
  ASSUME call.side \in Sides, NEW p, NEW o
  PROVE  o.side \in MakerSides(p) <=> Crosses(call.side, call.price, p, o)
BY DEF MakerSides, Crosses, Sides, UsdcBid, YesAsk, NoBid

(* The chain of a match, k fills on.                                       *)
LEMMA AtFacts ==
  ASSUME Sound(account), OrderCall, NEW m, NEW k, At(m, k)
  PROVE  /\ LevelsOK(SlotsOf(account), Orders)
         /\ CrossingCount \in Nat /\ k \in Nat /\ k <= CrossingCount
         /\ m[k] \in Matches(Orders)
         /\ MatchOK(SlotsOf(account), Orders, call.side, call.price, call.qty, m[k])
         /\ InScanOrder(SlotsOf(account), call.side, call.price, m[k])
         /\ Len(result.fills) = k
         /\ Exhausted <=> ~GoesOn(m[k], call.maxFills)
         /\ \A j \in 1 .. CrossingCount :
              /\ m[j] = FillFrom(SlotsOf(account), call.side, call.maxFills, m[j - 1], Scan[j])
              /\ Scan[j] \in Resting(SlotsOf(account))
<1>1. LevelsOK(SlotsOf(account), Orders)
  BY SoundLevels
<1>2. Chain(m) /\ k \in 0 .. CrossingCount /\ Len(m[k].fills) = k /\ DoneSoFar(m[k])
  BY DEF At
<1>3. call.qty \in Nat
  BY DEF OrderCall
<1>4. CrossingCount \in Nat
  BY <1>1, CrossingFinite DEF CrossingCount
<1>5. /\ MatchOK(SlotsOf(account), Orders, call.side, call.price, call.qty, m[k])
      /\ InScanOrder(SlotsOf(account), call.side, call.price, m[k])
  BY <1>1, <1>2, <1>3, ChainMatches, ChainInOrder DEF Chain, CrossingCount
<1>6. m[k] \in Matches(Orders) /\ m[k].fills \in Seq(Fills(Orders))
  BY <1>5 DEF MatchOK, Matches
<1>7. Len(result.fills) = k
  BY <1>2, <1>6, EventsFacts DEF DoneSoFar
<1>8. Exhausted <=> ~GoesOn(m[k], call.maxFills)
  BY <1>2, <1>7 DEF Exhausted, GoesOn, DoneSoFar
<1>9. \A j \in 1 .. CrossingCount :
        m[j] = FillFrom(SlotsOf(account), call.side, call.maxFills, m[j - 1], Scan[j])
  BY <1>2, Zenon DEF Chain, IsChain, Scan, CrossingCount
<1>10. \A j \in 1 .. CrossingCount : Scan[j] \in Resting(SlotsOf(account))
  <2>1. Scan \in [1 .. CrossingCount -> Crossing(SlotsOf(account), call.side, call.price)]
    BY <1>1, ScanLists DEF Lists, Scan, CrossingCount
  <2> QED BY <1>1, <2>1, CrossingFinite
<1> QED BY <1>1, <1>2, <1>4, <1>5, <1>6, <1>7, <1>8, <1>9, <1>10

(* What the loops find while the match goes on: the makers at their level  *)
(* and the levels to scan hold exactly the orders still to be served.      *)
LEMMA StillToServe ==
  ASSUME LayoutInv, phase = "match", OrderCall, NEW m, NEW k, At(m, k), ~Exhausted
  PROVE  /\ \A s \in Makers :
              /\ loop.price \in Prices /\ HasLevel(data, loop.price)
              /\ data.map[loop.price] = loop.loff
              /\ s \in ActiveAt(data, loop.price)
              /\ <<loop.price, s>> \in Resting(SlotsOf(account))
              /\ Slot(data, loop.loff, s) = OrderAt(SlotsOf(account), <<loop.price, s>>)
              /\ \E j \in k + 1 .. CrossingCount : Scan[j] = <<loop.price, s>>
         /\ \A j \in k + 1 .. CrossingCount :
              /\ Scan[j][1] = loop.price => Scan[j] = <<loop.price, Scan[j][2]>> /\ Scan[j][2] \in Makers
              /\ Scan[j][1] # loop.price => Scan[j][1] \in ToScan
<1> DEFINE L == SlotsOf(account)
           D == SlotsOf(data)
           left == k + 1 .. CrossingCount
           p == loop.price
<1>1. Sound(account) /\ Sound(data) /\ LoopAt(data, p, loop.loff, loop.slots)
  BY DEF LayoutInv, RunInv
<1>2. /\ LevelsOK(L, Orders) /\ Len(m[k].fills) = k /\ D = AfterFills(L, m[k].fills)
      /\ MatchOK(L, Orders, call.side, call.price, call.qty, m[k])
      /\ InScanOrder(L, call.side, call.price, m[k])
      /\ GoesOn(m[k], call.maxFills)
  BY <1>1, AtFacts DEF At, DoneSoFar
<1>3. /\ Resting(D) \subseteq Resting(L)
      /\ \A at \in Resting(D) : OrderAt(D, at) = OrderAt(L, at)
      /\ \A j \in left : Scan[j] \in Resting(D)
      /\ \A at \in Resting(D) :
           Crosses(call.side, call.price, at[1], OrderAt(D, at)) => \E j \in left : at = Scan[j]
  <2> DEFINE S == ScanOrder(L, call.side, call.price)
             new == AfterFills(L, m[k].fills)
             rest == Len(m[k].fills) + 1 .. Cardinality(Crossing(L, call.side, call.price))
  <2> HIDE DEF L
  <2>1. /\ Resting(new) \subseteq Resting(L)
        /\ \A at \in Resting(new) : OrderAt(new, at) = OrderAt(L, at)
        /\ \A j \in rest : S[j] \in Resting(new)
        /\ \A at \in Resting(new) :
             Crosses(call.side, call.price, at[1], OrderAt(new, at)) => \E j \in rest : at = S[j]
    BY <1>2, OrdersReducible, CrossingLeft
  <2>2. D = new /\ rest = left /\ S = Scan
    BY <1>2, Zenon DEF Scan, CrossingCount, L
  <2> HIDE DEF new, rest, S, left
  <2> QED BY <2>1, <2>2
<1>4. call.side \in Sides
  BY DEF OrderCall
<1>5. ASSUME NEW s \in Makers
      PROVE  /\ p \in Prices /\ HasLevel(data, p) /\ data.map[p] = loop.loff
             /\ s \in ActiveAt(data, p) /\ <<p, s>> \in Resting(L)
             /\ Slot(data, loop.loff, s) = OrderAt(L, <<p, s>>)
             /\ \E j \in left : Scan[j] = <<p, s>>
  <2>1. /\ s \in ActiveSlots(data, loop.loff, loop.slots) /\ s \in 1 .. loop.slots
        /\ IsOrder(data.cells[loop.loff + s])
        /\ Slot(data, loop.loff, s).side \in MakerSides(p)
    BY DEF Makers, ActiveSlots, Slot
  <2>2. p \in Prices /\ HasLevel(data, p) /\ data.map[p] = loop.loff /\ Level(data, p).slots = loop.slots
    BY <1>1, <2>1 DEF LoopAt, IsOrder
  <2>3. s \in ActiveAt(data, p)
    BY <2>1, <2>2 DEF ActiveAt
  <2>4. <<p, s>> \in Resting(D) /\ OrderAt(D, <<p, s>>) = Slot(data, loop.loff, s)
    BY <1>1, <2>2, <2>3, ActiveIsResting
  <2>5. Crosses(call.side, call.price, p, OrderAt(D, <<p, s>>))
    BY <1>4, <2>1, <2>4, SidesCross
  <2>6. <<p, s>>[1] = p
    OBVIOUS
  <2> HIDE DEF D, L, left
  <2>7. \E j \in left : Scan[j] = <<p, s>>
    BY <1>3, <2>4, <2>5, <2>6
  <2> QED BY <1>3, <2>2, <2>3, <2>4, <2>7
<1>6. ASSUME NEW j \in left
      PROVE  /\ Scan[j][1] = p => Scan[j] = <<p, Scan[j][2]>> /\ Scan[j][2] \in Makers
             /\ Scan[j][1] # p => Scan[j][1] \in ToScan
  <2> DEFINE r == Scan[j][1]
             s == Scan[j][2]
  <2>1. Scan[j] \in Resting(D) /\ OrderAt(D, Scan[j]) = OrderAt(L, Scan[j])
    <3> HIDE DEF D, L, left
    <3> QED BY <1>3
  <2>2. r \in Prices /\ HasLevel(data, r) /\ Scan[j] = <<r, s>> /\ s \in ActiveAt(data, r)
    BY <1>1, <2>1, ActiveIsResting
  <2>3. OrderAt(D, Scan[j]) = Slot(data, data.map[r], s)
    <3> HIDE DEF D
    <3>1. OrderAt(D, <<r, s>>) = Slot(data, data.map[r], s)
      BY <1>1, <2>2, ActiveIsResting DEF D
    <3> QED BY <2>2, <3>1
  <2>4. Slot(data, data.map[r], s).side \in MakerSides(r)
    <3>1. Scan[j] \in Crossing(L, call.side, call.price)
      <4>1. j \in 1 .. CrossingCount
        BY <1>1, AtFacts
      <4>2. Scan \in [1 .. CrossingCount -> Crossing(SlotsOf(account), call.side, call.price)]
        BY <1>2, ScanLists DEF Lists, Scan, CrossingCount
      <4> QED BY <4>1, <4>2
    <3>2. Crosses(call.side, call.price, r, OrderAt(L, Scan[j]))
      BY <3>1 DEF Crossing
    <3> QED BY <1>4, <2>1, <2>3, <3>2, SidesCross
  <2>5. CASE r = p
    <3>1. data.map[p] = loop.loff /\ Level(data, p).slots = loop.slots
      BY <1>1, <2>2, <2>5 DEF LoopAt
    <3>2. s \in ActiveSlots(data, loop.loff, loop.slots)
      BY <2>2, <2>5, <3>1 DEF ActiveAt
    <3>3. s \in Makers
      BY <2>4, <2>5, <3>1, <3>2 DEF Makers
    <3> QED BY <2>2, <2>5, <3>3
  <2>6. CASE r # p
    <3>1. AheadOf(p, r)
      BY <2>6 DEF At, NonePassed
    <3>2. r \in ToScan
      BY <2>2, <2>4, <3>1 DEF ToScan
    <3> QED BY <2>6, <3>2
  <2> QED BY <2>5, <2>6
<1> QED BY <1>5, <1>6

(* An order placed starts its match at the first crossing order.           *)
LEMMA MatchStarts ==
  ASSUME LayoutInv, phase = "idle", data = account,
         NEW u \in Owners, NEW side \in Sides, NEW price \in Prices, NEW q \in OrderQtys,
         NEW isLimit, NEW n \in Nat, PlaceOrder(u, side, price, q, isLimit, n)
  PROVE  MatchInv'
<1> DEFINE L == SlotsOf(account)
<1>1. /\ trading /\ trading' = trading /\ account' = account /\ data' = data /\ phase' = "match"
      /\ call'.owner = u /\ call'.side = side /\ call'.price = price /\ call'.qty = q
      /\ call'.maxFills = n /\ q >= MinOrder
      /\ loop'.price = IF side = YesAsk THEN Dollar ELSE 0
      /\ result'.remaining = q /\ result'.fills = <<>>
  BY DEF PlaceOrder, NoLoop
<1>2. q \in Nat
  BY AccountAssumption
<1>3. OrderCall'
  BY <1>1, <1>2 DEF OrderCall
<1>4. LevelsOK(L, Orders) /\ Sound(account)
  BY SoundLevels DEF LayoutInv
<1>5. PICK m : IsChain(m, L, Orders, side, price, q, n)
  BY <1>2, <1>4, MatchFolds
<1>6. m[0] = Start(q)
  BY <1>5, Zenon DEF IsChain
<1>7. m[0].fills = <<>> /\ m[0].remaining = q
  BY <1>6 DEF Start
<1>8. Chain(m)'
  BY <1>1, <1>5 DEF Chain
<1>9. CrossingCount' \in Nat /\ \A j \in 1 .. CrossingCount' : Scan'[j] \in Resting(L)
  <2> DEFINE C == Crossing(L, side, price)
             S == ScanOrder(L, side, price)
  <2>1. CrossingCount' = Cardinality(C) /\ Scan' = S
    BY <1>1 DEF CrossingCount, Scan
  <2>2. Cardinality(C) \in Nat /\ C \in SUBSET Resting(L)
    BY <1>4, CrossingFinite
  <2>3. S \in [1 .. Cardinality(C) -> C]
    BY <1>4, ScanLists DEF Lists
  <2> HIDE DEF C, S, L
  <2> QED BY <2>1, <2>2, <2>3
<1>10. AfterFills(L, <<>>) = L
  <2>1. L = [p \in Prices |-> L[p]]
    BY <1>4 DEF LevelsOK
  <2>2. AfterFills(L, <<>>) = [p \in Prices |-> L[p]]
    BY DEF AfterFills
  <2> QED BY <2>1, <2>2
<1>11. Events(<<>>)' = <<>>
  BY DEF Events
<1>12. DoneSoFar(m[0])'
  <2>1. Events(m[0].fills)' = <<>>
    BY <1>7, <1>11
  <2> QED BY <1>1, <1>7, <1>10, <2>1 DEF DoneSoFar, SameCounters
<1>13. NonePassed(0)'
  <2> SUFFICES ASSUME NEW j \in 0 + 1 .. CrossingCount'
               PROVE  AheadOf(loop.price, Scan[j][1])'
    BY <1>1 DEF NonePassed
  <2>1. Scan'[j] \in Resting(L)
    BY <1>9
  <2>2. Scan'[j][1] \in Prices
    BY <1>4, <2>1, RestingOrders
  <2>3. IF side = YesAsk THEN loop'.price > Scan'[j][1] ELSE loop'.price < Scan'[j][1]
    BY <1>1, <2>2, DollarAssumption DEF Prices
  <2> QED BY <1>1, <2>3 DEF AheadOf
<1>14. Len(m[0].fills) = 0
  BY <1>7
<1>15. 0 \in 0 .. CrossingCount'
  BY <1>9
<1>16. At(m, 0)'
  BY <1>8, <1>12, <1>13, <1>14, <1>15 DEF At
<1> QED BY <1>3, <1>16 DEF MatchInv

(* The oldest maker of the level is the next order of the scan.            *)
LEMMA OldestIsNext ==
  ASSUME LayoutInv, phase = "match", OrderCall, NEW m, NEW k, At(m, k), ~Exhausted,
         NEW s \in Makers, \A t \in Makers : ServedBefore(s, t)
  PROVE  k + 1 \in 1 .. CrossingCount /\ Scan[k + 1] = <<loop.price, s>>
<1> DEFINE L == SlotsOf(account)
           p == loop.price
           C == Crossing(L, call.side, call.price)
           next == Scan[k + 1]
<1>1. /\ LevelsOK(L, Orders) /\ CrossingCount \in Nat /\ k \in Nat
  BY AtFacts DEF LayoutInv
<1>2. PICK j \in k + 1 .. CrossingCount : Scan[j] = <<p, s>>
  BY StillToServe
<1>3. k + 1 \in 1 .. CrossingCount /\ k + 1 \in k + 1 .. CrossingCount /\ j \in 1 .. CrossingCount
  BY <1>1, <1>2
<1>4. CASE j = k + 1
  BY <1>2, <1>3, <1>4
<1>5. CASE j # k + 1
  <2>1. k + 1 < j
    BY <1>1, <1>2, <1>5
  <2>2. ScannedBefore(L, call.side, next, <<p, s>>)
    <3>1. <<Scan[k + 1], Scan[j]>> \in ScanRelation(L, call.side, C)
      BY <1>1, <1>3, <2>1, ScanLists DEF Lists, Scan, CrossingCount
    <3> QED BY <1>2, <3>1 DEF ScanRelation
  <2>3. next \in Resting(L) /\ next[1] \in Prices /\ p \in Prices
    <3>1. next \in Resting(L)
      BY <1>3, AtFacts DEF LayoutInv
    <3> QED BY <1>1, <3>1, RestingOrders, StillToServe
  <2>4. next[1] = p
    <3> SUFFICES ASSUME next[1] # p PROVE FALSE
      OBVIOUS
    <3>1. AheadOf(p, next[1])
      BY <1>3 DEF At, NonePassed
    <3>2. IF call.side = YesAsk THEN next[1] > p ELSE next[1] < p
      BY <2>2 DEF ScannedBefore
    <3>3. next[1] \in Int /\ p \in Int
      BY <2>3, DollarAssumption DEF Prices
    <3> HIDE DEF p, next
    <3> QED BY <3>1, <3>2, <3>3 DEF AheadOf, p
  <2>5. next = <<p, next[2]>> /\ next[2] \in Makers
    BY <1>3, <2>4, StillToServe
  <2> DEFINE t == next[2]
             a == Slot(data, loop.loff, s).ts
             b == Slot(data, loop.loff, t).ts
  <2>6. /\ OrderAt(L, <<p, s>>) = Slot(data, loop.loff, s) /\ <<p, s>> \in Resting(L)
        /\ OrderAt(L, <<p, t>>) = Slot(data, loop.loff, t) /\ <<p, t>> \in Resting(L)
    BY <2>5, StillToServe
  <2>7. a \in Nat /\ b \in Nat /\ s \in Int /\ t \in Int
    <3>1. /\ OrderAt(L, <<p, s>>).ts \in Nat /\ OrderAt(L, <<p, t>>).ts \in Nat
          /\ <<p, s>>[2] \in 1 .. Len(L[<<p, s>>[1]]) /\ <<p, t>>[2] \in 1 .. Len(L[<<p, t>>[1]])
      BY <1>1, <2>6, RestingOrders
    <3>2. s \in 1 .. Len(L[p]) /\ t \in 1 .. Len(L[p])
      BY <3>1
    <3>3. L[p] \in Seq(Orders \cup {NoOrder})
      BY <1>1, <2>3 DEF LevelsOK
    <3>4. Len(L[p]) \in Nat
      BY <3>3
    <3> HIDE DEF t, L, p
    <3> QED BY <2>6, <3>1, <3>2, <3>4 DEF p
  <2>8. a < b \/ (a = b /\ s <= t)
    BY <2>5 DEF ServedBefore
  <2>9. b < a \/ (b = a /\ t < s)
    <3>1. /\ <<p, t>>[1] = p /\ <<p, s>>[1] = p /\ <<p, t>>[2] = t /\ <<p, s>>[2] = s
      OBVIOUS
    <3>2. ScannedBefore(L, call.side, <<p, t>>, <<p, s>>)
      BY <2>2, <2>5
    <3> QED BY <2>6, <3>1, <3>2 DEF ScannedBefore
  <2> HIDE DEF a, b, t
  <2> QED BY <2>7, <2>8, <2>9
<1> QED BY <1>4, <1>5

(* A fill of the loops is the next fill of the match.                      *)
LEMMA FillIsNext ==
  ASSUME LayoutInv, MatchInv, FillOldest
  PROVE  MatchInv'
<1> DEFINE L == SlotsOf(account)
           D == SlotsOf(data)
           p == loop.price
           l == loop.loff
<1>1. /\ phase = "match" /\ ~Exhausted /\ phase' = "match" /\ loop' = loop /\ call' = call
      /\ account' = account /\ trading' = trading
  BY DEF FillOldest, Go
<1>2. OrderCall /\ \E m, k : At(m, k)
  BY <1>1 DEF MatchInv
<1>3. PICK m, k : At(m, k)
  BY <1>2
<1>4. PICK s \in Makers :
        LET o == Slot(data, loop.loff, s)
            q == IF result.remaining < o.qty THEN result.remaining ELSE o.qty
        IN  /\ \A t \in Makers : ServedBefore(s, t)
            /\ data' = TakeFrom(data, loop.loff, s, q)
            /\ result' = [remaining |-> result.remaining - q,
                          fills |-> Append(result.fills,
                            [maker |-> o.owner, taker |-> call.owner, price |-> loop.price,
                             qty |-> q, id |-> o.id, makerSide |-> o.side,
                             takerSide |-> call.side, isMerge |-> NoBid \in {call.side, o.side}])]
  BY DEF FillOldest
<1> DEFINE o == Slot(data, l, s)
           at == <<p, s>>
           q == TakenFrom(L, m[k], at)
           f == FillAt(L, call.side, m[k], at)
           fs == m[k].fills
<1>5. /\ LevelsOK(L, Orders) /\ CrossingCount \in Nat /\ k \in Nat
      /\ MatchOK(L, Orders, call.side, call.price, call.qty, m[k])
      /\ InScanOrder(L, call.side, call.price, m[k])
      /\ m[k] \in Matches(Orders) /\ GoesOn(m[k], call.maxFills)
      /\ \A j \in 1 .. CrossingCount :
           m[j] = FillFrom(L, call.side, call.maxFills, m[j - 1], Scan[j])
  BY <1>1, <1>2, <1>3, AtFacts DEF LayoutInv
<1>6. k + 1 \in 1 .. CrossingCount /\ Scan[k + 1] = at
  BY <1>1, <1>2, <1>3, <1>4, OldestIsNext
<1>7. /\ p \in Prices /\ HasLevel(data, p) /\ data.map[p] = l
      /\ s \in ActiveAt(data, p) /\ at \in Resting(L) /\ o = OrderAt(L, at)
  BY <1>1, <1>2, <1>3, StillToServe
<1>8. /\ Len(fs) = k /\ DoneSoFar(m[k]) /\ Chain(m)
  BY <1>3 DEF At
<1>9. m[k + 1] = [remaining |-> m[k].remaining - q, fills |-> Append(fs, f)]
  <2>1. (k + 1) - 1 = k
    BY <1>5
  <2>2. m[k + 1] = FillFrom(L, call.side, call.maxFills, m[k], at)
    BY <1>5, <1>6, <2>1
  <2>3. FillFrom(L, call.side, call.maxFills, m[k], at)
          = [remaining |-> m[k].remaining - TakenFrom(L, m[k], at),
             fills |-> Append(m[k].fills, FillAt(L, call.side, m[k], at))]
    <3> DEFINE x == m[k]
               side == call.side
               cap == call.maxFills
    <3>1. GoesOn(x, cap)
      BY <1>5
    <3> HIDE DEF at, L, x, side, cap
    <3>2. FillFrom(L, side, cap, x, at)
            = [remaining |-> x.remaining - TakenFrom(L, x, at),
               fills |-> Append(x.fills, FillAt(L, side, x, at))]
      BY <3>1, StepByCase
    <3> QED BY <3>2 DEF x, side, cap
  <2> QED BY <2>2, <2>3
<1>10. q = (IF result.remaining < o.qty THEN result.remaining ELSE o.qty) /\ q \in Nat
  <2>1. o.qty \in Nat
    BY <1>5, <1>7, RestingOrders
  <2>2. m[k].remaining \in Nat
    BY <1>5 DEF Matches
  <2> QED BY <1>7, <1>8, <2>1, <2>2 DEF TakenFrom, DoneSoFar
<1>11. fs \in Seq(Fills(Orders))
  BY <1>5 DEF Matches
<1>12. f \in Fills(Orders) /\ Len(Append(fs, f)) = k + 1 /\ k + 1 \in 0 .. CrossingCount
  <2>1. MatchOK(L, Orders, call.side, call.price, call.qty, m[k + 1]) /\ k + 1 \in 0 .. CrossingCount
    <3>1. k + 1 \in 0 .. CrossingCount /\ call.qty \in Nat
      BY <1>2, <1>5, <1>6 DEF OrderCall
    <3>2. \A j \in 0 .. CrossingCount :
            MatchOK(L, Orders, call.side, call.price, call.qty, m[j])
      BY <1>5, <1>8, <3>1, ChainMatches DEF Chain, CrossingCount
    <3> QED BY <3>1, <3>2
  <2>2. Append(fs, f) \in Seq(Fills(Orders))
    BY <1>9, <2>1 DEF MatchOK, Matches
  <2> HIDE DEF f, fs
  <2>3. Len(fs) \in Nat /\ Append(fs, f)[Len(fs) + 1] = f /\ Len(Append(fs, f)) = Len(fs) + 1
    BY <1>11
  <2>4. f \in Fills(Orders)
    BY <2>2, <2>3
  <2> QED BY <1>8, <2>1, <2>3, <2>4
<1>13. result'.remaining = m[k + 1].remaining
  BY <1>4, <1>8, <1>9, <1>10 DEF DoneSoFar
<1>14. result'.fills = Events(m[k + 1].fills)
  <2>1. Events(Append(fs, f)) = Append(Events(fs), Abstract!FillEvent(call.owner, call.side, f))
    <3> HIDE DEF fs, f
    <3> QED BY <1>11, <1>12, EventsFacts
  <2>2. Abstract!FillEvent(call.owner, call.side, f)
          = [maker |-> o.owner, taker |-> call.owner, price |-> p, qty |-> q, id |-> o.id,
             makerSide |-> o.side, takerSide |-> call.side, isMerge |-> NoBid \in {call.side, o.side}]
    <3>1. at[1] = p
      OBVIOUS
    <3> HIDE DEF at, o, q, L
    <3> QED BY <1>7, <3>1, Zenon DEF Abstract!FillEvent, FillAt, q
  <2>3. result'.fills = Append(result.fills,
          [maker |-> o.owner, taker |-> call.owner, price |-> p, qty |-> q, id |-> o.id,
           makerSide |-> o.side, takerSide |-> call.side, isMerge |-> NoBid \in {call.side, o.side}])
    <3> HIDE DEF q
    <3> QED BY <1>4, <1>10
  <2> HIDE DEF f, fs, o, q
  <2> QED BY <1>8, <1>9, <2>1, <2>2, <2>3 DEF DoneSoFar, fs
<1>15. SlotsOf(data)' = AfterFills(L, Append(fs, f)) /\ SameCounters(data, data')
  <2> DEFINE x == FilledSlot(L[p][s], q)
  <2>1. AfterFills(L, Append(fs, f)) = [D EXCEPT ![p] = FreeIfEmpty([D[p] EXCEPT ![s] = x])]
    <3>1. FillsFit(L, fs)
      BY <1>5, MatchFits
    <3>2. f.at = at /\ f.price = at[1] /\ f.qty = q /\ at[1] = p /\ at[2] = s
      BY DEF FillAt
    <3>3. \A i \in DOMAIN fs : fs[i].at # at
      <4> SUFFICES ASSUME NEW i \in DOMAIN fs PROVE fs[i].at # at
        OBVIOUS
      <4>1. i \in 1 .. k
        BY <1>8, <1>11
      <4>2. fs[i].at = Scan[i]
        BY <1>5 DEF InScanOrder, Scan
      <4>3. i \in 1 .. CrossingCount /\ i # k + 1
        BY <1>5, <1>6, <4>1
      <4>4. \A j, h \in 1 .. CrossingCount : Scan[j] = Scan[h] => j = h
        BY <1>5, ScanLists DEF Lists, Scan, CrossingCount
      <4> QED BY <1>6, <4>2, <4>3, <4>4
    <3>4. D = AfterFills(L, fs)
      BY <1>8 DEF DoneSoFar
    <3>5. f.at \in Resting(L) /\ f.price = f.at[1]
      BY <1>7, <3>2
    <3>6. \A i \in DOMAIN fs : fs[i].at # f.at
      BY <3>2, <3>3
    <3> HIDE DEF f, fs, D, L, q, at
    <3>7. AfterFills(L, Append(fs, f))
            = [AfterFills(L, fs) EXCEPT ![f.at[1]] =
                 FreeIfEmpty([AfterFills(L, fs)[f.at[1]] EXCEPT ![f.at[2]] =
                                FilledSlot(L[f.at[1]][f.at[2]], f.qty)])]
      <4>1. LevelsOK(L, Orders) /\ fs \in Seq(Fills(Orders)) /\ f \in Fills(Orders)
        BY <1>5, <1>11, <1>12
      <4> QED BY <3>1, <3>5, <3>6, <4>1, AfterOneMore
    <3> QED BY <3>2, <3>4, <3>7
  <2>2. /\ q >= o.qty => LevelBecomes(data, data', p, FreeIfEmpty([D[p] EXCEPT ![s] = NoOrder]))
        /\ ~(q >= o.qty) => SlotWritten(data, data', p, s, SetSlotQuantity(o, o.qty - q))
        /\ SameCounters(data, data')
    <3>1. data' = TakeFrom(data, data.map[p], s, q)
      <4> HIDE DEF q
      <4> QED BY <1>4, <1>7, <1>10
    <3>2. Sound(data)
      BY DEF LayoutInv
    <3> HIDE DEF q
    <3> QED BY <1>7, <1>10, <3>1, <3>2, TakeFromSound
  <2>3. L[p][s] = o
    BY <1>7 DEF OrderAt
  <2>4. CASE q >= o.qty
    <3>1. x = NoOrder
      BY <2>3, <2>4 DEF FilledSlot
    <3>2. SlotsOf(data') = [D EXCEPT ![p] = FreeIfEmpty([D[p] EXCEPT ![s] = NoOrder])]
      BY <2>2, <2>4 DEF LevelBecomes
    <3> QED BY <2>1, <2>2, <3>1, <3>2
  <2>5. CASE ~(q >= o.qty)
    <3>1. o \in Orders /\ q \in 1 .. o.qty - 1
      <4>1. o \in Orders /\ o.qty \in Nat
        BY <1>5, <1>7, RestingOrders
      <4>2. q # 0
        <5>1. f.qty = q
          BY DEF FillAt
        <5>2. f.qty \in Nat \ {0}
          BY <1>12 DEF Fills
        <5> QED BY <5>1, <5>2
      <4> HIDE DEF q, o
      <4> QED BY <1>10, <2>5, <4>1, <4>2
    <3>2. x = SetSlotQuantity(o, o.qty - q) /\ x \in Orders
      <4>1. x = [o EXCEPT !.qty = @ - q]
        BY <2>3, <2>5 DEF FilledSlot
      <4> HIDE DEF x, o, q
      <4>2. x \in Orders
        BY <3>1, <4>1, OrdersReducible DEF Reducible
      <4>3. x = SetSlotQuantity(o, o.qty - q)
        BY <3>1, <4>1 DEF SetSlotQuantity, Orders
      <4> QED BY <4>2, <4>3
    <3>3. IsOrder(x)
      BY <3>2, AccountAssumption DEF IsOrder
    <3>4. s \in DOMAIN D[p]
      <4>1. DOMAIN D[p] = 1 .. Level(data, p).slots
        <5>1. D[p] = [t \in 1 .. Level(data, p).slots |-> data.cells[data.map[p] + t]]
          BY <1>7, SlotsAt
        <5> QED BY <5>1
      <4>2. s \in 1 .. Level(data, p).slots
        BY <1>7 DEF ActiveAt, ActiveSlots
      <4> QED BY <4>1, <4>2
    <3>5. FreeIfEmpty([D[p] EXCEPT ![s] = x]) = [D[p] EXCEPT ![s] = x]
      <4> HIDE DEF x, D
      <4>1. s \in DOMAIN [D[p] EXCEPT ![s] = x] /\ [D[p] EXCEPT ![s] = x][s] = x
        BY <3>4
      <4> QED BY <3>3, <4>1 DEF FreeIfEmpty
    <3>6. SlotsOf(data') = [D EXCEPT ![p] = [D[p] EXCEPT ![s] = SetSlotQuantity(o, o.qty - q)]]
      BY <2>2, <2>5 DEF LevelBecomes, SlotWritten
    <3>7. SlotsOf(data') = [D EXCEPT ![p] = FreeIfEmpty([D[p] EXCEPT ![s] = x])]
      <4> HIDE DEF x, D, o, q
      <4> QED BY <3>2, <3>5, <3>6
    <3> QED BY <2>1, <2>2, <3>7
  <2> QED BY <2>4, <2>5
<1>16. DoneSoFar(m[k + 1])'
  <2>1. SlotsOf(data)' = AfterFills(L, m[k + 1].fills)
    BY <1>9, <1>15
  <2>2. Events(m[k + 1].fills)' = Events(m[k + 1].fills)
    BY <1>1 DEF Events
  <2>3. SameCounters(account, data')
    BY <1>8, <1>15 DEF DoneSoFar, SameCounters
  <2> QED BY <1>1, <1>13, <1>14, <2>1, <2>2, <2>3 DEF DoneSoFar
<1>17. NonePassed(k + 1)'
  <2>1. \A j \in (k + 1) + 1 .. CrossingCount : j \in k + 1 .. CrossingCount
    BY <1>5
  <2>2. NonePassed(k)
    BY <1>3 DEF At
  <2>3. CrossingCount' = CrossingCount /\ Scan' = Scan
    BY <1>1 DEF CrossingCount, Scan
  <2> QED BY <1>1, <2>1, <2>2, <2>3 DEF NonePassed, AheadOf
<1>18. At(m, k + 1)'
  <2>1. Chain(m)' /\ CrossingCount' = CrossingCount
    BY <1>1, <1>8 DEF Chain, CrossingCount
  <2>2. Len(m[k + 1].fills) = k + 1
    BY <1>9, <1>12
  <2> QED BY <1>12, <1>16, <1>17, <2>1, <2>2 DEF At
<1>19. OrderCall'
  BY <1>1, <1>2 DEF OrderCall
<1> QED BY <1>18, <1>19 DEF MatchInv

(* Entering the next level passes no order that is still to be served.     *)
LEMMA EnteringPassesNone ==
  ASSUME LayoutInv, MatchInv, EnterLevel
  PROVE  MatchInv'
<1>1. /\ phase = "match" /\ ~Exhausted /\ Makers = {} /\ phase' = "match" /\ call' = call
      /\ account' = account /\ trading' = trading /\ data' = data /\ result' = result
  BY DEF EnterLevel, Go
<1>2. OrderCall /\ \E m, k : At(m, k)
  BY <1>1 DEF MatchInv
<1>3. PICK m, k : At(m, k)
  BY <1>2
<1>4. PICK p \in ToScan : NextLevel(p) /\ loop'.price = p
  BY DEF EnterLevel
<1>5. \A j \in k + 1 .. CrossingCount : Scan[j][1] \in ToScan
  BY <1>1, <1>2, <1>3, StillToServe
<1>6. CrossingCount' = CrossingCount /\ Scan' = Scan
  BY <1>1 DEF CrossingCount, Scan
<1>7. NonePassed(k)'
  <2>1. \A j \in k + 1 .. CrossingCount : Scan[j][1] = p \/ AheadOf(p, Scan[j][1])
    BY <1>4, <1>5 DEF NextLevel
  <2> QED BY <1>1, <1>4, <1>6, <2>1 DEF NonePassed, AheadOf
<1>8. Chain(m)' /\ DoneSoFar(m[k])' /\ OrderCall'
  BY <1>1, <1>2, <1>3 DEF At, Chain, DoneSoFar, Events, SameCounters, OrderCall
<1>9. At(m, k)'
  BY <1>3, <1>6, <1>7, <1>8 DEF At
<1> QED BY <1>8, <1>9 DEF MatchInv

-----------------------------------------------------------------------------
(* The match is over.                                                      *)

(* What the match comes to.                                                *)
TheMatch ==
  MatchAgainstBook(SlotsOf(account), call.side, call.price, call.qty, call.maxFills)

(* The loops end with the match that the book promises, and while the order*)
(* wants more with nothing left on the book that crosses it.               *)
LEMMA MatchEnds ==
  ASSUME LayoutInv, MatchInv, phase = "match", Matched
  PROVE  OrderCall /\ DoneSoFar(TheMatch)
<1>1. OrderCall /\ \E m, k : At(m, k)
  BY DEF MatchInv
<1>2. PICK m, k : At(m, k)
  BY <1>1
<1>3. Exhausted \/ (Makers = {} /\ ToScan = {})
  BY DEF Matched
<1>4. /\ LevelsOK(SlotsOf(account), Orders) /\ call.qty \in Nat
      /\ Exhausted <=> ~GoesOn(m[k], call.maxFills)
      /\ CrossingCount \in Nat /\ k \in 0 .. CrossingCount
  BY <1>1, <1>2, AtFacts DEF LayoutInv, OrderCall, At
<1>5. ~Exhausted => k = CrossingCount
  <2> SUFFICES ASSUME ~Exhausted, k # CrossingCount PROVE FALSE
    OBVIOUS
  <2>1. k + 1 \in k + 1 .. CrossingCount
    BY <1>4
  <2>2. Scan[k + 1][2] \in Makers \/ Scan[k + 1][1] \in ToScan
    BY <1>1, <1>2, <2>1, StillToServe
  <2> QED BY <1>3, <2>2
<1>6. TheMatch = m[k]
  BY <1>2, <1>4, <1>5, ChainStops DEF TheMatch, At, Chain, CrossingCount
<1> QED BY <1>1, <1>2, <1>6 DEF At

-----------------------------------------------------------------------------
(* The rest of the order in progress.                                      *)

(* The book after the fills of the match.                                  *)
MatchedBook == [BookOf(account) EXCEPT !.levels = AfterFills(@, TheMatch.fills)]

(* A free slot at the order's price has been made.                         *)
RestInv ==
  phase = "rest" =>
    /\ OrderCall /\ WantsRest
    /\ result.remaining = TheMatch.remaining
    /\ result.fills = Events(TheMatch.fills)
    /\ CanAllocate(MatchedBook, call.price)
    /\ BookOf(data) = WithFreeSlot(MatchedBook, call.price)

(* A book with a free slot, part by part.                                  *)
LEMMA FreeSlotByParts ==
  ASSUME NEW b, b = [levels |-> b.levels, nextId |-> b.nextId, allocated |-> b.allocated], NEW p
  PROVE  LET lv == b.levels[p]
         IN  WithFreeSlot(b, p)
               = [levels |-> [b.levels EXCEPT ![p] = IF FreeSlots(lv) # {} THEN lv
                                                     ELSE Append(lv, NoOrder)],
                  nextId |-> b.nextId,
                  allocated |-> IF lv = <<>> THEN b.allocated + 1 ELSE b.allocated]
<1> DEFINE wide == IF FreeSlots(b.levels[p]) # {} THEN b.levels[p]
                   ELSE Append(b.levels[p], NoOrder)
           more == IF b.levels[p] = <<>> THEN b.allocated + 1 ELSE b.allocated
           d == WithFreeSlot(b, p)
<1>1. d = [b EXCEPT !.levels[p] = wide, !.allocated = more]
  BY Zenon DEF WithFreeSlot, NeedsNewLevel
<1> HIDE DEF wide, more, d
<1>2. d = [levels |-> [b.levels EXCEPT ![p] = wide], nextId |-> b.nextId, allocated |-> more]
  BY <1>1
<1> QED BY <1>2 DEF wide, more, d

(* The slots of a level are free in the book where they are in its cells.  *)
LEMMA FreeInBoth ==
  ASSUME NEW a, Sound(a), NEW p \in Prices
  PROVE  /\ HasLevel(a, p) <=> SlotsOf(a)[p] # <<>>
         /\ HasLevel(a, p) => FreeSlotsAt(a, a.map[p], Level(a, p).slots) = FreeSlots(SlotsOf(a)[p])
         /\ ~HasLevel(a, p) => FreeSlots(SlotsOf(a)[p]) = {}
<1>1. CASE HasLevel(a, p)
  <2>1. /\ DOMAIN SlotsOf(a)[p] = 1 .. Level(a, p).slots
        /\ \A s \in 1 .. Level(a, p).slots : SlotsOf(a)[p][s] = Slot(a, a.map[p], s)
    <3>1. SlotsOf(a)[p] = [s \in 1 .. Level(a, p).slots |-> a.cells[a.map[p] + s]]
      BY <1>1, SlotsAt
    <3> QED BY <3>1 DEF Slot
  <2>2. 1 \in 1 .. Level(a, p).slots
    <3>1. LevelOK(a, p)
      BY <1>1, LevelsOfSound
    <3> QED BY <3>1 DEF LevelOK, Headers
  <2>3. FreeSlotsAt(a, a.map[p], Level(a, p).slots) = FreeSlots(SlotsOf(a)[p])
    BY <2>1 DEF FreeSlotsAt, ActiveSlots, FreeSlots
  <2>4. SlotsOf(a)[p] # <<>>
    <3>1. DOMAIN <<>> = {}
      OBVIOUS
    <3> QED BY <2>1, <2>2, <3>1
  <2> QED BY <1>1, <2>3, <2>4
<1>2. CASE ~HasLevel(a, p)
  <2>1. SlotsOf(a)[p] = <<>>
    BY <1>2, SlotsAt
  <2> QED BY <1>2, <2>1 DEF FreeSlots
<1> QED BY <1>1, <1>2

(* Facts about the match of the call.                                      *)
LEMMA TheMatchOK ==
  ASSUME Sound(account), OrderCall
  PROVE  /\ TheMatch.fills \in Seq(Fills(Orders)) /\ TheMatch.remaining \in Nat
         /\ BookOK(MatchedBook, Orders)
         /\ MatchedBook = [levels |-> AfterFills(SlotsOf(account), TheMatch.fills),
                           nextId |-> account.nextId, allocated |-> account.maxLevels]
         /\ LevelsOK(SlotsOf(account), Orders)
         /\ MatchOK(SlotsOf(account), Orders, call.side, call.price, call.qty, TheMatch)
         /\ FillsApplied(SlotsOf(account), TheMatch.fills, MatchedBook.levels)
<1>1. LevelsOK(SlotsOf(account), Orders) /\ call.qty \in Nat /\ BookOK(BookOf(account), Orders)
  BY SoundLevels DEF OrderCall
<1>2. MatchOK(SlotsOf(account), Orders, call.side, call.price, call.qty, TheMatch)
  BY <1>1, MatchFacts DEF TheMatch
<1>3. TheMatch.fills \in Seq(Fills(Orders)) /\ TheMatch.remaining \in Nat
  BY <1>2 DEF MatchOK, Matches
<1>4. MatchedBook = [levels |-> AfterFills(SlotsOf(account), TheMatch.fills),
                     nextId |-> account.nextId, allocated |-> account.maxLevels]
  BY BookByParts DEF MatchedBook
<1>5. /\ LevelsOK(AfterFills(SlotsOf(account), TheMatch.fills), Orders)
      /\ FillsApplied(SlotsOf(account), TheMatch.fills, AfterFills(SlotsOf(account), TheMatch.fills))
  BY <1>1, <1>2, MatchFits, OrdersReducible, AfterFillsApplied
<1>6. BookOK(MatchedBook, Orders)
  <2>1. account.nextId \in Nat /\ account.maxLevels \in Nat
    BY DEF Sound, AccountOK
  <2> QED BY <1>4, <1>5, <2>1 DEF BookOK, LevelsOK
<1>7. MatchedBook.levels = AfterFills(SlotsOf(account), TheMatch.fills)
  BY <1>4
<1> QED BY <1>1, <1>2, <1>3, <1>4, <1>5, <1>6, <1>7

(* The book when the match is over, before room is made.                   *)
LEMMA MatchedIsBook ==
  ASSUME LayoutInv, MatchInv, phase = "match", Matched
  PROVE  /\ OrderCall /\ BookOf(data) = MatchedBook
         /\ result.remaining = TheMatch.remaining /\ result.fills = Events(TheMatch.fills)
<1>1. OrderCall /\ DoneSoFar(TheMatch)
  BY MatchEnds
<1>2. BookOf(data) = MatchedBook
  BY <1>1, BookByParts, TheMatchOK DEF DoneSoFar, SameCounters, LayoutInv
<1> QED BY <1>1, <1>2 DEF DoneSoFar

(* Once room has been made it is there.                                    *)
LEMMA RoomStays ==
  ASSUME LayoutInv, RestInv, phase = "rest"
  PROVE  HasRoom
<1> DEFINE p == call.price
           b == WithFreeSlot(MatchedBook, p)
<1>1. OrderCall /\ BookOf(data) = b /\ p \in Prices /\ Sound(account) /\ Sound(data)
  BY DEF RestInv, OrderCall, LayoutInv
<1>2. BookOK(MatchedBook, Orders)
  BY <1>1, TheMatchOK
<1>3. FirstFree(b.levels[p]) \in DOMAIN b.levels[p] /\ ~ IsOrder(b.levels[p][FirstFree(b.levels[p])])
  <2> HIDE DEF p
  <2> QED BY <1>1, <1>2, RoomIsMade
<1>4. FreeSlots(SlotsOf(data)[p]) # {}
  BY <1>1, <1>3, BookByParts DEF FreeSlots
<1> QED BY <1>1, <1>4, FreeInBoth DEF HasRoom, NeedsLevel, IsFull

(* When an order is to rest in a free slot the book is the matched one with*)
(* room made, and there was a level to be had if one was needed.           *)
LEMMA RoomReady ==
  ASSUME LayoutInv, MatchInv, RestInv, Matched, WantsRest, HasRoom
  PROVE  /\ OrderCall /\ BookOf(data) = WithFreeSlot(MatchedBook, call.price)
         /\ CanAllocate(MatchedBook, call.price)
         /\ result.remaining = TheMatch.remaining /\ result.fills = Events(TheMatch.fills)
<1>1. CASE phase = "rest"
  BY <1>1 DEF RestInv
<1>2. CASE phase = "match"
  <2> DEFINE p == call.price
             lv == SlotsOf(data)
  <2>1. /\ OrderCall /\ BookOf(data) = MatchedBook /\ p \in Prices /\ Sound(data)
        /\ result.remaining = TheMatch.remaining /\ result.fills = Events(TheMatch.fills)
    BY <1>2, MatchedIsBook DEF OrderCall, LayoutInv
  <2>2. lv[p] # <<>> /\ FreeSlots(lv[p]) # {}
    BY <2>1, FreeInBoth DEF HasRoom, NeedsLevel, IsFull
  <2>3. WithFreeSlot(BookOf(data), p) = BookOf(data)
    <3> DEFINE b == BookOf(data)
    <3>1. /\ b = [levels |-> b.levels, nextId |-> b.nextId, allocated |-> b.allocated]
          /\ b.levels = lv
      BY BookByParts
    <3>2. [lv EXCEPT ![p] = lv[p]] = lv
      <4>1. lv = [q \in Prices |-> lv[q]]
        BY DEF SlotsOf, BookOf
      <4> QED BY <4>1
    <3> HIDE DEF lv, p, b
    <3>3. WithFreeSlot(b, p) = [levels |-> [lv EXCEPT ![p] = IF FreeSlots(lv[p]) # {} THEN lv[p]
                                                             ELSE Append(lv[p], NoOrder)],
                                nextId |-> b.nextId,
                                allocated |-> IF lv[p] = <<>> THEN b.allocated + 1
                                              ELSE b.allocated]
      BY <3>1, FreeSlotByParts
    <3>4. WithFreeSlot(b, p) = b
      BY <2>2, <3>1, <3>2, <3>3
    <3> QED BY <3>4 DEF b
  <2>4. CanAllocate(MatchedBook, p)
    BY <2>1, <2>2, BookByParts DEF CanAllocate, NeedsNewLevel
  <2> QED BY <2>1, <2>3, <2>4
<1> QED BY <1>1, <1>2 DEF Matched

(* A level is allocated, or expanded, and the book has room.               *)
LEMMA NewLevelIsRoom ==
  ASSUME LayoutInv, MatchInv, RestInv, AllocateNewLevel
  PROVE  RestInv'
<1> DEFINE p == call.price
           lv == SlotsOf(data)
<1>1. /\ Matched /\ WantsRest /\ ~HasLevel(data, p) /\ CanInitLevel(data) /\ data' = InitLevel(data, p)
      /\ result' = result /\ call' = call /\ account' = account /\ trading' = trading
  BY DEF AllocateNewLevel, Go, NeedsLevel
<1>2. phase = "match"
  BY <1>1, RoomStays DEF HasRoom, NeedsLevel, Matched
<1>3. /\ OrderCall /\ BookOf(data) = MatchedBook /\ p \in Prices /\ Sound(data)
      /\ result.remaining = TheMatch.remaining /\ result.fills = Events(TheMatch.fills)
  BY <1>1, <1>2, MatchedIsBook DEF OrderCall, LayoutInv
<1>4. SlotsOf(data') = [lv EXCEPT ![p] = <<NoOrder>>]
      /\ data'.nextId = data.nextId /\ data'.maxLevels = data.maxLevels + 1
  BY <1>1, <1>3, InitLevelSound DEF LevelBecomes
<1>5. lv[p] = <<>> /\ FreeSlots(lv[p]) = {}
  BY <1>1, <1>3, FreeInBoth
<1>6. BookOf(data') = WithFreeSlot(BookOf(data), p)
  <2>2. BookOf(data') = [levels |-> SlotsOf(data'), nextId |-> data'.nextId, allocated |-> data'.maxLevels]
    BY BookByParts
  <2> DEFINE b == BookOf(data)
  <2>0. /\ b = [levels |-> b.levels, nextId |-> b.nextId, allocated |-> b.allocated]
        /\ b.levels = lv /\ b.nextId = data.nextId /\ b.allocated = data.maxLevels
    BY BookByParts
  <2>3. Append(<<>>, NoOrder) = <<NoOrder>>
    OBVIOUS
  <2> HIDE DEF lv, p, b
  <2>4. WithFreeSlot(b, p)
          = [levels |-> [lv EXCEPT ![p] = IF FreeSlots(lv[p]) # {} THEN lv[p]
                                          ELSE Append(lv[p], NoOrder)],
             nextId |-> data.nextId,
             allocated |-> IF lv[p] = <<>> THEN data.maxLevels + 1 ELSE data.maxLevels]
    BY <2>0, FreeSlotByParts
  <2>5. WithFreeSlot(b, p) = [levels |-> [lv EXCEPT ![p] = <<NoOrder>>],
                              nextId |-> data.nextId, allocated |-> data.maxLevels + 1]
    BY <1>5, <2>3, <2>4
  <2> QED BY <1>4, <2>2, <2>5 DEF b
<1>7. CanAllocate(MatchedBook, p)
  BY <1>1, <1>3, BookByParts DEF CanAllocate, CanInitLevel
<1>8. MatchedBook' = MatchedBook /\ TheMatch' = TheMatch /\ Events(TheMatch.fills)' = Events(TheMatch.fills)
  BY <1>1 DEF MatchedBook, TheMatch, Events
<1>9. OrderCall' /\ WantsRest'
  BY <1>1, <1>3 DEF OrderCall, WantsRest
<1> QED BY <1>1, <1>3, <1>6, <1>7, <1>8, <1>9 DEF RestInv

(* Widening the full level of the price makes a free slot at it, as the    *)
(* book does.                                                              *)
LEMMA WiderLevelIsRoom ==
  ASSUME LayoutInv, MatchInv, RestInv, ExpandFullLevel
  PROVE  RestInv'
<1> DEFINE p == call.price
           lv == SlotsOf(data)
<1>1. /\ Matched /\ WantsRest /\ IsFull /\ HasLevel(data, p) /\ CanExpandLevel(data, p)
      /\ data' = ExpandLevel(data, p)
      /\ result' = result /\ call' = call /\ account' = account /\ trading' = trading
  BY DEF ExpandFullLevel, Go, IsFull, NeedsLevel
<1>2. phase = "match"
  BY <1>1, RoomStays DEF HasRoom, Matched
<1>3. /\ OrderCall /\ BookOf(data) = MatchedBook /\ p \in Prices /\ Sound(data)
      /\ result.remaining = TheMatch.remaining /\ result.fills = Events(TheMatch.fills)
  BY <1>1, <1>2, MatchedIsBook DEF OrderCall, LayoutInv
<1>4. SlotsOf(data') = [lv EXCEPT ![p] = Append(lv[p], NoOrder)]
      /\ data'.nextId = data.nextId /\ data'.maxLevels = data.maxLevels
  BY <1>1, <1>3, ExpandLevelSound DEF LevelBecomes, SameCounters
<1>5. lv[p] # <<>> /\ FreeSlots(lv[p]) = {}
  BY <1>1, <1>3, FreeInBoth DEF IsFull
<1>6. BookOf(data') = WithFreeSlot(BookOf(data), p)
  <2>2. BookOf(data') = [levels |-> SlotsOf(data'), nextId |-> data'.nextId, allocated |-> data'.maxLevels]
    BY BookByParts
  <2> DEFINE b == BookOf(data)
  <2>0. /\ b = [levels |-> b.levels, nextId |-> b.nextId, allocated |-> b.allocated]
        /\ b.levels = lv /\ b.nextId = data.nextId /\ b.allocated = data.maxLevels
    BY BookByParts
  <2> HIDE DEF lv, p, b
  <2>3. WithFreeSlot(b, p)
          = [levels |-> [lv EXCEPT ![p] = IF FreeSlots(lv[p]) # {} THEN lv[p]
                                          ELSE Append(lv[p], NoOrder)],
             nextId |-> data.nextId,
             allocated |-> IF lv[p] = <<>> THEN data.maxLevels + 1 ELSE data.maxLevels]
    BY <2>0, FreeSlotByParts
  <2>4. WithFreeSlot(b, p) = [levels |-> [lv EXCEPT ![p] = Append(lv[p], NoOrder)],
                              nextId |-> data.nextId, allocated |-> data.maxLevels]
    BY <1>5, <2>3
  <2> QED BY <1>4, <2>2, <2>4 DEF b
<1>7. CanAllocate(MatchedBook, p)
  BY <1>3, <1>5, BookByParts DEF CanAllocate, NeedsNewLevel
<1>8. MatchedBook' = MatchedBook /\ TheMatch' = TheMatch /\ Events(TheMatch.fills)' = Events(TheMatch.fills)
  BY <1>1 DEF MatchedBook, TheMatch, Events
<1>9. OrderCall' /\ WantsRest'
  BY <1>1, <1>3 DEF OrderCall, WantsRest
<1> QED BY <1>1, <1>3, <1>6, <1>7, <1>8, <1>9 DEF RestInv

-----------------------------------------------------------------------------
(* Transactions that end.                                                  *)

(* A commit of what the match and the resting promise is Book's step.      *)
LEMMA AsPromised ==
  ASSUME LayoutInv, OrderCall, NEW b, Commit(b, result.fills),
         result.remaining = TheMatch.remaining, result.fills = Events(TheMatch.fills),
         call.isLimit \/ result.fills # <<>>,
         WantsRest => CanAllocate(MatchedBook, call.price),
         BookOf(b) = IF WantsRest
                     THEN RestOrder(MatchedBook, call.owner, call.side, call.price,
                                    result.remaining, now)
                     ELSE MatchedBook
  PROVE  Abstract!PlaceOrder(call.owner, call.side, call.price, call.qty,
                             call.isLimit, call.maxFills)
<1> DEFINE m == TheMatch
           book == BookOf(account)
           matched == MatchedBook
           wants == call.isLimit /\ m.remaining >= MinOrder
<1>1. Abstract!MatchAgainstBook(book.levels, call.side, call.price, call.qty, call.maxFills) = m
  BY SameMatch, BookByParts DEF TheMatch
<1>2. [book EXCEPT !.levels = Abstract!AfterFills(@, m.fills)] = matched
  BY SameAfterFills, Zenon DEF MatchedBook
<1>3. trading /\ call.qty >= MinOrder
  BY DEF OrderCall
<1>4. WantsRest <=> wants
  BY DEF WantsRest
<1>5. m.fills # <<>> \/ call.isLimit
  <2>1. m.fills \in Seq(Fills(Orders))
    BY TheMatchOK DEF LayoutInv
  <2> QED BY <2>1, EventsFacts
<1>6. wants => Abstract!CanAllocate(matched, call.price)
  BY <1>4, SameCanAllocate
<1>7. BookOf(account)' = IF wants
                         THEN Abstract!RestOrder(matched, call.owner, call.side, call.price,
                                                 m.remaining, now)
                         ELSE matched
  <2>1. BookOf(account)' = BookOf(b)
    BY DEF Commit, BookOf, HasLevel, Level, Slot
  <2>2. Abstract!RestOrder(matched, call.owner, call.side, call.price, m.remaining, now)
          = RestOrder(matched, call.owner, call.side, call.price, m.remaining, now)
    BY SameRest
  <2> HIDE DEF m, matched
  <2> QED BY <1>4, <2>1, <2>2 DEF m, matched
<1>8. fills' = [i \in DOMAIN m.fills |-> Abstract!FillEvent(call.owner, call.side, m.fills[i])]
  BY DEF Commit, Events
<1>9. UNCHANGED <<now, trading>>
  BY DEF Commit
<1> HIDE DEF m, book, matched, wants
<1>10. BookOf(account) = book /\ wants = (call.isLimit /\ m.remaining >= MinOrder)
  BY DEF book, wants
<1> QED BY <1>1, <1>2, <1>3, <1>5, <1>6, <1>7, <1>8, <1>9, <1>10, Zenon DEF Abstract!PlaceOrder

(* The order written in the free slot is the one the book rests.           *)
LEMMA RestedAsPromised ==
  ASSUME LayoutInv, MatchInv, RestInv, RestOrderInSlot
  PROVE  Abstract!PlaceOrder(call.owner, call.side, call.price, call.qty,
                             call.isLimit, call.maxFills)
<1> DEFINE p == call.price
           order == [owner |-> call.owner, id |-> data.nextId, side |-> call.side,
                     qty |-> result.remaining, ts |-> now]
           b == WriteOrder(data, p, order)
           w == WithFreeSlot(MatchedBook, p)
<1>1. Matched /\ WantsRest /\ HasRoom /\ data.nextId < MaxOrderId /\ Commit(b, result.fills)
  BY DEF RestOrderInSlot
<1>2. /\ OrderCall /\ BookOf(data) = w /\ CanAllocate(MatchedBook, p)
      /\ result.remaining = TheMatch.remaining /\ result.fills = Events(TheMatch.fills)
  BY <1>1, RoomReady
<1>3. p \in Prices /\ Sound(data) /\ Sound(account) /\ BookOK(MatchedBook, Orders)
  BY <1>2, TheMatchOK DEF OrderCall, LayoutInv
<1>4. HasLevel(data, p) /\ FreeSlotsAt(data, data.map[p], Level(data, p).slots) # {}
  BY <1>1 DEF HasRoom, IsFull, NeedsLevel
<1>5. order \in Orders
  <2>1. data.nextId \in Nat /\ now \in Nat /\ result.remaining \in Nat /\ result.remaining >= MinOrder
    BY <1>1, <1>2, <1>3, TheMatchOK DEF Sound, AccountOK, LayoutInv, RunInv, WantsRest
  <2> QED BY <1>2, <2>1, BookAssumption DEF OrderCall, Orders
<1>6. /\ SlotWritten(data, b, p, FirstFree(SlotsOf(data)[p]), order)
      /\ b.nextId = data.nextId + 1 /\ b.maxLevels = data.maxLevels
  <2> HIDE DEF order
  <2> QED BY <1>3, <1>4, <1>5, WriteOrderSound
<1>7. data.nextId = MatchedBook.nextId
  <2>1. w.nextId = MatchedBook.nextId
    BY <1>3, RoomIsMade
  <2> QED BY <1>2, <2>1, BookByParts
<1>8. BookOf(b) = RestOrder(MatchedBook, call.owner, call.side, p, result.remaining, now)
  <2> DEFINE i == FirstFree(w.levels[p])
             new == RestOrder(MatchedBook, call.owner, call.side, p, result.remaining, now)
  <2>1. new = [w EXCEPT !.levels[p][i] = order, !.nextId = @ + 1]
    <3>1. CanAssignId(MatchedBook)
      BY <1>1, <1>7 DEF CanAssignId
    <3> QED BY <1>7, <3>1 DEF RestOrder
  <2>2. /\ w = [levels |-> w.levels, nextId |-> w.nextId, allocated |-> w.allocated]
        /\ w.levels = SlotsOf(data) /\ w.nextId = data.nextId /\ w.allocated = data.maxLevels
    BY <1>2, BookByParts
  <2> HIDE DEF new, i, w, order
  <2>3. new = [levels |-> [w.levels EXCEPT ![p] = [w.levels[p] EXCEPT ![i] = order]],
               nextId |-> w.nextId + 1, allocated |-> w.allocated]
    <3>1. new = [w EXCEPT !.levels[p][i] = order, !.nextId = w.nextId + 1]
      BY <2>1
    <3> HIDE DEF p
    <3> QED BY <2>2, <3>1
  <2>4. SlotsOf(b) = [SlotsOf(data) EXCEPT ![p] = [SlotsOf(data)[p] EXCEPT ![i] = order]]
    BY <1>6, <2>2 DEF SlotWritten, LevelBecomes, i
  <2> HIDE DEF b
  <2>5. BookOf(b) = [levels |-> SlotsOf(b), nextId |-> b.nextId, allocated |-> b.maxLevels]
    BY BookByParts
  <2> QED BY <1>6, <2>2, <2>3, <2>4, <2>5 DEF new
<1> HIDE DEF b
<1> QED BY <1>1, <1>2, <1>8, AsPromised DEF WantsRest

(* An order that is over without resting leaves the matched book, with the *)
(* room it made if there is no id for it.                                  *)
LEMMA FinishedAsPromised ==
  ASSUME LayoutInv, MatchInv, RestInv, FinishOrder
  PROVE  Abstract!PlaceOrder(call.owner, call.side, call.price, call.qty,
                             call.isLimit, call.maxFills)
<1> DEFINE p == call.price
<1>1. /\ Matched /\ (WantsRest => HasRoom /\ data.nextId >= MaxOrderId)
      /\ call.isLimit \/ result.fills # <<>>
      /\ Commit(data, result.fills)
  BY DEF FinishOrder
<1>2. CASE WantsRest
  <2>1. /\ OrderCall /\ BookOf(data) = WithFreeSlot(MatchedBook, p) /\ CanAllocate(MatchedBook, p)
        /\ result.remaining = TheMatch.remaining /\ result.fills = Events(TheMatch.fills)
    BY <1>1, <1>2, RoomReady
  <2>2. p \in Prices /\ Sound(data) /\ BookOK(MatchedBook, Orders)
    BY <2>1, TheMatchOK DEF OrderCall, LayoutInv
  <2>3. data.nextId = MatchedBook.nextId
    <3>1. WithFreeSlot(MatchedBook, p).nextId = MatchedBook.nextId
      BY <2>2, RoomIsMade
    <3> QED BY <2>1, <3>1, BookByParts
  <2>4. ~CanAssignId(MatchedBook)
    <3>1. data.nextId \in Nat
      BY <2>2 DEF Sound, AccountOK
    <3> QED BY <1>1, <1>2, <2>3, <3>1, BookAssumption DEF CanAssignId
  <2>5. BookOf(data) = RestOrder(MatchedBook, call.owner, call.side, p, result.remaining, now)
    BY <2>1, <2>4, Zenon DEF RestOrder
  <2> QED BY <1>1, <1>2, <2>1, <2>5, AsPromised
<1>3. CASE ~WantsRest
  <2>1. phase = "match"
    BY <1>1, <1>3 DEF RestInv, Matched
  <2>2. /\ OrderCall /\ BookOf(data) = MatchedBook
        /\ result.remaining = TheMatch.remaining /\ result.fills = Events(TheMatch.fills)
    BY <1>1, <2>1, MatchedIsBook
  <2> QED BY <1>1, <1>3, <2>2, AsPromised
<1> QED BY <1>2, <1>3

(* A cancelled order is taken from its slot, and its level freed with the  *)
(* last.                                                                   *)
LEMMA CancelledAsPromised ==
  ASSUME LayoutInv, NEW u, NEW p \in Prices, NEW s, CancelOrder(u, p, s)
  PROVE  <<p, s>> \in Resting(BookOf(account).levels) /\ Abstract!CancelOrder(u, <<p, s>>)
<1> DEFINE l == account.map[p]
           at == <<p, s>>
           d == Deactivate(account, l, s)
           b == FreeIfDrained(d, l)
           L == SlotsOf(account)
<1>1. /\ trading /\ HasLevel(account, p) /\ s \in ActiveAt(account, p)
      /\ Slot(account, l, s).owner = u /\ Commit(b, <<>>)
  BY DEF CancelOrder, ActiveAt
<1>2. Sound(account)
  BY DEF LayoutInv
<1>3. at \in Resting(L) /\ OrderAt(L, at) = Slot(account, l, s)
  BY <1>1, <1>2, ActiveIsResting
<1>4. SlotsOf(b) = RemoveOrder(L, at) /\ SameCounters(account, b)
  <2>1. Sound(d) /\ d.map = account.map /\ SlotWritten(account, d, p, s, NoOrder)
        /\ SameCounters(account, d)
    BY <1>1, <1>2, DeactivateSound
  <2> HIDE DEF d
  <2>2. HasLevel(d, p) /\ d.map[p] = l
    BY <1>1, <2>1 DEF HasLevel
  <2>3. LevelBecomes(d, b, p, FreeIfEmpty(SlotsOf(d)[p])) /\ SameCounters(d, b)
    BY <2>1, <2>2, FreeIfDrainedSound
  <2> HIDE DEF b, l
  <2>4. LevelBecomes(account, d, p, [L[p] EXCEPT ![s] = NoOrder])
    BY <2>1 DEF SlotWritten
  <2>5. SlotsOf(d)[p] = [L[p] EXCEPT ![s] = NoOrder]
        /\ LevelBecomes(account, b, p, FreeIfEmpty(SlotsOf(d)[p]))
    BY <2>3, <2>4, WrittenTwice
  <2>6. SlotsOf(b) = [L EXCEPT ![p] = FreeIfEmpty([L[p] EXCEPT ![s] = NoOrder])]
    BY <2>5 DEF LevelBecomes
  <2>7. RemoveOrder(L, at) = [L EXCEPT ![p] = FreeIfEmpty([L[p] EXCEPT ![s] = NoOrder])]
    BY DEF RemoveOrder
  <2> QED BY <2>1, <2>3, <2>6, <2>7 DEF SameCounters
<1>5. BookOf(account)' = [BookOf(account) EXCEPT !.levels = Abstract!RemoveOrder(@, at)]
  <2>1. BookOf(account)' = BookOf(b)
    BY <1>1 DEF Commit, BookOf, HasLevel, Level, Slot
  <2>2. /\ BookOf(b) = [levels |-> SlotsOf(b), nextId |-> b.nextId, allocated |-> b.maxLevels]
        /\ BookOf(account) = [levels |-> L, nextId |-> account.nextId, allocated |-> account.maxLevels]
    BY BookByParts
  <2>3. Abstract!RemoveOrder(L, at) = RemoveOrder(L, at)
    BY SameRemove
  <2> DEFINE new == [BookOf(account) EXCEPT !.levels = Abstract!RemoveOrder(L, at)]
  <2>4. new = [BookOf(account) EXCEPT !.levels = RemoveOrder(L, at)]
    BY <2>3
  <2> HIDE DEF b, L, at, new
  <2>5. new = [levels |-> RemoveOrder(L, at), nextId |-> account.nextId, allocated |-> account.maxLevels]
    BY <2>2, <2>4
  <2>6. BookOf(b) = new
    BY <1>4, <2>2, <2>5 DEF SameCounters
  <2>7. BookOf(account).levels = L
    BY <2>2
  <2> QED BY <2>1, <2>6, <2>7 DEF new
<1>6. BookOf(account).levels = L
  BY BookByParts
<1>7. /\ at \in Abstract!Resting(BookOf(account).levels)
      /\ Abstract!OrderAt(BookOf(account).levels, at).owner = u
  BY <1>1, <1>3, <1>6, SameResting, SameAt
<1>8. fills' = <<>> /\ UNCHANGED <<now, trading>>
  BY <1>1 DEF Commit
<1> HIDE DEF b, L, at
<1> QED BY <1>1, <1>3, <1>5, <1>6, <1>7, <1>8, Zenon DEF Abstract!CancelOrder, at

-----------------------------------------------------------------------------
(* The crank in progress.                                                  *)

(* The orders of the account in the order a crank walks, how many there    *)
(* are, and how many of them the batch has dealt with.                     *)
ToCancel == CrankOrder(SlotsOf(account))
RestingCount == Cardinality(Resting(SlotsOf(account)))
Done == call.batch - result.remaining

(* A level without the first k orders of the crank's walk.                 *)
Without(k, p) ==
  [i \in DOMAIN SlotsOf(account)[p] |->
     IF \E j \in 1 .. k : ToCancel[j] = <<p, i>> THEN NoOrder ELSE SlotsOf(account)[p][i]]

(* The walk is over with level p.                                          *)
WalkedOver(p) == p < loop.price \/ (p = loop.price /\ phase = "crank")

(* While a crank walks, the copy is the account without the first Done     *)
(* orders, and the levels it is over with are freed where empty.           *)
CrankInv ==
  phase \in {"crank", "level"} =>
    /\ ~trading /\ call.batch \in Nat \ {0} /\ result.remaining \in 0 .. call.batch
    /\ result = [remaining |-> result.remaining, fills |-> <<>>]
    /\ Done \in 0 .. RestingCount /\ loop.price \in Nat
    /\ SameCounters(account, data)
    /\ \A p \in Prices :
         SlotsOf(data)[p] = IF WalkedOver(p) THEN FreeIfEmpty(Without(Done, p))
                                        ELSE Without(Done, p)
    /\ \A j \in 1 .. Done : ToCancel[j][1] <= loop.price
    /\ \A j \in Done + 1 .. RestingCount :
         IF phase = "level" THEN ToCancel[j][1] >= loop.price
         ELSE result.remaining = 0 \/ ToCancel[j][1] > loop.price
    /\ result.remaining = 0 => ToCancel[Done][1] = loop.price

(* The walk of the crank goes over the resting orders by price and slot.   *)
LEMMA WalkFacts ==
  ASSUME Sound(account)
  PROVE  /\ RestingCount \in Nat
         /\ \A j \in 1 .. RestingCount :
              /\ ToCancel[j] \in Resting(SlotsOf(account))
              /\ ToCancel[j][1] \in Prices /\ ToCancel[j][1] \in Nat /\ ToCancel[j][2] \in Nat
              /\ ToCancel[j] = <<ToCancel[j][1], ToCancel[j][2]>>
         /\ \A j, k \in 1 .. RestingCount : ToCancel[j] = ToCancel[k] => j = k
         /\ \A at \in Resting(SlotsOf(account)) : \E j \in 1 .. RestingCount : ToCancel[j] = at
         /\ \A j, k \in 1 .. RestingCount : j < k =>
              \/ ToCancel[j][1] < ToCancel[k][1]
              \/ ToCancel[j][1] = ToCancel[k][1] /\ ToCancel[j][2] < ToCancel[k][2]
         /\ ToCancel \in Seq(Resting(SlotsOf(account))) /\ Len(ToCancel) = RestingCount
<1> DEFINE L == SlotsOf(account)
           S == Resting(L)
           all == ToCancel
           N == RestingCount
<1>1. LevelsOK(L, Orders)
  BY SoundLevels
<1>2. N \in Nat
  BY <1>1, RestingFinite, FS_CardinalityType DEF RestingCount
<1>3. /\ all \in [1 .. N -> S]
      /\ \A j, k \in 1 .. N : all[j] = all[k] => j = k
      /\ \A a \in S : \E k \in 1 .. N : all[k] = a
      /\ \A j, k \in 1 .. N : j < k => <<all[j], all[k]>> \in CrankRelation(S)
  BY <1>1, CrankLists DEF Lists, ToCancel, RestingCount
<1>4. ASSUME NEW at \in S
      PROVE  at[1] \in Prices /\ at[1] \in Nat /\ at[2] \in Nat /\ at = <<at[1], at[2]>>
  <2>1. at[1] \in Prices /\ at[2] \in 1 .. Len(L[at[1]]) /\ at = <<at[1], at[2]>>
    BY <1>1, RestingOrders
  <2>2. L[at[1]] \in Seq(Orders \cup {NoOrder})
    BY <1>1, <2>1 DEF LevelsOK
  <2>3. Len(L[at[1]]) \in Nat
    BY <2>2
  <2> QED BY <2>1, <2>3, PricesAreNumbers
<1> HIDE DEF L, S, all, N
<1>5. all \in Seq(S) /\ Len(all) = N
  BY <1>2, <1>3
<1>6. \A j \in 1 .. N : all[j] \in S
  BY <1>3
<1>7. \A j, k \in 1 .. N : j < k =>
         all[j][1] < all[k][1] \/ (all[j][1] = all[k][1] /\ all[j][2] < all[k][2])
  BY <1>3 DEF CrankRelation
<1>8. \A j \in 1 .. N :
        all[j][1] \in Prices /\ all[j][1] \in Nat /\ all[j][2] \in Nat /\ all[j] = <<all[j][1], all[j][2]>>
  BY <1>4, <1>6
<1> QED BY <1>2, <1>3, <1>5, <1>6, <1>7, <1>8 DEF L, S, all, N

(* A level that none of the first k orders is on is as it was.             *)
LEMMA WithoutNone ==
  ASSUME Sound(account), NEW p \in Prices, NEW k,
         \A j \in 1 .. k : ToCancel[j][1] # p
  PROVE  Without(k, p) = SlotsOf(account)[p]
<1> DEFINE lvl == SlotsOf(account)[p]
<1>1. \A i : ~ \E j \in 1 .. k : ToCancel[j] = <<p, i>>
  <2>1. \A i : <<p, i>>[1] = p
    OBVIOUS
  <2> QED BY <2>1
<1>2. lvl = [i \in DOMAIN lvl |-> lvl[i]]
  <2>1. lvl \in Seq(Orders \cup {NoOrder})
    BY SoundLevels DEF LevelsOK
  <2> HIDE DEF lvl
  <2> QED BY <2>1
<1>3. Without(k, p) = [i \in DOMAIN lvl |-> lvl[i]]
  BY <1>1 DEF Without
<1> HIDE DEF lvl
<1> QED BY <1>2, <1>3 DEF lvl

(* An order taken from a level is taken from its slot.                     *)
LEMMA WithoutOneMore ==
  ASSUME Sound(account), NEW p \in Prices, NEW k \in Nat, NEW q, NEW s, ToCancel[k + 1] = <<q, s>>
  PROVE  Without(k + 1, p) = IF p = q THEN [Without(k, p) EXCEPT ![s] = NoOrder] ELSE Without(k, p)
<1> DEFINE lvl == SlotsOf(account)[p]
           new == Without(k + 1, p)
           old == Without(k, p)
<1>1. \A i : (\E j \in 1 .. k + 1 : ToCancel[j] = <<p, i>>)
              <=> (\E j \in 1 .. k : ToCancel[j] = <<p, i>>) \/ <<q, s>> = <<p, i>>
  <2> SUFFICES ASSUME NEW i
               PROVE  (\E j \in 1 .. k + 1 : ToCancel[j] = <<p, i>>)
                        <=> (\E j \in 1 .. k : ToCancel[j] = <<p, i>>) \/ <<q, s>> = <<p, i>>
    OBVIOUS
  <2> DEFINE at == <<p, i>>
  <2>1. \A j : j \in 1 .. k + 1 <=> (j \in 1 .. k \/ j = k + 1)
    OBVIOUS
  <2> HIDE DEF at
  <2>2. (\E j \in 1 .. k + 1 : ToCancel[j] = at) <=> (\E j \in 1 .. k : ToCancel[j] = at) \/ <<q, s>> = at
    BY <2>1
  <2> QED BY <2>2 DEF at
<1>2. /\ new = [i \in DOMAIN lvl |-> IF \E j \in 1 .. k + 1 : ToCancel[j] = <<p, i>>
                                     THEN NoOrder ELSE lvl[i]]
      /\ old = [i \in DOMAIN lvl |-> IF \E j \in 1 .. k : ToCancel[j] = <<p, i>>
                                     THEN NoOrder ELSE lvl[i]]
  BY DEF Without
<1> HIDE DEF lvl, new, old
<1>3. new = [i \in DOMAIN old |-> IF <<q, s>> = <<p, i>> THEN NoOrder ELSE old[i]]
  BY <1>1, <1>2
<1>4. new = [i \in DOMAIN old |-> IF q = p /\ s = i THEN NoOrder ELSE old[i]]
  BY <1>3
<1>5. old = [i \in DOMAIN old |-> old[i]]
  BY <1>2
<1>6. p = q => new = [old EXCEPT ![s] = NoOrder]
  BY <1>4, <1>5
<1>7. p # q => new = old
  BY <1>4, <1>5
<1> QED BY <1>6, <1>7 DEF new, old

(* The active slots of the level the crank is at hold the orders that come *)
(* next in its walk.                                                       *)
LEMMA ActiveIsToCome ==
  ASSUME LayoutInv, CrankInv, phase = "level", NEW s
  PROVE  s \in ActiveSlots(data, loop.loff, loop.slots) <=>
           \E j \in Done + 1 .. RestingCount : ToCancel[j] = <<loop.price, s>>
<1> DEFINE p == loop.price
           L == SlotsOf(account)
           D == SlotsOf(data)
           N == RestingCount
           t == Done
           at == <<p, s>>
<1>1. /\ Sound(account) /\ Sound(data) /\ p \in Prices /\ HasLevel(data, p)
      /\ data.map[p] = loop.loff /\ Level(data, p).slots = loop.slots
  BY DEF LayoutInv, RunInv
<1>2. D[p] = Without(t, p)
  <2>1. p \in Nat
    BY <1>1, PricesAreNumbers
  <2>2. ~WalkedOver(p)
    BY <2>1 DEF WalkedOver
  <2> QED BY <1>1, <2>2 DEF CrankInv
<1>3. t \in 0 .. N /\ N \in Nat
  BY <1>1, WalkFacts DEF CrankInv
<1>4. s \in ActiveSlots(data, loop.loff, loop.slots) <=> s \in DOMAIN D[p] /\ IsOrder(D[p][s])
  <2>1. D[p] = [x \in 1 .. loop.slots |-> data.cells[loop.loff + x]]
    BY <1>1, SlotsAt
  <2> QED BY <2>1 DEF ActiveSlots, Slot
<1>5. s \in DOMAIN D[p] /\ IsOrder(D[p][s]) <=>
        at \in Resting(L) /\ ~ \E j \in 1 .. t : ToCancel[j] = at
  <2>1. at \in Resting(L) <=> s \in DOMAIN L[p] /\ IsOrder(L[p][s])
    BY <1>1, RestingPlaces
  <2> QED BY <1>2, <2>1 DEF Without, IsOrder
<1>6. at \in Resting(L) <=> \E j \in 1 .. N : ToCancel[j] = at
  <2> HIDE DEF at
  <2> QED BY <1>1, WalkFacts
<1>7. \A j, k \in 1 .. N : ToCancel[j] = ToCancel[k] => j = k
  BY <1>1, WalkFacts
<1>8. \A j : j \in 1 .. N <=> (j \in 1 .. t \/ j \in t + 1 .. N)
  BY <1>3
<1>9. \A j : j \in 1 .. t => j \notin t + 1 .. N
  BY <1>3
<1> HIDE DEF at, t, N, D, L
<1>10. (at \in Resting(L) /\ ~ \E j \in 1 .. t : ToCancel[j] = at)
         <=> \E j \in t + 1 .. N : ToCancel[j] = at
  BY <1>6, <1>7, <1>8, <1>9
<1> QED BY <1>4, <1>5, <1>10 DEF at, t, N

(* First of a set of numbers is the least.                                 *)
LEMMA FirstIsLeast ==
  ASSUME NEW n \in Nat, NEW S \in SUBSET (1 .. n), S # {}
  PROVE  First(S) \in S /\ \A x \in S : First(S) <= x
<1>1. \E x \in S : \A y \in S : x <= y
  BY SmallestMember
<1> QED BY <1>1 DEF First

(* The crank starts with nothing taken.                                    *)
LEMMA CrankStarts ==
  ASSUME LayoutInv, data = account, loop.price = 0, NEW n \in CrankBatches, StartCrank(n)
  PROVE  CrankInv'
<1>1. /\ ~trading /\ trading' = trading /\ account' = account /\ data' = data /\ loop' = loop
      /\ phase' = "crank" /\ call'.batch = n /\ result'.remaining = n
      /\ result' = [remaining |-> result'.remaining, fills |-> <<>>]
  BY DEF StartCrank
<1>2. n \in Nat \ {0} /\ Sound(account)
  BY AccountAssumption DEF LayoutInv
<1>3. RestingCount' = RestingCount /\ ToCancel' = ToCancel /\ Done' = 0 /\ RestingCount \in Nat
  BY <1>1, <1>2, WalkFacts DEF RestingCount, ToCancel, Done
<1>4. ASSUME NEW p \in Prices
      PROVE  ~WalkedOver(p)' /\ Without(Done, p)' = SlotsOf(data)'[p]
  <2>1. p \in Nat /\ p # 0
    BY PricesAreNumbers
  <2>2. ~WalkedOver(p)'
    BY <1>1, <2>1 DEF WalkedOver
  <2>3. Without(0, p) = SlotsOf(account)[p]
    BY <1>2, WithoutNone
  <2>4. Without(Done, p)' = Without(0, p)
    BY <1>1, <1>3 DEF Without
  <2> QED BY <1>1, <2>2, <2>3, <2>4
<1>5. \A j \in 1 .. RestingCount : ToCancel[j][1] > 0
  BY <1>2, WalkFacts, PricesAreNumbers
<1>6. SameCounters(account, data)'
  BY <1>1 DEF SameCounters
<1> QED BY <1>1, <1>2, <1>3, <1>4, <1>5, <1>6 DEF CrankInv

(* It enters the next level that is there.                                 *)
LEMMA CrankEnters ==
  ASSUME LayoutInv, CrankInv, EnterCrankedLevel
  PROVE  CrankInv'
<1> DEFINE p == First(ToCrank)
           N == RestingCount
           t == Done
           L == SlotsOf(account)
           D == SlotsOf(data)
<1>1. /\ phase = "crank" /\ result.remaining > 0 /\ ToCrank # {} /\ loop'.price = p
      /\ phase' = "level" /\ trading' = trading /\ account' = account /\ data' = data
      /\ call' = call /\ result' = result
  BY DEF EnterCrankedLevel, Go
<1>2. p \in ToCrank /\ \A q \in ToCrank : p <= q
  <2>1. ToCrank \in SUBSET (1 .. Dollar - 1) /\ Dollar - 1 \in Nat
    BY DollarAssumption DEF ToCrank, Prices
  <2> HIDE DEF p
  <2> QED BY <1>1, <2>1, FirstIsLeast DEF p
<1> HIDE DEF p
<1>3. p \in Prices /\ p > loop.price /\ p \in Nat
  BY <1>2, PricesAreNumbers DEF ToCrank
<1>4. /\ ~trading /\ call.batch \in Nat \ {0} /\ result.remaining \in 0 .. call.batch
      /\ result = [remaining |-> result.remaining, fills |-> <<>>]
      /\ t \in 0 .. N /\ loop.price \in Nat /\ SameCounters(account, data)
      /\ \A q \in Prices : D[q] = IF WalkedOver(q) THEN FreeIfEmpty(Without(t, q)) ELSE Without(t, q)
      /\ \A j \in 1 .. t : ToCancel[j][1] <= loop.price
      /\ \A j \in t + 1 .. N : ToCancel[j][1] > loop.price
  BY <1>1 DEF CrankInv
<1>5. Sound(account) /\ Sound(data) /\ N \in Nat
  BY WalkFacts DEF LayoutInv
<1>6. \A j \in 1 .. N : ToCancel[j][1] \in Prices /\ ToCancel[j][1] \in Nat
  BY <1>5, WalkFacts
<1>7. ASSUME NEW q \in Prices, q > loop.price
      PROVE  D[q] = L[q] /\ Without(t, q) = L[q]
  <2>1. q \in Nat
    BY PricesAreNumbers
  <2>2. \A j \in 1 .. t : j \in 1 .. N
    BY <1>4, <1>5
  <2>3. \A j \in 1 .. t : ToCancel[j][1] # q
    BY <1>4, <1>6, <1>7, <2>1, <2>2
  <2>4. Without(t, q) = L[q]
    BY <1>5, <2>3, WithoutNone
  <2>5. ~WalkedOver(q)
    BY <1>4, <1>7, <2>1 DEF WalkedOver
  <2> QED BY <1>4, <2>4, <2>5
<1>8. ASSUME NEW q \in Prices, q > loop.price, ~(p <= q)
      PROVE  D[q] = <<>>
  <2>1. ~HasLevel(data, q)
    BY <1>2, <1>8 DEF ToCrank
  <2> QED BY <2>1, SlotsAt
<1>9. ASSUME NEW j \in t + 1 .. N
      PROVE  ToCancel[j][1] >= p
  <2> DEFINE q == ToCancel[j][1]
             i == ToCancel[j][2]
  <2>1. j \in 1 .. N
    BY <1>4, <1>5
  <2>2. q \in Prices /\ q \in Nat /\ q > loop.price
    BY <1>4, <1>6, <2>1
  <2>3. ToCancel[j] \in Resting(L) /\ ToCancel[j] = <<q, i>>
    BY <1>5, <2>1, WalkFacts
  <2> HIDE DEF q, i
  <2>4. L[q] # <<>>
    <3>1. i \in DOMAIN L[q]
      <4>1. q = ToCancel[j][1] /\ i = ToCancel[j][2]
        BY DEF q, i
      <4>2. ToCancel[j][2] \in 1 .. Len(L[ToCancel[j][1]])
        BY <1>5, <2>3, SoundLevels, RestingOrders
      <4>3. L[q] \in Seq(Orders \cup {NoOrder})
        BY <1>5, <2>2, SoundLevels DEF LevelsOK
      <4> QED BY <4>1, <4>2, <4>3
    <3> QED BY <3>1
  <2>5. p <= q
    BY <1>7, <1>8, <2>2, <2>4
  <2> QED BY <1>3, <2>2, <2>5 DEF q
<1>10. ASSUME NEW q \in Prices
       PROVE  D[q] = IF WalkedOver(q)' THEN FreeIfEmpty(Without(t, q)) ELSE Without(t, q)
  <2>1. WalkedOver(q)' <=> q < p
    BY <1>1 DEF WalkedOver
  <2>2. q \in Nat
    BY PricesAreNumbers
  <2>3. CASE q <= loop.price
    <3>1. WalkedOver(q)
      BY <1>1, <1>4, <2>2, <2>3 DEF WalkedOver
    <3> QED BY <1>3, <1>4, <2>1, <2>2, <2>3, <3>1
  <2>4. CASE q > loop.price /\ q < p
    <3>1. D[q] = <<>> /\ Without(t, q) = <<>>
      BY <1>3, <1>7, <1>8, <2>2, <2>4
    <3>2. FreeIfEmpty(<<>>) = <<>>
      BY DEF FreeIfEmpty
    <3> QED BY <2>1, <2>4, <3>1, <3>2
  <2>5. CASE q >= p
    BY <1>3, <1>4, <1>7, <2>1, <2>2, <2>5
  <2> QED BY <1>3, <1>4, <2>2, <2>3, <2>4, <2>5
<1>11. /\ N' = N /\ t' = t /\ ToCancel' = ToCancel /\ SlotsOf(data)' = D
       /\ \A q : Without(t, q)' = Without(t, q)
  BY <1>1 DEF RestingCount, ToCancel, Done, Without
<1>12. \A j \in 1 .. t : ToCancel[j][1] <= p
  <2>1. \A j \in 1 .. t : j \in 1 .. N
    BY <1>4, <1>5
  <2> QED BY <1>3, <1>4, <1>6, <2>1
<1>13. SameCounters(account, data)'
  BY <1>1, <1>4 DEF SameCounters
<1> HIDE DEF N, t, D
<1> QED BY <1>1, <1>3, <1>4, <1>9, <1>10, <1>11, <1>12, <1>13 DEF CrankInv, N, t, D

(* What is left of a batch.                                                *)
LEMMA RemainingLess ==
  ASSUME NEW r, r = [remaining |-> r.remaining, fills |-> <<>>],
         NEW n, n = [r EXCEPT !.remaining = @ - 1]
  PROVE  /\ n.remaining = r.remaining - 1
         /\ n = [remaining |-> n.remaining, fills |-> <<>>]
OBVIOUS

(* It takes the next order of its walk.                                    *)
LEMMA CrankTakes ==
  ASSUME LayoutInv, CrankInv, CrankSlot
  PROVE  CrankInv'
<1> DEFINE active == ActiveSlots(data, loop.loff, loop.slots)
           s == First(active)
           p == loop.price
           N == RestingCount
           t == Done
           D == SlotsOf(data)
<1>1. /\ phase = "level" /\ result.remaining > 0 /\ active # {}
      /\ data' = Deactivate(data, loop.loff, s)
      /\ result'.remaining = result.remaining - 1
      /\ result' = [remaining |-> result'.remaining, fills |-> <<>>]
      /\ phase' = "level" /\ trading' = trading /\ account' = account /\ call' = call /\ loop' = loop
  <2>1. /\ result'.remaining = result.remaining - 1
        /\ result' = [remaining |-> result'.remaining, fills |-> <<>>]
    <3>1. result' = [result EXCEPT !.remaining = @ - 1]
      BY DEF CrankSlot
    <3>2. result = [remaining |-> result.remaining, fills |-> <<>>]
      BY DEF CrankInv, CrankSlot
    <3> QED BY <3>1, <3>2, RemainingLess
  <2> QED BY <2>1 DEF CrankSlot, Go
<1>2. /\ Sound(account) /\ Sound(data) /\ p \in Prices /\ HasLevel(data, p)
      /\ data.map[p] = loop.loff /\ Level(data, p).slots = loop.slots
  BY <1>1 DEF LayoutInv, RunInv
<1>3. /\ ~trading /\ call.batch \in Nat \ {0} /\ result.remaining \in 0 .. call.batch
      /\ t \in 0 .. N /\ SameCounters(account, data)
      /\ \A q \in Prices : D[q] = IF WalkedOver(q) THEN FreeIfEmpty(Without(t, q)) ELSE Without(t, q)
      /\ \A j \in 1 .. t : ToCancel[j][1] <= p
      /\ \A j \in t + 1 .. N : ToCancel[j][1] >= p
  BY <1>1 DEF CrankInv
<1>4. p \in Nat /\ N \in Nat
  BY <1>2, PricesAreNumbers, WalkFacts
<1>5. s \in active /\ \A x \in active : s <= x
  <2>1. loop.slots \in Nat
    BY <1>2, ActiveSlotsFinite
  <2>2. active \in SUBSET (1 .. loop.slots)
    BY DEF ActiveSlots
  <2> HIDE DEF active
  <2> QED BY <1>1, <2>1, <2>2, FirstIsLeast
<1>6. s \in ActiveAt(data, p)
  BY <1>2, <1>5 DEF ActiveAt
<1>7. s \in Nat
  BY <1>2, <1>6, ActiveSlotsFinite
<1>8. \A x : x \in active <=> \E j \in t + 1 .. N : ToCancel[j] = <<p, x>>
  BY <1>1, ActiveIsToCome
<1> HIDE DEF active, s
<1>9. PICK j \in t + 1 .. N : ToCancel[j] = <<p, s>>
  BY <1>5, <1>8
<1>10. t \in Nat /\ t + 1 \in t + 1 .. N /\ t + 1 \in 1 .. N /\ j \in 1 .. N /\ t + 1 <= j
  BY <1>3, <1>4
<1>11. ToCancel[t + 1] = <<p, s>>
  <2> DEFINE q == ToCancel[t + 1][1]
             i == ToCancel[t + 1][2]
  <2>1. /\ q \in Nat /\ i \in Nat /\ ToCancel[t + 1] = <<q, i>> /\ q >= p
    BY <1>2, <1>3, <1>10, WalkFacts
  <2>2. t + 1 = j \/ q < ToCancel[j][1] \/ (q = ToCancel[j][1] /\ i < ToCancel[j][2])
    BY <1>2, <1>10, WalkFacts
  <2>3. ToCancel[j][1] = p /\ ToCancel[j][2] = s
    BY <1>9
  <2> HIDE DEF q, i
  <2>4. CASE t + 1 = j
    BY <1>9, <2>4
  <2>5. CASE t + 1 # j
    <3>1. q = p /\ i < s
      BY <1>4, <2>1, <2>2, <2>3, <2>5
    <3>2. i \in active
      BY <1>8, <1>10, <2>1, <3>1
    <3> QED BY <1>5, <1>7, <2>1, <3>1, <3>2
  <2> QED BY <2>4, <2>5
<1>12. /\ SlotWritten(data, data', p, s, NoOrder) /\ SameCounters(data, data')
  BY <1>1, <1>2, <1>6, DeactivateSound
<1>13. SlotsOf(data') = [D EXCEPT ![p] = [D[p] EXCEPT ![s] = NoOrder]]
  BY <1>12 DEF SlotWritten, LevelBecomes
<1>14. Done' = t + 1
  BY <1>1, <1>3 DEF Done
<1>15. ASSUME NEW q \in Prices
       PROVE  SlotsOf(data')[q] = IF WalkedOver(q) THEN FreeIfEmpty(Without(t + 1, q))
                                                  ELSE Without(t + 1, q)
  <2>1. q \in Nat /\ DOMAIN D = Prices
    BY PricesAreNumbers, SlotsAt
  <2>2. Without(t + 1, q) = IF q = p THEN [Without(t, q) EXCEPT ![s] = NoOrder] ELSE Without(t, q)
    BY <1>2, <1>10, <1>11, WithoutOneMore
  <2> HIDE DEF D, t, p
  <2>3. CASE q = p
    <3>1. ~WalkedOver(q)
      BY <1>1, <1>4, <2>3 DEF WalkedOver, p
    <3>2. SlotsOf(data')[q] = [D[p] EXCEPT ![s] = NoOrder]
      BY <1>13, <2>1, <2>3
    <3> QED BY <1>3, <2>2, <2>3, <3>1, <3>2
  <2>4. CASE q # p
    <3>1. SlotsOf(data')[q] = D[q]
      BY <1>13, <2>1, <2>4
    <3> QED BY <1>3, <2>2, <2>4, <3>1
  <2> QED BY <2>3, <2>4
<1>16. /\ RestingCount' = N /\ ToCancel' = ToCancel /\ SlotsOf(data)' = SlotsOf(data')
       /\ \A k, q : Without(k, q)' = Without(k, q)
       /\ \A q : WalkedOver(q)' = WalkedOver(q)
  BY <1>1 DEF RestingCount, ToCancel, Without, WalkedOver, SlotsOf, BookOf, HasLevel, Level, Slot
<1>17. \A k \in 1 .. t + 1 : ToCancel[k][1] <= p
  <2>1. \A k \in 1 .. t + 1 : k \in 1 .. t \/ k = t + 1
    BY <1>10
  <2>2. ToCancel[t + 1][1] = p
    BY <1>11
  <2> QED BY <1>3, <1>4, <2>1, <2>2
<1>18. \A k \in (t + 1) + 1 .. N : ToCancel[k][1] >= p
  BY <1>3, <1>4, <1>10
<1>19. ToCancel[t + 1][1] = p /\ t + 1 \in 0 .. N
  BY <1>10, <1>11
<1>20. SameCounters(account, data)'
  BY <1>1, <1>3, <1>12 DEF SameCounters
<1>21. result'.remaining \in 0 .. call.batch
  BY <1>1, <1>3
<1>22. \A q \in Prices : Without(Done, q)' = Without(t + 1, q)
  <2>1. SlotsOf(account)' = SlotsOf(account)
    BY <1>1
  <2> HIDE DEF t, N, D
  <2> QED BY <1>14, <1>16, <2>1 DEF Without
<1> HIDE DEF N, t, D
<1> QED BY <1>1, <1>3, <1>4, <1>14, <1>15, <1>16, <1>17, <1>18, <1>19, <1>20, <1>21, <1>22 DEF CrankInv, N

(* It leaves a level with the level's orders taken, or the batch full.     *)
LEMMA CrankLeaves ==
  ASSUME LayoutInv, CrankInv, LeaveCrankedLevel
  PROVE  CrankInv'
<1> DEFINE p == loop.price
           N == RestingCount
           t == Done
           D == SlotsOf(data)
<1>1. /\ phase = "level" /\ data' = FreeIfDrained(data, loop.loff)
      /\ result.remaining = 0 \/ ActiveSlots(data, loop.loff, loop.slots) = {}
      /\ phase' = "crank" /\ trading' = trading /\ account' = account /\ call' = call
      /\ loop' = loop /\ result' = result
  BY DEF LeaveCrankedLevel, Go
<1>2. /\ Sound(account) /\ Sound(data) /\ p \in Prices /\ HasLevel(data, p)
      /\ data.map[p] = loop.loff
  BY <1>1 DEF LayoutInv, RunInv
<1>3. /\ ~trading /\ call.batch \in Nat \ {0} /\ result.remaining \in 0 .. call.batch
      /\ t \in 0 .. N /\ SameCounters(account, data)
      /\ \A q \in Prices : D[q] = IF WalkedOver(q) THEN FreeIfEmpty(Without(t, q)) ELSE Without(t, q)
      /\ \A j \in 1 .. t : ToCancel[j][1] <= p
      /\ \A j \in t + 1 .. N : ToCancel[j][1] >= p
      /\ result.remaining = 0 => ToCancel[t][1] = p
      /\ result = [remaining |-> result.remaining, fills |-> <<>>]
  BY <1>1 DEF CrankInv
<1>4. p \in Nat /\ N \in Nat
  BY <1>2, PricesAreNumbers, WalkFacts
<1>5. /\ SlotsOf(data') = [D EXCEPT ![p] = FreeIfEmpty(D[p])] /\ SameCounters(data, data')
  BY <1>1, <1>2, FreeIfDrainedSound DEF LevelBecomes
<1>6. ASSUME NEW q \in Prices
      PROVE  SlotsOf(data')[q] = IF WalkedOver(q)' THEN FreeIfEmpty(Without(t, q)) ELSE Without(t, q)
  <2>1. q \in Nat /\ DOMAIN D = Prices
    BY PricesAreNumbers, SlotsAt
  <2>2. (WalkedOver(q)' <=> q <= p) /\ (WalkedOver(q) <=> q < p)
    BY <1>1, <1>4, <2>1 DEF WalkedOver
  <2> HIDE DEF D, t, p
  <2>3. CASE q = p
    <3>1. SlotsOf(data')[q] = FreeIfEmpty(D[p])
      BY <1>5, <2>1, <2>3
    <3> QED BY <1>3, <1>4, <2>2, <2>3, <3>1
  <2>4. CASE q # p
    <3>1. SlotsOf(data')[q] = D[q]
      BY <1>5, <2>1, <2>4
    <3> QED BY <1>3, <1>4, <2>1, <2>2, <2>4, <3>1
  <2> QED BY <2>3, <2>4
<1>7. ASSUME NEW j \in t + 1 .. N, result.remaining # 0
      PROVE  ToCancel[j][1] > p
  <2>1. j \in 1 .. N
    BY <1>3, <1>4
  <2>2. ToCancel[j][1] \in Nat /\ ToCancel[j] = <<ToCancel[j][1], ToCancel[j][2]>>
    BY <1>2, <2>1, WalkFacts
  <2>3. ToCancel[j][1] # p
    <3> SUFFICES ASSUME ToCancel[j][1] = p PROVE FALSE
      OBVIOUS
    <3>1. ToCancel[j] = <<p, ToCancel[j][2]>>
      BY <2>2
    <3>2. ToCancel[j][2] \in ActiveSlots(data, loop.loff, loop.slots)
      BY <1>1, <3>1, ActiveIsToCome
    <3> QED BY <1>1, <1>7, <3>2
  <2> QED BY <1>3, <1>4, <2>2, <2>3
<1>8. /\ N' = N /\ t' = t /\ ToCancel' = ToCancel /\ SlotsOf(data)' = SlotsOf(data')
      /\ \A k, q : Without(k, q)' = Without(k, q)
  BY <1>1 DEF RestingCount, ToCancel, Done, Without, SlotsOf, BookOf, HasLevel, Level, Slot
<1>9. SameCounters(account, data)'
  BY <1>1, <1>3, <1>5 DEF SameCounters
<1>10. \A q \in Prices : Without(Done, q)' = Without(t, q)
  BY <1>8 DEF Without
<1> HIDE DEF N, t, D
<1> QED BY <1>1, <1>3, <1>4, <1>6, <1>7, <1>8, <1>9, <1>10 DEF CrankInv, N, t

(* A batch that is over is the one the book promises.                      *)
LEMMA CrankedAsPromised ==
  ASSUME LayoutInv, CrankInv, FinishCrank
  PROVE  Abstract!CrankCancel(call.batch)
<1> DEFINE p == loop.price
           N == RestingCount
           t == Done
           n == call.batch
           L == SlotsOf(account)
           D == SlotsOf(data)
           batch == CrankBatch(L, n)
           new == AfterCrank(L, batch, n)
<1>1. /\ phase = "crank"
      /\ result.remaining = 0 \/ ToCrank = {}
      /\ result.remaining < n /\ Commit(data, <<>>)
  BY DEF FinishCrank, CrankOver
<1>2. Sound(account) /\ Sound(data)
  BY DEF LayoutInv
<1>3. /\ ~trading /\ n \in Nat \ {0} /\ result.remaining \in 0 .. n
      /\ t \in 0 .. N /\ p \in Nat /\ SameCounters(account, data)
      /\ \A q \in Prices : D[q] = IF WalkedOver(q) THEN FreeIfEmpty(Without(t, q)) ELSE Without(t, q)
      /\ \A j \in 1 .. t : ToCancel[j][1] <= p
      /\ \A j \in t + 1 .. N : result.remaining = 0 \/ ToCancel[j][1] > p
      /\ result.remaining = 0 => ToCancel[t][1] = p
  BY <1>1 DEF CrankInv
<1>4. N \in Nat /\ t = n - result.remaining /\ t # 0 /\ t \in Nat
  BY <1>1, <1>2, <1>3, WalkFacts DEF Done
<1>5. LevelsOK(L, Orders) /\ DOMAIN D = Prices /\ D = [q \in Prices |-> D[q]]
  <2>1. LevelsOK(L, Orders) /\ LevelsOK(D, Orders)
    BY <1>2, SoundLevels
  <2> HIDE DEF L, D
  <2> QED BY <2>1 DEF LevelsOK
<1>6. \A q \in Prices : q \in Nat
  BY PricesAreNumbers
<1>7. ASSUME NEW q \in Prices, ~(q <= p)
      PROVE  D[q] = L[q] /\ Without(t, q) = L[q]
  <2>1. \A j \in 1 .. t : ToCancel[j][1] # q
    <3> SUFFICES ASSUME NEW j \in 1 .. t, ToCancel[j][1] = q PROVE FALSE
      OBVIOUS
    <3> QED BY <1>3, <1>7
  <2>2. Without(t, q) = L[q]
    BY <1>2, <2>1, WithoutNone
  <2>3. ~WalkedOver(q)
    BY <1>3, <1>6, <1>7 DEF WalkedOver
  <2> QED BY <1>3, <2>2, <2>3
<1>8. ASSUME result.remaining # 0
      PROVE  t = N /\ \A q \in Prices : ~(q <= p) => L[q] = <<>>
  <2>1. ASSUME NEW q \in Prices, ~(q <= p) PROVE L[q] = <<>>
    <3>1. q > p
      BY <1>3, <1>6, <2>1
    <3>2. ~HasLevel(data, q)
      BY <1>1, <1>8, <3>1 DEF ToCrank
    <3>3. D[q] = <<>>
      BY <3>2, SlotsAt
    <3> QED BY <1>7, <2>1, <3>3
  <2>2. t = N
    <3> SUFFICES ASSUME t # N PROVE FALSE
      OBVIOUS
    <3> DEFINE q == ToCancel[t + 1][1]
               i == ToCancel[t + 1][2]
    <3>1. t + 1 \in t + 1 .. N /\ t + 1 \in 1 .. N
      BY <1>3, <1>4
    <3>2. q > p /\ q \in Prices /\ ToCancel[t + 1] \in Resting(L)
      BY <1>2, <1>3, <1>8, <3>1, WalkFacts
    <3>3. i \in 1 .. Len(L[q])
      BY <1>5, <3>2, RestingOrders
    <3>4. L[q] = <<>>
      BY <1>3, <1>6, <2>1, <3>2
    <3> QED BY <3>3, <3>4
  <2> QED BY <2>1, <2>2
<1>9. ToCancel \in Seq(Resting(L)) /\ Len(ToCancel) = N
  BY <1>2, WalkFacts
<1>10. batch = SubSeq(ToCancel, 1, t)
  <2>1. (IF n < Len(ToCancel) THEN n ELSE Len(ToCancel)) = t
    <3>1. CASE result.remaining = 0
      BY <1>3, <1>4, <1>9, <3>1
    <3>2. CASE result.remaining # 0
      BY <1>3, <1>4, <1>8, <1>9, <3>2
    <3> QED BY <3>1, <3>2
  <2>2. batch = SubSeq(ToCancel, 1, IF n < Len(ToCancel) THEN n ELSE Len(ToCancel))
    BY DEF CrankBatch, ToCancel
  <2> QED BY <2>1, <2>2
<1> HIDE DEF L, D, batch, new
<1>11. /\ batch # <<>> /\ Len(batch) = t /\ DOMAIN batch = 1 .. t
       /\ \A j \in 1 .. t : batch[j] = ToCancel[j]
  <2> DEFINE S == Resting(L)
  <2> HIDE DEF S, t, N
  <2>1. t \in 0 .. N /\ N \in Nat /\ t # 0 /\ ToCancel \in Seq(S) /\ Len(ToCancel) = N
    BY <1>3, <1>4, <1>9 DEF S
  <2>2. batch \in Seq(S) /\ Len(batch) = t /\ \A j \in 1 .. t : batch[j] = ToCancel[j]
    BY <1>10, <2>1
  <2> QED BY <2>1, <2>2
<1>12. \A x : Contains(batch, x) <=> \E j \in 1 .. t : ToCancel[j] = x
  BY <1>11 DEF Contains
<1>13. ASSUME NEW q \in Prices
       PROVE  new[q] = D[q]
  <2>1. new[q] = IF Len(batch) < n \/ q <= batch[Len(batch)][1]
                 THEN FreeIfEmpty([i \in DOMAIN L[q] |->
                        IF Contains(batch, <<q, i>>) THEN NoOrder ELSE L[q][i]])
                 ELSE L[q]
    <3>1. new = [r \in Prices |->
                  IF Len(batch) < n \/ r <= batch[Len(batch)][1]
                  THEN FreeIfEmpty([i \in DOMAIN L[r] |->
                         IF Contains(batch, <<r, i>>) THEN NoOrder ELSE L[r][i]])
                  ELSE L[r]]
      BY Zenon DEF AfterCrank, new
    <3> QED BY <3>1
  <2>2. [i \in DOMAIN L[q] |-> IF Contains(batch, <<q, i>>) THEN NoOrder ELSE L[q][i]] = Without(t, q)
    BY <1>12 DEF Without, L
  <2>3. WalkedOver(q) <=> q <= p
    BY <1>1, <1>3, <1>6 DEF WalkedOver
  <2>4. CASE q <= p
    <3>1. Len(batch) < n \/ q <= batch[Len(batch)][1]
      <4>1. CASE result.remaining = 0
        BY <1>3, <1>4, <1>11, <2>4, <4>1
      <4>2. CASE result.remaining # 0
        BY <1>3, <1>4, <1>11, <4>2
      <4> QED BY <4>1, <4>2
    <3> QED BY <1>3, <2>1, <2>2, <2>3, <2>4, <3>1
  <2>5. CASE ~(q <= p)
    <3>1. D[q] = L[q] /\ Without(t, q) = L[q]
      BY <1>7, <2>5
    <3>2. CASE result.remaining = 0
      <4>1. ~(Len(batch) < n \/ q <= batch[Len(batch)][1])
        BY <1>3, <1>4, <1>11, <2>5, <3>2
      <4> QED BY <2>1, <3>1, <4>1
    <3>3. CASE result.remaining # 0
      <4>1. L[q] = <<>>
        BY <1>8, <2>5, <3>3
      <4>2. FreeIfEmpty(<<>>) = <<>>
        BY DEF FreeIfEmpty
      <4> QED BY <2>1, <2>2, <3>1, <4>1, <4>2
    <3> QED BY <3>2, <3>3
  <2> QED BY <2>4, <2>5
<1>14. new = D
  <2>1. new = [q \in Prices |-> new[q]]
    BY DEF AfterCrank, new
  <2> QED BY <1>5, <1>13, <2>1
<1>15. BookOf(account)' = [BookOf(account) EXCEPT !.levels = new]
  <2> DEFINE b == BookOf(account)
             e == BookOf(data)
             x == [b EXCEPT !.levels = new]
  <2>1. BookOf(account)' = e
    BY <1>1 DEF Commit, BookOf, HasLevel, Level, Slot
  <2>2. /\ b = [levels |-> b.levels, nextId |-> b.nextId, allocated |-> b.allocated]
        /\ e = [levels |-> D, nextId |-> b.nextId, allocated |-> b.allocated]
    BY <1>3, BookByParts DEF SameCounters, D
  <2>3. x = [b EXCEPT !.levels = new]
    OBVIOUS
  <2> HIDE DEF b, e, x
  <2>4. x = [levels |-> new, nextId |-> b.nextId, allocated |-> b.allocated]
    BY <2>2, <2>3
  <2>5. x = e
    BY <1>14, <2>2, <2>4
  <2> QED BY <2>1, <2>5 DEF x, b
<1>16. BookOf(account).levels = L /\ Abstract!CrankBatch(L, n) = batch
       /\ Abstract!AfterCrank(L, batch, n) = new
  BY BookByParts, SameBatch, SameAfterCrank DEF L, batch, new
<1>17. fills' = <<>> /\ UNCHANGED <<now, trading>>
  BY <1>1 DEF Commit
<1>18. BookOf(account)' = [BookOf(account) EXCEPT !.levels = Abstract!AfterCrank(@, batch, n)]
  BY <1>15, <1>16
<1>19. Abstract!CrankBatch(BookOf(account).levels, n) = batch
  BY <1>16
<1> HIDE DEF n
<1> QED BY <1>3, <1>11, <1>17, <1>18, <1>19, Zenon DEF Abstract!CrankCancel, n

-----------------------------------------------------------------------------
(* The engine implements the book.                                         *)

(* Between transactions the copy is the account.                           *)
IdleInv == phase = "idle" => data = account /\ loop.price = 0

(* Between any two writes of any transaction, the copy holds what the book *)
(* makes of the account up to there.                                       *)
EngineInv == LayoutInv /\ IdleInv /\ MatchInv /\ RestInv /\ CrankInv

(* In each phase only its own part of the invariant is to be shown.        *)
LEMMA InPhase ==
  /\ phase' = "idle" => MatchInv' /\ RestInv' /\ CrankInv'
  /\ phase' = "match" => IdleInv' /\ RestInv' /\ CrankInv'
  /\ phase' = "rest" => IdleInv' /\ MatchInv' /\ CrankInv'
  /\ phase' \in {"crank", "level"} => IdleInv' /\ MatchInv' /\ RestInv'
BY DEF IdleInv, MatchInv, RestInv, CrankInv

(* A transaction that commits or fails leaves no work behind.              *)
LEMMA EndsIdle ==
  /\ \A a, events : Commit(a, events) => phase' = "idle" /\ IdleInv'
  /\ Fail => phase' = "idle" /\ IdleInv'
BY DEF Commit, Fail, EndTx, NoLoop, IdleInv

(* The empty account meets the invariant of the engine.                    *)
LEMMA EngineInit == Init => EngineInv
<1> SUFFICES ASSUME Init PROVE EngineInv
  OBVIOUS
<1>1. phase = "idle" /\ data = account /\ loop.price = 0
  BY DEF Init, NoLoop
<1>2. IdleInv /\ MatchInv /\ RestInv /\ CrankInv
  BY <1>1 DEF IdleInv, MatchInv, RestInv, CrankInv
<1> QED BY <1>2, LayoutInit DEF EngineInv

(* Every step keeps the invariant of the engine.                           *)
LEMMA EngineStep == EngineInv /\ [Next]_vars => EngineInv'
<1> SUFFICES ASSUME EngineInv, [Next]_vars PROVE EngineInv'
  OBVIOUS
<1> DEFINE Rest == IdleInv /\ MatchInv /\ RestInv /\ CrankInv
<1>0. LayoutInv /\ IdleInv /\ MatchInv /\ RestInv /\ CrankInv
  BY DEF EngineInv
<1>1. LayoutInv'
  BY <1>0, LayoutStep
<1> SUFFICES Rest'
  BY <1>1 DEF EngineInv
<1>2. ASSUME NEW u \in Owners, NEW side \in Sides, NEW price \in Prices, NEW q \in OrderQtys,
             NEW isLimit \in BOOLEAN, NEW n \in Nat, PlaceOrder(u, side, price, q, isLimit, n)
      PROVE  Rest'
  <2>1. phase = "idle" /\ data = account /\ phase' = "match"
    BY <1>0, <1>2 DEF PlaceOrder, Idle, IdleInv
  <2>2. MatchInv'
    BY <1>0, <1>2, <2>1, MatchStarts
  <2> QED BY <2>1, <2>2, InPhase
<1>3. CASE EnterLevel
  BY <1>0, <1>3, EnteringPassesNone, InPhase DEF EnterLevel, Go
<1>4. CASE FillOldest
  BY <1>0, <1>4, FillIsNext, InPhase DEF FillOldest, Go
<1>5. CASE AllocateNewLevel
  BY <1>0, <1>5, NewLevelIsRoom, InPhase DEF AllocateNewLevel, Go
<1>6. CASE ExpandFullLevel
  BY <1>0, <1>6, WiderLevelIsRoom, InPhase DEF ExpandFullLevel, Go
<1>7. CASE RestOrderInSlot
  BY <1>7, EndsIdle, InPhase DEF RestOrderInSlot
<1>8. CASE FinishOrder
  BY <1>8, EndsIdle, InPhase DEF FinishOrder
<1>9. CASE RefuseOrder
  BY <1>9, EndsIdle, InPhase DEF RefuseOrder
<1>10. ASSUME NEW u \in Owners, NEW p \in Prices, NEW s \in 1 .. MaxSlots, CancelOrder(u, p, s)
       PROVE  Rest'
  BY <1>10, EndsIdle, InPhase DEF CancelOrder
<1>11. ASSUME NEW n \in CrankBatches, StartCrank(n) PROVE Rest'
  <2>1. phase = "idle" /\ data = account /\ loop.price = 0 /\ phase' = "crank"
    BY <1>0, <1>11 DEF StartCrank, Idle, IdleInv
  <2>2. CrankInv'
    BY <1>0, <1>11, <2>1, CrankStarts
  <2> QED BY <2>1, <2>2, InPhase
<1>12. CASE EnterCrankedLevel
  BY <1>0, <1>12, CrankEnters, InPhase DEF EnterCrankedLevel, Go
<1>13. CASE CrankSlot
  BY <1>0, <1>13, CrankTakes, InPhase DEF CrankSlot, Go
<1>14. CASE LeaveCrankedLevel
  BY <1>0, <1>14, CrankLeaves, InPhase DEF LeaveCrankedLevel, Go
<1>15. CASE FinishCrank
  BY <1>15, EndsIdle, InPhase DEF FinishCrank
<1>16. CASE RefuseCrank
  BY <1>16, EndsIdle, InPhase DEF RefuseCrank
<1>17. CASE Settle \/ Tick
  <2>1. phase = "idle" /\ phase' = phase /\ data' = data /\ account' = account /\ loop' = loop
    BY <1>17 DEF Settle, Tick, Idle, txVars
  <2>2. IdleInv'
    BY <1>0, <2>1 DEF IdleInv
  <2> QED BY <2>1, <2>2, InPhase
<1>18. CASE UNCHANGED vars
  <2>1. UNCHANGED <<now, trading, account, data, phase, call, loop, result, fills>>
    BY <1>18 DEF vars, txVars
  <2>2. IdleInv'
    BY <1>0, <2>1 DEF IdleInv
  <2>3. OrderCall' <=> OrderCall
    BY <2>1 DEF OrderCall
  <2>4. MatchInv'
    <3>1. \A m, k : At(m, k)' <=> At(m, k)
      BY <2>1 DEF At, Chain, DoneSoFar, Events, NonePassed, Scan, CrossingCount, AheadOf
    <3> QED BY <1>0, <2>1, <2>3, <3>1 DEF MatchInv
  <2>5. RestInv'
    <3>1. MatchedBook' = MatchedBook /\ TheMatch' = TheMatch /\ Events(TheMatch.fills)' = Events(TheMatch.fills)
      BY <2>1 DEF MatchedBook, TheMatch, Events
    <3>2. WantsRest' <=> WantsRest
      BY <2>1 DEF WantsRest
    <3> QED BY <1>0, <2>1, <2>3, <3>1, <3>2 DEF RestInv
  <2>6. CrankInv'
    <3>1. /\ RestingCount' = RestingCount /\ ToCancel' = ToCancel /\ Done' = Done
          /\ \A p : Without(Done, p)' = Without(Done, p)
          /\ \A p : WalkedOver(p)' <=> WalkedOver(p)
          /\ SlotsOf(data)' = SlotsOf(data) /\ SameCounters(account, data)' = SameCounters(account, data)
      BY <2>1 DEF RestingCount, ToCancel, Done, Without, WalkedOver
    <3> QED BY <1>0, <2>1, <3>1 DEF CrankInv
  <2> QED BY <2>2, <2>4, <2>5, <2>6
<1>19. ASSUME NEW isLimit \in BOOLEAN, NEW n \in IF isLimit THEN LimitCaps ELSE MarketCaps
       PROVE  n \in Nat
  BY AccountAssumption
<1> QED
  BY <1>2, <1>3, <1>4, <1>5, <1>6, <1>7, <1>8, <1>9, <1>10, <1>11, <1>12, <1>13, <1>14,
     <1>15, <1>16, <1>17, <1>18, <1>19 DEF Next

(* A step of the engine is invisible or the step of Book that was asked    *)
(* for.                                                                    *)
LEMMA EngineStepsBook ==
  EngineInv /\ [Next]_vars => [UNCHANGED <<now, trading, account, fills>> \/ AbstractStep]_vars
<1> SUFFICES ASSUME EngineInv, Next
             PROVE  UNCHANGED <<now, trading, account, fills>> \/ AbstractStep
  OBVIOUS
<1>0. LayoutInv /\ IdleInv /\ MatchInv /\ RestInv /\ CrankInv
  BY DEF EngineInv
<1>1. ASSUME NEW u \in Owners, NEW side \in Sides, NEW price \in Prices, NEW q \in OrderQtys,
             NEW isLimit \in BOOLEAN, NEW n, PlaceOrder(u, side, price, q, isLimit, n)
      PROVE  UNCHANGED <<now, trading, account, fills>>
  BY <1>1 DEF PlaceOrder
<1>2. EnterLevel \/ FillOldest \/ AllocateNewLevel \/ ExpandFullLevel \/ EnterCrankedLevel
        \/ CrankSlot \/ LeaveCrankedLevel => UNCHANGED <<now, trading, account, fills>>
  BY DEF EnterLevel, FillOldest, AllocateNewLevel, ExpandFullLevel, EnterCrankedLevel,
         CrankSlot, LeaveCrankedLevel, Go
<1>3. RefuseOrder \/ RefuseCrank => UNCHANGED <<now, trading, account, fills>>
  BY DEF RefuseOrder, RefuseCrank, Fail
<1>4. ASSUME NEW n, StartCrank(n) PROVE UNCHANGED <<now, trading, account, fills>>
  BY <1>4 DEF StartCrank
<1>5. CASE RestOrderInSlot
  <2>1. Matched
    BY <1>5 DEF RestOrderInSlot
  <2> QED BY <1>0, <1>5, <2>1, RestedAsPromised DEF AbstractStep
<1>6. CASE FinishOrder
  <2>1. Matched
    BY <1>6 DEF FinishOrder
  <2> QED BY <1>0, <1>6, <2>1, FinishedAsPromised DEF AbstractStep
<1>7. ASSUME NEW u \in Owners, NEW p \in Prices, NEW s \in 1 .. MaxSlots, CancelOrder(u, p, s)
      PROVE  AbstractStep
  <2>1. Idle
    BY <1>7 DEF CancelOrder
  <2>2. <<p, s>> \in Resting(BookOf(account).levels) /\ Abstract!CancelOrder(u, <<p, s>>)
    BY <1>0, <1>7, CancelledAsPromised
  <2> QED BY <2>1, <2>2 DEF AbstractStep
<1>8. CASE FinishCrank
  BY <1>0, <1>8, CrankedAsPromised DEF AbstractStep, FinishCrank
<1>9. CASE Settle
  <2>1. Idle /\ trading /\ trading' = FALSE /\ fills' = <<>> /\ now' = now /\ account' = account
    BY <1>9 DEF Settle
  <2>2. BookOf(account)' = BookOf(account)
    BY <2>1 DEF BookOf, HasLevel, Level, Slot
  <2> QED BY <2>1, <2>2, Zenon DEF AbstractStep, Abstract!Settle
<1>10. CASE Tick
  <2>1. Idle /\ now < LastTick /\ now' = now + 1 /\ fills' = <<>> /\ trading' = trading /\ account' = account
    BY <1>10 DEF Tick
  <2>2. BookOf(account)' = BookOf(account)
    BY <2>1 DEF BookOf, HasLevel, Level, Slot
  <2> QED BY <2>1, <2>2, Zenon DEF AbstractStep, Abstract!Tick
<1> QED BY <1>1, <1>2, <1>3, <1>4, <1>5, <1>6, <1>7, <1>8, <1>9, <1>10 DEF Next

(* The empty account is the empty book.                                    *)
LEMMA EmptyIsEmpty == Init => Abstract!Init
<1> SUFFICES ASSUME Init PROVE Abstract!Init
  OBVIOUS
<1>1. now = 1 /\ trading = TRUE /\ account = EmptyAccount /\ fills = <<>>
  BY DEF Init
<1>2. \A p \in Prices : ~HasLevel(account, p)
  BY <1>1 DEF EmptyAccount, HasLevel
<1>3. account.nextId = 0 /\ account.maxLevels = 0
  BY <1>1 DEF EmptyAccount
<1>4. BookOf(account) = Abstract!EmptyBook
  BY <1>2, <1>3 DEF BookOf, Abstract!EmptyBook, Abstract!Prices, Prices
<1> QED BY <1>1, <1>4 DEF Abstract!Init

(* Every transaction the engine commits is the step of Book that was asked *)
(* for, with the same fills, through whatever allocations, moves of        *)
(* levels, shifted offsets and stale counts its loops went; nothing else   *)
(* changes the book.                                                       *)
THEOREM EngineRefinesBook == Spec => EngineImplementsBook
<1>1. Spec => []EngineInv
  BY EngineInit, EngineStep, PTL DEF Spec
<1> QED BY <1>1, EmptyIsEmpty, EngineStepsBook, PTL DEF Spec, EngineImplementsBook

-----------------------------------------------------------------------------
(* What a step of the book leaves of the orders.                           *)

(* No order of new is not one of levels.                                   *)
OnlyFewer(levels, new) ==
  \A at \in Resting(new) :
    /\ at \in Resting(levels)
    /\ OrderAt(new, at).id = OrderAt(levels, at).id
    /\ OrderAt(new, at).side = OrderAt(levels, at).side

(* Removing orders leaves fewer of them.                                   *)
LEMMA FewerRemoved ==
  ASSUME NEW levels, NEW places, NEW new, Removed(levels, places, new)
  PROVE  OnlyFewer(levels, new)
BY DEF Removed, OnlyFewer

(* Fills take quantities off orders, and orders off the book.              *)
LEMMA FewerFilled ==
  ASSUME NEW levels, LevelsOK(levels, Orders), NEW fs, NEW new, FillsApplied(levels, fs, new)
  PROVE  OnlyFewer(levels, new)
<1> SUFFICES ASSUME NEW at \in Resting(new)
             PROVE  /\ at \in Resting(levels)
                    /\ OrderAt(new, at).id = OrderAt(levels, at).id
                    /\ OrderAt(new, at).side = OrderAt(levels, at).side
  BY DEF OnlyFewer
<1> DEFINE o == OrderAt(levels, at)
           n == OrderAt(new, at)
<1>1. at \in Resting(levels)
  BY DEF FillsApplied
<1>2. o \in Orders
  BY <1>1, RestingOrders
<1>3. CASE \A k \in DOMAIN fs : fs[k].at # at
  <2>1. n = o
    BY <1>3 DEF FillsApplied
  <2> QED BY <1>1, <2>1
<1>4. CASE ~ \A k \in DOMAIN fs : fs[k].at # at
  <2>1. PICK k \in DOMAIN fs : fs[k].at = at
    BY <1>4
  <2>2. n = [o EXCEPT !.qty = @ - fs[k].qty]
    BY <2>1 DEF FillsApplied
  <2> HIDE DEF n, o
  <2>3. n.id = o.id /\ n.side = o.side
    BY <1>2, <2>2 DEF Orders
  <2> QED BY <1>1, <2>3 DEF n, o
<1> QED BY <1>3, <1>4

(* The taker wants to rest.                                                *)
Wants == call.isLimit /\ TheMatch.remaining >= MinOrder

(* The order placed was matched, and perhaps added.                        *)
OrderAdded ==
  \E x, o : /\ x[1] = call.price /\ o.side = call.side /\ o.id = account.nextId
            /\ Added(MatchedBook.levels, x, o, SlotsOf(account'))

Placed ==
  /\ Matched /\ OrderCall /\ fills' = Events(TheMatch.fills)
  /\ \/ Wants /\ OrderAdded /\ account'.nextId = account.nextId + 1
     \/ OnlyFewer(MatchedBook.levels, SlotsOf(account')) /\ account'.nextId = account.nextId

(* No order was placed and none was filled.                                *)
NotPlaced ==
  /\ ~Matched /\ fills' = <<>>
  /\ OnlyFewer(SlotsOf(account), SlotsOf(account')) /\ account'.nextId = account.nextId

(* A placement of Book leaves fewer of the matched orders or adds one.     *)
LEMMA OrderOutcome ==
  ASSUME EngineInv, Matched,
         Abstract!PlaceOrder(call.owner, call.side, call.price, call.qty, call.isLimit, call.maxFills)
  PROVE  Placed
<1> DEFINE m == TheMatch
           p == call.price
           matched == MatchedBook
           new == BookOf(account')
<1>1. OrderCall /\ LayoutInv /\ Sound(account) /\ p \in Prices
  BY DEF EngineInv, LayoutInv, MatchInv, RestInv, Matched, OrderCall
<1>2. /\ m.fills \in Seq(Fills(Orders)) /\ m.remaining \in Nat
      /\ BookOK(matched, Orders) /\ matched.nextId = account.nextId
  BY <1>1, TheMatchOK
<1>3. Abstract!MatchAgainstBook(BookOf(account).levels, call.side, call.price, call.qty, call.maxFills) = m
  BY SameMatch, BookByParts DEF TheMatch
<1>4. [BookOf(account) EXCEPT !.levels = Abstract!AfterFills(@, m.fills)] = matched
  BY SameAfterFills, Zenon DEF MatchedBook
<1>5. Abstract!RestOrder(matched, call.owner, call.side, p, m.remaining, now)
        = RestOrder(matched, call.owner, call.side, p, m.remaining, now)
  BY SameRest
<1>6. BookOf(account)' = new
  BY DEF BookOf, HasLevel, Level, Slot
<1>7. /\ new = IF Wants THEN RestOrder(matched, call.owner, call.side, p, m.remaining, now)
               ELSE matched
      /\ fills' = [i \in DOMAIN m.fills |-> Abstract!FillEvent(call.owner, call.side, m.fills[i])]
  <2> HIDE DEF m, matched, new, p
  <2>1. Wants <=> call.isLimit /\ m.remaining >= MinOrder
    BY DEF Wants, m
  <2>2. p = call.price
    BY DEF p
  <2> QED BY <1>3, <1>4, <1>5, <1>6, <2>1, <2>2, Zenon DEF Abstract!PlaceOrder
<1>8. fills' = Events(m.fills)
  BY <1>7 DEF Events
<1>9. new.levels = SlotsOf(account') /\ new.nextId = account'.nextId
  BY BookByParts
<1> HIDE DEF m, matched, new
<1>10. CASE ~Wants
  <2>1. new = matched
    BY <1>7, <1>10
  <2>2. OnlyFewer(matched.levels, matched.levels)
    BY DEF OnlyFewer
  <2> QED BY <1>1, <1>2, <1>8, <1>9, <2>1, <2>2 DEF Placed, m, matched
<1>11. CASE Wants
  <2> DEFINE order == [owner |-> call.owner, id |-> matched.nextId, side |-> call.side,
                       qty |-> m.remaining, ts |-> now]
  <2>1. order \in Orders
    <3>1. now \in Nat /\ m.remaining >= MinOrder /\ matched.nextId \in Nat
      BY <1>1, <1>2, <1>11 DEF LayoutInv, RunInv, Wants, BookOK, m
    <3> QED BY <1>1, <1>2, <3>1, BookAssumption DEF OrderCall, Orders
  <2>2. /\ new.nextId = IF CanAssignId(matched) THEN matched.nextId + 1 ELSE matched.nextId
        /\ IF CanAssignId(matched)
           THEN \E x : x[1] = p /\ Added(matched.levels, x, order, new.levels)
           ELSE Removed(matched.levels, {}, new.levels)
    <3> DEFINE rested == RestOrder(matched, call.owner, call.side, p, m.remaining, now)
    <3>1. rested = new
      BY <1>7, <1>11
    <3>2. /\ rested.nextId = IF CanAssignId(matched) THEN matched.nextId + 1 ELSE matched.nextId
          /\ IF CanAssignId(matched)
             THEN \E x : x[1] = p /\ Added(matched.levels, x, order, rested.levels)
             ELSE Removed(matched.levels, {}, rested.levels)
      BY <1>1, <1>2, <2>1, RestOrderAdds
    <3> HIDE DEF rested
    <3> QED BY <3>1, <3>2
  <2>3. order.side = call.side /\ order.id = account.nextId
    BY <1>2
  <2> HIDE DEF order
  <2>4. CASE CanAssignId(matched)
    <3>1. OrderAdded
      BY <1>9, <2>2, <2>3, <2>4 DEF OrderAdded, matched
    <3> QED BY <1>1, <1>2, <1>8, <1>9, <1>11, <2>2, <2>4, <3>1 DEF Placed, m
  <2>5. CASE ~CanAssignId(matched)
    <3>1. OnlyFewer(matched.levels, new.levels)
      BY <2>2, <2>5, FewerRemoved
    <3> QED BY <1>1, <1>2, <1>8, <1>9, <2>2, <2>5, <3>1 DEF Placed, m, matched
  <2> QED BY <2>4, <2>5
<1> QED BY <1>10, <1>11

(* Every other step of Book adds nothing and fills nothing.                *)
LEMMA StepOutcome ==
  ASSUME EngineInv, AbstractStep
  PROVE  Placed \/ NotPlaced
<1> DEFINE L == SlotsOf(account)
           N == SlotsOf(account')
           b == BookOf(account)
           e == BookOf(account')
<1>1. LayoutInv /\ Sound(account) /\ LevelsOK(L, Orders)
  BY SoundLevels DEF EngineInv, LayoutInv
<1>2. BookOf(account)' = e
  BY DEF BookOf, HasLevel, Level, Slot
<1>3. /\ b = [levels |-> L, nextId |-> account.nextId, allocated |-> account.maxLevels]
      /\ e = [levels |-> N, nextId |-> account'.nextId, allocated |-> account'.maxLevels]
      /\ b.levels = L
  BY BookByParts
<1> HIDE DEF L, N, b, e
<1>4. ASSUME NEW new, e = [b EXCEPT !.levels = new], OnlyFewer(L, new), ~Matched, fills' = <<>>
      PROVE  NotPlaced
  <2>1. e.levels = new /\ e.nextId = b.nextId
    BY <1>3, <1>4
  <2> QED BY <1>3, <1>4, <2>1 DEF NotPlaced, L, N
<1>5. Idle \/ CrankOver => ~Matched
  BY DEF Idle, CrankOver, Matched
<1>6. CASE Matched /\ Abstract!PlaceOrder(call.owner, call.side, call.price, call.qty,
                                          call.isLimit, call.maxFills)
  BY <1>6, OrderOutcome
<1>7. CASE CrankOver /\ Abstract!CrankCancel(call.batch)
  <2> DEFINE n == call.batch
             batch == CrankBatch(L, n)
             new == AfterCrank(L, batch, n)
  <2>1. /\ Abstract!CrankBatch(L, n) = batch /\ Abstract!AfterCrank(L, batch, n) = new
    BY SameBatch, SameAfterCrank
  <2>2. n \in Nat
    BY <1>7 DEF EngineInv, CrankInv, CrankOver
  <2> HIDE DEF n
  <2>3. batch # <<>> /\ e = [b EXCEPT !.levels = new] /\ fills' = <<>>
    <3>1. /\ Abstract!CrankBatch(b.levels, n) # <<>>
          /\ e = [b EXCEPT !.levels = Abstract!AfterCrank(@, Abstract!CrankBatch(b.levels, n), n)]
          /\ fills' = <<>>
      BY <1>2, <1>7, Zenon DEF Abstract!CrankCancel, n, b
    <3> HIDE DEF batch, new
    <3> QED BY <1>3, <2>1, <3>1
  <2>4. OnlyFewer(L, new)
    BY <1>1, <2>2, <2>3, AfterCrankRemoves, FewerRemoved
  <2> QED BY <1>4, <1>5, <1>7, <2>3, <2>4
<1>8. ASSUME Idle, NEW u \in Owners, NEW at \in Resting(BookOf(account).levels),
             Abstract!CancelOrder(u, at)
      PROVE  NotPlaced
  <2> DEFINE new == RemoveOrder(L, at)
  <2>1. e = [b EXCEPT !.levels = Abstract!RemoveOrder(@, at)] /\ fills' = <<>>
    BY <1>2, <1>8, Zenon DEF Abstract!CancelOrder, b
  <2>2. Abstract!RemoveOrder(L, at) = new
    BY SameRemove
  <2>3. at \in Resting(L)
    BY <1>3, <1>8 DEF b
  <2>4. OnlyFewer(L, new)
    BY <1>1, <2>3, RemoveOrderRemoves, FewerRemoved
  <2> HIDE DEF new
  <2> QED BY <1>3, <1>4, <1>5, <1>8, <2>1, <2>2, <2>4
<1>9. CASE Idle /\ (Abstract!Settle \/ Abstract!Tick)
  <2>1. e = b /\ fills' = <<>>
    BY <1>2, <1>9, Zenon DEF Abstract!Settle, Abstract!Tick, b
  <2>2. OnlyFewer(L, L)
    BY DEF OnlyFewer
  <2>3. N = L /\ account'.nextId = account.nextId
    BY <1>3, <2>1
  <2> QED BY <1>5, <1>9, <2>1, <2>2, <2>3 DEF NotPlaced, L, N
<1> QED BY <1>6, <1>7, <1>8, <1>9 DEF AbstractStep

-----------------------------------------------------------------------------
(* No two orders on the book have the same id, and the next is new.        *)
IdsOK(levels, next) ==
  /\ \A a \in Resting(levels) : OrderAt(levels, a).id \in Nat /\ OrderAt(levels, a).id < next
  /\ \A a, b \in Resting(levels) : OrderAt(levels, a).id = OrderAt(levels, b).id => a = b

(* So it is with the account at all times.                                 *)
IdsInv == IdsOK(SlotsOf(account), account.nextId)

(* Fewer orders have ids of their own still.                               *)
LEMMA IdsFewer ==
  ASSUME NEW levels, NEW n, NEW new, IdsOK(levels, n), OnlyFewer(levels, new)
  PROVE  IdsOK(new, n)
BY DEF IdsOK, OnlyFewer

(* So have they with one that gets the next id.                            *)
LEMMA IdsAdded ==
  ASSUME NEW levels, NEW n \in Nat, NEW new, NEW x, NEW o, IdsOK(levels, n),
         Added(levels, x, o, new), o.id = n
  PROVE  IdsOK(new, n + 1)
<1>1. /\ OrderAt(new, x).id = n /\ x \notin Resting(levels)
      /\ \A a \in Resting(new) : a = x \/ a \in Resting(levels)
      /\ \A a \in Resting(levels) : OrderAt(new, a) = OrderAt(levels, a)
      /\ \A a \in Resting(levels) : OrderAt(levels, a).id \in Nat /\ OrderAt(levels, a).id < n
      /\ \A a, b \in Resting(levels) : OrderAt(levels, a).id = OrderAt(levels, b).id => a = b
  BY DEF IdsOK, Added
<1>2. \A a \in Resting(new) : OrderAt(new, a).id \in Nat /\ OrderAt(new, a).id < n + 1
  BY <1>1
<1>3. ASSUME NEW a \in Resting(new), NEW b \in Resting(new), OrderAt(new, a).id = OrderAt(new, b).id
      PROVE  a = b
  BY <1>1, <1>3
<1> QED BY <1>2, <1>3 DEF IdsOK

(* The matched book has fewer orders than the account.                     *)
LEMMA MatchedIsFewer ==
  ASSUME LayoutInv, OrderCall
  PROVE  OnlyFewer(SlotsOf(account), MatchedBook.levels)
BY TheMatchOK, FewerFilled DEF LayoutInv

(* No step gives an id away twice.                                         *)
LEMMA IdsStep == EngineInv /\ IdsInv /\ [Next]_vars => IdsInv'
<1> SUFFICES ASSUME EngineInv, IdsInv, [Next]_vars PROVE IdsOK(SlotsOf(account'), account'.nextId)
  BY DEF IdsInv, SlotsOf, BookOf, HasLevel, Level, Slot
<1>1. LayoutInv /\ account.nextId \in Nat
  BY DEF EngineInv, LayoutInv, Sound, AccountOK
<1>2. CASE account' = account
  BY <1>2 DEF IdsInv
<1>3. CASE account' # account
  <2>1. AbstractStep
    BY <1>3, EngineStepsBook DEF vars
  <2>2. Placed \/ NotPlaced
    BY <2>1, StepOutcome
  <2>3. CASE NotPlaced
    BY <2>3, IdsFewer DEF NotPlaced, IdsInv
  <2>4. CASE Placed
    <3>1. IdsOK(MatchedBook.levels, account.nextId)
      BY <1>1, <2>4, MatchedIsFewer, IdsFewer DEF Placed, IdsInv
    <3>2. CASE OnlyFewer(MatchedBook.levels, SlotsOf(account')) /\ account'.nextId = account.nextId
      BY <3>1, <3>2, IdsFewer
    <3>3. CASE OrderAdded /\ account'.nextId = account.nextId + 1
      <4>1. PICK x, o : /\ o.id = account.nextId
                        /\ Added(MatchedBook.levels, x, o, SlotsOf(account'))
        BY <3>3 DEF OrderAdded
      <4> QED BY <1>1, <3>1, <3>3, <4>1, IdsAdded
    <3> QED BY <2>4, <3>2, <3>3 DEF Placed
  <2> QED BY <2>2, <2>3, <2>4
<1> QED BY <1>2, <1>3

(* The empty account holds no id.                                          *)
LEMMA IdsInit == Init => IdsInv
<1> SUFFICES ASSUME Init PROVE IdsInv
  OBVIOUS
<1>1. Sound(account) /\ \A p \in Prices : ~HasLevel(account, p)
  BY EmptySound DEF Init, EmptyAccount, HasLevel
<1>2. Resting(SlotsOf(account)) = {}
  BY <1>1, ActiveIsResting
<1> QED BY <1>2 DEF IdsInv, IdsOK

(* Both invariants always hold.                                            *)
LEMMA EngineAlways == Spec => [](EngineInv /\ IdsInv)
<1>1. Init => EngineInv /\ IdsInv
  BY EngineInit, IdsInit
<1>2. EngineInv /\ IdsInv /\ [Next]_vars => (EngineInv /\ IdsInv)'
  BY EngineStep, IdsStep
<1> QED BY <1>1, <1>2, PTL DEF Spec

-----------------------------------------------------------------------------
(* The order in which a match serves.                                      *)

(* The match serves the crossing orders in the order of the scan, and      *)
(* stops only when the taker has enough or the cap is reached.             *)
LEMMA TheMatchInOrder ==
  ASSUME LayoutInv, OrderCall
  PROVE  /\ InScanOrder(SlotsOf(account), call.side, call.price, TheMatch)
         /\ GoesOn(TheMatch, call.maxFills) => Len(TheMatch.fills) = CrossingCount
         /\ CrossingCount \in Nat
<1> DEFINE L == SlotsOf(account)
           n == CrossingCount
<1>1. LevelsOK(L, Orders) /\ call.qty \in Nat
  BY SoundLevels DEF LayoutInv, OrderCall
<1>2. n \in Nat
  BY <1>1, CrossingFinite DEF CrossingCount
<1>3. PICK m : IsChain(m, L, Orders, call.side, call.price, call.qty, call.maxFills)
  BY <1>1, MatchFolds
<1>4. TheMatch = m[n]
  BY <1>3, Zenon DEF IsChain, TheMatch, CrossingCount
<1>5. n \in 0 .. n
  BY <1>2
<1>6. \A k \in 0 .. n :
        /\ InScanOrder(L, call.side, call.price, m[k])
        /\ GoesOn(m[k], call.maxFills) => Len(m[k].fills) = k
  BY <1>1, <1>3, ChainInOrder DEF CrossingCount
<1> HIDE DEF L, n
<1> QED BY <1>2, <1>4, <1>5, <1>6 DEF L, n

(* An order that comes before a filled one in the scan is filled whole.    *)
LEMMA EarlierIsGone ==
  ASSUME LayoutInv, OrderCall, NEW k \in DOMAIN TheMatch.fills,
         NEW b \in Crossing(SlotsOf(account), call.side, call.price),
         ScannedBefore(SlotsOf(account), call.side, b, TheMatch.fills[k].at)
  PROVE  b \notin Resting(MatchedBook.levels)
<1> DEFINE L == SlotsOf(account)
           C == Crossing(L, call.side, call.price)
           R == ScanRelation(L, call.side, C)
           n == CrossingCount
           fs == TheMatch.fills
           a == fs[k].at
<1>1. /\ LevelsOK(L, Orders) /\ FillsApplied(L, fs, MatchedBook.levels)
      /\ MatchOK(L, Orders, call.side, call.price, call.qty, TheMatch)
      /\ fs \in Seq(Fills(Orders))
  BY TheMatchOK DEF LayoutInv
<1>2. /\ Len(fs) \in 0 .. n /\ n \in Nat
      /\ \A i \in DOMAIN fs : fs[i].at = Scan[i]
      /\ \A i \in DOMAIN fs : i < Len(fs) => fs[i].qty = OrderAt(L, Scan[i]).qty
  BY TheMatchInOrder DEF InScanOrder, Scan, CrossingCount
<1>3. /\ Scan \in [1 .. n -> C]
      /\ \A i, j \in 1 .. n : i < j => <<Scan[i], Scan[j]>> \in R
      /\ \A x \in C : \E j \in 1 .. n : Scan[j] = x
  BY <1>1, ScanLists DEF Lists, Scan, CrossingCount
<1>4. StrictOrder(C, R)
  <2>1. C \in SUBSET Resting(L)
    BY <1>1, CrossingFinite
  <2> QED BY <1>1, <2>1, ScanIsStrict
<1>5. k \in 1 .. Len(fs) /\ DOMAIN fs = 1 .. Len(fs) /\ k \in 1 .. n /\ a = Scan[k] /\ a \in C
  <2>1. DOMAIN fs = 1 .. Len(fs)
    BY <1>1
  <2>2. k \in 1 .. Len(fs) /\ k \in 1 .. n
    BY <1>2, <2>1
  <2> HIDE DEF C, fs, n
  <2> QED BY <1>2, <1>3, <2>1, <2>2 DEF fs
<1>6. <<b, a>> \in R
  BY <1>5 DEF ScanRelation
<1>7. PICK j \in 1 .. n : Scan[j] = b
  BY <1>3
<1> HIDE DEF C, R, a, n
<1>8. j < k
  <2>1. <<b, b>> \notin R /\ (<<a, b>> \in R => <<b, b>> \in R)
    <3>1. a \in C /\ b \in C
      BY <1>5 DEF C
    <3> QED BY <1>4, <1>6, <3>1 DEF StrictOrder
  <2>2. j # k
    BY <1>5, <1>6, <1>7, <2>1
  <2>3. ~(k < j)
    BY <1>3, <1>5, <1>7, <2>1
  <2> QED BY <1>5, <1>7, <2>2, <2>3
<1>9. j \in DOMAIN fs /\ fs[j].at = b /\ fs[j].qty = OrderAt(L, b).qty
  <2>1. j \in DOMAIN fs /\ j < Len(fs)
    BY <1>2, <1>5, <1>8
  <2> QED BY <1>2, <1>7, <2>1
<1>10. b \in Resting(MatchedBook.levels) => fs[j].qty < OrderAt(L, b).qty
  BY <1>1, <1>9 DEF FillsApplied
<1>11. OrderAt(L, b).qty \in Nat
  <2>1. b \in Resting(L)
    BY DEF Crossing
  <2> QED BY <1>1, <2>1, RestingOrders
<1> QED BY <1>9, <1>10, <1>11

(* One that is gone is not kept, though its slot may be taken again.       *)
LEMMA GoneNotKept ==
  ASSUME EngineInv, IdsInv, Placed, NEW b, b \notin Resting(MatchedBook.levels)
  PROVE  ~Abstract!Kept(b)
<1> DEFINE L == SlotsOf(account)
           N == SlotsOf(account')
<1> SUFFICES ASSUME Abstract!Kept(b) PROVE FALSE
  OBVIOUS
<1>1. b \in Resting(L) /\ b \in Resting(N) /\ OrderAt(L, b).id = OrderAt(N, b).id
  <2>1. BookOf(account)' = BookOf(account')
    BY DEF BookOf, HasLevel, Level, Slot
  <2>2. BookOf(account).levels = L /\ BookOf(account').levels = N
    BY BookByParts
  <2>3. /\ b \in Abstract!Resting(BookOf(account).levels) \cap Abstract!Resting(BookOf(account').levels)
        /\ Abstract!OrderAt(BookOf(account).levels, b).id = Abstract!OrderAt(BookOf(account').levels, b).id
    BY <2>1, Zenon DEF Abstract!Kept
  <2> HIDE DEF L, N
  <2>4. b \in Abstract!Resting(L) \cap Abstract!Resting(N)
        /\ Abstract!OrderAt(L, b).id = Abstract!OrderAt(N, b).id
    BY <2>2, <2>3
  <2> QED BY <2>4, SameResting, SameAt
<1>2. OrderAt(L, b).id < account.nextId /\ OrderAt(L, b).id \in Nat
  BY <1>1 DEF IdsInv, IdsOK
<1> HIDE DEF L, N
<1>3. ~OnlyFewer(MatchedBook.levels, N)
  BY <1>1 DEF OnlyFewer
<1>4. PICK x, o : o.id = account.nextId /\ Added(MatchedBook.levels, x, o, N)
  BY <1>3 DEF Placed, OrderAdded, N
<1>5. b = x /\ OrderAt(N, x) = o
  BY <1>1, <1>4 DEF Added
<1> QED BY <1>1, <1>2, <1>4, <1>5

(* The fills reported are those of the match.                              *)
LEMMA FillsReported ==
  ASSUME LayoutInv, Placed, NEW k \in DOMAIN fills'
  PROVE  LET f == TheMatch.fills[k]
         IN  /\ k \in DOMAIN TheMatch.fills /\ OrderCall
             /\ FillOK(SlotsOf(account), call.side, call.price, f)
             /\ fills'[k].id = f.id /\ fills'[k].price = f.price
             /\ fills'[k].makerSide = f.makerSide /\ fills'[k].takerSide = call.side
<1> DEFINE fs == TheMatch.fills
<1>1. OrderCall /\ fills' = Events(fs)
  BY DEF Placed
<1>2. /\ fs \in Seq(Fills(Orders))
      /\ MatchOK(SlotsOf(account), Orders, call.side, call.price, call.qty, TheMatch)
  BY <1>1, TheMatchOK DEF LayoutInv
<1>3. k \in DOMAIN fs /\ fills'[k] = Abstract!FillEvent(call.owner, call.side, fs[k])
  BY <1>1 DEF Events
<1>4. FillOK(SlotsOf(account), call.side, call.price, fs[k])
  BY <1>2, <1>3 DEF MatchOK
<1> HIDE DEF fs
<1>5. /\ fills'[k].id = fs[k].id /\ fills'[k].price = fs[k].price
      /\ fills'[k].makerSide = fs[k].makerSide /\ fills'[k].takerSide = call.side
  BY <1>3 DEF Abstract!FillEvent
<1> QED BY <1>1, <1>3, <1>4, <1>5 DEF fs

(* A step that changes the account with fills places an order.             *)
LEMMA FillsArePlaced ==
  ASSUME EngineInv, [Next]_vars, Changes, NEW k \in DOMAIN fills'
  PROVE  Placed
<1>1. AbstractStep
  BY EngineStepsBook DEF Changes, vars
<1>2. Placed \/ NotPlaced
  BY <1>1, StepOutcome
<1>3. ~NotPlaced
  BY DEF NotPlaced
<1> QED BY <1>2, <1>3

(* No step fills an order and keeps an older one of its side and price.    *)
LEMMA ServesByAge ==
  EngineInv /\ IdsInv /\ [Next]_vars => [Changes => ~Abstract!OlderPassedOver]_vars
<1> SUFFICES ASSUME EngineInv, IdsInv, [Next]_vars, Changes, Abstract!OlderPassedOver PROVE FALSE
  OBVIOUS
<1> DEFINE L == SlotsOf(account)
<1>1. LayoutInv /\ LevelsOK(L, Orders)
  BY SoundLevels DEF EngineInv, LayoutInv
<1>2. BookOf(account).levels = L /\ Abstract!Resting(BookOf(account).levels) = Resting(L)
  BY BookByParts, SameResting
<1>3. PICK k \in DOMAIN fills' : \E a, b \in Resting(L) :
        LET taken == Abstract!OrderAt(BookOf(account).levels, a)
            left == Abstract!OrderAt(BookOf(account).levels, b)
        IN  /\ taken.id = fills'[k].id
            /\ Abstract!Kept(b)
            /\ a[1] = b[1] /\ taken.side = left.side
            /\ left.ts < taken.ts
  BY <1>2, Zenon DEF Abstract!OlderPassedOver
<1> HIDE DEF L
<1>4. PICK a \in Resting(L), b \in Resting(L) :
        /\ OrderAt(L, a).id = fills'[k].id
        /\ Abstract!Kept(b)
        /\ a[1] = b[1] /\ OrderAt(L, a).side = OrderAt(L, b).side
        /\ OrderAt(L, b).ts < OrderAt(L, a).ts
  BY <1>2, <1>3, SameAt
<1>5. Placed
  BY FillsArePlaced
<1> DEFINE f == TheMatch.fills[k]
<1>6. /\ k \in DOMAIN TheMatch.fills /\ OrderCall /\ fills'[k].id = f.id
      /\ FillOK(L, call.side, call.price, f)
  BY <1>1, <1>5, FillsReported DEF L
<1> HIDE DEF f
<1>7. f.at \in Crossing(L, call.side, call.price) /\ f.id = OrderAt(L, f.at).id /\ f.at \in Resting(L)
  BY <1>6 DEF FillOK, Crossing
<1>8. a = f.at
  BY <1>4, <1>6, <1>7 DEF IdsInv, IdsOK, L
<1>9. b \in Crossing(L, call.side, call.price)
  BY <1>4, <1>7, <1>8 DEF Crossing, Crosses
<1>10. ScannedBefore(L, call.side, b, f.at)
  BY <1>4, <1>8 DEF ScannedBefore
<1>11. b \notin Resting(MatchedBook.levels)
  BY <1>1, <1>6, <1>9, <1>10, EarlierIsGone DEF L, f
<1> QED BY <1>4, <1>5, <1>11, GoneNotKept

(* No step fills an ask or a USDC bid and keeps a better priced one.       *)
LEMMA ServesByPrice ==
  EngineInv /\ IdsInv /\ [Next]_vars => [Changes => ~Abstract!BetterPassedOver({UsdcBid, YesAsk})]_vars
<1> SUFFICES ASSUME EngineInv, IdsInv, [Next]_vars, Changes,
                    Abstract!BetterPassedOver({UsdcBid, YesAsk}) PROVE FALSE
  OBVIOUS
<1> DEFINE L == SlotsOf(account)
           side == call.side
<1>1. LayoutInv /\ LevelsOK(L, Orders)
  BY SoundLevels DEF EngineInv, LayoutInv
<1>2. BookOf(account).levels = L /\ Abstract!Resting(BookOf(account).levels) = Resting(L)
  BY BookByParts, SameResting
<1>3. PICK k \in DOMAIN fills' : \E b \in Resting(L) :
        LET f == fills'[k]
            left == Abstract!OrderAt(BookOf(account).levels, b)
        IN  /\ Abstract!Kept(b)
            /\ f.makerSide \in {UsdcBid, YesAsk} /\ left.side = f.makerSide
            /\ Abstract!TakerValue(f.takerSide, left.side, b[1])
                 > Abstract!TakerValue(f.takerSide, left.side, f.price)
  BY <1>2, Zenon DEF Abstract!BetterPassedOver
<1> HIDE DEF L
<1>4. PICK b \in Resting(L) :
        /\ Abstract!Kept(b)
        /\ fills'[k].makerSide \in {UsdcBid, YesAsk} /\ OrderAt(L, b).side = fills'[k].makerSide
        /\ Abstract!TakerValue(fills'[k].takerSide, OrderAt(L, b).side, b[1])
             > Abstract!TakerValue(fills'[k].takerSide, OrderAt(L, b).side, fills'[k].price)
  BY <1>2, <1>3, SameAt
<1>5. Placed
  BY FillsArePlaced
<1> DEFINE f == TheMatch.fills[k]
<1>6. /\ k \in DOMAIN TheMatch.fills /\ OrderCall
      /\ fills'[k].price = f.price /\ fills'[k].makerSide = f.makerSide /\ fills'[k].takerSide = side
      /\ FillOK(L, side, call.price, f)
  BY <1>1, <1>5, FillsReported DEF L
<1> HIDE DEF f
<1>7. /\ f.at \in Crossing(L, side, call.price) /\ f.at \in Resting(L) /\ f.price = f.at[1]
      /\ f.makerSide = OrderAt(L, f.at).side
      /\ Crosses(side, call.price, f.at[1], OrderAt(L, f.at))
  BY <1>6 DEF FillOK, Crossing
<1>8. /\ f.at[1] \in Nat /\ b[1] \in Nat /\ call.price \in Nat /\ Dollar \in Nat
      /\ side \in {UsdcBid, YesAsk, NoBid}
  <2>1. f.at[1] \in Prices /\ b[1] \in Prices /\ call.price \in Prices
    BY <1>1, <1>6, <1>7, RestingOrders DEF OrderCall
  <2> QED BY <1>6, <2>1, PricesAreNumbers, DollarAssumption DEF OrderCall, Sides
<1> DEFINE p == b[1]
           q == f.at[1]
           o == OrderAt(L, b)
           maker == f.makerSide
<1>9. /\ maker \in {UsdcBid, YesAsk} /\ o.side = maker /\ OrderAt(L, f.at).side = maker
      /\ IF side = YesAsk /\ maker = UsdcBid THEN p > q ELSE Dollar - p > Dollar - q
  BY <1>4, <1>6, <1>7 DEF Abstract!TakerValue, Abstract!YesAsk, Abstract!UsdcBid, YesAsk, UsdcBid
<1>10. /\ side = YesAsk => p > q /\ maker = UsdcBid /\ q >= call.price
       /\ side # YesAsk => p < q /\ maker = YesAsk
       /\ side = UsdcBid => q <= call.price
       /\ side = NoBid => q <= Dollar - call.price
  BY <1>7, <1>8, <1>9 DEF Crosses, UsdcBid, YesAsk, NoBid
<1>11. Crosses(side, call.price, p, o)
  BY <1>8, <1>9, <1>10 DEF Crosses, UsdcBid, YesAsk, NoBid
<1>12. b \in Crossing(L, side, call.price)
  BY <1>11 DEF Crossing
<1>13. ScannedBefore(L, side, b, f.at)
  BY <1>8, <1>10 DEF ScannedBefore
<1>14. b \notin Resting(MatchedBook.levels)
  BY <1>1, <1>6, <1>12, <1>13, EarlierIsGone DEF L, f
<1> QED BY <1>4, <1>5, <1>14, GoneNotKept

-----------------------------------------------------------------------------
(* Orders that could have traded with each other.                          *)

(* Could the ask at a and the bid at b of these levels have traded?        *)
CouldTrade(levels, a, b) ==
  /\ OrderAt(levels, a).side = YesAsk
  /\ \/ OrderAt(levels, b).side = UsdcBid /\ a[1] <= b[1]
     \/ OrderAt(levels, b).side = NoBid /\ a[1] + b[1] <= Dollar

(* A pair of ids is crossed when the orders in some two slots could trade. *)
LEMMA CrossedPairs ==
  ASSUME NEW levels, NEW z
  PROVE  z \in Abstract!Crossed(levels) <=>
           \E a, b \in Resting(levels) :
             CouldTrade(levels, a, b) /\ z = <<OrderAt(levels, a).id, OrderAt(levels, b).id>>
<1> DEFINE T(ab) == /\ OrderAt(levels, ab[1]).side = YesAsk
                    /\ CASE OrderAt(levels, ab[2]).side = UsdcBid -> ab[1][1] <= ab[2][1]
                         [] OrderAt(levels, ab[2]).side = NoBid   -> ab[1][1] + ab[2][1] <= Dollar
                         [] OTHER -> FALSE
<1>1. Abstract!Crossed(levels)
        = {<<OrderAt(levels, pair[1]).id, OrderAt(levels, pair[2]).id>> :
             pair \in {ab \in Resting(levels) \X Resting(levels) : T(ab)}}
  BY SameResting, SameAt, Zenon DEF Abstract!Crossed, Abstract!YesAsk, Abstract!UsdcBid,
     Abstract!NoBid, YesAsk, UsdcBid, NoBid
<1>2. \A a, b : T(<<a, b>>) <=> CouldTrade(levels, a, b)
  BY DEF CouldTrade, UsdcBid, NoBid, YesAsk
<1> HIDE DEF T
<1>3. z \in Abstract!Crossed(levels) <=>
        \E pair \in Resting(levels) \X Resting(levels) :
          T(pair) /\ z = <<OrderAt(levels, pair[1]).id, OrderAt(levels, pair[2]).id>>
  BY <1>1
<1>4. ASSUME NEW pair \in Resting(levels) \X Resting(levels), T(pair),
             z = <<OrderAt(levels, pair[1]).id, OrderAt(levels, pair[2]).id>>
      PROVE  \E a, b \in Resting(levels) :
               CouldTrade(levels, a, b) /\ z = <<OrderAt(levels, a).id, OrderAt(levels, b).id>>
  <2>1. PICK a \in Resting(levels), b \in Resting(levels) : pair = <<a, b>>
    OBVIOUS
  <2>2. pair[1] = a /\ pair[2] = b
    BY <2>1
  <2> QED BY <1>2, <1>4, <2>1, <2>2
<1>5. ASSUME NEW a \in Resting(levels), NEW b \in Resting(levels), CouldTrade(levels, a, b),
             z = <<OrderAt(levels, a).id, OrderAt(levels, b).id>>
      PROVE  \E pair \in Resting(levels) \X Resting(levels) :
               T(pair) /\ z = <<OrderAt(levels, pair[1]).id, OrderAt(levels, pair[2]).id>>
  <2> DEFINE pair == <<a, b>>
  <2>1. pair \in Resting(levels) \X Resting(levels) /\ pair[1] = a /\ pair[2] = b
    OBVIOUS
  <2>2. T(pair)
    BY <1>2, <1>5
  <2> HIDE DEF pair
  <2> QED BY <1>5, <2>1, <2>2
<1> QED BY <1>3, <1>4, <1>5

(* Of two orders that could trade the later crosses the earlier.           *)
LEMMA OneCrosses ==
  ASSUME NEW levels, NEW a, NEW b, CouldTrade(levels, a, b), a[1] \in Nat, b[1] \in Nat
  PROVE  /\ Crosses(YesAsk, a[1], b[1], OrderAt(levels, b))
         /\ Crosses(OrderAt(levels, b).side, b[1], a[1], OrderAt(levels, a))
BY DollarAssumption DEF CouldTrade, Crosses, UsdcBid, YesAsk, NoBid

(* A match the cap did not end leaves no new pair that could trade.        *)
LEMMA RestsUncrossed ==
  EngineInv /\ [Next]_vars =>
    [Changes /\ Matched /\ Len(fills') < call.maxFills =>
       Abstract!Crossed(BookOf(account').levels) \subseteq Abstract!Crossed(BookOf(account).levels)]_vars
<1> SUFFICES ASSUME EngineInv, [Next]_vars, Changes, Matched, Len(fills') < call.maxFills
             PROVE  Abstract!Crossed(BookOf(account').levels)
                      \subseteq Abstract!Crossed(BookOf(account).levels)
  OBVIOUS
<1> DEFINE L == SlotsOf(account)
           N == SlotsOf(account')
           M == MatchedBook.levels
           side == call.side
           p == call.price
<1>1. Placed
  <2>1. AbstractStep
    BY EngineStepsBook DEF Changes, vars
  <2> QED BY <2>1, StepOutcome DEF NotPlaced
<1>2. LayoutInv /\ OrderCall
  BY <1>1 DEF Placed, EngineInv
<1>3. /\ LevelsOK(L, Orders) /\ BookOK(MatchedBook, Orders) /\ Len(fills') = Len(TheMatch.fills)
      /\ M = AfterFills(L, TheMatch.fills)
      /\ MatchOK(L, Orders, side, p, call.qty, TheMatch)
  <2>1. TheMatch.fills \in Seq(Fills(Orders))
    BY <1>2, TheMatchOK DEF LayoutInv
  <2>2. MatchedBook = [levels |-> AfterFills(L, TheMatch.fills),
                       nextId |-> account.nextId, allocated |-> account.maxLevels]
    BY <1>2, TheMatchOK DEF LayoutInv
  <2> QED BY <1>1, <1>2, <2>1, <2>2, TheMatchOK, EventsFacts DEF Placed, LayoutInv
<1>4. BookOf(account').levels = N /\ BookOf(account).levels = L
  BY BookByParts
<1>5. OnlyFewer(L, M)
  BY <1>2, MatchedIsFewer
<1>6. Wants => \A at \in Resting(M) : ~Crosses(side, p, at[1], OrderAt(M, at))
  <2> SUFFICES ASSUME Wants, NEW at \in Resting(M), Crosses(side, p, at[1], OrderAt(M, at)) PROVE FALSE
    OBVIOUS
  <2>1. GoesOn(TheMatch, call.maxFills)
    <3>1. Len(TheMatch.fills) < call.maxFills /\ Len(TheMatch.fills) \in Nat
      BY <1>3 DEF MatchOK, Matches
    <3>2. TheMatch.remaining \in Nat
      BY <1>2, TheMatchOK DEF LayoutInv
    <3> QED BY <1>2, <3>1, <3>2, BookAssumption DEF GoesOn, Wants, OrderCall
  <2>2. Len(TheMatch.fills) = CrossingCount /\ CrossingCount \in Nat
        /\ InScanOrder(L, side, p, TheMatch)
    BY <1>2, <2>1, TheMatchInOrder
  <2>3. \A x \in Resting(M) : Crosses(side, p, x[1], OrderAt(M, x)) =>
          \E j \in Len(TheMatch.fills) + 1 .. CrossingCount : x = Scan[j]
    <3> HIDE DEF L, side, p, M
    <3>1. \A x \in Resting(AfterFills(L, TheMatch.fills)) :
            Crosses(side, p, x[1], OrderAt(AfterFills(L, TheMatch.fills), x)) =>
              \E j \in Len(TheMatch.fills) + 1 .. Cardinality(Crossing(L, side, p)) :
                x = ScanOrder(L, side, p)[j]
      BY <1>3, <2>1, <2>2, OrdersReducible, CrossingLeft
    <3> QED BY <1>3, <3>1 DEF L, side, p, CrossingCount, Scan
  <2>4. \E j \in Len(TheMatch.fills) + 1 .. CrossingCount : at = Scan[j]
    BY <2>3
  <2> QED BY <2>2, <2>4
<1> HIDE DEF L, N, M, side, p
<1> SUFFICES ASSUME NEW z \in Abstract!Crossed(N) PROVE z \in Abstract!Crossed(L)
  BY <1>4
<1>7. PICK a \in Resting(N), b \in Resting(N) :
        CouldTrade(N, a, b) /\ z = <<OrderAt(N, a).id, OrderAt(N, b).id>>
  BY CrossedPairs
<1>8. CASE OnlyFewer(M, N)
  <2>1. /\ a \in Resting(L) /\ b \in Resting(L)
        /\ OrderAt(N, a).id = OrderAt(L, a).id /\ OrderAt(N, b).id = OrderAt(L, b).id
        /\ OrderAt(N, a).side = OrderAt(L, a).side /\ OrderAt(N, b).side = OrderAt(L, b).side
    BY <1>5, <1>8 DEF OnlyFewer
  <2>2. CouldTrade(L, a, b)
    BY <1>7, <2>1 DEF CouldTrade
  <2> QED BY <1>7, <2>1, <2>2, CrossedPairs
<1>9. CASE Wants /\ OrderAdded
  <2>1. PICK x, o : x[1] = p /\ o.side = side /\ Added(M, x, o, N)
    BY <1>9 DEF OrderAdded, p, side, M, N
  <2>2. /\ OrderAt(N, x) = o
        /\ \A y \in Resting(N) : y = x \/ (y \in Resting(M) /\ OrderAt(N, y) = OrderAt(M, y))
    BY <2>1 DEF Added
  <2>3. \A y \in Resting(M) : y[1] \in Nat
    <3>1. LevelsOK(M, Orders)
      BY <1>3 DEF BookOK, M
    <3> QED BY <3>1, RestingOrders, PricesAreNumbers
  <2>4. p \in Nat
    BY <1>2, PricesAreNumbers DEF OrderCall, p
  <2>5. a[1] \in Nat /\ b[1] \in Nat
    BY <2>1, <2>2, <2>3, <2>4
  <2>6. /\ Crosses(YesAsk, a[1], b[1], OrderAt(N, b))
        /\ Crosses(OrderAt(N, b).side, b[1], a[1], OrderAt(N, a))
    BY <1>7, <2>5, OneCrosses
  <2>7. a # b
    BY <1>7 DEF CouldTrade, UsdcBid, YesAsk, NoBid
  <2>8. a # x
    <3> SUFFICES ASSUME a = x PROVE FALSE
      OBVIOUS
    <3>1. side = YesAsk /\ b \in Resting(M) /\ OrderAt(N, b) = OrderAt(M, b)
      BY <1>7, <2>1, <2>2, <2>7 DEF CouldTrade
    <3> QED BY <1>6, <1>9, <2>1, <2>6, <3>1
  <2>9. b # x
    <3> SUFFICES ASSUME b = x PROVE FALSE
      OBVIOUS
    <3>1. a \in Resting(M) /\ OrderAt(N, a) = OrderAt(M, a) /\ OrderAt(N, b).side = side
      BY <2>1, <2>2, <2>7
    <3> QED BY <1>6, <1>9, <2>1, <2>6, <3>1
  <2>10. /\ a \in Resting(L) /\ b \in Resting(L)
         /\ OrderAt(N, a).id = OrderAt(L, a).id /\ OrderAt(N, b).id = OrderAt(L, b).id
         /\ OrderAt(N, a).side = OrderAt(L, a).side /\ OrderAt(N, b).side = OrderAt(L, b).side
    BY <1>5, <2>2, <2>8, <2>9 DEF OnlyFewer
  <2>11. CouldTrade(L, a, b)
    BY <1>7, <2>10 DEF CouldTrade
  <2> QED BY <1>7, <2>10, <2>11, CrossedPairs
<1> QED BY <1>1, <1>8, <1>9 DEF Placed, M, N

(* An order is never filled before an older one of its side and price that *)
(* stays on the book: slots are reused and levels move, and still the scan *)
(* serves by age.                                                          *)
THEOREM FillsByTime == Spec => TimePriority
BY EngineAlways, ServesByAge, PTL DEF Spec, TimePriority

(* Asks and USDC bids are filled best price first.                         *)
THEOREM FillsByPrice == Spec => BestPriceFirst
BY EngineAlways, ServesByPrice, PTL DEF Spec, BestPriceFirst

(* Two orders that could trade come to rest side by side only where        *)
(* max_fills ended the match of the later one.                             *)
THEOREM RestingIsUncrossed == Spec => CrossedOnlyByCap
<1>1. Spec => []EngineInv
  BY EngineAlways, PTL
<1> QED BY <1>1, RestsUncrossed, PTL DEF Spec, CrossedOnlyByCap
=============================================================================
