------------------------- MODULE BookAccountProofs -------------------------
(***************************************************************************)
(* The bytes of the order book stay sound, for every number of prices,     *)
(* levels, slots and orders: whatever the engine appends, grows, fills,    *)
(* cancels and frees, no two levels overlap, no offset leaves what the     *)
(* price map can hold, and every level counts its active orders.           *)
(***************************************************************************)
EXTENDS BookRefinement, FiniteSums, FiniteSetTheorems, TLAPS

(* The account's fields; its cells are numbered through.                   *)
AccountOK(a) ==
  /\ a = [len |-> a.len, cells |-> a.cells, map |-> a.map,
          maxLevels |-> a.maxLevels, nextId |-> a.nextId]
  /\ a.len \in Nat
  /\ a.cells = [i \in 1 .. a.len |-> a.cells[i]]
  /\ a.map \in [Prices -> Nat]
  /\ a.maxLevels \in Nat
  /\ a.nextId \in Nat

Sound(a) == AccountOK(a) /\ LevelsApart(a) /\ ActiveCounted(a)

(* The slots of each level, and the two counters, as the book has them.    *)
SlotsOf(a) == BookOf(a).levels
LevelBecomes(a, b, p, level) == SlotsOf(b) = [SlotsOf(a) EXCEPT ![p] = level]
SlotWritten(a, b, p, s, x) == LevelBecomes(a, b, p, [SlotsOf(a)[p] EXCEPT ![s] = x])
SameCounters(a, b) == b.nextId = a.nextId /\ b.maxLevels = a.maxLevels

(* The active slots of the level of price p.                               *)
ActiveAt(a, p) == ActiveSlots(a, a.map[p], Level(a, p).slots)

-----------------------------------------------------------------------------
(* One level.                                                              *)

(* A price is a number of cents.                                           *)
LEMMA PricesAreNumbers == Prices \subseteq Nat /\ \A p \in Prices : p # 0
  BY DollarAssumption DEF Prices

(* A set of slots has a first one, which First picks.                      *)
LEMMA FirstIsIn ==
  ASSUME NEW n \in Nat, NEW S \in SUBSET (1 .. n), S # {}
  PROVE  First(S) \in S
<1>1. \E x \in S : \A y \in S : x <= y
  BY SmallestMember
<1> QED BY <1>1 DEF First

(* What LevelsApart says of one level, in the form the proofs use.         *)
LEMMA LevelFacts ==
  ASSUME NEW a, AccountOK(a), LevelsApart(a), NEW p \in Prices, HasLevel(a, p)
  PROVE  /\ a.map[p] \in Nat /\ a.map[p] >= 1 /\ a.map[p] < Unallocated
         /\ Level(a, p).slots \in Nat
         /\ Level(a, p).slots >= 1 /\ Level(a, p).slots <= MaxSlots
         /\ Level(a, p).active \in Nat
         /\ Level(a, p) \in Headers
         /\ Level(a, p).price = p
         /\ a.map[p] + Level(a, p).slots <= a.len
         /\ \A s \in 1 .. Level(a, p).slots : a.cells[a.map[p] + s] \in Orders \cup {NoOrder}
<1>1. /\ a.map[p] \in 1 .. Unallocated - 1
      /\ Level(a, p) \in Headers
      /\ Level(a, p).price = p
      /\ Level(a, p).slots \in 1 .. MaxSlots
      /\ a.map[p] + Level(a, p).slots <= a.len
      /\ \A s \in 1 .. Level(a, p).slots : Slot(a, a.map[p], s) \in Orders \cup {NoOrder}
  BY DEF LevelsApart
<1>2. Unallocated \in Nat /\ MaxSlots \in Nat
  BY AccountAssumption
<1>3. Level(a, p).active \in Nat
  BY <1>1 DEF Headers
<1> QED BY <1>1, <1>2, <1>3 DEF Slot

(* Of two levels one lies wholly before the other.                         *)
LEMMA TwoLevels ==
  ASSUME NEW a, AccountOK(a), LevelsApart(a),
         NEW p \in Prices, HasLevel(a, p), NEW q \in Prices, HasLevel(a, q), p # q
  PROVE  \/ a.map[p] + Level(a, p).slots < a.map[q]
         \/ a.map[q] + Level(a, q).slots < a.map[p]
<1>1. a.map[p] \in Nat /\ a.map[q] \in Nat
  BY LevelFacts
<1>2. a.map[p] # a.map[q]
  BY DEF LevelsApart
<1>3. a.map[q] > a.map[p] \/ a.map[p] > a.map[q]
  BY <1>1, <1>2
<1>4. q \in Behind(a, p) \/ p \in Behind(a, q)
  BY <1>3 DEF Behind
<1> QED BY <1>4 DEF LevelsApart

(* One level on its own, and two levels that do not overlap.               *)
LevelOK(a, p) ==
  /\ a.map[p] >= 1 /\ a.map[p] < Unallocated
  /\ Level(a, p) \in Headers
  /\ Level(a, p).price = p
  /\ Level(a, p).slots >= 1 /\ Level(a, p).slots <= MaxSlots
  /\ a.map[p] + Level(a, p).slots <= a.len
  /\ \A s \in 1 .. Level(a, p).slots : a.cells[a.map[p] + s] \in Orders \cup {NoOrder}
  /\ Level(a, p).active = Cardinality(ActiveAt(a, p))

Apart(a, p, q) ==
  \/ a.map[p] + Level(a, p).slots < a.map[q]
  \/ a.map[q] + Level(a, q).slots < a.map[p]

(* Levels that are sound one by one and lie apart pair by pair make a sound*)
(* account.                                                                *)
LEMMA SoundByLevels ==
  ASSUME NEW a, AccountOK(a),
         \A p \in Prices : HasLevel(a, p) => LevelOK(a, p),
         \A p, q \in Prices : HasLevel(a, p) /\ HasLevel(a, q) /\ p # q => Apart(a, p, q)
  PROVE  Sound(a)
<1>0. MaxSlots \in Nat /\ Unallocated \in Nat
  BY AccountAssumption
<1>1. \A p \in Prices : a.map[p] \in Nat
  BY DEF AccountOK
<1>2. ASSUME NEW p \in Prices, HasLevel(a, p) PROVE Level(a, p).slots \in Nat /\ Level(a, p).price = p
  BY <1>2 DEF LevelOK, Headers
<1>3. ASSUME NEW p \in Prices, HasLevel(a, p), NEW q \in Behind(a, p)
      PROVE  a.map[p] + Level(a, p).slots < a.map[q]
  <2>1. q \in Prices /\ HasLevel(a, q) /\ a.map[q] > a.map[p]
    BY <1>3 DEF Behind
  <2>2. q # p
    BY <1>1, <2>1
  <2>3. Apart(a, p, q)
    BY <1>3, <2>1, <2>2
  <2> QED BY <1>1, <1>2, <1>3, <2>1, <2>3 DEF Apart
<1>4. ASSUME NEW p \in Prices, HasLevel(a, p), NEW q \in Prices, HasLevel(a, q), a.map[q] = a.map[p]
      PROVE  q = p
  <2> SUFFICES ASSUME q # p PROVE FALSE
    OBVIOUS
  <2>1. Apart(a, p, q)
    BY <1>4
  <2> QED BY <1>1, <1>2, <1>4, <2>1 DEF Apart
<1>5. ASSUME NEW p \in Prices, HasLevel(a, p)
      PROVE  /\ a.map[p] \in 1 .. Unallocated - 1
             /\ Level(a, p) \in Headers
             /\ Level(a, p).price = p
             /\ Level(a, p).slots \in 1 .. MaxSlots
             /\ a.map[p] + Level(a, p).slots <= a.len
             /\ \A s \in 1 .. Level(a, p).slots : Slot(a, a.map[p], s) \in Orders \cup {NoOrder}
  BY <1>0, <1>1, <1>2, <1>5 DEF LevelOK, Slot
<1>6. LevelsApart(a)
  BY <1>3, <1>4, <1>5 DEF LevelsApart
<1>7. ActiveCounted(a)
  BY DEF ActiveCounted, LevelOK, ActiveAt
<1> QED BY <1>6, <1>7 DEF Sound

(* A sound account is sound level by level.                                *)
LEMMA LevelsOfSound ==
  ASSUME NEW a, Sound(a)
  PROVE  /\ AccountOK(a)
         /\ \A p \in Prices : HasLevel(a, p) => LevelOK(a, p)
         /\ \A p, q \in Prices : HasLevel(a, p) /\ HasLevel(a, q) /\ p # q => Apart(a, p, q)
<1>1. AccountOK(a) /\ LevelsApart(a) /\ ActiveCounted(a)
  BY DEF Sound
<1>2. ASSUME NEW p \in Prices, HasLevel(a, p) PROVE LevelOK(a, p)
  <2>1. Level(a, p).active = Cardinality(ActiveAt(a, p))
    BY <1>1, <1>2 DEF ActiveCounted, ActiveAt
  <2> QED BY <1>1, <1>2, <2>1, LevelFacts DEF LevelOK
<1>3. ASSUME NEW p \in Prices, NEW q \in Prices, HasLevel(a, p), HasLevel(a, q), p # q
      PROVE  Apart(a, p, q)
  BY <1>1, <1>3, TwoLevels DEF Apart
<1> QED BY <1>1, <1>2, <1>3

(* What BookOf makes of the slots at one price.                            *)
LEMMA SlotsAt ==
  ASSUME NEW a, NEW p \in Prices
  PROVE  /\ DOMAIN SlotsOf(a) = Prices
         /\ HasLevel(a, p) =>
              SlotsOf(a)[p] = [s \in 1 .. Level(a, p).slots |-> a.cells[a.map[p] + s]]
         /\ ~HasLevel(a, p) => SlotsOf(a)[p] = <<>>
BY DEF SlotsOf, BookOf, Slot

(* A write to one level leaves the slots of the others alone.              *)
LEMMA OneLevelWritten ==
  ASSUME NEW a, NEW b, NEW p \in Prices, NEW level, SlotsOf(b)[p] = level,
         \A q \in Prices : q # p => SlotsOf(b)[q] = SlotsOf(a)[q]
  PROVE  LevelBecomes(a, b, p, level)
<1>1. /\ SlotsOf(a) = [q \in Prices |-> SlotsOf(a)[q]]
      /\ SlotsOf(b) = [q \in Prices |-> SlotsOf(b)[q]]
  BY DEF SlotsOf, BookOf
<1> QED BY <1>1 DEF LevelBecomes

(* Of two writes to the same level the second stays.                       *)
LEMMA WrittenTwice ==
  ASSUME NEW a, NEW b, NEW c, NEW p \in Prices, NEW x, NEW y,
         LevelBecomes(a, b, p, x), LevelBecomes(b, c, p, y)
  PROVE  SlotsOf(b)[p] = x /\ LevelBecomes(a, c, p, y)
<1>1. DOMAIN SlotsOf(a) = Prices
  BY SlotsAt
<1> QED BY <1>1 DEF LevelBecomes

(* A level that is not touched becomes what it is.                         *)
LEMMA NothingWritten ==
  ASSUME NEW a, NEW p \in Prices
  PROVE  LevelBecomes(a, a, p, SlotsOf(a)[p])
BY OneLevelWritten

(* A level that is carried over, cell by cell, is as it was.               *)
LEMMA CarriedOver ==
  ASSUME NEW a, NEW b, NEW q \in Prices, Sound(a), HasLevel(a, q),
         b.map[q] \in Nat, b.len \in Nat,
         \A i \in 0 .. Level(a, q).slots : b.cells[b.map[q] + i] = a.cells[a.map[q] + i],
         b.map[q] >= 1, b.map[q] < Unallocated,
         b.map[q] + Level(a, q).slots <= b.len
  PROVE  /\ Level(b, q) = Level(a, q)
         /\ LevelOK(b, q)
         /\ SlotsOf(b)[q] = SlotsOf(a)[q]
<1>0. LevelOK(a, q) /\ a.map[q] \in Nat
  BY LevelsOfSound DEF AccountOK
<1>1. Level(a, q).slots \in Nat /\ 0 \in 0 .. Level(a, q).slots
  BY <1>0 DEF LevelOK, Headers
<1>2. Level(b, q) = Level(a, q)
  <2>1. b.cells[b.map[q] + 0] = a.cells[a.map[q] + 0]
    BY <1>1
  <2>2. b.map[q] + 0 = b.map[q] /\ a.map[q] + 0 = a.map[q]
    BY <1>0
  <2> QED BY <2>1, <2>2 DEF Level
<1>3. \A s \in 1 .. Level(a, q).slots : b.cells[b.map[q] + s] = a.cells[a.map[q] + s]
  BY <1>1
<1>4. ActiveAt(b, q) = ActiveAt(a, q)
  BY <1>2, <1>3 DEF ActiveAt, ActiveSlots, Slot
<1>5. LevelOK(b, q)
  BY <1>0, <1>2, <1>3, <1>4 DEF LevelOK
<1>6. HasLevel(b, q)
  BY AccountAssumption DEF HasLevel
<1>7. SlotsOf(b)[q] = SlotsOf(a)[q]
  <2>1. /\ SlotsOf(a)[q] = [s \in 1 .. Level(a, q).slots |-> a.cells[a.map[q] + s]]
        /\ SlotsOf(b)[q] = [s \in 1 .. Level(b, q).slots |-> b.cells[b.map[q] + s]]
    BY <1>6, SlotsAt
  <2> QED BY <1>2, <1>3, <2>1
<1> QED BY <1>2, <1>5, <1>7

-----------------------------------------------------------------------------
(* Writes into one level.                                                  *)

(* A write into a slot that sets the count right keeps the account sound.  *)
LEMMA WrittenSound ==
  ASSUME NEW a, Sound(a), NEW p \in Prices, HasLevel(a, p),
         NEW s \in 1 .. Level(a, p).slots, NEW x \in Orders \cup {NoOrder}, NEW n \in Nat,
         NEW b, AccountOK(b), b.len = a.len, b.map = a.map,
         b.cells[a.map[p]] = SetLevelCount(a.cells[a.map[p]], n),
         b.cells[a.map[p] + s] = x,
         \A i \in 1 .. a.len : i # a.map[p] /\ i # a.map[p] + s => b.cells[i] = a.cells[i],
         n = Cardinality({t \in 1 .. Level(a, p).slots :
                            IF t = s THEN IsOrder(x) ELSE IsOrder(a.cells[a.map[p] + t])})
  PROVE  /\ Sound(b)
         /\ Level(b, p).slots = Level(a, p).slots
         /\ Level(b, p).active = n
         /\ SlotWritten(a, b, p, s, x)
<1> DEFINE l == a.map[p]
           m == Level(a, p).slots
<1>0. /\ AccountOK(a)
      /\ \A q \in Prices : HasLevel(a, q) => LevelOK(a, q) /\ a.map[q] \in Nat
      /\ \A q, r \in Prices : HasLevel(a, q) /\ HasLevel(a, r) /\ q # r => Apart(a, q, r)
  BY LevelsOfSound DEF AccountOK
<1>1. /\ l \in Nat /\ l >= 1 /\ m \in Nat /\ l + m <= a.len /\ a.len \in Nat
      /\ s \in Nat /\ s >= 1 /\ s <= m
  <2>1. LevelOK(a, p) /\ a.map[p] \in Nat /\ a.len \in Nat
    BY <1>0 DEF AccountOK
  <2>2. m \in Nat /\ l >= 1 /\ l + m <= a.len
    BY <2>1 DEF LevelOK, Headers
  <2> QED BY <2>1, <2>2
<1>2. l \in 1 .. a.len /\ l + s \in 1 .. a.len /\ l # l + s
  BY <1>1
<1>5. /\ Level(b, p) \in Headers
      /\ Level(b, p).price = p
      /\ Level(b, p).slots = m
      /\ Level(b, p).active = n
  <2>1. Level(b, p) = SetLevelCount(Level(a, p), n)
    BY DEF Level
  <2>2. Level(a, p) \in Headers /\ Level(a, p).price = p
    BY <1>0 DEF LevelOK
  <2> DEFINE h == Level(a, p)
  <2>3. /\ SetLevelCount(h, n).price = h.price /\ SetLevelCount(h, n).slots = h.slots
        /\ SetLevelCount(h, n).active = n
    BY DEF SetLevelCount
  <2>4. SetLevelCount(h, n) \in Headers
    <3>1. h \in Headers
      BY <2>2
    <3> HIDE DEF h, l, m
    <3> QED BY <3>1 DEF Headers, SetLevelCount
  <2> QED BY <2>1, <2>2, <2>3, <2>4 DEF h, m
<1>6. \A t \in 1 .. m : b.cells[l + t] = IF t = s THEN x ELSE a.cells[l + t]
  <2> SUFFICES ASSUME NEW t \in 1 .. m
               PROVE  b.cells[l + t] = IF t = s THEN x ELSE a.cells[l + t]
    OBVIOUS
  <2>1. l + t \in 1 .. a.len /\ l + t # l
    BY <1>1
  <2>2. l + t = l + s => t = s
    BY <1>1
  <2> QED BY <2>1, <2>2
<1>7. LevelOK(b, p)
  <2>1. LevelOK(a, p)
    BY <1>0
  <2>2. \A t \in 1 .. m : b.cells[b.map[p] + t] \in Orders \cup {NoOrder}
    BY <1>6, <2>1 DEF LevelOK
  <2>3. ActiveAt(b, p) = {t \in 1 .. m : IF t = s THEN IsOrder(x) ELSE IsOrder(a.cells[l + t])}
    BY <1>5, <1>6 DEF ActiveAt, ActiveSlots, Slot
  <2> QED BY <1>5, <2>1, <2>2, <2>3 DEF LevelOK
<1>8. ASSUME NEW q \in Prices, HasLevel(a, q), q # p
      PROVE  /\ LevelOK(b, q) /\ Level(b, q) = Level(a, q)
             /\ SlotsOf(b)[q] = SlotsOf(a)[q]
  <2> DEFINE k == a.map[q]
             w == Level(a, q).slots
  <2>1. LevelOK(a, q) /\ Apart(a, p, q)
    BY <1>0, <1>8
  <2>2. k \in Nat /\ w \in Nat /\ k >= 1 /\ k + w <= a.len /\ k < Unallocated
    BY <1>0, <1>8, <2>1 DEF LevelOK, Headers
  <2>3. l + m < k \/ k + w < l
    BY <2>1 DEF Apart
  <2>4. \A i \in 0 .. w : b.cells[k + i] = a.cells[k + i]
    <3> SUFFICES ASSUME NEW i \in 0 .. w PROVE b.cells[k + i] = a.cells[k + i]
      OBVIOUS
    <3> HIDE DEF l, m, k, w
    <3>1. k + i \in 1 .. a.len
      BY <1>1, <2>2
    <3>2. k + i # l /\ k + i # l + s
      BY <1>1, <2>2, <2>3
    <3> QED BY <3>1, <3>2 DEF l
  <2>5. /\ b.map[q] \in Nat /\ b.len \in Nat
        /\ b.map[q] >= 1 /\ b.map[q] < Unallocated
        /\ b.map[q] + w <= b.len
    BY <1>1, <2>2
  <2>6. \A i \in 0 .. w : b.cells[b.map[q] + i] = a.cells[k + i]
    BY <2>4
  <2> QED BY <1>8, <2>5, <2>6, CarriedOver
<1>9. \A q, r \in Prices : HasLevel(b, q) /\ HasLevel(b, r) /\ q # r => Apart(b, q, r)
  <2>1. \A q \in Prices : HasLevel(b, q) => HasLevel(a, q) /\ Level(b, q).slots = Level(a, q).slots
    BY <1>5, <1>8 DEF HasLevel
  <2> QED BY <1>0, <2>1 DEF Apart
<1>10. \A q \in Prices : HasLevel(b, q) => LevelOK(b, q)
  BY <1>7, <1>8 DEF HasLevel
<1>11. SlotsOf(b)[p] = [SlotsOf(a)[p] EXCEPT ![s] = x]
  <2>1. SlotsOf(a)[p] = [t \in 1 .. m |-> a.cells[l + t]]
    BY SlotsAt
  <2>2. SlotsOf(b)[p] = [t \in 1 .. m |-> b.cells[l + t]]
    BY <1>5, SlotsAt DEF HasLevel
  <2>3. s \in 1 .. m
    OBVIOUS
  <2> HIDE DEF l, m
  <2>4. SlotsOf(b)[p] = [t \in 1 .. m |-> IF t = s THEN x ELSE a.cells[l + t]]
    BY <1>6, <2>2
  <2> QED BY <2>1, <2>3, <2>4
<1>12. \A q \in Prices : q # p => SlotsOf(b)[q] = SlotsOf(a)[q]
  <2> SUFFICES ASSUME NEW q \in Prices, q # p PROVE SlotsOf(b)[q] = SlotsOf(a)[q]
    OBVIOUS
  <2>1. CASE HasLevel(a, q)
    BY <1>8, <2>1
  <2>2. CASE ~HasLevel(a, q)
    <3>1. ~HasLevel(b, q)
      BY <2>2 DEF HasLevel
    <3>2. SlotsOf(a)[q] = <<>>
      BY <2>2, SlotsAt
    <3>3. SlotsOf(b)[q] = <<>>
      BY <3>1, SlotsAt
    <3> QED BY <3>2, <3>3
  <2> QED BY <2>1, <2>2
<1>13. SlotWritten(a, b, p, s, x)
  BY <1>11, <1>12, OneLevelWritten DEF SlotWritten
<1> QED BY <1>5, <1>9, <1>10, <1>13, SoundByLevels

(* A level that is freed leaves the others as they were.                   *)
LEMMA FreeLevelSound ==
  ASSUME NEW a, Sound(a), NEW p \in Prices, HasLevel(a, p)
  PROVE  LET b == FreeLevel(a, a.map[p])
         IN  /\ Sound(b)
             /\ b.len = a.len
             /\ ~HasLevel(b, p)
             /\ LevelBecomes(a, b, p, <<>>) /\ SameCounters(a, b)
             /\ \A s \in 1 .. Level(a, p).slots : b.cells[a.map[p] + s] = a.cells[a.map[p] + s]
<1> DEFINE l == a.map[p]
           m == Level(a, p).slots
           b == FreeLevel(a, l)
           h == [price |-> 0, active |-> 0, slots |-> 0]
<1>0. /\ AccountOK(a)
      /\ \A q \in Prices : HasLevel(a, q) => LevelOK(a, q) /\ a.map[q] \in Nat
      /\ \A q, r \in Prices : HasLevel(a, q) /\ HasLevel(a, r) /\ q # r => Apart(a, q, r)
  BY LevelsOfSound DEF AccountOK
<1>1. /\ l \in Nat /\ l >= 1 /\ m \in Nat /\ l + m <= a.len /\ a.len \in Nat
  BY <1>0 DEF LevelOK, Headers, AccountOK
<1>2. l \in 1 .. a.len
  BY <1>1
<1>3. a.cells[l].price = p
  BY <1>0 DEF LevelOK, Level
<1>4. b = [a EXCEPT !.map = [@ EXCEPT ![p] = Unallocated], !.cells = [@ EXCEPT ![l] = h]]
  BY <1>3, Zenon DEF FreeLevel
<1>5. a = [len |-> a.len, cells |-> a.cells, map |-> a.map,
           maxLevels |-> a.maxLevels, nextId |-> a.nextId]
  BY <1>0, Zenon DEF AccountOK
<1>6. b = [len |-> a.len, cells |-> [a.cells EXCEPT ![l] = h],
           map |-> [a.map EXCEPT ![p] = Unallocated],
           maxLevels |-> a.maxLevels, nextId |-> a.nextId]
  <2> HIDE DEF b, l, h
  <2> QED BY <1>4, <1>5
<1>7. /\ b.len = a.len
      /\ b.map = [a.map EXCEPT ![p] = Unallocated]
      /\ b.cells = [a.cells EXCEPT ![l] = h]
      /\ b.maxLevels = a.maxLevels /\ b.nextId = a.nextId
  <2> HIDE DEF b, l, h
  <2> QED BY <1>6
<1>8. AccountOK(b)
  <2> HIDE DEF b, l, h
  <2>1. b.cells = [i \in 1 .. b.len |-> b.cells[i]]
    BY <1>0, <1>7 DEF AccountOK
  <2>2. b.map \in [Prices -> Nat]
    BY <1>0, <1>7, AccountAssumption DEF AccountOK
  <2> QED BY <1>0, <1>6, <1>7, <2>1, <2>2 DEF AccountOK
<1>9. \A i \in 1 .. a.len : i # l => b.cells[i] = a.cells[i]
  <2> HIDE DEF b, l, h
  <2> QED BY <1>0, <1>7 DEF AccountOK
<1>10. /\ b.map[p] = Unallocated
       /\ \A q \in Prices : q # p => b.map[q] = a.map[q]
  <2> HIDE DEF b, l, h
  <2> QED BY <1>0, <1>7 DEF AccountOK
<1> HIDE DEF b, h
<1>11. ASSUME NEW q \in Prices, HasLevel(b, q)
       PROVE  /\ HasLevel(a, q) /\ q # p /\ LevelOK(b, q) /\ Level(b, q) = Level(a, q)
              /\ SlotsOf(b)[q] = SlotsOf(a)[q]
  <2> DEFINE k == a.map[q]
             w == Level(a, q).slots
  <2>1. q # p /\ HasLevel(a, q) /\ b.map[q] = k
    BY <1>10, <1>11 DEF HasLevel
  <2>2. LevelOK(a, q) /\ Apart(a, p, q)
    BY <1>0, <2>1
  <2>3. k \in Nat /\ w \in Nat /\ k >= 1 /\ k + w <= a.len /\ k < Unallocated
    BY <1>0, <2>1, <2>2 DEF LevelOK, Headers
  <2>4. l + m < k \/ k + w < l
    BY <2>2 DEF Apart
  <2>5. \A i \in 0 .. w : b.cells[k + i] = a.cells[k + i]
    <3> SUFFICES ASSUME NEW i \in 0 .. w PROVE b.cells[k + i] = a.cells[k + i]
      OBVIOUS
    <3> HIDE DEF l, m, k, w
    <3>1. k + i \in 1 .. a.len /\ k + i # l
      BY <1>1, <2>3, <2>4
    <3> QED BY <1>9, <3>1
  <2>6. /\ b.map[q] \in Nat /\ b.len \in Nat
        /\ b.map[q] >= 1 /\ b.map[q] < Unallocated
        /\ b.map[q] + w <= b.len
    BY <1>1, <1>7, <2>1, <2>3
  <2>7. \A i \in 0 .. w : b.cells[b.map[q] + i] = a.cells[k + i]
    BY <2>1, <2>5
  <2> QED BY <2>1, <2>6, <2>7, CarriedOver
<1>12. \A q, r \in Prices : HasLevel(b, q) /\ HasLevel(b, r) /\ q # r => Apart(b, q, r)
  <2>1. \A q \in Prices : HasLevel(b, q) => b.map[q] = a.map[q]
    BY <1>10, <1>11
  <2> QED BY <1>0, <1>11, <2>1 DEF Apart
<1>13. Sound(b)
  BY <1>8, <1>11, <1>12, SoundByLevels
<1>14. \A s \in 1 .. m : b.cells[l + s] = a.cells[l + s]
  <2> SUFFICES ASSUME NEW s \in 1 .. m PROVE b.cells[l + s] = a.cells[l + s]
    OBVIOUS
  <2> HIDE DEF l, m
  <2>1. l + s \in 1 .. a.len /\ l + s # l
    BY <1>1
  <2> QED BY <1>9, <2>1
<1>15. ~HasLevel(b, p)
  BY <1>10 DEF HasLevel
<1>16. \A q \in Prices : q # p => SlotsOf(b)[q] = SlotsOf(a)[q]
  <2> SUFFICES ASSUME NEW q \in Prices, q # p PROVE SlotsOf(b)[q] = SlotsOf(a)[q]
    OBVIOUS
  <2>1. CASE HasLevel(b, q)
    BY <1>11, <2>1
  <2>2. CASE ~HasLevel(b, q)
    <3>1. ~HasLevel(a, q)
      BY <1>10, <2>2 DEF HasLevel
    <3> QED BY <2>2, <3>1, SlotsAt
  <2> QED BY <2>1, <2>2
<1>17. LevelBecomes(a, b, p, <<>>)
  BY <1>15, <1>16, SlotsAt, OneLevelWritten
<1> QED BY <1>7, <1>13, <1>14, <1>15, <1>17 DEF b, SameCounters

(* The account after slot k and the count of the level at l were written.  *)
Rewritten(a, l, k, x, n, j) ==
  [len |-> a.len,
   cells |-> [a.cells EXCEPT ![k] = x, ![l] = SetLevelCount(a.cells[l], n)],
   map |-> a.map, maxLevels |-> a.maxLevels, nextId |-> j]

(* Nothing else changes.                                                   *)
LEMMA CellsWritten ==
  ASSUME NEW a, AccountOK(a), NEW l \in 1 .. a.len, NEW k \in 1 .. a.len, l # k,
         NEW x, NEW n, NEW j \in Nat,
         NEW b, b = Rewritten(a, l, k, x, n, j)
  PROVE  /\ AccountOK(b)
         /\ b.len = a.len /\ b.map = a.map
         /\ b.cells[l] = SetLevelCount(a.cells[l], n)
         /\ b.cells[k] = x
         /\ \A i \in 1 .. a.len : i # l /\ i # k => b.cells[i] = a.cells[i]
<1>1. /\ b.len = a.len /\ b.map = a.map
      /\ b.cells = [a.cells EXCEPT ![k] = x, ![l] = SetLevelCount(a.cells[l], n)]
      /\ b.maxLevels = a.maxLevels /\ b.nextId = j
  BY DEF Rewritten
<1>2. b.cells = [i \in 1 .. b.len |-> b.cells[i]]
  BY <1>1 DEF AccountOK
<1>3. b = [len |-> b.len, cells |-> b.cells, map |-> b.map,
           maxLevels |-> b.maxLevels, nextId |-> b.nextId]
  BY <1>1 DEF Rewritten
<1> QED BY <1>1, <1>2, <1>3 DEF AccountOK

(* The active slots of a level are as many as they are counted.            *)
LEMMA ActiveSlotsFinite ==
  ASSUME NEW a, Sound(a), NEW p \in Prices, HasLevel(a, p)
  PROVE  /\ ActiveAt(a, p) \in SUBSET (1 .. Level(a, p).slots)
         /\ IsFiniteSet(ActiveAt(a, p))
         /\ Level(a, p).active = Cardinality(ActiveAt(a, p))
         /\ Level(a, p).active \in Nat
         /\ Level(a, p).slots \in Nat
         /\ Level(a, p).active = 0 <=> ActiveAt(a, p) = {}
<1>1. LevelOK(a, p)
  BY LevelsOfSound
<1>2. Level(a, p).slots \in Nat /\ Level(a, p).active = Cardinality(ActiveAt(a, p))
  BY <1>1 DEF LevelOK, Headers
<1>3. ActiveAt(a, p) \in SUBSET (1 .. Level(a, p).slots)
  BY DEF ActiveAt, ActiveSlots
<1>4. IsFiniteSet(ActiveAt(a, p)) /\ Cardinality(ActiveAt(a, p)) \in Nat
  BY <1>2, <1>3, SubsetsFinite
<1> QED BY <1>2, <1>3, <1>4, FS_EmptySet

(* An order that goes leaves the level with one active slot less.          *)
LEMMA DeactivateSound ==
  ASSUME NEW a, Sound(a), NEW p \in Prices, HasLevel(a, p), NEW s \in ActiveAt(a, p)
  PROVE  LET b == Deactivate(a, a.map[p], s)
         IN  /\ Sound(b)
             /\ b.map = a.map
             /\ Level(b, p).slots = Level(a, p).slots
             /\ SlotWritten(a, b, p, s, NoOrder)
             /\ SameCounters(a, b)
<1> DEFINE l == a.map[p]
           n == Level(a, p).active - 1
           b == Deactivate(a, l, s)
<1>0. AccountOK(a) /\ LevelOK(a, p) /\ l \in Nat
  BY LevelsOfSound DEF AccountOK
<1>1. /\ ActiveAt(a, p) \in SUBSET (1 .. Level(a, p).slots)
      /\ IsFiniteSet(ActiveAt(a, p))
      /\ Level(a, p).active = Cardinality(ActiveAt(a, p))
      /\ Level(a, p).active \in Nat
      /\ Level(a, p).slots \in Nat
      /\ Level(a, p).active # 0
  <2>1. ActiveAt(a, p) # {}
    OBVIOUS
  <2> QED BY <2>1, ActiveSlotsFinite
<1>2. s \in 1 .. Level(a, p).slots /\ n \in Nat /\ Level(a, p).active > 0
  BY <1>1
<1>3. l \in 1 .. a.len /\ l + s \in 1 .. a.len /\ l # l + s
  BY <1>0, <1>1, <1>2 DEF LevelOK, AccountOK
<1>4. b = [a EXCEPT !.cells = [@ EXCEPT ![l + s] = NoOrder, ![l] = SetLevelCount(a.cells[l], n)]]
  BY <1>2 DEF Deactivate, Level
<1>5. a = [len |-> a.len, cells |-> a.cells, map |-> a.map,
           maxLevels |-> a.maxLevels, nextId |-> a.nextId]
  BY <1>0, Zenon DEF AccountOK
<1>6. b = Rewritten(a, l, l + s, NoOrder, n, a.nextId)
  <2> HIDE DEF b, l, n
  <2> QED BY <1>4, <1>5 DEF Rewritten
<1>7. a.nextId \in Nat
  BY <1>0 DEF AccountOK
<1>8. /\ AccountOK(b)
      /\ b.len = a.len /\ b.map = a.map
      /\ b.cells[l] = SetLevelCount(a.cells[l], n)
      /\ b.cells[l + s] = NoOrder
      /\ \A i \in 1 .. a.len : i # l /\ i # l + s => b.cells[i] = a.cells[i]
  <2> HIDE DEF b, l, n
  <2> QED BY <1>0, <1>3, <1>6, <1>7, CellsWritten
<1>9. n = Cardinality({t \in 1 .. Level(a, p).slots :
                         IF t = s THEN IsOrder(NoOrder) ELSE IsOrder(a.cells[l + t])})
  <2>1. {t \in 1 .. Level(a, p).slots :
           IF t = s THEN IsOrder(NoOrder) ELSE IsOrder(a.cells[l + t])} = ActiveAt(a, p) \ {s}
    BY DEF ActiveAt, ActiveSlots, Slot, IsOrder
  <2>2. Cardinality(ActiveAt(a, p) \ {s}) = Cardinality(ActiveAt(a, p)) - 1
    BY <1>1, FS_RemoveElement
  <2> QED BY <1>1, <2>1, <2>2
<1>10. NoOrder \in Orders \cup {NoOrder}
  OBVIOUS
<1>11. /\ Sound(b) /\ Level(b, p).slots = Level(a, p).slots
       /\ SlotWritten(a, b, p, s, NoOrder)
  <2> HIDE DEF b, n
  <2>1. s \in 1 .. Level(a, p).slots /\ n \in Nat
    BY <1>2
  <2> QED BY <1>8, <1>9, <1>10, <2>1, WrittenSound
<1>12. SameCounters(a, b)
  <2> HIDE DEF b, n, l
  <2> QED BY <1>6 DEF Rewritten, SameCounters
<1> QED BY <1>8, <1>11, <1>12

(* The part of an order that stays is an active order.                     *)
LEMMA ReduceSound ==
  ASSUME NEW a, Sound(a), NEW p \in Prices, HasLevel(a, p), NEW s \in ActiveAt(a, p),
         NEW q \in Nat, ~ (q >= Slot(a, a.map[p], s).qty)
  PROVE  LET b == Reduce(a, a.map[p], s, q)
             o == Slot(a, a.map[p], s)
         IN  /\ Sound(b)
             /\ b.map = a.map
             /\ Level(b, p).slots = Level(a, p).slots
             /\ SlotWritten(a, b, p, s, SetSlotQuantity(o, o.qty - q))
             /\ SameCounters(a, b)
<1> DEFINE l == a.map[p]
           n == Level(a, p).active
           o == a.cells[l + s]
           x == SetSlotQuantity(o, o.qty - q)
           b == Reduce(a, l, s, q)
<1>0. AccountOK(a) /\ LevelOK(a, p) /\ l \in Nat
  BY LevelsOfSound DEF AccountOK
<1>1. /\ ActiveAt(a, p) \in SUBSET (1 .. Level(a, p).slots)
      /\ n = Cardinality(ActiveAt(a, p))
      /\ n \in Nat
      /\ Level(a, p).slots \in Nat
  BY ActiveSlotsFinite
<1>2. s \in 1 .. Level(a, p).slots
  BY <1>1
<1>3. l \in 1 .. a.len /\ l + s \in 1 .. a.len /\ l # l + s
  BY <1>0, <1>1, <1>2 DEF LevelOK, AccountOK
<1>4. b = [a EXCEPT !.cells = [@ EXCEPT ![l + s] = x]]
  BY DEF Reduce, Slot
<1>5. a = [len |-> a.len, cells |-> a.cells, map |-> a.map,
           maxLevels |-> a.maxLevels, nextId |-> a.nextId]
  BY <1>0, Zenon DEF AccountOK
<1>6. b = [len |-> a.len, cells |-> [a.cells EXCEPT ![l + s] = x],
           map |-> a.map, maxLevels |-> a.maxLevels, nextId |-> a.nextId]
  <2> HIDE DEF b, l, x
  <2> QED BY <1>4, <1>5
<1>7. /\ b.len = a.len /\ b.map = a.map /\ b.maxLevels = a.maxLevels /\ b.nextId = a.nextId
      /\ b.cells = [a.cells EXCEPT ![l + s] = x]
  <2> HIDE DEF b, l, x
  <2> QED BY <1>6
<1>8. /\ AccountOK(b)
      /\ b.cells[l + s] = x
      /\ \A i \in 1 .. a.len : i # l + s => b.cells[i] = a.cells[i]
  <2> HIDE DEF b, l, x
  <2>1. b.cells = [i \in 1 .. b.len |-> b.cells[i]]
    BY <1>0, <1>7 DEF AccountOK
  <2> QED BY <1>0, <1>3, <1>6, <1>7, <2>1 DEF AccountOK
<1>9. b.cells[l] = SetLevelCount(a.cells[l], n)
  <2>1. Level(a, p) \in Headers /\ a.cells[l] = Level(a, p)
    BY <1>0 DEF LevelOK, Level
  <2>2. Level(a, p) = SetLevelCount(Level(a, p), n)
    BY <2>1 DEF Headers, SetLevelCount
  <2> QED BY <1>3, <1>8, <2>1, <2>2
<1>10. x \in Orders
  <2>1. o \in Orders \cup {NoOrder} /\ o # NoOrder
    BY <1>0, <1>2 DEF LevelOK, ActiveAt, ActiveSlots, Slot, IsOrder
  <2>2. o \in Orders
    BY <2>1
  <2>3. o.qty \in Nat /\ ~ (q >= o.qty)
    BY <2>2 DEF Orders, Slot
  <2>4. o.qty - q \in Nat \ {0}
    BY <2>3
  <2> HIDE DEF o
  <2> QED BY <2>2, <2>4 DEF Orders, SetSlotQuantity
<1>11. n = Cardinality({t \in 1 .. Level(a, p).slots :
                          IF t = s THEN IsOrder(x) ELSE IsOrder(a.cells[l + t])})
  <2>1. IsOrder(x)
    BY <1>10, AccountAssumption DEF IsOrder
  <2>2. {t \in 1 .. Level(a, p).slots :
           IF t = s THEN IsOrder(x) ELSE IsOrder(a.cells[l + t])} = ActiveAt(a, p)
    <3> HIDE DEF x
    <3> QED BY <1>1, <2>1 DEF ActiveAt, ActiveSlots, Slot
  <2> QED BY <1>1, <2>2
<1>12. /\ Sound(b) /\ Level(b, p).slots = Level(a, p).slots
       /\ SlotWritten(a, b, p, s, x)
  <2> HIDE DEF b, n, x
  <2>1. b.len = a.len /\ b.map = a.map
    BY <1>7
  <2>2. \A i \in 1 .. a.len : i # l /\ i # l + s => b.cells[i] = a.cells[i]
    BY <1>8
  <2>3. AccountOK(b) /\ b.cells[l + s] = x /\ x \in Orders \cup {NoOrder} /\ n \in Nat
    BY <1>1, <1>8, <1>10
  <2> QED BY <1>2, <1>9, <1>11, <2>1, <2>2, <2>3, WrittenSound
<1> QED BY <1>7, <1>12 DEF SameCounters, Slot

(* What the loops know of the level they are at: it is still where it was, *)
(* with as many slots, or it was freed and all its slots are inactive.     *)
LoopAt(a, p, l, m) ==
  \/ p \in Prices /\ HasLevel(a, p) /\ a.map[p] = l /\ Level(a, p).slots = m
  \/ /\ p \in Prices => ~HasLevel(a, p)
     /\ m \in Nat /\ \A t \in 1 .. m : a.cells[l + t] = NoOrder

(* A level is freed when its count says that it is drained.                *)
LEMMA FreeIfDrainedSound ==
  ASSUME NEW a, Sound(a), NEW p \in Prices, HasLevel(a, p)
  PROVE  LET b == FreeIfDrained(a, a.map[p])
         IN  /\ Sound(b) /\ LoopAt(b, p, a.map[p], Level(a, p).slots)
             /\ LevelBecomes(a, b, p, FreeIfEmpty(SlotsOf(a)[p]))
             /\ SameCounters(a, b)
<1> DEFINE l == a.map[p]
           m == Level(a, p).slots
<1>0. /\ DOMAIN SlotsOf(a)[p] = 1 .. m
      /\ \A i \in 1 .. m : SlotsOf(a)[p][i] = a.cells[l + i]
      /\ ActiveAt(a, p) = {i \in 1 .. m : IsOrder(a.cells[l + i])}
  <2>1. SlotsOf(a)[p] = [i \in 1 .. m |-> a.cells[l + i]]
    BY SlotsAt
  <2>2. ActiveAt(a, p) = {i \in 1 .. m : IsOrder(a.cells[l + i])}
    BY DEF ActiveAt, ActiveSlots, Slot
  <2> HIDE DEF l, m
  <2> QED BY <2>1, <2>2
<1>1. CASE Level(a, p).active = 0
  <2>1. FreeIfDrained(a, l) = FreeLevel(a, l)
    BY <1>1 DEF FreeIfDrained, Level
  <2>2. m \in Nat /\ ActiveAt(a, p) = {}
    BY <1>1, ActiveSlotsFinite
  <2>3. \A t \in 1 .. m : a.cells[l + t] = NoOrder
    BY <2>2 DEF ActiveAt, ActiveSlots, Slot, IsOrder
  <2>4. /\ Sound(FreeLevel(a, l))
        /\ \A t \in 1 .. m : FreeLevel(a, l).cells[l + t] = a.cells[l + t]
        /\ LevelBecomes(a, FreeLevel(a, l), p, <<>>) /\ SameCounters(a, FreeLevel(a, l))
        /\ ~HasLevel(FreeLevel(a, l), p)
    BY FreeLevelSound
  <2>5. FreeIfEmpty(SlotsOf(a)[p]) = <<>>
    BY <1>0, <2>2 DEF FreeIfEmpty
  <2> QED BY <2>1, <2>2, <2>3, <2>4, <2>5 DEF LoopAt
<1>2. CASE Level(a, p).active # 0
  <2>1. FreeIfDrained(a, l) = a
    BY <1>2 DEF FreeIfDrained, Level
  <2>2. ActiveAt(a, p) # {}
    BY <1>2, ActiveSlotsFinite
  <2>3. FreeIfEmpty(SlotsOf(a)[p]) = SlotsOf(a)[p]
    BY <1>0, <2>2 DEF FreeIfEmpty
  <2> QED BY <2>1, <2>3, NothingWritten DEF LoopAt, SameCounters
<1> QED BY <1>1, <1>2

(* A fill.                                                                 *)
LEMMA TakeFromSound ==
  ASSUME NEW a, Sound(a), NEW p \in Prices, HasLevel(a, p), NEW s \in ActiveAt(a, p),
         NEW q \in Nat
  PROVE  LET b == TakeFrom(a, a.map[p], s, q)
             o == Slot(a, a.map[p], s)
         IN  /\ Sound(b) /\ LoopAt(b, p, a.map[p], Level(a, p).slots)
             /\ q >= o.qty =>
                  LevelBecomes(a, b, p, FreeIfEmpty([SlotsOf(a)[p] EXCEPT ![s] = NoOrder]))
             /\ ~(q >= o.qty) => SlotWritten(a, b, p, s, SetSlotQuantity(o, o.qty - q))
             /\ SameCounters(a, b)
<1> DEFINE l == a.map[p]
           d == Deactivate(a, l, s)
           r == Reduce(a, l, s, q)
<1>1. CASE q >= Slot(a, l, s).qty
  <2> DEFINE e == FreeIfDrained(d, d.map[p])
  <2>1. /\ Sound(d) /\ d.map = a.map /\ Level(d, p).slots = Level(a, p).slots
        /\ SlotWritten(a, d, p, s, NoOrder) /\ SameCounters(a, d)
    BY DeactivateSound
  <2>2. HasLevel(d, p) /\ d.map[p] = l
    BY <2>1 DEF HasLevel
  <2>3. /\ Sound(e) /\ LoopAt(e, p, d.map[p], Level(d, p).slots)
        /\ LevelBecomes(d, e, p, FreeIfEmpty(SlotsOf(d)[p])) /\ SameCounters(d, e)
    <3> HIDE DEF d
    <3> QED BY <2>1, <2>2, FreeIfDrainedSound
  <2>4. TakeFrom(a, l, s, q) = e
    BY <1>1, <2>2 DEF TakeFrom
  <2> HIDE DEF d, e
  <2>5. LevelBecomes(a, e, p, FreeIfEmpty([SlotsOf(a)[p] EXCEPT ![s] = NoOrder]))
    BY <2>1, <2>3, WrittenTwice DEF SlotWritten
  <2> QED BY <1>1, <2>1, <2>2, <2>3, <2>4, <2>5 DEF SameCounters
<1>2. CASE ~ (q >= Slot(a, l, s).qty)
  <2> DEFINE o == Slot(a, l, s)
  <2>1. /\ Sound(r) /\ r.map = a.map /\ Level(r, p).slots = Level(a, p).slots
        /\ SlotWritten(a, r, p, s, SetSlotQuantity(o, o.qty - q)) /\ SameCounters(a, r)
    BY <1>2, ReduceSound
  <2>2. TakeFrom(a, l, s, q) = r
    BY <1>2 DEF TakeFrom
  <2> QED BY <1>2, <2>1, <2>2 DEF LoopAt, HasLevel
<1> QED BY <1>1, <1>2

(* An order that comes to rest in a level with a free slot.                *)
LEMMA WriteOrderSound ==
  ASSUME NEW a, Sound(a), NEW p \in Prices, HasLevel(a, p),
         FreeSlotsAt(a, a.map[p], Level(a, p).slots) # {}, NEW order \in Orders
  PROVE  LET b == WriteOrder(a, p, order)
         IN  /\ Sound(b)
             /\ SlotWritten(a, b, p, FirstFree(SlotsOf(a)[p]), order)
             /\ b.nextId = a.nextId + 1 /\ b.maxLevels = a.maxLevels
<1> DEFINE l == a.map[p]
           m == Level(a, p).slots
           s == First(FreeSlotsAt(a, l, m))
           n == Level(a, p).active + 1
           b == WriteOrder(a, p, order)
<1>0. AccountOK(a) /\ LevelOK(a, p) /\ l \in Nat
  BY LevelsOfSound DEF AccountOK
<1>1. /\ ActiveAt(a, p) \in SUBSET (1 .. m)
      /\ IsFiniteSet(ActiveAt(a, p))
      /\ Level(a, p).active = Cardinality(ActiveAt(a, p))
      /\ Level(a, p).active \in Nat
      /\ m \in Nat
  BY ActiveSlotsFinite
<1>2. s \in FreeSlotsAt(a, l, m)
  <2>1. FreeSlotsAt(a, l, m) \in SUBSET (1 .. m)
    BY DEF FreeSlotsAt
  <2> QED BY <1>1, <2>1, FirstIsIn
<1>3. s \in 1 .. m /\ s \notin ActiveAt(a, p) /\ n \in Nat
  BY <1>1, <1>2 DEF FreeSlotsAt, ActiveAt
<1> HIDE DEF s
<1>4. l \in 1 .. a.len /\ l + s \in 1 .. a.len /\ l # l + s
  BY <1>0, <1>1, <1>3 DEF LevelOK, AccountOK
<1>5. b = [a EXCEPT !.cells = [@ EXCEPT ![l + s] = order, ![l] = SetLevelCount(a.cells[l], n)],
                    !.nextId = @ + 1]
  BY DEF WriteOrder, Level, s
<1>6. a = [len |-> a.len, cells |-> a.cells, map |-> a.map,
           maxLevels |-> a.maxLevels, nextId |-> a.nextId]
  BY <1>0, Zenon DEF AccountOK
<1>7. b = Rewritten(a, l, l + s, order, n, a.nextId + 1)
  <2> HIDE DEF b, l, n
  <2> QED BY <1>5, <1>6 DEF Rewritten
<1>8. a.nextId + 1 \in Nat
  BY <1>0 DEF AccountOK
<1>9. /\ AccountOK(b)
      /\ b.len = a.len /\ b.map = a.map
      /\ b.cells[l] = SetLevelCount(a.cells[l], n)
      /\ b.cells[l + s] = order
      /\ \A i \in 1 .. a.len : i # l /\ i # l + s => b.cells[i] = a.cells[i]
  <2> HIDE DEF b, l, n
  <2> QED BY <1>0, <1>4, <1>7, <1>8, CellsWritten
<1>10. n = Cardinality({t \in 1 .. m : IF t = s THEN IsOrder(order) ELSE IsOrder(a.cells[l + t])})
  <2>1. IsOrder(order)
    BY AccountAssumption DEF IsOrder
  <2>2. {t \in 1 .. m : IF t = s THEN IsOrder(order) ELSE IsOrder(a.cells[l + t])}
          = ActiveAt(a, p) \cup {s}
    BY <1>3, <2>1 DEF ActiveAt, ActiveSlots, Slot
  <2>3. Cardinality(ActiveAt(a, p) \cup {s}) = Cardinality(ActiveAt(a, p)) + 1
    BY <1>1, <1>3, FS_AddElement
  <2> QED BY <1>1, <2>2, <2>3
<1>11. order \in Orders \cup {NoOrder}
  OBVIOUS
<1>12. Sound(b) /\ SlotWritten(a, b, p, s, order)
  <2> HIDE DEF b, n
  <2> QED BY <1>3, <1>9, <1>10, <1>11, WrittenSound
<1>13. s = FirstFree(SlotsOf(a)[p])
  <2>1. FreeSlots(SlotsOf(a)[p]) = FreeSlotsAt(a, l, m)
    <3>1. SlotsOf(a)[p] = [i \in 1 .. m |-> a.cells[l + i]]
      BY SlotsAt
    <3> HIDE DEF l, m
    <3> QED BY <3>1 DEF FreeSlots, FreeSlotsAt, ActiveSlots, Slot
  <2> QED BY <2>1, Zenon DEF s, First, FirstFree
<1>14. b.nextId = a.nextId + 1 /\ b.maxLevels = a.maxLevels
  <2> HIDE DEF b, l, n
  <2> QED BY <1>7 DEF Rewritten
<1> QED BY <1>12, <1>13, <1>14

-----------------------------------------------------------------------------
(* New levels and slots.                                                   *)

(* A level appended to the account lies behind all others.                 *)
LEMMA InitLevelSound ==
  ASSUME NEW a, Sound(a), NEW p \in Prices, ~HasLevel(a, p), CanInitLevel(a)
  PROVE  LET b == InitLevel(a, p)
         IN  /\ Sound(b)
             /\ LevelBecomes(a, b, p, <<NoOrder>>)
             /\ b.nextId = a.nextId /\ b.maxLevels = a.maxLevels + 1
<1> DEFINE h == [price |-> p, active |-> 0, slots |-> 1]
           cells == [i \in 1 .. a.len + 2 |->
                       IF i = a.len + 1 THEN h ELSE IF i = a.len + 2 THEN NoOrder ELSE a.cells[i]]
           b == InitLevel(a, p)
<1>0. /\ AccountOK(a)
      /\ \A q \in Prices : HasLevel(a, q) => LevelOK(a, q) /\ a.map[q] \in Nat
      /\ \A q, r \in Prices : HasLevel(a, q) /\ HasLevel(a, r) /\ q # r => Apart(a, q, r)
  BY LevelsOfSound DEF AccountOK
<1>1. a.len \in Nat /\ a.len + 1 < Unallocated
  BY <1>0 DEF AccountOK, CanInitLevel
<1>2. a = [len |-> a.len, cells |-> a.cells, map |-> a.map,
           maxLevels |-> a.maxLevels, nextId |-> a.nextId]
  BY <1>0, Zenon DEF AccountOK
<1>3. b = [a EXCEPT !.len = @ + 2, !.cells = cells, !.map = [@ EXCEPT ![p] = a.len + 1],
                    !.maxLevels = @ + 1]
  BY Zenon DEF InitLevel
<1>4. b = [len |-> a.len + 2, cells |-> cells, map |-> [a.map EXCEPT ![p] = a.len + 1],
           maxLevels |-> a.maxLevels + 1, nextId |-> a.nextId]
  <2> HIDE DEF b, cells
  <2> QED BY <1>2, <1>3
<1> HIDE DEF b
<1>5. /\ b.len = a.len + 2
      /\ b.cells = cells
      /\ b.map = [a.map EXCEPT ![p] = a.len + 1]
      /\ b.maxLevels = a.maxLevels + 1 /\ b.nextId = a.nextId
  <2> HIDE DEF cells
  <2> QED BY <1>4
<1>6. AccountOK(b)
  <2>1. b.cells = [i \in 1 .. b.len |-> b.cells[i]]
    BY <1>5
  <2>2. b.map \in [Prices -> Nat]
    BY <1>0, <1>1, <1>5 DEF AccountOK
  <2> QED BY <1>0, <1>1, <1>4, <1>5, <2>1, <2>2 DEF AccountOK
<1>7. /\ b.cells[a.len + 1] = h
      /\ b.cells[a.len + 2] = NoOrder
      /\ \A i \in 1 .. a.len : b.cells[i] = a.cells[i]
  BY <1>1, <1>5
<1> HIDE DEF cells
<1>8. /\ b.map[p] = a.len + 1
      /\ \A q \in Prices : q # p => b.map[q] = a.map[q]
  BY <1>0, <1>5 DEF AccountOK
<1>9. LevelOK(b, p) /\ Level(b, p).slots = 1
  <2>1. Level(b, p) = h
    BY <1>7, <1>8 DEF Level
  <2>2. h \in Headers /\ h.price = p /\ h.slots = 1 /\ h.active = 0
    BY PricesAreNumbers DEF Headers
  <2>3. \A s \in 1 .. 1 : b.cells[b.map[p] + s] = NoOrder
    BY <1>1, <1>7, <1>8
  <2>4. ActiveAt(b, p) = {}
    BY <2>1, <2>2, <2>3 DEF ActiveAt, ActiveSlots, Slot, IsOrder
  <2>5. Cardinality(ActiveAt(b, p)) = 0
    BY <2>4, FS_EmptySet
  <2>6. b.map[p] >= 1 /\ b.map[p] < Unallocated /\ b.map[p] + 1 <= b.len
    BY <1>1, <1>5, <1>8
  <2>7. 1 <= MaxSlots
    BY AccountAssumption
  <2> HIDE DEF h
  <2> QED BY <2>1, <2>2, <2>3, <2>5, <2>6, <2>7 DEF LevelOK
<1>10. ASSUME NEW q \in Prices, HasLevel(b, q), q # p
       PROVE  /\ HasLevel(a, q) /\ LevelOK(b, q)
              /\ Level(b, q) = Level(a, q) /\ b.map[q] = a.map[q]
              /\ SlotsOf(b)[q] = SlotsOf(a)[q]
              /\ b.map[q] \in Nat /\ Level(b, q).slots \in Nat
              /\ b.map[q] + Level(b, q).slots < b.map[p]
  <2> DEFINE k == a.map[q]
             w == Level(a, q).slots
  <2>1. HasLevel(a, q) /\ b.map[q] = k
    BY <1>8, <1>10 DEF HasLevel
  <2>2. LevelOK(a, q)
    BY <1>0, <2>1
  <2>3. k \in Nat /\ w \in Nat /\ k >= 1 /\ k + w <= a.len /\ k < Unallocated
    BY <1>0, <2>1, <2>2 DEF LevelOK, Headers
  <2>4. \A i \in 0 .. w : b.cells[k + i] = a.cells[k + i]
    <3> SUFFICES ASSUME NEW i \in 0 .. w PROVE b.cells[k + i] = a.cells[k + i]
      OBVIOUS
    <3> HIDE DEF k, w
    <3>1. k + i \in 1 .. a.len
      BY <1>1, <2>3
    <3> QED BY <1>7, <3>1
  <2>5. /\ b.map[q] \in Nat /\ b.len \in Nat
        /\ b.map[q] >= 1 /\ b.map[q] < Unallocated
        /\ b.map[q] + w <= b.len
    BY <1>1, <1>5, <2>1, <2>3
  <2>6. \A i \in 0 .. w : b.cells[b.map[q] + i] = a.cells[k + i]
    BY <2>1, <2>4
  <2>7. Level(b, q) = Level(a, q) /\ LevelOK(b, q) /\ SlotsOf(b)[q] = SlotsOf(a)[q]
    BY <2>1, <2>5, <2>6, CarriedOver
  <2>8. b.map[q] + w < b.map[p]
    BY <1>1, <1>8, <2>1, <2>3
  <2> QED BY <2>1, <2>3, <2>7, <2>8
<1>11. \A q, r \in Prices : HasLevel(b, q) /\ HasLevel(b, r) /\ q # r => Apart(b, q, r)
  <2> SUFFICES ASSUME NEW q \in Prices, NEW r \in Prices, HasLevel(b, q), HasLevel(b, r), q # r
               PROVE  Apart(b, q, r)
    OBVIOUS
  <2>1. CASE q = p
    BY <1>10, <2>1 DEF Apart
  <2>2. CASE r = p
    BY <1>10, <2>2 DEF Apart
  <2>3. CASE q # p /\ r # p
    <3>1. Apart(a, q, r)
      BY <1>0, <1>10, <2>3
    <3> QED BY <1>10, <2>3, <3>1 DEF Apart
  <2> QED BY <2>1, <2>2, <2>3
<1>12. \A q \in Prices : HasLevel(b, q) => LevelOK(b, q)
  BY <1>9, <1>10
<1>13. Sound(b)
  BY <1>6, <1>11, <1>12, SoundByLevels
<1>14. SlotsOf(b)[p] = <<NoOrder>>
  <2>1. HasLevel(b, p)
    BY <1>1, <1>8 DEF HasLevel
  <2>2. SlotsOf(b)[p] = [t \in 1 .. 1 |-> b.cells[(a.len + 1) + t]]
    <3>1. SlotsOf(b)[p] = [t \in 1 .. Level(b, p).slots |-> b.cells[b.map[p] + t]]
      BY <2>1, SlotsAt
    <3> QED BY <1>8, <1>9, <3>1
  <2>3. b.cells[(a.len + 1) + 1] = NoOrder
    BY <1>1, <1>7
  <2> QED BY <2>2, <2>3
<1>15. \A q \in Prices : q # p => SlotsOf(b)[q] = SlotsOf(a)[q]
  <2> SUFFICES ASSUME NEW q \in Prices, q # p PROVE SlotsOf(b)[q] = SlotsOf(a)[q]
    OBVIOUS
  <2>1. CASE HasLevel(b, q)
    BY <1>10, <2>1
  <2>2. CASE ~HasLevel(b, q)
    <3>1. ~HasLevel(a, q)
      BY <1>8, <2>2 DEF HasLevel
    <3> QED BY <2>2, <3>1, SlotsAt
  <2> QED BY <2>1, <2>2
<1>16. LevelBecomes(a, b, p, <<NoOrder>>)
  BY <1>14, <1>15, OneLevelWritten
<1> QED BY <1>5, <1>13, <1>16 DEF b

(* A level that grows moves the levels behind it, and those only.          *)
LEMMA ExpandLevelSound ==
  ASSUME NEW a, Sound(a), NEW p \in Prices, HasLevel(a, p), CanExpandLevel(a, p)
  PROVE  LET b == ExpandLevel(a, p)
         IN  /\ Sound(b)
             /\ LevelBecomes(a, b, p, Append(SlotsOf(a)[p], NoOrder))
             /\ SameCounters(a, b)
<1> DEFINE l == a.map[p]
           m == Level(a, p).slots
           at == l + m + 1
           h == SetLevelSlotCount(a.cells[l], m + 1)
           cells == [i \in 1 .. a.len + 1 |->
                       IF i = l THEN h
                       ELSE IF i < at THEN a.cells[i]
                       ELSE IF i = at THEN NoOrder ELSE a.cells[i - 1]]
           map == [q \in Prices |-> IF q \in Behind(a, p) THEN a.map[q] + 1 ELSE a.map[q]]
           b == ExpandLevel(a, p)
<1>0. /\ AccountOK(a)
      /\ \A q \in Prices : HasLevel(a, q) => LevelOK(a, q) /\ a.map[q] \in Nat
      /\ \A q, r \in Prices : HasLevel(a, q) /\ HasLevel(a, r) /\ q # r => Apart(a, q, r)
  BY LevelsOfSound DEF AccountOK
<1>1. /\ l \in Nat /\ l >= 1 /\ l < Unallocated /\ m \in Nat /\ m >= 1
      /\ l + m <= a.len /\ a.len \in Nat
  BY <1>0 DEF LevelOK, Headers, AccountOK
<1>2. a = [len |-> a.len, cells |-> a.cells, map |-> a.map,
           maxLevels |-> a.maxLevels, nextId |-> a.nextId]
  BY <1>0, Zenon DEF AccountOK
<1>3. b = [a EXCEPT !.len = @ + 1, !.cells = cells, !.map = map]
  BY Zenon DEF ExpandLevel
<1>4. b = [len |-> a.len + 1, cells |-> cells, map |-> map,
           maxLevels |-> a.maxLevels, nextId |-> a.nextId]
  <2> HIDE DEF b, cells, map
  <2> QED BY <1>2, <1>3
<1> HIDE DEF b
<1>5. /\ b.len = a.len + 1 /\ b.cells = cells /\ b.map = map
      /\ b.maxLevels = a.maxLevels /\ b.nextId = a.nextId
  <2> HIDE DEF cells, map
  <2> QED BY <1>4
<1>6. AccountOK(b)
  <2>1. b.cells = [i \in 1 .. b.len |-> b.cells[i]]
    <3> HIDE DEF at, h, l
    <3> QED BY <1>5
  <2>2. b.map \in [Prices -> Nat]
    BY <1>0, <1>5 DEF AccountOK
  <2> HIDE DEF cells, map
  <2> QED BY <1>0, <1>1, <1>4, <1>5, <2>1, <2>2 DEF AccountOK
<1>7. /\ b.cells[l] = h
      /\ b.cells[at] = NoOrder
      /\ \A i \in 1 .. a.len : i # l /\ i < at => b.cells[i] = a.cells[i]
      /\ \A i \in 1 .. a.len : i >= at => b.cells[i + 1] = a.cells[i]
  <2> HIDE DEF l, m, h
  <2>1. at \in 1 .. a.len + 1 /\ l \in 1 .. a.len + 1 /\ l < at
    BY <1>1
  <2>2. \A i \in 1 .. a.len + 1 :
          b.cells[i] = IF i = l THEN h
                       ELSE IF i < at THEN a.cells[i]
                       ELSE IF i = at THEN NoOrder ELSE a.cells[i - 1]
    BY <1>5
  <2> HIDE DEF at, cells
  <2>3. \A i \in 1 .. a.len : i >= at => b.cells[i + 1] = a.cells[i]
    <3> SUFFICES ASSUME NEW i \in 1 .. a.len, i >= at PROVE b.cells[i + 1] = a.cells[i]
      OBVIOUS
    <3>1. i + 1 \in 1 .. a.len + 1 /\ i + 1 # l /\ ~ (i + 1 < at) /\ i + 1 # at /\ (i + 1) - 1 = i
      BY <1>1, <2>1
    <3> QED BY <2>2, <3>1
  <2> QED BY <1>1, <2>1, <2>2, <2>3
<1> HIDE DEF cells
<1>8. \A q \in Prices : b.map[q] = IF q \in Behind(a, p) THEN a.map[q] + 1 ELSE a.map[q]
  BY <1>5
<1> HIDE DEF map
<1>9. b.map[p] = l /\ HasLevel(b, p)
  BY <1>1, <1>8, HasLevel(a, p) DEF Behind, HasLevel
<1>10. LevelOK(b, p) /\ Level(b, p).slots = m + 1
  <2>1. Level(b, p) = h /\ Level(a, p) = a.cells[l]
    BY <1>7, <1>9 DEF Level
  <2>2. LevelOK(a, p)
    BY <1>0
  <2>3. h \in Headers /\ h.price = p /\ h.slots = m + 1 /\ h.active = Level(a, p).active
    <3> HIDE DEF m
    <3> QED BY <1>1, <2>1, <2>2 DEF LevelOK, Headers, SetLevelSlotCount
  <2> HIDE DEF h
  <2>4. \A s \in 1 .. m : b.cells[l + s] = a.cells[l + s]
    <3> SUFFICES ASSUME NEW s \in 1 .. m PROVE b.cells[l + s] = a.cells[l + s]
      OBVIOUS
    <3> HIDE DEF l, m
    <3>1. l + s \in 1 .. a.len /\ l + s # l /\ l + s < at
      BY <1>1
    <3> QED BY <1>7, <3>1
  <2>5. \A s \in 1 .. m + 1 :
          b.cells[l + s] = IF s = m + 1 THEN NoOrder ELSE a.cells[l + s]
    <3> SUFFICES ASSUME NEW s \in 1 .. m + 1
                 PROVE  b.cells[l + s] = IF s = m + 1 THEN NoOrder ELSE a.cells[l + s]
      OBVIOUS
    <3>1. CASE s = m + 1
      <4>1. l + s = at
        BY <1>1, <3>1
      <4> QED BY <1>7, <3>1, <4>1
    <3>2. CASE s # m + 1
      <4>1. s \in 1 .. m
        BY <1>1, <3>2
      <4> QED BY <2>4, <3>2, <4>1
    <3> QED BY <3>1, <3>2
  <2>6. \A s \in 1 .. m + 1 : b.cells[b.map[p] + s] \in Orders \cup {NoOrder}
    <3> SUFFICES ASSUME NEW s \in 1 .. m + 1 PROVE b.cells[l + s] \in Orders \cup {NoOrder}
      BY <1>9
    <3>1. CASE s = m + 1
      BY <2>5, <3>1
    <3>2. CASE s # m + 1
      <4>1. s \in 1 .. m
        BY <1>1, <3>2
      <4> QED BY <2>2, <2>4, <4>1 DEF LevelOK
    <3> QED BY <3>1, <3>2
  <2>7. ActiveAt(b, p) = ActiveAt(a, p)
    <3>1. ActiveAt(b, p) = {s \in 1 .. m + 1 : b.cells[l + s] # NoOrder}
      BY <1>9, <2>1, <2>3 DEF ActiveAt, ActiveSlots, Slot, IsOrder
    <3>2. ActiveAt(a, p) = {s \in 1 .. m : a.cells[l + s] # NoOrder}
      BY DEF ActiveAt, ActiveSlots, Slot, IsOrder
    <3>3. \A s : s \in 1 .. m + 1 /\ s # m + 1 <=> s \in 1 .. m
      BY <1>1
    <3> HIDE DEF l, m
    <3> QED BY <2>5, <3>1, <3>2, <3>3
  <2>8. m + 1 >= 1 /\ m + 1 <= MaxSlots /\ l + (m + 1) <= b.len
    BY <1>1, <1>5, AccountAssumption DEF CanExpandLevel
  <2> QED BY <1>1, <1>9, <2>1, <2>2, <2>3, <2>6, <2>7, <2>8 DEF LevelOK
<1>11. ASSUME NEW q \in Prices, HasLevel(b, q), q # p
       PROVE  /\ HasLevel(a, q) /\ LevelOK(b, q) /\ Level(b, q) = Level(a, q)
              /\ SlotsOf(b)[q] = SlotsOf(a)[q]
              /\ a.map[q] \in Nat /\ Level(a, q).slots \in Nat
              /\ \/ a.map[q] + Level(a, q).slots < l /\ b.map[q] = a.map[q]
                 \/ at <= a.map[q] /\ b.map[q] = a.map[q] + 1
  <2> DEFINE k == a.map[q]
             w == Level(a, q).slots
  <2>1. HasLevel(a, q)
    BY <1>8, <1>11 DEF HasLevel, Behind
  <2>2. LevelOK(a, q) /\ Apart(a, p, q)
    BY <1>0, <1>11, <2>1
  <2>3. k \in Nat /\ w \in Nat /\ k >= 1 /\ k + w <= a.len /\ k < Unallocated
    BY <1>0, <2>1, <2>2 DEF LevelOK, Headers
  <2>4. CASE k + w < l
    <3>1. b.map[q] = k
      <4>1. q \notin Behind(a, p)
        BY <1>1, <2>3, <2>4 DEF Behind
      <4> QED BY <1>8, <4>1
    <3>2. \A i \in 0 .. w : b.cells[k + i] = a.cells[k + i]
      <4> SUFFICES ASSUME NEW i \in 0 .. w PROVE b.cells[k + i] = a.cells[k + i]
        OBVIOUS
      <4> HIDE DEF l, m, k, w
      <4>1. k + i \in 1 .. a.len /\ k + i # l /\ k + i < at
        BY <1>1, <2>3, <2>4
      <4> QED BY <1>7, <4>1
    <3>3. /\ b.map[q] \in Nat /\ b.len \in Nat /\ b.map[q] >= 1 /\ b.map[q] < Unallocated
          /\ b.map[q] + w <= b.len
      BY <1>1, <1>5, <2>3, <3>1
    <3>4. \A i \in 0 .. w : b.cells[b.map[q] + i] = a.cells[k + i]
      BY <3>1, <3>2
    <3>5. Level(b, q) = Level(a, q) /\ LevelOK(b, q) /\ SlotsOf(b)[q] = SlotsOf(a)[q]
      BY <2>1, <3>3, <3>4, CarriedOver
    <3> QED BY <2>1, <2>3, <2>4, <3>1, <3>5
  <2>5. CASE l + m < k
    <3>1. q \in Behind(a, p)
      BY <1>1, <2>1, <2>3, <2>5 DEF Behind
    <3>2. b.map[q] = k + 1 /\ k + 1 < Unallocated
      BY <1>8, <3>1 DEF CanExpandLevel
    <3>3. \A i \in 0 .. w : b.cells[(k + 1) + i] = a.cells[k + i]
      <4> SUFFICES ASSUME NEW i \in 0 .. w PROVE b.cells[(k + 1) + i] = a.cells[k + i]
        OBVIOUS
      <4> HIDE DEF l, m, k, w
      <4>1. k + i \in 1 .. a.len /\ k + i >= at /\ (k + 1) + i = (k + i) + 1
        BY <1>1, <2>3, <2>5
      <4> QED BY <1>7, <4>1
    <3>4. /\ b.map[q] \in Nat /\ b.len \in Nat /\ b.map[q] >= 1 /\ b.map[q] < Unallocated
          /\ b.map[q] + w <= b.len
      BY <1>1, <1>5, <2>3, <3>2
    <3>5. \A i \in 0 .. w : b.cells[b.map[q] + i] = a.cells[k + i]
      BY <3>2, <3>3
    <3>6. Level(b, q) = Level(a, q) /\ LevelOK(b, q) /\ SlotsOf(b)[q] = SlotsOf(a)[q]
      BY <2>1, <3>4, <3>5, CarriedOver
    <3>7. at <= k
      BY <1>1, <2>3, <2>5
    <3> QED BY <2>1, <2>3, <3>2, <3>6, <3>7
  <2> QED BY <2>2, <2>4, <2>5 DEF Apart
<1>12. \A q, r \in Prices : HasLevel(b, q) /\ HasLevel(b, r) /\ q # r => Apart(b, q, r)
  <2> SUFFICES ASSUME NEW q \in Prices, NEW r \in Prices, HasLevel(b, q), HasLevel(b, r), q # r
               PROVE  Apart(b, q, r)
    OBVIOUS
  <2> HIDE DEF h
  <2>1. CASE q = p
    BY <1>1, <1>9, <1>10, <1>11, <2>1 DEF Apart
  <2>2. CASE r = p
    BY <1>1, <1>9, <1>10, <1>11, <2>2 DEF Apart
  <2>3. CASE q # p /\ r # p
    <3>1. Apart(a, q, r)
      BY <1>0, <1>11, <2>3
    <3> HIDE DEF l, m, at
    <3> QED BY <1>1, <1>11, <2>3, <3>1 DEF Apart, at
  <2> QED BY <2>1, <2>2, <2>3
<1>13. \A q \in Prices : HasLevel(b, q) => LevelOK(b, q)
  BY <1>10, <1>11
<1>14. Sound(b)
  BY <1>6, <1>12, <1>13, SoundByLevels
<1>15. SlotsOf(b)[p] = Append(SlotsOf(a)[p], NoOrder)
  <2>1. /\ SlotsOf(b)[p] = [t \in 1 .. m + 1 |-> b.cells[l + t]]
        /\ SlotsOf(a)[p] = [t \in 1 .. m |-> a.cells[l + t]]
    BY <1>9, <1>10, SlotsAt
  <2>2. \A t \in 1 .. m : b.cells[l + t] = a.cells[l + t]
    <3> SUFFICES ASSUME NEW t \in 1 .. m PROVE b.cells[l + t] = a.cells[l + t]
      OBVIOUS
    <3> HIDE DEF l, m
    <3>1. l + t \in 1 .. a.len /\ l + t # l /\ l + t < at
      BY <1>1
    <3> QED BY <1>7, <3>1
  <2>3. b.cells[l + (m + 1)] = NoOrder
    <3>1. l + (m + 1) = at
      BY <1>1
    <3> QED BY <1>7, <3>1
  <2> HIDE DEF l, m, at
  <2>4. SlotsOf(a)[p] \in Seq({a.cells[l + t] : t \in 1 .. m}) /\ Len(SlotsOf(a)[p]) = m
    <3> DEFINE T == {a.cells[l + t] : t \in 1 .. m}
    <3>1. SlotsOf(a)[p] \in [1 .. m -> T]
      BY <2>1
    <3> HIDE DEF T
    <3>2. SlotsOf(a)[p] \in Seq(T) /\ Len(SlotsOf(a)[p]) = m
      BY <1>1, <3>1
    <3> QED BY <3>2 DEF T
  <2>5. Append(SlotsOf(a)[p], NoOrder)
          = [t \in 1 .. m + 1 |-> IF t = m + 1 THEN NoOrder ELSE a.cells[l + t]]
    <3> DEFINE T == {a.cells[l + t] : t \in 1 .. m}
               f == SlotsOf(a)[p]
               g == [t \in 1 .. m + 1 |-> IF t = m + 1 THEN NoOrder ELSE a.cells[l + t]]
               W == T \cup {NoOrder}
    <3>1. f \in Seq(T) /\ Len(f) = m /\ (\A t \in 1 .. m : f[t] = a.cells[l + t]) /\ m \in Nat
      BY <1>1, <2>1, <2>4
    <3>2. g \in [1 .. m + 1 -> W]
      <4>1. \A t \in 1 .. m + 1 : t # m + 1 => t \in 1 .. m
        BY <3>1
      <4>2. \A t \in 1 .. m + 1 : (IF t = m + 1 THEN NoOrder ELSE a.cells[l + t]) \in W
        BY <4>1
      <4> QED BY <4>2
    <3> HIDE DEF T
    <3>3. f \in Seq(W) /\ NoOrder \in W
      BY <3>1
    <3> HIDE DEF W, f
    <3>4. \A t \in 1 .. m + 1 : g[t] = IF t = m + 1 THEN NoOrder ELSE a.cells[l + t]
      OBVIOUS
    <3> HIDE DEF g
    <3>5. g \in Seq(W) /\ Len(g) = m + 1
      BY <3>1, <3>2
    <3>6. Append(f, NoOrder) \in Seq(W) /\ Len(Append(f, NoOrder)) = m + 1
      BY <3>1, <3>3
    <3>7. \A t \in 1 .. m + 1 : Append(f, NoOrder)[t] = g[t]
      <4> SUFFICES ASSUME NEW t \in 1 .. m + 1 PROVE Append(f, NoOrder)[t] = g[t]
        OBVIOUS
      <4>1. CASE t = m + 1
        BY <3>1, <3>3, <3>4, <4>1
      <4>2. CASE t # m + 1
        <5>1. t \in 1 .. m
          BY <3>1, <4>2
        <5>2. Append(f, NoOrder)[t] = f[t]
          BY <3>1, <3>3, <5>1
        <5> QED BY <3>1, <3>4, <4>2, <5>1, <5>2
      <4> QED BY <4>1, <4>2
    <3>8. Append(f, NoOrder) = g
      BY <3>1, <3>5, <3>6, <3>7
    <3> QED BY <3>8, Zenon DEF f, g
  <2>6. m \in Nat
    BY <1>1 DEF m
  <2>7. \A t \in 1 .. m + 1 :
          b.cells[l + t] = IF t = m + 1 THEN NoOrder ELSE a.cells[l + t]
    <3> SUFFICES ASSUME NEW t \in 1 .. m + 1
                 PROVE  b.cells[l + t] = IF t = m + 1 THEN NoOrder ELSE a.cells[l + t]
      OBVIOUS
    <3>1. CASE t = m + 1
      BY <2>3, <3>1
    <3>2. CASE t # m + 1
      <4>1. t \in 1 .. m
        BY <2>6, <3>2
      <4> QED BY <2>2, <3>2, <4>1
    <3> QED BY <3>1, <3>2
  <2>8. [t \in 1 .. m + 1 |-> b.cells[l + t]]
          = [t \in 1 .. m + 1 |-> IF t = m + 1 THEN NoOrder ELSE a.cells[l + t]]
    BY <2>7
  <2> QED BY <2>1, <2>5, <2>8
<1>16. \A q \in Prices : q # p => SlotsOf(b)[q] = SlotsOf(a)[q]
  <2> SUFFICES ASSUME NEW q \in Prices, q # p PROVE SlotsOf(b)[q] = SlotsOf(a)[q]
    OBVIOUS
  <2>1. CASE HasLevel(b, q)
    BY <1>11, <2>1
  <2>2. CASE ~HasLevel(b, q)
    <3>1. ~HasLevel(a, q)
      <4> SUFFICES ASSUME HasLevel(a, q) PROVE FALSE
        OBVIOUS
      <4>1. CASE q \in Behind(a, p)
        <5>1. b.map[q] = a.map[q] + 1 /\ a.map[q] + 1 < Unallocated /\ a.map[q] \in Nat
          BY <1>0, <1>8, <4>1 DEF CanExpandLevel
        <5> QED BY <2>2, <5>1, AccountAssumption DEF HasLevel
      <4>2. CASE q \notin Behind(a, p)
        BY <1>8, <2>2, <4>2 DEF HasLevel
      <4> QED BY <4>1, <4>2
    <3> QED BY <2>2, <3>1, SlotsAt
  <2> QED BY <2>1, <2>2
<1>17. LevelBecomes(a, b, p, Append(SlotsOf(a)[p], NoOrder))
  BY <1>15, <1>16, OneLevelWritten
<1> QED BY <1>5, <1>14, <1>17 DEF b, SameCounters

-----------------------------------------------------------------------------
(* The transactions.                                                       *)

(* An order is being placed.                                               *)
Matching == phase \in {"match", "rest"}

(* Where the running transaction is.  A match may still be at a level that *)
(* it freed itself, a crank frees a level only when it leaves it.          *)
RunInv ==
  /\ now \in Nat
  /\ phase \in {"idle", "match", "rest", "crank", "level"}
  /\ Matching => /\ call.owner \in Owners /\ call.side \in Sides /\ call.price \in Prices
                 /\ result.remaining \in Nat
  /\ phase = "match" => LoopAt(data, loop.price, loop.loff, loop.slots)
  /\ phase = "level" => /\ loop.price \in Prices
                        /\ HasLevel(data, loop.price)
                        /\ data.map[loop.price] = loop.loff
                        /\ Level(data, loop.price).slots = loop.slots

(* The invariant of the steps: both copies are sound at any time.          *)
LayoutInv == Sound(account) /\ Sound(data) /\ RunInv

(* The account of a new market.                                            *)
LEMMA EmptySound == Sound(EmptyAccount)
<1> DEFINE a == EmptyAccount
<1>1. /\ a.len = 0 /\ a.cells = <<>> /\ a.map = [p \in Prices |-> Unallocated]
      /\ a.maxLevels = 0 /\ a.nextId = 0
  BY DEF EmptyAccount
<1>2. a = [len |-> a.len, cells |-> a.cells, map |-> a.map,
           maxLevels |-> a.maxLevels, nextId |-> a.nextId]
  BY <1>1 DEF EmptyAccount
<1> HIDE DEF a
<1>3. a.cells = [i \in 1 .. a.len |-> a.cells[i]]
  BY <1>1
<1>4. AccountOK(a)
  BY <1>1, <1>2, <1>3, AccountAssumption DEF AccountOK
<1>5. \A p \in Prices : ~ HasLevel(a, p)
  BY <1>1 DEF HasLevel
<1>6. Sound(a)
  BY <1>4, <1>5, SoundByLevels
<1> QED BY <1>6 DEF a

(* The layout holds when the market is created.                            *)
LEMMA LayoutInit == Init => LayoutInv
<1> SUFFICES ASSUME Init PROVE LayoutInv
  OBVIOUS
<1>1. Sound(account) /\ Sound(data)
  BY EmptySound DEF Init
<1>2. RunInv
  BY DEF Init, RunInv, Matching
<1> QED BY <1>1, <1>2 DEF LayoutInv

(* What a transaction that commits or fails leaves.                        *)
LEMMA EndedInv ==
  ASSUME now \in Nat, UNCHANGED now, EndTx, Sound(account'), Sound(data')
  PROVE  LayoutInv'
BY DEF EndTx, LayoutInv, RunInv, Matching

(* A transaction that commits a sound copy leaves a sound account.         *)
LEMMA CommitInv ==
  ASSUME LayoutInv, NEW a, NEW events, Commit(a, events), Sound(a)
  PROVE  LayoutInv'
<1>1. now \in Nat /\ UNCHANGED now /\ EndTx /\ account' = a /\ data' = a
  BY DEF LayoutInv, RunInv, Commit
<1> QED BY <1>1, EndedInv

(* One that fails leaves the account as it was.                            *)
LEMMA FailInv == LayoutInv /\ Fail => LayoutInv'
<1> SUFFICES ASSUME LayoutInv, Fail PROVE LayoutInv'
  OBVIOUS
<1>1. now \in Nat /\ UNCHANGED now /\ EndTx /\ account' = account /\ data' = account
      /\ Sound(account)
  BY DEF LayoutInv, RunInv, Fail
<1>2. Sound(account') /\ Sound(data')
  BY <1>1
<1> QED BY <1>1, <1>2, EndedInv

(* No step breaks the layout.                                              *)
LEMMA LayoutStep == LayoutInv /\ [Next]_vars => LayoutInv'
<1> SUFFICES ASSUME LayoutInv, [Next]_vars PROVE LayoutInv'
  OBVIOUS
<1> USE DEF LayoutInv
<1>1. ASSUME NEW u \in Owners, NEW side \in Sides, NEW price \in Prices, NEW q \in OrderQtys,
             NEW isLimit \in BOOLEAN, NEW n,
             PlaceOrder(u, side, price, q, isLimit, n)
      PROVE  LayoutInv'
  <2>1. /\ phase' = "match" /\ account' = account /\ data' = data /\ now' = now
        /\ call'.owner = u /\ call'.side = side /\ call'.price = price
        /\ result'.remaining = q /\ loop'.slots = 0
    BY <1>1 DEF PlaceOrder, NoLoop
  <2>2. q \in Nat
    BY AccountAssumption
  <2>3. LoopAt(data', loop'.price, loop'.loff, loop'.slots)
    <3>1. loop'.price \notin Prices
      BY <1>1, DollarAssumption DEF PlaceOrder, NoLoop, Prices
    <3> QED BY <2>1, <3>1 DEF LoopAt
  <2> QED BY <2>1, <2>2, <2>3 DEF RunInv, Matching
<1>2. CASE EnterLevel
  <2>1. PICK p \in ToScan : loop' = [price |-> p, loff |-> data.map[p], slots |-> Level(data, p).slots]
    BY <1>2 DEF EnterLevel
  <2>2. p \in Prices /\ HasLevel(data, p)
    BY DEF ToScan
  <2>3. /\ phase = "match" /\ phase' = "match" /\ account' = account /\ data' = data
        /\ now' = now /\ call' = call /\ result' = result
    BY <1>2 DEF EnterLevel, Go
  <2>4. LoopAt(data', loop'.price, loop'.loff, loop'.slots)
    BY <2>1, <2>2, <2>3 DEF LoopAt
  <2> QED BY <2>3, <2>4 DEF RunInv, Matching
<1>3. CASE FillOldest
  <2> DEFINE l == loop.loff
             p == loop.price
  <2>1. PICK s \in Makers :
          /\ data' = TakeFrom(data, l, s, IF result.remaining < Slot(data, l, s).qty
                                         THEN result.remaining ELSE Slot(data, l, s).qty)
          /\ result'.remaining = result.remaining
               - (IF result.remaining < Slot(data, l, s).qty
                  THEN result.remaining ELSE Slot(data, l, s).qty)
    BY <1>3 DEF FillOldest
  <2>2. /\ phase = "match" /\ phase' = "match" /\ account' = account
        /\ now' = now /\ call' = call /\ loop' = loop
    BY <1>3 DEF FillOldest, Go
  <2>3. s \in ActiveSlots(data, l, loop.slots)
    BY DEF Makers
  <2>4. s \in 1 .. loop.slots /\ data.cells[l + s] # NoOrder
    BY <2>3 DEF ActiveSlots, Slot, IsOrder
  <2>5. p \in Prices /\ HasLevel(data, p) /\ data.map[p] = l /\ Level(data, p).slots = loop.slots
    BY <2>2, <2>4 DEF RunInv, LoopAt
  <2>6. s \in ActiveAt(data, p)
    BY <2>3, <2>5 DEF ActiveAt
  <2>7. Slot(data, l, s) \in Orders
    <3>1. LevelOK(data, p)
      BY <2>5, LevelsOfSound
    <3> QED BY <2>4, <2>5, <3>1 DEF LevelOK, Slot
  <2>8. Slot(data, l, s).qty \in Nat /\ result.remaining \in Nat
    BY <2>2, <2>7 DEF Orders, RunInv, Matching
  <2> DEFINE q == IF result.remaining < Slot(data, l, s).qty
                  THEN result.remaining ELSE Slot(data, l, s).qty
  <2>9. q \in Nat /\ q <= result.remaining
    BY <2>8
  <2>10. data' = TakeFrom(data, data.map[p], s, q) /\ result'.remaining \in Nat
    BY <2>1, <2>5, <2>8, <2>9
  <2> HIDE DEF q
  <2>11. Sound(data') /\ LoopAt(data', p, data.map[p], Level(data, p).slots)
    BY <2>5, <2>6, <2>9, <2>10, TakeFromSound
  <2> QED BY <2>2, <2>5, <2>10, <2>11 DEF RunInv, Matching
<1>4. CASE AllocateNewLevel
  <2>1. /\ phase' = "rest" /\ account' = account /\ now' = now /\ call' = call
        /\ result' = result /\ Matching
        /\ data' = InitLevel(data, call.price)
        /\ ~HasLevel(data, call.price) /\ CanInitLevel(data)
    BY <1>4 DEF AllocateNewLevel, Go, Matched, Matching, NeedsLevel
  <2>2. Sound(data')
    BY <2>1, InitLevelSound DEF RunInv
  <2> QED BY <2>1, <2>2 DEF RunInv, Matching
<1>5. CASE ExpandFullLevel
  <2>1. /\ phase' = "rest" /\ account' = account /\ now' = now /\ call' = call
        /\ result' = result /\ Matching
        /\ data' = ExpandLevel(data, call.price)
        /\ HasLevel(data, call.price) /\ CanExpandLevel(data, call.price)
    BY <1>5 DEF ExpandFullLevel, Go, Matched, Matching, IsFull, NeedsLevel
  <2>2. Sound(data')
    BY <2>1, ExpandLevelSound DEF RunInv
  <2> QED BY <2>1, <2>2 DEF RunInv, Matching
<1>6. CASE RestOrderInSlot
  <2> DEFINE order == [owner |-> call.owner, id |-> data.nextId, side |-> call.side,
                       qty |-> result.remaining, ts |-> now]
  <2>1. /\ Matching /\ result.remaining >= MinOrder
        /\ HasLevel(data, call.price)
        /\ FreeSlotsAt(data, data.map[call.price], Level(data, call.price).slots) # {}
        /\ Commit(WriteOrder(data, call.price, order), result.fills)
    BY <1>6 DEF RestOrderInSlot, Matched, Matching, WantsRest, HasRoom, IsFull, NeedsLevel
  <2>2. order \in Orders
    <3>1. data.nextId \in Nat
      BY DEF Sound, AccountOK
    <3>2. result.remaining \in Nat \ {0}
      BY <2>1, BookAssumption DEF RunInv
    <3> QED BY <2>1, <3>1, <3>2 DEF RunInv, Orders
  <2> HIDE DEF order
  <2>3. Sound(WriteOrder(data, call.price, order))
    BY <2>1, <2>2, WriteOrderSound DEF RunInv
  <2> QED BY <2>1, <2>3, CommitInv
<1>7. CASE FinishOrder
  BY <1>7, CommitInv DEF FinishOrder
<1>8. CASE RefuseOrder
  BY <1>8, FailInv DEF RefuseOrder
<1>9. ASSUME NEW u \in Owners, NEW p \in Prices, NEW s \in 1 .. MaxSlots, CancelOrder(u, p, s)
      PROVE  LayoutInv'
  <2> DEFINE d == Deactivate(account, account.map[p], s)
  <2>1. /\ HasLevel(account, p) /\ s \in ActiveAt(account, p)
        /\ Commit(FreeIfDrained(d, account.map[p]), <<>>)
    BY <1>9 DEF CancelOrder, ActiveAt
  <2>2. Sound(d) /\ d.map = account.map
    BY <2>1, DeactivateSound
  <2> HIDE DEF d
  <2>3. Sound(FreeIfDrained(d, d.map[p]))
    BY <2>1, <2>2, FreeIfDrainedSound DEF HasLevel
  <2> QED BY <2>1, <2>2, <2>3, CommitInv
<1>10. ASSUME NEW n, StartCrank(n) PROVE LayoutInv'
  <2>1. phase' = "crank" /\ account' = account /\ data' = data /\ now' = now
    BY <1>10 DEF StartCrank
  <2> QED BY <2>1 DEF RunInv, Matching
<1>11. CASE EnterCrankedLevel
  <2>1. First(ToCrank) \in ToCrank
    <3>1. ToCrank \in SUBSET (1 .. Dollar - 1) /\ Dollar - 1 \in Nat /\ ToCrank # {}
      BY <1>11, DollarAssumption DEF EnterCrankedLevel, ToCrank, Prices
    <3> QED BY <3>1, FirstIsIn
  <2> DEFINE p == First(ToCrank)
  <2>2. p \in Prices /\ HasLevel(data, p)
    BY <2>1 DEF ToCrank
  <2>3. /\ loop' = [price |-> p, loff |-> data.map[p], slots |-> Level(data, p).slots]
        /\ phase' = "level" /\ account' = account /\ data' = data /\ now' = now
    BY <1>11 DEF EnterCrankedLevel, Go
  <2> HIDE DEF p
  <2> QED BY <2>2, <2>3 DEF RunInv, Matching
<1>12. CASE CrankSlot
  <2> DEFINE active == ActiveSlots(data, loop.loff, loop.slots)
             s == First(active)
             p == loop.price
  <2>1. /\ phase = "level" /\ active # {} /\ data' = Deactivate(data, loop.loff, s)
        /\ phase' = "level" /\ account' = account /\ now' = now /\ loop' = loop
    BY <1>12 DEF CrankSlot, Go
  <2>2. /\ p \in Prices /\ HasLevel(data, p) /\ data.map[p] = loop.loff
        /\ Level(data, p).slots = loop.slots
    BY <2>1 DEF RunInv
  <2>3. loop.slots \in Nat
    BY <2>2, ActiveSlotsFinite
  <2>4. active \in SUBSET (1 .. loop.slots)
    BY DEF ActiveSlots
  <2>5. s \in ActiveAt(data, p)
    <3>1. s \in active
      <4> HIDE DEF active
      <4> QED BY <2>1, <2>3, <2>4, FirstIsIn
    <3> QED BY <2>2, <3>1 DEF ActiveAt
  <2> HIDE DEF s, active
  <2>6. Sound(data') /\ data'.map = data.map /\ Level(data', p).slots = Level(data, p).slots
    BY <2>1, <2>2, <2>5, DeactivateSound
  <2> QED BY <2>1, <2>2, <2>6 DEF RunInv, Matching, HasLevel
<1>13. CASE LeaveCrankedLevel
  <2>1. /\ phase = "level" /\ data' = FreeIfDrained(data, loop.loff)
        /\ phase' = "crank" /\ account' = account /\ now' = now
    BY <1>13 DEF LeaveCrankedLevel, Go
  <2>2. Sound(data')
    BY <2>1, FreeIfDrainedSound DEF RunInv
  <2> QED BY <2>1, <2>2 DEF RunInv, Matching
<1>14. CASE FinishCrank
  BY <1>14, CommitInv DEF FinishCrank
<1>15. CASE RefuseCrank
  BY <1>15, FailInv DEF RefuseCrank
<1>16. CASE Settle
  <2>1. UNCHANGED <<now, account, data, phase, call, loop, result>>
    BY <1>16 DEF Settle, txVars
  <2> QED BY <2>1 DEF RunInv, Matching
<1>17. CASE Tick
  <2>1. now' = now + 1 /\ UNCHANGED <<account, data, phase, call, loop, result>>
    BY <1>17 DEF Tick, txVars
  <2>2. now' \in Nat
    BY <2>1 DEF RunInv
  <2> QED BY <2>1, <2>2 DEF RunInv, Matching
<1>18. CASE UNCHANGED vars
  <2>1. UNCHANGED <<now, account, data, phase, call, loop, result>>
    BY <1>18 DEF vars, txVars
  <2> QED BY <2>1 DEF RunInv, Matching
<1> QED
  BY <1>1, <1>2, <1>3, <1>4, <1>5, <1>6, <1>7, <1>8, <1>9, <1>10, <1>11, <1>12, <1>13,
     <1>14, <1>15, <1>16, <1>17, <1>18 DEF Next

(* Between any two writes of any transaction every level lies in the       *)
(* account, apart from the others, and counts its active orders: for every *)
(* number of prices, slots, levels, owners and orders.                     *)
THEOREM LayoutAlwaysSound == Spec => []LayoutSound
<1>1. LayoutInv => LayoutSound
  BY DEF LayoutInv, Sound, LayoutSound
<1> QED BY LayoutInit, LayoutStep, <1>1, PTL DEF Spec
=============================================================================
