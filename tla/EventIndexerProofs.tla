------------------------- MODULE EventIndexerProofs -------------------------
(***************************************************************************)
(* The indexer's checkpoint, for every number of transactions, size of a   *)
(* listing and of a chunk, and any number of faults: whatever listener,    *)
(* backfill and crashes do to it, it never moves past an event that nobody *)
(* will index any more, unless a fault has taken that event; and each      *)
(* transaction's events are stored together.                               *)
(*                                                                         *)
(* Nothing is used of the parser but that it returns a list of events.     *)
(***************************************************************************)
EXTENDS IndexQueries, FiniteSums, FiniteSetTheorems, TLAPS

-----------------------------------------------------------------------------
(* The newest n members of a set: all of them when there are fewer than n. *)
LEMMA NewestMembers ==
  ASSUME NEW m \in Nat, NEW S \in SUBSET (1 .. m), NEW n \in Nat \ {0}
  PROVE  /\ Newest(S, n) \subseteq S
         /\ S # {} => Newest(S, n) # {}
         /\ \A i \in S, j \in Newest(S, n) : j < i => i \in Newest(S, n)
         /\ Cardinality(Newest(S, n)) < n => Newest(S, n) = S
<1>0. S \in SUBSET Nat
  OBVIOUS
<1>1. \A i \in S : Above(S, i) \in SUBSET S
  BY DEF Above
<1>2. \A T \in SUBSET S : IsFiniteSet(T) /\ Cardinality(T) \in Nat
  BY SubsetsFinite
<1>3. Newest(S, n) = {i \in S : Cardinality(Above(S, i)) < n}
  BY Zenon DEF Newest, Above
<1>4. S # {} => Newest(S, n) # {}
  <2> SUFFICES ASSUME S # {} PROVE Newest(S, n) # {}
    OBVIOUS
  <2>1. PICK x \in S : \A y \in S : y <= x
    BY LargestMember
  <2>2. \A y \in S : ~(y > x)
    BY <1>0, <2>1
  <2>3. Above(S, x) = {}
    BY <2>2, Zenon DEF Above
  <2>4. Cardinality(Above(S, x)) = 0
    BY <2>3, FS_EmptySet
  <2> QED BY <1>3, <2>4
<1>5. ASSUME NEW i \in S, NEW j \in Newest(S, n), j < i
      PROVE  i \in Newest(S, n)
  <2>1. j \in S /\ Cardinality(Above(S, j)) < n
    BY <1>3
  <2>2. Above(S, i) \in SUBSET Above(S, j)
    BY <1>0, <1>5, <2>1, AboveShrinks
  <2>3. Cardinality(Above(S, i)) <= Cardinality(Above(S, j))
    BY <1>1, <1>2, <2>1, <2>2, FS_Subset
  <2>4. Cardinality(Above(S, i)) \in Nat /\ Cardinality(Above(S, j)) \in Nat
    BY <1>1, <1>2, <2>1
  <2>5. Cardinality(Above(S, i)) < n
    BY <2>1, <2>3, <2>4
  <2> QED BY <1>3, <2>5
<1>6. ASSUME Cardinality(Newest(S, n)) < n, Newest(S, n) # S
      PROVE  FALSE
  <2> DEFINE R == S \ Newest(S, n)
  <2>0. Newest(S, n) \in SUBSET S
    BY <1>3
  <2>1. R \in SUBSET (1 .. m) /\ R # {}
    BY <1>6, <2>0
  <2>2. PICK x \in R : \A y \in R : y <= x
    <3> HIDE DEF R
    <3> QED BY <2>1, LargestMember
  <2>3. \A y \in S : y > x => y \notin R
    BY <1>0, <2>2
  <2>4. Above(S, x) \in SUBSET Newest(S, n)
    BY <2>3, Zenon DEF Above
  <2>5. Cardinality(Above(S, x)) <= Cardinality(Newest(S, n))
    BY <1>2, <2>0, <2>4, FS_Subset
  <2>6. Cardinality(Above(S, x)) \in Nat /\ Cardinality(Newest(S, n)) \in Nat
    BY <1>1, <1>2, <2>0
  <2>7. Cardinality(Above(S, x)) < n
    BY <1>6, <2>5, <2>6
  <2>8. x \in Newest(S, n)
    BY <1>3, <2>7
  <2> QED BY <2>8
<1> QED BY <1>3, <1>4, <1>5, <1>6
-----------------------------------------------------------------------------
(* Rows are of transactions that landed.                                   *)
RowsLanded == \A r \in table : r.signature \in Landed

TableInv == RowsLanded /\ WholeTransactions

(* Events of one type and market in a transaction get different numbers.   *)
LEMMA NumbersDiffer ==
  ASSUME NEW events, NEW n \in Nat, NEW k \in 1 .. n, NEW l \in 1 .. n, k < l,
         events[k].type = events[l].type, events[k].market = events[l].market
  PROVE  SeqNumber(events, k) # SeqNumber(events, l)
<1> DEFINE Before(j) == {i \in 1 .. j - 1 : /\ events[i].type = events[j].type
                                            /\ events[i].market = events[j].market}
<1>1. SeqNumber(events, k) = Cardinality(Before(k)) /\ SeqNumber(events, l) = Cardinality(Before(l))
  BY DEF SeqNumber
<1>2. Before(k) \in SUBSET (1 .. n) /\ Before(l) \in SUBSET (1 .. n)
  OBVIOUS
<1>3. \A i \in 1 .. k - 1 : i \in 1 .. l - 1
  OBVIOUS
<1>4. k \in 1 .. l - 1 /\ k \notin 1 .. k - 1
  OBVIOUS
<1>5. Before(k) \in SUBSET Before(l)
  BY <1>3
<1>6. k \in Before(l) /\ k \notin Before(k)
  BY <1>4
<1> HIDE DEF Before
<1>7. IsFiniteSet(Before(l))
  BY <1>2, SubsetsFinite
<1>8. Cardinality(Before(k)) # Cardinality(Before(l))
  BY <1>5, <1>6, <1>7, FS_Subset
<1> QED BY <1>1, <1>8

(* Two rows of a transaction differ in the unique index.                   *)
LEMMA RowsHaveOwnKeys ==
  ASSUME chain \in Seq(Txs), NEW i \in Landed, NEW r \in RowsOf(i), NEW s \in RowsOf(i), SameKey(r, s)
  PROVE  r = s
<1> DEFINE events == EventsOf[chain[i]]
<1>1. chain[i] \in Txs
  BY DEF Landed
<1>2. PICK n \in Nat : DOMAIN events = 1 .. n
  BY <1>1, ParserAssumption
<1>3. RowsOf(i) = {[signature |-> i, place |-> k, seq |-> SeqNumber(events, k), event |-> events[k]] :
                     k \in 1 .. n}
  BY <1>2 DEF RowsOf
<1> HIDE DEF events
<1>4. PICK k \in 1 .. n : r = [signature |-> i, place |-> k, seq |-> SeqNumber(events, k), event |-> events[k]]
  BY <1>3
<1>5. PICK l \in 1 .. n : s = [signature |-> i, place |-> l, seq |-> SeqNumber(events, l), event |-> events[l]]
  BY <1>3
<1>6. /\ events[k].type = events[l].type
      /\ events[k].market = events[l].market
      /\ SeqNumber(events, k) = SeqNumber(events, l)
  BY <1>4, <1>5, Zenon DEF SameKey
<1>7. ~(k < l) /\ ~(l < k)
  BY <1>6, NumbersDiffer
<1>8. k = l
  BY <1>7
<1> QED BY <1>4, <1>5, <1>8

(* What is inserted of a transaction that is not in the table is all of it.*)
LEMMA InsertedWhole ==
  ASSUME chain \in Seq(Txs), NEW i \in Landed, ~SignatureExists(i)
  PROVE  Inserted(i) = RowsOf(i)
<1>1. \A r \in RowsOf(i) : r.signature = i
  BY DEF RowsOf
<1>2. \A r \in RowsOf(i), s \in table : ~SameKey(r, s)
  BY <1>1 DEF SameKey, SignatureExists
<1>3. PICK n \in Nat : DOMAIN EventsOf[chain[i]] = 1 .. n
  BY ParserAssumption DEF Landed
<1>4. \A r \in RowsOf(i) : r.place \in 1 .. n
  BY <1>3 DEF RowsOf
<1>5. ASSUME NEW r \in RowsOf(i), NEW s \in RowsOf(i), s.place < r.place
      PROVE  ~SameKey(r, s)
  <2>1. r # s
    BY <1>4, <1>5
  <2> QED BY <2>1, RowsHaveOwnKeys
<1> QED BY <1>2, <1>5 DEF Inserted

(* A batch indexes its transactions, each as a whole, and removes nothing. *)
LEMMA BatchInserts ==
  ASSUME chain \in Seq(Txs), TableInv, chain' = chain,
         NEW sigs \in SUBSET Landed, InsertEventsBatch(sigs)
  PROVE  /\ TableInv'
         /\ \A i \in Landed : Indexed(i) => Indexed(i)'
         /\ \A i \in sigs : Indexed(i)'
<1> DEFINE fresh == ToIndex(sigs)
<1>0. \A i \in Landed : RowsOf(i)' = RowsOf(i) /\ HasEvents(i)' = HasEvents(i)
  BY DEF RowsOf, HasEvents
<1>1. \A i \in fresh : i \in sigs /\ i \in Landed /\ HasEvents(i) /\ ~SignatureExists(i)
  BY DEF ToIndex
<1>2. \A i \in fresh : Inserted(i) = RowsOf(i)
  BY <1>1, InsertedWhole
<1> HIDE DEF fresh
<1>3. table' = table \cup UNION {RowsOf(i) : i \in fresh}
  BY <1>2, Zenon DEF InsertEventsBatch, fresh
<1>4. \A i : \A r \in RowsOf(i) : r.signature = i
  BY DEF RowsOf
<1>5. \A i \in Landed : Indexed(i) => Indexed(i)'
  BY <1>0, <1>3 DEF Indexed, SignatureExists
<1>6. ASSUME NEW i \in sigs PROVE Indexed(i)'
  <2>1. CASE i \in fresh
    <3>1. PICK r \in RowsOf(i) : TRUE
      BY <1>1, <2>1 DEF HasEvents
    <3>2. r \in table' /\ r.signature = i
      BY <1>3, <1>4, <2>1
    <3> QED BY <3>2 DEF Indexed, SignatureExists
  <2>2. CASE i \notin fresh
    <3>1. Indexed(i)
      BY <2>2 DEF fresh, ToIndex, Indexed
    <3> QED BY <1>5, <3>1
  <2> QED BY <2>1, <2>2
<1>7. RowsLanded'
  <2> SUFFICES ASSUME NEW r \in table' PROVE r.signature \in Landed'
    BY DEF RowsLanded
  <2>1. CASE r \in table
    BY <2>1 DEF TableInv, RowsLanded, Landed
  <2>2. CASE \E i \in fresh : r \in RowsOf(i)
    BY <1>1, <1>4, <2>2 DEF Landed
  <2> QED BY <1>3, <2>1, <2>2
<1>8. WholeTransactions'
  <2> SUFFICES ASSUME NEW i \in Landed
               PROVE  LET stored == {r \in table' : r.signature = i}
                      IN  stored # {} => stored = RowsOf(i)
    BY <1>0, Zenon DEF WholeTransactions, Landed
  <2> DEFINE old == {r \in table : r.signature = i}
             new == {r \in table' : r.signature = i}
  <2>1. CASE i \in fresh
    <3>1. old = {}
      BY <1>1, <2>1 DEF SignatureExists
    <3>2. new = RowsOf(i)
      BY <1>3, <1>4, <2>1, <3>1
    <3> QED BY <3>2
  <2>2. CASE i \notin fresh
    <3>1. new = old
      BY <1>3, <1>4, <2>2
    <3>2. old # {} => old = RowsOf(i)
      BY DEF TableInv, WholeTransactions
    <3> QED BY <3>1, <3>2
  <2> QED BY <2>1, <2>2
<1> QED BY <1>5, <1>6, <1>7, <1>8 DEF TableInv

-----------------------------------------------------------------------------
(* What is known of the backfill's local variables in each of its phases.  *)
WalkInv ==
  /\ walk.until <= Len(chain)
  /\ walk.newest <= Len(chain)
  /\ walk.queue \cup walk.failed \subseteq Landed
  /\ walk.pc \in {"off", "list"} => walk.queue = {}
  /\ walk.pc \in {"off", "retry"} => walk.failed = {}
  /\ ~running => walk.pc = "off" /\ pending = {} /\ ~subscribed

IndexerInv == TypeOK /\ WalkInv /\ TableInv /\ OnlyFaultsLoseEvents

(* Who stands for a transaction: it is stored, awaited or lost.            *)
Covered(i) == Indexed(i) \/ i \in pending \/ i \in Work \/ i \in lost

(* It holds in an empty database before the first start.                   *)
LEMMA InitIndexer == Init => IndexerInv
<1> SUFFICES ASSUME Init PROVE IndexerInv
  OBVIOUS
<1> USE DEF Init
<1>0. Landed = {}
  BY DEF Landed
<1>1. TypeOK
  <2>1. walk \in Walk
    BY IndexerAssumption DEF Walk
  <2>2. chain \in Seq(Txs) /\ Len(chain) = 0
    OBVIOUS
  <2>3. pending \subseteq Landed /\ lost \subseteq Landed /\ checkpoint \in 0 .. Len(chain)
    BY <2>2
  <2>4. running \in BOOLEAN /\ subscribed \in BOOLEAN /\ faults \in Nat
    OBVIOUS
  <2>5. Len(chain) <= MaxTxs
    BY <2>2, IndexerAssumption
  <2> HIDE DEF Init
  <2> QED BY <2>1, <2>2, <2>3, <2>4, <2>5 DEF TypeOK
<1>2. WalkInv
  BY <1>0 DEF WalkInv
<1>3. TableInv
  BY <1>0 DEF TableInv, RowsLanded, WholeTransactions
<1>4. OnlyFaultsLoseEvents
  BY <1>0 DEF OnlyFaultsLoseEvents
<1> QED BY <1>1, <1>2, <1>3, <1>4 DEF IndexerInv

(* The transactions and the table stay: so do their rows.                  *)
LEMMA SameTable ==
  ASSUME IndexerInv, chain' = chain, table' = table
  PROVE  TableInv' /\ \A i \in Landed : Indexed(i) <=> Indexed(i)'
BY DEF IndexerInv, TableInv, RowsLanded, WholeTransactions, Landed, Indexed, HasEvents, RowsOf,
       SignatureExists

(* A transaction lands.                                                    *)
LEMMA LandStep ==
  ASSUME IndexerInv, NEW tx \in Txs, Land(tx)
  PROVE  IndexerInv'
<1> USE DEF IndexerInv
<1> PICK new : new = Len(chain) + 1
  OBVIOUS
<1>0. /\ chain' \in Seq(Txs) /\ Len(chain') = new /\ new <= MaxTxs
      /\ \A i \in Landed : chain'[i] = chain[i]
      /\ Landed' = Landed \cup {new} /\ new \notin Landed
      /\ UNCHANGED <<running, subscribed, table, checkpoint, walk>>
      /\ pending' = IF subscribed THEN pending \cup {new} ELSE pending
  <2>1. chain \in Seq(Txs) /\ chain' = Append(chain, tx) /\ Len(chain) < MaxTxs
    BY DEF Land, TypeOK
  <2>2. chain' \in Seq(Txs) /\ Len(chain') = new /\ new <= MaxTxs
    BY <2>1, IndexerAssumption
  <2>3. \A i \in Landed : chain'[i] = chain[i]
    BY <2>1 DEF Landed
  <2>4. Landed' = Landed \cup {new} /\ new \notin Landed
    BY <2>1, <2>2 DEF Landed
  <2> QED BY <2>2, <2>3, <2>4 DEF Land, database
<1>1. lost \subseteq lost' /\ lost' \subseteq lost \cup {new} /\ faults' \in Nat
  BY DEF Land, Fault, TypeOK
<1>2. TypeOK'
  BY <1>0, <1>1 DEF TypeOK
<1>3. WalkInv'
  <2>1. Len(chain) <= Len(chain') /\ walk.until \in Nat /\ walk.newest \in Nat /\ Len(chain) \in Nat
    BY <1>0 DEF TypeOK, Walk
  <2>2. walk'.until <= Len(chain') /\ walk'.newest <= Len(chain')
    BY <1>0, <2>1 DEF WalkInv
  <2> QED BY <1>0, <2>2 DEF WalkInv
<1>4. \A i \in Landed : RowsOf(i)' = RowsOf(i) /\ (Indexed(i) <=> Indexed(i)')
  BY <1>0 DEF RowsOf, HasEvents, Indexed, SignatureExists
<1>5. TableInv'
  BY <1>0, <1>4 DEF TableInv, RowsLanded, WholeTransactions
<1>6. OnlyFaultsLoseEvents'
  <2>1. Unlisted \subseteq Unlisted' /\ Work \subseteq Work'
    BY <1>0 DEF Unlisted, Work
  <2>2. ASSUME NEW i \in Landed, running' \/ i <= checkpoint'
        PROVE  Covered(i)'
    BY <1>0, <1>1, <1>4, <2>1, <2>2 DEF OnlyFaultsLoseEvents, Covered
  <2>3. ASSUME running' \/ new <= checkpoint'
        PROVE  Covered(new)'
    <3>1. running
      BY <1>0, <2>3 DEF TypeOK
    <3>2. CASE subscribed
      BY <1>0, <3>2 DEF Covered
    <3>3. CASE ~subscribed /\ walk.pc = "list" /\ walk.before > MaxTxs
      <4>1. walk'.until < new /\ new < walk'.before
        BY <1>0, <3>3, IndexerAssumption DEF WalkInv, TypeOK, Walk
      <4>2. new \in Work'
        BY <1>0, <3>3, <4>1 DEF Work, Unlisted
      <4> QED BY <4>2 DEF Covered
    <3>4. CASE ~subscribed /\ ~(walk.pc = "list" /\ walk.before > MaxTxs)
      <4>1. new \in lost'
        BY <3>1, <3>4 DEF Land
      <4> QED BY <4>1 DEF Covered
    <3> QED BY <3>2, <3>3, <3>4
  <2> QED BY <1>0, <2>2, <2>3 DEF OnlyFaultsLoseEvents, Covered
<1> QED BY <1>2, <1>3, <1>5, <1>6

(* The service starts, subscribes, or ends.                                *)
LEMMA ProcessStep ==
  ASSUME IndexerInv, Start \/ Subscribe \/ Crash
  PROVE  IndexerInv'
<1> USE DEF IndexerInv
<1>0. chain' = chain /\ table' = table /\ checkpoint' = checkpoint /\ Landed' = Landed
  BY DEF Start, Subscribe, Crash, database, Landed
<1>1. TableInv' /\ \A i \in Landed : Indexed(i) <=> Indexed(i)'
  BY <1>0, SameTable
<1>2. CASE Start
  <2>1. walk' \in Walk
    BY <1>2, IndexerAssumption DEF Start, TypeOK, Walk
  <2>2. TypeOK'
    BY <1>0, <1>2, <2>1 DEF Start, TypeOK
  <2>3. WalkInv'
    BY <1>0, <1>2 DEF Start, WalkInv, TypeOK
  <2>4. ASSUME NEW i \in Landed PROVE Covered(i)'
    <3>1. CASE i <= checkpoint
      <4>1. Indexed(i) \/ i \in lost
        BY <1>2, <3>1 DEF Start, OnlyFaultsLoseEvents, WalkInv, Work
      <4> QED BY <1>1, <1>2, <4>1 DEF Start, Covered
    <3>2. CASE ~(i <= checkpoint)
      <4>1. checkpoint < i /\ i < MaxTxs + 1
        BY <3>2, IndexerAssumption DEF TypeOK, Landed
      <4>2. i \in Unlisted' /\ walk'.pc = "list"
        BY <1>0, <1>2, <4>1 DEF Start, Unlisted
      <4> QED BY <4>2 DEF Work, Covered
    <3> QED BY <3>1, <3>2
  <2>5. OnlyFaultsLoseEvents'
    BY <1>0, <2>4 DEF OnlyFaultsLoseEvents, Covered
  <2> QED BY <1>1, <2>2, <2>3, <2>5
<1>3. CASE Subscribe
  <2>1. TypeOK' /\ WalkInv'
    BY <1>0, <1>3 DEF Subscribe, database, TypeOK, WalkInv
  <2>2. Work' = Work
    BY <1>0, <1>3 DEF Subscribe, Work, Unlisted
  <2>3. OnlyFaultsLoseEvents'
    BY <1>0, <1>1, <1>3, <2>2 DEF Subscribe, database, OnlyFaultsLoseEvents
  <2> QED BY <1>1, <2>1, <2>3
<1>4. CASE Crash
  <2>1. walk' \in Walk
    <3>1. walk \in Walk /\ walk' = [walk EXCEPT !.pc = "off", !.queue = {}, !.failed = {}]
      BY <1>4 DEF Crash, TypeOK
    <3> QED BY <3>1 DEF Walk
  <2>2. TypeOK'
    <3>1. faults' \in Nat
      BY <1>4 DEF Crash, Fault, TypeOK
    <3> QED BY <1>0, <1>4, <2>1, <3>1 DEF Crash, TypeOK
  <2>3. WalkInv'
    <3>1. walk' = [walk EXCEPT !.pc = "off", !.queue = {}, !.failed = {}]
      BY <1>4 DEF Crash
    <3>2. walk'.until = walk.until /\ walk'.newest = walk.newest /\ walk'.pc = "off"
          /\ walk'.queue = {} /\ walk'.failed = {}
      BY <3>1 DEF TypeOK, Walk
    <3> QED BY <1>0, <1>4, <3>2 DEF Crash, WalkInv
  <2>4. ASSUME NEW i \in Landed, i <= checkpoint PROVE Indexed(i) \/ i \in lost'
    BY <1>4, <2>4 DEF Crash, Indexed
  <2>5. OnlyFaultsLoseEvents'
    BY <1>0, <1>1, <1>4, <2>4 DEF Crash, OnlyFaultsLoseEvents
  <2> QED BY <1>1, <2>2, <2>3, <2>5
<1> QED BY <1>2, <1>3, <1>4

(* A notification is dealt with, or lost.                                  *)
LEMMA NotificationStep ==
  ASSUME IndexerInv, NEW i \in pending, Deliver(i) \/ Lose(i)
  PROVE  IndexerInv'
<1> USE DEF IndexerInv
<1>0. chain' = chain /\ walk' = walk /\ running /\ running' = running /\ subscribed' = subscribed
      /\ Landed' = Landed /\ Work' = Work /\ pending' = pending \ {i} /\ i \in Landed
  BY DEF Deliver, Lose, Landed, Work, Unlisted, TypeOK
<1>1. /\ TableInv'
      /\ \A j \in Landed : Indexed(j) => Indexed(j)'
      /\ Indexed(i)' \/ i \in lost'
  <2>1. CASE Deliver(i)
    <3>1. InsertEventsBatch({i})
      BY <2>1 DEF Deliver
    <3>2. {i} \in SUBSET Landed /\ chain \in Seq(Txs)
      BY <1>0 DEF TypeOK
    <3> QED BY <1>0, <3>1, <3>2, BatchInserts
  <2>2. CASE Lose(i)
    <3>1. table' = table /\ i \in lost'
      BY <2>2 DEF Lose, database
    <3> QED BY <1>0, <3>1, SameTable
  <2> QED BY <2>1, <2>2
<1>2. /\ checkpoint' \in 0 .. Len(chain)
      /\ lost \subseteq lost' /\ lost' \subseteq Landed
      /\ faults' \in Nat
  <2>1. CASE Deliver(i)
    BY <1>0, <2>1 DEF Deliver, TypeOK, Landed
  <2>2. CASE Lose(i)
    BY <1>0, <2>2 DEF Lose, Fault, database, TypeOK
  <2> QED BY <2>1, <2>2
<1>3. TypeOK' /\ WalkInv'
  BY <1>0, <1>2 DEF TypeOK, WalkInv
<1>4. OnlyFaultsLoseEvents'
  BY <1>0, <1>1, <1>2 DEF OnlyFaultsLoseEvents
<1> QED BY <1>1, <1>3, <1>4

(* A ticker is registered, or nothing happens.                             *)
LEMMA BystanderStep ==
  ASSUME IndexerInv,
         UNCHANGED <<chain, running, subscribed, pending, table, checkpoint, walk, lost, faults>>
  PROVE  IndexerInv'
<1> USE DEF IndexerInv
<1>1. TableInv' /\ \A i \in Landed : Indexed(i) <=> Indexed(i)'
  BY SameTable
<1>2. Landed' = Landed /\ Work' = Work
  BY DEF Landed, Work, Unlisted
<1>3. TypeOK' /\ WalkInv'
  BY <1>2 DEF TypeOK, WalkInv
<1>4. OnlyFaultsLoseEvents'
  BY <1>1, <1>2 DEF OnlyFaultsLoseEvents
<1> QED BY <1>1, <1>3, <1>4

-----------------------------------------------------------------------------
(* The backfill's steps leave these alone.                                 *)
Elsewhere == UNCHANGED <<chain, running, subscribed, pending>>

(* The walk w is over and its last checkpoint is cp or its newest.         *)
LEMMA WalkEnds ==
  ASSUME IndexerInv, running, Elsewhere, NEW w \in Walk, NEW cp \in 0 .. Len(chain),
         w.until <= Len(chain), w.newest <= Len(chain), w.failed \subseteq Landed,
         EndWalk(w, cp), lost' \subseteq Landed, faults' \in Nat
  PROVE  /\ TypeOK' /\ WalkInv'
         /\ w.failed \subseteq Work'
<1>1. CASE w.failed # {}
  <2>1. walk' = [w EXCEPT !.pc = "retry", !.queue = w.failed, !.failed = {}] /\ checkpoint' = cp
    BY <1>1 DEF EndWalk
  <2>2. walk' \in Walk
    BY <2>1 DEF Walk
  <2>3. /\ walk'.until = w.until /\ walk'.newest = w.newest /\ walk'.pc = "retry"
        /\ walk'.queue = w.failed /\ walk'.failed = {}
    BY <2>1 DEF Walk
  <2>4. TypeOK'
    BY <2>1, <2>2 DEF IndexerInv, TypeOK, Elsewhere, Landed
  <2>5. WalkInv'
    BY <2>3 DEF WalkInv, Elsewhere, Landed
  <2> QED BY <2>3, <2>4, <2>5 DEF Work
<1>2. CASE w.failed = {}
  <2>1. walk' = [w EXCEPT !.pc = "off", !.queue = {}]
        /\ checkpoint' = IF w.complete /\ w.newest # 0 THEN w.newest ELSE cp
    BY <1>2 DEF EndWalk
  <2>2. walk' \in Walk
    BY <2>1 DEF Walk
  <2>3. /\ walk'.until = w.until /\ walk'.newest = w.newest /\ walk'.pc = "off"
        /\ walk'.queue = {} /\ walk'.failed = {}
    BY <1>2, <2>1 DEF Walk
  <2>4. checkpoint' \in 0 .. Len(chain)
    BY <2>1 DEF Walk
  <2>5. TypeOK'
    BY <2>2, <2>4 DEF IndexerInv, TypeOK, Elsewhere, Landed
  <2>6. WalkInv'
    BY <2>3 DEF WalkInv, Elsewhere, Landed
  <2> QED BY <1>2, <2>5, <2>6
<1> QED BY <1>1, <1>2

(* The next listing: the walk is over, or a batch is to be fetched, and    *)
(* what the walk leaves unlisted lies below it.                            *)
LEMMA ListStep ==
  ASSUME IndexerInv, ListSignatures
  PROVE  IndexerInv'
<1> USE DEF IndexerInv
<1> DEFINE batch == Newest(Unlisted, BatchSize)
           oldest == CHOOSE i \in batch : \A j \in batch : i <= j
           top == CHOOSE i \in batch : \A j \in batch : j <= i
<1>0. /\ running /\ walk.pc = "list" /\ walk.queue = {} /\ walk \in Walk
      /\ table' = table /\ lost' = lost /\ faults' = faults /\ Elsewhere /\ Landed' = Landed
  BY DEF ListSignatures, WalkInv, TypeOK, Elsewhere, Landed
<1>1. TableInv' /\ \A i \in Landed : Indexed(i) <=> Indexed(i)'
  BY <1>0, SameTable DEF Elsewhere
<1>2. /\ Len(chain) \in Nat /\ Unlisted \in SUBSET (1 .. Len(chain)) /\ BatchSize \in Nat \ {0}
      /\ MaxTxs \in Nat /\ Len(chain) <= MaxTxs
  BY IndexerAssumption DEF TypeOK, Unlisted, Landed
<1>3. /\ batch \subseteq Unlisted
      /\ Unlisted # {} => batch # {}
      /\ \A i \in Unlisted, j \in batch : j < i => i \in batch
      /\ Cardinality(batch) < BatchSize => batch = Unlisted
  BY <1>2, NewestMembers
<1> HIDE DEF batch
<1>4. CASE batch = {}
  <2> DEFINE w == [walk EXCEPT !.complete = TRUE]
  <2>1. EndWalk(w, checkpoint) /\ Unlisted = {}
    BY <1>3, <1>4 DEF ListSignatures, batch
  <2>2. w \in Walk /\ w.until = walk.until /\ w.newest = walk.newest /\ w.failed = walk.failed
    BY <1>0 DEF Walk
  <2> HIDE DEF w
  <2>3. TypeOK' /\ WalkInv' /\ walk.failed \subseteq Work'
    BY <1>0, <2>1, <2>2, WalkEnds DEF TypeOK, WalkInv, Landed
  <2>4. Work = walk.failed
    BY <1>0, <2>1 DEF Work
  <2>5. OnlyFaultsLoseEvents'
    BY <1>0, <1>1, <2>3, <2>4 DEF OnlyFaultsLoseEvents, Elsewhere
  <2> QED BY <1>1, <2>3, <2>5
<1>5. CASE batch # {}
  <2>1. oldest \in batch /\ \A j \in batch : oldest <= j
    BY <1>2, <1>3, <1>5, SmallestMember
  <2>2. top \in batch
    BY <1>2, <1>3, <1>5, LargestMember
  <2> HIDE DEF oldest, top
  <2> DEFINE short == Cardinality(batch) < BatchSize
  <2>3. /\ walk' = [walk EXCEPT !.pc = "fetch", !.queue = batch, !.before = oldest,
                      !.newest = IF @ = 0 THEN top ELSE @, !.last = short, !.complete = short]
        /\ checkpoint' = checkpoint
    BY <1>0, <1>5 DEF ListSignatures, batch, oldest, top
  <2>4. /\ walk'.pc = "fetch" /\ walk'.queue = batch /\ walk'.before = oldest
        /\ walk'.until = walk.until /\ walk'.failed = walk.failed /\ walk'.last = short
        /\ walk'.newest \in {walk.newest, top}
    BY <1>0, <2>3 DEF Walk
  <2>5. oldest \in 1 .. Len(chain) /\ top \in 1 .. Len(chain)
    BY <1>2, <1>3, <2>1, <2>2
  <2>6. walk' \in Walk
    <3>1. batch \in SUBSET (1 .. MaxTxs) /\ oldest \in 1 .. MaxTxs + 1 /\ top \in 0 .. MaxTxs
      BY <1>2, <1>3, <2>5
    <3>2. short \in BOOLEAN
      OBVIOUS
    <3> HIDE DEF short
    <3> QED BY <1>0, <2>3, <3>1, <3>2 DEF Walk
  <2>7. TypeOK'
    BY <1>0, <2>3, <2>6 DEF TypeOK, Elsewhere
  <2>8. WalkInv'
    <3>1. /\ walk.until <= Len(chain) /\ walk.newest <= Len(chain) /\ walk.failed \subseteq Landed
          /\ chain' = chain /\ running' = running /\ Landed' = Landed
      BY <1>0 DEF WalkInv, Elsewhere, Landed
    <3>2. batch \subseteq Landed
      BY <1>3 DEF Unlisted
    <3>3. walk'.newest <= Len(chain)
      BY <2>4, <2>5, <3>1
    <3> QED BY <1>0, <2>4, <3>1, <3>2, <3>3 DEF WalkInv
  <2>9. Work \subseteq Work'
    <3>1. ASSUME NEW i \in Unlisted, i \notin batch PROVE ~short /\ i \in Unlisted'
      <4>1. ~short /\ ~(oldest < i) /\ i # oldest
        BY <1>3, <2>1, <3>1
      <4>2. i \in Landed /\ walk.until < i /\ i < oldest
        BY <1>2, <2>5, <4>1 DEF Unlisted
      <4> QED BY <1>0, <2>4, <4>1, <4>2 DEF Unlisted
    <3> HIDE DEF short
    <3> QED BY <1>0, <2>4, <3>1 DEF Work
  <2>10. OnlyFaultsLoseEvents'
    BY <1>0, <1>1, <2>3, <2>9 DEF OnlyFaultsLoseEvents, Elsewhere
  <2> QED BY <1>1, <2>7, <2>8, <2>10
<1> QED BY <1>4, <1>5

(* A listing that fails: what it would have found is lost.                 *)
LEMMA ListFailsStep ==
  ASSUME IndexerInv, ListFails
  PROVE  IndexerInv'
<1> USE DEF IndexerInv
<1>0. /\ running /\ walk.pc = "list" /\ walk.queue = {} /\ walk \in Walk
      /\ table' = table /\ lost' = lost \cup Unlisted /\ faults' \in Nat
      /\ Elsewhere /\ Landed' = Landed /\ EndWalk(walk, checkpoint)
  BY DEF ListFails, WalkInv, TypeOK, Elsewhere, Landed, Fault
<1>1. TableInv' /\ \A i \in Landed : Indexed(i) <=> Indexed(i)'
  BY <1>0, SameTable DEF Elsewhere
<1>2. TypeOK' /\ WalkInv' /\ walk.failed \subseteq Work'
  <2>1. lost' \subseteq Landed
    BY <1>0 DEF TypeOK, Unlisted
  <2> QED BY <1>0, <2>1, WalkEnds DEF TypeOK, WalkInv
<1>3. Work = walk.failed \cup Unlisted
  BY <1>0 DEF Work
<1>4. OnlyFaultsLoseEvents'
  BY <1>0, <1>1, <1>2, <1>3 DEF OnlyFaultsLoseEvents, Elsewhere
<1> QED BY <1>1, <1>2, <1>4

(* A chunk is fetched: bad is kept for the retry, the rest is stored.      *)
LEMMA FetchStep ==
  ASSUME IndexerInv, NEW bad \in SUBSET walk.queue, FetchChunk(bad)
  PROVE  IndexerInv'
<1> USE DEF IndexerInv
<1> DEFINE chunk == Newest(walk.queue, Concurrency)
           rest  == walk.queue \ chunk
           done  == [walk EXCEPT !.queue = rest, !.failed = @ \cup bad]
<1>0. /\ running /\ walk.pc = "fetch" /\ walk \in Walk /\ walk.queue \subseteq Landed
      /\ walk.failed \subseteq Landed /\ bad \subseteq chunk
      /\ lost' = lost /\ Elsewhere /\ Landed' = Landed /\ InsertEventsBatch(chunk \ bad)
  BY DEF FetchChunk, WalkInv, TypeOK, Elsewhere, Landed
<1>1. chunk \subseteq walk.queue
  BY DEF Newest
<1>2. lost' \subseteq Landed /\ faults' \in Nat
  BY <1>0 DEF FetchChunk, Fault, TypeOK
<1>3. IF rest # {}
        THEN walk' = done /\ UNCHANGED checkpoint
        ELSE IF walk.last
          THEN EndWalk(done, walk.newest)
          ELSE walk' = [done EXCEPT !.pc = "list"] /\ checkpoint' = walk.newest
  BY DEF FetchChunk
<1>4. /\ TableInv'
      /\ \A i \in Landed : Indexed(i) => Indexed(i)'
      /\ \A i \in chunk \ bad : Indexed(i)'
  <2>1. chunk \ bad \in SUBSET Landed /\ chain' = chain /\ chain \in Seq(Txs)
    BY <1>0, <1>1 DEF TypeOK, Elsewhere
  <2> QED BY <1>0, <2>1, BatchInserts
<1> HIDE DEF chunk
<1>5. /\ done \in Walk /\ done.pc = "fetch" /\ done.until = walk.until /\ done.newest = walk.newest
      /\ done.queue = rest /\ done.failed = walk.failed \cup bad
      /\ done.before = walk.before /\ done.last = walk.last
  BY <1>0 DEF Walk
<1>6. done.failed \subseteq Landed /\ rest \subseteq Landed
  BY <1>0, <1>1, <1>5
<1>7. /\ walk.newest \in 0 .. Len(chain) /\ walk.until <= Len(chain)
      /\ walk.newest <= Len(chain)
  BY <1>0 DEF WalkInv, Walk
<1> HIDE DEF rest, done
<1>8. /\ TypeOK' /\ WalkInv'
      /\ rest \cup walk.failed \cup bad \subseteq Work'
      /\ walk.last \/ Unlisted \subseteq Work'
  <2>1. CASE rest # {}
    <3>1. walk' = done /\ checkpoint' = checkpoint
      BY <1>3, <2>1
    <3>2. TypeOK'
      BY <1>0, <1>2, <1>5, <3>1 DEF TypeOK, Elsewhere
    <3>3. WalkInv'
      BY <1>0, <1>5, <1>6, <1>7, <3>1 DEF WalkInv, Elsewhere
    <3>4. Unlisted' = Unlisted
      BY <1>0, <1>5, <3>1 DEF Unlisted
    <3> QED BY <1>5, <3>1, <3>2, <3>3, <3>4 DEF Work
  <2>2. CASE rest = {} /\ walk.last
    <3>1. EndWalk(done, walk.newest)
      BY <1>3, <2>2
    <3>2. TypeOK' /\ WalkInv' /\ done.failed \subseteq Work'
      BY <1>0, <1>2, <1>5, <1>6, <1>7, <3>1, WalkEnds
    <3> QED BY <1>5, <2>2, <3>2
  <2>3. CASE rest = {} /\ ~walk.last
    <3>1. walk' = [done EXCEPT !.pc = "list"] /\ checkpoint' = walk.newest
      BY <1>3, <2>3
    <3>2. /\ walk' \in Walk /\ walk'.pc = "list" /\ walk'.until = done.until
          /\ walk'.newest = done.newest /\ walk'.queue = done.queue /\ walk'.failed = done.failed
          /\ walk'.before = done.before
      BY <1>5, <3>1 DEF Walk
    <3>3. TypeOK'
      BY <1>0, <1>2, <1>7, <3>1, <3>2 DEF TypeOK, Elsewhere
    <3>4. WalkInv'
      BY <1>0, <1>5, <1>6, <1>7, <2>3, <3>2 DEF WalkInv, Elsewhere
    <3>5. Unlisted' = Unlisted
      BY <1>0, <1>5, <3>2 DEF Unlisted
    <3> QED BY <1>5, <3>2, <3>3, <3>4, <3>5 DEF Work
  <2> QED BY <2>1, <2>2, <2>3
<1>9. OnlyFaultsLoseEvents'
  <2> SUFFICES ASSUME NEW i \in Landed PROVE Covered(i)'
    BY <1>0 DEF OnlyFaultsLoseEvents, Covered
  <2>1. Indexed(i) \/ i \in pending \/ i \in Work \/ i \in lost
    BY <1>0 DEF OnlyFaultsLoseEvents
  <2>2. i \in Work => i \in chunk \/ i \in rest \/ i \in walk.failed \/ (~walk.last /\ i \in Unlisted)
    BY <1>0 DEF Work, rest
  <2> QED BY <1>0, <1>4, <1>8, <2>1, <2>2 DEF Covered, Elsewhere
<1> QED BY <1>4, <1>8, <1>9

(* A chunk is fetched again: what fails is lost, the rest is stored.       *)
LEMMA RetryStep ==
  ASSUME IndexerInv, NEW bad \in SUBSET walk.queue, RetryChunk(bad)
  PROVE  IndexerInv'
<1> USE DEF IndexerInv
<1> DEFINE chunk == Newest(walk.queue, Concurrency)
           rest  == walk.queue \ chunk
           done  == [walk EXCEPT !.queue = {}]
<1>0. /\ running /\ walk.pc = "retry" /\ walk \in Walk /\ walk.queue \subseteq Landed
      /\ walk.failed = {} /\ bad \subseteq chunk
      /\ lost' = lost \cup bad /\ Elsewhere /\ Landed' = Landed
      /\ InsertEventsBatch(chunk \ bad)
  BY DEF RetryChunk, WalkInv, TypeOK, Elsewhere, Landed
<1>1. chunk \subseteq walk.queue
  BY DEF Newest
<1>2. lost' \subseteq Landed /\ faults' \in Nat
  BY <1>0 DEF RetryChunk, Fault, TypeOK
<1>3. IF rest # {}
        THEN walk' = [walk EXCEPT !.queue = rest] /\ UNCHANGED checkpoint
        ELSE EndWalk(done, checkpoint)
  BY DEF RetryChunk
<1>4. /\ TableInv'
      /\ \A i \in Landed : Indexed(i) => Indexed(i)'
      /\ \A i \in chunk \ bad : Indexed(i)'
  <2>1. chunk \ bad \in SUBSET Landed /\ chain' = chain /\ chain \in Seq(Txs)
    BY <1>0, <1>1 DEF TypeOK, Elsewhere
  <2> QED BY <1>0, <2>1, BatchInserts
<1> HIDE DEF chunk
<1>5. TypeOK' /\ WalkInv' /\ rest \subseteq Work'
  <2>1. CASE rest # {}
    <3>1. walk' = [walk EXCEPT !.queue = rest] /\ checkpoint' = checkpoint
      BY <1>3, <2>1
    <3>2. /\ walk' \in Walk /\ walk'.pc = "retry" /\ walk'.until = walk.until
          /\ walk'.newest = walk.newest /\ walk'.queue = rest /\ walk'.failed = {}
      BY <1>0, <3>1 DEF Walk
    <3>3. TypeOK'
      BY <1>0, <1>2, <3>1, <3>2 DEF TypeOK, Elsewhere
    <3>4. WalkInv'
      BY <1>0, <3>2 DEF WalkInv, Elsewhere
    <3> QED BY <3>2, <3>3, <3>4 DEF Work
  <2>2. CASE rest = {}
    <3>1. EndWalk(done, checkpoint)
      BY <1>3, <2>2
    <3>2. /\ done \in Walk /\ done.until = walk.until /\ done.newest = walk.newest
          /\ done.failed = {}
      BY <1>0 DEF Walk
    <3> HIDE DEF done
    <3>3. done.until <= Len(chain) /\ done.newest <= Len(chain) /\ done.failed \subseteq Landed
      BY <3>2 DEF WalkInv
    <3>4. checkpoint \in 0 .. Len(chain)
      BY DEF TypeOK
    <3>5. TypeOK' /\ WalkInv'
      BY <1>0, <1>2, <3>1, <3>2, <3>3, <3>4, WalkEnds
    <3> QED BY <2>2, <3>5
  <2> QED BY <2>1, <2>2
<1>6. OnlyFaultsLoseEvents'
  <2> SUFFICES ASSUME NEW i \in Landed PROVE Covered(i)'
    BY <1>0 DEF OnlyFaultsLoseEvents, Covered
  <2>1. Indexed(i) \/ i \in pending \/ i \in Work \/ i \in lost
    BY <1>0 DEF OnlyFaultsLoseEvents
  <2>2. i \in Work => i \in chunk \/ i \in rest
    BY <1>0 DEF Work, rest
  <2> QED BY <1>0, <1>4, <1>5, <2>1, <2>2 DEF Covered, Elsewhere
<1> QED BY <1>4, <1>5, <1>6

-----------------------------------------------------------------------------
(* Whatever happens keeps the invariant.                                   *)
LEMMA IndexerStep == IndexerInv /\ [Next]_vars => IndexerInv'
<1> SUFFICES ASSUME IndexerInv, [Next]_vars PROVE IndexerInv'
  OBVIOUS
<1>1. CASE \E tx \in Txs : Land(tx)
  BY <1>1, LandStep
<1>2. CASE Start \/ Subscribe \/ Crash
  BY <1>2, ProcessStep
<1>3. CASE \E i \in pending : Deliver(i) \/ Lose(i)
  BY <1>3, NotificationStep
<1>4. CASE UNCHANGED vars \/ \E m \in Markets, t \in TickerNames : RegisterTicker(m, t)
  BY <1>4, BystanderStep DEF RegisterTicker, vars, database
<1>5. CASE ListSignatures
  BY <1>5, ListStep
<1>6. CASE ListFails
  BY <1>6, ListFailsStep
<1>7. CASE \E bad \in SUBSET walk.queue : FetchChunk(bad)
  BY <1>7, FetchStep
<1>8. CASE \E bad \in SUBSET walk.queue : RetryChunk(bad)
  BY <1>8, RetryStep
<1> QED BY <1>1, <1>2, <1>3, <1>4, <1>5, <1>6, <1>7, <1>8 DEF Next

(* The walk, the table and the account of what was lost are as stated at   *)
(* all times (listener.ts, backfill.ts, db.ts of the event indexer).       *)
THEOREM IndexerCorrect == Spec => []IndexerInv
<1>1. Init => IndexerInv
  BY InitIndexer
<1>2. IndexerInv /\ [Next]_vars => IndexerInv'
  BY IndexerStep
<1> QED BY <1>1, <1>2, PTL DEF Spec

(* The checkpoint and the backfill's cursors name transactions that exist, *)
(* for any number of transactions (index.ts, backfill.ts, listener.ts).    *)
THEOREM TypesHold == Spec => []TypeOK
<1>1. IndexerInv => TypeOK
  BY DEF IndexerInv
<1> QED BY <1>1, IndexerCorrect, PTL

(* However long the chain, however small the listings and the chunks, and  *)
(* however often the service fails: what has landed is stored, awaited by  *)
(* the listener, ahead of the backfill, or taken by a fault (backfill.ts,  *)
(* listener.ts).                                                           *)
THEOREM NoGapOfItsOwn == Spec => []OnlyFaultsLoseEvents
<1>1. IndexerInv => OnlyFaultsLoseEvents
  BY DEF IndexerInv
<1> QED BY <1>1, IndexerCorrect, PTL

(* Of a transaction with any number of events all are stored or none: the  *)
(* numbering of db.ts gives each its own key.                              *)
THEOREM StoredAsAWhole == Spec => []WholeTransactions
<1>1. IndexerInv => WholeTransactions
  BY DEF IndexerInv, TableInv
<1> QED BY <1>1, IndexerCorrect, PTL

-----------------------------------------------------------------------------
(* The queries.                                                            *)

(* Of the table they need to know that it is finite and that its fills are *)
(* fills of the program.                                                   *)
TableOK == IsFiniteSet(table) /\ \A r \in FillRows(table) : FillEvent(r.event)

(* The table holds nothing but what the parser found.                      *)
LEMMA TableSound == IndexerInv => TableOK
<1> SUFFICES ASSUME IndexerInv PROVE TableOK
  OBVIOUS
<1>1. \A r \in table : r.signature \in Landed /\ r \in RowsOf(r.signature)
  BY DEF IndexerInv, TableInv, RowsLanded, WholeTransactions
<1>2. \A i \in Landed : chain[i] \in Txs
  BY DEF IndexerInv, TypeOK, Landed
<1>3. ASSUME NEW i \in Landed
      PROVE  IsFiniteSet(RowsOf(i))
  <2> DEFINE events == EventsOf[chain[i]]
             row == [k \in DOMAIN events |->
                       [signature |-> i, place |-> k, seq |-> SeqNumber(events, k), event |-> events[k]]]
  <2>1. IsFiniteSet(DOMAIN events)
    BY <1>2, ParserAssumption, FS_Interval
  <2>2. RowsOf(i) = {row[k] : k \in DOMAIN events}
    BY DEF RowsOf
  <2> HIDE DEF row, events
  <2> QED BY <2>1, <2>2, ValuesFinite
<1>4. IsFiniteSet(table)
  <2> DEFINE rows == [i \in Landed |-> RowsOf(i)]
             all == {rows[i] : i \in Landed}
  <2>1. IsFiniteSet(Landed)
    BY FS_Interval DEF IndexerInv, TypeOK, Landed
  <2>2. \A T \in all : IsFiniteSet(T)
    BY <1>3
  <2>3. table \in SUBSET UNION all
    BY <1>1
  <2> HIDE DEF rows
  <2>4. IsFiniteSet(all)
    BY <2>1, ValuesFinite
  <2> HIDE DEF all
  <2> QED BY <2>2, <2>3, <2>4, FS_UNION, FS_Subset
<1>5. ASSUME NEW r \in FillRows(table)
      PROVE  FillEvent(r.event)
  <2>1. r \in table /\ r.event.type = "fill"
    BY DEF FillRows
  <2>2. PICK k \in DOMAIN EventsOf[chain[r.signature]] : r.event = EventsOf[chain[r.signature]][k]
    BY <1>1, <2>1 DEF RowsOf
  <2> QED BY <1>1, <1>2, <2>1, <2>2, QueryAssumption
<1> QED BY <1>4, <1>5 DEF TableOK

(* The fills and what the queries sum up of them.                          *)
Fills == FillRows(table)
Qty == [r \in Fills |-> r.event.quantity]
Paid == [r \in Fills |-> r.event.quantity * r.event.price]
Signed(w) == [r \in Fills |-> SignedCost(r, w)]
Ones == [r \in Fills |-> 1]

(* All of it are numbers.                                                  *)
LEMMA Terms ==
  ASSUME TableOK
  PROVE  /\ IsFiniteSet(Fills)
         /\ Nats(Qty, Fills) /\ Nats(Paid, Fills) /\ Nats(Ones, Fills)
         /\ Ints(Qty, Fills) /\ Ints(Paid, Fills) /\ Ints(Ones, Fills)
         /\ \A w : Ints(Signed(w), Fills)
         /\ \A r \in Fills : Qty[r] <= Paid[r] /\ Paid[r] <= 99 * Qty[r]
<1>1. IsFiniteSet(Fills)
  BY FS_Subset DEF TableOK, Fills, FillRows
<1>2. ASSUME NEW q \in Nat, NEW p \in 1 .. 99
      PROVE  q * p \in Nat /\ q <= q * p /\ q * p <= 99 * q
  BY <1>2
<1>3. ASSUME NEW r \in Fills
      PROVE  /\ Qty[r] \in Nat /\ Paid[r] \in Nat /\ Ones[r] \in Nat
             /\ \A w : Signed(w)[r] \in Int
             /\ Qty[r] <= Paid[r] /\ Paid[r] <= 99 * Qty[r]
  <2>1. r.event.quantity \in Nat /\ r.event.price \in 1 .. 99
    BY DEF TableOK, Fills, FillEvent
  <2> DEFINE c == r.event.quantity * r.event.price
  <2>2. c \in Nat /\ r.event.quantity <= c /\ c <= 99 * r.event.quantity
    BY <1>2, <2>1
  <2>3. \A w : SignedCost(r, w) = -c \/ SignedCost(r, w) = c
    BY DEF SignedCost
  <2>4. /\ Qty[r] = r.event.quantity /\ Paid[r] = c /\ Ones[r] = 1
        /\ \A w : Signed(w)[r] = SignedCost(r, w)
    BY DEF Qty, Paid, Ones, Signed
  <2> HIDE DEF c
  <2>5. \A w : Signed(w)[r] \in Int
    BY <2>2, <2>3, <2>4
  <2> QED BY <2>1, <2>2, <2>4, <2>5
<1> QED BY <1>1, <1>3 DEF Nats, Ints

(* The sums over some of the fills.                                        *)
LEMMA GroupSums ==
  ASSUME TableOK, NEW g \in SUBSET Fills
  PROVE  /\ IsFiniteSet(g)
         /\ Quantity(g) = SumOf(Qty, g)
         /\ Cost(g) = SumOf(Paid, g)
         /\ Cardinality(g) = SumOf(Ones, g)
         /\ \A w : SumOver(g, LAMBDA r : SignedCost(r, w)) = SumOf(Signed(w), g)
<1>1. IsFiniteSet(g)
  BY Terms, FS_Subset
<1> DEFINE q == [r \in g |-> r.event.quantity]
           c == [r \in g |-> r.event.quantity * r.event.price]
           s(w) == [r \in g |-> SignedCost(r, w)]
<1>2. /\ Ints(Qty, g) /\ Ints(Paid, g) /\ \A w : Ints(Signed(w), g)
      /\ \A r \in g : Ones[r] = 1
  BY Terms DEF Ints, Ones
<1>3. /\ \A r \in g : Qty[r] = q[r] /\ Paid[r] = c[r]
      /\ \A w : \A r \in g : Signed(w)[r] = s(w)[r]
  BY DEF Qty, Paid, Signed
<1>4. Quantity(g) = SumOf(q, g)
  BY Zenon DEF Quantity, SumOver, SumFunction, SumOf
<1>5. Cost(g) = SumOf(c, g)
  BY Zenon DEF Cost, SumOver, SumFunction, SumOf
<1>6. ASSUME NEW w
      PROVE  SumOver(g, LAMBDA r : SignedCost(r, w)) = SumOf(s(w), g)
  BY Zenon DEF SumOver, SumFunction, SumOf
<1> HIDE DEF q, c, s
<1>7. SumOf(Qty, g) = SumOf(q, g) /\ SumOf(Paid, g) = SumOf(c, g)
  BY <1>1, <1>2, <1>3, SumSame
<1>8. \A w : SumOf(Signed(w), g) = SumOf(s(w), g)
  BY <1>1, <1>2, <1>3, SumSame
<1>9. SumOf(Ones, g) = Cardinality(g) * 1 /\ Cardinality(g) \in Nat
  BY <1>1, <1>2, SumConstant, FS_CardinalityType
<1>10. SumOf(Ones, g) = Cardinality(g)
  BY <1>9
<1> QED BY <1>1, <1>4, <1>5, <1>6, <1>7, <1>8, <1>10

(* The answers the properties ask for.                                     *)
LEMMA Answers ==
  ASSUME NEW w
  PROVE  /\ Ask("portfolio/history", w) = PortfolioHistory(table, w, 30, 100)
         /\ Ask("portfolio/snapshot", w) = PortfolioSnapshot(table, w)
         /\ Ask("events/fills", w) = FillsWithIntent(table, {}, w, LongestPage)
         /\ Ask("events/cost-basis", w) = CostBasis(table, w)
         /\ Ask("events/market-vwaps", w) = MarketVwaps(table)
BY DEF Ask, Answer, LongestPage

(* One row a day: the rows' costs and counts are those of the fills.       *)
LEMMA HistorySums ==
  ASSUME TableOK, NEW w
  PROVE  LET history == PortfolioHistory(table, w, 30, 100) IN
         /\ SumOver(history, LAMBDA d : d.netCostBasis) = SumOf(Signed(w), FillsOf(table, w))
         /\ SumOver(history, LAMBDA d : d.fillCount) = Cardinality(FillsOf(table, w))
<1> DEFINE K == FillsOf(table, w)
           key == [r \in K |-> DayOf(r.event.timestamp)]
           V == {DayOf(r.event.timestamp) : r \in K}
           group == [d \in V |-> {r \in K : DayOf(r.event.timestamp) = d}]
           rec == [d \in V |-> DaySummary(d, group[d], w)]
           history == {DaySummary(d, {r \in K : DayOf(r.event.timestamp) = d}, w) : d \in V}
           net == [h \in history |-> h.netCostBasis]
           count == [h \in history |-> h.fillCount]
<1>1. K \in SUBSET Fills /\ \A r \in Fills : r.event.timestamp \in Nat
  BY DEF FillsOf, Fills, TableOK, FillEvent
<1>2. PortfolioHistory(table, w, 30, 100) = history
  <2>1. \A r \in K : r.event.timestamp >= 100 - 48 * 30
    BY <1>1
  <2>2. {r \in K : r.event.timestamp >= 100 - 48 * 30} = K
    BY <2>1
  <2> QED BY <2>2 DEF PortfolioHistory
<1>3. \A d \in V : group[d] \in SUBSET Fills
  BY <1>1
<1>4. \A u, v \in V : rec[u] = rec[v] => u = v
  <2>1. \A d \in V : rec[d].date = d
    BY DEF DaySummary
  <2> HIDE DEF rec, V
  <2> QED BY <2>1
<1>5. \A d \in V : net[rec[d]] = SumOf(Signed(w), group[d]) /\ count[rec[d]] = SumOf(Ones, group[d])
  <2> TAKE d \in V
  <2>1. rec[d] \in history /\ rec[d] = DaySummary(d, group[d], w)
    OBVIOUS
  <2>2. net[rec[d]] = SumOver(group[d], LAMBDA r : SignedCost(r, w)) /\ count[rec[d]] = Cardinality(group[d])
    <3> HIDE DEF history, rec, V, group, K
    <3> QED BY <2>1 DEF DaySummary
  <2> HIDE DEF group, net, count
  <2> QED BY <1>3, <2>2, GroupSums
<1>6. IsFiniteSet(K) /\ Ints(Signed(w), K) /\ Ints(Ones, K) /\ SumOf(Ones, K) = Cardinality(K)
  <2> HIDE DEF K
  <2> QED BY <1>1, GroupSums, Terms DEF Ints
<1>9. /\ \A r \in K : key[r] \in V
      /\ \A v \in V : group[v] \subseteq K /\ \A r \in K : r \in group[v] <=> key[r] = v
      /\ \A v \in V : rec[v] \in history
      /\ \A x \in history : \E v \in V : x = rec[v]
  OBVIOUS
<1>10. IsFiniteSet(V)
  <2>1. V = {key[r] : r \in K}
    OBVIOUS
  <2> HIDE DEF V, key
  <2> QED BY <1>6, <2>1, ValuesFinite
<1> HIDE DEF K, key, V, rec, group, net, count, history
<1>11. /\ Grouped(K, key, V, group, rec, history)
       /\ Reports(net, Signed(w), V, group, rec) /\ Reports(count, Ones, V, group, rec)
  BY <1>4, <1>5, <1>6, <1>9, <1>10 DEF Grouped, Reports
<1>7. SumOf(net, history) = SumOf(Signed(w), K) /\ SumOf(count, history) = SumOf(Ones, K)
  BY <1>6, <1>11, SumGrouped
<1>8. /\ SumOver(history, LAMBDA d : d.netCostBasis) = SumOf(net, history)
      /\ SumOver(history, LAMBDA d : d.fillCount) = SumOf(count, history)
  BY Zenon DEF SumOver, SumFunction, SumOf, net, count
<1> QED BY <1>2, <1>6, <1>7, <1>8 DEF K

(* Rows by market and side: their quantities and counts are those of the   *)
(* fills.                                                                  *)
LEMMA SnapshotSums ==
  ASSUME TableOK, NEW w
  PROVE  LET positions == PortfolioSnapshot(table, w) IN
         /\ SumOver(positions, LAMBDA p : p.totalQuantity) = SumOf(Qty, FillsOf(table, w))
         /\ SumOver(positions, LAMBDA p : p.fillCount) = Cardinality(FillsOf(table, w))
<1> DEFINE K == FillsOf(table, w)
           key == [r \in K |-> <<r.event.market, SideOf(r, w)>>]
           V == {<<r.event.market, SideOf(r, w)>> : r \in K}
           group == [v \in V |-> {r \in K : <<r.event.market, SideOf(r, w)>> = v}]
           rec == [v \in V |-> Totals(v[1], v[2], group[v])]
           positions == {Totals(v[1], v[2], {r \in K : <<r.event.market, SideOf(r, w)>> = v}) : v \in V}
           volume == [x \in positions |-> x.totalQuantity]
           count == [x \in positions |-> x.fillCount]
<1>1. K \in SUBSET Fills
  BY DEF FillsOf, Fills
<1>2. PortfolioSnapshot(table, w) = positions
  BY DEF PortfolioSnapshot
<1>3. \A v \in V : group[v] \in SUBSET Fills
  BY <1>1
<1>4. \A u, v \in V : rec[u] = rec[v] => u = v
  <2>1. \A v \in V : rec[v].market = v[1] /\ rec[v].side = v[2] /\ v = <<v[1], v[2]>>
    BY DEF Totals
  <2> HIDE DEF rec, V
  <2> QED BY <2>1
<1>5. \A v \in V : volume[rec[v]] = SumOf(Qty, group[v]) /\ count[rec[v]] = SumOf(Ones, group[v])
  <2> TAKE v \in V
  <2>1. rec[v] \in positions /\ rec[v] = Totals(v[1], v[2], group[v])
    OBVIOUS
  <2>2. volume[rec[v]] = Quantity(group[v]) /\ count[rec[v]] = Cardinality(group[v])
    <3> HIDE DEF positions, rec, V, group, K
    <3> QED BY <2>1 DEF Totals
  <2> HIDE DEF group, volume, count
  <2> QED BY <1>3, <2>2, GroupSums
<1>6. IsFiniteSet(K) /\ Ints(Qty, K) /\ Ints(Ones, K) /\ SumOf(Ones, K) = Cardinality(K)
  <2> HIDE DEF K
  <2> QED BY <1>1, GroupSums, Terms DEF Ints
<1>9. /\ \A r \in K : key[r] \in V
      /\ \A v \in V : group[v] \subseteq K /\ \A r \in K : r \in group[v] <=> key[r] = v
      /\ \A v \in V : rec[v] \in positions
      /\ \A x \in positions : \E v \in V : x = rec[v]
  OBVIOUS
<1>10. IsFiniteSet(V)
  <2>1. V = {key[r] : r \in K}
    OBVIOUS
  <2> HIDE DEF V, key
  <2> QED BY <1>6, <2>1, ValuesFinite
<1> HIDE DEF K, key, V, rec, group, volume, count, positions
<1>11. /\ Grouped(K, key, V, group, rec, positions)
       /\ Reports(volume, Qty, V, group, rec) /\ Reports(count, Ones, V, group, rec)
  BY <1>4, <1>5, <1>6, <1>9, <1>10 DEF Grouped, Reports
<1>7. SumOf(volume, positions) = SumOf(Qty, K) /\ SumOf(count, positions) = SumOf(Ones, K)
  BY <1>6, <1>11, SumGrouped
<1>8. /\ SumOver(positions, LAMBDA p : p.totalQuantity) = SumOf(volume, positions)
      /\ SumOver(positions, LAMBDA p : p.fillCount) = SumOf(count, positions)
  BY Zenon DEF SumOver, SumFunction, SumOf, volume, count
<1> QED BY <1>2, <1>6, <1>7, <1>8 DEF K

(* Rows by market: their volumes are those of all fills.                   *)
LEMMA VwapSums ==
  ASSUME TableOK
  PROVE  TotalVolume = SumOf(Qty, Fills)
<1> DEFINE key == [r \in Fills |-> r.event.market]
           V == MarketsOf(Fills)
           group == [m \in V |-> {r \in Fills : r.event.market = m}]
           rec == [m \in V |-> [market |-> m, sum |-> Cost(group[m]), totalVolume |-> Quantity(group[m]),
                                fillCount |-> Cardinality(group[m])]]
           vwaps == MarketVwaps(table)
           volume == [x \in vwaps |-> x.totalVolume]
<1>2. vwaps = {rec[m] : m \in V}
  <2>1. \A m \in V : rec[m] = LET g == {r \in Fills : r.event.market = m} IN
                               [market |-> m, sum |-> Cost(g), totalVolume |-> Quantity(g),
                                fillCount |-> Cardinality(g)]
    OBVIOUS
  <2> HIDE DEF rec, group
  <2> QED BY <2>1 DEF MarketVwaps, Fills
<1>3. \A m \in V : group[m] \in SUBSET Fills
  OBVIOUS
<1>4. \A u, v \in V : rec[u] = rec[v] => u = v
  <2>1. \A v \in V : rec[v].market = v
    OBVIOUS
  <2> HIDE DEF rec, V
  <2> QED BY <2>1
<1>5. \A v \in V : volume[rec[v]] = SumOf(Qty, group[v])
  <2> TAKE v \in V
  <2>1. rec[v] \in vwaps /\ rec[v].totalVolume = Quantity(group[v])
    <3> HIDE DEF vwaps, V, group
    <3> QED BY <1>2
  <2>2. volume[rec[v]] = Quantity(group[v])
    <3> HIDE DEF vwaps, rec, V, group
    <3> QED BY <2>1
  <2> HIDE DEF group, volume
  <2> QED BY <1>3, <2>2, GroupSums
<1>6. IsFiniteSet(Fills) /\ Ints(Qty, Fills)
  BY Terms
<1>9. /\ \A r \in Fills : key[r] \in V
      /\ \A v \in V : group[v] \subseteq Fills /\ \A r \in Fills : r \in group[v] <=> key[r] = v
  BY DEF MarketsOf
<1>10. /\ \A v \in V : rec[v] \in vwaps
       /\ \A x \in vwaps : \E v \in V : x = rec[v]
       /\ IsFiniteSet(V)
  <2>1. V = {key[r] : r \in Fills}
    BY DEF MarketsOf
  <2> HIDE DEF V, key, rec, vwaps
  <2> QED BY <1>2, <1>6, <2>1, ValuesFinite
<1> HIDE DEF key, V, rec, group, volume, vwaps
<1>12. Grouped(Fills, key, V, group, rec, vwaps) /\ Reports(volume, Qty, V, group, rec)
  BY <1>4, <1>5, <1>6, <1>9, <1>10 DEF Grouped, Reports
<1>7. SumOf(volume, vwaps) = SumOf(Qty, Fills)
  BY <1>6, <1>12, SumGrouped
<1>8. SumOver(vwaps, LAMBDA v : v.totalVolume) = SumOf(volume, vwaps)
  BY Zenon DEF SumOver, SumFunction, SumOf, volume
<1>11. TotalVolume = SumOver(vwaps, LAMBDA v : v.totalVolume)
  BY Answers DEF TotalVolume, vwaps
<1> QED BY <1>7, <1>8, <1>11

(* What each side of a fill pays for it.                                   *)
CostAs(side) == [r \in Fills |-> IF r.event[side] = YesAsk THEN -Paid[r] ELSE Paid[r]]

Takers == [r \in Fills |-> r.event.taker]
Makers == [r \in Fills |-> r.event.maker]
Parts == [w \in Wallets |-> FillsOf(table, w)]

(* Without trades of a wallet with itself a fill is in two histories.      *)
LEMMA BothSides ==
  ASSUME TableOK, NoSelfTrade
  PROVE  TwoOwners(Fills, Takers, Makers, Wallets, Parts)
<1>1. IsFiniteSet(Fills) /\ IsFiniteSet(Wallets)
  BY Terms, QueryAssumption
<1>2. \A r \in Fills : Takers[r] \in Wallets /\ Makers[r] \in Wallets /\ Takers[r] # Makers[r]
  BY DEF TableOK, Fills, FillEvent, NoSelfTrade, Takers, Makers
<1>3. \A w \in Wallets : Parts[w] \subseteq Fills
        /\ \A r \in Fills : r \in Parts[w] <=> Takers[r] = w \/ Makers[r] = w
  BY DEF Parts, FillsOf, Fills, IsTaker, IsMaker, Takers, Makers
<1> QED BY <1>1, <1>2, <1>3 DEF TwoOwners

(* What one side of a fill pays the other gets.                            *)
LEMMA NetCost == TableOK => NetCostIsZeroSum
<1> SUFFICES ASSUME TableOK, NoSelfTrade
             PROVE  SumOver(Wallets, LAMBDA w :
                      SumOver(Ask("portfolio/history", w), LAMBDA d : d.netCostBasis)) = 0
  BY DEF NetCostIsZeroSum
<1> DEFINE net == [w \in Wallets |-> SumOver(Ask("portfolio/history", w), LAMBDA d : d.netCostBasis)]
           own == [w \in Wallets |-> Signed(w)]
           taken == CostAs("takerSide")
           made == CostAs("makerSide")
           none == [r \in Fills |-> 0]
<1>1. \A w \in Wallets : net[w] = SumOf(own[w], Parts[w])
  <2> TAKE w \in Wallets
  <2>1. net[w] = SumOver(PortfolioHistory(table, w, 30, 100), LAMBDA d : d.netCostBasis)
    BY Answers
  <2>2. own[w] = Signed(w) /\ Parts[w] = FillsOf(table, w)
    BY DEF Parts
  <2> HIDE DEF net, own
  <2> QED BY <2>1, <2>2, HistorySums
<1>2. /\ Ints(taken, Fills) /\ Ints(made, Fills)
      /\ \A r \in Fills : none[r] = taken[r] + made[r]
  <2> SUFFICES ASSUME NEW r \in Fills
               PROVE  taken[r] \in Int /\ made[r] \in Int /\ none[r] = taken[r] + made[r]
    BY DEF Ints
  <2>1. Paid[r] \in Int /\ (r.event.makerSide = YesAsk <=> r.event.takerSide # YesAsk)
    BY Terms DEF TableOK, Fills, FillEvent, Ints
  <2> QED BY <2>1 DEF CostAs
<1>3. Shares(own, taken, made, Takers, Wallets, Parts)
  <2> SUFFICES ASSUME NEW w \in Wallets, NEW r \in Parts[w]
               PROVE  own[w][r] = IF Takers[r] = w THEN taken[r] ELSE made[r]
    BY DEF Shares
  <2>1. r \in Fills /\ (IsTaker(r, w) \/ IsMaker(r, w)) /\ ~(IsTaker(r, w) /\ IsMaker(r, w))
    BY DEF Parts, FillsOf, Fills, NoSelfTrade, IsTaker, IsMaker
  <2>2. own[w][r] = SignedCost(r, w) /\ Paid[r] = r.event.quantity * r.event.price
    BY <2>1 DEF Signed, Paid
  <2>3. IsTaker(r, w) <=> Takers[r] = w
    BY <2>1 DEF Takers, IsTaker
  <2> QED BY <2>1, <2>2, <2>3 DEF SignedCost, CostAs
<1> HIDE DEF net, own, taken, made
<1>4. SumOf(net, Wallets) = SumOf(taken, Fills) + SumOf(made, Fills)
  BY <1>1, <1>2, <1>3, BothSides, SumTwoOwners
<1>5. SumOf(none, Fills) = 0
  BY Terms, SumZero
<1> HIDE DEF none
<1>6. SumOf(none, Fills) = SumOf(taken, Fills) + SumOf(made, Fills)
  BY <1>2, Terms, SumPlus
<1>7. SumOver(Wallets, LAMBDA w :
        SumOver(Ask("portfolio/history", w), LAMBDA d : d.netCostBasis)) = SumOf(net, Wallets)
  BY Zenon DEF SumOver, SumFunction, SumOf, net
<1> QED BY <1>4, <1>5, <1>6, <1>7

(* Both sides of a fill have its quantity in their positions.              *)
LEMMA PositionsCountTwice ==
  ASSUME TableOK, NoSelfTrade
  PROVE  SumOver(Wallets, LAMBDA w : SumOver(Ask("portfolio/snapshot", w), LAMBDA p : p.totalQuantity))
           = 2 * TotalVolume
<1> DEFINE held == [w \in Wallets |-> SumOver(Ask("portfolio/snapshot", w), LAMBDA p : p.totalQuantity)]
           own == [w \in Wallets |-> Qty]
<1>1. \A w \in Wallets : held[w] = SumOf(own[w], Parts[w])
  <2> TAKE w \in Wallets
  <2>1. held[w] = SumOver(PortfolioSnapshot(table, w), LAMBDA p : p.totalQuantity)
    BY Answers
  <2>2. own[w] = Qty /\ Parts[w] = FillsOf(table, w)
    BY DEF Parts
  <2> HIDE DEF held, own
  <2> QED BY <2>1, <2>2, SnapshotSums
<1>2. Shares(own, Qty, Qty, Takers, Wallets, Parts)
  BY DEF Shares
<1> HIDE DEF held, own
<1>3. Ints(Qty, Fills) /\ SumOf(Qty, Fills) \in Int
  BY Terms, SumInt
<1>4. SumOf(held, Wallets) = SumOf(Qty, Fills) + SumOf(Qty, Fills)
  BY <1>1, <1>2, <1>3, BothSides, SumTwoOwners
<1>5. TotalVolume = SumOf(Qty, Fills)
  BY VwapSums
<1>6. SumOver(Wallets, LAMBDA w : SumOver(Ask("portfolio/snapshot", w), LAMBDA p : p.totalQuantity))
        = SumOf(held, Wallets)
  BY Zenon DEF SumOver, SumFunction, SumOf, held
<1> QED BY <1>3, <1>4, <1>5, <1>6

(* A page that is long enough holds all rows.                              *)
LEMMA NewestIsAll ==
  ASSUME NEW K, IsFiniteSet(K), NEW limit \in Nat, Cardinality(K) <= limit
  PROVE  NewestRows(K, limit) = K
<1> SUFFICES ASSUME NEW r \in K
             PROVE  Cardinality({s \in K \ {r} : Newer(s, r)}) < limit
  BY DEF NewestRows
<1> DEFINE others == K \ {r}
           newer == {s \in others : Newer(s, r)}
<1>1. IsFiniteSet(others) /\ Cardinality(others) = Cardinality(K) - 1
  BY FS_RemoveElement
<1>2. newer \subseteq others
  OBVIOUS
<1> HIDE DEF others, newer
<1>3. Cardinality(newer) <= Cardinality(others) /\ Cardinality(newer) \in Nat
  BY <1>1, <1>2, FS_Subset, FS_CardinalityType
<1>4. Cardinality(K) \in Nat
  BY FS_CardinalityType
<1>5. Cardinality(newer) < limit
  BY <1>1, <1>3, <1>4
<1> QED BY <1>5 DEF newer, others

(* The list of fills has each of them once, whatever its label.            *)
LEMMA FillsListed ==
  ASSUME TableOK, NEW w, Cardinality(FillsOf(table, w)) <= LongestPage
  PROVE  Cardinality(FillsWithIntent(table, {}, w, LongestPage)) = Cardinality(FillsOf(table, w))
<1> DEFINE K == FillsOf(table, w)
           view == [r \in K |-> [row |-> r, viewerIntent |-> ViewerIntent(r, {}, w)]]
<1>1. FillsWithIntent(table, {}, w, LongestPage) = {view[r] : r \in K}
  <2>1. IsFiniteSet(K)
    BY Terms, FS_Subset DEF FillsOf, Fills
  <2>2. NewestRows(FillsOf(table, w), LongestPage) = FillsOf(table, w)
    BY <2>1, NewestIsAll DEF LongestPage
  <2> QED BY <2>2 DEF FillsWithIntent
<1>2. \A r, s \in K : view[r] = view[s] => r = s
  <2>1. \A r \in K : view[r].row = r
    OBVIOUS
  <2> HIDE DEF view, K
  <2> QED BY <2>1
<1>3. IsFiniteSet(K)
  BY Terms, FS_Subset DEF FillsOf, Fills
<1> HIDE DEF view, K
<1>4. Cardinality({view[r] : r \in K}) = Cardinality(K)
  BY <1>2, <1>3, CardImage
<1> QED BY <1>1, <1>4 DEF K

(* The cost basis is the positions without the sales of Yes tokens.        *)
LEMMA BasisOfPositions ==
  ASSUME TableOK, NoSelfTrade, NEW w
  PROVE  {<<b.market, b.side, b.totalQuantity, b.totalCost>> : b \in CostBasis(table, w)}
         = {<<p.market, IF p.side = UsdcBid THEN "yes" ELSE "no", p.totalQuantity, p.totalCost>> :
              p \in {x \in PortfolioSnapshot(table, w) : x.side # YesAsk}}
<1> DEFINE K == FillsOf(table, w)
           acquired == {r \in Fills : AcquiredSide(r, w) # "none"}
           named(side) == IF side = UsdcBid THEN "yes" ELSE "no"
           bought(r) == <<r.event.market, AcquiredSide(r, w)>>
           held(r) == <<r.event.market, SideOf(r, w)>>
           group(x) == {r \in K : held(r) = held(x)}
           line(r) == <<r.event.market, named(SideOf(r, w)), Quantity(group(r)), Cost(group(r))>>
           basis(p) == Totals(p[1], p[2], {r \in acquired : bought(r) = p})
           position(v) == Totals(v[1], v[2], {r \in K : held(r) = v})
<1>1. ASSUME NEW r \in Fills
      PROVE  /\ r \in acquired <=> r \in K /\ SideOf(r, w) # YesAsk
             /\ r \in acquired => AcquiredSide(r, w) = named(SideOf(r, w))
             /\ SideOf(r, w) \in Sides
  <2>1. /\ ~(IsTaker(r, w) /\ IsMaker(r, w))
        /\ r.event.takerSide \in Sides /\ r.event.makerSide \in Sides
        /\ r \in K <=> IsTaker(r, w) \/ IsMaker(r, w)
    BY DEF TableOK, FillEvent, NoSelfTrade, IsTaker, IsMaker, FillsOf, Fills
  <2> HIDE DEF K
  <2>2. CASE IsTaker(r, w)
    BY <2>1, <2>2 DEF AcquiredSide, SideOf, Sides, UsdcBid, YesAsk, NoBid
  <2>3. CASE IsMaker(r, w)
    BY <2>1, <2>3 DEF AcquiredSide, SideOf, Sides, UsdcBid, YesAsk, NoBid
  <2>4. CASE ~IsTaker(r, w) /\ ~IsMaker(r, w)
    BY <2>1, <2>4 DEF AcquiredSide, SideOf, Sides, UsdcBid, YesAsk, NoBid
  <2> QED BY <2>2, <2>3, <2>4
<1>2. K \subseteq Fills /\ acquired \subseteq Fills
  BY DEF FillsOf, Fills
<1>3. \A x \in acquired : {r \in acquired : bought(r) = bought(x)} = group(x)
  <2> SUFFICES ASSUME NEW x \in acquired, NEW r \in Fills
               PROVE  (r \in acquired /\ bought(r) = bought(x)) <=> (r \in K /\ held(r) = held(x))
    BY <1>2
  <2>1. \A s, t \in Sides \ {YesAsk} : named(s) = named(t) <=> s = t
    BY DEF Sides, UsdcBid, YesAsk, NoBid
  <2> HIDE DEF K, acquired, named
  <2> QED BY <1>1, <1>2, <2>1
<1>4. CostBasis(table, w) = {basis(p) : p \in {bought(r) : r \in acquired}}
  BY DEF CostBasis, Fills
<1>5. PortfolioSnapshot(table, w) = {position(v) : v \in {held(r) : r \in K}}
  BY DEF PortfolioSnapshot
<1>6. \A r \in acquired : LET b == basis(bought(r)) IN
        <<b.market, b.side, b.totalQuantity, b.totalCost>> = line(r)
  <2> TAKE r \in acquired
  <2>1. basis(bought(r)) = Totals(r.event.market, named(SideOf(r, w)), group(r))
    <3>1. bought(r)[1] = r.event.market /\ bought(r)[2] = named(SideOf(r, w))
      BY <1>1
    <3> HIDE DEF named, group, acquired, bought
    <3> QED BY <1>3, <3>1
  <2> HIDE DEF basis, group, named, bought, K, acquired
  <2> QED BY <2>1 DEF Totals
<1>7. \A r \in K : LET p == position(held(r)) IN
        /\ <<p.market, named(p.side), p.totalQuantity, p.totalCost>> = line(r)
        /\ p.side = SideOf(r, w)
  <2> TAKE r \in K
  <2>1. position(held(r)) = Totals(r.event.market, SideOf(r, w), group(r))
    OBVIOUS
  <2> HIDE DEF position, group, named, held, K
  <2> QED BY <2>1 DEF Totals
<1> HIDE DEF basis, position, line, bought, held, group
<1>8. \A y : y \in {<<b.market, b.side, b.totalQuantity, b.totalCost>> : b \in CostBasis(table, w)}
              <=> \E r \in acquired : y = line(r)
  BY <1>4, <1>6
<1>9. \A r \in K : r \in acquired <=> SideOf(r, w) # YesAsk
  BY <1>1, <1>2
<1>10. acquired \subseteq K
  BY <1>1, <1>2
<1> HIDE DEF K, acquired
<1>11. \A y : y \in {<<p.market, named(p.side), p.totalQuantity, p.totalCost>> :
                      p \in {x \in PortfolioSnapshot(table, w) : x.side # YesAsk}}
              <=> \E r \in acquired : y = line(r)
  BY <1>5, <1>7, <1>9, <1>10
<1> QED BY <1>8, <1>11

(* The pages of the portfolio agree.                                       *)
LEMMA PagesAgree == TableOK => PortfolioAgrees
<1> SUFFICES ASSUME TableOK, NoSelfTrade, NEW w
             PROVE  /\ SumOver(Ask("portfolio/snapshot", w), LAMBDA p : p.fillCount)
                        = SumOver(Ask("portfolio/history", w), LAMBDA p : p.fillCount)
                    /\ SumOver(Ask("portfolio/history", w), LAMBDA p : p.fillCount) <= LongestPage =>
                         SumOver(Ask("portfolio/history", w), LAMBDA p : p.fillCount)
                           = Cardinality(Ask("events/fills", w))
                    /\ {<<b.market, b.side, b.totalQuantity, b.totalCost>> :
                          b \in Ask("events/cost-basis", w)}
                       = {<<p.market, IF p.side = UsdcBid THEN "yes" ELSE "no", p.totalQuantity, p.totalCost>> :
                            p \in {x \in Ask("portfolio/snapshot", w) : x.side # YesAsk}}
  BY PositionsCountTwice DEF PortfolioAgrees
<1>1. Cardinality(FillsOf(table, w)) <= LongestPage =>
        Cardinality(Ask("events/fills", w)) = Cardinality(FillsOf(table, w))
  BY Answers, FillsListed
<1>2. /\ SumOver(Ask("portfolio/snapshot", w), LAMBDA p : p.fillCount) = Cardinality(FillsOf(table, w))
      /\ SumOver(Ask("portfolio/history", w), LAMBDA p : p.fillCount) = Cardinality(FillsOf(table, w))
  BY Answers, SnapshotSums, HistorySums
<1> QED BY <1>1, <1>2, Answers, BasisOfPositions

(* An average of prices is a price: of a ticker's fills, and of the index. *)
LEMMA IndexIsPrice ==
  ASSUME TableOK, NEW now
  PROVE  LET x == MeridianIndex(table, now) IN x.volume <= x.sum /\ x.sum <= 99 * x.volume
<1> DEFINE index == [t \in Mag7 |-> TickerIndex(table, t, now)]
           entries == {TickerIndex(table, t, now) : t \in Mag7}
           volume == [e \in entries |-> e.volume]
           sum == [e \in entries |-> e.sum]
           most == [e \in entries |-> 99 * e.volume]
<1>1. ASSUME NEW t \in Mag7
      PROVE  LET e == TickerIndex(table, t, now) IN
             e.volume \in Nat /\ e.sum \in Int /\ e.volume <= e.sum /\ e.sum <= 99 * e.volume
  <2>1. PICK used \in SUBSET Fills :
          TickerIndex(table, t, now)
            = [ticker |-> t, sum |-> IF Quantity(used) > 0 THEN Cost(used) ELSE 0,
               volume |-> Quantity(used), fillCount |-> Cardinality(used)]
    <3> DEFINE fills == {r \in FillRows(table) : r.event.market \in MarketsWith(t)}
               today == {r \in fills : TodayOpen(now) <= r.event.timestamp /\ r.event.timestamp <= now}
               last == IF Quantity(today) > 0 THEN today ELSE fills
    <3>1. last \in SUBSET Fills
      BY DEF Fills
    <3>2. TickerIndex(table, t, now)
            = [ticker |-> t, sum |-> IF Quantity(last) > 0 THEN Cost(last) ELSE 0,
               volume |-> Quantity(last), fillCount |-> Cardinality(last)]
      BY DEF TickerIndex
    <3> HIDE DEF last
    <3> QED BY <3>1, <3>2
  <2>2. /\ IsFiniteSet(used) /\ Nats(Qty, used) /\ Ints(Qty, used) /\ Ints(Paid, used)
        /\ \A r \in used : Qty[r] <= Paid[r] /\ Paid[r] <= 99 * Qty[r]
    BY GroupSums, Terms DEF Nats, Ints
  <2> DEFINE times == [r \in used |-> 99 * Qty[r]]
  <2>3. Ints(times, used) /\ \A r \in used : times[r] = 99 * Qty[r] /\ Paid[r] <= times[r]
    BY <2>2 DEF Ints
  <2> HIDE DEF times
  <2>4. SumOf(Qty, used) \in Nat /\ SumOf(Paid, used) \in Int
    BY <2>2, SumNat, SumInt
  <2>5. SumOf(Qty, used) <= SumOf(Paid, used)
    BY <2>2, SumLeq
  <2>6. SumOf(Paid, used) <= SumOf(times, used)
    BY <2>2, <2>3, SumLeq
  <2>7. SumOf(times, used) = 99 * SumOf(Qty, used)
    BY <2>2, <2>3, SumTimes
  <2>8. Quantity(used) = SumOf(Qty, used) /\ Cost(used) = SumOf(Paid, used)
    BY GroupSums
  <2> QED BY <2>1, <2>4, <2>5, <2>6, <2>7, <2>8
<1>2. IsFiniteSet(entries)
  <2>1. entries = {index[t] : t \in Mag7}
    OBVIOUS
  <2> HIDE DEF entries, index
  <2> QED BY <2>1, QueryAssumption, ValuesFinite
<1>3. /\ Ints(volume, entries) /\ Ints(sum, entries) /\ Ints(most, entries)
      /\ \A e \in entries : volume[e] <= sum[e] /\ sum[e] <= most[e] /\ most[e] = 99 * volume[e]
  BY <1>1 DEF Ints
<1>4. /\ SumOver(entries, LAMBDA e : e.volume) = SumOf(volume, entries)
      /\ SumOver(entries, LAMBDA e : e.sum) = SumOf(sum, entries)
  BY Zenon DEF SumOver, SumFunction, SumOf
<1>5. MeridianIndex(table, now) =
        IF SumOver(entries, LAMBDA e : e.volume) > 0
          THEN [sum |-> SumOver(entries, LAMBDA e : e.sum),
                volume |-> SumOver(entries, LAMBDA e : e.volume)]
          ELSE [sum |-> 50, volume |-> 1]
  BY DEF MeridianIndex
<1> HIDE DEF entries, volume, sum, most
<1>6. SumOf(volume, entries) \in Int /\ SumOf(sum, entries) \in Int
  BY <1>2, <1>3, SumInt
<1>7. SumOf(volume, entries) <= SumOf(sum, entries) /\ SumOf(sum, entries) <= SumOf(most, entries)
  BY <1>2, <1>3, SumLeq
<1>8. SumOf(most, entries) = 99 * SumOf(volume, entries)
  BY <1>2, <1>3, SumTimes
<1>9. MeridianIndex(table, now) =
        IF SumOf(volume, entries) > 0
          THEN [sum |-> SumOf(sum, entries), volume |-> SumOf(volume, entries)]
          ELSE [sum |-> 50, volume |-> 1]
  BY <1>4, <1>5
<1> QED BY <1>6, <1>7, <1>8, <1>9

(* A fill counts as one at most.                                           *)
LEMMA ConvictionBounds ==
  ASSUME TableOK, NEW r \in Fills
  PROVE  ConvictionRaw(r) \in Int /\ 0 <= ConvictionRaw(r) /\ ConvictionRaw(r) <= 50 * TradingWindow
<1> DEFINE left == (DayStart(r.event.timestamp) + CloseTime) - r.event.timestamp
           early == Clamp(left, 0, TradingWindow)
           sure == 50 - Distance(r.event.price, 50)
<1>5. ConvictionRaw(r) = early * sure
  BY DEF ConvictionRaw
<1>1. r.event.timestamp \in Int /\ r.event.price \in 1 .. 99 /\ EtOffset \in Int
  BY QueryAssumption DEF TableOK, Fills, FillEvent
<1>2. left \in Int
  <2>1. (r.event.timestamp + EtOffset) \div 48 \in Int
    BY <1>1
  <2> QED BY <1>1, <2>1 DEF DayStart, CloseTime
<1> HIDE DEF left
<1>3. early \in 0 .. 13 /\ TradingWindow = 13
  BY <1>2 DEF Clamp, TradingWindow, CloseTime, OpenTime
<1>4. sure \in 0 .. 50
  BY <1>1 DEF Distance
<1> HIDE DEF early, sure
<1>6. \A a \in 0 .. 13, b \in 0 .. 50 : a * b \in Int /\ 0 <= a * b /\ a * b <= 650
  <2> TAKE a \in 0 .. 13, b \in 0 .. 50
  <2>1. a * b <= 13 * b /\ 0 <= a * b
    OBVIOUS
  <2> QED BY <2>1
<1> QED BY <1>3, <1>4, <1>5, <1>6

(* A direction is as strong as its fills are many, at most.                *)
LEMMA StrengthBounds ==
  ASSUME TableOK, NEW now, NEW s \in SmartMoney(table, now)
  PROVE  s.strength \in 0 .. s.fillCount * 50 * TradingWindow
<1>1. PICK g \in SUBSET Fills : /\ s.strength = SumOver(g, ConvictionRaw)
                                /\ s.fillCount = Cardinality(g)
  <2> DEFINE direction(r) == IF r.event.takerSide = UsdcBid THEN "yes" ELSE "no"
             open == {m \in Markets : tickers[m] # NoTicker /\ m \notin MarketsOf(SettlementRows(table))}
             today == {r \in FillRows(table) : /\ r.event.market \in open
                                               /\ TodayOpen(now) <= r.event.timestamp
                                               /\ r.event.timestamp <= now}
             part(k) == {r \in today : tickers[r.event.market] = k[1] /\ direction(r) = k[2]}
  <2>1. \E k : s = [ticker |-> k[1], direction |-> k[2], strength |-> SumOver(part(k), ConvictionRaw),
                    fillCount |-> Cardinality(part(k))]
    BY DEF SmartMoney
  <2>2. \A k : part(k) \in SUBSET Fills
    BY DEF Fills
  <2> HIDE DEF part
  <2> QED BY <2>1, <2>2
<1> DEFINE weight == [r \in g |-> ConvictionRaw(r)]
           most == [r \in g |-> 650]
           none == [r \in g |-> 0]
<1>2. IsFiniteSet(g) /\ Cardinality(g) \in Nat
  BY GroupSums, FS_CardinalityType
<1>3. \A r \in g : ConvictionRaw(r) \in Int /\ 0 <= ConvictionRaw(r) /\ ConvictionRaw(r) <= 650
  BY ConvictionBounds DEF TradingWindow, CloseTime, OpenTime
<1>4. /\ Ints(weight, g) /\ Ints(most, g) /\ Nats(weight, g)
      /\ \A r \in g : weight[r] <= most[r] /\ most[r] = 650
  BY <1>3 DEF Ints, Nats
<1>5. SumOver(g, ConvictionRaw) = SumOf(weight, g)
  BY Zenon DEF SumOver, SumFunction, SumOf
<1> HIDE DEF weight, most
<1>6. SumOf(weight, g) \in Nat
  BY <1>2, <1>4, SumNat
<1>7. SumOf(weight, g) <= SumOf(most, g)
  BY <1>2, <1>4, SumLeq
<1>8. SumOf(most, g) = Cardinality(g) * 650
  BY <1>2, <1>4, SumConstant
<1>9. s.fillCount * 50 * TradingWindow = Cardinality(g) * 650
  BY <1>1, <1>2 DEF TradingWindow, CloseTime, OpenTime
<1> QED BY <1>1, <1>2, <1>5, <1>6, <1>7, <1>8, <1>9

(* What a fill adds to the score of its taker.                             *)
Scores == [r \in Fills |-> ScoreFill(r, FirstSettlement(table, r.event.market).event.outcome)]

LEMMA ScoreTerms ==
  ASSUME TableOK, NEW g \in SUBSET Fills
  PROVE  /\ IsFiniteSet(g) /\ Ints(Scores, g)
         /\ ScoreOf(table, g).sum = SumOf(Scores, g)
         /\ ScoreOf(table, g).trades = Cardinality(g)
         /\ ScoreOf(table, g).wins \in Nat
         /\ ScoreOf(table, g).wins <= Cardinality(g)
         /\ ScoreOf(table, g).wins = 0 => SumOf(Scores, g) <= 0
<1> DEFINE outcome(r) == FirstSettlement(table, r.event.market).event.outcome
           won == {r \in g : Correct(r.event.takerSide, outcome(r))}
           term == [r \in g |-> ScoreFill(r, outcome(r))]
           none == [r \in g |-> 0]
<1>1. IsFiniteSet(g)
  BY GroupSums
<1>2. \A r \in Fills : Scores[r] = ScoreFill(r, outcome(r))
  BY DEF Scores
<1> HIDE DEF outcome
<1>3. ASSUME NEW r \in Fills
      PROVE  /\ Scores[r] \in Int
             /\ ~Correct(r.event.takerSide, outcome(r)) => Scores[r] <= 0
  <2>1. ConvictionRaw(r) \in Int /\ 0 <= ConvictionRaw(r)
    BY ConvictionBounds
  <2> QED BY <1>2, <2>1 DEF ScoreFill
<1>4. Ints(Scores, g) /\ Ints(none, g) /\ (\A r \in g : Scores[r] = term[r]) /\ \A r \in g : none[r] = 0
  BY <1>2, <1>3 DEF Ints
<1>5. ScoreOf(table, g).sum = SumOf(term, g)
  BY Zenon DEF ScoreOf, SumOver, SumFunction, SumOf, outcome
<1>6. ScoreOf(table, g).trades = Cardinality(g) /\ ScoreOf(table, g).wins = Cardinality(won)
  BY DEF ScoreOf, outcome
<1>7. IsFiniteSet(won) /\ Cardinality(won) \in Nat /\ Cardinality(won) <= Cardinality(g)
  BY <1>1, FS_Subset, FS_CardinalityType
<1>8. SumOf(Scores, g) = SumOf(term, g)
  <2> HIDE DEF term
  <2> QED BY <1>1, <1>4, SumSame
<1>9. ASSUME Cardinality(won) = 0 PROVE SumOf(Scores, g) <= 0
  <2>1. won = {}
    <3> HIDE DEF won
    <3> QED BY <1>7, <1>9, FS_EmptySet
  <2>2. \A r \in g : Scores[r] <= none[r]
    BY <1>3, <2>1
  <2> HIDE DEF none
  <2>3. SumOf(Scores, g) <= SumOf(none, g) /\ SumOf(none, g) = 0
    BY <1>1, <1>4, <2>2, SumLeq, SumZero
  <2> QED BY <2>3
<1> HIDE DEF won, term
<1> QED BY <1>1, <1>4, <1>5, <1>6, <1>7, <1>8, <1>9

(* The scores of the tickers add up to the score.                          *)
LEMMA ScoresAddUp ==
  ASSUME TableOK, NEW w
  PROVE  LET all == ConvictionScore(table, w)
             parts == ScoreByTicker(table, w)
         IN /\ all.sum = SumOver(DOMAIN parts, LAMBDA t : parts[t].sum)
            /\ all.wins <= all.trades
            /\ all.wins = 0 => all.sum <= 0
<1> DEFINE K == ScoredFills(table, w)
           key == [r \in K |-> tickers[r.event.market]]
           V == {tickers[r.event.market] : r \in K}
           group == [t \in V |-> {r \in K : tickers[r.event.market] = t}]
           rec == [t \in V |-> t]
           parts == ScoreByTicker(table, w)
           sum == [t \in V |-> parts[t].sum]
<1>1. K \in SUBSET Fills
  BY DEF ScoredFills, Fills
<1>2. /\ DOMAIN parts = V
      /\ \A t \in V : parts[t] = ScoreOf(table, group[t])
  BY DEF ScoreByTicker
<1>3. ConvictionScore(table, w) = ScoreOf(table, K)
  BY DEF ConvictionScore
<1>4. \A t \in V : group[t] \in SUBSET Fills
  BY <1>1
<1>5. \A t \in V : sum[rec[t]] = parts[t].sum
  OBVIOUS
<1>6. /\ \A r \in K : key[r] \in V
      /\ \A t \in V : group[t] \subseteq K /\ \A r \in K : r \in group[t] <=> key[r] = t
      /\ \A t \in V : rec[t] \in V
      /\ \A t, u \in V : rec[t] = rec[u] => t = u
      /\ \A t \in V : \E u \in V : t = rec[u]
  OBVIOUS
<1>7. IsFiniteSet(K)
  <2> HIDE DEF K
  <2> QED BY <1>1, GroupSums
<1>8. IsFiniteSet(V)
  <2>1. V = {key[r] : r \in K}
    OBVIOUS
  <2> HIDE DEF V, key
  <2> QED BY <1>7, <2>1, ValuesFinite
<1>9. SumOver(V, LAMBDA t : parts[t].sum) = SumOf(sum, V)
  BY Zenon DEF SumOver, SumFunction, SumOf
<1> HIDE DEF K, key, V, group, rec, parts, sum
<1>10. Grouped(K, key, V, group, rec, V) /\ Reports(sum, Scores, V, group, rec)
  <2>1. \A t \in V : sum[rec[t]] = SumOf(Scores, group[t])
    BY <1>2, <1>4, <1>5, ScoreTerms
  <2> QED BY <1>6, <1>7, <1>8, <2>1 DEF Grouped, Reports
<1>11. Ints(Scores, K)
  BY <1>1, ScoreTerms
<1>12. SumOf(sum, V) = SumOf(Scores, K)
  BY <1>10, <1>11, SumGrouped
<1>13. /\ ScoreOf(table, K).sum = SumOf(Scores, K)
       /\ ScoreOf(table, K).trades = Cardinality(K)
       /\ ScoreOf(table, K).wins <= Cardinality(K)
       /\ ScoreOf(table, K).wins = 0 => SumOf(Scores, K) <= 0
  BY <1>1, ScoreTerms
<1>14. SumOver(DOMAIN parts, LAMBDA t : parts[t].sum) = SumOf(sum, V)
  BY <1>2, <1>9
<1> QED BY <1>3, <1>12, <1>13, <1>14 DEF parts

-----------------------------------------------------------------------------
(* Over any chain, in any state of the walk and the listener, what the     *)
(* wallets' histories say they paid adds up to nothing, for any number of  *)
(* wallets and with any fills in the history (queryPortfolioHistory of     *)
(* mapper.ts).                                                             *)
THEOREM HistoriesBalance == Spec => []NetCostIsZeroSum
<1>1. IndexerInv => NetCostIsZeroSum
  BY TableSound, NetCost
<1> QED BY <1>1, IndexerCorrect, PTL

(* The pages of the portfolio agree about every table the indexer can      *)
(* hold, the index is a price, no direction is stronger than its fills     *)
(* and the scores of a wallet's tickers add up (mapper.ts, signals.ts).    *)
THEOREM QueriesConsistent == Spec => []QueriesAgree
<1>1. TableOK => SignalsInRange
  BY IndexIsPrice, StrengthBounds, ScoresAddUp DEF SignalsInRange
<1>2. IndexerInv => QueriesAgree
  BY <1>1, TableSound, PagesAgree DEF QueriesAgree
<1> QED BY <1>2, IndexerCorrect, PTL
=============================================================================
