---------------------------- MODULE EventIndexer ----------------------------
(***************************************************************************)
(* The event indexer (services/event-indexer): a live listener and a       *)
(* backfill that copy the program's events into one SQLite database and    *)
(* move one checkpoint.  Node runs handlers one at a time, so the code     *)
(* between two awaits is one action; the database survives a crash, the    *)
(* listener's subscription and the walk of the backfill do not.            *)
(*                                                                         *)
(* The chain is the sequence of the program's transactions.  A             *)
(* transaction is named by its place in it, which stands for its signature *)
(* and its slot.                                                           *)
(***************************************************************************)
EXTENDS Integers, Sequences, FiniteSets, SequencesExt

CONSTANTS
  Txs,          (* the transactions that may land: [err, logs]             *)
  Known,        (* the event types of EVENT_TYPE_MAP                       *)
  Markets,
  TickerNames,
  BatchSize,    (* BATCH_SIZE, signatures of one listing                   *)
  Concurrency,  (* TX_FETCH_CONCURRENCY                                    *)
  Faults,       (* which of the faults below happen                        *)
  MaxTxs,       (* bound: transactions that land                           *)
  MaxFaults     (* bound: how many faults happen                           *)

AllFaults == {"lost", "late", "rpc", "crash"}

ASSUME IndexerAssumption ==
  /\ BatchSize \in Nat \ {0}
  /\ Concurrency \in Nat \ {0}
  /\ MaxTxs \in Nat
  /\ MaxFaults \in Nat
  /\ Faults \subseteq AllFaults

VARIABLES
  chain,        (* the transactions that landed, oldest first              *)
  running,      (* the service is up                                       *)
  subscribed,   (* the log subscription has reached the node               *)
  pending,      (* notifications on their way to the listener, unordered   *)
  table,        (* the rows of the table events                            *)
  tickers,      (* the table market_tickers: market -> ticker or Unknown   *)
  checkpoint,   (* last_signature, 0 before there is one                   *)
  walk,         (* the backfill's local variables                          *)
  lost,         (* transactions a fault has taken from the indexer         *)
  faults        (* faults so far                                           *)

database == <<table, tickers, checkpoint>>
vars == <<chain, running, subscribed, pending, database, walk, lost, faults>>

NoTicker == "none"
Landed == 1 .. Len(chain)

-----------------------------------------------------------------------------
(* Parsing: the events a transaction's log lines hold.  A line enters or   *)
(* leaves the program, or carries data; data outside of the program, or of *)
(* a type the indexer does not know, is skipped.                           *)
ReadLine(seen, line) ==
  IF line.is = "invoke" THEN [seen EXCEPT !.depth = @ + 1]
  ELSE IF line.is = "exit" THEN [seen EXCEPT !.depth = IF @ > 0 THEN @ - 1 ELSE 0]
  ELSE IF seen.depth > 0 /\ line.event.type \in Known
       THEN [seen EXCEPT !.events = Append(@, line.event)]
       ELSE seen

ParseEvents(logs) == FoldLeft(ReadLine, [depth |-> 0, events |-> <<>>], logs).events

EventsOf == [tx \in Txs |-> ParseEvents(tx.logs)]

(* The parser returns a list.                                              *)
ASSUME ParserAssumption ==
  \A tx \in Txs :
    /\ Len(EventsOf[tx]) \in Nat
    /\ DOMAIN EventsOf[tx] = 1 .. Len(EventsOf[tx])

(* *Slip*: every event of a transaction gets the same number.              *)
SeqNumberZero(events, k) == 0

(* The number of events of the same type and market before the k-th.       *)
SeqNumber(events, k) ==
  Cardinality({l \in 1 .. k - 1 : /\ events[l].type = events[k].type
                                  /\ events[l].market = events[k].market})

RowsOf(i) ==
  LET events == EventsOf[chain[i]] IN
  {[signature |-> i, place |-> k, seq |-> SeqNumber(events, k), event |-> events[k]] :
     k \in DOMAIN events}

HasEvents(i) == ~chain[i].err /\ RowsOf(i) # {}

SignatureExists(i) == \E r \in table : r.signature = i

(* The table's unique index.                                               *)
SameKey(r, s) ==
  /\ r.signature = s.signature
  /\ r.event.type = s.event.type
  /\ r.event.market = s.event.market
  /\ r.seq = s.seq

(* INSERT OR IGNORE: the first row of a key stays.                         *)
Inserted(i) ==
  {r \in RowsOf(i) :
     /\ \A s \in table : ~SameKey(r, s)
     /\ \A s \in RowsOf(i) : s.place < r.place => ~SameKey(r, s)}

(* What either path indexes: not a failed transaction, not one it has.     *)
ToIndex(sigs) == {i \in sigs : HasEvents(i) /\ ~SignatureExists(i)}

InsertEventsBatch(sigs) ==
  table' = table \cup UNION {Inserted(i) : i \in ToIndex(sigs)}

-----------------------------------------------------------------------------
Init ==
  /\ chain = <<>>
  /\ running = FALSE
  /\ subscribed = FALSE
  /\ pending = {}
  /\ table = {}
  /\ tickers = [m \in Markets |-> NoTicker]
  /\ checkpoint = 0
  /\ walk = [pc |-> "off", until |-> 0, before |-> MaxTxs + 1, newest |-> 0,
             queue |-> {}, failed |-> {}, last |-> FALSE, complete |-> FALSE]
  /\ lost = {}
  /\ faults = 0

(* *Slip*: the walk reads the checkpoint anew at each listing.             *)
UnlistedNow == {i \in Landed : checkpoint < i /\ i < walk.before}

(* What the walk has still to list.                                        *)
Unlisted == {i \in Landed : walk.until < i /\ i < walk.before}

(* What the running backfill will still look at.                           *)
Work ==
  walk.queue \cup walk.failed
    \cup (IF walk.pc = "list" \/ (walk.pc = "fetch" /\ ~walk.last) THEN Unlisted ELSE {})

Fault == faults < MaxFaults /\ faults' = faults + 1

(* A market that is settled is not traded and not settled again.           *)
Possible(tx) ==
  tx.err \/ \A k \in DOMAIN EventsOf[tx] : \A i \in Landed : \A l \in DOMAIN EventsOf[chain[i]] :
    chain[i].err \/ EventsOf[chain[i]][l].type # "settlement"
      \/ EventsOf[chain[i]][l].market # EventsOf[tx][k].market

(* A transaction lands.  The node notifies the listener if it subscribed;  *)
(* a service that runs, but did not get so far and has done its first      *)
(* listing, never hears of it.                                             *)
Land(tx) ==
  LET i == Len(chain) + 1
      heard == subscribed \/ ~running \/ (walk.pc = "list" /\ walk.before > MaxTxs)
  IN
  /\ Len(chain) < MaxTxs
  /\ Possible(tx)
  /\ chain' = Append(chain, tx)
  /\ pending' = IF subscribed THEN pending \cup {i} ELSE pending
  /\ lost' = IF heard THEN lost ELSE lost \cup {i}
  /\ IF heard THEN UNCHANGED faults ELSE "late" \in Faults /\ Fault
  /\ UNCHANGED <<running, subscribed, database, walk>>

(* main: the listener first, then the backfill, which reads the checkpoint *)
(* before any notification can move it.                                    *)
Start ==
  /\ ~running
  /\ running' = TRUE
  /\ walk' = [pc |-> "list", until |-> checkpoint, before |-> MaxTxs + 1, newest |-> 0,
              queue |-> {}, failed |-> {}, last |-> FALSE, complete |-> FALSE]
  /\ UNCHANGED <<chain, subscribed, pending, database, lost, faults>>

(* onLogs returns at once, the subscription comes later.                   *)
Subscribe ==
  /\ running
  /\ ~subscribed
  /\ subscribed' = TRUE
  /\ UNCHANGED <<chain, running, pending, database, walk, lost, faults>>

(* The callback of onLogs: the checkpoint moves also past a transaction    *)
(* without events, but not past one that failed or is known.               *)
Deliver(i) ==
  LET settled == {r \in RowsOf(i) : r.event.type = "settlement"} IN
  /\ running
  /\ i \in pending
  /\ pending' = pending \ {i}
  /\ InsertEventsBatch({i})
  /\ IF chain[i].err \/ SignatureExists(i)
       THEN UNCHANGED <<tickers, checkpoint>>
       ELSE /\ tickers' = [m \in Markets |->
                             IF \E r \in settled : r.event.market = m
                               THEN (CHOOSE r \in settled : r.event.market = m).event.ticker
                               ELSE tickers[m]]
            /\ checkpoint' = i
  /\ UNCHANGED <<chain, running, subscribed, walk, lost, faults>>

(* The connection drops a notification, or its handler throws: the code    *)
(* logs the error and goes on.                                             *)
Lose(i) ==
  /\ "lost" \in Faults
  /\ running
  /\ i \in pending
  /\ pending' = pending \ {i}
  /\ lost' = lost \cup {i}
  /\ Fault
  /\ UNCHANGED <<chain, running, subscribed, database, walk>>

(* The web's creation form tells the indexer the ticker of a new market.   *)
RegisterTicker(m, t) ==
  /\ running
  /\ tickers' = [tickers EXCEPT ![m] = t]
  /\ UNCHANGED <<chain, running, subscribed, pending, table, checkpoint, walk, lost, faults>>

-----------------------------------------------------------------------------
(* runBackfill                                                             *)

Newest(S, n) == {i \in S : Cardinality({j \in S : j > i}) < n}

(* *Slip*: the last checkpoint is taken from the cursor of the listing.    *)
EndWalkAtCursor(w, cp) ==
  IF w.failed # {}
    THEN /\ walk' = [w EXCEPT !.pc = "retry", !.queue = w.failed, !.failed = {}]
         /\ checkpoint' = cp
    ELSE /\ walk' = [w EXCEPT !.pc = "off", !.queue = {}]
         /\ checkpoint' = IF w.complete THEN w.before ELSE cp

(* The walk is over: retry what failed, or take the last checkpoint.       *)
EndWalk(w, cp) ==
  IF w.failed # {}
    THEN /\ walk' = [w EXCEPT !.pc = "retry", !.queue = w.failed, !.failed = {}]
         /\ checkpoint' = cp
    ELSE /\ walk' = [w EXCEPT !.pc = "off", !.queue = {}]
         /\ checkpoint' = IF w.complete /\ w.newest # 0 THEN w.newest ELSE cp

(* getSignaturesForAddress, newest first, down to the checkpoint the walk  *)
(* began with.                                                             *)
ListSignatures ==
  LET batch == Newest(Unlisted, BatchSize)
      short == Cardinality(batch) < BatchSize
      top   == CHOOSE i \in batch : \A j \in batch : j <= i
      oldest == CHOOSE i \in batch : \A j \in batch : i <= j
  IN
  /\ walk.pc = "list"
  /\ IF batch = {}
       THEN EndWalk([walk EXCEPT !.complete = TRUE], checkpoint)
       ELSE /\ walk' = [walk EXCEPT !.pc = "fetch", !.queue = batch, !.before = oldest,
                          !.newest = IF @ = 0 THEN top ELSE @,
                          !.last = short, !.complete = short]
            /\ UNCHANGED checkpoint
  /\ UNCHANGED <<chain, running, subscribed, pending, table, tickers, lost, faults>>

(* A listing that fails ends the walk.                                     *)
ListFails ==
  /\ "rpc" \in Faults
  /\ walk.pc = "list"
  /\ EndWalk(walk, checkpoint)
  /\ lost' = lost \cup Unlisted
  /\ Fault
  /\ UNCHANGED <<chain, running, subscribed, pending, table, tickers>>

(* *Slip*: only the failures of the last chunk are kept for the retry.     *)
FetchChunkForgets(bad) ==
  LET chunk == Newest(walk.queue, Concurrency)
      rest  == walk.queue \ chunk
      done  == [walk EXCEPT !.queue = rest, !.failed = bad]
  IN
  /\ walk.pc = "fetch"
  /\ bad \subseteq chunk
  /\ IF bad = {} THEN UNCHANGED faults ELSE "rpc" \in Faults /\ Fault
  /\ InsertEventsBatch(chunk \ bad)
  /\ IF rest # {}
       THEN walk' = done /\ UNCHANGED checkpoint
       ELSE IF walk.last
         THEN EndWalk(done, walk.newest)
         ELSE walk' = [done EXCEPT !.pc = "list"] /\ checkpoint' = walk.newest
  /\ UNCHANGED <<chain, running, subscribed, pending, tickers, lost>>

(* One chunk of processBatch: bad are the transactions the node did not    *)
(* return.  After the last chunk the incremental checkpoint is written.    *)
FetchChunk(bad) ==
  LET chunk == Newest(walk.queue, Concurrency)
      rest  == walk.queue \ chunk
      done  == [walk EXCEPT !.queue = rest, !.failed = @ \cup bad]
  IN
  /\ walk.pc = "fetch"
  /\ bad \subseteq chunk
  /\ IF bad = {} THEN UNCHANGED faults ELSE "rpc" \in Faults /\ Fault
  /\ InsertEventsBatch(chunk \ bad)
  /\ IF rest # {}
       THEN walk' = done /\ UNCHANGED checkpoint
       ELSE IF walk.last
         THEN EndWalk(done, walk.newest)
         ELSE walk' = [done EXCEPT !.pc = "list"] /\ checkpoint' = walk.newest
  /\ UNCHANGED <<chain, running, subscribed, pending, tickers, lost>>

(* The second attempt: what fails again is given up.                       *)
RetryChunk(bad) ==
  LET chunk == Newest(walk.queue, Concurrency)
      rest  == walk.queue \ chunk
  IN
  /\ walk.pc = "retry"
  /\ bad \subseteq chunk
  /\ IF bad = {} THEN UNCHANGED faults ELSE "rpc" \in Faults /\ Fault
  /\ InsertEventsBatch(chunk \ bad)
  /\ lost' = lost \cup bad
  /\ IF rest # {}
       THEN walk' = [walk EXCEPT !.queue = rest] /\ UNCHANGED checkpoint
       ELSE EndWalk([walk EXCEPT !.queue = {}], checkpoint)
  /\ UNCHANGED <<chain, running, subscribed, pending, tickers>>

(* The process ends: what lies behind the checkpoint without being indexed *)
(* is behind every later walk, too.                                        *)
Crash ==
  /\ "crash" \in Faults
  /\ running
  /\ Fault
  /\ running' = FALSE
  /\ subscribed' = FALSE
  /\ pending' = {}
  /\ walk' = [walk EXCEPT !.pc = "off", !.queue = {}, !.failed = {}]
  /\ lost' = lost \cup {i \in Landed : i <= checkpoint /\ HasEvents(i) /\ ~SignatureExists(i)}
  /\ UNCHANGED <<chain, database>>

-----------------------------------------------------------------------------
Backfill == ListSignatures \/ \E bad \in SUBSET walk.queue : FetchChunk(bad) \/ RetryChunk(bad)

Next ==
  \/ \E tx \in Txs : Land(tx)
  \/ Start
  \/ Subscribe
  \/ \E i \in pending : Deliver(i)
  \/ \E i \in pending : Lose(i)
  \/ \E m \in Markets, t \in TickerNames : RegisterTicker(m, t)
  \/ ListSignatures
  \/ ListFails
  \/ \E bad \in SUBSET walk.queue : FetchChunk(bad)
  \/ \E bad \in SUBSET walk.queue : RetryChunk(bad)
  \/ Crash

Spec == Init /\ [][Next]_vars

(* The service manager restarts the process, the node answers, and         *)
(* notifications that are not lost arrive.                                 *)
Progress == Start \/ Subscribe \/ Backfill \/ \E i \in pending : Deliver(i)

LiveSpec == Spec /\ WF_vars(Progress)

-----------------------------------------------------------------------------
Walk == [pc : {"off", "list", "fetch", "retry"}, until : 0 .. MaxTxs,
         before : 1 .. MaxTxs + 1, newest : 0 .. MaxTxs,
         queue : SUBSET (1 .. MaxTxs), failed : SUBSET (1 .. MaxTxs),
         last : BOOLEAN, complete : BOOLEAN]

(* The checkpoint, the notifications and the backfill's cursors name       *)
(* transactions that exist.                                                *)
TypeOK ==
  /\ chain \in Seq(Txs)
  /\ Len(chain) <= MaxTxs
  /\ running \in BOOLEAN
  /\ subscribed \in BOOLEAN
  /\ pending \subseteq Landed
  /\ checkpoint \in 0 .. Len(chain)
  /\ walk \in Walk
  /\ lost \subseteq Landed
  /\ faults \in Nat

Indexed(i) == ~HasEvents(i) \/ SignatureExists(i)

(* While the service runs, every event that landed is in the database, on  *)
(* its way to the listener or ahead of the backfill, unless a fault has    *)
(* taken it: listener, backfill and checkpoint together leave no gap of    *)
(* their own, in whatever order they run.  While it is down, the same      *)
(* holds of what lies behind the checkpoint, the rest is for the next walk.*)
OnlyFaultsLoseEvents ==
  \A i \in Landed :
    running \/ i <= checkpoint => Indexed(i) \/ i \in pending \/ i \in Work \/ i \in lost

(* A transaction is indexed as a whole or not at all: two fills of one     *)
(* order in the same market are both stored, although their signature, type*)
(* and market agree, and the unique index drops neither.                   *)
WholeTransactions ==
  \A i \in Landed :
    LET stored == {r \in table : r.signature = i} IN
    stored # {} => stored = RowsOf(i)

(* What no fault takes is indexed in the end.                              *)
EventuallyIndexed ==
  \A i \in 1 .. MaxTxs : i \in Landed ~> i \in Landed /\ (Indexed(i) \/ i \in lost)
=============================================================================
