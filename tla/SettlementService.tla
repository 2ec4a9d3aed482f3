--------------------------- MODULE SettlementService ---------------------------
(***************************************************************************)
(* The settlement service (services/settlement): a poller and an HTTP      *)
(* trigger that run the same cycle under one lock.  A cycle confirms the   *)
(* closing prices, writes them to the feeds, settles, pays out, closes,    *)
(* asks for the next markets and ends a pause.  Each RPC is an await, so   *)
(* two cycles, the feeder and the initializer may run in between.          *)
(***************************************************************************)
EXTENDS MarketInitializer

VARIABLES
  lock,       (* settlementLock                                            *)
  cycle,      (* the poller and the cycle of the trigger                   *)
  override,   (* marketStateOverride: "auto", "open" or "shut"             *)
  overtaken   (* a trigger took the lock while the poller was loading      *)

serviceVars == <<lock, cycle, override, overtaken>>

Callers == {"poll", "http"}
Resting(c) == IF c = "poll" THEN "asleep" ELSE "idle"
Phases == {"check", "confirm", "feeds", "settle", "redeem", "close", "init", "wait", "unpause"}

(* prev and price are the last poll and the prices it confirmed; polled:   *)
(* it has looked since time went on.                                       *)
NoCycle(c) == [pc |-> Resting(c), prev |-> [t \in Tickers |-> 0], price |-> [t \in Tickers |-> 0],
               polled |-> TRUE]

ServiceInit ==
  /\ lock = FALSE
  /\ cycle = [c \in Callers |-> NoCycle(c)]
  /\ override = "auto"
  /\ overtaken = FALSE

InCycle(c) == cycle[c].pc \in Phases
Confirmed(c) == {t \in Tickers : cycle[c].price[t] # 0}
Remaining(c) == Tickers \ Confirmed(c)
GoTo(c, pc) == cycle' = [cycle EXCEPT ![c].pc = pc]

(* *Slip*: only a cycle that comes to its end clears the lock.             *)
EndCycleKeepsLock(c) ==
  /\ lock' = (lock /\ cycle[c].pc # "unpause")
  /\ cycle' = [cycle EXCEPT ![c] = NoCycle(c)]
  /\ overtaken' = FALSE

(* The finally block: the lock is cleared, whoever holds it by now.        *)
EndCycle(c) ==
  /\ lock' = FALSE
  /\ cycle' = [cycle EXCEPT ![c] = NoCycle(c)]
  /\ overtaken' = (overtaken /\ \E d \in Callers \ {c} : InCycle(d))

-----------------------------------------------------------------------------
(* The poller looks at the lock, then loads all markets.                   *)
PollTest ==
  /\ cycle["poll"].pc = "asleep"
  /\ ~lock
  /\ GoTo("poll", "loading")
  /\ UNCHANGED <<chainVars, run, lock, override, overtaken>>

(* It takes the lock, without a second look, when there is work.           *)
PollLoaded ==
  /\ cycle["poll"].pc = "loading"
  /\ IF Expired # {}
       THEN GoTo("poll", "check") /\ lock' = TRUE /\ overtaken' = InCycle("http")
       ELSE cycle' = [cycle EXCEPT !["poll"] = NoCycle("poll")] /\ UNCHANGED <<lock, overtaken>>
  /\ UNCHANGED <<chainVars, run, override>>

(* *Slip*: the trigger does not look at the lock.                          *)
AdmittedAlways == cycle["http"].pc = "idle"

(* POST /trigger, unless it is answered with 409.                          *)
Admitted == ~lock

TakeTrigger ==
  /\ lock' = TRUE
  /\ GoTo("http", "check")

-----------------------------------------------------------------------------
(* confirmMarketClosed is skipped when a market expired two hours ago.     *)
Stale == \E m \in Expired : now - m.close > 120
ConfirmMarketClosed ==
  IF override = "auto" THEN MarketClock = "shut" ELSE override = "shut"

(* Quotes as one poll may see them: none in an outage, one wrong once.     *)
Polls(c) ==
  {q \in [Tickers -> Prices \cup {0}] :
     \A t \in Tickers : IF outage \/ t \notin Remaining(c) THEN q[t] = 0 ELSE q[t] # 0}
Honest(q) == \A t \in Tickers : q[t] = 0 \/ q[t] \in Quoted(t)
ReadAs(q) == IF Honest(q) THEN UNCHANGED faults ELSE Fault("quote")

(* The check of the exchange, then the first poll.                         *)
CheckClosed(c, q) ==
  /\ cycle[c].pc = "check"
  /\ Stale \/ ConfirmMarketClosed
  /\ q \in Polls(c)
  /\ ReadAs(q)
  /\ cycle' = [cycle EXCEPT ![c].pc = "confirm", ![c].prev = q, ![c].polled = TRUE]
  /\ UNCHANGED <<accounts, now, closing, outage, run, lock, override, overtaken>>

AbortOpen(c) ==
  /\ cycle[c].pc = "check"
  /\ ~(Stale \/ ConfirmMarketClosed)
  /\ EndCycle(c)
  /\ UNCHANGED <<chainVars, run, override>>

(* *Slip*: a price is confirmed the first time it is seen.                 *)
MatchesAny(prev, q, t) == q[t] # 0

(* doubleConfirmPrices: two polls in a row with the same price.            *)
Matches(prev, q, t) == prev[t] # 0 /\ q[t] # 0 /\ prev[t] = q[t]

PollAgain(c, q) ==
  LET price == [t \in Tickers |-> IF Matches(cycle[c].prev, q, t) THEN q[t] ELSE cycle[c].price[t]]
      done  == \A t \in Tickers : price[t] # 0
  IN
  /\ cycle[c].pc = "confirm"
  /\ q \in Polls(c)
  /\ ReadAs(q)
  /\ cycle' = [cycle EXCEPT ![c].pc = IF done THEN "feeds" ELSE "confirm",
                            ![c].prev = q, ![c].price = price, ![c].polled = TRUE]
  /\ UNCHANGED <<accounts, now, closing, outage, run, lock, override, overtaken>>

(* Half an hour without two equal polls: only while prices move or are not *)
(* to be had; what takes seconds is over by then.                          *)
ConfirmTimesOut(c) ==
  /\ cycle[c].pc = "confirm"
  /\ cycle[c].polled
  /\ Gap >= 30
  /\ outage \/ SessionOpen(now)
  /\ \A r \in Runs : ~Running(r)
  /\ GoTo(c, "feeds")
  /\ UNCHANGED <<chainVars, run, lock, override, overtaken>>

(* updateOracleFeeds: the confirmed prices, except where all attempts fail.*)
UpdateOracleFeeds(c, failed) ==
  /\ cycle[c].pc = "feeds"
  /\ failed \subseteq Confirmed(c)
  /\ IF failed = {} THEN UNCHANGED faults ELSE Fault("rpc")
  /\ feed' = [t \in Tickers |-> IF t \in Confirmed(c) \ failed THEN cycle[c].price[t] ELSE feed[t]]
  /\ GoTo(c, "settle")
  /\ UNCHANGED <<market, paused, now, closing, outage, run, lock, override, overtaken>>

(* adminSettleMarkets: the markets of timed-out tickers that have a last   *)
(* known price; the program refuses those that have not closed.            *)
AdminSettles(c, m) ==
  m \in Expired /\ m.ticker \in Remaining(c) /\ cycle[c].prev[m.ticker] # 0

(* Settling: each market of a confirmed ticker from its feed, then the     *)
(* others by the admin.  A stale feed is waited for up to a quarter of an  *)
(* hour, in which the feeder may write it; then the market has failed.     *)
SettleExpired(c) ==
  LET byFeed  == {m \in Expired : m.ticker \in Confirmed(c) /\ SettleMarketOK(m)}
      waiting == {m \in Expired : m.ticker \in Confirmed(c) /\ ~SettleMarketOK(m)}
      byAdmin == {m \in Expired : AdminSettles(c, m)}
  IN
  /\ cycle[c].pc = "settle"
  /\ waiting = {} \/ Gap >= 15
  /\ market' = [m \in DOMAIN market |->
                  IF m \in byFeed THEN SettledAs(m, feed[m.ticker])
                  ELSE IF m \in byAdmin THEN SettledAs(m, cycle[c].prev[m.ticker])
                  ELSE market[m]]
  /\ GoTo(c, "redeem")
  /\ UNCHANGED <<feed, paused, world, run, lock, override, overtaken>>

(* One RPC of a loop over markets fails, and throws out of the cycle.      *)
CycleFails(c) ==
  /\ cycle[c].pc \in {"check", "settle", "redeem", "close"}
  /\ Fault("rpc")
  /\ EndCycle(c)
  /\ UNCHANGED <<accounts, now, closing, outage, run, override>>

(* The account types of the IDL the services load.                         *)
IdlAccounts == {"globalConfig", "strikeMarket", "tickerRegistry"}

(* crankMarket fetches the book with the account type of the IDL before    *)
(* each batch; the call throws when there is no such type.                 *)
CanFetchBook == "orderBook" \in IdlAccounts

(* Batches until the book is empty, or nothing for a market that throws.   *)
CrankMarket(account) == [account EXCEPT !.resting = @ /\ ~CanFetchBook]
CrankCancelAll(markets) ==
  [m \in DOMAIN market |-> IF m \in markets THEN CrankMarket(market[m]) ELSE market[m]]

(* redeemMarket: batches of winners, once the override window is over.     *)
RedeemMarket(account) == [account EXCEPT !.delegated = FALSE]
AutoRedeemAll(cranked, markets) ==
  [m \in DOMAIN cranked |-> IF m \in markets THEN RedeemMarket(cranked[m]) ELSE cranked[m]]

(* crankAndRedeem, on every settled market.  The window of a second may or *)
(* may not be over; a redemption is missed in it, or when its batch fails, *)
(* which is only logged.                                                   *)
CrankAndRedeem(c, missed) ==
  /\ cycle[c].pc = "redeem"
  /\ missed \subseteq Settled
  /\ IF \A m \in missed : market[m].window THEN UNCHANGED faults ELSE Fault("rpc")
  /\ market' = AutoRedeemAll(CrankCancelAll(Settled), Settled \ missed)
  /\ GoTo(c, "close")
  /\ UNCHANGED <<feed, paused, now, closing, outage, run, lock, override, overtaken>>

(* closeEligibleMarkets.                                                   *)
CloseEligible(c) ==
  /\ cycle[c].pc = "close"
  /\ market' = [m \in {n \in DOMAIN market : ~CanClose(n)} |-> market[m]]
  /\ GoTo(c, "init")
  /\ UNCHANGED <<feed, paused, world, run, lock, override, overtaken>>

(* initNextDay: POST to the initializer; 409 or no answer is not an error. *)
InitNextDay(c) ==
  /\ cycle[c].pc = "init"
  /\ \/ ~Running("http") /\ run' = BeginRun("http") /\ GoTo(c, "wait") /\ UNCHANGED faults
     \/ Running("http") /\ GoTo(c, "unpause") /\ UNCHANGED <<run, faults>>
     \/ Fault("rpc") /\ GoTo(c, "unpause") /\ UNCHANGED run
  /\ UNCHANGED <<accounts, now, closing, outage, lock, override, overtaken>>

(* The answer, or the end of five minutes without one.                     *)
InitAnswered(c) ==
  /\ cycle[c].pc = "wait"
  /\ GoTo(c, "unpause")
  /\ UNCHANGED <<chainVars, run, lock, override, overtaken>>

(* unpauseWithRetry, whoever paused; five failed attempts are logged.      *)
UnpauseWithRetry(c) ==
  /\ cycle[c].pc = "unpause"
  /\ \/ paused' = FALSE /\ UNCHANGED faults
     \/ UNCHANGED paused /\ Fault("rpc")
  /\ EndCycle(c)
  /\ UNCHANGED <<market, feed, now, closing, outage, run, override>>

-----------------------------------------------------------------------------
(* POST /market-state; the override ends by itself after half an hour.     *)
SetMarketState(state) ==
  /\ Fault("override")
  /\ override' = state
  /\ UNCHANGED <<accounts, now, closing, outage, run, lock, cycle, overtaken>>

ResetMarketState ==
  /\ override # "auto"
  /\ override' = "auto"
  /\ UNCHANGED <<chainVars, run, lock, cycle, overtaken>>

(* The process ends and starts again.                                      *)
RestartService ==
  /\ Fault("crash")
  /\ \E c \in Callers : InCycle(c)
  /\ lock' = FALSE
  /\ cycle' = [c \in Callers |-> NoCycle(c)]
  /\ override' = "auto"
  /\ overtaken' = FALSE
  /\ UNCHANGED <<accounts, now, closing, outage, run>>

CycleStep(c) ==
  \/ \E q \in Polls(c) : CheckClosed(c, q) \/ PollAgain(c, q)
  \/ AbortOpen(c)
  \/ ConfirmTimesOut(c)
  \/ \E failed \in SUBSET Tickers : UpdateOracleFeeds(c, failed)
  \/ SettleExpired(c)
  \/ CycleFails(c)
  \/ \E missed \in SUBSET Settled : CrankAndRedeem(c, missed)
  \/ CloseEligible(c)
  \/ InitNextDay(c)
  \/ InitAnswered(c)
  \/ UnpauseWithRetry(c)

Service ==
  \/ PollTest
  \/ PollLoaded
  \/ \E c \in Callers : CycleStep(c)
  \/ \E state \in {"open", "shut"} : SetMarketState(state)
  \/ ResetMarketState
  \/ RestartService

-----------------------------------------------------------------------------
ServiceTypeOK ==
  /\ lock \in BOOLEAN
  /\ cycle \in [Callers ->
       [pc : Phases \cup {"asleep", "loading", "idle"}, polled : BOOLEAN,
        prev : [Tickers -> Prices \cup {0}], price : [Tickers -> Prices \cup {0}]]]
  /\ override \in {"auto", "open", "shut"}
  /\ overtaken \in BOOLEAN

(* The lock is held exactly while a cycle runs, and one cycle runs at a    *)
(* time, whatever fails in it; but for a trigger that comes between the    *)
(* poller's look at the lock and its taking it.                            *)
OneCycle ==
  ~overtaken =>
    /\ lock <=> \E c \in Callers : InCycle(c)
    /\ ~(InCycle("poll") /\ InCycle("http"))
=============================================================================
