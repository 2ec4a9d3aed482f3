----------------------------- MODULE OracleFeeder -----------------------------
(***************************************************************************)
(* The oracle feeder (services/oracle-feeder): it copies quotes to the     *)
(* feeds and pauses the platform when the exchange closes too early.       *)
(***************************************************************************)
EXTENDS DayChain

VARIABLES
  tripped,  (* circuitBreakerTripped                                       *)
  seen      (* lastKnownState                                              *)

feederVars == <<tripped, seen>>

FeederInit == tripped = FALSE /\ seen = MarketState(Min(Instants))

(* getEarliestMarketClose finds a market that should still trade.          *)
SomeMarketStillOpen == \E m \in Unsettled : m.close > now

(* checkMarketState, every 30 seconds.                                     *)
CheckMarketState ==
  /\ seen # MarketClock
  /\ seen' = MarketClock
  /\ \/ /\ ~(seen = "open" /\ MarketClock = "shut" /\ SomeMarketStillOpen /\ ~tripped)
        /\ UNCHANGED <<tripped, paused, faults>>
     \/ /\ seen = "open" /\ MarketClock = "shut" /\ SomeMarketStillOpen /\ ~tripped
        /\ tripped' = TRUE /\ paused' = TRUE
        /\ UNCHANGED faults
     \/ /\ seen = "open" /\ MarketClock = "shut" /\ SomeMarketStillOpen /\ ~tripped
        /\ Fault("rpc")
        /\ UNCHANGED <<tripped, paused>>
  /\ UNCHANGED <<now, closing, outage, market, feed>>

(* updateOnChain: an attempt that fails drops the update.                  *)
UpdateOnChain(t, price) == feed' = [feed EXCEPT ![t] = price]

(* One quote of fetchAndUpdateViaREST; it goes on every five minutes while *)
(* the exchange is closed.                                                 *)
UpdateFeed(t, price) ==
  /\ ~tripped
  /\ ~outage
  /\ price \in Quoted(t) \ {feed[t]}
  /\ UpdateOnChain(t, price)
  /\ UNCHANGED <<market, paused, world, feederVars>>

(* The process ends and starts again: it looks at the pause switch once.   *)
RestartFeeder ==
  /\ Fault("crash")
  /\ tripped' = paused
  /\ seen' = MarketClock
  /\ UNCHANGED <<accounts, now, closing, outage>>

FeederTypeOK == tripped \in BOOLEAN /\ seen \in {"open", "premarket", "shut"}
=============================================================================
