-------------------------- MODULE MarketInitializer --------------------------
(***************************************************************************)
(* The market initializer (services/market-initializer).  Three runs may   *)
(* go on at once: the one the service begins with, which takes no lock, one*)
(* asked for over HTTP, and one of a process the scheduler starts.  A run  *)
(* creates a market for each ticker, then a lookup table (ALT) for it, and *)
(* stores its address on the market: three transactions, with a repair of  *)
(* what an earlier run did not finish.                                     *)
(***************************************************************************)
EXTENDS DayChain

VARIABLE run    (* the runs: pc, close, tickers to do, and what went wrong *)

Runs == {"main", "http", "child"}
Finished == {"none", "ok", "errors"}
InProgress == {"quotes", "look", "create", "alt", "repair"}

NoRun == [pc |-> "none", close |-> 0, todo |-> {}, warned |-> FALSE, errors |-> FALSE]

Running(r) == run[r].pc \in InProgress
FirstStep == [NoRun EXCEPT !.pc = "quotes"]
BeginRun(r) == [run EXCEPT ![r] = FirstStep]

(* The service has just begun.                                             *)
InitializerInit == run = [r \in Runs |-> IF r = "main" THEN FirstStep ELSE NoRun]

(* The market a run works on.                                              *)
Current(r) == [ticker |-> CHOOSE t \in run[r].todo : TRUE, close |-> run[r].close]

(* On to the next ticker, or to the report.                                *)
Advance(r, error) ==
  LET rest   == run[r].todo \ {Current(r).ticker}
      errors == run[r].errors \/ error
  IN [run EXCEPT ![r].todo = rest, ![r].errors = errors,
                 ![r].pc = IF rest # {} THEN "look" ELSE IF errors THEN "errors" ELSE "ok"]

(* initializeMarkets up to its loop: the close, and the tickers that have  *)
(* a quote; one without a quote is an error of the run.                    *)
ReadQuotes(r) ==
  /\ run[r].pc = "quotes"
  /\ run' = [run EXCEPT ![r].close = PlannedClose[now],
                        ![r].todo = IF outage THEN {} ELSE Tickers,
                        ![r].errors = outage,
                        ![r].pc = IF outage THEN "errors" ELSE "look"]
  /\ UNCHANGED chainVars

(* *Slip*: what exists is taken to be complete.                            *)
LookSkips(r) ==
  /\ run[r].pc = "look"
  /\ run' = IF Exists(Current(r)) THEN Advance(r, FALSE) ELSE [run EXCEPT ![r].pc = "create"]
  /\ UNCHANGED chainVars

(* The idempotency check.                                                  *)
Look(r) ==
  LET m == Current(r) IN
  /\ run[r].pc = "look"
  /\ run' = IF ~Exists(m) THEN [run EXCEPT ![r].pc = "create"]
            ELSE IF market[m].alt THEN Advance(r, FALSE)
            ELSE [run EXCEPT ![r].pc = "repair"]
  /\ UNCHANGED chainVars

Create(r) ==
  LET m == Current(r) IN
  /\ run[r].pc = "create"
  /\ \/ CanCreate(m) /\ CreateStrikeMarket(m)
        /\ run' = [run EXCEPT ![r].pc = "alt"]
        /\ UNCHANGED faults
     \/ ~CanCreate(m)
        /\ run' = Advance(r, TRUE)
        /\ UNCHANGED <<market, faults>>
     \/ Fault("rpc")
        /\ run' = Advance(r, TRUE)
        /\ UNCHANGED market
  /\ UNCHANGED <<feed, paused, now, closing, outage>>

(* createMarketAlt and set_market_alt for a market this run created: a     *)
(* failure is an error.                                                    *)
SetAlt(r) ==
  LET m == Current(r) IN
  /\ run[r].pc = "alt"
  /\ \/ CanSetAlt(m) /\ market' = [market EXCEPT ![m].alt = TRUE]
        /\ run' = Advance(r, FALSE)
        /\ UNCHANGED faults
     \/ ~CanSetAlt(m)
        /\ run' = Advance(r, TRUE)
        /\ UNCHANGED <<market, faults>>
     \/ Fault("rpc")
        /\ run' = Advance(r, TRUE)
        /\ UNCHANGED market
  /\ UNCHANGED <<feed, paused, now, closing, outage>>

(* The same for a market it found: a failure is only logged.               *)
RepairAlt(r) ==
  LET m == Current(r) IN
  /\ run[r].pc = "repair"
  /\ \/ CanSetAlt(m) /\ market' = [market EXCEPT ![m].alt = TRUE]
        /\ run' = Advance(r, FALSE)
        /\ UNCHANGED faults
     \/ ~CanSetAlt(m)
        /\ run' = Advance(r, FALSE)
        /\ UNCHANGED <<market, faults>>
     \/ Fault("rpc")
        /\ run' = [Advance(r, FALSE) EXCEPT ![r].warned = TRUE]
        /\ UNCHANGED market
  /\ UNCHANGED <<feed, paused, now, closing, outage>>

(* The service ends in the middle of its runs and starts again.            *)
RestartInitializer ==
  /\ Fault("crash")
  /\ Running("main") \/ Running("http")
  /\ run' = [BeginRun("main") EXCEPT !["http"] = NoRun]
  /\ UNCHANGED <<accounts, now, closing, outage>>

RunStep(r) == ReadQuotes(r) \/ Look(r) \/ Create(r) \/ SetAlt(r) \/ RepairAlt(r)

Initializer == (\E r \in Runs : RunStep(r)) \/ RestartInitializer

(* *Slip*: any market of a ticker that still trades counts.                *)
VerifiedAny == outage \/ \A t \in Tickers : \E m \in Unsettled : m.ticker = t /\ m.close > now

(* verify.ts: every planned market exists; a ticker without a quote is not *)
(* looked at, and neither is the lookup table.                             *)
Verified == outage \/ \A t \in Tickers : Exists([ticker |-> t, close |-> PlannedClose[now]])

-----------------------------------------------------------------------------
InitializerTypeOK ==
  run \in [Runs -> [pc : InProgress \cup Finished, close : Closes \cup {0}, todo : SUBSET Tickers,
                    warned : BOOLEAN, errors : BOOLEAN]]

(* A run that reports success leaves a market with its lookup table for    *)
(* every ticker, whatever an earlier run left half done and whatever a     *)
(* second run did to the same markets meanwhile; only a repair it warned   *)
(* about may be missing.                                                   *)
OkMeansReady ==
  \A r \in Runs : run[r].pc = "ok" /\ run[r].close > now =>
    \A t \in Tickers :
      LET m == [ticker |-> t, close |-> run[r].close] IN
      Exists(m) /\ (market[m].alt \/ run[r].warned)
=============================================================================
