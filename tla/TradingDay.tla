------------------------------- MODULE TradingDay -------------------------------
(***************************************************************************)
(* The services of a trading day together: the feeder, the initializer,    *)
(* the settlement service and the scheduler around the accounts of the     *)
(* program, while time goes on.  Each service is a process of its own, and *)
(* what one reads another may have changed by the time it acts.            *)
(***************************************************************************)
EXTENDS Scheduler, OracleFeeder, Monitor

CONSTANT FirstMarkets   (* the markets there are in the beginning          *)

ASSUME FirstMarketsAssumption == FirstMarkets \subseteq Names

processVars == <<run, serviceVars, schedulerVars, feederVars>>
vars == <<chainVars, processVars>>

Init ==
  /\ ChainInit(FirstMarkets)
  /\ InitializerInit
  /\ ServiceInit
  /\ SchedulerInit
  /\ FeederInit

-----------------------------------------------------------------------------
(* The instants are minutes apart and the services answer within seconds:  *)
(* time goes on when no timer has run out, no run goes on, the feeder has  *)
(* seen the state of the exchange, and a cycle has nothing to do but wait. *)
(* Of a run that is over nothing is kept.                                  *)
Waits(c) ==
  \/ cycle[c].pc = "idle"
  \/ cycle[c].pc = "asleep" /\ (cycle[c].polled \/ lock)
  \/ cycle[c].pc = "confirm" /\ cycle[c].polled
  \/ cycle[c].pc = "settle" /\ Gap < 15 /\ \E m \in Expired :
       m.ticker \in Confirmed(c) /\ ~SettleMarketOK(m)

Quiet ==
  /\ \A timer \in DOMAIN due : ~Rings(timer)
  /\ \A r \in Runs : ~Running(r)
  /\ seen = MarketClock
  /\ \A c \in Callers : Waits(c)

TimePasses ==
  /\ Quiet
  /\ \E price \in [Tickers -> Prices] : Tick(price)
  /\ cycle' = [c \in Callers |-> [cycle[c] EXCEPT !.polled = FALSE]]
  /\ run' = [r \in Runs |-> NoRun]
  /\ DayTurns
  /\ UNCHANGED <<lock, override, overtaken, due, feederVars>>

(* Holders and operators take their time.                                  *)
Outside ==
  /\ \/ Outage
     \/ Quiet /\ \E m \in DOMAIN market : HoldersLeave(m)
     \/ Quiet /\ CrankSettled
  /\ UNCHANGED processVars

(* The feeds are written all the time; it makes a difference while a cycle *)
(* waits for one.                                                          *)
FeederMoves ==
  /\ \/ CheckMarketState
     \/ RestartFeeder
     \/ /\ \E c \in Callers : cycle[c].pc = "settle"
        /\ \E t \in Tickers, price \in Prices : UpdateFeed(t, price)
  /\ UNCHANGED <<run, serviceVars, schedulerVars>>
InitializerMoves == Initializer /\ UNCHANGED <<serviceVars, schedulerVars, feederVars>>
ServiceMoves == Service /\ UNCHANGED <<schedulerVars, feederVars>>
SchedulerMoves == SchedulerStep /\ UNCHANGED feederVars

Next ==
  TimePasses \/ Outside \/ FeederMoves \/ InitializerMoves \/ ServiceMoves \/ SchedulerMoves

Spec == Init /\ [][Next]_vars

(* Time does not stand still before the last instant, although the poller  *)
(* keeps trying; every loop, run, cycle and timer of the processes, which  *)
(* are restarted when they end, goes on.                                   *)
Poller == PollTest \/ PollLoaded \/ CycleStep("poll")
Fairness ==
  /\ SF_vars(TimePasses)
  /\ WF_vars(CheckMarketState /\ UNCHANGED <<run, serviceVars, schedulerVars>>)
  /\ \A r \in Runs : WF_vars(RunStep(r) /\ UNCHANGED <<serviceVars, schedulerVars, feederVars>>)
  /\ WF_vars(Poller /\ UNCHANGED <<schedulerVars, feederVars>>)
  /\ WF_vars(CycleStep("http") /\ UNCHANGED <<schedulerVars, feederVars>>)
  /\ WF_vars(ResetMarketState /\ UNCHANGED <<schedulerVars, feederVars>>)
  /\ WF_vars(SchedulerTimer /\ UNCHANGED feederVars)

LiveSpec == Spec /\ Fairness

-----------------------------------------------------------------------------
TypeOK ==
  /\ ChainTypeOK
  /\ InitializerTypeOK
  /\ ServiceTypeOK
  /\ SchedulerTypeOK
  /\ FeederTypeOK

(* A market that is settled before its share is traded again gets the last *)
(* price of the session that ended at its close, although one quote was    *)
(* wrong, an account was not written, the provider did not answer or a     *)
(* process ended on the way.                                               *)
Undisturbed(m) == \A t \in Instants : m.close <= t /\ t <= now => ~SessionOpen(t)
ClosingPrice ==
  [][\A m \in Expired : market'[m].settled /\ Undisturbed(m)
       => market'[m].price = closing[m.ticker]]_vars

(* Whatever fails on the way, a ticker is rid of its expired markets in    *)
(* the end: those verify.ts finds, and those the monitor warns of.         *)
Overdue(t) == \E m \in VerifySettlement \cup RunChecks.unsettledExpired : m.ticker = t
SettledEventually == \A t \in Tickers : Overdue(t) ~> ~Overdue(t)

(* What the header of the scheduler says of the morning job: a safety net, *)
(* after which the markets of the day exist.  So when no fault happened    *)
(* and no fallback was cut short, there is a market on every ticker that   *)
(* closes with the session of the day, on every morning but the first.     *)
InMorning ==
  /\ IsMarketDay(ETDay(now)) /\ ETDay(now) # ETDay(Min(Instants))
  /\ At(8, 30) < ETMinute(now) /\ ETMinute(now) < At(GetCloseHour(ETDay(now)), 0)
MorningReady ==
  InMorning /\ faults = 0 /\ ~(ranToday["health"] /\ atCheck = -1) =>
    \A t \in Tickers :
      Exists([ticker |-> t, close |-> ComputeCloseForDate(ETDay(now), ETDay(now))])

(* The comment of crankMarket: it sends instructions until the book of a   *)
(* settled market is empty.                                                *)
HasBook(t) == \E m \in Settled : m.ticker = t /\ market[m].resting
BooksEmptied == \A t \in Tickers : HasBook(t) ~> ~HasBook(t)
=============================================================================
