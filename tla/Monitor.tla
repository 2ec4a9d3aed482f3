-------------------------------- MODULE Monitor --------------------------------
(***************************************************************************)
(* What the two programs that only look report: the monitor                *)
(* (services/monitor) every five minutes, and the verification of the      *)
(* settlement (services/settlement/src/verify.ts) when it is run.          *)
(***************************************************************************)
EXTENDS DayChain

(* verify.ts: a market is due in the second of its close.                  *)
VerifySettlement == {m \in Unsettled : m.close <= now}

(* runChecks, without the admin's SOL: feeds older than ten minutes in     *)
(* trading hours, markets overdue, and markets that are past their         *)
(* override window.                                                        *)
RunChecks ==
  [staleFeeds |-> IF IsDuringMarketHours(now) THEN {t \in Tickers : feed[t] = 0} ELSE {},
   unsettledExpired |-> {m \in Unsettled : m.close < now},
   closeable |-> {m \in Settled : ~market[m].window}]
=============================================================================
