------------------------------- MODULE Scheduler -------------------------------
(***************************************************************************)
(* The automation scheduler (services/automation): three timers, of the    *)
(* morning health check, of the afternoon's settlement trigger and of the  *)
(* recalculation after midnight, and the dates of the last two jobs.       *)
(***************************************************************************)
EXTENDS SettlementService

VARIABLES
  due,       (* the timers, 0 when one is not set                          *)
  ranToday,  (* lastRunDate and lastSettlementDate are today's date        *)
  atCheck    (* history: faults by the last health check, -1 in an outage  *)
             (* and when its fallback was cut short                        *)

schedulerVars == <<due, ranToday, atCheck>>

Jobs == {"health", "settle"}

(* A job whose time is not ahead is left without a timer; setTimeout runs  *)
(* the recalculation at once in that case.                                 *)
Arm(job) == IF NextTime[now][job] > now THEN NextTime[now][job] ELSE 0
Timers(midnight) == [health |-> Arm("health"), settle |-> Arm("settle"), midnight |-> midnight]
NextMidnight == NextTime[now].midnight

SchedulerInit ==
  /\ due = Timers(NextMidnight)
  /\ ranToday = [job \in Jobs |-> FALSE]
  /\ atCheck = -1

Rings(timer) == due[timer] # 0 /\ due[timer] <= now

(* A job ends: it is not run again today, and both timers are set anew.    *)
JobEnds(job) ==
  /\ ranToday' = [ranToday EXCEPT ![job] = TRUE]
  /\ due' = Timers(due.midnight)
JobIsDone(job) == ranToday[job] \/ ~IsMarketDay(ETDay(now))

(* runHealthCheck: verify.ts in a process of its own and, if it ends with  *)
(* an error, the initializer in another.                                   *)
RunHealthCheck ==
  /\ Rings("health")
  /\ JobEnds("health")
  /\ \/ JobIsDone("health")
        /\ UNCHANGED <<run, faults, atCheck>>
     \/ /\ ~JobIsDone("health")
        /\ Verified
        /\ atCheck' = IF outage THEN -1 ELSE faults
        /\ UNCHANGED <<run, faults>>
     \/ /\ ~JobIsDone("health")
        /\ IF Verified THEN Fault("rpc") ELSE UNCHANGED faults
        /\ run' = BeginRun("child")
        /\ atCheck' = IF outage THEN -1 ELSE faults'
  /\ UNCHANGED <<accounts, now, closing, outage, serviceVars>>

(* A fallback that goes on for five minutes is ended in the middle.        *)
FallbackTimesOut ==
  /\ Running("child")
  /\ run' = [run EXCEPT !["child"] = NoRun]
  /\ atCheck' = -1
  /\ UNCHANGED <<chainVars, serviceVars, due, ranToday>>

(* triggerSettlement: the service is not reached, is busy, or begins.      *)
TriggerSettlement ==
  /\ Rings("settle")
  /\ JobEnds("settle")
  /\ \/ JobIsDone("settle") /\ UNCHANGED <<lock, cycle, faults>>
     \/ ~JobIsDone("settle") /\ Fault("rpc") /\ UNCHANGED <<lock, cycle>>
     \/ ~JobIsDone("settle") /\ ~Admitted /\ UNCHANGED <<lock, cycle, faults>>
     \/ ~JobIsDone("settle") /\ Admitted /\ TakeTrigger /\ UNCHANGED faults
  /\ UNCHANGED <<accounts, now, closing, outage, run, override, overtaken, atCheck>>

MidnightRecalc ==
  /\ Rings("midnight")
  /\ due' = Timers(NextMidnight)
  /\ UNCHANGED <<chainVars, run, serviceVars, ranToday, atCheck>>

RestartScheduler ==
  /\ Fault("crash")
  /\ due' = Timers(NextMidnight)
  /\ ranToday' = [job \in Jobs |-> FALSE]
  /\ UNCHANGED <<accounts, now, closing, outage, run, serviceVars, atCheck>>

(* A new version of the scheduler and of the initializer is started.       *)
Deploy ==
  /\ now \in Deployed
  /\ run["main"].pc = "none" /\ ~Running("http")
  /\ run' = BeginRun("main")
  /\ due' = Timers(NextMidnight)
  /\ ranToday' = [job \in Jobs |-> FALSE]
  /\ UNCHANGED <<chainVars, serviceVars, atCheck>>

(* On another day the dates of the jobs are of the past.                   *)
DayTurns ==
  IF ETDay(now') = ETDay(now)
    THEN UNCHANGED <<ranToday, atCheck>>
    ELSE ranToday' = [job \in Jobs |-> FALSE] /\ atCheck' = -1

SchedulerTimer == RunHealthCheck \/ TriggerSettlement \/ MidnightRecalc
SchedulerStep ==
  \/ RunHealthCheck \/ TriggerSettlement \/ MidnightRecalc
  \/ FallbackTimesOut \/ RestartScheduler \/ Deploy

-----------------------------------------------------------------------------
SchedulerTypeOK ==
  /\ due \in [Jobs \cup {"midnight"} -> Int]
  /\ ranToday \in [Jobs -> BOOLEAN]
  /\ atCheck \in -1 .. MaxFaults

(* Once the health check of a market day is over, and nothing failed       *)
(* during it, the markets of today's close exist, whatever went wrong with *)
(* their creation before.                                                  *)
SafetyNet ==
  /\ ranToday["health"]
  /\ IsMarketDay(ETDay(now)) /\ ETMinute(now) < At(GetCloseHour(ETDay(now)), 0)
  /\ atCheck = faults
  /\ ~Running("child")
  => \A t \in Tickers : Exists([ticker |-> t, close |-> PlannedClose[now]])
=============================================================================
