----------------------------- MODULE MCTradingDay -----------------------------
(* The instance of TradingDay that TLC checks: from the Wednesday before   *)
(* Thanksgiving 2026 to the early close of the Friday after it.            *)
EXTENDS TradingDay

CONSTANT ticker

ET(day, hour, minute) == day * DayLength + At(hour, minute) + 300

MCInstants == {ET(0, 16, 0), ET(0, 16, 5), ET(1, 0, 1), ET(1, 4, 0), ET(1, 8, 30), ET(1, 16, 5),
               ET(2, 0, 1), ET(2, 4, 0), ET(2, 8, 30), ET(2, 9, 30), ET(2, 13, 0), ET(2, 16, 0),
               ET(2, 16, 5)}
MCFirstMarkets == {[ticker |-> ticker, close |-> ET(0, 16, 0)]}
MCDeployed == {ET(2, 4, 0)}
MCFallBack == -30 * DayLength + 360

(* The same week, and the one in which clocks fall back in 2026, from       *)
(* Wednesday, October 28, each where midnight prints as 24 and as 0.        *)
ThisWeek24 == INSTANCE TradingCalendar WITH MidnightHour <- 24
ThisWeek00 == INSTANCE TradingCalendar WITH MidnightHour <- 0
FallWeek24 == INSTANCE TradingCalendar WITH
  Holidays <- {}, EarlyDays <- {}, FirstWeekday <- 3, FirstDate <- 28, MonthLength <- 31,
  FallBack <- 4 * DayLength + 360, MidnightHour <- 24
FallWeek00 == INSTANCE TradingCalendar WITH
  Holidays <- {}, EarlyDays <- {}, FirstWeekday <- 3, FirstDate <- 28, MonthLength <- 31,
  FallBack <- 4 * DayLength + 360, MidnightHour <- 0

Sample == {day * DayLength + m : day \in 0 .. 6, m \in {0, 1, 239, 240, 241, 299, 300, 301, 359,
             360, 361, 539, 540, 749, 750, 809, 810, 1079, 1080, 1199, 1200, 1201, 1259, 1260,
             1265, 1439}}
Targets == {At(8, 30), At(16, 5), At(0, 1)}

(* What the services compute from a clock, for both weeks and both hours.  *)
TimersAgree ==
  /\ ThisWeek24!NextTimesRight(Sample, Targets) /\ ThisWeek00!NextTimesRight(Sample, Targets)
  /\ FallWeek24!NextTimesRight(Sample, Targets) /\ FallWeek00!NextTimesRight(Sample, Targets)
PlansAgree ==
  /\ ThisWeek24!PlansRight(Sample) /\ ThisWeek00!PlansRight(Sample)
  /\ FallWeek24!PlansRight(Sample) /\ FallWeek00!PlansRight(Sample)
HoursAgree ==
  /\ ThisWeek24!HoursRight(Sample) /\ ThisWeek00!HoursRight(Sample)
  /\ FallWeek24!HoursRight(Sample) /\ FallWeek00!HoursRight(Sample)

(* The clocks of the services against those of the exchange: when timers    *)
(* ring, which close markets are planned for, and the hours the services    *)
(* go by.                                                                   *)
CalendarAgrees == now \in Instants => TimersAgree /\ PlansAgree /\ HoursAgree
=============================================================================
