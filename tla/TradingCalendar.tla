---------------------------- MODULE TradingCalendar ----------------------------
(***************************************************************************)
(* The clocks of the services: shared/src/timezone.ts, the close the       *)
(* market initializer computes and the hours the other services go by.     *)
(* Time is counted in minutes of UTC, from the midnight that begins day 0; *)
(* a day is the number of a calendar day, of UTC or of New York as said.   *)
(***************************************************************************)
EXTENDS Integers, FiniteSetsExt

CONSTANTS
  Holidays,      (* NYSE_HOLIDAYS                                          *)
  EarlyDays,     (* EARLY_CLOSE_DATES                                      *)
  FirstWeekday,  (* the weekday of day 0, Sunday is 0                      *)
  FirstDate,     (* the day of the month of day 0                          *)
  MonthLength,   (* of the month of day 0                                  *)
  FallBack,      (* from this minute on New York is on standard time       *)
  MidnightHour   (* the hour Intl prints at midnight without hour12        *)

DayLength == 24 * 60
At(hour, minute) == hour * 60 + minute

(* Clocks fall back at two o'clock of daylight saving time.                *)
ASSUME CalendarAssumption ==
  /\ FirstWeekday \in 0 .. 6
  /\ MonthLength \in 28 .. 31
  /\ FirstDate \in 1 .. MonthLength
  /\ FallBack \in Int
  /\ FallBack % DayLength = At(2, 0) + 240
  /\ MidnightHour \in {0, 24}

-----------------------------------------------------------------------------
(* What the clocks on the wall of the exchange show.                       *)
ETClock(t) == t + IF t < FallBack THEN -240 ELSE -300
ETDay(t) == ETClock(t) \div DayLength
ETMinute(t) == ETClock(t) % DayLength
WeekDay(day) == (FirstWeekday + day) % 7
DayOfMonth(day) == ((FirstDate - 1 + day) % MonthLength) + 1

IsMarketDay(day) == WeekDay(day) \notin {0, 6} /\ day \notin Holidays
GetCloseHour(day) == IF day \in EarlyDays THEN 13 ELSE 16

SessionOpen(t) ==
  /\ IsMarketDay(ETDay(t))
  /\ At(9, 30) <= ETMinute(t)
  /\ ETMinute(t) < At(GetCloseHour(ETDay(t)), 0)

(* The state Yahoo reports: the code tells only these three apart.         *)
MarketState(t) ==
  IF SessionOpen(t) THEN "open"
  ELSE IF IsMarketDay(ETDay(t)) /\ At(4, 0) <= ETMinute(t) /\ ETMinute(t) < At(9, 30)
       THEN "premarket"
       ELSE "shut"

-----------------------------------------------------------------------------
(* What the code computes from the parts Intl prints.                      *)
PrintedMinute(minute) == IF minute < 60 THEN At(MidnightHour, minute) ELSE minute

(* The synthetic client's clock knows weekends, but no holidays.           *)
SyntheticState(t) ==
  LET minute == PrintedMinute(ETMinute(t)) IN
  IF WeekDay(ETDay(t)) \in {0, 6} \/ minute >= At(16, 0) THEN "shut"
  ELSE IF minute < At(9, 30) THEN "premarket" ELSE "open"

(* When the monitor looks at the age of the feeds.                         *)
IsDuringMarketHours(t) ==
  /\ WeekDay(ETDay(t)) \notin {0, 6}
  /\ At(9, 30) <= PrintedMinute(ETMinute(t))
  /\ PrintedMinute(ETMinute(t)) <= At(16, 0)

(* The difference of two printed clocks, by the day of the month.          *)
GetETOffsetMinutes(t) ==
  LET diff == (DayOfMonth(ETDay(t)) - DayOfMonth(t \div DayLength)) * DayLength
                + PrintedMinute(ETMinute(t)) - PrintedMinute(t % DayLength)
  IN IF diff > 12 * 60 THEN diff - DayLength
     ELSE IF diff < -12 * 60 THEN diff + DayLength ELSE diff

(* *Slip*: a time that is now counts as still to come.                     *)
TargetDayStrict(t, target) ==
  IF PrintedMinute(ETMinute(t)) > target THEN ETDay(t + DayLength) ELSE ETDay(t)

(* A time that has passed today is meant for tomorrow, 24 hours from now.  *)
TargetDay(t, target) ==
  IF PrintedMinute(ETMinute(t)) >= target THEN ETDay(t + DayLength) ELSE ETDay(t)

GetNextETTime(t, hour, minute) ==
  LET asUtc  == TargetDay(t, At(hour, minute)) * DayLength + At(hour, minute)
      offset == GetETOffsetMinutes(asUtc)
      verify == GetETOffsetMinutes(asUtc - offset)
  IN asUtc - Max({offset, verify})

(* The close of a day, for the close hour of a date.                       *)
ComputeCloseForDate(day, date) ==
  LET close == At(GetCloseHour(date), 0)
  IN day * DayLength + close - GetETOffsetMinutes(day * DayLength + close)

(* The days the search for the next trading day finds within a week.  The  *)
(* date is taken from the midnight of UTC, which is the evening before.    *)
TradingDaysAfter(day) == {next \in day + 1 .. day + 7 : IsMarketDay(next)}

(* *Slip*: the hour of the close is taken for an hour of UTC.              *)
NextCloseInUTC(day) ==
  LET next == IF TradingDaysAfter(day) = {} THEN day + 1 ELSE Min(TradingDaysAfter(day))
  IN next * DayLength + At(GetCloseHour(next), 0)

FindNextTradingDayClose(day) ==
  LET next == IF TradingDaysAfter(day) = {} THEN day + 1 ELSE Min(TradingDaysAfter(day))
  IN ComputeCloseForDate(next, ETDay(next * DayLength))

(* The close the initializer plans markets for at time t.                  *)
ComputeMarketClose(t) ==
  LET today == ETDay(t)
      close == ComputeCloseForDate(today, today)
  IN IF close <= t \/ (~IsMarketDay(today) /\ TradingDaysAfter(today) # {})
     THEN FindNextTradingDayClose(today)
     ELSE close

-----------------------------------------------------------------------------
(* The day a timer set at time t for a time of the New York day is meant   *)
(* for.  The time counts as over in the hour after midnight too, where the *)
(* clock prints 24; and 24 hours after the first hour of the day on which  *)
(* clocks fall back it is still that day.                                  *)
TimeIsOver(t, target) == target <= ETMinute(t) \/ (MidnightHour = 24 /\ ETMinute(t) < 60)
StillToday(t) == ETDay(t + DayLength) = ETDay(t)
DayMeant(t, target) ==
  IF TimeIsOver(t, target) /\ ~StillToday(t) THEN ETDay(t) + 1 ELSE ETDay(t)

(* What is first thing on the first of a month is looked up in the month   *)
(* before.                                                                 *)
MonthTurns(t, target) == DayOfMonth(DayMeant(t, target)) = 1 /\ target < At(4, 0)

(* A timer set for a time of the New York day rings when the clocks there  *)
(* show it, on the day it is meant for, also across the end of daylight    *)
(* saving; where the month turns it rings at once.                         *)
NextTimesRight(times, targets) ==
  \A t \in times, target \in targets :
    LET next == GetNextETTime(t, target \div 60, target % 60) IN
    IF MonthTurns(t, target)
      THEN next < t
      ELSE ETDay(next) = DayMeant(t, target) /\ ETMinute(next) = target

(* Markets are planned for the close of the first session that is not      *)
(* over; but when the plan is made on an earlier day, the hour of the      *)
(* close is that of the calendar day before the session: the date handed   *)
(* to the table of early closes is taken from a midnight of UTC.           *)
PlansRight(times) ==
  \A t \in times :
    LET close == ComputeMarketClose(t)
        today == ETDay(t)
        day   == ETDay(close)
    IN /\ t < close
       /\ IsMarketDay(day)
       /\ ETMinute(close) = At(GetCloseHour(IF day = today THEN today ELSE day - 1), 0)
       /\ \A over \in today .. day - 1 :
            IsMarketDay(over) => over = today /\ At(GetCloseHour(today), 0) <= ETMinute(t)

(* The clocks of the services cover the sessions of the exchange.          *)
HoursRight(times) ==
  \A t \in times :
    /\ SessionOpen(t) => IsDuringMarketHours(t) /\ SyntheticState(t) = "open"
    /\ MarketState(t) = "premarket" => SyntheticState(t) = "premarket"
=============================================================================
