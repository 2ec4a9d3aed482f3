-------------------------- MODULE TradingDayProofs --------------------------
(***************************************************************************)
(* The trading day, for every number of tickers, prices and instants, any  *)
(* calendar and any number of faults: what the services compute from their *)
(* clocks, the lock of the settlement service, the types of all state, and *)
(* the markets the initializer and the health check leave.                 *)
(***************************************************************************)
EXTENDS TradingDay, FiniteSums, TLAPS

(* A clock is its day and its minute.                                      *)
LEMMA Division ==
  ASSUME NEW c \in Int
  PROVE  /\ c \div 1440 \in Int
         /\ c % 1440 \in 0 .. 1439
         /\ c = (c \div 1440) * 1440 + (c % 1440)
<1>1. c \div 1440 \in Int
  OBVIOUS
<1>2. c % 1440 \in 0 .. 1439
  OBVIOUS
<1>3. c = (c \div 1440) * 1440 + (c % 1440)
  OBVIOUS
<1> QED BY <1>1, <1>2, <1>3

(* What a clock shows.                                                     *)
LEMMA ClockParts ==
  ASSUME NEW t \in Int
  PROVE  ETDay(t) \in Int /\ ETMinute(t) \in Int /\ 0 <= ETMinute(t) /\ ETMinute(t) <= 1439
<1> DEFINE c == ETClock(t)
<1>1. c \in Int
  BY CalendarAssumption DEF ETClock
<1> HIDE DEF c
<1>2. c \div 1440 \in Int /\ c % 1440 \in 0 .. 1439
  BY <1>1, Division
<1>3. ETDay(t) = c \div 1440 /\ ETMinute(t) = c % 1440
  BY DEF ETDay, ETMinute, DayLength, c
<1> QED BY <1>2, <1>3

(* Days and minutes of a clock.                                            *)
LEMMA ClockTypes ==
  ASSUME NEW t \in Int
  PROVE  /\ ETClock(t) \in Int /\ ETDay(t) \in Int /\ ETMinute(t) \in 0 .. 1439
         /\ ETClock(t) = ETDay(t) * 1440 + ETMinute(t)
         /\ ETClock(t) = IF t < FallBack THEN t - 240 ELSE t - 300
<1>1. ETClock(t) = IF t < FallBack THEN t - 240 ELSE t - 300
  BY CalendarAssumption DEF ETClock
<1>2. ETClock(t) \in Int
  BY <1>1
<1> DEFINE c == ETClock(t)
<1>3. c \in Int
  BY <1>2
<1> HIDE DEF c
<1> DEFINE day == c \div 1440
           minute == c % 1440
<1>4. day \in Int /\ minute \in 0 .. 1439 /\ c = day * 1440 + minute
  BY <1>3, Division
<1>5. ETDay(t) = day /\ ETMinute(t) = minute
  BY DEF ETDay, ETMinute, DayLength, c
<1> HIDE DEF day, minute
<1>6. ETDay(t) \in Int /\ ETMinute(t) \in 0 .. 1439 /\ c = ETDay(t) * 1440 + ETMinute(t)
  BY <1>4, <1>5
<1> QED BY <1>1, <1>2, <1>6 DEF c

(* A time of a day is that day's.                                          *)
LEMMA DayAndMinute ==
  ASSUME NEW c \in Int, NEW day \in Int, NEW m \in 0 .. 1439, c = day * 1440 + m
  PROVE  c \div 1440 = day /\ c % 1440 = m
OBVIOUS

(* The date of a day, and of the one before.                               *)
LEMMA DateOfDay ==
  ASSUME NEW day \in Int
  PROVE  /\ DayOfMonth(day) \in Int
         /\ DayOfMonth(day) # 1 => DayOfMonth(day - 1) = DayOfMonth(day) - 1
<1> DEFINE x == FirstDate - 1 + day
<1>1. x \in Int /\ FirstDate - 1 + (day - 1) = x - 1 /\ MonthLength \in {28, 29, 30, 31}
  BY CalendarAssumption
<1> HIDE DEF x
<1>2. x % MonthLength \in Int /\ (x % MonthLength # 0 => (x - 1) % MonthLength = (x % MonthLength) - 1)
  <2>1. CASE MonthLength = 28
    BY <1>1, <2>1
  <2>2. CASE MonthLength = 29
    BY <1>1, <2>2
  <2>3. CASE MonthLength = 30
    BY <1>1, <2>3
  <2>4. CASE MonthLength = 31
    BY <1>1, <2>4
  <2> QED BY <1>1, <2>1, <2>2, <2>3, <2>4
<1>3. DayOfMonth(day) = (x % MonthLength) + 1 /\ DayOfMonth(day - 1) = ((x - 1) % MonthLength) + 1
  BY <1>1 DEF DayOfMonth, x
<1> QED BY <1>2, <1>3

(* What Intl prints is the minute, or that of the hour 24.                 *)
PrintsRight(m) ==
  PrintedMinute(m) \in Int /\ (PrintedMinute(m) = m \/ PrintedMinute(m) = m + 1440)
Minutes == 0 .. 1439

(* Intl prints what it should.                                             *)
LEMMA Printed ==
  ASSUME NEW m \in Minutes
  PROVE  PrintsRight(m)
<1>1. MidnightHour = 0 \/ MidnightHour = 24
  BY CalendarAssumption, Zenon
<1>2. PrintedMinute(m) = IF m < 60 THEN MidnightHour * 60 + m ELSE m
  BY DEF PrintedMinute, At
<1>3. m \in Int
  BY DEF Minutes
<1>4. CASE MidnightHour = 0
  BY <1>2, <1>3, <1>4 DEF PrintsRight
<1>5. CASE MidnightHour = 24
  BY <1>2, <1>3, <1>5 DEF PrintsRight
<1> QED BY <1>1, <1>4, <1>5

(* The offset the code computes from two printed clocks is right, unless   *)
(* the two show different months.                                          *)
LEMMA OffsetRight ==
  ASSUME NEW t \in Int, ETDay(t) = t \div 1440 \/ DayOfMonth(t \div 1440) # 1
  PROVE  GetETOffsetMinutes(t) = IF t < FallBack THEN -240 ELSE -300
<1> DEFINE off == IF t < FallBack THEN -240 ELSE -300
           ud == t \div 1440
           um == t % 1440
           ed == ETDay(t)
           em == ETMinute(t)
           dd == DayOfMonth(ed) - DayOfMonth(ud)
           diff == dd * 1440 + PrintedMinute(em) - PrintedMinute(um)
<1>1. /\ ud \in Int /\ um \in 0 .. 1439 /\ t = ud * 1440 + um
      /\ ed \in Int /\ em \in 0 .. 1439 /\ t + off = ed * 1440 + em
      /\ off \in {-240, -300}
  <2>1. /\ ud \in Int /\ um \in 0 .. 1439 /\ t = ud * 1440 + um
    BY Division
  <2>2. /\ ed \in Int /\ em \in 0 .. 1439 /\ t + off = ed * 1440 + em
    <3>1. /\ ed \in Int /\ em \in 0 .. 1439 /\ ETClock(t) = ed * 1440 + em
          /\ ETClock(t) = IF t < FallBack THEN t - 240 ELSE t - 300
      <4> HIDE DEF off, ud, um, dd, diff
      <4> QED BY ClockTypes DEF ed, em
    <3>2. ETClock(t) = t + off
      BY <3>1
    <3> QED BY <3>1, <3>2
  <2>3. off \in {-240, -300}
    OBVIOUS
  <2> HIDE DEF off, ud, um, ed, em
  <2> QED BY <2>1, <2>2, <2>3
<1> HIDE DEF off, ud, um, ed, em
<1>2. ed = ud \/ ed = ud - 1
  <2>1. ud * 1440 + um + off = ed * 1440 + em
    BY <1>1
  <2>2. off \in Int /\ -300 <= off /\ off <= -240 /\ um \in Int /\ em \in Int
        /\ 0 <= um /\ um < 1440 /\ 0 <= em /\ em < 1440 /\ ud \in Int /\ ed \in Int
    BY <1>1
  <2>3. 1440 * (ed - ud) < 1440 /\ 1440 * (ed - ud) > -2880
    BY <2>1, <2>2
  <2>4. ed - ud < 1 /\ ed - ud > -2
    BY <2>2, <2>3
  <2> QED BY <2>2, <2>4
<1>3. dd = ed - ud
  <2>1. ed = ud \/ DayOfMonth(ud) # 1
    BY DEF ed, ud
  <2>2. DayOfMonth(ud) \in Int /\ (DayOfMonth(ud) # 1 => DayOfMonth(ud - 1) = DayOfMonth(ud) - 1)
    BY <1>1, DateOfDay
  <2>3. dd = DayOfMonth(ed) - DayOfMonth(ud)
    BY DEF dd
  <2>4. CASE ed = ud
    BY <1>1, <2>2, <2>3, <2>4
  <2>5. CASE ed = ud - 1 /\ ed # ud
    BY <1>1, <2>1, <2>2, <2>3, <2>5
  <2> QED BY <1>2, <2>4, <2>5
<1>5. GetETOffsetMinutes(t) = IF diff > 12 * 60 THEN diff - 1440
                              ELSE IF diff < -12 * 60 THEN diff + 1440 ELSE diff
  BY DEF GetETOffsetMinutes, DayLength, ud, um, ed, em
<1> DEFINE pe == PrintedMinute(em)
           pu == PrintedMinute(um)
<1>6. pe \in Int /\ pu \in Int /\ (pe = em \/ pe = em + 1440) /\ (pu = um \/ pu = um + 1440)
  <2>1. em \in Minutes /\ um \in Minutes
    BY <1>1 DEF Minutes
  <2>2. PrintsRight(em) /\ PrintsRight(um)
    BY <2>1, Printed
  <2> QED BY <2>2 DEF PrintsRight
<1>7. diff = (ed - ud) * 1440 + pe - pu
  BY <1>3 DEF dd, pe, pu
<1>8. diff \in {off, off + 1440, off - 1440}
  <2> HIDE DEF dd, pe, pu, diff
  <2> QED BY <1>1, <1>6, <1>7
<1>9. GetETOffsetMinutes(t) = off
  <2> HIDE DEF diff
  <2> QED BY <1>1, <1>5, <1>8
<1> QED BY <1>9 DEF off

(* The close of a day is at its hour of the New York clock.                *)
LEMMA CloseRight ==
  ASSUME NEW day \in Int, NEW date
  PROVE  LET close == ComputeCloseForDate(day, date)
             minute == At(GetCloseHour(date), 0) IN
         /\ minute \in {780, 960}
         /\ close \in Int
         /\ ETClock(close) = day * 1440 + minute
         /\ ETDay(close) = day /\ ETMinute(close) = minute
<1> DEFINE minute == At(GetCloseHour(date), 0)
           c == day * 1440 + minute
           off == IF c < FallBack THEN -240 ELSE -300
           close == ComputeCloseForDate(day, date)
<1>1. minute \in {780, 960}
  BY DEF At, GetCloseHour
<1> HIDE DEF minute
<1>2. c \in Int /\ c \div 1440 = day /\ c = day * 1440 + minute
  BY <1>1, DayAndMinute
<1>3. ETDay(c) = day
  <2> DEFINE e == ETClock(c)
             m == IF c < FallBack THEN minute - 240 ELSE minute - 300
  <2> HIDE DEF c
  <2>1. e \in Int /\ e = IF c < FallBack THEN c - 240 ELSE c - 300
    BY <1>2, ClockTypes
  <2>2. ETDay(c) = e \div 1440
    BY DEF ETDay, DayLength
  <2> HIDE DEF e
  <2>3. e = day * 1440 + m /\ m \in 0 .. 1439
    BY <1>1, <1>2, <2>1
  <2> HIDE DEF m
  <2>4. e \in Int
    BY <2>1
  <2>5. e \div 1440 = day
    BY <2>3, <2>4
  <2> QED BY <2>2, <2>5
<1>4. GetETOffsetMinutes(c) = off
  <2> HIDE DEF c
  <2> QED BY <1>2, <1>3, OffsetRight
<1>5. close = c - off
  <2>1. DayLength = 1440
    BY DEF DayLength
  <2>2. close = day * DayLength + minute - GetETOffsetMinutes(day * DayLength + minute)
    BY Zenon DEF ComputeCloseForDate, minute
  <2> QED BY <1>1, <1>4, <2>1, <2>2
<1> DEFINE days == FallBack \div 1440
<1>6. days \in Int /\ FallBack = days * 1440 + 360
  <2>1. FallBack \in Int
    BY CalendarAssumption, Zenon
  <2>2. FallBack % 1440 = 360
    BY CalendarAssumption DEF At, DayLength
  <2> QED BY <2>1, <2>2, Division
<1>7. close < FallBack <=> c < FallBack
  <2> HIDE DEF days, close
  <2>1. c < FallBack => close < FallBack
    BY <1>1, <1>2, <1>5, <1>6
  <2>2. ~(c < FallBack) => ~(close < FallBack)
    BY <1>1, <1>2, <1>5, <1>6
  <2> QED BY <2>1, <2>2
<1>8. close \in Int /\ ETClock(close) = c
  <2>1. close \in Int
    BY <1>2, <1>5
  <2> HIDE DEF c, close
  <2>2. ETClock(close) = IF close < FallBack THEN close - 240 ELSE close - 300
    BY <2>1, ClockTypes
  <2> QED BY <1>2, <1>5, <1>7, <2>1, <2>2
<1> HIDE DEF close
<1>9. ETDay(close) = day /\ ETMinute(close) = minute
  <2>1. ETDay(close) = c \div 1440 /\ ETMinute(close) = c % 1440
    BY <1>8 DEF ETDay, ETMinute, DayLength
  <2>2. minute \in 0 .. 1439
    BY <1>1
  <2> HIDE DEF c
  <2> QED BY <1>2, <2>1, <2>2
<1> QED BY <1>1, <1>8, <1>9 DEF minute, close

(* A finite set of integers has a least and a greatest member.             *)
HasEnds(T) == T # {} => (\E x \in T : \A y \in T : x <= y) /\ (\E x \in T : \A y \in T : x >= y)

(* So it has.                                                              *)
LEMMA EndsExist ==
  ASSUME NEW S \in SUBSET Int, IsFiniteSet(S)
  PROVE  HasEnds(S)
<1> DEFINE E == {T \in SUBSET S : HasEnds(T)}
<1>1. {} \in E
  BY DEF HasEnds
<1>2. ASSUME NEW T \in SUBSET S, NEW x \in S \ T, T \in E
      PROVE  T \cup {x} \in E
  <2>1. CASE T = {}
    <3>1. T \cup {x} = {x} /\ x <= x /\ x >= x
      BY <2>1
    <3> QED BY <3>1 DEF HasEnds
  <2>2. CASE T # {}
    <3>1. PICK a \in T, b \in T : \A y \in T : a <= y /\ b >= y
      BY <1>2, <2>2 DEF HasEnds
    <3>2. \E z \in T \cup {x} : \A y \in T \cup {x} : z <= y
      <4>1. CASE x <= a
        BY <3>1, <4>1
      <4>2. CASE ~(x <= a)
        BY <3>1, <4>2
      <4> QED BY <4>1, <4>2
    <3>3. \E z \in T \cup {x} : \A y \in T \cup {x} : z >= y
      <4>1. CASE x >= b
        BY <3>1, <4>1
      <4>2. CASE ~(x >= b)
        BY <3>1, <4>2
      <4> QED BY <4>1, <4>2
    <3> QED BY <3>2, <3>3 DEF HasEnds
  <2> QED BY <2>1, <2>2
<1> HIDE DEF E
<1>3. \A T \in SUBSET S : T \in E
  BY <1>1, <1>2, SetInduction
<1> QED BY <1>3 DEF E

(* What Min and Max choose.                                                *)
LEMMA MinMax ==
  ASSUME NEW S \in SUBSET Int, IsFiniteSet(S), S # {}
  PROVE  /\ Min(S) \in S /\ \A y \in S : Min(S) <= y
         /\ Max(S) \in S /\ \A y \in S : Max(S) >= y
<1>1. HasEnds(S)
  BY EndsExist
<1> QED BY <1>1 DEF HasEnds, Min, Max

(* The day the search for the next trading day comes to.                   *)
LEMMA NextDayFound ==
  ASSUME NEW day \in Int
  PROVE  LET S == TradingDaysAfter(day)
             next == IF S = {} THEN day + 1 ELSE Min(S) IN
         /\ next \in Int /\ day < next /\ next <= day + 7
         /\ S # {} => IsMarketDay(next) /\ \A d \in day + 1 .. next - 1 : ~IsMarketDay(d)
         /\ FindNextTradingDayClose(day) = ComputeCloseForDate(next, next - 1)
<1> DEFINE S == TradingDaysAfter(day)
           next == IF S = {} THEN day + 1 ELSE Min(S)
<1>1. S \in SUBSET Int /\ IsFiniteSet(S)
  <2>1. day + 1 \in Int /\ day + 7 \in Int
    OBVIOUS
  <2>2. IsFiniteSet(day + 1 .. day + 7)
    BY <2>1, FS_Interval
  <2> QED BY <2>2, FS_Subset DEF TradingDaysAfter
<1>2. S # {} => Min(S) \in S /\ \A y \in S : Min(S) <= y
  <2> HIDE DEF S
  <2> QED BY <1>1, MinMax
<1>3. next \in Int /\ day < next /\ next <= day + 7
  BY <1>2 DEF TradingDaysAfter
<1>4. S # {} => IsMarketDay(next)
  BY <1>2 DEF TradingDaysAfter
<1>5. ASSUME S # {}, NEW d \in day + 1 .. next - 1, IsMarketDay(d)
      PROVE  FALSE
  <2>1. next = Min(S)
    BY <1>5
  <2> HIDE DEF next
  <2>2. d \in day + 1 .. day + 7 /\ d < next
    BY <1>3, <1>5
  <2>3. d \in S
    BY <1>5, <2>2 DEF TradingDaysAfter
  <2> QED BY <1>2, <1>3, <1>5, <2>1, <2>2, <2>3
<1>6. FindNextTradingDayClose(day) = ComputeCloseForDate(next, ETDay(next * DayLength))
  BY Zenon DEF FindNextTradingDayClose
<1> HIDE DEF next
<1>7. ETDay(next * DayLength) = next - 1
  <2> DEFINE v == next * 1440
             e == ETClock(v)
  <2>1. v \in Int /\ v = next * 1440
    BY <1>3
  <2> HIDE DEF v
  <2>2. e \in Int /\ e = IF v < FallBack THEN v - 240 ELSE v - 300
    BY <2>1, ClockTypes
  <2>3. ETDay(next * DayLength) = e \div 1440
    BY DEF ETDay, DayLength, v
  <2> HIDE DEF e
  <2>4. (next - 1) * 1440 <= e /\ e < (next - 1) * 1440 + 1440
    BY <1>3, <2>1, <2>2
  <2> QED BY <1>3, <2>2, <2>3, <2>4
<1> QED BY <1>3, <1>4, <1>5, <1>6, <1>7 DEF next

(* Where clocks fall back.                                                 *)
LEMMA FallBackDay ==
  \E days \in Int : FallBack = days * 1440 + 360
<1>1. FallBack \in Int
  BY CalendarAssumption, Zenon
<1>2. FallBack % 1440 = 360
  BY CalendarAssumption DEF At, DayLength
<1>3. FallBack = (FallBack \div 1440) * 1440 + 360 /\ FallBack \div 1440 \in Int
  BY <1>1, <1>2, Division
<1> QED BY <1>3

(* Around a close the clocks do not turn: what is earlier by the clock on  *)
(* the wall is earlier.                                                    *)
LEMMA ClockOrder ==
  ASSUME NEW t \in Int, NEW close \in Int, ETMinute(close) \in {780, 960}
  PROVE  t < close <=> ETClock(t) < ETClock(close)
<1> DEFINE day == ETDay(close)
           minute == ETMinute(close)
<1>1. PICK days \in Int : FallBack = days * 1440 + 360
  BY FallBackDay
<1>2. /\ ETClock(t) = IF t < FallBack THEN t - 240 ELSE t - 300
      /\ ETClock(close) = IF close < FallBack THEN close - 240 ELSE close - 300
      /\ ETClock(close) = day * 1440 + minute
      /\ day \in Int /\ minute \in {780, 960}
  BY ClockTypes
<1> HIDE DEF day, minute
<1>3. CASE close < FallBack
  <2>1. day <= days
    BY <1>1, <1>2, <1>3
  <2>2. day < days
    BY <1>1, <1>2, <1>3, <2>1
  <2>3. close + 60 < FallBack
    BY <1>1, <1>2, <1>3, <2>2
  <2> QED BY <1>1, <1>2, <1>3, <2>3
<1>4. CASE ~(close < FallBack)
  BY <1>1, <1>2, <1>4
<1> QED BY <1>3, <1>4

(* No trading day lies between two days.                                   *)
NoneBetween(a, b) == \A d \in a + 1 .. b - 1 : ~IsMarketDay(d)

(* The close the initializer computes.                                     *)
LEMMA ClosePlanned ==
  ASSUME NEW t \in Int
  PROVE  LET close == ComputeMarketClose(t)
             today == ETDay(t) IN
         /\ close \in Int /\ t < close
         /\ ETMinute(close) \in {780, 960}
         /\ ETMinute(close)
              = At(GetCloseHour(IF ETDay(close) = today THEN today ELSE ETDay(close) - 1), 0)
         /\ ETDay(close) \in today .. today + 7
         /\ \E day, date \in today .. today + 7 : close = ComputeCloseForDate(day, date)
         /\ IsMarketDay(today) /\ ETMinute(t) < At(GetCloseHour(today), 0)
              => close = ComputeCloseForDate(today, today)
         /\ TradingDaysAfter(today) # {} =>
              /\ IsMarketDay(ETDay(close))
              /\ NoneBetween(today, ETDay(close))
              /\ ETDay(close) # today /\ IsMarketDay(today)
                   => ETMinute(t) >= At(GetCloseHour(today), 0)
<1> DEFINE today == ETDay(t)
           m == ETMinute(t)
           minute == At(GetCloseHour(today), 0)
           close == ComputeCloseForDate(today, today)
           S == TradingDaysAfter(today)
           next == IF S = {} THEN today + 1 ELSE Min(S)
           after == FindNextTradingDayClose(today)
           plan == ComputeMarketClose(t)
<1>1. today \in Int /\ m \in 0 .. 1439 /\ ETClock(t) = today * 1440 + m /\ ETClock(t) \in Int
  BY ClockTypes
<1>2. /\ minute \in {780, 960} /\ close \in Int
      /\ ETClock(close) = today * 1440 + minute
      /\ ETDay(close) = today /\ ETMinute(close) = minute
  <2> HIDE DEF today
  <2> QED BY <1>1, CloseRight
<1>3. t < close <=> m < minute
  <2>1. t < close <=> ETClock(t) < ETClock(close)
    <3> HIDE DEF close, minute
    <3> QED BY <1>2, ClockOrder
  <2> HIDE DEF today, m, minute, close
  <2> QED BY <1>1, <1>2, <2>1
<1>4. /\ next \in Int /\ today < next /\ next <= today + 7
      /\ S # {} => IsMarketDay(next) /\ \A d \in today + 1 .. next - 1 : ~IsMarketDay(d)
      /\ after = ComputeCloseForDate(next, next - 1)
  <2> HIDE DEF today
  <2>1. today \in Int
    BY <1>1
  <2>2. next \in Int /\ today < next /\ next <= today + 7
    BY <2>1, NextDayFound
  <2>3. S # {} => IsMarketDay(next) /\ \A d \in today + 1 .. next - 1 : ~IsMarketDay(d)
    BY <2>1, NextDayFound
  <2>4. after = ComputeCloseForDate(next, next - 1)
    BY <2>1, NextDayFound
  <2> QED BY <2>2, <2>3, <2>4
<1>5. after = ComputeCloseForDate(next, next - 1)
  BY <1>4
<1>6. /\ after \in Int /\ ETMinute(after) \in {780, 960} /\ ETDay(after) = next
      /\ ETClock(after) >= next * 1440 + 780
      /\ ETMinute(after) = At(GetCloseHour(next - 1), 0)
  <2> HIDE DEF next, after
  <2> QED BY <1>4, <1>5, CloseRight
<1>7. t < after
  <2>1. t < after <=> ETClock(t) < ETClock(after)
    <3> HIDE DEF after
    <3> QED BY <1>6, ClockOrder
  <2>2. ETClock(after) \in Int
    <3> HIDE DEF after
    <3> QED BY <1>6, ClockTypes
  <2> HIDE DEF today, m, next, after
  <2> QED BY <1>1, <1>4, <1>6, <2>1, <2>2
<1>8. plan = IF close <= t \/ (~IsMarketDay(today) /\ S # {}) THEN after ELSE close
  BY Zenon DEF ComputeMarketClose
<1> HIDE DEF today, m, minute, close, S, next, after, plan
<1>9. CASE close <= t \/ (~IsMarketDay(today) /\ S # {})
  <2>1. plan = after
    BY <1>8, <1>9
  <2>2. ~(m < minute) \/ ~IsMarketDay(today)
    BY <1>2, <1>3, <1>9
  <2>3. next \in today .. today + 7 /\ next - 1 \in today .. today + 7
    BY <1>1, <1>4
  <2>4. IsMarketDay(today) => m >= minute
    BY <1>1, <1>2, <2>2
  <2>5. S # {} => NoneBetween(today, next)
    BY <1>4 DEF NoneBetween
  <2>6. ETMinute(plan) = At(GetCloseHour(IF ETDay(plan) = today THEN today ELSE ETDay(plan) - 1), 0)
    <3>1. ETDay(plan) = next /\ next # today /\ ETMinute(plan) = At(GetCloseHour(next - 1), 0)
      BY <1>1, <1>4, <1>6, <2>1
    <3> QED BY <3>1
  <2> QED BY <1>4, <1>5, <1>6, <1>7, <2>1, <2>2, <2>3, <2>4, <2>5, <2>6 DEF today, m, minute, close, S, plan
<1>10. CASE ~(close <= t \/ (~IsMarketDay(today) /\ S # {}))
  <2>1. plan = close
    BY <1>8, <1>10
  <2>2. t < close
    BY <1>2, <1>10
  <2>3. today \in today .. today + 7 /\ NoneBetween(today, today)
    BY <1>1 DEF NoneBetween
  <2>4. S # {} => IsMarketDay(today)
    BY <1>10
  <2>5. ETMinute(plan) = At(GetCloseHour(IF ETDay(plan) = today THEN today ELSE ETDay(plan) - 1), 0)
    BY <1>2, <2>1 DEF minute
  <2> QED BY <1>2, <2>1, <2>2, <2>3, <2>4, <2>5 DEF today, m, minute, close, S, plan
<1> QED BY <1>9, <1>10

(* Whatever the calendar and the time: if there is a trading day within a  *)
(* week, the close planned is that of the first session that is not over,  *)
(* at the hour of that day when it is planned on the day itself, and at    *)
(* the hour of the calendar day before when it is planned earlier          *)
(* (computeMarketClose and findNextTradingDayClose of the initializer).    *)
THEOREM PlansAreRight ==
  ASSUME NEW times \in SUBSET Int, \A t \in times : TradingDaysAfter(ETDay(t)) # {}
  PROVE  PlansRight(times)
<1> SUFFICES ASSUME NEW t \in times
             PROVE  LET close == ComputeMarketClose(t)
                        today == ETDay(t)
                        day   == ETDay(close)
                    IN /\ t < close
                       /\ IsMarketDay(day)
                       /\ ETMinute(close) = At(GetCloseHour(IF day = today THEN today ELSE day - 1), 0)
                       /\ \A over \in today .. day - 1 :
                            IsMarketDay(over) => over = today /\ At(GetCloseHour(today), 0) <= ETMinute(t)
  BY Zenon DEF PlansRight
<1> DEFINE close == ComputeMarketClose(t)
           today == ETDay(t)
           day   == ETDay(close)
           minute == At(GetCloseHour(today), 0)
<1>0. t \in Int /\ TradingDaysAfter(today) # {}
  OBVIOUS
<1>1. t < close /\ day \in today .. today + 7
  BY <1>0, ClosePlanned
<1>2. IsMarketDay(day)
  BY <1>0, ClosePlanned
<1>3. ETMinute(close) = At(GetCloseHour(IF day = today THEN today ELSE day - 1), 0)
  BY <1>0, ClosePlanned
<1>4. \A d \in today + 1 .. day - 1 : ~IsMarketDay(d)
  <2>1. NoneBetween(today, day)
    BY <1>0, ClosePlanned
  <2> QED BY <2>1 DEF NoneBetween
<1>5. day # today /\ IsMarketDay(today) => ETMinute(t) >= minute
  BY <1>0, ClosePlanned
<1>6. today \in Int /\ ETMinute(t) \in Int /\ minute \in Int
  <2>1. today \in Int /\ ETMinute(t) \in Int
    BY <1>0, ClockParts
  <2>2. minute \in Int
    BY DEF At, GetCloseHour
  <2> QED BY <2>1, <2>2
<1> HIDE DEF close, day, today, minute
<1>7. ASSUME NEW over \in today .. day - 1, IsMarketDay(over)
      PROVE  over = today /\ minute <= ETMinute(t)
  <2>1. over = today \/ over \in today + 1 .. day - 1
    BY <1>1, <1>6
  <2>2. over = today
    BY <1>4, <1>7, <2>1
  <2>3. day # today
    BY <1>1, <1>6, <1>7, <2>2
  <2>4. ETMinute(t) >= minute
    BY <1>5, <1>7, <2>2, <2>3
  <2> QED BY <1>6, <2>2, <2>4
<1> QED BY <1>1, <1>2, <1>3, <1>7 DEF close, day, today, minute

(* The hours the services go by cover every session of every calendar.     *)
THEOREM HoursAreRight ==
  ASSUME NEW times \in SUBSET Int
  PROVE  HoursRight(times)
<1> SUFFICES ASSUME NEW t \in times
             PROVE  /\ SessionOpen(t) => IsDuringMarketHours(t) /\ SyntheticState(t) = "open"
                    /\ MarketState(t) = "premarket" => SyntheticState(t) = "premarket"
  BY DEF HoursRight
<1>0. t \in Int
  OBVIOUS
<1> DEFINE m == ETMinute(t)
           printed == PrintedMinute(m)
<1>1. /\ m \in Int /\ 0 <= m /\ m <= 1439
      /\ m >= 60 => printed = m
      /\ printed \in Int
  <2>1. m \in Int /\ 0 <= m /\ m <= 1439
    BY <1>0, ClockParts
  <2>2. MidnightHour \in {0, 24}
    BY CalendarAssumption, Zenon
  <2> HIDE DEF m
  <2> QED BY <2>1, <2>2 DEF PrintedMinute, At
<1>2. /\ At(9, 30) = 570 /\ At(4, 0) = 240 /\ At(16, 0) = 960
      /\ At(GetCloseHour(ETDay(t)), 0) \in {780, 960}
  BY DEF At, GetCloseHour
<1>3. ASSUME SessionOpen(t)
      PROVE  IsDuringMarketHours(t) /\ SyntheticState(t) = "open"
  <2>1. WeekDay(ETDay(t)) \notin {0, 6} /\ 570 <= m /\ m < 960
    BY <1>1, <1>2, <1>3 DEF SessionOpen, IsMarketDay
  <2>2. 570 <= printed /\ printed < 960
    <3> HIDE DEF m, printed
    <3> QED BY <1>1, <2>1
  <2>3. IsDuringMarketHours(t)
    BY <1>1, <1>2, <2>1, <2>2 DEF IsDuringMarketHours
  <2> QED BY <1>1, <1>2, <2>1, <2>2, <2>3 DEF SyntheticState
<1>4. ASSUME MarketState(t) = "premarket"
      PROVE  SyntheticState(t) = "premarket"
  <2>1. WeekDay(ETDay(t)) \notin {0, 6} /\ 240 <= m /\ m < 570
    BY <1>1, <1>2, <1>4 DEF MarketState, IsMarketDay
  <2>2. 240 <= printed /\ printed < 570
    <3> HIDE DEF m, printed
    <3> QED BY <1>1, <2>1
  <2> QED BY <1>1, <1>2, <2>1, <2>2 DEF SyntheticState
<1> QED BY <1>3, <1>4

(* The minutes of the day the timers are set for: those of NextTime.       *)
JobTimes == {At(0, 1), At(8, 30), At(16, 5)}

(* The offset at a time of a day that is not the first of a month, or is   *)
(* late enough to be of the same day in New York.                          *)
LEMMA OffsetInDay ==
  ASSUME NEW day \in Int, NEW v \in day * 1440 .. day * 1440 + 1439,
         DayOfMonth(day) # 1 \/ v >= day * 1440 + 300
  PROVE  GetETOffsetMinutes(v) = IF v < FallBack THEN -240 ELSE -300
<1>1. v \in Int /\ v \div 1440 = day
  OBVIOUS
<1>2. CASE v >= day * 1440 + 300
  <2> DEFINE e == ETClock(v)
  <2>1. e \in Int /\ e = IF v < FallBack THEN v - 240 ELSE v - 300
    BY <1>1, ClockTypes
  <2>2. ETDay(v) = e \div 1440
    BY DEF ETDay, DayLength
  <2> HIDE DEF e
  <2>3. day * 1440 <= e /\ e < day * 1440 + 1440
    BY <1>1, <1>2, <2>1
  <2>4. e \div 1440 = day
    BY <2>1, <2>3
  <2> QED BY <1>1, <2>2, <2>4, OffsetRight
<1>3. CASE DayOfMonth(day) # 1
  BY <1>1, <1>3, OffsetRight
<1> QED BY <1>2, <1>3

(* The instant at which the clock shows a job's time on a day.             *)
TimerOf(day, target) ==
  LET asUtc  == day * DayLength + target
      offset == GetETOffsetMinutes(asUtc)
      verify == GetETOffsetMinutes(asUtc - offset)
  IN asUtc - Max({offset, verify})

(* It rings when the clock, at that instant, shows the target of the day.  *)
RingsAt(timer, day, target) ==
  timer = IF timer < FallBack THEN day * 1440 + target + 240 ELSE day * 1440 + target + 300

(* A timer is set for the target, by the clock at the time it rings.       *)
LEMMA TimerRight ==
  ASSUME NEW day \in Int, NEW target \in {1, 510, 965}, DayOfMonth(day) # 1 \/ target # 1
  PROVE  /\ TimerOf(day, target) \in Int
         /\ RingsAt(TimerOf(day, target), day, target)
<1> DEFINE asUtc == day * 1440 + target
           offset == GetETOffsetMinutes(asUtc)
           u == asUtc - offset
           verify == GetETOffsetMinutes(u)
           next == asUtc - Max({offset, verify})
<1>0. PICK days \in Int : FallBack = days * 1440 + 360
  BY FallBackDay
<1>1. asUtc \in Int /\ asUtc \div 1440 = day
  BY DayAndMinute
<1>3. offset = IF asUtc < FallBack THEN -240 ELSE -300
  <2>1. asUtc \in day * 1440 .. day * 1440 + 1439 /\ (target # 1 => asUtc >= day * 1440 + 300)
    OBVIOUS
  <2> HIDE DEF asUtc
  <2> QED BY <1>1, <2>1, OffsetInDay
<1>4. u \in Int /\ offset \in {-240, -300} /\ u = asUtc - offset
  <2> HIDE DEF asUtc, offset
  <2> QED BY <1>1, <1>3
<1>5. verify = IF u < FallBack THEN -240 ELSE -300
  <2> HIDE DEF offset
  <2>1. u \in day * 1440 .. day * 1440 + 1439 /\ (target # 1 => u >= day * 1440 + 300)
    BY <1>4
  <2> HIDE DEF u
  <2> QED BY <1>4, <2>1, OffsetInDay
<1>6. Max({offset, verify}) = IF asUtc < FallBack THEN -240 ELSE -300
  <2> HIDE DEF offset, verify, u
  <2>1. offset \in {-240, -300} /\ verify \in {-240, -300}
    BY <1>4, <1>5
  <2>2. IsFiniteSet({offset, verify}) /\ {offset, verify} \in SUBSET Int
    <3>1. {} \cup {offset} = {offset} /\ {offset} \cup {verify} = {offset, verify}
      OBVIOUS
    <3>2. IsFiniteSet({offset})
      BY <3>1, FS_EmptySet, FS_AddElement
    <3>3. IsFiniteSet({offset} \cup {verify})
      BY <3>2, FS_AddElement
    <3> QED BY <2>1, <3>1, <3>3
  <2> DEFINE S == {offset, verify}
             x == Max(S)
  <2>3. x \in S /\ \A y \in S : x >= y
    <3> HIDE DEF S
    <3>1. S \in SUBSET Int /\ IsFiniteSet(S) /\ S # {}
      BY <2>2 DEF S
    <3> QED BY <3>1, MinMax
  <2>4. x = offset \/ x = verify
    BY <2>3
  <2>5. x >= offset /\ x >= verify
    BY <2>3
  <2> HIDE DEF x
  <2>6. x = IF asUtc < FallBack THEN -240 ELSE -300
    BY <1>0, <1>1, <1>3, <1>4, <1>5, <2>1, <2>4, <2>5
  <2> QED BY <2>6 DEF x
<1>7. next = IF asUtc < FallBack THEN asUtc + 240 ELSE asUtc + 300
  BY <1>1, <1>6
<1> HIDE DEF next
<1>8. next \in Int /\ next = IF next < FallBack THEN asUtc + 240 ELSE asUtc + 300
  BY <1>0, <1>1, <1>7
<1>9. DayLength = 1440
  BY DEF DayLength
<1>10. TimerOf(day, target) = next
  BY <1>9 DEF TimerOf, next
<1>11. RingsAt(next, day, target)
  BY <1>8 DEF RingsAt
<1> QED BY <1>8, <1>10, <1>11

(* The types of what a clock shows.                                        *)
LEMMA DayTyped ==
  ASSUME NEW v \in Int
  PROVE  ETDay(v) \in Int /\ ETMinute(v) \in Minutes
<1>1. ETClock(v) \in Int
  BY ClockTypes
<1> DEFINE e == ETClock(v)
<1>2. ETDay(v) = e \div 1440 /\ ETMinute(v) = e % 1440
  BY DEF ETDay, ETMinute, DayLength
<1> HIDE DEF e
<1>3. e \in Int
  BY <1>1 DEF e
<1>4. e \div 1440 \in Int /\ e % 1440 \in 0 .. 1439
  BY <1>3, Division
<1> QED BY <1>2, <1>4 DEF Minutes

(* The offset of a clock is an integer.                                    *)
LEMMA OffsetTyped ==
  ASSUME NEW v \in Int
  PROVE  GetETOffsetMinutes(v) \in Int
<1> DEFINE a == DayOfMonth(ETDay(v))
           b == DayOfMonth(v \div DayLength)
           c == PrintedMinute(ETMinute(v))
           d == PrintedMinute(v % DayLength)
           diff == (a - b) * DayLength + c - d
<1>1. DayLength = 1440 /\ v \div 1440 \in Int /\ v % 1440 \in Minutes /\ ETDay(v) \in Int /\ ETMinute(v) \in Minutes
  <2>1. DayLength = 1440
    BY DEF DayLength
  <2>2. v \div 1440 \in Int /\ v % 1440 \in Minutes
    BY Division DEF Minutes
  <2>3. ETDay(v) \in Int /\ ETMinute(v) \in Minutes
    BY DayTyped
  <2> QED BY <2>1, <2>2, <2>3
<1>2. a \in Int /\ b \in Int
  BY <1>1, DateOfDay
<1>3. c \in Int /\ d \in Int
  <2>1. PrintsRight(ETMinute(v)) /\ PrintsRight(v % DayLength)
    BY <1>1, Printed
  <2> QED BY <2>1 DEF PrintsRight
<1>4. GetETOffsetMinutes(v) = IF diff > 12 * 60 THEN diff - DayLength
                              ELSE IF diff < -12 * 60 THEN diff + DayLength ELSE diff
  BY DEF GetETOffsetMinutes
<1> HIDE DEF a, b, c, d
<1>5. diff \in Int
  BY <1>1, <1>2, <1>3
<1> HIDE DEF diff
<1> QED BY <1>1, <1>4, <1>5

(* The day a timer is set for is the day it is meant for.                  *)
LEMMA DayRight ==
  ASSUME NEW t \in Int, NEW target \in {1, 510, 965}
  PROVE  /\ TargetDay(t, target) = DayMeant(t, target)
         /\ DayMeant(t, target) \in {ETDay(t), ETDay(t) + 1}
<1> DEFINE today == ETDay(t)
           m == ETMinute(t)
           late == ETDay(t + 1440)
<1>1. DayLength = 1440 /\ t + 1440 \in Int
  BY DEF DayLength
<1>2. today \in Int /\ m \in 0 .. 1439 /\ ETClock(t) \in Int /\ ETClock(t) = today * 1440 + m
      /\ ETClock(t) = IF t < FallBack THEN t - 240 ELSE t - 300
  BY ClockTypes
<1>3. ASSUME ~StillToday(t) PROVE late = today + 1
  <2> DEFINE v == t + 1440
             n == ETMinute(v)
  <2>1. v \in Int /\ v = t + 1440
    BY <1>1
  <2> HIDE DEF v
  <2>2. ETDay(v) \in Int /\ n \in 0 .. 1439 /\ ETClock(v) = ETDay(v) * 1440 + n
        /\ ETClock(v) = IF v < FallBack THEN v - 240 ELSE v - 300
    BY <2>1, ClockTypes
  <2>3. ETDay(v) = late /\ late # today
    BY <1>1, <1>3 DEF v, StillToday
  <2> HIDE DEF late, today, m, n
  <2>4. FallBack \in Int
    BY CalendarAssumption, Zenon
  <2> DEFINE x == ETClock(t)
             y == ETClock(v)
  <2>5. x \in Int /\ y \in Int /\ y - x <= 1440 /\ y - x >= 1380
    BY <1>2, <2>1, <2>2, <2>4
  <2>6. x = today * 1440 + m /\ y = late * 1440 + n
    BY <1>2, <2>2, <2>3
  <2> HIDE DEF x, y
  <2>7. late \in Int /\ today \in Int /\ late # today /\ m \in 0 .. 1439 /\ n \in 0 .. 1439
    BY <1>2, <2>2, <2>3
  <2>8. late * 1440 - today * 1440 < 2880 /\ late * 1440 - today * 1440 > 0 - 60
    BY <2>5, <2>6, <2>7
  <2> QED BY <2>7, <2>8
<1>4. PrintedMinute(m) >= target <=> TimeIsOver(t, target)
  <2>1. MidnightHour = 0 \/ MidnightHour = 24
    BY CalendarAssumption, Zenon
  <2>2. TimeIsOver(t, target) <=> target <= m \/ (MidnightHour = 24 /\ m < 60)
    BY DEF TimeIsOver
  <2>3. PrintedMinute(m) = IF m < 60 THEN MidnightHour * 60 + m ELSE m
    BY DEF PrintedMinute, At
  <2> HIDE DEF m
  <2>4. m \in Int /\ m >= 0 /\ target \in Int /\ target <= 965
    BY <1>2
  <2>5. CASE MidnightHour = 0
    BY <2>2, <2>3, <2>4, <2>5
  <2>6. CASE MidnightHour = 24
    BY <2>2, <2>3, <2>4, <2>6
  <2> QED BY <2>1, <2>5, <2>6
<1>5. TargetDay(t, target) = IF TimeIsOver(t, target) THEN late ELSE today
  <2>1. TargetDay(t, target) = IF PrintedMinute(m) >= target THEN ETDay(t + DayLength) ELSE today
    BY Zenon DEF TargetDay
  <2> HIDE DEF m, late, today
  <2> QED BY <1>1, <1>4, <2>1 DEF late
<1>6. DayMeant(t, target) = IF TimeIsOver(t, target) /\ ~StillToday(t) THEN today + 1 ELSE today
  BY Zenon DEF DayMeant
<1>7. StillToday(t) => late = today
  BY <1>1 DEF StillToday
<1> HIDE DEF today, m, late
<1>8. TargetDay(t, target) = DayMeant(t, target)
  BY <1>3, <1>5, <1>6, <1>7
<1>9. DayMeant(t, target) \in {today, today + 1}
  BY <1>6
<1> QED BY <1>8, <1>9 DEF today

(* What is first thing on the first of a month is looked up a month ago.   *)
LEMMA MonthsApart ==
  ASSUME NEW day \in Int, DayOfMonth(day) = 1
  PROVE  /\ GetETOffsetMinutes(day * 1440 + 1) \in Int
         /\ GetETOffsetMinutes(day * 1440 + 1) >= 36000
<1> DEFINE v == day * 1440 + 1
           em == ETMinute(v)
           ed == ETDay(v)
           dd == DayOfMonth(ed) - DayOfMonth(day)
<1>1. v \in Int /\ v = day * 1440 + 1 /\ v \div 1440 = day /\ v % 1440 = 1
  BY DayAndMinute
<1> HIDE DEF v
<1>2. /\ ed \in Int /\ em \in 0 .. 1439 /\ ETClock(v) = ed * 1440 + em
      /\ ETClock(v) = IF v < FallBack THEN v - 240 ELSE v - 300
  <2>1. v \in Int
    BY <1>1
  <2> HIDE DEF ed, em, dd
  <2> QED BY <2>1, ClockTypes DEF ed, em
<1>3. DayOfMonth(day - 1) = MonthLength /\ MonthLength \in {28, 29, 30, 31}
  <2> DEFINE x == FirstDate - 1 + day
  <2>1. x \in Int /\ FirstDate - 1 + (day - 1) = x - 1 /\ MonthLength \in {28, 29, 30, 31}
    BY CalendarAssumption
  <2> HIDE DEF x
  <2>2. DayOfMonth(day) = (x % MonthLength) + 1 /\ DayOfMonth(day - 1) = ((x - 1) % MonthLength) + 1
    BY <2>1 DEF DayOfMonth, x
  <2>3. x % MonthLength \in Int
    BY <2>1
  <2>4. x % MonthLength = 0
    BY <2>2, <2>3
  <2>5. (x - 1) % MonthLength = MonthLength - 1
    <3>1. CASE MonthLength = 28
      BY <2>1, <2>4, <3>1
    <3>2. CASE MonthLength = 29
      BY <2>1, <2>4, <3>2
    <3>3. CASE MonthLength = 30
      BY <2>1, <2>4, <3>3
    <3>4. CASE MonthLength = 31
      BY <2>1, <2>4, <3>4
    <3> QED BY <2>1, <3>1, <3>2, <3>3, <3>4
  <2> QED BY <2>1, <2>2, <2>5
<1> HIDE DEF em, ed
<1>4. ed = day - 1 /\ em >= 1141
  <2>1. ed * 1440 + em = day * 1440 + 1 - 240 \/ ed * 1440 + em = day * 1440 + 1 - 300
    BY <1>1, <1>2
  <2>2. ed - day < 0 /\ ed - day > -2
    BY <1>2, <2>1
  <2>3. ed = day - 1
    BY <1>2, <2>2
  <2> QED BY <1>2, <2>1, <2>3
<1>5. dd \in Int /\ dd >= 27
  BY <1>3, <1>4
<1> DEFINE pe == PrintedMinute(em)
           pu == PrintedMinute(1)
           diff == dd * 1440 + pe - pu
<1>6. pe \in Int /\ pu \in Int /\ pe >= 1141 /\ pu <= 1441
  <2>1. em \in Minutes /\ 1 \in Minutes
    BY <1>2 DEF Minutes
  <2>2. PrintsRight(em) /\ PrintsRight(1)
    BY <2>1, Printed
  <2>3. em \in Int
    BY <1>2
  <2> QED BY <1>4, <2>2, <2>3 DEF PrintsRight
<1>7. GetETOffsetMinutes(v) = IF diff > 12 * 60 THEN diff - 1440
                              ELSE IF diff < -12 * 60 THEN diff + 1440 ELSE diff
  BY <1>1 DEF GetETOffsetMinutes, DayLength, ed, em
<1>8. diff \in Int /\ diff >= 38000
  <2> HIDE DEF dd, pe, pu
  <2> QED BY <1>5, <1>6
<1>9. GetETOffsetMinutes(v) \in Int /\ GetETOffsetMinutes(v) >= 36000
  <2> HIDE DEF diff
  <2> QED BY <1>7, <1>8
<1> QED BY <1>9 DEF v

(* So such a timer lies weeks in the past.                                 *)
LEMMA TurnedTimer ==
  ASSUME NEW day \in Int, DayOfMonth(day) = 1
  PROVE  TimerOf(day, 1) \in Int /\ TimerOf(day, 1) <= day * 1440 - 30000
<1> DEFINE asUtc == day * DayLength + 1
           o == GetETOffsetMinutes(asUtc)
           w == asUtc - o
           u == GetETOffsetMinutes(w)
           S == {o, u}
           x == Max(S)
<1>1. asUtc \in Int /\ asUtc = day * 1440 + 1
  BY DEF DayLength
<1>2. o \in Int /\ o >= 36000
  <2>1. o = GetETOffsetMinutes(day * 1440 + 1)
    BY DEF DayLength
  <2> HIDE DEF o
  <2> QED BY <2>1, MonthsApart
<1>3. w \in Int
  <2> HIDE DEF asUtc, o
  <2> QED BY <1>1, <1>2
<1>4. u \in Int
  <2> HIDE DEF w
  <2> QED BY <1>3, OffsetTyped
<1>5. TimerOf(day, 1) = asUtc - x
  BY Zenon DEF TimerOf
<1> HIDE DEF asUtc, o, w, u
<1>6. S \in SUBSET Int /\ IsFiniteSet(S) /\ S # {} /\ o \in S
  <2>1. {} \cup {o} = {o} /\ {o} \cup {u} = S
    OBVIOUS
  <2>2. IsFiniteSet({o})
    BY <2>1, FS_EmptySet, FS_AddElement
  <2>3. IsFiniteSet({o} \cup {u})
    BY <2>2, FS_AddElement
  <2> QED BY <1>2, <1>4, <2>1, <2>3
<1> HIDE DEF S
<1>7. x \in Int /\ x >= o
  <2>1. x \in S /\ \A y \in S : x >= y
    BY <1>6, MinMax
  <2> HIDE DEF x
  <2> QED BY <1>6, <2>1
<1> HIDE DEF x
<1> QED BY <1>1, <1>2, <1>5, <1>7

(* The timers of the services: at whatever time the health check, the      *)
(* settlement trigger or the recalculation is set, it rings when the New   *)
(* York clock shows it on the day it is meant for, also across the end of  *)
(* daylight saving and where midnight prints as 24; but the recalculation  *)
(* set on the last day of a month is over before it is set                 *)
(* (getNextETTime of the services).                                        *)
THEOREM TimersAreRight ==
  ASSUME NEW times \in SUBSET Int, NEW targets \in SUBSET JobTimes
  PROVE  NextTimesRight(times, targets)
<1> SUFFICES ASSUME NEW t \in times, NEW target \in targets
             PROVE  LET next == GetNextETTime(t, target \div 60, target % 60) IN
                    IF MonthTurns(t, target)
                      THEN next < t
                      ELSE ETDay(next) = DayMeant(t, target) /\ ETMinute(next) = target
  BY ZenonT(60) DEF NextTimesRight
<1> DEFINE next == GetNextETTime(t, target \div 60, target % 60)
           day == DayMeant(t, target)
           today == ETDay(t)
<1>1. t \in Int /\ target \in {1, 510, 965}
  BY DEF JobTimes, At
<1>2. TargetDay(t, target) = day /\ day \in {today, today + 1} /\ today \in Int
  BY <1>1, DayRight, ClockTypes
<1>3. day \in Int
  <2> HIDE DEF day, today
  <2> QED BY <1>2
<1>4. next = TimerOf(day, target)
  <2>1. At(target \div 60, target % 60) = target
    BY <1>1 DEF At
  <2>2. GetNextETTime(t, target \div 60, target % 60)
          = TimerOf(TargetDay(t, At(target \div 60, target % 60)), At(target \div 60, target % 60))
    BY Zenon DEF GetNextETTime, TimerOf
  <2> HIDE DEF day
  <2> QED BY <1>2, <2>1, <2>2
<1>5. MonthTurns(t, target) <=> DayOfMonth(day) = 1 /\ target = 1
  <2>1. At(4, 0) = 240
    BY DEF At
  <2>2. target < 240 <=> target = 1
    BY <1>1
  <2> QED BY <2>1, <2>2 DEF MonthTurns
<1>6. CASE DayOfMonth(day) = 1 /\ target = 1
  <2> DEFINE c == ETClock(t)
  <2>1. c \in Int /\ c >= today * 1440 /\ t > c
    <3> DEFINE m == ETMinute(t)
    <3>1. /\ c \in Int /\ today \in Int /\ m \in 0 .. 1439 /\ c = today * 1440 + m
          /\ c = IF t < FallBack THEN t - 240 ELSE t - 300
      BY <1>1, ClockTypes
    <3> HIDE DEF c, today, m
    <3> QED BY <1>1, <3>1
  <2>2. next \in Int /\ next <= day * 1440 - 30000
    <3>1. next = TimerOf(day, 1)
      BY <1>4, <1>6
    <3> HIDE DEF next, day
    <3> QED BY <1>3, <1>6, <3>1, TurnedTimer
  <2> HIDE DEF c, next, day, today
  <2>3. next < t
    BY <1>1, <1>2, <2>1, <2>2
  <2> QED BY <1>5, <1>6, <2>3 DEF next
<1>7. CASE ~(DayOfMonth(day) = 1 /\ target = 1)
  <2> DEFINE timer == TimerOf(day, target)
             e == ETClock(timer)
  <2>1. timer \in Int /\ RingsAt(timer, day, target)
    <3> HIDE DEF day
    <3> QED BY <1>1, <1>3, <1>7, TimerRight
  <2> HIDE DEF day, timer
  <2>2. e \in Int /\ e = IF timer < FallBack THEN timer - 240 ELSE timer - 300
    BY <2>1, ClockTypes
  <2>3. ETDay(timer) = e \div 1440 /\ ETMinute(timer) = e % 1440
    BY DEF ETDay, ETMinute, DayLength
  <2> HIDE DEF e
  <2>4. e = day * 1440 + target
    BY <1>1, <1>3, <2>1, <2>2 DEF RingsAt
  <2>5. target \in 0 .. 1439
    BY <1>1
  <2>6. e \div 1440 = day /\ e % 1440 = target
    <3>1. e \in Int /\ day \in Int /\ target \in 0 .. 1439 /\ e = day * 1440 + target
      BY <1>3, <2>2, <2>4, <2>5
    <3> HIDE DEF next, today, day
    <3>2. e \div 1440 = day
      BY <3>1
    <3>3. e % 1440 = target
      BY <3>1
    <3> QED BY <3>2, <3>3
  <2>7. ETDay(next) = day /\ ETMinute(next) = target
    BY <1>4, <2>3, <2>6 DEF timer
  <2> QED BY <1>5, <1>7, <2>7 DEF day
<1> QED BY <1>6, <1>7

-----------------------------------------------------------------------------
(* The lock of the settlement service.                                     *)
Pcs == Phases \cup {"asleep", "loading", "idle"}
PriceTable == [Tickers -> Prices \cup {0}]
Cycle == [pc : Pcs, polled : BOOLEAN, prev : PriceTable, price : PriceTable]

LockInv == cycle \in [Callers -> Cycle] /\ OneCycle

lockState == <<lock, cycle, overtaken>>

(* What a step leaves to the lock.                                         *)
LEMMA LockUntouched ==
  ASSUME LockInv, UNCHANGED lockState
  PROVE  LockInv'
BY DEF LockInv, lockState, OneCycle, InCycle

(* A cycle that ends gives the lock back.                                  *)
LEMMA EndCycleStep ==
  ASSUME LockInv, NEW c \in Callers, InCycle(c), EndCycle(c)
  PROVE  LockInv'
<1>1. NoCycle(c) \in Cycle /\ NoCycle(c).pc \notin Phases
  BY DEF NoCycle, Cycle, Pcs, PriceTable, Resting, Phases
<1>2. cycle' \in [Callers -> Cycle] /\ \A d \in Callers : d # c => cycle'[d] = cycle[d]
  BY <1>1 DEF EndCycle, LockInv
<1>3. ~InCycle(c)' /\ \A d \in Callers : d # c => InCycle(d)' = InCycle(d)
  BY <1>1, <1>2 DEF InCycle, EndCycle, LockInv
<1>4. OneCycle'
  BY <1>3 DEF EndCycle, OneCycle, LockInv, Callers
<1> QED BY <1>2, <1>4 DEF LockInv

(* A cycle goes from one phase to another.                                 *)
LEMMA PhaseStep ==
  ASSUME LockInv, NEW c \in Callers, InCycle(c), NEW rec \in Cycle, rec.pc \in Phases,
         cycle' = [cycle EXCEPT ![c] = rec], UNCHANGED <<lock, overtaken>>
  PROVE  LockInv'
<1>1. cycle' \in [Callers -> Cycle]
  BY DEF LockInv
<1>2. \A d \in Callers : InCycle(d)' <=> InCycle(d)
  BY DEF InCycle, LockInv
<1> QED BY <1>1, <1>2 DEF LockInv, OneCycle, Callers

(* The same, when only the phase changes.                                  *)
LEMMA GoToStep ==
  ASSUME LockInv, NEW c \in Callers, InCycle(c), NEW pc \in Phases, GoTo(c, pc),
         UNCHANGED <<lock, overtaken>>
  PROVE  LockInv'
<1> DEFINE rec == [cycle[c] EXCEPT !.pc = pc]
<1>1. rec \in Cycle /\ rec.pc \in Phases
  BY DEF LockInv, Cycle, Pcs
<1>2. cycle' = [cycle EXCEPT ![c] = rec]
  BY DEF GoTo
<1> HIDE DEF rec
<1> QED BY <1>1, <1>2, PhaseStep

(* The cycle's own steps.                                                  *)
LEMMA CycleKeepsLock ==
  ASSUME LockInv, NEW c \in Callers, CycleStep(c)
  PROVE  LockInv'
<1>0. cycle[c] \in Cycle
  BY DEF LockInv
<1>1. ASSUME NEW q \in Polls(c), CheckClosed(c, q)
      PROVE  LockInv'
  <2> DEFINE rec == [cycle[c] EXCEPT !.pc = "confirm", !.prev = q, !.polled = TRUE]
  <2>1. q \in PriceTable
    BY DEF Polls, PriceTable
  <2>2. rec \in Cycle /\ rec.pc \in Phases /\ InCycle(c)
    BY <1>0, <1>1, <2>1 DEF Cycle, Pcs, Phases, InCycle, CheckClosed
  <2>3. cycle' = [cycle EXCEPT ![c] = rec] /\ UNCHANGED <<lock, overtaken>>
    BY <1>1 DEF CheckClosed
  <2> HIDE DEF rec
  <2> QED BY <2>2, <2>3, PhaseStep
<1>2. ASSUME NEW q \in Polls(c), PollAgain(c, q)
      PROVE  LockInv'
  <2> DEFINE price == [t \in Tickers |-> IF Matches(cycle[c].prev, q, t) THEN q[t] ELSE cycle[c].price[t]]
             done == \A t \in Tickers : price[t] # 0
             pc == IF done THEN "feeds" ELSE "confirm"
             rec == [cycle[c] EXCEPT !.pc = pc, !.prev = q, !.price = price, !.polled = TRUE]
  <2>1. q \in PriceTable /\ price \in PriceTable
    BY <1>0 DEF Polls, PriceTable, Cycle
  <2>2. pc \in Phases
    BY DEF Phases
  <2>3. cycle' = [cycle EXCEPT ![c] = rec] /\ UNCHANGED <<lock, overtaken>> /\ cycle[c].pc = "confirm"
    BY <1>2 DEF PollAgain
  <2> HIDE DEF price, pc
  <2>4. rec \in Cycle /\ rec.pc \in Phases /\ InCycle(c)
    BY <1>0, <2>1, <2>2, <2>3 DEF Cycle, Pcs, Phases, InCycle
  <2> HIDE DEF rec
  <2> QED BY <2>3, <2>4, PhaseStep
<1>3. CASE AbortOpen(c) \/ CycleFails(c) \/ UnpauseWithRetry(c)
  <2>1. InCycle(c) /\ EndCycle(c)
    BY <1>3 DEF AbortOpen, CycleFails, UnpauseWithRetry, InCycle, Phases
  <2> QED BY <2>1, EndCycleStep
<1>4. ASSUME \/ ConfirmTimesOut(c)
             \/ \E failed \in SUBSET Tickers : UpdateOracleFeeds(c, failed)
             \/ SettleExpired(c)
             \/ \E missed \in SUBSET Settled : CrankAndRedeem(c, missed)
             \/ CloseEligible(c)
             \/ InitNextDay(c)
             \/ InitAnswered(c)
      PROVE  LockInv'
  <2>1. /\ InCycle(c)
        /\ \E pc \in Phases : GoTo(c, pc)
        /\ UNCHANGED <<lock, overtaken>>
    BY <1>4, Zenon DEF ConfirmTimesOut, UpdateOracleFeeds, SettleExpired, CrankAndRedeem,
       CloseEligible, InitNextDay, InitAnswered, InCycle, Phases
  <2> QED BY <2>1, GoToStep
<1> QED BY <1>1, <1>2, <1>3, <1>4 DEF CycleStep

(* The poller takes the lock without a second look: if the trigger has it, *)
(* that is noted.                                                          *)
LEMMA PollerKeepsLock ==
  ASSUME LockInv, PollTest \/ PollLoaded
  PROVE  LockInv'
<1>0. "poll" \in Callers /\ "http" \in Callers /\ Callers = {"poll", "http"}
  BY DEF Callers
<1>1. CASE PollTest
  <2>1. cycle' = [cycle EXCEPT !["poll"].pc = "loading"] /\ UNCHANGED <<lock, overtaken>>
        /\ cycle["poll"].pc = "asleep"
    BY <1>1 DEF PollTest, GoTo
  <2>2. cycle' \in [Callers -> Cycle] /\ cycle'["http"] = cycle["http"]
        /\ cycle'["poll"].pc = "loading"
    BY <1>0, <2>1 DEF LockInv, Cycle, Pcs
  <2> QED BY <1>0, <2>1, <2>2 DEF LockInv, OneCycle, InCycle, Phases
<1>2. CASE PollLoaded /\ Expired # {}
  <2>1. cycle' = [cycle EXCEPT !["poll"].pc = "check"] /\ lock' = TRUE /\ overtaken' = InCycle("http")
    BY <1>2 DEF PollLoaded, GoTo
  <2>2. cycle' \in [Callers -> Cycle] /\ cycle'["http"] = cycle["http"] /\ cycle'["poll"].pc = "check"
    BY <1>0, <2>1 DEF LockInv, Cycle, Pcs, Phases
  <2> QED BY <1>0, <2>1, <2>2 DEF LockInv, OneCycle, InCycle, Phases
<1>3. CASE PollLoaded /\ Expired = {}
  <2>1. cycle' = [cycle EXCEPT !["poll"] = NoCycle("poll")] /\ UNCHANGED <<lock, overtaken>>
        /\ cycle["poll"].pc = "loading"
    BY <1>3 DEF PollLoaded
  <2>2. NoCycle("poll") \in Cycle /\ NoCycle("poll").pc = "asleep"
    BY DEF NoCycle, Cycle, Pcs, PriceTable, Resting
  <2>3. cycle' \in [Callers -> Cycle] /\ cycle'["http"] = cycle["http"] /\ cycle'["poll"].pc = "asleep"
    BY <1>0, <2>1, <2>2 DEF LockInv
  <2> QED BY <1>0, <2>1, <2>3 DEF LockInv, OneCycle, InCycle, Phases
<1> QED BY <1>1, <1>2, <1>3

(* A restart forgets lock and cycles.                                      *)
LEMMA RestartKeepsLock ==
  ASSUME LockInv, RestartService
  PROVE  LockInv'
<1>1. \A c \in Callers : NoCycle(c) \in Cycle /\ NoCycle(c).pc \notin Phases
  BY DEF NoCycle, Cycle, Pcs, PriceTable, Resting, Phases
<1>2. lock' = FALSE /\ cycle' = [c \in Callers |-> NoCycle(c)]
  BY DEF RestartService
<1>3. cycle' \in [Callers -> Cycle] /\ \A c \in Callers : ~InCycle(c)'
  BY <1>1, <1>2 DEF InCycle
<1> QED BY <1>2, <1>3 DEF LockInv, OneCycle, Callers

(* The trigger is let in when the lock is free.                            *)
LEMMA TriggerKeepsLock ==
  ASSUME LockInv, TriggerSettlement
  PROVE  LockInv'
<1>1. CASE UNCHANGED <<lock, cycle>>
  BY <1>1, LockUntouched DEF TriggerSettlement, lockState
<1>2. CASE Admitted /\ TakeTrigger
  <2>1. ~lock /\ lock' = TRUE /\ cycle' = [cycle EXCEPT !["http"].pc = "check"] /\ overtaken' = overtaken
    BY <1>2 DEF Admitted, TakeTrigger, GoTo, TriggerSettlement
  <2>2. cycle' \in [Callers -> Cycle] /\ cycle'["poll"] = cycle["poll"] /\ cycle'["http"].pc = "check"
    BY <2>1 DEF LockInv, Cycle, Pcs, Phases, Callers
  <2> QED BY <2>1, <2>2 DEF LockInv, OneCycle, InCycle, Phases, Callers
<1> QED BY <1>1, <1>2 DEF TriggerSettlement

(* Time makes a cycle look again.                                          *)
LEMMA TimeKeepsLock ==
  ASSUME LockInv, TimePasses
  PROVE  LockInv'
<1>1. cycle' = [c \in Callers |-> [cycle[c] EXCEPT !.polled = FALSE]] /\ UNCHANGED <<lock, overtaken>>
  BY DEF TimePasses
<1>2. cycle' \in [Callers -> Cycle] /\ \A c \in Callers : cycle'[c].pc = cycle[c].pc
  BY <1>1 DEF LockInv, Cycle
<1> QED BY <1>1, <1>2 DEF LockInv, OneCycle, InCycle, Callers

(* Whatever happens keeps the invariant.                                   *)
LEMMA LockStep == LockInv /\ [Next]_vars => LockInv'
<1> SUFFICES ASSUME LockInv, [Next]_vars PROVE LockInv'
  OBVIOUS
<1>1. CASE UNCHANGED vars \/ Outside \/ FeederMoves \/ InitializerMoves
  <2>1. UNCHANGED lockState
    BY <1>1 DEF vars, processVars, serviceVars, Outside, FeederMoves, InitializerMoves, lockState
  <2> QED BY <2>1, LockUntouched
<1>2. CASE TimePasses
  BY <1>2, TimeKeepsLock
<1>3. CASE ServiceMoves
  <2>1. CASE PollTest \/ PollLoaded
    BY <2>1, PollerKeepsLock
  <2>2. CASE \E c \in Callers : CycleStep(c)
    BY <2>2, CycleKeepsLock
  <2>3. CASE ResetMarketState \/ \E state \in {"open", "shut"} : SetMarketState(state)
    BY <2>3, LockUntouched DEF ResetMarketState, SetMarketState, lockState
  <2>4. CASE RestartService
    BY <2>4, RestartKeepsLock
  <2> QED BY <1>3, <2>1, <2>2, <2>3, <2>4 DEF ServiceMoves, Service
<1>4. CASE SchedulerMoves
  <2>1. CASE TriggerSettlement
    BY <2>1, TriggerKeepsLock
  <2>2. CASE RunHealthCheck \/ FallbackTimesOut \/ MidnightRecalc \/ RestartScheduler \/ Deploy
    BY <2>2, LockUntouched DEF RunHealthCheck, FallbackTimesOut, MidnightRecalc, RestartScheduler,
       Deploy, serviceVars, lockState
  <2> QED BY <1>4, <2>1, <2>2 DEF SchedulerMoves, SchedulerStep
<1> QED BY <1>1, <1>2, <1>3, <1>4 DEF Next

(* The lock is free before the first cycle.                                *)
LEMMA InitLock == Init => LockInv
<1> SUFFICES ASSUME Init PROVE LockInv
  OBVIOUS
<1>1. \A c \in Callers : NoCycle(c) \in Cycle /\ NoCycle(c).pc \notin Phases
  BY DEF NoCycle, Cycle, Pcs, PriceTable, Resting, Phases
<1>2. lock = FALSE /\ cycle = [c \in Callers |-> NoCycle(c)]
  BY DEF Init, ServiceInit
<1> QED BY <1>1, <1>2 DEF LockInv, OneCycle, InCycle, Callers

(* Whatever fails in a cycle, whoever starts it and whenever the service   *)
(* is restarted: unless a trigger overtook the poller, the lock is held    *)
(* exactly while the one cycle runs (index.ts of the settlement service).  *)
THEOREM OneCycleAtATime == Spec => []OneCycle
<1>1. Init => LockInv
  BY InitLock
<1>2. LockInv /\ [Next]_vars => LockInv'
  BY LockStep
<1>3. LockInv => OneCycle
  BY DEF LockInv
<1> QED BY <1>1, <1>2, <1>3, PTL DEF Spec

-----------------------------------------------------------------------------
(***************************************************************************)
(* The types of the day.                                                   *)
(***************************************************************************)
Account == [settled : BOOLEAN, price : Prices \cup {0}, window : BOOLEAN, alt : BOOLEAN,
            resting : BOOLEAN, delegated : BOOLEAN, others : BOOLEAN]
MarketTyped == DOMAIN market \subseteq Names /\ \A m \in DOMAIN market : market[m] \in Account
FeedTyped == feed \in [Tickers -> Prices \cup {0}]
WorldTyped ==
  /\ now \in Instants
  /\ paused \in BOOLEAN
  /\ closing \in [Tickers -> Prices]
  /\ outage \in BOOLEAN
  /\ faults \in 0 .. MaxFaults

(* A run that works on a market has a close and tickers to do.             *)
Working == {"look", "create", "alt", "repair"}
Run == [pc : InProgress \cup Finished, close : Closes \cup {0}, todo : SUBSET Tickers,
        warned : BOOLEAN, errors : BOOLEAN]
RunTyped ==
  /\ run \in [Runs -> Run]
  /\ \A r \in Runs : run[r].pc \in Working => run[r].todo # {} /\ run[r].close \in Closes

SmallTyped ==
  /\ lock \in BOOLEAN
  /\ override \in {"auto", "open", "shut"}
  /\ overtaken \in BOOLEAN
  /\ due \in [Jobs \cup {"midnight"} -> Int]
  /\ ranToday \in [Jobs -> BOOLEAN]
  /\ atCheck \in -1 .. MaxFaults
  /\ tripped \in BOOLEAN
  /\ seen \in {"open", "premarket", "shut"}

TypeInv == MarketTyped /\ FeedTyped /\ WorldTyped /\ RunTyped /\ SmallTyped /\ LockInv

(* That is all TypeOK says, and more.                                      *)
LEMMA TypeInvEnough == TypeInv => TypeOK
BY DEF TypeInv, TypeOK, ChainTypeOK, InitializerTypeOK, ServiceTypeOK, SchedulerTypeOK, FeederTypeOK,
   MarketTyped, FeedTyped, WorldTyped, RunTyped, SmallTyped, LockInv, Account, Run, Cycle, Pcs, PriceTable

(* The instants are finitely many integers: there is a first, a last, and, *)
(* before the last, a next.                                                *)
LEMMA InstantsOrdered ==
  /\ Min(Instants) \in Instants
  /\ \A t \in Instants : t \in Int
  /\ \A t \in Instants : t # Max(Instants) =>
       Min({u \in Instants : u > t}) \in Instants /\ Min({u \in Instants : u > t}) > t
<1>1. Instants \in SUBSET Int /\ IsFiniteSet(Instants) /\ Instants # {}
  BY DayAssumption
<1>2. /\ Min(Instants) \in Instants
      /\ Max(Instants) \in Instants /\ \A y \in Instants : Max(Instants) >= y
  BY <1>1, MinMax
<1>3. ASSUME NEW t \in Instants, t # Max(Instants)
      PROVE  Min({u \in Instants : u > t}) \in Instants /\ Min({u \in Instants : u > t}) > t
  <2> DEFINE S == {u \in Instants : u > t}
  <2>1. S \in SUBSET Int /\ IsFiniteSet(S)
    <3>1. S \in SUBSET Instants
      OBVIOUS
    <3> HIDE DEF S
    <3> QED BY <1>1, <3>1, FS_Subset
  <2>2. Max(Instants) \in S
    <3>1. Max(Instants) \in Int /\ t \in Int /\ Max(Instants) >= t
      BY <1>1, <1>2
    <3>2. Max(Instants) > t
      BY <1>3, <3>1
    <3> QED BY <1>2, <3>2
  <2>3. Min(S) \in S
    <3> HIDE DEF S
    <3> QED BY <2>1, <2>2, MinMax
  <2> QED BY <2>3
<1> QED BY <1>1, <1>2, <1>3

(* There is a least price.                                                 *)
LEMMA PricesHave == Min(Prices) \in Prices
<1>1. Prices \in SUBSET Int /\ IsFiniteSet(Prices) /\ Prices # {}
  BY DayAssumption
<1> QED BY <1>1, MinMax

(* The days of the instants, with a week after them.                       *)
LEMMA DaysCover ==
  /\ Days \subseteq Int
  /\ \A t \in Instants : ETDay(t) .. ETDay(t) + 7 \subseteq Days
<1> DEFINE E == {ETDay(u) : u \in Instants}
           lo == Min(E)
           hi == Max(E)
<1>1. IsFiniteSet(Instants) /\ Instants # {} /\ \A u \in Instants : ETDay(u) \in Int
  BY InstantsOrdered, DayAssumption, ClockTypes
<1>2. IsFiniteSet(E)
  <2> DEFINE f == [u \in Instants |-> ETDay(u)]
  <2>1. f \in Surjection(Instants, E)
    BY DEF Surjection
  <2> HIDE DEF f, E
  <2> QED BY <1>1, <2>1, FS_Surjection
<1>3. E # {} /\ E \in SUBSET Int
  BY <1>1
<1>4. lo \in Int /\ hi \in Int /\ \A day \in E : lo <= day /\ day <= hi
  <2> HIDE DEF E
  <2>1. /\ lo \in E /\ \A y \in E : lo <= y
        /\ hi \in E /\ \A y \in E : hi >= y
    BY <1>2, <1>3, MinMax
  <2>2. \A y \in E : y \in Int
    BY <1>3
  <2>3. lo \in Int /\ hi \in Int
    BY <2>1, <2>2
  <2> HIDE DEF lo, hi
  <2> QED BY <2>1, <2>2, <2>3
<1>5. Days = lo - 1 .. hi + 7
  BY DEF Days
<1>6. ASSUME NEW t \in Instants
      PROVE  ETDay(t) .. ETDay(t) + 7 \subseteq lo - 1 .. hi + 7
  <2> DEFINE today == ETDay(t)
  <2>1. today \in Int /\ lo <= today /\ today <= hi
    BY <1>1, <1>4
  <2> HIDE DEF lo, hi, today
  <2>2. today .. today + 7 \subseteq lo - 1 .. hi + 7
    BY <1>4, <2>1
  <2> QED BY <2>2 DEF today
<1>7. lo - 1 .. hi + 7 \subseteq Int
  <2> HIDE DEF lo, hi
  <2> QED BY <1>4
<1> QED BY <1>5, <1>6, <1>7

(* Closes are integers, those of planned markets are among them.           *)
LEMMA ClosesTyped ==
  \A close \in Closes : close \in Int
<1>1. \A day \in Days : \A date : ComputeCloseForDate(day, date) \in Int
  BY DaysCover, CloseRight
<1> QED BY <1>1 DEF Closes

(* A planned close is one of the closes, and lies ahead.                   *)
LEMMA PlansAreCloses ==
  ASSUME NEW t \in Instants
  PROVE  PlannedClose[t] \in Closes /\ PlannedClose[t] \in Int /\ PlannedClose[t] > t
<1> DEFINE close == ComputeMarketClose(t)
           today == ETDay(t)
<1>1. t \in Int
  BY InstantsOrdered
<1>2. close \in Int /\ t < close /\ \E day, date \in today .. today + 7 : close = ComputeCloseForDate(day, date)
  BY <1>1, ClosePlanned
<1>3. today .. today + 7 \subseteq Days
  BY DaysCover
<1> HIDE DEF today, close
<1>4. close \in Closes
  BY <1>2, <1>3 DEF Closes
<1> QED BY <1>1, <1>2, <1>4 DEF PlannedClose, close

FaultMoves ==
  \/ faults' = faults
  \/ faults < MaxFaults /\ faults' = faults + 1

CheckMoves ==
  \/ atCheck' = atCheck
  \/ atCheck' = faults'
  \/ atCheck' = -1

(* A fault is counted.                                                     *)
LEMMA FaultTyped ==
  ASSUME WorldTyped, faults' = faults \/ (faults' = faults + 1 /\ faults < MaxFaults)
  PROVE  faults' \in 0 .. MaxFaults
BY DayAssumption DEF WorldTyped

(* What the processes keep besides markets, feeds, runs and cycles.        *)
SmallVars == <<now, paused, closing, outage, faults, lock, override, overtaken, due, ranToday,
               atCheck, tripped, seen>>

(* They stay as they are.                                                  *)
LEMMA SmallSame ==
  ASSUME WorldTyped, SmallTyped, UNCHANGED SmallVars
  PROVE  WorldTyped' /\ SmallTyped'
BY DEF WorldTyped, SmallTyped, SmallVars

(* The clock of the exchange shows one of its states.                      *)
LEMMA ClockTyped ==
  ASSUME WorldTyped
  PROVE  MarketClock \in {"open", "premarket", "shut"}
BY DEF MarketClock, MarketState

(* Every time computed is an integer: the time of a timer,                 *)
LEMMA TimerTyped ==
  ASSUME NEW day \in Int, NEW target \in Int
  PROVE  TimerOf(day, target) \in Int
<1> DEFINE asUtc == day * DayLength + target
           o == GetETOffsetMinutes(asUtc)
           w == asUtc - o
           u == GetETOffsetMinutes(w)
           S == {o, u}
<1>1. asUtc \in Int /\ DayLength = 1440
  BY DEF DayLength
<1>2. o \in Int
  <2> HIDE DEF asUtc
  <2> QED BY <1>1, OffsetTyped
<1>3. w \in Int
  <2> HIDE DEF asUtc, o
  <2> QED BY <1>1, <1>2
<1>4. u \in Int
  <2> HIDE DEF w
  <2> QED BY <1>3, OffsetTyped
<1>5. TimerOf(day, target) = asUtc - Max(S)
  BY Zenon DEF TimerOf
<1> HIDE DEF asUtc, o, w, u
<1>6. S \in SUBSET Int /\ IsFiniteSet(S) /\ S # {}
  <2>1. {} \cup {o} = {o} /\ {o} \cup {u} = S
    OBVIOUS
  <2>2. IsFiniteSet({o})
    BY <2>1, FS_EmptySet, FS_AddElement
  <2>3. IsFiniteSet({o} \cup {u})
    BY <2>2, FS_AddElement
  <2> QED BY <1>2, <1>4, <2>1, <2>3
<1> HIDE DEF S
<1>7. Max(S) \in Int
  BY <1>6, MinMax
<1> QED BY <1>1, <1>5, <1>7

(* for every job at every instant,                                         *)
LEMMA NextTimeTyped ==
  ASSUME NEW t \in Instants
  PROVE  \A job \in Jobs \cup {"midnight"} : NextTime[t][job] \in Int
<1>1. t \in Int /\ t + DayLength \in Int
  BY InstantsOrdered DEF DayLength
<1>2. \A target : TargetDay(t, target) \in Int
  BY <1>1, ClockTypes DEF TargetDay
<1>3. At(8, 30) \in Int /\ At(16, 5) \in Int /\ At(0, 1) \in Int
  BY DEF At
<1>4. \A h, m : GetNextETTime(t, h, m) = TimerOf(TargetDay(t, At(h, m)), At(h, m))
  BY Zenon DEF GetNextETTime, TimerOf
<1>5. /\ GetNextETTime(t, 8, 30) \in Int
      /\ GetNextETTime(t, 16, 5) \in Int
      /\ GetNextETTime(t, 0, 1) \in Int
  <2>1. ASSUME NEW h, NEW m, At(h, m) \in Int
        PROVE  GetNextETTime(t, h, m) \in Int
    <3> DEFINE target == At(h, m)
               day == TargetDay(t, target)
    <3>1. day \in Int /\ target \in Int
      BY <1>2, <2>1
    <3>2. GetNextETTime(t, h, m) = TimerOf(day, target)
      BY <1>4
    <3> HIDE DEF day, target
    <3> QED BY <3>1, <3>2, TimerTyped
  <2> QED BY <1>3, <2>1
<1> QED BY <1>5 DEF NextTime, Jobs

(* and the timers that are armed together.                                 *)
LEMMA TimersTyped ==
  ASSUME WorldTyped
  PROVE  /\ \A midnight \in Int : Timers(midnight) \in [Jobs \cup {"midnight"} -> Int]
         /\ NextMidnight \in Int
<1>1. now \in Instants /\ \A job \in Jobs \cup {"midnight"} : NextTime[now][job] \in Int
  BY NextTimeTyped DEF WorldTyped
<1>2. Arm("health") \in Int /\ Arm("settle") \in Int /\ NextMidnight \in Int
  BY <1>1 DEF Arm, NextMidnight, Jobs
<1>3. ASSUME NEW midnight \in Int
      PROVE  Timers(midnight) \in [Jobs \cup {"midnight"} -> Int]
  BY <1>2 DEF Timers, Jobs
<1> QED BY <1>2, <1>3

(* Time and what is outside.                                               *)
LEMMA TimeTyped ==
  ASSUME WorldTyped, SmallTyped, TimePasses
  PROVE  WorldTyped' /\ SmallTyped' /\ now' > now
<1>1. PICK price \in [Tickers -> Prices] : Tick(price)
  BY DEF TimePasses
<1>2. now' \in Instants /\ now' > now
  BY <1>1, InstantsOrdered DEF Tick, NextInstant, WorldTyped
<1>3. WorldTyped'
  BY <1>1, <1>2 DEF Tick, WorldTyped
<1>4. SmallTyped'
  <2>1. UNCHANGED <<lock, override, overtaken, due, tripped, seen>>
    BY DEF TimePasses, feederVars
  <2>2. ranToday' \in [Jobs -> BOOLEAN]
    BY DEF TimePasses, DayTurns, SmallTyped
  <2>3. atCheck' \in -1 .. MaxFaults
    BY DayAssumption DEF TimePasses, DayTurns, SmallTyped
  <2> QED BY <2>1, <2>2, <2>3 DEF SmallTyped
<1> QED BY <1>2, <1>3, <1>4

(* What the exchange, the holders and the feeder do.                       *)
LEMMA OutsideTyped ==
  ASSUME WorldTyped, SmallTyped, Outside \/ FeederMoves
  PROVE  WorldTyped' /\ SmallTyped' /\ UNCHANGED now
<1>1. CASE Outside
  <2>1. UNCHANGED processVars
    BY <1>1 DEF Outside
  <2>2. SmallTyped'
    BY <2>1 DEF processVars, serviceVars, schedulerVars, feederVars, SmallTyped
  <2>3. CASE Outage
    <3>1. /\ faults' = faults + 1 /\ faults < MaxFaults /\ outage' = TRUE
          /\ paused' = paused /\ now' = now /\ closing' = closing
      BY <2>3 DEF Outage, Fault, accounts
    <3> QED BY <2>2, <3>1, FaultTyped DEF WorldTyped
  <2>4. CASE (\E m \in DOMAIN market : HoldersLeave(m)) \/ CrankSettled
    <3>1. UNCHANGED <<paused, world>>
      BY <2>4 DEF HoldersLeave, CrankSettled
    <3> QED BY <2>2, <3>1 DEF world, WorldTyped
  <2> QED BY <1>1, <2>3, <2>4 DEF Outside
<1>2. CASE CheckMarketState /\ UNCHANGED <<run, serviceVars, schedulerVars>>
  BY <1>2, FaultTyped, ClockTyped DEF CheckMarketState, Fault, serviceVars, schedulerVars,
     WorldTyped, SmallTyped
<1>3. CASE RestartFeeder /\ UNCHANGED <<run, serviceVars, schedulerVars>>
  BY <1>3, FaultTyped, ClockTyped DEF RestartFeeder, Fault, accounts, serviceVars, schedulerVars,
     WorldTyped, SmallTyped
<1>4. CASE (\E t \in Tickers, price \in Prices : UpdateFeed(t, price)) /\ UNCHANGED <<run, serviceVars, schedulerVars>>
  BY <1>4 DEF UpdateFeed, world, serviceVars, schedulerVars, feederVars, WorldTyped, SmallTyped
<1> QED BY <1>1, <1>2, <1>3, <1>4 DEF FeederMoves

(* The initializer.                                                        *)
LEMMA RunSmall ==
  ASSUME WorldTyped, SmallTyped, InitializerMoves
  PROVE  WorldTyped' /\ SmallTyped' /\ FaultMoves /\ UNCHANGED <<now, paused, closing, outage, feed>>
<1>1. FaultMoves /\ UNCHANGED <<now, paused, closing, outage, feed>>
  <2>1. ASSUME NEW r \in Runs, ReadQuotes(r) \/ Look(r)
        PROVE  FaultMoves /\ UNCHANGED <<now, paused, closing, outage, feed>>
    BY <2>1 DEF ReadQuotes, Look, chainVars, accounts, world, FaultMoves
  <2>2. ASSUME NEW r \in Runs, Create(r) \/ SetAlt(r) \/ RepairAlt(r)
        PROVE  FaultMoves /\ UNCHANGED <<now, paused, closing, outage, feed>>
    BY <2>2 DEF Create, SetAlt, RepairAlt, Fault, FaultMoves
  <2>3. CASE RestartInitializer
    BY <2>3 DEF RestartInitializer, Fault, accounts, FaultMoves
  <2> QED BY <2>1, <2>2, <2>3 DEF InitializerMoves, Initializer, RunStep
<1>2. SmallTyped'
  BY DEF InitializerMoves, serviceVars, schedulerVars, feederVars, SmallTyped
<1>3. WorldTyped'
  BY <1>1, FaultTyped DEF WorldTyped, FaultMoves
<1> QED BY <1>1, <1>2, <1>3

(* The settlement service.                                                 *)
LEMMA CycleSmall ==
  ASSUME WorldTyped, SmallTyped, NEW c \in Callers, CycleStep(c)
  PROVE  /\ FaultMoves /\ UNCHANGED <<now, closing, outage>>
         /\ paused' \in BOOLEAN /\ lock' \in BOOLEAN /\ override' = override /\ overtaken' \in BOOLEAN
<1> DEFINE Goal == /\ FaultMoves /\ UNCHANGED <<now, closing, outage>>
                   /\ paused' \in BOOLEAN /\ lock' \in BOOLEAN /\ override' = override /\ overtaken' \in BOOLEAN
<1>1. ASSUME NEW q \in Polls(c), CheckClosed(c, q) \/ PollAgain(c, q)
      PROVE  Goal
  <2>1. FaultMoves
    BY <1>1 DEF CheckClosed, PollAgain, ReadAs, Fault, FaultMoves
  <2>2. UNCHANGED <<now, closing, outage, paused, lock, override, overtaken>>
    BY <1>1 DEF CheckClosed, PollAgain, accounts
  <2> QED BY <2>1, <2>2 DEF WorldTyped, SmallTyped
<1>2. CASE AbortOpen(c) \/ CycleFails(c)
  BY <1>2 DEF AbortOpen, CycleFails, EndCycle, Fault, FaultMoves, accounts, world, chainVars,
     WorldTyped, SmallTyped
<1>3. CASE UnpauseWithRetry(c)
  BY <1>3 DEF UnpauseWithRetry, EndCycle, Fault, FaultMoves, WorldTyped, SmallTyped
<1>4. CASE ConfirmTimesOut(c) \/ InitAnswered(c)
  BY <1>4 DEF ConfirmTimesOut, InitAnswered, FaultMoves, accounts, world, chainVars, WorldTyped, SmallTyped
<1>5. CASE SettleExpired(c) \/ CloseEligible(c)
  <2>1. UNCHANGED <<faults, now, closing, outage, paused, lock, override, overtaken>>
    BY <1>5, Zenon DEF SettleExpired, CloseEligible, world
  <2> QED BY <2>1 DEF FaultMoves, WorldTyped, SmallTyped
<1>6. ASSUME NEW failed \in SUBSET Tickers, UpdateOracleFeeds(c, failed)
      PROVE  Goal
  BY <1>6 DEF UpdateOracleFeeds, Fault, FaultMoves, WorldTyped, SmallTyped
<1>7. ASSUME NEW missed \in SUBSET Settled, CrankAndRedeem(c, missed)
      PROVE  Goal
  BY <1>7 DEF CrankAndRedeem, Fault, FaultMoves, WorldTyped, SmallTyped
<1>8. CASE InitNextDay(c)
  BY <1>8 DEF InitNextDay, Fault, FaultMoves, accounts, WorldTyped, SmallTyped
<1> QED BY <1>1, <1>2, <1>3, <1>4, <1>5, <1>6, <1>7, <1>8 DEF CycleStep

(* All the service does.                                                   *)
LEMMA ServiceSmall ==
  ASSUME WorldTyped, SmallTyped, ServiceMoves
  PROVE  WorldTyped' /\ SmallTyped' /\ FaultMoves /\ UNCHANGED <<now, closing, outage>>
<1> DEFINE Goal == /\ FaultMoves /\ UNCHANGED <<now, closing, outage>>
                   /\ paused' \in BOOLEAN /\ lock' \in BOOLEAN /\ override' \in {"auto", "open", "shut"}
                   /\ overtaken' \in BOOLEAN
<1>1. ASSUME NEW c \in Callers, CycleStep(c) PROVE Goal
  BY <1>1, CycleSmall DEF SmallTyped
<1>2. ASSUME PollTest \/ PollLoaded PROVE Goal
  <2>1. UNCHANGED <<faults, now, closing, outage, paused, override>>
    BY <1>2 DEF PollTest, PollLoaded, chainVars, accounts, world
  <2>2. lock' \in BOOLEAN /\ overtaken' \in BOOLEAN
    <3>1. lock' = lock \/ lock' = TRUE
      BY <1>2 DEF PollTest, PollLoaded
    <3>2. overtaken' = overtaken \/ overtaken' = InCycle("http")
      BY <1>2 DEF PollTest, PollLoaded
    <3>3. InCycle("http") \in BOOLEAN
      BY DEF InCycle
    <3> QED BY <3>1, <3>2, <3>3 DEF SmallTyped
  <2> QED BY <2>1, <2>2 DEF FaultMoves, WorldTyped, SmallTyped
<1>3. ASSUME NEW state \in {"open", "shut"}, SetMarketState(state) PROVE Goal
  BY <1>3 DEF SetMarketState, Fault, FaultMoves, accounts, WorldTyped, SmallTyped
<1>4. ASSUME ResetMarketState \/ RestartService PROVE Goal
  <2>1. FaultMoves /\ UNCHANGED <<now, closing, outage, paused>>
    BY <1>4 DEF ResetMarketState, RestartService, Fault, FaultMoves, chainVars, accounts, world
  <2>2. lock' \in BOOLEAN /\ overtaken' \in BOOLEAN /\ override' = "auto"
    BY <1>4 DEF ResetMarketState, RestartService, SmallTyped
  <2> QED BY <2>1, <2>2 DEF WorldTyped
<1>5. Goal
  <2> HIDE DEF Goal
  <2> QED BY <1>1, <1>2, <1>3, <1>4 DEF ServiceMoves, Service
<1>6. WorldTyped'
  BY <1>5, FaultTyped DEF WorldTyped, FaultMoves
<1>7. SmallTyped'
  BY <1>5 DEF ServiceMoves, schedulerVars, feederVars, SmallTyped
<1> QED BY <1>5, <1>6, <1>7

(* The scheduler.                                                          *)
LEMMA SchedulerSmall ==
  ASSUME WorldTyped, SmallTyped, lock' \in BOOLEAN, SchedulerMoves
  PROVE  WorldTyped' /\ SmallTyped' /\ FaultMoves /\ UNCHANGED <<now, paused, closing, outage, market, feed>>
<1>0. /\ \A midnight \in Int : Timers(midnight) \in [Jobs \cup {"midnight"} -> Int]
      /\ NextMidnight \in Int /\ due["midnight"] \in Int
  BY TimersTyped DEF SmallTyped
<1> DEFINE Goal == /\ FaultMoves /\ UNCHANGED <<now, paused, closing, outage, market, feed>>
                   /\ due' \in [Jobs \cup {"midnight"} -> Int]
                   /\ ranToday' \in [Jobs -> BOOLEAN]
                   /\ CheckMoves
                   /\ UNCHANGED <<override, overtaken>>
<1>1. ASSUME RunHealthCheck PROVE Goal
  <2>1. JobEnds("health") /\ UNCHANGED <<now, paused, closing, outage, market, feed, override, overtaken>>
    BY <1>1 DEF RunHealthCheck, accounts, serviceVars
  <2>2. FaultMoves /\ CheckMoves
    BY <1>1 DEF RunHealthCheck, Fault, FaultMoves, CheckMoves
  <2>3. due' \in [Jobs \cup {"midnight"} -> Int] /\ ranToday' \in [Jobs -> BOOLEAN]
    BY <1>0, <2>1 DEF JobEnds, SmallTyped
  <2> QED BY <2>1, <2>2, <2>3
<1>2. ASSUME TriggerSettlement PROVE Goal
  <2>1. JobEnds("settle") /\ UNCHANGED <<now, paused, closing, outage, market, feed, override, overtaken, atCheck>>
    BY <1>2 DEF TriggerSettlement, accounts
  <2>2. FaultMoves
    BY <1>2 DEF TriggerSettlement, Fault, FaultMoves
  <2>3. due' \in [Jobs \cup {"midnight"} -> Int] /\ ranToday' \in [Jobs -> BOOLEAN]
    BY <1>0, <2>1 DEF JobEnds, SmallTyped
  <2> QED BY <2>1, <2>2, <2>3 DEF CheckMoves
<1>3. ASSUME FallbackTimesOut PROVE Goal
  BY <1>3 DEF FallbackTimesOut, CheckMoves, FaultMoves, accounts, world, chainVars, serviceVars,
     SmallTyped
<1>4. ASSUME MidnightRecalc PROVE Goal
  BY <1>0, <1>4 DEF MidnightRecalc, CheckMoves, FaultMoves, accounts, world, chainVars,
     serviceVars, SmallTyped
<1>5. ASSUME RestartScheduler PROVE Goal
  BY <1>0, <1>5 DEF RestartScheduler, CheckMoves, Fault, FaultMoves, accounts, serviceVars, SmallTyped
<1>10. ASSUME Deploy PROVE Goal
  BY <1>0, <1>10 DEF Deploy, CheckMoves, FaultMoves, accounts, world, chainVars, serviceVars, SmallTyped
<1>6. Goal
  <2> HIDE DEF Goal
  <2> QED BY <1>1, <1>2, <1>3, <1>4, <1>5, <1>10 DEF SchedulerMoves, SchedulerStep
<1>7. WorldTyped'
  BY <1>6, FaultTyped DEF WorldTyped, FaultMoves
<1>8. atCheck' \in -1 .. MaxFaults
  BY <1>6, <1>7, DayAssumption DEF CheckMoves, WorldTyped, SmallTyped
<1>9. SmallTyped'
  BY <1>6, <1>8 DEF SchedulerMoves, feederVars, SmallTyped
<1> QED BY <1>6, <1>7, <1>9

-----------------------------------------------------------------------------
(* The markets.  Whatever happens, those that are not yet due stay, with   *)
(* their lookup tables, and none is settled before its close.              *)
Due == \A m \in Settled : m.close <= now
Kept ==
  /\ MarketTyped'
  /\ \A m \in DOMAIN market : m.close > now => m \in DOMAIN market' /\ (market[m].alt => market'[m].alt)
  /\ \A m \in DOMAIN market' : market'[m].settled => m.close <= now

(* Nothing happens to the markets.                                         *)
LEMMA MarketUntouched ==
  ASSUME MarketTyped, Due, UNCHANGED market
  PROVE  Kept
BY DEF MarketTyped, Due, Settled, Unsettled, Kept

(* A step that gives each of some of the markets another account, which    *)
(* has a lookup table if the market had one, and is settled only if it was *)
(* or its close is over; no market is left out that is not settled.        *)
LEMMA MarketRewritten ==
  ASSUME MarketTyped, Due, now \in Instants,
         DOMAIN market' \subseteq DOMAIN market,
         \A m \in DOMAIN market : m \in DOMAIN market' \/ market[m].settled,
         \A m \in DOMAIN market' :
           /\ market'[m] \in Account
           /\ market'[m].settled => market[m].settled \/ m.close <= now
           /\ market[m].alt => market'[m].alt
  PROVE  Kept
<1>1. \A m \in DOMAIN market : market[m].settled => m.close <= now
  BY DEF Due, Settled, Unsettled
<1>2. \A m \in DOMAIN market : m.close \in Int /\ now \in Int
  BY ClosesTyped, InstantsOrdered DEF MarketTyped, Names
<1>3. ASSUME NEW m \in DOMAIN market, m.close > now
      PROVE  m \in DOMAIN market' /\ (market[m].alt => market'[m].alt)
  BY <1>1, <1>2, <1>3
<1> QED BY <1>1, <1>3 DEF MarketTyped, Kept

(* The initializer adds markets and lookup tables.                         *)
LEMMA InitializerKeeps ==
  ASSUME MarketTyped, Due, WorldTyped, RunTyped, InitializerMoves
  PROVE  Kept
<1>0. \A m \in DOMAIN market : market[m].settled => m.close <= now
  BY DEF Due, Settled, Unsettled
<1>1. CASE UNCHANGED market
  BY <1>1, MarketUntouched
<1>2. ASSUME NEW r \in Runs, run[r].pc = "create", NEW m, m = Current(r), CanCreate(m),
            CreateStrikeMarket(m)
      PROVE  Kept
  <2>1. m \in Names
    <3>1. run[r].todo \in SUBSET Tickers /\ run[r].todo # {} /\ run[r].close \in Closes
      BY <1>2 DEF RunTyped, Run, Working
    <3> QED BY <1>2, <3>1 DEF Current, Names
  <2>2. NewMarket \in Account /\ ~NewMarket.settled
    BY DEF NewMarket, Account
  <2>3. m \notin DOMAIN market
    BY <1>2 DEF CanCreate, Exists
  <2>4. /\ DOMAIN market' = DOMAIN market \cup {m}
        /\ market'[m] = NewMarket
        /\ \A n \in DOMAIN market : market'[n] = market[n]
    BY <1>2, <2>3 DEF CreateStrikeMarket
  <2> QED BY <1>0, <2>1, <2>2, <2>3, <2>4 DEF MarketTyped, Kept
<1>3. ASSUME NEW m, CanSetAlt(m), market' = [market EXCEPT ![m].alt = TRUE]
      PROVE  Kept
  <2>1. m \in DOMAIN market /\ DOMAIN market' = DOMAIN market
    BY <1>3 DEF CanSetAlt, Exists
  <2>2. /\ \A n \in DOMAIN market : n # m => market'[n] = market[n]
        /\ market'[m] = [market[m] EXCEPT !.alt = TRUE]
    BY <1>3, <2>1
  <2>3. market'[m] \in Account /\ market'[m].alt /\ market'[m].settled = market[m].settled
    BY <2>1, <2>2 DEF MarketTyped, Account
  <2> QED BY <1>0, <2>1, <2>2, <2>3 DEF MarketTyped, Kept
<1>4. ASSUME NEW r \in Runs, ReadQuotes(r) \/ Look(r)
      PROVE  Kept
  BY <1>1, <1>4 DEF ReadQuotes, Look, chainVars, accounts
<1>5. ASSUME NEW r \in Runs, Create(r)
      PROVE  Kept
  BY <1>1, <1>2, <1>5 DEF Create
<1>6. ASSUME NEW r \in Runs, SetAlt(r) \/ RepairAlt(r)
      PROVE  Kept
  BY <1>1, <1>3, <1>6 DEF SetAlt, RepairAlt
<1>7. CASE RestartInitializer
  BY <1>1, <1>7 DEF RestartInitializer, accounts
<1> QED BY <1>4, <1>5, <1>6, <1>7 DEF InitializerMoves, Initializer, RunStep

(* Holders leave markets, operators crank them.                            *)
LEMMA OutsideKeeps ==
  ASSUME MarketTyped, Due, WorldTyped, Outside \/ FeederMoves
  PROVE  Kept
<1>1. CASE UNCHANGED market
  BY <1>1, MarketUntouched
<1>2. ASSUME NEW m \in DOMAIN market, HoldersLeave(m)
      PROVE  Kept
  <2>1. market' = [market EXCEPT ![m].resting = FALSE, ![m].others = FALSE]
    BY <1>2 DEF HoldersLeave
  <2>2. DOMAIN market' = DOMAIN market /\ \A n \in DOMAIN market : n # m => market'[n] = market[n]
    BY <2>1
  <2>3. market'[m] \in Account /\ market'[m].alt = market[m].alt /\ market'[m].settled = market[m].settled
    BY <2>1 DEF MarketTyped, Account
  <2> QED BY <2>2, <2>3, MarketRewritten DEF MarketTyped, WorldTyped
<1>3. CASE CrankSettled
  <2>1. /\ DOMAIN market' = DOMAIN market
        /\ \A m \in DOMAIN market : market'[m] =
             [market[m] EXCEPT !.resting = @ /\ m \notin TodaysMarkets \cap Settled]
    BY <1>3 DEF CrankSettled
  <2>2. \A m \in DOMAIN market : /\ market'[m] \in Account
                                  /\ market'[m].alt = market[m].alt
                                  /\ market'[m].settled = market[m].settled
    <3> TAKE m \in DOMAIN market
    <3> DEFINE still == m \notin TodaysMarkets \cap Settled
               old == market[m]
    <3>1. market'[m] = [old EXCEPT !.resting = @ /\ still]
      BY <2>1
    <3>2. old \in Account /\ (old.resting /\ still) \in BOOLEAN
      BY DEF MarketTyped, Account
    <3> HIDE DEF still, old
    <3>3. market'[m] \in Account /\ market'[m].alt = old.alt /\ market'[m].settled = old.settled
      BY <3>1, <3>2 DEF Account
    <3> QED BY <3>3 DEF old
  <2> QED BY <2>1, <2>2, MarketRewritten DEF WorldTyped
<1>4. CASE Outage \/ FeederMoves
  BY <1>1, <1>4 DEF Outage, FeederMoves, CheckMarketState, RestartFeeder, UpdateFeed, accounts
<1> QED BY <1>2, <1>3, <1>4 DEF Outside

(* Time ends override windows.                                             *)
LEMMA TimeKeeps ==
  ASSUME MarketTyped, Due, WorldTyped, TimePasses
  PROVE  Kept
<1>1. market' = [m \in DOMAIN market |-> [market[m] EXCEPT !.window = FALSE]]
  BY DEF TimePasses, Tick
<1>2. DOMAIN market' = DOMAIN market
  BY <1>1
<1>3. \A m \in DOMAIN market : /\ market'[m] \in Account
                                /\ market'[m].alt = market[m].alt
                                /\ market'[m].settled = market[m].settled
  BY <1>1 DEF MarketTyped, Account
<1> QED BY <1>2, <1>3, MarketRewritten DEF WorldTyped

(* A cycle settles what has expired, and closes what is settled.           *)
LEMMA CycleKeeps ==
  ASSUME MarketTyped, Due, WorldTyped, FeedTyped, LockInv, NEW c \in Callers, CycleStep(c)
  PROVE  Kept
<1>0. cycle[c] \in Cycle /\ now \in Instants
  BY DEF LockInv, WorldTyped
<1>1. ASSUME UNCHANGED market PROVE Kept
  BY <1>1, MarketUntouched
<1>2. ASSUME SettleExpired(c) PROVE Kept
  <2> DEFINE byFeed == {m \in Expired : m.ticker \in Confirmed(c) /\ SettleMarketOK(m)}
             byAdmin == {m \in Expired : AdminSettles(c, m)}
             new(m) == IF m \in byFeed THEN SettledAs(m, feed[m.ticker])
                       ELSE IF m \in byAdmin THEN SettledAs(m, cycle[c].prev[m.ticker])
                       ELSE market[m]
  <2>1. market' = [m \in DOMAIN market |-> new(m)]
    BY <1>2 DEF SettleExpired
  <2>2. ASSUME NEW m \in DOMAIN market
        PROVE  new(m) \in Account /\ (new(m).settled => market[m].settled \/ m.close <= now)
               /\ (market[m].alt => new(m).alt)
    <3>1. market[m] \in Account /\ m.ticker \in Tickers
      BY DEF MarketTyped, Names
    <3>2. ASSUME NEW price \in Prices \cup {0}
          PROVE  SettledAs(m, price) \in Account /\ SettledAs(m, price).alt = market[m].alt
      BY <3>1 DEF SettledAs, Account
    <3>3. feed[m.ticker] \in Prices \cup {0} /\ cycle[c].prev[m.ticker] \in Prices \cup {0}
      BY <1>0, <3>1 DEF FeedTyped, Cycle, PriceTable
    <3>4. m \in byFeed \/ m \in byAdmin => m.close <= now
      BY DEF Expired
    <3> HIDE DEF byFeed, byAdmin
    <3> QED BY <3>1, <3>2, <3>3, <3>4
  <2> HIDE DEF new
  <2>3. DOMAIN market' = DOMAIN market /\ \A m \in DOMAIN market : market'[m] = new(m)
    BY <2>1
  <2> QED BY <1>0, <2>2, <2>3, MarketRewritten
<1>3. ASSUME NEW missed \in SUBSET Settled, CrankAndRedeem(c, missed) PROVE Kept
  <2> DEFINE cranked == CrankCancelAll(Settled)
  <2>1. /\ DOMAIN cranked = DOMAIN market
        /\ \A m \in DOMAIN market : /\ cranked[m] \in Account
                                    /\ cranked[m].alt = market[m].alt
                                    /\ cranked[m].settled = market[m].settled
    BY DEF CrankCancelAll, CrankMarket, MarketTyped, Account
  <2>2. market' = AutoRedeemAll(cranked, Settled \ missed)
    BY <1>3 DEF CrankAndRedeem
  <2> HIDE DEF cranked
  <2>3. /\ DOMAIN market' = DOMAIN market
        /\ \A m \in DOMAIN market : /\ market'[m] \in Account
                                    /\ market'[m].alt = market[m].alt
                                    /\ market'[m].settled = market[m].settled
    <3>1. \A a \in Account : /\ RedeemMarket(a) \in Account
                             /\ RedeemMarket(a).alt = a.alt /\ RedeemMarket(a).settled = a.settled
      BY DEF RedeemMarket, Account
    <3>2. /\ DOMAIN market' = DOMAIN market
          /\ \A m \in DOMAIN market : market'[m] \in {RedeemMarket(cranked[m]), cranked[m]}
      BY <2>1, <2>2 DEF AutoRedeemAll
    <3> QED BY <2>1, <3>1, <3>2
  <2> QED BY <1>0, <2>3, MarketRewritten
<1>4. ASSUME CloseEligible(c) PROVE Kept
  <2>1. market' = [m \in {n \in DOMAIN market : ~CanClose(n)} |-> market[m]]
    BY <1>4 DEF CloseEligible
  <2>2. /\ DOMAIN market' \subseteq DOMAIN market
        /\ \A m \in DOMAIN market : m \in DOMAIN market' \/ CanClose(m)
        /\ \A m \in DOMAIN market' : market'[m] = market[m]
    BY <2>1
  <2>3. \A m \in DOMAIN market : CanClose(m) => market[m].settled
    BY DEF CanClose, Settled, Unsettled
  <2> QED BY <1>0, <2>2, <2>3, MarketRewritten DEF MarketTyped
<1>5. ASSUME NEW q \in Polls(c), CheckClosed(c, q) \/ PollAgain(c, q) PROVE Kept
  BY <1>1, <1>5 DEF CheckClosed, PollAgain, accounts
<1>6. ASSUME NEW failed \in SUBSET Tickers, UpdateOracleFeeds(c, failed) PROVE Kept
  BY <1>1, <1>6 DEF UpdateOracleFeeds
<1>7. CASE AbortOpen(c) \/ CycleFails(c) \/ UnpauseWithRetry(c)
  BY <1>1, <1>7 DEF AbortOpen, CycleFails, UnpauseWithRetry, chainVars, accounts
<1>8. CASE ConfirmTimesOut(c) \/ InitAnswered(c) \/ InitNextDay(c)
  BY <1>1, <1>8 DEF ConfirmTimesOut, InitAnswered, InitNextDay, chainVars, accounts
<1> QED BY <1>2, <1>3, <1>4, <1>5, <1>6, <1>7, <1>8 DEF CycleStep

(* The other steps of the service leave the markets alone.                 *)
LEMMA ServiceKeeps ==
  ASSUME MarketTyped, Due, WorldTyped, FeedTyped, LockInv, ServiceMoves
  PROVE  Kept
<1>1. ASSUME NEW c \in Callers, CycleStep(c) PROVE Kept
  BY <1>1, CycleKeeps
<1>2. CASE PollTest \/ PollLoaded
  BY <1>2, MarketUntouched DEF PollTest, PollLoaded, chainVars, accounts
<1>3. ASSUME NEW state \in {"open", "shut"}, SetMarketState(state) PROVE Kept
  BY <1>3, MarketUntouched DEF SetMarketState, accounts
<1>4. CASE ResetMarketState \/ RestartService
  BY <1>4, MarketUntouched DEF ResetMarketState, RestartService, chainVars, accounts
<1> QED BY <1>1, <1>2, <1>3, <1>4 DEF ServiceMoves, Service

(* The parts of the state a step moves, together: its world and its        *)
(* markets.                                                                *)
LEMMA StepMoves ==
  ASSUME TypeInv, Due, [Next]_vars
  PROVE  WorldTyped' /\ SmallTyped' /\ Kept /\ now' >= now
<1> USE DEF TypeInv
<1>0. now \in Int /\ now >= now
  BY InstantsOrdered DEF WorldTyped
<1>1. CASE UNCHANGED vars
  BY <1>0, <1>1, SmallSame, MarketUntouched
     DEF vars, chainVars, accounts, world, processVars, serviceVars, schedulerVars, feederVars, SmallVars
<1>2. CASE TimePasses
  <2>1. WorldTyped' /\ SmallTyped' /\ now' > now
    BY <1>2, TimeTyped
  <2>2. now' \in Int
    BY <2>1, InstantsOrdered DEF WorldTyped
  <2> QED BY <1>0, <1>2, <2>1, <2>2, TimeKeeps
<1>3. CASE Outside \/ FeederMoves
  BY <1>0, <1>3, OutsideTyped, OutsideKeeps
<1>4. CASE InitializerMoves
  BY <1>0, <1>4, RunSmall, InitializerKeeps
<1>5. CASE ServiceMoves
  BY <1>0, <1>5, ServiceSmall, ServiceKeeps
<1>6. CASE SchedulerMoves
  <2>1. lock' \in BOOLEAN
    BY <1>6 DEF SchedulerMoves, SchedulerStep, RunHealthCheck, FallbackTimesOut, TriggerSettlement,
       MidnightRecalc, RestartScheduler, Deploy, TakeTrigger, chainVars, accounts, serviceVars, SmallTyped
  <2> QED BY <1>0, <1>6, <2>1, SchedulerSmall, MarketUntouched
<1> QED BY <1>1, <1>2, <1>3, <1>4, <1>5, <1>6 DEF Next

(* What was due stays due.                                                 *)
LEMMA DueStays ==
  ASSUME WorldTyped, WorldTyped', Kept, now' >= now
  PROVE  Due'
<1>1. now \in Int /\ now' \in Int
  BY InstantsOrdered DEF WorldTyped
<1>2. ASSUME NEW m \in DOMAIN market', market'[m].settled
      PROVE  m.close <= now'
  <2>1. m.close \in Int /\ m.close <= now
    BY <1>2, ClosesTyped DEF Kept, MarketTyped, Names
  <2> QED BY <1>1, <2>1
<1> QED BY <1>2 DEF Due, Settled, Unsettled

(* The feeds.                                                              *)
LEMMA FeedMoves ==
  ASSUME FeedTyped, LockInv, [Next]_vars
  PROVE  FeedTyped'
<1>1. CASE UNCHANGED feed
  BY <1>1 DEF FeedTyped
<1>2. CASE TimePasses
  BY <1>2 DEF TimePasses, Tick, FeedTyped
<1>3. ASSUME NEW t \in Tickers, NEW price \in Prices, UpdateFeed(t, price)
      PROVE  FeedTyped'
  BY <1>3 DEF UpdateFeed, UpdateOnChain, FeedTyped
<1>4. ASSUME NEW c \in Callers, NEW failed \in SUBSET Tickers, UpdateOracleFeeds(c, failed)
      PROVE  FeedTyped'
  <2>1. cycle[c].price \in [Tickers -> Prices \cup {0}]
    BY DEF LockInv, Cycle, PriceTable
  <2> QED BY <1>4, <2>1 DEF UpdateOracleFeeds, FeedTyped
<1>5. CASE Outside \/ FeederMoves
  BY <1>1, <1>3, <1>5 DEF Outside, Outage, HoldersLeave, CrankSettled, FeederMoves, CheckMarketState,
     RestartFeeder, accounts
<1>6. CASE InitializerMoves
  BY <1>1, <1>6 DEF InitializerMoves, Initializer, RunStep, ReadQuotes, Look, Create, SetAlt, RepairAlt,
     RestartInitializer, chainVars, accounts
<1>7. ASSUME NEW c \in Callers, CycleStep(c)
      PROVE  FeedTyped'
  BY <1>1, <1>4, <1>7 DEF CycleStep, CheckClosed, PollAgain, AbortOpen, ConfirmTimesOut, SettleExpired,
     CycleFails, CrankAndRedeem, CloseEligible, InitNextDay, InitAnswered, UnpauseWithRetry, chainVars, accounts
<1>8. CASE ServiceMoves
  BY <1>1, <1>7, <1>8 DEF ServiceMoves, Service, PollTest, PollLoaded, SetMarketState, ResetMarketState,
     RestartService, chainVars, accounts
<1>9. CASE SchedulerMoves
  BY <1>1, <1>9 DEF SchedulerMoves, SchedulerStep, RunHealthCheck, FallbackTimesOut, TriggerSettlement,
     MidnightRecalc, RestartScheduler, Deploy, chainVars, accounts
<1>10. CASE UNCHANGED vars
  BY <1>1, <1>10 DEF vars, chainVars, accounts
<1> QED BY <1>2, <1>5, <1>6, <1>8, <1>9, <1>10 DEF Next

(* The ticker a run works on is one it has to do.                          *)
LEMMA CurrentTicker ==
  ASSUME RunTyped, NEW r \in Runs, run[r].pc \in Working
  PROVE  /\ run[r] \in Run
         /\ Current(r).ticker \in run[r].todo
         /\ Current(r).close = run[r].close
         /\ Current(r).ticker \in Tickers
         /\ Current(r) = [ticker |-> Current(r).ticker, close |-> run[r].close]
<1>1. run[r].todo # {} /\ run[r].todo \in SUBSET Tickers /\ run[r] \in Run
  BY DEF RunTyped, Run
<1>2. (CHOOSE t \in run[r].todo : TRUE) \in run[r].todo
  BY <1>1
<1> QED BY <1>1, <1>2 DEF Current

(* On to the next ticker: what changes of the run.                         *)
LEMMA AdvanceMoves ==
  ASSUME RunTyped, NEW r \in Runs, run[r].pc \in Working, NEW error \in BOOLEAN
  PROVE  LET next == Advance(r, error) IN
         /\ next \in [Runs -> Run]
         /\ \A s \in Runs : s # r => next[s] = run[s]
         /\ next[r].todo = run[r].todo \ {Current(r).ticker}
         /\ next[r].errors = (run[r].errors \/ error)
         /\ next[r].close = run[r].close /\ next[r].warned = run[r].warned
         /\ next[r].pc = IF next[r].todo # {} THEN "look" ELSE IF next[r].errors THEN "errors" ELSE "ok"
<1> DEFINE rest == run[r].todo \ {Current(r).ticker}
           errors == (run[r].errors \/ error)
           pc == IF rest # {} THEN "look" ELSE IF errors THEN "errors" ELSE "ok"
           rec == [run[r] EXCEPT !.todo = rest, !.errors = errors, !.pc = pc]
           next == Advance(r, error)
<1>1. run[r] \in Run /\ run \in [Runs -> Run]
  BY DEF RunTyped
<1>2. next = [run EXCEPT ![r] = rec]
  <2>1. next = [run EXCEPT ![r].todo = rest, ![r].errors = errors, ![r].pc = pc]
    BY DEF Advance
  <2> HIDE DEF rest, errors, pc, next
  <2> QED BY <1>1, <2>1
<1>3. rest \in SUBSET Tickers /\ pc \in InProgress \cup Finished
  BY <1>1 DEF Run, InProgress, Finished
<1>4. errors \in BOOLEAN
  OBVIOUS
<1> HIDE DEF rest, errors, next
<1>5. pc \in InProgress \cup Finished
  BY <1>3
<1> HIDE DEF pc
<1>6. /\ rec \in Run
      /\ rec.todo = rest /\ rec.errors = errors /\ rec.pc = pc
      /\ rec.close = run[r].close /\ rec.warned = run[r].warned
  BY <1>1, <1>3, <1>4, <1>5 DEF Run
<1> HIDE DEF rec
<1>7. /\ next \in [Runs -> Run] /\ next[r] = rec
      /\ \A s \in Runs : s # r => next[s] = run[s]
  BY <1>1, <1>2, <1>6
<1>8. next[r].pc = IF next[r].todo # {} THEN "look" ELSE IF next[r].errors THEN "errors" ELSE "ok"
  BY <1>6, <1>7 DEF pc
<1> QED BY <1>6, <1>7, <1>8 DEF rest, errors, next

(* What a step of the initializer may make of the run r.                   *)
Fits(rec) == rec \in Run /\ (rec.pc \in Working => rec.todo # {} /\ rec.close \in Closes)

(* Runs that have not begun, or have just begun, fit.                      *)
LEMMA NewRuns == Fits(NoRun) /\ Fits(FirstStep) /\ FirstStep.pc = "quotes" /\ NoRun.pc = "none"
BY DEF Fits, NoRun, FirstStep, Run, InProgress, Finished, Working

(* The runs are typed when each fits.                                      *)
LEMMA RunsFit == RunTyped <=> run \in [Runs -> Run] /\ \A r \in Runs : Fits(run[r])
BY DEF RunTyped, Fits

(* A step of run r changes that run only, and leaves it well-formed.       *)
LEMMA RunStepTyped ==
  ASSUME RunTyped, WorldTyped, NEW r \in Runs, RunStep(r)
  PROVE  RunTyped' /\ \A s \in Runs : s # r => run'[s] = run[s]
<1>0. run \in [Runs -> Run] /\ \A s \in Runs : Fits(run[s])
  BY RunsFit
<1>1. SUFFICES /\ run' \in [Runs -> Run]
               /\ Fits(run'[r])
               /\ \A s \in Runs : s # r => run'[s] = run[s]
  <2>1. ASSUME /\ run' \in [Runs -> Run]
               /\ Fits(run'[r])
               /\ \A s \in Runs : s # r => run'[s] = run[s]
        PROVE  RunTyped'
    BY <1>0, <2>1 DEF RunTyped, Fits
  <2> QED BY <2>1
<1> DEFINE Goal == /\ run' \in [Runs -> Run]
                   /\ Fits(run'[r])
                   /\ \A s \in Runs : s # r => run'[s] = run[s]
<1>2. ASSUME NEW rec, run' = [run EXCEPT ![r] = rec], Fits(rec)
      PROVE  Goal
  BY <1>0, <1>2 DEF Fits
<1>3. ASSUME NEW error \in BOOLEAN, run[r].pc \in Working, run' = Advance(r, error)
      PROVE  Goal
  <2>1. Fits(run[r])
    BY <1>0
  <2> QED BY <1>3, <2>1, AdvanceMoves DEF Fits, Working
<1>4. ASSUME NEW pc \in {"create", "repair", "alt"}, run[r].pc \in Working, run' = [run EXCEPT ![r].pc = pc]
      PROVE  Goal
  <2> DEFINE rec == [run[r] EXCEPT !.pc = pc]
  <2>1. run' = [run EXCEPT ![r] = rec]
    BY <1>4
  <2>2. Fits(rec)
    BY <1>0, <1>4 DEF Fits, Run, InProgress, Finished
  <2> HIDE DEF rec
  <2> QED BY <1>2, <2>1, <2>2
<1>5. CASE ReadQuotes(r)
  <2> DEFINE todo == IF outage THEN {} ELSE Tickers
             pc == IF outage THEN "errors" ELSE "look"
             rec == [run[r] EXCEPT !.close = PlannedClose[now], !.todo = todo, !.errors = outage, !.pc = pc]
  <2>1. run' = [run EXCEPT ![r] = rec]
    BY <1>5, <1>0 DEF ReadQuotes
  <2>2. PlannedClose[now] \in Closes /\ outage \in BOOLEAN /\ Tickers # {}
    BY PlansAreCloses, DayAssumption DEF WorldTyped
  <2>3. rec \in Run
    BY <1>0, <2>2 DEF Run, InProgress, Finished
  <2>4. rec.pc \in Working => rec.todo # {} /\ rec.close \in Closes
    BY <1>0, <2>2 DEF Run, Working
  <2> HIDE DEF rec
  <2> QED BY <1>2, <2>1, <2>3, <2>4 DEF Fits
<1>6. CASE Look(r)
  <2>1. run[r].pc \in Working
    BY <1>6 DEF Look, Working
  <2>2. \/ run' = Advance(r, FALSE)
        \/ \E pc \in {"create", "repair", "alt"} : run' = [run EXCEPT ![r].pc = pc]
    BY <1>6 DEF Look
  <2> QED BY <1>3, <1>4, <2>1, <2>2
<1>7. CASE Create(r) \/ SetAlt(r)
  <2>1. run[r].pc \in Working
    BY <1>7 DEF Create, SetAlt, Working
  <2>2. \/ run' = Advance(r, FALSE)
        \/ run' = Advance(r, TRUE)
        \/ \E pc \in {"create", "repair", "alt"} : run' = [run EXCEPT ![r].pc = pc]
    BY <1>7 DEF Create, SetAlt
  <2> QED BY <1>3, <1>4, <2>1, <2>2
<1>8. CASE RepairAlt(r)
  <2>1. run[r].pc \in Working
    BY <1>8 DEF RepairAlt, Working
  <2>2. CASE run' = Advance(r, FALSE)
    BY <1>3, <2>1, <2>2
  <2>3. CASE run' = [Advance(r, FALSE) EXCEPT ![r].warned = TRUE]
    <3> DEFINE next == Advance(r, FALSE)
               rec == [next[r] EXCEPT !.warned = TRUE]
    <3>1. /\ next \in [Runs -> Run] /\ \A s \in Runs : s # r => next[s] = run[s]
          /\ next[r].close = run[r].close
          /\ next[r].pc = IF next[r].todo # {} THEN "look" ELSE IF next[r].errors THEN "errors" ELSE "ok"
      BY <2>1, AdvanceMoves
    <3>2. run' = [next EXCEPT ![r] = rec]
      BY <2>3, <3>1
    <3> HIDE DEF next
    <3>3. Fits(rec)
      <4>1. /\ next[r] \in Run /\ rec \in Run /\ rec.pc = next[r].pc
            /\ rec.todo = next[r].todo /\ rec.close = next[r].close
        BY <3>1 DEF Run
      <4>2. next[r].close \in Closes
        BY <1>0, <2>1, <3>1 DEF Fits
      <4>3. rec.pc \in Working => rec.todo # {}
        BY <3>1, <4>1 DEF Working
      <4> QED BY <4>1, <4>2, <4>3 DEF Fits
    <3> HIDE DEF rec
    <3> QED BY <3>1, <3>2, <3>3 DEF Fits
  <2> QED BY <1>8, <2>2, <2>3 DEF RepairAlt
<1> QED BY <1>5, <1>6, <1>7, <1>8 DEF RunStep

(* The other steps begin a run, or end runs.                               *)
RunBegins(r) == run' = BeginRun(r)

(* What a step does to the runs.                                           *)
LEMMA RunsMove ==
  ASSUME [Next]_vars
  PROVE  \/ UNCHANGED run
         \/ \E r \in Runs : RunStep(r)
         \/ TimePasses
         \/ RestartInitializer
         \/ (\E c \in Callers : InitNextDay(c)) /\ RunBegins("http")
         \/ RunHealthCheck /\ RunBegins("child")
         \/ FallbackTimesOut
         \/ Deploy /\ RunBegins("main")
<1>1. CASE UNCHANGED vars \/ Outside \/ FeederMoves
  BY <1>1 DEF vars, processVars, Outside, FeederMoves
<1>2. CASE InitializerMoves
  BY <1>2 DEF InitializerMoves, Initializer
<1>3. ASSUME NEW c \in Callers, CycleStep(c)
      PROVE  UNCHANGED run \/ (InitNextDay(c) /\ RunBegins("http"))
  BY <1>3, Zenon DEF CycleStep, CheckClosed, PollAgain, AbortOpen, ConfirmTimesOut,
     UpdateOracleFeeds, SettleExpired,
     CycleFails, CrankAndRedeem, CloseEligible, InitNextDay, InitAnswered, UnpauseWithRetry, RunBegins
<1>4. CASE ServiceMoves
  BY <1>3, <1>4, Zenon DEF ServiceMoves, Service, PollTest, PollLoaded, SetMarketState,
     ResetMarketState, RestartService
<1>5. CASE SchedulerMoves
  BY <1>5, Zenon DEF SchedulerMoves, SchedulerStep, RunHealthCheck, TriggerSettlement,
     MidnightRecalc, RestartScheduler, Deploy, RunBegins
<1> QED BY <1>1, <1>2, <1>4, <1>5 DEF Next

(* A run that begins.                                                      *)
LEMMA RunBeginTyped ==
  ASSUME RunTyped, NEW r \in Runs, run' = BeginRun(r)
  PROVE  /\ RunTyped'
         /\ run'[r] = FirstStep
         /\ \A s \in Runs : s # r => run'[s] = run[s]
BY RunsFit, NewRuns DEF BeginRun, RunTyped, Fits

(* The runs stay well-formed.                                              *)
LEMMA RunsTyped ==
  ASSUME RunTyped, WorldTyped, [Next]_vars
  PROVE  RunTyped'
<1>0. "main" \in Runs /\ "http" \in Runs /\ "child" \in Runs
  BY DEF Runs
<1>1. CASE UNCHANGED run
  BY <1>1 DEF RunTyped
<1>2. CASE TimePasses
  <2>1. run' = [r \in Runs |-> NoRun]
    BY <1>2 DEF TimePasses
  <2> QED BY <2>1, NewRuns DEF RunTyped, Fits
<1>3. CASE RestartInitializer
  <2>1. run' = [BeginRun("main") EXCEPT !["http"] = NoRun]
    BY <1>3 DEF RestartInitializer
  <2> QED BY <1>0, <2>1, NewRuns DEF BeginRun, RunTyped, Fits
<1>4. CASE FallbackTimesOut
  <2>1. run' = [run EXCEPT !["child"] = NoRun]
    BY <1>4 DEF FallbackTimesOut
  <2> QED BY <1>0, <2>1, NewRuns DEF RunTyped, Fits
<1> QED BY <1>0, <1>1, <1>2, <1>3, <1>4, RunsMove, RunStepTyped, RunBeginTyped DEF RunBegins

-----------------------------------------------------------------------------
DayInv == TypeInv /\ Due

(* Every step keeps the types, and settles only what is due.               *)
LEMMA DayInvStep == DayInv /\ [Next]_vars => DayInv'
<1> SUFFICES ASSUME TypeInv, Due, [Next]_vars PROVE TypeInv' /\ Due'
  BY DEF DayInv
<1>1. WorldTyped' /\ SmallTyped' /\ Kept /\ now' >= now
  BY StepMoves
<1>2. FeedTyped'
  BY FeedMoves DEF TypeInv
<1>3. RunTyped'
  BY RunsTyped DEF TypeInv
<1>4. LockInv'
  BY LockStep DEF TypeInv
<1>5. Due'
  BY <1>1, DueStays DEF TypeInv
<1> QED BY <1>1, <1>2, <1>3, <1>4, <1>5 DEF TypeInv, Kept

(* The day begins so.                                                      *)
LEMMA InitDay == Init => DayInv
<1> SUFFICES ASSUME Init PROVE TypeInv /\ Due
  BY DEF DayInv
<1> USE DEF Init
<1>0. 0 \in 0 .. MaxFaults /\ -1 \in -1 .. MaxFaults
  BY DayAssumption
<1>1. market = [m \in FirstMarkets |-> [NewMarket EXCEPT !.alt = TRUE]]
  BY DEF ChainInit
<1>2. MarketTyped /\ Due
  <2>1. [NewMarket EXCEPT !.alt = TRUE] \in Account /\ ~[NewMarket EXCEPT !.alt = TRUE].settled
    BY DEF NewMarket, Account
  <2>2. DOMAIN market = FirstMarkets /\ \A m \in FirstMarkets : market[m] \in Account /\ ~market[m].settled
    BY <1>1, <2>1
  <2> QED BY <2>2, FirstMarketsAssumption DEF MarketTyped, Due, Settled, Unsettled
<1>3. FeedTyped
  BY DEF ChainInit, FeedTyped
<1>4. WorldTyped
  <2>1. now \in Instants /\ paused \in BOOLEAN /\ outage \in BOOLEAN
    BY InstantsOrdered DEF ChainInit
  <2>2. closing \in [Tickers -> Prices]
    BY PricesHave DEF ChainInit
  <2>3. faults \in 0 .. MaxFaults
    BY <1>0 DEF ChainInit
  <2> QED BY <2>1, <2>2, <2>3 DEF WorldTyped
<1>5. RunTyped
  BY NewRuns DEF InitializerInit, RunTyped, Fits
<1>6. SmallTyped
  <2>1. \A midnight \in Int : Timers(midnight) \in [Jobs \cup {"midnight"} -> Int]
    BY <1>4, TimersTyped
  <2>2. due \in [Jobs \cup {"midnight"} -> Int]
    BY <1>4, <2>1, TimersTyped DEF SchedulerInit
  <2>3. seen \in {"open", "premarket", "shut"} /\ tripped \in BOOLEAN
    BY DEF FeederInit, MarketState
  <2>4. atCheck \in -1 .. MaxFaults /\ ranToday \in [Jobs -> BOOLEAN]
    BY <1>0 DEF SchedulerInit
  <2>5. lock \in BOOLEAN /\ override \in {"auto", "open", "shut"} /\ overtaken \in BOOLEAN
    BY DEF ServiceInit
  <2> QED BY <2>2, <2>3, <2>4, <2>5 DEF SmallTyped
<1> QED BY <1>2, <1>3, <1>4, <1>5, <1>6, InitLock DEF TypeInv

(* The accounts, the feeds and the states of all processes keep their      *)
(* types: runs, cycles and timers never leave the states the code names,   *)
(* and every market is one of a ticker of the config.                      *)
THEOREM DayTypeCorrect == Spec => []TypeOK
<1>1. DayInv => TypeOK
  BY TypeInvEnough DEF DayInv
<1> QED BY <1>1, InitDay, DayInvStep, PTL DEF Spec

(* What a run without an error has done: the markets of all tickers but    *)
(* those it has yet to do are there, with a lookup table or a warning; and *)
(* a market whose table it is about to store exists.                       *)
Planned(t, close) == [ticker |-> t, close |-> close]
Ready(r) ==
  /\ run[r].pc = "ok" => run[r].todo = {} /\ ~run[r].errors
  /\ run[r].pc \in Working \cup {"ok"} /\ ~run[r].errors /\ run[r].close > now =>
       \A t \in Tickers \ run[r].todo :
         LET m == Planned(t, run[r].close) IN Exists(m) /\ (market[m].alt \/ run[r].warned)
  /\ run[r].pc \in {"alt", "repair"} /\ run[r].close > now => Exists(Current(r))
RunsReady == \A r \in Runs : Ready(r)

(* A market is not taken away before its close.                            *)
LEMMA PlannedStays ==
  ASSUME WorldTyped, WorldTyped', Kept, now' >= now, NEW m, m.close \in Int, m.close > now', Exists(m)
  PROVE  m \in DOMAIN market' /\ (market[m].alt => market'[m].alt)
<1>1. now \in Int /\ now' \in Int
  BY InstantsOrdered DEF WorldTyped
<1>2. m.close > now
  BY <1>1
<1> QED BY <1>2 DEF Kept, Exists

(* A run that does not move stays ready while time goes on.                *)
LEMMA ReadyStays ==
  ASSUME WorldTyped, WorldTyped', Kept, now' >= now, RunTyped, NEW r \in Runs, Ready(r), run'[r] = run[r]
  PROVE  Ready(r)'
<1>0. run[r] \in Run
  BY DEF RunTyped
<1>1. CASE run[r].pc \in Working \cup {"ok"} /\ run[r].close > now'
  <2>1. run[r].close \in Int
    <3>1. run[r].close \in Closes \cup {0}
      BY <1>0 DEF Run
    <3> QED BY <3>1, ClosesTyped
  <2>2. now \in Int /\ now' \in Int
    BY InstantsOrdered DEF WorldTyped
  <2>3. run[r].close > now
    BY <1>1, <2>1, <2>2
  <2>4. ~run[r].errors => \A t \in Tickers \ run[r].todo :
          LET m == Planned(t, run[r].close) IN m \in DOMAIN market' /\ (market'[m].alt \/ run[r].warned)
    <3>1. ASSUME ~run[r].errors, NEW t \in Tickers \ run[r].todo, NEW m, m = Planned(t, run[r].close)
          PROVE  m \in DOMAIN market' /\ (market'[m].alt \/ run[r].warned)
      <4>1. Exists(m) /\ (market[m].alt \/ run[r].warned)
        BY <1>1, <2>3, <3>1 DEF Ready
      <4>2. m.close = run[r].close
        BY <3>1 DEF Planned
      <4> QED BY <1>1, <2>1, <4>1, <4>2, PlannedStays
    <3> QED BY <3>1
  <2>5. run[r].pc \in {"alt", "repair"} => Exists(Current(r))'
    <3>1. Current(r)' = Current(r) /\ Current(r).close = run[r].close
      BY DEF Current
    <3>2. run[r].pc \in {"alt", "repair"} => Exists(Current(r))
      BY <2>3 DEF Ready
    <3>3. run[r].pc \in {"alt", "repair"} => Current(r) \in DOMAIN market'
      BY <1>1, <2>1, <3>1, <3>2, PlannedStays DEF Exists
    <3> QED BY <3>1, <3>3 DEF Exists
  <2>6. run[r].pc = "ok" => run[r].todo = {} /\ ~run[r].errors
    BY DEF Ready
  <2> QED BY <2>4, <2>5, <2>6 DEF Ready, Exists
<1>2. CASE ~(run[r].pc \in Working \cup {"ok"} /\ run[r].close > now')
  <2>1. run[r].pc = "ok" => run[r].todo = {} /\ ~run[r].errors
    BY DEF Ready
  <2>2. "alt" \in Working /\ "repair" \in Working
    BY DEF Working
  <2> QED BY <1>2, <2>1, <2>2 DEF Ready
<1> QED BY <1>1, <1>2

(* A run that has not begun, or has just begun.                            *)
LEMMA FreshReady ==
  ASSUME NEW r \in Runs, run'[r] = NoRun \/ run'[r] = FirstStep
  PROVE  Ready(r)'
BY NewRuns DEF Ready, Working, NoRun, FirstStep

(* A run goes on to the next ticker: without an error, if the market of    *)
(* this one is there with its table; or with an error.                     *)
LEMMA AdvanceReady ==
  ASSUME RunTyped, WorldTyped, Kept, UNCHANGED now, WorldTyped',
         NEW r \in Runs, run[r].pc \in Working, Ready(r), NEW error \in BOOLEAN,
         LET next == Advance(r, error) IN
         \/ run' = next
         \/ run' = [next EXCEPT ![r].warned = TRUE],
         error \/ run[r].close <= now \/
           (Current(r) \in DOMAIN market' /\ (market'[Current(r)].alt \/ run'[r].warned))
  PROVE  Ready(r)'
<1> DEFINE next == Advance(r, error)
           cur == Current(r)
           t0 == cur.ticker
<1>1. /\ next \in [Runs -> Run]
      /\ next[r].todo = run[r].todo \ {t0}
      /\ next[r].errors = (run[r].errors \/ error)
      /\ next[r].close = run[r].close /\ next[r].warned = run[r].warned
      /\ next[r].pc = IF next[r].todo # {} THEN "look" ELSE IF next[r].errors THEN "errors" ELSE "ok"
  BY AdvanceMoves
<1>2. t0 \in run[r].todo /\ cur.close = run[r].close /\ cur = Planned(t0, run[r].close) /\ run[r] \in Run
  BY CurrentTicker DEF Planned
<1>3. run' = next \/ run' = [next EXCEPT ![r].warned = TRUE]
  OBVIOUS
<1> HIDE DEF next
<1>4. /\ run'[r].todo = run[r].todo \ {t0}
      /\ run'[r].errors = (run[r].errors \/ error)
      /\ run'[r].close = run[r].close
      /\ run[r].warned => run'[r].warned
      /\ run'[r].pc = IF run'[r].todo # {} THEN "look" ELSE IF run'[r].errors THEN "errors" ELSE "ok"
  BY <1>1, <1>3 DEF Run
<1>5. now \in Int /\ run[r].close \in Int
  <2>1. run[r].close \in Closes \cup {0}
    BY <1>2 DEF Run
  <2> QED BY <2>1, ClosesTyped, InstantsOrdered DEF WorldTyped
<1>6. ASSUME ~run'[r].errors, run[r].close > now, NEW t \in Tickers \ run'[r].todo,
             NEW m, m = Planned(t, run[r].close)
      PROVE  m \in DOMAIN market' /\ (market'[m].alt \/ run'[r].warned)
  <2>1. ~error /\ ~run[r].errors
    BY <1>4, <1>6, Zenon
  <2>1a. ~(run[r].close <= now)
    BY <1>5, <1>6
  <2>2. CASE t = t0
    <3>1. m = cur
      BY <1>2, <1>6, <2>2
    <3> QED BY <2>1, <2>1a, <3>1
  <2>3. CASE t # t0
    <3>1. t \in Tickers \ run[r].todo
      BY <1>4, <1>6, <2>3
    <3>2. Exists(m) /\ (market[m].alt \/ run[r].warned)
      BY <1>6, <2>1, <3>1 DEF Ready
    <3>3. m.close = run[r].close
      BY <1>6 DEF Planned
    <3>4. now' >= now /\ m.close \in Int /\ m.close > now'
      BY <1>5, <1>6, <3>3
    <3>5. m \in DOMAIN market' /\ (market[m].alt => market'[m].alt)
      BY <3>2, <3>4, PlannedStays
    <3> QED BY <1>4, <3>2, <3>5
  <2> QED BY <2>2, <2>3
<1>7. run'[r].pc \notin {"alt", "repair"} /\ (run'[r].pc = "ok" => run'[r].todo = {} /\ ~run'[r].errors)
  BY <1>4
<1>8. now' = now
  OBVIOUS
<1>9. ASSUME ~run'[r].errors, run'[r].close > now', NEW t \in Tickers \ run'[r].todo
      PROVE  LET m == Planned(t, run'[r].close) IN
             m \in DOMAIN market' /\ (market'[m].alt \/ run'[r].warned)
  BY <1>4, <1>6, <1>8, <1>9
<1> HIDE DEF cur, t0
<1> QED BY <1>7, <1>9 DEF Ready, Exists

(* A run goes on with the same ticker.                                     *)
LEMMA SameTickerReady ==
  ASSUME RunTyped, WorldTyped, Kept, UNCHANGED now, WorldTyped',
         NEW r \in Runs, run[r].pc \in Working, Ready(r), NEW pc \in {"create", "repair", "alt"},
         run' = [run EXCEPT ![r].pc = pc],
         pc # "create" => Current(r) \in DOMAIN market'
  PROVE  Ready(r)'
<1>1. run[r] \in Run /\ run \in [Runs -> Run]
  BY DEF RunTyped
<1>2. run'[r] = [run[r] EXCEPT !.pc = pc]
  BY <1>1
<1>3. /\ run'[r].todo = run[r].todo /\ run'[r].errors = run[r].errors
      /\ run'[r].close = run[r].close /\ run'[r].warned = run[r].warned /\ run'[r].pc = pc
  BY <1>1, <1>2 DEF Run
<1>4. Current(r)' = Current(r)
  BY <1>3 DEF Current
<1>5. now \in Int /\ run[r].close \in Int
  <2>1. run[r].close \in Closes \cup {0}
    BY <1>1 DEF Run
  <2> QED BY <2>1, ClosesTyped, InstantsOrdered DEF WorldTyped
<1>6. ASSUME ~run[r].errors, run[r].close > now, NEW t \in Tickers \ run[r].todo,
             NEW m, m = Planned(t, run[r].close)
      PROVE  m \in DOMAIN market' /\ (market'[m].alt \/ run[r].warned)
  <2>1. Exists(m) /\ (market[m].alt \/ run[r].warned)
    BY <1>6 DEF Ready
  <2>2. m.close = run[r].close
    BY <1>6 DEF Planned
  <2>3. now' >= now /\ m.close \in Int /\ m.close > now'
    BY <1>5, <1>6, <2>2
  <2> QED BY <2>1, <2>3, PlannedStays
<1>7. pc # "create" => Current(r) \in DOMAIN market'
  BY DEF Exists
<1>8. now' = now /\ pc # "ok"
  OBVIOUS
<1> QED BY <1>3, <1>4, <1>6, <1>7, <1>8 DEF Ready, Exists

(* A step of a run.                                                        *)
LEMMA RunStepReady ==
  ASSUME RunTyped, WorldTyped, WorldTyped', MarketTyped, Kept, UNCHANGED now, NEW r \in Runs,
         RunStep(r), Ready(r)
  PROVE  Ready(r)'
<1> DEFINE m == Current(r)
<1>0. run[r] \in Run /\ run \in [Runs -> Run] /\ now \in Int
  BY InstantsOrdered DEF RunTyped, WorldTyped
<1>1. CASE ReadQuotes(r)
  <2>1. CASE outage
    <3>1. run'[r].pc = "errors"
      BY <1>0, <1>1, <2>1 DEF ReadQuotes
    <3> QED BY <3>1 DEF Ready, Working
  <2>2. CASE ~outage
    <3>1. run'[r].pc = "look" /\ run'[r].todo = Tickers
      BY <1>0, <1>1, <2>2 DEF ReadQuotes, Run
    <3> QED BY <3>1 DEF Ready
  <2> QED BY <2>1, <2>2
<1>2. CASE Look(r)
  <2>1. run[r].pc \in Working /\ UNCHANGED market
    BY <1>2 DEF Look, Working, chainVars, accounts
  <2>2. CASE ~Exists(m)
    <3>1. run' = [run EXCEPT ![r].pc = "create"]
      BY <1>2, <2>2 DEF Look
    <3> QED BY <2>1, <3>1, SameTickerReady
  <2>3. CASE Exists(m) /\ market[m].alt
    <3>1. run' = Advance(r, FALSE)
      BY <1>2, <2>3 DEF Look
    <3>2. m \in DOMAIN market' /\ market'[m].alt
      BY <2>1, <2>3 DEF Exists
    <3> QED BY <2>1, <3>1, <3>2, AdvanceReady DEF Exists
  <2>4. CASE Exists(m) /\ ~market[m].alt
    <3>1. run' = [run EXCEPT ![r].pc = "repair"]
      BY <1>2, <2>4 DEF Look
    <3>2. m \in DOMAIN market'
      BY <2>1, <2>4 DEF Exists
    <3> QED BY <2>1, <3>1, <3>2, SameTickerReady DEF Exists
  <2> QED BY <2>2, <2>3, <2>4
<1>3. CASE Create(r)
  <2>1. run[r].pc \in Working
    BY <1>3 DEF Create, Working
  <2>2. CASE CreateStrikeMarket(m) /\ run' = [run EXCEPT ![r].pc = "alt"]
    <3>1. m \in DOMAIN market'
      BY <2>2 DEF CreateStrikeMarket
    <3> QED BY <2>1, <2>2, <3>1, SameTickerReady DEF Exists
  <2>3. CASE run' = Advance(r, TRUE)
    BY <2>1, <2>3, AdvanceReady
  <2> QED BY <1>3, <2>2, <2>3 DEF Create
<1>4. CASE SetAlt(r)
  <2>1. run[r].pc \in Working
    BY <1>4 DEF SetAlt, Working
  <2>2. CASE CanSetAlt(m) /\ market' = [market EXCEPT ![m].alt = TRUE] /\ run' = Advance(r, FALSE)
    <3>1. m \in DOMAIN market /\ market[m] \in Account
      BY <2>2 DEF CanSetAlt, Exists, MarketTyped
    <3>2. m \in DOMAIN market' /\ market'[m].alt
      BY <2>2, <3>1 DEF Account
    <3> QED BY <2>1, <2>2, <3>2, AdvanceReady DEF Exists
  <2>3. CASE run' = Advance(r, TRUE)
    BY <2>1, <2>3, AdvanceReady
  <2> QED BY <1>4, <2>2, <2>3 DEF SetAlt
<1>5. CASE RepairAlt(r)
  <2>1. run[r].pc \in Working /\ run[r].pc = "repair"
    BY <1>5 DEF RepairAlt, Working
  <2>2. run[r].close <= now \/ Exists(m)
    <3>1. run[r].close \in Int
      <4>1. run[r].close \in Closes \cup {0}
        BY <1>0 DEF Run
      <4> QED BY <4>1, ClosesTyped
    <3>2. run[r].close > now => Exists(m)
      BY <2>1 DEF Ready
    <3> QED BY <1>0, <3>1, <3>2
  <2>3. CASE CanSetAlt(m) /\ market' = [market EXCEPT ![m].alt = TRUE] /\ run' = Advance(r, FALSE)
    <3>1. m \in DOMAIN market /\ market[m] \in Account
      BY <2>3 DEF CanSetAlt, Exists, MarketTyped
    <3>2. m \in DOMAIN market' /\ market'[m].alt
      BY <2>3, <3>1 DEF Account
    <3> QED BY <2>1, <2>3, <3>2, AdvanceReady DEF Exists
  <2>4. CASE ~CanSetAlt(m) /\ run' = Advance(r, FALSE) /\ UNCHANGED market
    <3>1. Exists(m) => market[m].alt
      BY <2>4 DEF CanSetAlt
    <3>2. run[r].close <= now \/ (m \in DOMAIN market' /\ market'[m].alt)
      BY <2>2, <2>4, <3>1 DEF Exists
    <3> QED BY <2>1, <2>4, <3>2, AdvanceReady DEF Exists
  <2>5. CASE run' = [Advance(r, FALSE) EXCEPT ![r].warned = TRUE] /\ UNCHANGED market
    <3>1. Advance(r, FALSE) \in [Runs -> Run]
      BY <2>1, AdvanceMoves
    <3>2. run'[r].warned
      BY <2>5, <3>1 DEF Run
    <3>3. run[r].close <= now \/ m \in DOMAIN market'
      BY <2>2, <2>5 DEF Exists
    <3> QED BY <2>1, <2>5, <3>2, <3>3, AdvanceReady DEF Exists
  <2> QED BY <1>5, <2>3, <2>4, <2>5 DEF RepairAlt
<1> QED BY <1>1, <1>2, <1>3, <1>4, <1>5 DEF RunStep

(* Every step leaves every run ready.                                      *)
LEMMA RunsReadyStep == DayInv /\ RunsReady /\ [Next]_vars => RunsReady'
<1> SUFFICES ASSUME DayInv, RunsReady, [Next]_vars, NEW r \in Runs PROVE Ready(r)'
  BY DEF RunsReady
<1>0. /\ WorldTyped /\ RunTyped /\ MarketTyped /\ Ready(r)
      /\ WorldTyped' /\ RunTyped' /\ Kept /\ now' >= now
      /\ "main" \in Runs /\ "http" \in Runs /\ "child" \in Runs
  BY StepMoves, DayInvStep DEF DayInv, TypeInv, RunsReady, Runs
<1>1. CASE run'[r] = run[r]
  BY <1>0, <1>1, ReadyStays
<1>2. CASE run'[r] = NoRun \/ run'[r] = FirstStep
  BY <1>2, FreshReady
<1>3. ASSUME NEW s \in Runs, RunStep(s) PROVE Ready(r)'
  <2>1. s # r => run'[r] = run[r]
    BY <1>0, <1>3, RunStepTyped
  <2>2. UNCHANGED now
    BY <1>3 DEF RunStep, ReadQuotes, Look, Create, SetAlt, RepairAlt, chainVars, world
  <2> QED BY <1>0, <1>1, <1>3, <2>1, <2>2, RunStepReady
<1>4. ASSUME TimePasses \/ RestartInitializer \/ FallbackTimesOut PROVE Ready(r)'
  <2>1. run \in [Runs -> Run]
    BY <1>0 DEF RunTyped
  <2>2. run'[r] \in {run[r], NoRun, FirstStep}
    BY <1>0, <1>4, <2>1 DEF TimePasses, RestartInitializer, FallbackTimesOut, BeginRun
  <2> QED BY <1>1, <1>2, <2>2
<1>5. ASSUME NEW s \in Runs, RunBegins(s) PROVE Ready(r)'
  BY <1>0, <1>1, <1>2, <1>5, RunBeginTyped DEF RunBegins
<1> QED BY <1>0, <1>1, <1>3, <1>4, <1>5, RunsMove

(* No run has done anything yet.                                           *)
LEMMA InitReady == Init => RunsReady
<1> SUFFICES ASSUME Init, NEW r \in Runs PROVE Ready(r)
  BY DEF RunsReady
<1> QED BY NewRuns DEF Init, InitializerInit, Ready, Working

(* A run of the initializer that reports success leaves a market with its  *)
(* lookup table for every ticker, although runs of three processes work on *)
(* the same markets at once, RPCs fail between a run's transactions and    *)
(* processes end in the middle (services/market-initializer).              *)
THEOREM OkRunsAreReady == Spec => []OkMeansReady
<1>1. Init => DayInv /\ RunsReady
  BY InitDay, InitReady
<1>2. DayInv /\ RunsReady /\ [Next]_vars => (DayInv /\ RunsReady)'
  BY DayInvStep, RunsReadyStep
<1>3. DayInv /\ RunsReady => OkMeansReady
  <2> SUFFICES ASSUME RunsReady, NEW r \in Runs, run[r].pc = "ok", run[r].close > now,
                      NEW t \in Tickers, NEW m, m = Planned(t, run[r].close)
               PROVE  Exists(m) /\ (market[m].alt \/ run[r].warned)
    BY DEF OkMeansReady, Planned
  <2>1. t \in Tickers \ run[r].todo /\ ~run[r].errors
    BY DEF RunsReady, Ready
  <2> QED BY <2>1 DEF RunsReady, Ready
<1> QED BY <1>1, <1>2, <1>3, PTL DEF Spec

(* The morning of a market day after a health check in which nothing       *)
(* failed; then the fallback has yet to begin, is at work, or the markets  *)
(* exist.                                                                  *)
Checked ==
  /\ ranToday["health"]
  /\ IsMarketDay(ETDay(now)) /\ ETMinute(now) < At(GetCloseHour(ETDay(now)), 0)
  /\ atCheck = faults
AllExist(tickers) == \A t \in tickers : Planned(t, PlannedClose[now]) \in DOMAIN market
Fallback ==
  \/ run["child"].pc = "quotes" /\ ~outage
  \/ /\ run["child"].pc \in Working
     /\ run["child"].close = PlannedClose[now]
     /\ AllExist(Tickers \ run["child"].todo)
  \/ AllExist(Tickers)
Net == atCheck <= faults /\ (Checked => Fallback)

(* Faults are only ever counted up.                                        *)
LEMMA FaultsCount ==
  ASSUME TypeInv, TypeInv', [Next]_vars
  PROVE  /\ faults \in Int /\ faults' \in Int /\ faults' >= faults
         /\ atCheck \in Int /\ atCheck' \in Int
<1>1. faults \in Int /\ faults' \in Int /\ atCheck \in Int /\ atCheck' \in Int
  <2>1. MaxFaults \in Nat
    BY DayAssumption
  <2>2. 0 .. MaxFaults \subseteq Int /\ -1 .. MaxFaults \subseteq Int
    BY <2>1
  <2> QED BY <2>2 DEF TypeInv, WorldTyped, SmallTyped
<1>2. faults' = faults \/ faults' = faults + 1
  <2>1. CASE UNCHANGED vars
    BY <2>1 DEF vars, chainVars, world
  <2>2. CASE TimePasses
    BY <2>2 DEF TimePasses, Tick
  <2>3. CASE Outside \/ FeederMoves
    BY <2>3 DEF Outside, Outage, HoldersLeave, CrankSettled, FeederMoves, CheckMarketState, RestartFeeder,
       UpdateFeed, Fault, world
  <2>4. CASE InitializerMoves
    BY <2>4, RunSmall DEF FaultMoves, TypeInv
  <2>5. CASE ServiceMoves
    BY <2>5, ServiceSmall DEF FaultMoves, TypeInv
  <2>6. CASE SchedulerMoves
    <3>1. lock' \in BOOLEAN
      BY DEF TypeInv, SmallTyped
    <3> QED BY <2>6, <3>1, SchedulerSmall DEF FaultMoves, TypeInv
  <2> QED BY <2>1, <2>2, <2>3, <2>4, <2>5, <2>6 DEF Next
<1> QED BY <1>1, <1>2

(* Planned markets stay while the clock stands still.                      *)
LEMMA AllStay ==
  ASSUME WorldTyped, WorldTyped', Kept, UNCHANGED now, NEW tickers, AllExist(tickers)
  PROVE  AllExist(tickers)'
<1>1. PlannedClose[now] \in Int /\ PlannedClose[now] > now /\ now \in Int
  BY PlansAreCloses, InstantsOrdered DEF WorldTyped
<1>2. PlannedClose[now'] = PlannedClose[now] /\ now' >= now
  BY <1>1
<1>3. ASSUME NEW t \in tickers, NEW m, m = Planned(t, PlannedClose[now])
      PROVE  m \in DOMAIN market'
  <2>1. m.close = PlannedClose[now] /\ m \in DOMAIN market
    BY <1>3 DEF Planned, AllExist
  <2>2. m.close \in Int /\ m.close > now'
    BY <1>1, <2>1
  <2> QED BY <1>2, <2>1, <2>2, PlannedStays DEF Exists
<1>4. (PlannedClose[now])' = PlannedClose[now]
  BY <1>2 DEF PlannedClose
<1> QED BY <1>3, <1>4 DEF AllExist

(* A step that leaves the fallback alone.                                  *)
LEMMA FallbackStays ==
  ASSUME WorldTyped, WorldTyped', Kept, UNCHANGED now, outage' = outage,
         run'["child"] = run["child"], Fallback
  PROVE  Fallback'
<1>1. (PlannedClose[now])' = PlannedClose[now]
  BY DEF PlannedClose
<1>2. ASSUME NEW tickers, AllExist(tickers) PROVE AllExist(tickers)'
  BY <1>2, AllStay
<1>3. CASE run["child"].pc = "quotes" /\ ~outage
  BY <1>3 DEF Fallback
<1>4. CASE /\ run["child"].pc \in Working /\ run["child"].close = PlannedClose[now]
           /\ AllExist(Tickers \ run["child"].todo)
  BY <1>1, <1>2, <1>4 DEF Fallback, AllExist, Working
<1>5. CASE AllExist(Tickers)
  BY <1>2, <1>5 DEF Fallback
<1> QED BY <1>3, <1>4, <1>5 DEF Fallback

(* The premise holds already, if the jobs, the clock and what is counted   *)
(* at the check stay.                                                      *)
LEMMA CheckedBefore ==
  ASSUME TypeInv, TypeInv', [Next]_vars, Net, UNCHANGED <<now, atCheck>>,
         ranToday'["health"] => ranToday["health"], Checked'
  PROVE  Checked /\ faults' = faults
<1>1. /\ faults \in Int /\ faults' \in Int /\ faults' >= faults
      /\ atCheck \in Int /\ atCheck' \in Int
  BY FaultsCount
<1>2. atCheck <= faults /\ atCheck' = faults' /\ atCheck' = atCheck
  BY DEF Net, Checked
<1>3. faults' = faults /\ atCheck = faults
  BY <1>1, <1>2
<1> QED BY <1>3 DEF Checked

(* A step that touches neither the fallback nor the check.                 *)
LEMMA NetSame ==
  ASSUME TypeInv, TypeInv', [Next]_vars, Kept, Net, UNCHANGED <<now, outage, atCheck>>,
         ranToday'["health"] => ranToday["health"], run'["child"] = run["child"], Checked'
  PROVE  Fallback'
<1>1. Checked /\ Fallback
  BY CheckedBefore DEF Net
<1> QED BY <1>1, FallbackStays DEF TypeInv

(* The fallback at work: each step finds or makes the market of its        *)
(* ticker, or a fault is counted.                                          *)
LEMMA ChildAdvances ==
  ASSUME TypeInv, WorldTyped', Kept, UNCHANGED now, run["child"].pc \in Working,
         run["child"].close = PlannedClose[now], AllExist(Tickers \ run["child"].todo),
         Current("child") \in DOMAIN market', NEW error \in BOOLEAN,
         LET next == Advance("child", error) IN
         \/ run' = next
         \/ run' = [next EXCEPT !["child"].warned = TRUE]
  PROVE  Fallback'
<1> DEFINE next == Advance("child", error)
           t0 == Current("child").ticker
<1>0. "child" \in Runs /\ RunTyped /\ WorldTyped /\ run["child"] \in Run
  BY DEF Runs, TypeInv, RunTyped
<1>1. /\ next \in [Runs -> Run]
      /\ next["child"].todo = run["child"].todo \ {t0}
      /\ next["child"].close = run["child"].close
      /\ next["child"].pc = IF next["child"].todo # {} THEN "look" ELSE IF next["child"].errors THEN "errors" ELSE "ok"
  BY <1>0, AdvanceMoves
<1>2. Planned(t0, PlannedClose[now]) \in DOMAIN market'
  BY <1>0, CurrentTicker DEF Planned
<1>3. run' = next \/ run' = [next EXCEPT !["child"].warned = TRUE]
  OBVIOUS
<1> HIDE DEF next
<1>4. /\ run'["child"].todo = run["child"].todo \ {t0}
      /\ run'["child"].close = run["child"].close
      /\ run'["child"].todo # {} => run'["child"].pc = "look"
  BY <1>0, <1>1, <1>3 DEF Run
<1>5. AllExist(Tickers \ run["child"].todo)'
  <2> DEFINE done == Tickers \ run["child"].todo
  <2>1. ASSUME NEW tickers, tickers = done PROVE \A t \in tickers : Planned(t,
              PlannedClose[now]) \in DOMAIN market'
    <3>1. AllExist(tickers)'
      BY <1>0, <2>1, AllStay
    <3>2. (PlannedClose[now])' = PlannedClose[now]
      BY DEF PlannedClose
    <3> QED BY <3>1, <3>2 DEF AllExist
  <2>2. \A t \in done : Planned(t, PlannedClose[now]) \in DOMAIN market'
    BY <2>1
  <2>3. \A t \in Tickers \ run'["child"].todo : Planned(t, PlannedClose[now]) \in DOMAIN market'
    BY <1>2, <1>4, <2>2
  <2>4. (PlannedClose[now])' = PlannedClose[now]
    BY DEF PlannedClose
  <2> QED BY <2>3, <2>4 DEF AllExist
<1>6. (PlannedClose[now])' = PlannedClose[now]
  BY DEF PlannedClose
<1>7. CASE run'["child"].todo # {}
  BY <1>4, <1>5, <1>6, <1>7 DEF Fallback, Working
<1>8. CASE run'["child"].todo = {}
  BY <1>5, <1>8 DEF Fallback, AllExist
<1> QED BY <1>7, <1>8

(* It goes on with the same ticker.                                        *)
LEMMA ChildGoesOn ==
  ASSUME TypeInv, WorldTyped', Kept, UNCHANGED now, run["child"].pc \in Working,
         run["child"].close = PlannedClose[now], AllExist(Tickers \ run["child"].todo),
         NEW pc \in {"create", "repair", "alt"}, run' = [run EXCEPT !["child"].pc = pc]
  PROVE  Fallback'
<1>0. "child" \in Runs /\ run \in [Runs -> Run] /\ WorldTyped /\ run["child"] \in Run
  BY DEF Runs, TypeInv, RunTyped
<1>1. /\ run'["child"].todo = run["child"].todo /\ run'["child"].close = run["child"].close
      /\ run'["child"].pc \in Working
  BY <1>0 DEF Run, Working
<1>2. ASSUME NEW tickers, tickers = Tickers \ run["child"].todo PROVE AllExist(tickers)'
  BY <1>0, <1>2, AllStay
<1>3. (PlannedClose[now])' = PlannedClose[now]
  BY DEF PlannedClose
<1>4. \A t \in Tickers \ run["child"].todo : Planned(t, PlannedClose[now]) \in DOMAIN market'
  BY <1>2, <1>3 DEF AllExist
<1> QED BY <1>1, <1>3, <1>4 DEF Fallback, AllExist

(* A step of the fallback, without a fault.                                *)
LEMMA ChildStep ==
  ASSUME TypeInv, TypeInv', RunsReady, Kept, UNCHANGED <<now, outage>>, faults' = faults, Fallback,
         RunStep("child")
  PROVE  Fallback'
<1> DEFINE m == Current("child")
<1>0. /\ "child" \in Runs /\ run \in [Runs -> Run] /\ WorldTyped /\ WorldTyped' /\ run["child"] \in Run
      /\ MarketTyped /\ RunTyped
      /\ faults \in Int
  BY DayAssumption DEF Runs, TypeInv, RunTyped, WorldTyped
<1>1. CASE AllExist(Tickers)
  BY <1>0, <1>1, AllStay DEF Fallback
<1>2. CASE run["child"].pc = "quotes" /\ ~outage
  <2>1. ReadQuotes("child")
    BY <1>2 DEF RunStep, Look, Create, SetAlt, RepairAlt
  <2>2. run'["child"].pc = "look" /\ run'["child"].todo = Tickers /\ run'["child"].close = PlannedClose[now]
    BY <1>0, <1>2, <2>1 DEF ReadQuotes, Run
  <2>3. (PlannedClose[now])' = PlannedClose[now]
    BY DEF PlannedClose
  <2> QED BY <2>2, <2>3 DEF Fallback, AllExist, Working
<1>3. CASE /\ run["child"].pc \in Working /\ run["child"].close = PlannedClose[now]
           /\ AllExist(Tickers \ run["child"].todo)
  <2>1. m.close = PlannedClose[now] /\ PlannedClose[now] \in Int /\ PlannedClose[now] > now /\ now \in Int
    BY <1>0, <1>3, PlansAreCloses, InstantsOrdered, CurrentTicker DEF WorldTyped
  <2>2. Exists(m) => m \in DOMAIN market'
    <3>1. ASSUME NEW n, n = m, Exists(n) PROVE n \in DOMAIN market'
      BY <1>0, <2>1, <3>1, PlannedStays
    <3> QED BY <3>1
  <2>3. ASSUME NEW error \in BOOLEAN, run' = Advance("child", error), m \in DOMAIN market' PROVE Fallback'
    BY <1>0, <1>3, <2>3, ChildAdvances
  <2>4. ASSUME NEW pc \in {"create", "repair", "alt"},
              run' = [run EXCEPT !["child"].pc = pc] PROVE Fallback'
    BY <1>0, <1>3, <2>4, ChildGoesOn
  <2>5. ~Fault("rpc")
    BY <1>0 DEF Fault
  <2>6. CASE Look("child")
    <3>1. ~Exists(m) => run' = [run EXCEPT !["child"].pc = "create"]
      BY <2>6 DEF Look
    <3>2. Exists(m) => run' = Advance("child", FALSE) \/ run' = [run EXCEPT !["child"].pc = "repair"]
      BY <2>6 DEF Look
    <3> QED BY <2>2, <2>3, <2>4, <3>1, <3>2
  <2>7. CASE Create("child")
    <3>1. CASE run' = [run EXCEPT !["child"].pc = "alt"]
      BY <2>4, <3>1
    <3>2. CASE ~CanCreate(m) /\ run' = Advance("child", TRUE)
      <4>1. Exists(m)
        BY <2>1, <3>2 DEF CanCreate
      <4> QED BY <2>2, <2>3, <3>2, <4>1
    <3> QED BY <2>5, <2>7, <3>1, <3>2 DEF Create
  <2>8. CASE SetAlt("child") \/ RepairAlt("child")
    <3>1. Exists(m)
      <4>1. run["child"].pc \in {"alt", "repair"} /\ run["child"].close > now
        BY <1>3, <2>1, <2>8 DEF SetAlt, RepairAlt
      <4> QED BY <1>0, <4>1 DEF RunsReady, Ready
    <3>2. run' = Advance("child", FALSE) \/ run' = Advance("child", TRUE)
      BY <2>5, <2>8 DEF SetAlt, RepairAlt
    <3> QED BY <2>2, <2>3, <3>1, <3>2
  <2>9. ~ReadQuotes("child")
    BY <1>3 DEF ReadQuotes, Working
  <2> QED BY <2>6, <2>7, <2>8, <2>9 DEF RunStep
<1> QED BY <1>1, <1>2, <1>3 DEF Fallback

(* While the morning goes on the same close is planned.                    *)
LEMMA SameMorning ==
  ASSUME NEW t \in Instants, NEW u \in Instants, t < u, ETDay(t) = ETDay(u),
         IsMarketDay(ETDay(u)), ETMinute(u) < At(GetCloseHour(ETDay(u)), 0)
  PROVE  ETMinute(t) < At(GetCloseHour(ETDay(t)), 0) /\ PlannedClose[t] = PlannedClose[u]
<1> DEFINE today == ETDay(u)
           close == ComputeCloseForDate(today, today)
           minute == At(GetCloseHour(today), 0)
<1>1. t \in Int /\ u \in Int
  BY InstantsOrdered
<1>2. /\ today \in Int /\ ETMinute(t) \in 0 .. 1439
      /\ ETClock(t) = today * 1440 + ETMinute(t)
  BY <1>1, ClockTypes
<1>3. PlannedClose[u] = close /\ close > u
  <2>1. ComputeMarketClose(u) = close /\ u < ComputeMarketClose(u)
    BY <1>1, ClosePlanned
  <2> QED BY <2>1 DEF PlannedClose
<1>4. /\ minute \in {780, 960} /\ close \in Int
      /\ ETClock(close) = today * 1440 + minute
      /\ ETMinute(close) = minute
  BY <1>2, CloseRight
<1>5. ETClock(t) < ETClock(close)
  <2> HIDE DEF close, minute, today
  <2>1. t < close
    BY <1>1, <1>3, <1>4
  <2> QED BY <1>1, <1>4, <2>1, ClockOrder
<1>6. ETMinute(t) < minute
  <2> HIDE DEF close, minute, today
  <2>1. today * 1440 + ETMinute(t) < today * 1440 + minute
    BY <1>2, <1>4, <1>5
  <2>2. today * 1440 \in Int /\ ETMinute(t) \in Int /\ minute \in Int
    BY <1>2, <1>4
  <2> QED BY <2>1, <2>2
<1>7. PlannedClose[t] = close
  <2>1. IsMarketDay(ETDay(t)) /\ ETMinute(t) < At(GetCloseHour(ETDay(t)), 0)
    BY <1>6
  <2>2. ComputeMarketClose(t) = ComputeCloseForDate(ETDay(t), ETDay(t))
    BY <1>1, <2>1, ClosePlanned
  <2> QED BY <2>2 DEF PlannedClose
<1> QED BY <1>3, <1>6, <1>7

(* Time passes when no run is on its way.                                  *)
LEMMA TimeNet ==
  ASSUME TypeInv, TypeInv', Kept, Net, TimePasses, [Next]_vars, Checked'
  PROVE  Fallback'
<1>1. /\ now \in Instants /\ now' \in Instants /\ now' > now /\ now \in Int /\ now' \in Int
      /\ WorldTyped /\ WorldTyped'
  BY TimeTyped, InstantsOrdered DEF TypeInv, WorldTyped
<1>2. ETDay(now') = ETDay(now) /\ UNCHANGED <<ranToday, atCheck>>
  <2>1. ETDay(now') # ETDay(now) => ranToday' = [job \in Jobs |-> FALSE]
    BY DEF TimePasses, DayTurns
  <2>2. ranToday'["health"]
    BY DEF Checked
  <2> QED BY <2>1, <2>2 DEF TimePasses, DayTurns, Jobs
<1>3. IsMarketDay(ETDay(now')) /\ ETMinute(now') < At(GetCloseHour(ETDay(now')), 0)
  BY DEF Checked
<1>4. ETMinute(now) < At(GetCloseHour(ETDay(now)), 0) /\ PlannedClose[now] = PlannedClose[now']
  BY <1>1, <1>2, <1>3, SameMorning
<1>5. Checked
  <2>1. faults' = faults
    BY DEF TimePasses, Tick
  <2>2. ranToday'["health"] /\ atCheck' = faults'
    BY DEF Checked
  <2> QED BY <1>2, <1>3, <1>4, <2>1, <2>2 DEF Checked
<1>6. AllExist(Tickers)
  <2>1. run["child"].pc \notin InProgress
    BY DEF TimePasses, Quiet, Running, Runs
  <2> QED BY <1>5, <2>1 DEF Net, Fallback, InProgress, Working
<1>7. ASSUME NEW t \in Tickers, NEW m, m = Planned(t, PlannedClose[now]) PROVE m \in DOMAIN market'
  <2>1. m.close = PlannedClose[now] /\ m \in DOMAIN market
    BY <1>6, <1>7 DEF Planned, AllExist
  <2>2. m.close \in Int /\ m.close > now'
    <3>1. PlannedClose[now'] > now' /\ PlannedClose[now'] \in Int
      BY <1>1, PlansAreCloses
    <3> QED BY <1>4, <2>1, <3>1
  <2>3. now' >= now
    BY <1>1
  <2> QED BY <1>1, <2>1, <2>2, <2>3, PlannedStays DEF Exists
<1>8. (PlannedClose[now])' = PlannedClose[now']
  BY DEF PlannedClose
<1>9. AllExist(Tickers)'
  BY <1>4, <1>7, <1>8 DEF AllExist
<1> QED BY <1>9 DEF Fallback

(* The health check itself: the fallback begins, or the markets were found.*)
LEMMA HealthNet ==
  ASSUME TypeInv, TypeInv', Kept, Net, RunHealthCheck, [Next]_vars, Checked'
  PROVE  Fallback'
<1>0. /\ UNCHANGED <<now, outage, market>> /\ faults \in Int /\ faults >= 0 /\ faults' \in Int /\ faults' >= 0
      /\ WorldTyped /\ WorldTyped' /\ "child" \in Runs /\ RunTyped
  <2>1. faults \in 0 .. MaxFaults /\ faults' \in 0 .. MaxFaults /\ MaxFaults \in Nat
    BY DayAssumption DEF TypeInv, WorldTyped
  <2> QED BY <2>1 DEF RunHealthCheck, accounts, TypeInv, Runs
<1>1. CASE JobIsDone("health") /\ UNCHANGED <<run, faults, atCheck>>
  <2>1. IsMarketDay(ETDay(now))
    BY <1>0 DEF Checked
  <2>2. ranToday["health"]
    BY <1>1, <2>1 DEF JobIsDone
  <2> QED BY <1>0, <1>1, <2>2, NetSame
<1>2. ASSUME atCheck' = IF outage THEN -1 ELSE faults' PROVE ~outage
  BY <1>0, <1>2 DEF Checked
<1>3. CASE Verified /\ atCheck' = (IF outage THEN -1 ELSE faults) /\ UNCHANGED <<run, faults>>
  <2>1. ~outage
    BY <1>2, <1>3
  <2>2. AllExist(Tickers)
    BY <1>3, <2>1 DEF Verified, Exists, AllExist, Planned
  <2> QED BY <1>0, <2>2, AllStay DEF Fallback
<1>4. CASE run' = BeginRun("child") /\ atCheck' = (IF outage THEN -1 ELSE faults')
  <2>1. ~outage
    BY <1>2, <1>4
  <2>2. run'["child"].pc = "quotes"
    BY <1>0, <1>4, RunBeginTyped, NewRuns
  <2> QED BY <1>0, <2>1, <2>2 DEF Fallback
<1> QED BY <1>1, <1>3, <1>4 DEF RunHealthCheck

(* Every step keeps the net.                                               *)
LEMMA NetStep == DayInv /\ RunsReady /\ Net /\ [Next]_vars => Net'
<1> SUFFICES ASSUME DayInv, RunsReady, Net, [Next]_vars PROVE Net'
  OBVIOUS
<1>0. /\ TypeInv /\ TypeInv' /\ Kept /\ now' >= now /\ WorldTyped /\ SmallTyped /\ RunTyped /\ lock' \in BOOLEAN
      /\ "main" \in Runs /\ "http" \in Runs /\ "child" \in Runs
      /\ run \in [Runs -> Run]
  BY StepMoves, DayInvStep DEF DayInv, TypeInv, SmallTyped, RunTyped, Runs
<1>1. /\ faults \in Int /\ faults' \in Int /\ faults' >= faults
      /\ atCheck \in Int /\ atCheck' \in Int /\ atCheck <= faults
      /\ faults' \in 0 .. MaxFaults /\ MaxFaults \in Nat
  BY <1>0, FaultsCount, DayAssumption DEF Net, TypeInv, WorldTyped
<1> DEFINE Goal == atCheck' <= faults' /\ (Checked' => Fallback')
<1>2. ASSUME UNCHANGED <<now, outage, atCheck, ranToday>>, run'["child"] = run["child"] PROVE Goal
  BY <1>0, <1>1, <1>2, NetSame
<1>3. ASSUME UNCHANGED vars PROVE Goal
  BY <1>2, <1>3 DEF vars, chainVars, world, processVars, schedulerVars
<1>4. ASSUME TimePasses PROVE Goal
  <2>1. atCheck' = atCheck \/ atCheck' = -1
    BY <1>4 DEF TimePasses, DayTurns
  <2> QED BY <1>0, <1>1, <1>4, <2>1, TimeNet
<1>5. ASSUME Outside \/ FeederMoves PROVE Goal
  <2>1. UNCHANGED <<now, atCheck, ranToday, run>>
    BY <1>0, <1>5, OutsideTyped DEF Outside, FeederMoves, processVars, schedulerVars
  <2>2. ASSUME UNCHANGED outage PROVE Goal
    BY <1>2, <2>1, <2>2
  <2>3. ASSUME Outage PROVE Goal
    <3>1. faults' = faults + 1
      BY <2>3 DEF Outage, Fault
    <3>2. ~Checked'
      BY <1>1, <2>1, <3>1 DEF Checked
    <3> QED BY <1>1, <2>1, <3>2
  <2>4. UNCHANGED outage \/ Outage
    BY <1>5 DEF Outside, HoldersLeave, CrankSettled, FeederMoves, CheckMarketState, RestartFeeder,
       UpdateFeed, world
  <2> QED BY <2>2, <2>3, <2>4
<1>6. ASSUME InitializerMoves PROVE Goal
  <2>1. UNCHANGED <<now, outage, atCheck, ranToday>>
    BY <1>0, <1>6, RunSmall DEF InitializerMoves, schedulerVars
  <2>2. ASSUME NEW r \in Runs, RunStep(r), r # "child" PROVE Goal
    BY <1>0, <1>2, <2>1, <2>2, RunStepTyped
  <2>3. ASSUME RunStep("child") PROVE Goal
    <3>1. ASSUME Checked' PROVE Fallback'
      <4>1. Checked /\ faults' = faults
        BY <1>0, <2>1, <3>1, CheckedBefore
      <4> QED BY <1>0, <2>1, <2>3, <4>1, ChildStep DEF Net
    <3> QED BY <1>1, <2>1, <3>1
  <2>4. ASSUME RestartInitializer PROVE Goal
    <3>1. run'["child"] = run["child"]
      BY <1>0, <2>4 DEF RestartInitializer, BeginRun
    <3> QED BY <1>2, <2>1, <3>1
  <2> HIDE DEF Goal
  <2> QED BY <1>6, <2>2, <2>3, <2>4 DEF InitializerMoves, Initializer
<1>7. ASSUME ServiceMoves PROVE Goal
  <2>1. UNCHANGED <<now, outage, atCheck, ranToday>>
    BY <1>0, <1>7, ServiceSmall DEF ServiceMoves, schedulerVars
  <2>2. run' = run \/ RunBegins("http")
    <3>1. ASSUME NEW c \in Callers, CycleStep(c)
          PROVE  run' = run \/ RunBegins("http")
      BY <3>1, Zenon DEF CycleStep, CheckClosed, PollAgain, AbortOpen, ConfirmTimesOut, UpdateOracleFeeds,
         SettleExpired, CycleFails, CrankAndRedeem, CloseEligible, InitNextDay, InitAnswered,
         UnpauseWithRetry, RunBegins
    <3> QED BY <1>7, <3>1, Zenon DEF ServiceMoves, Service, PollTest, PollLoaded, SetMarketState,
               ResetMarketState, RestartService
  <2>3. run'["child"] = run["child"]
    BY <1>0, <2>2, RunBeginTyped DEF RunBegins
  <2> QED BY <1>2, <2>1, <2>3
<1>8. ASSUME SchedulerMoves PROVE Goal
  <2>1. UNCHANGED <<now, outage>>
    BY <1>0, <1>8, SchedulerSmall
  <2>2. ASSUME RunHealthCheck PROVE Goal
    <3>1. atCheck' = atCheck \/ atCheck' = faults' \/ atCheck' = -1
      BY <2>2 DEF RunHealthCheck
    <3> QED BY <1>0, <1>1, <2>2, <3>1, HealthNet
  <2>3. ASSUME FallbackTimesOut PROVE Goal
    <3>1. faults' = faults /\ faults >= 0 /\ atCheck' = -1
      BY <1>0, <2>3 DEF FallbackTimesOut, chainVars, world, WorldTyped
    <3>2. ~Checked'
      BY <1>1, <3>1 DEF Checked
    <3> QED BY <1>1, <3>1, <3>2
  <2>4. ASSUME TriggerSettlement PROVE Goal
    <3>1. atCheck' = atCheck /\ run' = run /\ ranToday'["health"] = ranToday["health"]
      BY <1>0, <2>4 DEF TriggerSettlement, JobEnds, SmallTyped, Jobs
    <3> QED BY <1>0, <1>1, <2>1, <3>1, NetSame
  <2>5. ASSUME MidnightRecalc PROVE Goal
    BY <1>2, <2>1, <2>5 DEF MidnightRecalc
  <2>6. ASSUME RestartScheduler PROVE Goal
    <3>1. faults' = faults + 1 /\ atCheck' = atCheck
      BY <2>6 DEF RestartScheduler, Fault
    <3>2. ~Checked'
      BY <1>1, <3>1 DEF Checked
    <3> QED BY <1>1, <3>1, <3>2
  <2>7. ASSUME Deploy PROVE Goal
    <3>1. faults' = faults /\ atCheck' = atCheck /\ ~ranToday'["health"]
      BY <2>7 DEF Deploy, chainVars, world, Jobs
    <3>2. ~Checked'
      BY <3>1 DEF Checked
    <3> QED BY <1>1, <3>1, <3>2
  <2> HIDE DEF Goal
  <2> QED BY <1>8, <2>2, <2>3, <2>4, <2>5, <2>6, <2>7 DEF SchedulerMoves, SchedulerStep
<1> QED BY <1>3, <1>4, <1>5, <1>6, <1>7, <1>8 DEF Next, Net

(* After the health check of a market day the markets of today's close     *)
(* exist, unless something failed since it began: the check sees what the  *)
(* night's cycle, the initializer's own runs and their crashes left out,   *)
(* and the fallback makes up for it (services/automation).                 *)
THEOREM CheckLeavesMarkets == Spec => []SafetyNet
<1>1. Init => DayInv /\ RunsReady /\ Net
  <2> SUFFICES ASSUME Init PROVE Net
    BY InitDay, InitReady
  <2>1. atCheck = -1 /\ faults = 0
    BY DEF Init, SchedulerInit, ChainInit
  <2> QED BY <2>1 DEF Net, Checked
<1>2. DayInv /\ RunsReady /\ Net /\ [Next]_vars => (DayInv /\ RunsReady /\ Net)'
  BY DayInvStep, RunsReadyStep, NetStep
<1>3. Net => SafetyNet
  <2> SUFFICES ASSUME Net, Checked, ~Running("child"), NEW t \in Tickers
               PROVE  Exists(Planned(t, PlannedClose[now]))
    BY DEF SafetyNet, Checked, Planned
  <2>1. run["child"].pc \notin {"quotes"} \cup Working
    BY DEF Running, InProgress, Working
  <2> QED BY <2>1 DEF Net, Fallback, AllExist, Exists
<1> QED BY <1>1, <1>2, <1>3, PTL DEF Spec
=============================================================================
