------------------------------ MODULE Calendar ------------------------------
(***************************************************************************)
(* Days and times of day: Date.cpp, Date.h, Timestamp.h, Timestamp.cpp and *)
(* the UTC half of TimeZone.cpp.  A date is its Julian day number, as in   *)
(* the code.  All divisions of these functions, except the first two of    *)
(* toUtcTime, are of non-negative numbers for the years of Date.h:15.      *)
(***************************************************************************)
EXTENDS Integers

\* C's division truncates towards zero and the remainder has the dividend's
\* sign; TLA+'s rounds down.
CDiv(a, b) == IF a < 0 /\ a % b # 0 THEN (a \div b) + 1 ELSE a \div b
CRem(a, b) == a - b * CDiv(a, b)

getJulianDayNumber(year, month, day) ==
  LET a == (14 - month) \div 12
      y == year + 4800 - a
      m == month + 12 * a - 3
  IN  day + (153 * m + 2) \div 5 + y * 365
        + y \div 4 - y \div 100 + y \div 400 - 32045

getYearMonthDay(julianDayNumber) ==
  LET a == julianDayNumber + 32044
      b == (4 * a + 3) \div 146097
      c == a - (b * 146097) \div 4
      d == (4 * c + 3) \div 1461
      e == c - (1461 * d) \div 4
      m == (5 * e + 2) \div 153
  IN  [day   |-> e - (153 * m + 2) \div 5 + 1,
       month |-> m + 3 - 12 * (m \div 10),
       year  |-> b * 100 + d - 4800 + m \div 10]

weekDay(julianDayNumber) == (julianDayNumber + 1) % 7

kSecondsPerDay == 24 * 60 * 60
kJulianDayOf1970_01_01 == getJulianDayNumber(1970, 1, 1)

fillHMS(seconds) ==
  LET minutes == seconds \div 60
  IN  [sec |-> seconds % 60, min |-> minutes % 60, hour |-> minutes \div 60]

ToDaysUnborrowed(secondsSinceEpoch) ==
  [days |-> CDiv(secondsSinceEpoch, kSecondsPerDay), seconds |-> secondsSinceEpoch % kSecondsPerDay]

\* The remainder of a time before 1970 is negative: the seconds and the days
\* are put right together.
ToDays(secondsSinceEpoch) ==
  LET seconds == CRem(secondsSinceEpoch, kSecondsPerDay)
      days    == CDiv(secondsSinceEpoch, kSecondsPerDay)
  IN  IF seconds < 0 THEN [days |-> days - 1, seconds |-> seconds + kSecondsPerDay]
                     ELSE [days |-> days, seconds |-> seconds]

\* struct tm, with the year and the month as people count them.
toUtcTime(secondsSinceEpoch) ==
  LET t   == ToDays(secondsSinceEpoch)
      jd  == t.days + kJulianDayOf1970_01_01
      ymd == getYearMonthDay(jd)
  IN  [date |-> ymd, time |-> fillHMS(t.seconds), wday |-> weekDay(jd),
       yday |-> jd - getJulianDayNumber(ymd.year, 1, 1)]

fromUtcTime(ymd, hms) ==
  LET days == getJulianDayNumber(ymd.year, ymd.month, ymd.day) - kJulianDayOf1970_01_01
  IN  days * kSecondsPerDay + hms.hour * 3600 + hms.min * 60 + hms.sec

\* A Timestamp is a number of microseconds; what it prints are the seconds
\* and the rest, each cut towards zero.  kMicro is kMicroSecondsPerSecond.
fromUnixTime(seconds, microSeconds, kMicro) == seconds * kMicro + microSeconds

toString(microSeconds, kMicro) == <<CDiv(microSeconds, kMicro), CRem(microSeconds, kMicro)>>

toFormattedString(microSeconds, kMicro) ==
  <<toUtcTime(CDiv(microSeconds, kMicro)), CRem(microSeconds, kMicro)>>

----------------------------------------------------------------------------
\* The calendar by counting, which the conversions must agree with.

IsLeap(y) == y % 4 = 0 /\ (y % 100 # 0 \/ y % 400 = 0)

DaysIn(y, m) == CASE m = 2 -> IF IsLeap(y) THEN 29 ELSE 28
                  [] m \in {4, 6, 9, 11} -> 30
                  [] OTHER -> 31
=============================================================================
