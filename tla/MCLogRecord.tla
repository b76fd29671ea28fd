---------------------------- MODULE MCLogRecord -----------------------------
(***************************************************************************)
(* The log lines, and beside them the conversions they are made of: the    *)
(* inputs of these are chosen in the initial state, one at a time.         *)
(***************************************************************************)
EXTENDS LogRecord

VARIABLE input

\* A zone east of UTC; one with a change of its offset in summer, at the
\* turns of days and hours; one that never saw summer time and was set back.
h == 3600
East   == FixedZone(8 * h)
Summer == ZoneFile(<<Localtime(-5 * h, FALSE), Localtime(-4 * h, TRUE)>>,
                   <<[at |-> 40 * h, idx |-> 2], [at |-> 90 * h, idx |-> 1],
                     [at |-> 140 * h, idx |-> 2], [at |-> 190 * h, idx |-> 1]>>, 3)
SetBack == ZoneFile(<<Localtime(2 * h, FALSE), Localtime(h, FALSE), Localtime(2 * h, TRUE)>>,
                    <<[at |-> 50 * h, idx |-> 2], [at |-> 100 * h, idx |-> 3],
                      [at |-> 150 * h, idx |-> 2]>>, 4)

Files == {Summer, SetBack} \cup {[Summer EXCEPT !.readable = r] : r \in 1 .. 2}
ZoneData == {East} \cup {readTimeZoneFile(f) : f \in Files}

MCZones == {East, readTimeZoneFile(Summer)}
MCUserPieces == {Text("short", 1), Text("long", 60), Text("rest", 41), Number("number", 2)}

Probes == {k * h + d : k \in -2 .. 200, d \in {-1, 0, 1, 1800}}

Numbers == LET near == {0, 1, 9, 10, 11, 99, 100, 101, 4095, 4096, 65535, 999999999,
                        1000000000, 2147483646, 2147483647}
           IN  near \cup {-n : n \in near} \cup {-2147483647 - 1}

\* The top three digits to the base, the rest all zero or all as large as can be.
Tops(base) ==
  {[i \in 1 .. 7 |-> CASE i = k -> a [] i = k - 1 -> b [] i < k - 1 -> c [] OTHER -> 0] :
     k \in 1 .. 7, a \in {1, 9, 10, 99, 100, 500, 999, base - 1},
     b \in {0, 4, 5, 6, 494, 495, 499, 500, 504, 505, 511, 512, 513, 949, 950, 994, 995, 996, base - 1},
     c \in {0, base - 1}}
\* The numbers that a double carries over one of formatSI's limits, and more
\* about the limits; and those about a limit of formatIEC that is one less.
Below(limit, last) == [i \in 1 .. 7 |-> IF i = 1 THEN last ELSE limit[i]]
CarriedOver == {Below(<<0, 999, 999, 999, 949, 99, 0>>, last) : last \in 992 .. 999}
                 \cup {Below(<<0, 999, 999, 999, 499, 999, 0>>, last) : last \in 936 .. 999}
Edges(base) == IF base = 1000
               THEN CarriedOver \cup {Below(g, last) : g \in CarriedOver, last \in 930 .. 935 \cup 985 .. 991}
               ELSE {Below(kLimitPi, last) : last \in 110 .. 130}
\* Those within 64 bits.
Int64(groups, base) == groups[7] <= IF base = 1000 THEN 8 ELSE 7

\* All the years of four decades, and those about every turn of a century in
\* the range of Date.h.
Years == 1900 .. 1904 \cup 1964 .. 2004 \cup 2036 .. 2040
           \cup UNION {c - 1 .. c + 4 : c \in {2100, 2200, 2300, 2400}} \cup 2496 .. 2500

Inputs ==
  [kind : {"month"}, year : Years, month : 1 .. 12]
  \cup [kind : {"zone"}, data : ZoneData, at : Probes]
  \cup [kind : {"number"}, value : Numbers]
  \cup UNION {[kind : {"units"}, base : {b}, groups : {g \in Tops(b) \cup Edges(b) : Int64(g, b)}] : b \in {1000, 1024}}

Idle == [kind |-> "none"]

MCInit == LogInit /\ input \in Inputs \cup {Idle}
             /\ (input # Idle => now = CHOOSE s \in Seconds : TRUE)
             /\ (input # Idle => g_logLevel = INFO)
MCNext == input = Idle /\ LogNext /\ UNCHANGED input
MCSpec == MCInit /\ [][MCNext]_<<logVars, input>>

----------------------------------------------------------------------------
\* Days from the first of January 1970 to the first day of a month, counted.
DaysBefore(y, m) ==
  365 * (y - 1970) + Cardinality({k \in 1970 .. y - 1 : IsLeap(k)})
    - Cardinality({k \in y .. 1969 : IsLeap(k)})
    + FoldFunction(+, 0, [k \in 1 .. m - 1 |-> DaysIn(y, k)])

\* The formulas of Date.cpp and of TimeZone.cpp agree with counting days, in
\* both directions, also before 1970 and at the ends of the day; the weekdays
\* go on from the Thursday that 1970 began with.  A timestamp prints the second
\* and the microseconds that it was made of.  (The times of day only where
\* seconds have 32 bits; and with 64 "microseconds" to the second.)
CalendarExact ==
  input.kind = "month" =>
    \A d \in 1 .. DaysIn(input.year, input.month) :
      LET days == DaysBefore(input.year, input.month) + d - 1
          jd   == getJulianDayNumber(input.year, input.month, d)
          ymd  == [year |-> input.year, month |-> input.month, day |-> d]
      IN  /\ jd - kJulianDayOf1970_01_01 = days
          /\ getYearMonthDay(jd) = ymd
          /\ weekDay(jd) = (days + 4) % 7
          /\ days \in -24854 .. 24854 =>
               \A s \in {0, 59, 3600, 43199, 86399} :
                 LET tm == toUtcTime(days * kSecondsPerDay + s)
                 IN  /\ tm.date = ymd
                     /\ tm.yday = days - DaysBefore(input.year, 1)
                     /\ tm.time.hour * 3600 + tm.time.min * 60 + tm.time.sec = s
                     /\ fromUtcTime(tm.date, tm.time) = days * kSecondsPerDay + s
          /\ days \in 0 .. 300 =>
               LET second == days * kSecondsPerDay + d
                   stamp  == fromUnixTime(second, 30 + d, 64)
               IN  stamp > 0 => /\ toString(stamp, 64) = <<second, 30 + d>>
                                /\ toFormattedString(stamp, 64) = <<toUtcTime(second), 30 + d>>

\* The offset in force at a time: that of the last transition at or before
\* it; before all of them, of the file's first local time.
OffsetAt(data, t) ==
  LET past == {i \in DOMAIN data.transitions : data.transitions[i].gmttime <= t}
  IN  data.localtimes[IF past = {} THEN 1 ELSE data.transitions[Max(past)].localtimeIdx]

\* Other times that are spelled the same in local time.
SpelledLike(data, t) ==
  {u \in {t + k * 1800 : k \in -4 .. 4} \ {t} :
     u + OffsetAt(data, u).gmtOffset = t + OffsetAt(data, t).gmtOffset}

\* Conversion to local time takes the offset in force, at the second of the
\* transition the new one, also from a file that could not be read to its
\* end; and back again it returns where it came from, in the hour that is
\* repeated when summer ends by tm_isdst.  Only an hour repeated for another
\* reason has no way back.
ZoneInForce ==
  input.kind = "zone" =>
    LET local == toLocalTime(input.data, input.at)
        inForce == OffsetAt(input.data, input.at)
    IN  /\ local.seconds - input.at = inForce.gmtOffset
        /\ local.isdst = inForce.isDst
        /\ \/ fromLocalTime(input.data, local) = input.at
           \/ \E u \in SpelledLike(input.data, input.at) :
                /\ OffsetAt(input.data, u).isDst = inForce.isDst
                /\ fromLocalTime(input.data, local) = u

\* Reading the characters back gives the number, the smallest one included;
\* and a quantity in SI or IEC units has three digits (and the sixth character
\* in four of IEC), and is off by no more than half of the last one -- but for
\* the numbers that as doubles are beyond the limit that they are less than.
Value(digits, base) == FoldLeft(LAMBDA n, d : n * base + d, 0, digits)

\* In two halves, since the number may have all of the 32 bits.
ReadsAs(text, value) ==
  LET cut  == Max({0, Len(text.digits) - 5})
      sign == IF text.negative THEN -1 ELSE 1
  IN  /\ sign * Value(SubSeq(text.digits, 1, cut), 10) = CDiv(value, 100000)
      /\ sign * Value(SubSeq(text.digits, cut + 1, Len(text.digits)), 10) = CRem(value, 100000)

\* From 2^53 on, within units 5 and 6, another thousandth for the double.
Significant(text, groups, base) ==
  LET n == Thousandths(groups, text.unit, base)
      printed == text.mantissa * 10 ^ (3 - text.decimals)
      half == (10 ^ (3 - text.decimals)) \div 2 + (IF text.unit >= 5 THEN 1 ELSE 0)
  IN  /\ text.mantissa \in 100 .. base - 1 \/ (base = 1000 /\ groups \in CarriedOver)
      /\ text.decimals > 0 => text.mantissa < 1000 \/ (base = 1000 /\ groups \in CarriedOver)
      /\ printed - n \in -half .. half

formatUnits(groups, base) == IF base = 1000 THEN formatSI(groups) ELSE formatIEC(groups)

NumbersReadBack ==
  /\ input.kind = "number" =>
       /\ ReadsAs(convert(input.value), input.value)
       /\ Len(convert(input.value).digits) < kMaxNumericSize
       /\ input.value >= 0 => Value(convertHex(input.value), 16) = input.value
  /\ input.kind = "units" =>
       LET text == formatUnits(input.groups, input.base)
       IN  IF text.unit = 0 THEN text.mantissa = input.groups[1]
           ELSE Significant(text, input.groups, input.base)

\* "The returned string is atmost 5 characters long" (LogStream.h:238): the
\* digits, the point, and the letter of the unit.
Characters(text) ==
  Len(convert(text.mantissa).digits) + (IF text.decimals > 0 THEN 1 ELSE 0) + (IF text.unit > 0 THEN 1 ELSE 0)
AtMostFiveCharacters ==
  input.kind = "units" /\ input.base = 1000 => Characters(formatSI(input.groups)) <= 5

\* What the conversions of dates, times and numbers print is what they were
\* given, over all the inputs (Date.cpp, TimeZone.cpp, LogStream.cpp).
ConversionsExact == CalendarExact /\ NumbersReadBack
=============================================================================
