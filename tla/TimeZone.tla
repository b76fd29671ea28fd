------------------------------ MODULE TimeZone ------------------------------
(***************************************************************************)
(* The conversion between UTC and a zone's local time, TimeZone.cpp.  A    *)
(* struct tm of local time is the time its fields spell out (gmtime_r and  *)
(* timegm are inverse to each other) together with tm_isdst and tm_gmtoff. *)
(***************************************************************************)
EXTENDS Calendar, Sequences, SequencesExt, FiniteSetsExt

Localtime(gmtOffset, isDst) == [gmtOffset |-> gmtOffset, isDst |-> isDst]

\* What the file says: its local times, its transitions (each a time and the
\* number of a local time, from 1), and how much of it can be read: so many
\* of the local times, or one more than all of them if nothing is missing.
ZoneFile(types, trans, readable) == [types |-> types, trans |-> trans, readable |-> readable]

\* The transitions are put into the data only when all that precedes them has
\* been read; on an error what was read stays, and the function returns true.
readTimeZoneFile(file) ==
  LET types == file.types
      complete == file.readable > Len(types)
  IN  [localtimes |-> IF complete THEN types ELSE SubSeq(types, 1, file.readable),
       transitions |->
         IF ~complete THEN <<>>
         ELSE [i \in DOMAIN file.trans |->
                 [gmttime |-> file.trans[i].at,
                  localtime |-> file.trans[i].at + types[file.trans[i].idx].gmtOffset,
                  localtimeIdx |-> file.trans[i].idx]]]

FixedZone(eastOfUtc) == [localtimes |-> <<Localtime(eastOfUtc, FALSE)>>, transitions |-> <<>>]

\* The two orders of Comp.
Key(transition, gmt) == IF gmt THEN transition.gmttime ELSE transition.localtime

\* std::lower_bound: the first transition that is not less than the time.
lowerBound(transitions, time, gmt) ==
  Min({i \in DOMAIN transitions : Key(transitions[i], gmt) >= time} \cup {Len(transitions) + 1})

findLocaltimeBefore(data, time, gmt) ==
  LET trans == data.transitions
      i     == lowerBound(trans, time, gmt)
  IN  IF i = 1 THEN data.localtimes[1] ELSE data.localtimes[trans[i - 1].localtimeIdx]

findLocaltime(data, time, gmt) ==
  LET trans == data.transitions
      i     == lowerBound(trans, time, gmt)
  IN  IF trans = <<>> \/ time < Key(trans[1], gmt)
      THEN data.localtimes[1]
      ELSE data.localtimes[trans[
             IF i <= Len(trans) /\ Key(trans[i], gmt) = time THEN i ELSE i - 1].localtimeIdx]

toLocalTime(data, seconds) ==
  LET local == findLocaltime(data, seconds, TRUE)
  IN  [seconds |-> seconds + local.gmtOffset, isdst |-> local.isDst, gmtoff |-> local.gmtOffset]

HourAndMinute(seconds) == (seconds % kSecondsPerDay) \div 60

fromLocalTime(data, localTm) ==
  LET local == findLocaltime(data, localTm.seconds, FALSE)
      try   == toLocalTime(data, localTm.seconds - local.gmtOffset)
      hack  == /\ localTm.isdst
               /\ ~try.isdst
               /\ HourAndMinute(try.seconds) = HourAndMinute(localTm.seconds)
  IN  (IF hack THEN localTm.seconds - 3600 ELSE localTm.seconds) - local.gmtOffset
=============================================================================
