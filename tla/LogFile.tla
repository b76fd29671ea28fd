-------------------------------- MODULE LogFile --------------------------------
(***************************************************************************)
(* muduo::LogFile (muduo/base/LogFile.cpp) on top of FileUtil::AppendFile: *)
(* the back end of AsyncLogging appends lines to a file that is rolled     *)
(* over when it is too large or when the day changes, and flushed from     *)
(* time to time.  The day and the flush are looked at only every           *)
(* checkEveryN_ lines.  The wall clock that all of this reads may be set   *)
(* back.  An operation of the thread-safe variant holds mutex_, the other  *)
(* variant has one caller, so an operation is one step.                    *)
(***************************************************************************)
EXTENDS Naturals, Sequences

CONSTANTS rollSize, flushInterval, checkEveryN,
          Period,        \* kRollPerSeconds_: the seconds of a day
          MaxLine,       \* the longest line
          MaxTime,       \* bounds of the model: the time the clock reaches ...
          MaxSetbacks    \* ... and how often it is set back

ASSUME LogFileAssumption == /\ rollSize \in Nat /\ flushInterval \in Nat
                            /\ checkEveryN \in Nat \ {0} /\ Period \in Nat \ {0}
                            /\ MaxLine \in Nat /\ MaxTime \in Nat
                            /\ MaxSetbacks \in Nat

VARIABLES now,            \* what time(NULL) returns
          setbacks,       \* how often the clock has been set back
          lastRoll, lastFlush, startOfPeriod, count,
          writtenBytes,   \* writtenBytes_ of the current file; rollSize + 1
                          \* stands for all that is larger than rollSize
          opened,         \* the files opened, by the second in their names
          late,           \* lines of a later day in the current file
          overdue         \* unflushed lines that came when a flush was due

clock   == <<now, setbacks>>
rolling == <<lastRoll, startOfPeriod, opened>>
fileVars == <<clock, rolling, lastFlush, count, writtenBytes, late, overdue>>

period(t) == t - (t % Period)

TooLarge(n) == writtenBytes + n > rollSize
CheckDue    == count + 1 >= checkEveryN

(* rollFile() opens a new file, which closes and so flushes the old one. *)
(* Defect: it opens one whatever the last one was called.                *)
OpenAnyway == /\ lastRoll' = now
              /\ lastFlush' = now
              /\ startOfPeriod' = period(now)
              /\ opened' = Append(opened, now)
              /\ writtenBytes' = 0 /\ late' = 0 /\ overdue' = 0

OpenFile == /\ now > lastRoll
            /\ lastRoll' = now
            /\ lastFlush' = now
            /\ startOfPeriod' = period(now)
            /\ opened' = Append(opened, now)
            /\ writtenBytes' = 0 /\ late' = 0 /\ overdue' = 0

(* The current file after a line of which n bytes are counted (all of    *)
(* them, unless fwrite fails), and the same after a refused rollFile().  *)
isLate    == period(now) > startOfPeriod
isOverdue == now > lastFlush + flushInterval

LineAdded(n) == /\ writtenBytes' = IF TooLarge(n) THEN rollSize + 1 ELSE writtenBytes + n
                /\ late' = IF isLate THEN late + 1 ELSE late
                /\ overdue' = IF isOverdue THEN overdue + 1 ELSE overdue
                /\ UNCHANGED <<rolling, lastFlush>>

RollFile(n) == OpenFile \/ (now <= lastRoll /\ LineAdded(n))

FileInit == /\ now \in 1..Period /\ setbacks = 0
            /\ lastRoll = now /\ lastFlush = now /\ startOfPeriod = period(now)
            /\ opened = <<now>>
            /\ count = 0
            /\ writtenBytes = 0 /\ late = 0 /\ overdue = 0

--------------------------------------------------------------------------------
(* append_unlock(), by what the line makes it do.                        *)
AppendRollsBySize(n) == /\ TooLarge(n)
                        /\ RollFile(n)
                        /\ UNCHANGED <<clock, count>>

AppendCounts(n) == /\ ~TooLarge(n) /\ ~CheckDue
                   /\ count' = count + 1
                   /\ LineAdded(n)
                   /\ UNCHANGED clock

AppendNewDay(n) == /\ ~TooLarge(n) /\ CheckDue
                   /\ period(now) # startOfPeriod
                   /\ count' = 0
                   /\ RollFile(n)
                   /\ UNCHANGED clock

(* A defect: what is due is not flushed before the next check.           *)
AppendChecksOnly(n) == /\ ~TooLarge(n) /\ CheckDue
                       /\ period(now) = startOfPeriod
                       /\ count' = 0
                       /\ LineAdded(n)
                       /\ UNCHANGED clock

AppendFlushes(n) == /\ ~TooLarge(n) /\ CheckDue
                    /\ period(now) = startOfPeriod
                    /\ count' = 0
                    /\ writtenBytes' = writtenBytes + n
                    /\ IF isOverdue
                       THEN lastFlush' = now /\ overdue' = 0
                       ELSE UNCHANGED <<lastFlush, overdue>>
                    /\ UNCHANGED <<clock, rolling, late>>

(* flush(), called by AsyncLogging after each round.                     *)
Flush == /\ overdue' = 0
         /\ UNCHANGED <<clock, rolling, lastFlush, count, writtenBytes, late>>

Tick == /\ now < MaxTime
        /\ now' = now + 1
        /\ UNCHANGED <<setbacks, rolling, lastFlush, count, writtenBytes, late, overdue>>

SetBack == /\ setbacks < MaxSetbacks
           /\ setbacks' = setbacks + 1
           /\ now' \in 1..(now - 1)
           /\ UNCHANGED <<rolling, lastFlush, count, writtenBytes, late, overdue>>

append(n) == \/ AppendRollsBySize(n) \/ AppendCounts(n)
             \/ AppendNewDay(n) \/ AppendFlushes(n)

FileNext == \/ \E n \in 0..MaxLine : append(n)
            \/ Flush \/ Tick \/ SetBack

FileSpec == FileInit /\ [][FileNext]_fileVars

--------------------------------------------------------------------------------
(* No file is opened twice: file names have a resolution of one second,  *)
(* and a second AppendFile on a name would append to the old file with   *)
(* writtenBytes_ at 0 (LogFile.cpp:76-82, 95-98).                        *)
NamesDistinct == \A i, j \in 1..Len(opened) : i # j => opened[i] # opened[j]

(* A file gets at most checkEveryN_ - 1 lines of a later day before one   *)
(* is found to belong into a new file, and at most as many lines wait for *)
(* a flush that is due, once more for each time that the clock was set    *)
(* back: rolling over for a new day, which skips the test of the flush,   *)
(* is not refused then (LogFile.cpp:51-66, 77-83).                        *)
LinesBounded ==
  LET Bound == (checkEveryN - 1) * (1 + setbacks) IN late <= Bound /\ overdue <= Bound
================================================================================
