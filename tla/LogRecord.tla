----------------------------- MODULE LogRecord ------------------------------
(***************************************************************************)
(* A log line from its LOG_ macro to the output function: Logging.h and    *)
(* Logging.cpp on the buffer of LogStream, with the thread's cached time   *)
(* (t_lastSecond, t_time) and cached id (t_cachedTid), which a fork must   *)
(* renew.  A time that is printed is the number of seconds that its fields *)
(* spell out.  setTimeZone is not called while a line is being written,    *)
(* which would be a data race on g_logTimeZone.                            *)
(***************************************************************************)
EXTENDS LogStream, TimeZone

CONSTANTS Threads,
          Zones,        \* what setTimeZone may be given, as TimeZone::Data
          NoZone,       \* the value of g_logTimeZone that is not valid()
          UserPieces,   \* what a statement may put into its line
          MaxPieces,    \* bound: pieces put into one line
          Seconds,      \* bound: the seconds the clock may show, all positive
          MaxTid        \* bound: the last id of a thread

ASSUME LogAssumption == NoZone \notin Zones /\ Seconds \subseteq Nat \ {0}

TRACE == 0  DEBUG == 1  INFO == 2  WARN == 3  ERROR == 4  FATAL == 5

VARIABLES
  now,           \* the clock's second
  tid,           \* what the kernel calls each thread
  t_lastSecond, t_time, t_cachedTid,
  line,          \* the line each thread is at, or NoLine
  g_logLevel, g_logTimeZone,
  flushes,       \* whether g_flush is of the stream that g_output writes to
  unflushed,     \* whether that stream has lines that were not flushed
  aborted,
  outdated       \* history: threads whose t_time was formatted before setTimeZone

settings == <<g_logLevel, g_logTimeZone, flushes>>
cached   == <<t_lastSecond, t_time, t_cachedTid>>
logVars  == <<now, tid, cached, line, settings, unflushed, aborted, outdated>>

NoLine == [stage |-> "none"]

\* The macros: those up to LOG_INFO test the level, two pass the function's
\* name, two take errno.
Macro(level, gated, func, sys) == [level |-> level, gated |-> gated, func |-> func, sys |-> sys]
Macros == { Macro(TRACE, TRUE, TRUE, FALSE), Macro(DEBUG, TRUE, TRUE, FALSE),
            Macro(INFO, TRUE, FALSE, FALSE), Macro(INFO, FALSE, FALSE, FALSE),
            Macro(WARN, FALSE, FALSE, FALSE), Macro(ERROR, FALSE, FALSE, FALSE),
            Macro(FATAL, FALSE, FALSE, FALSE), Macro(ERROR, FALSE, FALSE, TRUE),
            Macro(FATAL, FALSE, FALSE, TRUE) }

LocalSeconds(zone, second) ==
  IF zone = NoZone THEN second ELSE toLocalTime(zone, second).seconds

cacheMissLater(t) == now > t_lastSecond[t]
cacheMiss(t) == now # t_lastSecond[t]

\* What formatTime prints: t_time, formatted anew in a new second.
PrintedTime(t) == IF cacheMiss(t) THEN LocalSeconds(g_logTimeZone, now) ELSE t_time[t]

TimePieces == <<Text("time", 17),
                IF g_logTimeZone = NoZone THEN Text("microseconds Z", 9) ELSE Text("microseconds", 8)>>

HeaderPieces(macro, errno) ==
  TimePieces
    \o <<Text(" ", 1), Text("tid", 5), Text(" ", 1), Text("level", 6)>>
    \o (IF errno THEN <<Text("strerror", 16), Text(" (errno = ", 10),
                        Number("errno", 2), Text(")", 1)>> ELSE <<>>)
    \o (IF macro.func THEN <<Text("func", 4), Text(" ", 1)>> ELSE <<>>)

TailPieces == <<Text(" - ", 3), Text("basename", 8), Text(":", 1), Number("line", 3), Text("\n", 1)>>

LogInit ==
  /\ now \in Seconds
  /\ tid = [t \in Threads |-> 1] /\ t_cachedTid = [t \in Threads |-> 0]
  /\ t_lastSecond = [t \in Threads |-> 0]
  /\ t_time = [t \in Threads |-> 0]
  /\ line = [t \in Threads |-> NoLine]
  /\ g_logLevel \in {TRACE, DEBUG, INFO}        \* initLogLevel
  /\ g_logTimeZone = NoZone
  /\ flushes = TRUE                             \* defaultOutput, defaultFlush
  /\ unflushed = FALSE /\ aborted = FALSE /\ outdated = {}

\* The constructor of Logger, for a macro whose level is enabled.
Begin(t, macro, errno) ==
  /\ ~aborted /\ tid[t] # 0 /\ line[t] = NoLine
  /\ macro.gated => g_logLevel <= macro.level
  /\ errno => macro.sys
  /\ LET header == HeaderPieces(macro, errno)
     IN  line' = [line EXCEPT ![t] =
           [stage |-> "open", level |-> macro.level, buffer |-> PutAll(EmptyBuffer, header),
            wanted |-> header, given |-> 0, second |-> now, zone |-> g_logTimeZone,
            time |-> PrintedTime(t), tid |-> IF t_cachedTid[t] = 0 THEN tid[t] ELSE t_cachedTid[t]]]
  /\ t_time' = [t_time EXCEPT ![t] = PrintedTime(t)]
  /\ t_lastSecond' = [t_lastSecond EXCEPT ![t] = IF cacheMiss(t) THEN now ELSE @]
  /\ outdated' = IF cacheMiss(t) THEN outdated \ {t} ELSE outdated
  /\ t_cachedTid' = [t_cachedTid EXCEPT ![t] = IF @ = 0 THEN tid[t] ELSE @]
  /\ UNCHANGED <<now, tid, settings, unflushed, aborted>>

\* operator<< of the statement.
Stream(t, piece) ==
  /\ ~aborted /\ line[t].stage = "open" /\ line[t].given < MaxPieces
  /\ line' = [line EXCEPT ![t].buffer = Put(@, piece),
                          ![t].wanted = Append(@, piece), ![t].given = @ + 1]
  /\ UNCHANGED <<now, tid, cached, settings, unflushed, aborted, outdated>>

\* The destructor: finish() and g_output, then for FATAL g_flush and abort.
Finish(t) ==
  /\ ~aborted /\ line[t].stage = "open"
  /\ line' = [line EXCEPT ![t].buffer = PutAll(@, TailPieces),
                          ![t].wanted = @ \o TailPieces, ![t].stage = "finished"]
  /\ UNCHANGED <<now, tid, cached, settings, unflushed, aborted, outdated>>

Output(t) ==
  /\ ~aborted /\ line[t].stage = "finished"
  /\ line' = [line EXCEPT ![t] = IF line[t].level = FATAL THEN @ ELSE NoLine]
  /\ unflushed' = ~(line[t].level = FATAL /\ flushes)
  /\ aborted' = (line[t].level = FATAL)
  /\ UNCHANGED <<now, tid, cached, settings, outdated>>

\* All levels from WARN on close the same macros.
setLogLevel(level) == g_logLevel' = level /\ UNCHANGED <<g_logTimeZone, flushes, unflushed, outdated>>

\* setOutput, setFlush: to the same stream or to different ones.
SetFunctions ==
  /\ flushes' \in BOOLEAN /\ unflushed' \in BOOLEAN
  /\ UNCHANGED <<g_logLevel, g_logTimeZone, outdated>>

setTimeZone(zone) ==
  /\ g_logTimeZone' = zone
  /\ outdated' = {t \in Threads : t_lastSecond[t] # 0}
  /\ UNCHANGED <<g_logLevel, flushes, unflushed>>

Configure ==
  /\ ~aborted /\ \A t \in Threads : line[t] = NoLine
  /\ \/ \E level \in TRACE .. WARN : setLogLevel(level)
     \/ SetFunctions
     \/ \E zone \in Zones : setTimeZone(zone)
  /\ UNCHANGED <<now, tid, cached, line, aborted>>

\* The clock goes on, or is set back.
Tick ==
  /\ ~aborted /\ now' \in Seconds \ {now}
  /\ UNCHANGED <<tid, cached, line, settings, unflushed, aborted, outdated>>

\* afterFork, registered with pthread_atfork.
afterFork(t, new) == t_cachedTid' = [t_cachedTid EXCEPT ![t] = new]

\* A thread forks: from here on the process is the child, and has only it.
Fork(t) ==
  /\ ~aborted /\ tid[t] \in 1 .. MaxTid - 1 /\ line[t] = NoLine
  /\ tid' = [u \in Threads |-> IF u = t THEN tid[t] + 1 ELSE 0]
  /\ line' = [u \in Threads |-> NoLine]
  /\ afterFork(t, tid[t] + 1)
  /\ UNCHANGED <<now, t_lastSecond, t_time, settings, unflushed, aborted, outdated>>

LogNext ==
  \/ \E t \in Threads :
       \/ \E macro \in Macros, errno \in BOOLEAN : Begin(t, macro, errno)
       \/ \E piece \in UserPieces : Stream(t, piece)
       \/ Finish(t) \/ Output(t) \/ Fork(t)
  \/ Configure
  \/ Tick

----------------------------------------------------------------------------
Times(text, what) == Cardinality({i \in DOMAIN text : text[i] = what})
Names(pieces)     == [i \in DOMAIN pieces |-> pieces[i].what]

\* A line that is handed to the output function: the buffer was never filled
\* to its end, so that a number written in place stayed inside; its header is
\* whole; a piece is missing only if it would not fit even now (a number, if
\* the longest number would not); and it ends with a newline unless one byte
\* is left, in which case the next line is glued to it.
LineShape ==
  \A t \in Threads : line[t].stage = "finished" =>
    LET buffer == line[t].buffer
        wanted == line[t].wanted
        header == Len(wanted) - line[t].given - Len(TailPieces)
    IN  /\ buffer.length < SIZE
        /\ SubSeq(buffer.text, 1, header) = SubSeq(Names(wanted), 1, header)
        /\ \A i \in DOMAIN wanted :
             Times(buffer.text, wanted[i].what) < Times(Names(wanted), wanted[i].what)
               => avail(buffer) <= IF wanted[i].numeric THEN kMaxNumericSize - 1 ELSE wanted[i].len
        /\ Last(buffer.text) = "\n" \/ avail(buffer) = 1

\* The time on a line is its second in the zone that was in force, and the id
\* is that of the thread, also after a fork -- except that a thread's lines of
\* the second in which setTimeZone was called may still have the time of the
\* old zone, since that does not touch the threads' t_time.
StampsTrue ==
  \A t \in Threads : line[t] # NoLine =>
    /\ line[t].tid = tid[t]
    /\ line[t].time = LocalSeconds(line[t].zone, line[t].second) \/ t \in outdated
=============================================================================
