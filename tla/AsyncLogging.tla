------------------------------ MODULE AsyncLogging ------------------------------
(***************************************************************************)
(* muduo::AsyncLogging (muduo/base/AsyncLogging.h, AsyncLogging.cpp): any  *)
(* thread appends log lines to a current buffer; one back-end thread swaps *)
(* the filled buffers out and writes them to the log file.  Four buffers   *)
(* go round between the two sides: the current and the next one in front,  *)
(* newBuffer1 and newBuffer2 behind.                                       *)
(*                                                                         *)
(* What happens under mutex_ is one step; between two swaps the back end   *)
(* touches nothing that is shared, and each buffer it writes is a step.  A *)
(* message is its place in the order of the append() calls; its length     *)
(* only matters to whether it fits, which is left open, except that an     *)
(* empty buffer takes every message that is not longer than a buffer.      *)
(***************************************************************************)
EXTENDS Naturals, Sequences, FiniteSets

CONSTANTS MaxBacklog,  \* 25: more buffers than this in one swap are dropped
          MaxAppends   \* bound of the model: calls of append()

ASSUME LoggingAssumption == MaxBacklog \in Nat /\ MaxBacklog >= 2
                            /\ MaxAppends \in Nat

VARIABLES current,     \* what is in currentBuffer_
          next,        \* whether nextBuffer_ is there; it is always empty
          buffers,     \* buffers_
          new1, new2,  \* whether newBuffer1 and newBuffer2 are there
          toWrite,     \* what of buffersToWrite is yet to be written
          written,     \* the buffers written in this round; 2 are all it keeps
          file,        \* the arguments of output.append(), in order
          running,     \* running_
          owner,       \* the thread that calls start() and stop()
          backend,     \* the back-end thread
          appended,    \* the number of append() calls so far
          oversized,   \* the messages longer than a buffer
          dropped      \* the messages dropped with a backlog

front == <<current, next, buffers, appended, oversized>>
back  == <<new1, new2, toWrite, written, file, dropped>>
vars  == <<front, back, running, owner, backend>>

Notice == <<0>>   \* "Dropped log message at ..."

OwnerPlaces == {"new", "starting", "started", "notifying", "joining", "stopped"}
BackendPlaces == {"none", "loop", "collect", "wait", "woken", "write", "exited",
                  "failed"}   \* pthread_create could not make the thread

Contents(buffer) == {buffer[i] : i \in 1..Len(buffer)}
AllContents(bs) == UNION {Contents(bs[i]) : i \in 1..Len(bs)}

Init == /\ current = <<>> /\ next = TRUE /\ buffers = <<>>
        /\ new1 = FALSE /\ new2 = FALSE /\ toWrite = <<>>
        /\ written = 0 /\ file = <<>>
        /\ running = FALSE
        /\ owner = "new" /\ backend = "none"
        /\ appended = 0 /\ oversized = {} /\ dropped = {}

--------------------------------------------------------------------------------
(* start() and stop(); stop() stores running_ and notifies without mutex_. *)
Start == /\ owner = "new"
         /\ running' = TRUE
         /\ owner' = "starting"
         /\ UNCHANGED <<front, back, backend>>

StartReturns == /\ owner = "starting"
                /\ backend \notin {"none", "failed"}
                /\ owner' = "started"
                /\ UNCHANGED <<front, back, running, backend>>

(* The thread could not be created: Thread::start() returns all the same, *)
(* and latch_.wait() then waits for ever.                                 *)
StartHangs == /\ owner = "starting" /\ backend = "none"
              /\ backend' = "failed"
              /\ UNCHANGED <<front, back, running, owner>>

Stop == /\ owner = "started"
        /\ running' = FALSE
        /\ owner' = "notifying"
        /\ UNCHANGED <<front, back, backend>>

NotifyBackend == backend' = IF backend = "wait" THEN "woken" ELSE backend

StopNotifies == /\ owner = "notifying"
                /\ owner' = "joining"
                /\ NotifyBackend
                /\ UNCHANGED <<front, back, running>>

StopReturns == /\ owner = "joining"
               /\ backend = "exited"
               /\ owner' = "stopped"
               /\ UNCHANGED <<front, back, running, backend>>

--------------------------------------------------------------------------------
(* append(): the message goes to the current buffer, or the current      *)
(* buffer is queued, the next one (or a new one) takes its place and the *)
(* back end is notified.  A message longer than a buffer fits nowhere,   *)
(* and FixedBuffer::append ignores it.                                   *)
AppendFits == /\ appended < MaxAppends
              /\ appended' = appended + 1
              /\ current' = Append(current, appended')
              /\ UNCHANGED <<next, buffers, oversized, back, running, owner, backend>>

(* Two defects: the current buffer is overtaken by the next one, or the   *)
(* next one is taken although nothing is queued.                         *)
AppendOvertaking(tooLong) ==
  /\ appended < MaxAppends
  /\ current = <<>> => tooLong
  /\ appended' = appended + 1
  /\ current' = current
  /\ buffers' = Append(buffers, IF tooLong THEN <<>> ELSE <<appended'>>)
  /\ next' = FALSE
  /\ oversized' = IF tooLong THEN oversized \cup {appended'} ELSE oversized
  /\ NotifyBackend
  /\ UNCHANGED <<back, running, owner>>

AppendDiscarding(tooLong) ==
  /\ appended < MaxAppends
  /\ current = <<>> => tooLong
  /\ appended' = appended + 1
  /\ buffers' = IF current = <<>> THEN buffers ELSE Append(buffers, current)
  /\ current' = IF tooLong THEN <<>> ELSE <<appended'>>
  /\ next' = FALSE
  /\ oversized' = IF tooLong THEN oversized \cup {appended'} ELSE oversized
  /\ NotifyBackend
  /\ UNCHANGED <<back, running, owner>>

AppendSwitches(tooLong) ==
  /\ appended < MaxAppends
  /\ current = <<>> => tooLong
  /\ appended' = appended + 1
  /\ buffers' = Append(buffers, current)
  /\ current' = IF tooLong THEN <<>> ELSE <<appended'>>
  /\ next' = FALSE
  /\ oversized' = IF tooLong THEN oversized \cup {appended'} ELSE oversized
  /\ NotifyBackend
  /\ UNCHANGED <<back, running, owner>>

--------------------------------------------------------------------------------
(* threadFunc(), before the loop. *)
BackendStarts == /\ owner = "starting" /\ backend = "none"
                 /\ backend' = "loop"
                 /\ new1' = TRUE /\ new2' = TRUE
                 /\ UNCHANGED <<front, toWrite, written, file, dropped, running, owner>>

LoopTest == /\ backend = "loop"
            /\ backend' = IF running THEN "collect" ELSE "exited"
            /\ UNCHANGED <<front, back, running, owner>>

(* cond_.waitForSeconds(): it ends with a notify, with the timeout or    *)
(* spuriously, and is not repeated.  A defect: it has no timeout.        *)
CollectWait == /\ backend = "collect" /\ buffers = <<>>
               /\ backend' = "wait"
               /\ UNCHANGED <<front, back, running, owner>>

NeverWakes == FALSE /\ UNCHANGED vars

WaitEnds == /\ backend = "wait"
            /\ backend' = "woken"
            /\ UNCHANGED <<front, back, running, owner>>

(* The swap: the current buffer is queued behind the others, all of them *)
(* become buffersToWrite, and both sides get empty buffers.              *)
Collect == /\ \/ backend = "collect" /\ buffers # <<>>
              \/ backend = "woken"
           /\ toWrite' = Append(buffers, current)
           /\ buffers' = <<>>
           /\ current' = <<>> /\ new1' = FALSE
           /\ next' = TRUE    /\ new2' = (new2 /\ next)
           /\ backend' = "write"
           /\ UNCHANGED <<written, file, dropped, appended, oversized, running, owner>>

(* A backlog is dropped but for its first two buffers, with a notice in   *)
(* the file.  A defect: without the notice.                               *)
DropSilently == /\ backend = "write" /\ Len(toWrite) > MaxBacklog
                /\ toWrite' = SubSeq(toWrite, 1, 2)
                /\ dropped' = dropped \cup (AllContents(toWrite) \ AllContents(toWrite'))
                /\ UNCHANGED <<front, new1, new2, written, file, running, owner, backend>>

DropBacklog == /\ backend = "write" /\ Len(toWrite) > MaxBacklog
               /\ toWrite' = SubSeq(toWrite, 1, 2)
               /\ dropped' = dropped \cup (AllContents(toWrite) \ AllContents(toWrite'))
               /\ file' = Append(file, Notice)
               /\ UNCHANGED <<front, new1, new2, written, running, owner, backend>>

(* Writing an empty buffer adds nothing to the file. *)
WriteBuffer == /\ backend = "write" /\ Len(toWrite) \in 1..MaxBacklog
               /\ file' = IF Head(toWrite) = <<>> THEN file ELSE Append(file, Head(toWrite))
               /\ toWrite' = Tail(toWrite)
               /\ written' = IF written = 2 THEN 2 ELSE written + 1
               /\ UNCHANGED <<front, new1, new2, dropped, running, owner, backend>>

(* At most two of the written buffers, emptied, replace newBuffer1 and    *)
(* newBuffer2 if they are gone.                                           *)
Recycle == /\ backend = "write" /\ toWrite = <<>>
           /\ new1' = (new1 \/ written >= 1)
           /\ new2' = (new2 \/ written >= IF new1 THEN 1 ELSE 2)
           /\ written' = 0
           /\ backend' = "loop"
           /\ UNCHANGED <<front, toWrite, file, dropped, running, owner>>

BackendStep == \/ BackendStarts \/ LoopTest \/ CollectWait \/ WaitEnds \/ Collect
               \/ DropBacklog \/ WriteBuffer \/ Recycle

Next == \/ Start \/ StartReturns \/ StartHangs \/ Stop \/ StopNotifies \/ StopReturns
        \/ AppendFits \/ \E tooLong \in BOOLEAN : AppendSwitches(tooLong)
        \/ BackendStep

(* The back end is scheduled, its timed wait ends, and start() and stop() *)
(* go on once called.  Nobody has to append and nobody has to stop.       *)
Fairness == WF_vars(BackendStep) /\ WF_vars(StartReturns \/ StopNotifies \/ StopReturns)

Spec == Init /\ [][Next]_vars /\ Fairness

--------------------------------------------------------------------------------
TypeOK == /\ current \in Seq(Nat) /\ next \in BOOLEAN /\ buffers \in Seq(Seq(Nat))
          /\ new1 \in BOOLEAN /\ new2 \in BOOLEAN
          /\ toWrite \in Seq(Seq(Nat)) /\ written \in 0..2 /\ file \in Seq(Seq(Nat))
          /\ running \in BOOLEAN
          /\ owner \in OwnerPlaces /\ backend \in BackendPlaces
          /\ appended \in Nat
          /\ oversized \subseteq Nat /\ dropped \subseteq Nat

(* The back end never runs out of buffers: at the head of its loop, and  *)
(* when it gives newBuffer1 away as the current buffer, both are there   *)
(* and nothing is left to write, and a round writes what it must give    *)
(* back, the asserts of AsyncLogging.cpp:74-76 and 136-148.  nextBuffer_ *)
(* is only missing when a buffer is queued.                              *)
BuffersRecycled ==
  /\ backend \in {"loop", "collect", "wait", "woken"} => new1 /\ new2 /\ toWrite = <<>>
  /\ backend = "write" => written + Len(toWrite) >= IF new2 THEN 1 ELSE 2
  /\ ~next => buffers # <<>>

(* The log in flight, oldest first: the file, then what is being written, *)
(* then what is queued, then the current buffer.                          *)
Pipeline == file \o toWrite \o buffers \o <<current>>

(* Nothing is lost, doubled or reordered on the way from append() to the *)
(* file: along the pipeline the messages are in the order of their       *)
(* append() calls, and those missing were too long or were dropped with  *)
(* a backlog.  After stop() the lost tail is what was never swapped out  *)
(* (AsyncLogging.cpp:29-53, 78-125).                                     *)
OrderKept ==
  /\ \A i, j \in 1..Len(Pipeline) :
      \A k \in 1..Len(Pipeline[i]), l \in 1..Len(Pipeline[j]) :
        (i < j \/ (i = j /\ k < l)) /\ Pipeline[i] # Notice /\ Pipeline[j] # Notice
          => Pipeline[i][k] < Pipeline[j][l]
  /\ AllContents(Pipeline) \ {0} = (1..appended) \ (oversized \cup dropped)

(* The file says so whenever a backlog was dropped: a dropped message has *)
(* a notice ahead of it, after everything older than its backlog          *)
(* (AsyncLogging.cpp:108-119).                                            *)
DropsAnnounced ==
  \A m \in dropped : \E i \in 1..Len(file) :
     /\ file[i] = Notice
     /\ \A j \in 1..(i - 1) : \A x \in Contents(file[j]) : x < m
     /\ \A j \in (i + 3)..Len(file) : \A x \in Contents(file[j]) \ {0} : x > m

(* While the logger runs every message reaches the file, even if no      *)
(* further message ever comes to fill its buffer: flushInterval_ sees to *)
(* it, if the back end could be created at all (AsyncLogging.cpp:81-91). *)
Delivered == AllContents(file) \cup oversized \cup dropped
MessagesReachFile ==
  \A m \in 1..MaxAppends :
    (appended >= m /\ running) ~> (m \in Delivered \/ ~running \/ backend = "failed")

(* stop() returns, although it may store running_ and notify between the *)
(* back end's test of running_ and its wait, so that the notify finds    *)
(* nobody: the timed wait ends by itself (AsyncLogging.h:37-41).         *)
StopTerminates == owner = "notifying" ~> owner = "stopped"
================================================================================
