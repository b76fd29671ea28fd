------------------------------ MODULE ThreadProofs ------------------------------
(***************************************************************************)
(* Proofs about MutexCondition and CountDownLatch, for any set of threads  *)
(* and any count, about ThreadObject, which uses a latch once, and about   *)
(* what a thread writes to the log: the stamps of its lines and the search *)
(* in the zone's transitions they rest on.                                 *)
(***************************************************************************)
EXTENDS ThreadObject, MCLogRecord, SequenceTheorems, WellFoundedInduction, TLAPS

(* The inductive invariant of the mutex: a thread owns the pthread mutex *)
(* exactly between lock and unlock, outside of the blocked part of wait. *)
OwnerExact == \A t \in Thread : owner = t <=> at[t] \in Owning

MutexInv == MutexTypeOK /\ OwnerExact /\ HolderExact

LEMMA MutexInvInit == MutexInit => MutexInv
  BY NoThreadAssumption
     DEF MutexInit, MutexInv, MutexTypeOK, OwnerExact, HolderExact,
         isLockedByThisThread, Owning, Places

(* pthread_cond_signal and pthread_cond_broadcast move no thread but      *)
(* waiting ones, and those only to "woken".                              *)
OnlyWakes == /\ at' \in [Thread -> Places]
             /\ \A t \in Thread : \/ at'[t] = at[t]
                                  \/ at[t] = "waiting" /\ at'[t] = "woken"

LEMMA NotifyWakes == ASSUME MutexTypeOK, at' \in Notified
                     PROVE  OnlyWakes
  BY DEF MutexTypeOK, Notified, OnlyWakes, Waiting, Places, Owning

LEMMA NotifyAllWakes == ASSUME MutexTypeOK, at' = NotifiedAll
                        PROVE  OnlyWakes
  BY DEF MutexTypeOK, NotifiedAll, OnlyWakes, Waiting, Places, Owning

LEMMA WakingKeepsInv == ASSUME MutexInv, OnlyWakes, UNCHANGED <<owner, holder>>
                        PROVE  MutexInv'
  BY DEF MutexInv, MutexTypeOK, OwnerExact, HolderExact, OnlyWakes,
         isLockedByThisThread, Owning, Places

LEMMA MutexInvStep == MutexInv /\ [MutexNext]_mutexVars => MutexInv'
<1> SUFFICES ASSUME MutexInv, [MutexNext]_mutexVars
             PROVE  MutexInv'
  OBVIOUS
<1> USE NoThreadAssumption
    DEF MutexInv, MutexTypeOK, OwnerExact, HolderExact, isLockedByThisThread,
        Goto, AcquireMutex, ReleaseMutex, assignHolder, unassignHolder,
        Owning, Places
<1>1. ASSUME NEW t \in Thread, Lock(t) PROVE MutexInv'
  BY <1>1 DEF Lock
<1>2. ASSUME NEW t \in Thread, Unlock(t) PROVE MutexInv'
  BY <1>2 DEF Unlock
<1>3. ASSUME NEW t \in Thread, WaitBegin(t) PROVE MutexInv'
  BY <1>3 DEF WaitBegin
<1>4. ASSUME NEW t \in Thread, WaitEnd(t) PROVE MutexInv'
  BY <1>4 DEF WaitEnd
<1>5. ASSUME NEW t \in Thread, WakeUp(t) PROVE MutexInv'
  BY <1>5 DEF WakeUp
<1>6. CASE Notify
  BY <1>6, NotifyWakes, WakingKeepsInv DEF Notify
<1>7. CASE NotifyAll
  BY <1>7, NotifyAllWakes, WakingKeepsInv DEF NotifyAll
<1>8. CASE UNCHANGED mutexVars
  BY <1>8 DEF mutexVars
<1> QED
  BY <1>1, <1>2, <1>3, <1>4, <1>5, <1>6, <1>7, <1>8 DEF MutexNext

(* holder_ is exact for every client of a MutexLock, whatever it does    *)
(* with lock, unlock, wait and notify (Mutex.h:109-199).                 *)
THEOREM MutexHolderExact == MutexSpec => []HolderExact
<1>1. MutexInv => HolderExact
  BY DEF MutexInv
<1> QED
  BY MutexInvInit, MutexInvStep, <1>1, PTL DEF MutexSpec

LEMMA MonitorInitRefined == MutexInit => Mon!MonitorInit
  BY DEF MutexInit, Mon!MonitorInit

LEMMA MonitorStepRefined ==
  MutexInv /\ [MutexNext]_mutexVars => [Mon!MonitorNext]_(Mon!mvars)
<1> DEFINE asleep == {t \in Thread : at[t] \in {"sleeping", "waiting", "woken", "back"}}
<1> SUFFICES ASSUME MutexInv, [MutexNext]_mutexVars
             PROVE  [Mon!MonitorNext]_(Mon!mvars)
  OBVIOUS
<1> USE NoThreadAssumption
    DEF MutexInv, MutexTypeOK, OwnerExact, HolderExact, isLockedByThisThread,
        Goto, AcquireMutex, ReleaseMutex, assignHolder, unassignHolder,
        Owning, Places, Mon!mvars
<1>1. ASSUME NEW t \in Thread, Lock(t)
      PROVE  [Mon!MonitorNext]_(Mon!mvars)
  <2>1. CASE at[t] = "out"
    BY <1>1, <2>1 DEF Lock
  <2>2. CASE at[t] = "locked"
    <3>1. Mon!MonitorEnter(t)
      BY <1>1, <2>2 DEF Lock, Mon!MonitorEnter
    <3> QED
      BY <3>1 DEF Mon!MonitorNext
  <2> QED
    BY <1>1, <2>1, <2>2 DEF Lock
<1>2. ASSUME NEW t \in Thread, Unlock(t)
      PROVE  [Mon!MonitorNext]_(Mon!mvars)
  <2>1. CASE at[t] = "in"
    <3>1. Mon!MonitorExit(t)
      BY <1>2, <2>1 DEF Unlock, Mon!MonitorExit
    <3> QED
      BY <3>1 DEF Mon!MonitorNext
  <2>2. CASE at[t] = "unlocking"
    BY <1>2, <2>2 DEF Unlock
  <2> QED
    BY <1>2, <2>1, <2>2 DEF Unlock
<1>3. ASSUME NEW t \in Thread, WaitBegin(t)
      PROVE  [Mon!MonitorNext]_(Mon!mvars)
  <2>1. CASE at[t] = "in"
    <3>1. asleep' = asleep \cup {t}
      BY <1>3, <2>1 DEF WaitBegin
    <3>2. Mon!MonitorWait(t)
      BY <1>3, <2>1, <3>1 DEF WaitBegin, Mon!MonitorWait
    <3> QED
      BY <3>2 DEF Mon!MonitorNext
  <2>2. CASE at[t] = "sleeping"
    BY <1>3, <2>2 DEF WaitBegin
  <2> QED
    BY <1>3, <2>1, <2>2 DEF WaitBegin
<1>4. ASSUME NEW t \in Thread, WaitEnd(t)
      PROVE  [Mon!MonitorNext]_(Mon!mvars)
  <2>1. CASE at[t] = "woken"
    BY <1>4, <2>1 DEF WaitEnd
  <2>2. CASE at[t] = "back"
    <3>1. asleep' = asleep \ {t}
      BY <1>4, <2>2 DEF WaitEnd
    <3>2. Mon!MonitorReturn(t)
      BY <1>4, <2>2, <3>1 DEF WaitEnd, Mon!MonitorReturn
    <3> QED
      BY <3>2 DEF Mon!MonitorNext
  <2> QED
    BY <1>4, <2>1, <2>2 DEF WaitEnd
<1>5. ASSUME NEW t \in Thread, WakeUp(t)
      PROVE  [Mon!MonitorNext]_(Mon!mvars)
  BY <1>5 DEF WakeUp
<1>6. ASSUME OnlyWakes, UNCHANGED <<owner, holder>>
      PROVE  [Mon!MonitorNext]_(Mon!mvars)
  <2>1. asleep' = asleep
    BY <1>6 DEF OnlyWakes
  <2> QED
    BY <1>6, <2>1
<1>7. CASE Notify
  BY <1>6, <1>7, NotifyWakes DEF Notify
<1>8. CASE NotifyAll
  BY <1>6, <1>8, NotifyAllWakes DEF NotifyAll
<1>9. CASE UNCHANGED mutexVars
  BY <1>9 DEF mutexVars
<1> QED
  BY <1>1, <1>2, <1>3, <1>4, <1>5, <1>7, <1>8, <1>9 DEF MutexNext

(* The pthread mutex with holder_ implements the monitor, for every      *)
(* client (Mutex.h:142-183, Condition.h:15-22).                          *)
THEOREM MutexImplementsMonitor == MutexSpec => ImplementsMonitor
  BY MutexInvInit, MutexInvStep, MonitorInitRefined, MonitorStepRefined, PTL
     DEF MutexSpec, ImplementsMonitor, Mon!MonitorSpec
--------------------------------------------------------------------------------
(* The latch is one client of its mutex. *)
LEMMA LatchIsClient == ASSUME MutexInv, [LatchNext]_latchVars
                       PROVE  [MutexNext]_mutexVars
<1>1. ASSUME NEW t \in Thread, CallWait(t) \/ CallCountDown(t) \/ WaitDone(t)
      PROVE  UNCHANGED mutexVars
  BY <1>1 DEF CallWait, CallCountDown, WaitDone
<1>2. ASSUME NEW t \in Thread, EnterLatch(t) \/ Sleep(t) \/ Awake(t) \/ Leave(t)
      PROVE  MutexNext
  BY <1>2 DEF EnterLatch, Sleep, Awake, Leave, MutexNext
<1>3. ASSUME NEW t \in Thread, CountDown(t)
      PROVE  NotifyAll \/ UNCHANGED mutexVars
  BY <1>3 DEF CountDown, NotifyAll, mutexVars
<1>4. CASE UNCHANGED latchVars
  BY <1>4 DEF latchVars
<1> QED
  BY <1>1, <1>2, <1>3, <1>4 DEF LatchNext, LatchStep, MutexNext

LatchInv == /\ MutexInv
            /\ count \in Int
            /\ op \in [Thread -> Ops]
            /\ \A t \in Waiters : op[t] # "countDown"
            /\ LatchHolds
            /\ NobodyAsleepAtZero

LEMMA LatchInvInit == LatchInit => LatchInv
<1> SUFFICES ASSUME LatchInit PROVE LatchInv
  OBVIOUS
<1>1. MutexInv
  BY MutexInvInit DEF LatchInit
<1>2. \A t \in Thread : at[t] = "out" /\ op[t] = "idle"
  BY DEF LatchInit, MutexInit
<1>3. count \in Int /\ op \in [Thread -> Ops]
  BY LatchAssumption DEF LatchInit, Ops
<1> QED
  BY <1>1, <1>2, <1>3, LatchAssumption DEF LatchInv, LatchHolds, NobodyAsleepAtZero

LEMMA LatchInvStep == LatchInv /\ [LatchNext]_latchVars => LatchInv'
<1> SUFFICES ASSUME LatchInv, [LatchNext]_latchVars
             PROVE  LatchInv'
  OBVIOUS
<1>m. MutexInv'
  BY LatchIsClient, MutexInvStep DEF LatchInv
<1>w. Waiters \subseteq Thread /\ at \in [Thread -> Places]
  BY LatchAssumption DEF LatchInv, MutexInv, MutexTypeOK
<1> USE DEF LatchInv, LatchHolds, NobodyAsleepAtZero, Become, Goto, Ops
<1>1. ASSUME NEW t \in Thread, CallWait(t) \/ CallCountDown(t) \/ WaitDone(t)
      PROVE  LatchInv'
  BY <1>1, <1>m, <1>w, LatchAssumption DEF CallWait, CallCountDown, WaitDone, mutexVars
<1>2. ASSUME NEW t \in Thread, EnterLatch(t) \/ Awake(t)
      PROVE  LatchInv'
  BY <1>2, <1>m, <1>w DEF EnterLatch, Awake, Lock, WakeUp, WaitEnd
<1>3. ASSUME NEW t \in Thread, Sleep(t)
      PROVE  LatchInv'
  <2>1. count > 0
    BY <1>3 DEF Sleep, WaitBegin
  <2> QED
    BY <1>3, <1>m, <2>1 DEF Sleep
<1>4. ASSUME NEW t \in Thread, Leave(t)
      PROVE  LatchInv'
  BY <1>4, <1>m, <1>w DEF Leave, Unlock
<1>5. ASSUME NEW t \in Thread, CountDown(t)
      PROVE  LatchInv'
  <2>1. /\ count' = count - 1 /\ at[t] = "in"
        /\ op[t] = "countDown" /\ op' = [op EXCEPT ![t] = "leaving"]
    BY <1>5 DEF CountDown
  <2>2. LatchHolds' /\ (\A u \in Waiters : op'[u] # "countDown")
    BY <1>w, <2>1
  <2>3. ASSUME count' = 0
        PROVE  NobodyAsleepAtZero'
    <3>1. at' = NotifiedAll
      BY <1>5, <2>3 DEF CountDown
    <3>2. \A u \in Thread : at[u] # "sleeping"
      BY <2>1, NoThreadAssumption DEF MutexInv, OwnerExact, Owning
    <3> QED
      BY <3>1, <3>2 DEF NotifiedAll, Waiting
  <2>4. ASSUME count' # 0
        PROVE  NobodyAsleepAtZero'
    <3>1. at' = at /\ (count' <= 0 => count <= 0)
      BY <1>5, <2>4, <2>1 DEF CountDown
    <3> QED
      BY <3>1
  <2> QED
    BY <1>m, <2>1, <2>2, <2>3, <2>4
<1>6. CASE UNCHANGED latchVars
  BY <1>6, <1>m DEF latchVars, mutexVars
<1> QED
  BY <1>1, <1>2, <1>3, <1>4, <1>5, <1>6 DEF LatchNext, LatchStep
(* wait() returns only once the count has run out, for any number of     *)
(* waiters, counters and any count (CountDownLatch.cpp:9-14).            *)
THEOREM LatchHoldsAlways == LatchSpec => []LatchHolds
<1>1. LatchInv => LatchHolds
  BY DEF LatchInv
<1> QED
  BY LatchInvInit, LatchInvStep, <1>1, PTL DEF LatchSpec

(* The one notifyAll of countDown() reaches every thread that sleeps or  *)
(* is about to (CountDownLatch.cpp:16-22).                               *)
THEOREM LatchLosesNoWakeup == LatchSpec => []NobodyAsleepAtZero
<1>1. LatchInv => NobodyAsleepAtZero
  BY DEF LatchInv
<1> QED
  BY LatchInvInit, LatchInvStep, <1>1, PTL DEF LatchSpec

--------------------------------------------------------------------------------
(* A Thread object is a client of its latch. *)
LEMMA ThreadUsesLatch == ASSUME ThreadLatch, [Next]_vars
                         PROVE  [LatchNext]_latchVars
<1>t. Parent \in Thread /\ Child \in Thread
  BY LatchAssumption DEF ThreadLatch
<1>1. CASE Created
  BY <1>1, <1>t DEF Created, LatchNext
<1>2. CASE StoreTid
  BY <1>2, <1>t DEF StoreTid, LatchNext
<1>3. CASE LatchSteps
  BY <1>3 DEF LatchSteps, LatchNext
<1>4. CASE \/ Start \/ CreateFails \/ StartReturns \/ NameThread \/ EnterFunc
           \/ FuncReturns \/ FuncThrows \/ Abort \/ ChildExits
           \/ Join \/ Joined \/ Destroy \/ UNCHANGED vars
  BY <1>4 DEF Start, CreateFails, StartReturns, NameThread, EnterFunc, FuncReturns,
              FuncThrows, Abort, ChildExits, Join, Joined, Destroy, vars
<1> QED
  BY <1>1, <1>2, <1>3, <1>4 DEF Next

(* What the two threads know of each other.  The child's countDown() has  *)
(* let go of the mutex, for good, before the parent's wait() leaves it:   *)
(* the parent has read count_ under that mutex.                           *)
HandShake ==
  /\ op[Child] # "wait"
  /\ count = IF op[Child] \in {"idle", "countDown"} THEN 1 ELSE 0
  /\ op[Child] = "leaving" => at[Child] \in {"in", "unlocking"}
  /\ op[Parent] \in {"leaving", "done"} => op[Child] = "done"
  /\ op[Child] = "idle" <=> child \in {"none", "born"}
  /\ child \notin {"none", "born", "countingDown"} => op[Child] = "done"
  /\ tidKnown <=> child \notin {"none", "born"}

(* Where the parent is says what has become of the object ... *)
ObjectKept ==
  /\ parent \in {"constructed", "creating"} => child = "none"
  /\ parent = "constructed" => ~started
  /\ parent \in {"creating", "starting", "started", "joining"} => started
  /\ parent \in {"constructed", "creating", "starting"} => reaped = 0 /\ ~joined
  /\ parent = "started" => op[Parent] = "done" /\ reaped = IF joined THEN 1 ELSE 0
  /\ parent = "joining" => op[Parent] = "done" /\ reaped = 0 /\ joined
  /\ parent = "destroyed" =>
       /\ reaped = IF started THEN 1 ELSE 0
       /\ IF started THEN op[Parent] = "done" ELSE child = "none"

(* ... and where the child is, of the ThreadData and the name in it. *)
DataKept ==
  /\ parent = "creating" => data = "live"
  /\ child \in {"born", "countingDown", "named", "func", "throwing", "returned"} => data = "live"
  /\ name = "ThreadData" <=> child \in {"named", "func"}

Children == {"none", "born", "countingDown", "named", "func", "returned", "throwing",
             "exited", "crashed"}

ThreadInv == LatchInv /\ child \in Children /\ HandShake /\ ObjectKept /\ DataKept

LEMMA ThreadInvInit == ASSUME ThreadLatch, Init
                       PROVE  ThreadInv
<1>1. op[Parent] = "idle" /\ op[Child] = "idle" /\ count = 1
  BY LatchAssumption DEF ThreadLatch, Init, LatchInit
<1> QED
  BY <1>1, LatchInvInit DEF ThreadInv, Init, HandShake, ObjectKept, DataKept, Children

(* The steps in the latch, of either thread. *)
LEMMA LatchStepsKeepInv == ASSUME ThreadLatch, ThreadInv, LatchSteps, LatchInv'
                           PROVE  ThreadInv'
<1>t. Thread = {Parent, Child} /\ Parent # Child
  BY LatchAssumption DEF ThreadLatch
<1>u. UNCHANGED threadVars /\ op \in [Thread -> Ops] /\ at \in [Thread -> Places]
  BY DEF LatchSteps, ThreadInv, LatchInv, MutexInv, MutexTypeOK
<1> SUFFICES HandShake' /\ ObjectKept' /\ DataKept'
  BY <1>u DEF ThreadInv, threadVars
<1> PICK t \in Thread : LatchStep(t)
  BY DEF LatchSteps
<1> USE <1>t, <1>u DEF ThreadInv, HandShake, ObjectKept, DataKept, Become, Goto, Ops, threadVars
<1>1. CASE EnterLatch(t)
  BY <1>1 DEF EnterLatch, Lock
<1>2. CASE Sleep(t)
  BY <1>2 DEF Sleep, WaitBegin
<1>3. CASE Awake(t)
  BY <1>3 DEF Awake, WakeUp, WaitEnd
<1>4. CASE Leave(t)
  BY <1>4 DEF Leave, Unlock
<1>5. CASE CountDown(t)
  <2>1. t = Child /\ at[t] = "in" /\ op[t] = "countDown"
    BY <1>5 DEF CountDown, LatchInv, ThreadLatch
  <2>2. at'[Child] = "in" /\ count' = 0 /\ op' = [op EXCEPT ![Child] = "leaving"]
    BY <1>5, <2>1 DEF CountDown, NotifiedAll, Waiting
  <2>3. op[Parent] \notin {"leaving", "done"}
    BY <2>1
  <2> QED
    BY <2>1, <2>2, <2>3
<1>6. CASE WaitDone(t)
  <2>1. t = Parent /\ op[t] = "wait" /\ at[t] = "in" /\ count <= 0
    BY <1>6 DEF WaitDone
  <2>2. op[Child] # "leaving"
    <3>1. owner = Parent /\ at[Child] \notin Owning
      BY <2>1 DEF LatchInv, MutexInv, OwnerExact, Owning
    <3> QED
      BY <3>1 DEF Owning
  <2>3. op[Child] = "done"
    BY <2>1, <2>2
  <2> QED
    BY <1>6, <2>1, <2>3 DEF WaitDone, mutexVars
<1> QED
  BY <1>1, <1>2, <1>3, <1>4, <1>5, <1>6 DEF LatchStep

LEMMA ThreadInvStep == ASSUME ThreadLatch, ThreadInv, [Next]_vars
                       PROVE  ThreadInv'
<1>l. LatchInv'
  BY ThreadUsesLatch, LatchInvStep DEF ThreadInv
<1>t. Parent \in Thread /\ Child \in Thread /\ Parent # Child /\ op \in [Thread -> Ops]
  BY LatchAssumption DEF ThreadLatch, ThreadInv, LatchInv
<1> USE <1>l, <1>t DEF ThreadInv, HandShake, ObjectKept, DataKept, Children
<1>1. CASE Start \/ CreateFails
  BY <1>1 DEF Start, CreateFails, latchVars, mutexVars
<1>2. CASE Created
  BY <1>2 DEF Created, CallWait, Become, mutexVars
<1>3. CASE StartReturns
  BY <1>3 DEF StartReturns, latchVars, mutexVars
<1>4. CASE StoreTid
  BY <1>4 DEF StoreTid, CallCountDown, Become, mutexVars
<1>5. CASE NameThread \/ EnterFunc \/ FuncReturns \/ FuncThrows \/ Abort \/ ChildExits
  BY <1>5 DEF NameThread, EnterFunc, FuncReturns, FuncThrows, Abort, ChildExits,
              latchVars, mutexVars
<1>6. CASE LatchSteps
  BY <1>6, LatchStepsKeepInv
<1>7. CASE Join \/ Joined \/ Destroy
  BY <1>7 DEF Join, Joined, Destroy, latchVars, mutexVars
<1>8. CASE UNCHANGED vars
  BY <1>8 DEF vars, latchVars, threadVars, mutexVars
<1> QED
  BY <1>1, <1>2, <1>3, <1>4, <1>5, <1>6, <1>7, <1>8 DEF Next

(* The new thread uses the Thread object only before start() returns, the *)
(* pthread is reaped once, and the ThreadData and the thread's name in it *)
(* last as long as they are read (Thread.cpp:51-88, 119-158).             *)
THEOREM ThreadLifetimesKept == ASSUME ThreadLatch
                               PROVE  Spec => []LifetimesKept
<1>1. Init => ThreadInv
  BY ThreadInvInit
<1>2. ThreadInv /\ [Next]_vars => ThreadInv'
  BY ThreadInvStep
<1>3. ThreadInv => LifetimesKept
  BY DEF ThreadInv, HandShake, ObjectKept, DataKept, LifetimesKept, ChildUsesObject
<1> QED
  BY <1>1, <1>2, <1>3, PTL DEF Spec

(* start() returns only when tid_ has been stored (Thread.cpp:137-149). *)
THEOREM StartHasTid == ASSUME ThreadLatch
                       PROVE  Spec => []StartPublishesTid
<1>1. Init => ThreadInv
  BY ThreadInvInit
<1>2. ThreadInv /\ [Next]_vars => ThreadInv'
  BY ThreadInvStep
<1>3. ThreadInv => StartPublishesTid
  BY DEF ThreadInv, HandShake, ObjectKept, StartPublishesTid
<1> QED
  BY <1>1, <1>2, <1>3, PTL DEF Spec

(***************************************************************************)
(* The log lines of a thread, LogRecord, and the search in a zone's        *)
(* transitions, TimeZone.                                                  *)
(***************************************************************************)
IsLine(r) ==
  r = [stage |-> r.stage, level |-> r.level, buffer |-> r.buffer, wanted |-> r.wanted,
       given |-> r.given, second |-> r.second, zone |-> r.zone, time |-> r.time, tid |-> r.tid]

(* What a thread has cached is true as long as the thread lives: its id,   *)
(* and the time of the last second unless the zone has changed since.      *)
CachesTrue(t) ==
  /\ tid[t] # 0 => t_cachedTid[t] \in {0, tid[t]}
  /\ t_lastSecond[t] # 0 /\ t \notin outdated
       => t_time[t] = LocalSeconds(g_logTimeZone, t_lastSecond[t])

(* The zone does not change while a line is open.                          *)
StampTrue(t) ==
  line[t] # NoLine =>
    /\ IsLine(line[t]) /\ line[t].tid = tid[t] /\ line[t].zone = g_logTimeZone
    /\ line[t].time = LocalSeconds(line[t].zone, line[t].second) \/ t \in outdated

StampInv ==
  /\ now \in Seconds
  /\ DOMAIN tid = Threads /\ DOMAIN t_cachedTid = Threads /\ DOMAIN t_lastSecond = Threads
  /\ DOMAIN t_time = Threads /\ DOMAIN line = Threads
  /\ \A t \in Threads : CachesTrue(t) /\ StampTrue(t)

LEMMA StampInit == LogInit => StampInv
  BY DEF LogInit, StampInv, CachesTrue, StampTrue

LEMMA BeginKeepsStamps ==
  ASSUME StampInv, NEW t \in Threads, NEW macro, NEW errno, Begin(t, macro, errno)
  PROVE  StampInv'
<1>1. /\ tid[t] # 0 /\ line[t] = NoLine /\ now' = now /\ tid' = tid
      /\ g_logTimeZone' = g_logTimeZone
      /\ t_time' = [t_time EXCEPT ![t] = PrintedTime(t)]
      /\ t_lastSecond' = [t_lastSecond EXCEPT ![t] = IF cacheMiss(t) THEN now ELSE t_lastSecond[t]]
      /\ outdated' = IF cacheMiss(t) THEN outdated \ {t} ELSE outdated
      /\ t_cachedTid' = [t_cachedTid EXCEPT ![t] =
                            IF t_cachedTid[t] = 0 THEN tid[t] ELSE t_cachedTid[t]]
  BY DEF Begin, settings
<1> DEFINE header == HeaderPieces(macro, errno)
           r == [stage |-> "open", level |-> macro.level, buffer |-> PutAll(EmptyBuffer, header),
                 wanted |-> header, given |-> 0, second |-> now, zone |-> g_logTimeZone,
                 time |-> PrintedTime(t),
                 tid |-> IF t_cachedTid[t] = 0 THEN tid[t] ELSE t_cachedTid[t]]
<1>2. /\ line' = [line EXCEPT ![t] = r] /\ IsLine(r)
      /\ r.second = now /\ r.zone = g_logTimeZone /\ r.time = PrintedTime(t)
      /\ r.tid = IF t_cachedTid[t] = 0 THEN tid[t] ELSE t_cachedTid[t]
  <2>1. line' = [line EXCEPT ![t] = r]
    BY DEF Begin
  <2> HIDE DEF header
  <2> QED
    BY <2>1 DEF IsLine
<1> HIDE DEF r
<1>3. now # 0 /\ CachesTrue(t)
  BY LogAssumption DEF StampInv
<1>4. /\ PrintedTime(t) = LocalSeconds(g_logTimeZone, now) \/ t \in outdated'
      /\ t_lastSecond'[t] = now /\ t_time'[t] = PrintedTime(t)
  BY <1>1, <1>3 DEF PrintedTime, cacheMiss, CachesTrue, StampInv
<1>5. t_cachedTid'[t] = tid[t] /\ r.tid = tid[t]
  BY <1>1, <1>2, <1>3 DEF CachesTrue, StampInv
<1>6. /\ DOMAIN tid' = Threads /\ DOMAIN t_cachedTid' = Threads /\ DOMAIN t_lastSecond' = Threads
      /\ DOMAIN t_time' = Threads /\ DOMAIN line' = Threads
  BY <1>1, <1>2 DEF StampInv
<1>7. LocalSeconds(g_logTimeZone, now)' = LocalSeconds(g_logTimeZone, now)
  BY <1>1 DEF LocalSeconds
<1>8. CachesTrue(t)'
  BY <1>1, <1>4, <1>5 DEF CachesTrue
<1>9. line'[t] = r
  BY <1>2 DEF StampInv
<1>10. StampTrue(t)'
  BY <1>1, <1>2, <1>4, <1>5, <1>9 DEF StampTrue
<1>11. ASSUME NEW u \in Threads, u # t PROVE CachesTrue(u)' /\ StampTrue(u)'
  <2>1. /\ tid'[u] = tid[u] /\ t_cachedTid'[u] = t_cachedTid[u]
        /\ t_lastSecond'[u] = t_lastSecond[u] /\ t_time'[u] = t_time[u] /\ line'[u] = line[u]
        /\ u \in outdated' <=> u \in outdated
    BY <1>1, <1>2, <1>11 DEF StampInv
  <2>2. CachesTrue(u) /\ StampTrue(u)
    BY DEF StampInv
  <2>3. NoLine' = NoLine
    BY DEF NoLine
  <2> QED
    BY <1>1, <2>1, <2>2, <2>3 DEF CachesTrue, StampTrue
<1> QED
  BY <1>1, <1>6, <1>8, <1>10, <1>11 DEF StampInv

(* What is done to a line that is open keeps its stamps. *)
SameStamps(old, new) ==
  /\ IsLine(new)
  /\ new.tid = old.tid /\ new.zone = old.zone /\ new.time = old.time /\ new.second = old.second

LEMMA PiecesKeepStamps ==
  ASSUME NEW old, IsLine(old), NEW b, NEW w, NEW g, NEW s, NEW new,
         \/ new = [old EXCEPT !.buffer = b, !.wanted = w, !.given = g]
         \/ new = [old EXCEPT !.buffer = b, !.wanted = w, !.stage = s]
  PROVE  SameStamps(old, new)
<1>1. CASE new = [old EXCEPT !.buffer = b, !.wanted = w, !.given = g]
  BY <1>1 DEF SameStamps, IsLine
<1>2. CASE new = [old EXCEPT !.buffer = b, !.wanted = w, !.stage = s]
  BY <1>2 DEF SameStamps, IsLine
<1> QED
  BY <1>1, <1>2

LEMMA LineKeepsStamps ==
  ASSUME StampInv, NEW t \in Threads, NEW r,
         UNCHANGED <<now, tid, cached, settings, outdated>>,
         line' = [line EXCEPT ![t] = r],
         r # NoLine => line[t] # NoLine /\ SameStamps(line[t], r)
  PROVE  StampInv'
<1>1. DOMAIN line' = Threads /\ line'[t] = r /\ \A u \in Threads : u # t => line'[u] = line[u]
  BY DEF StampInv
<1>2. /\ now' = now /\ tid' = tid /\ t_cachedTid' = t_cachedTid /\ t_lastSecond' = t_lastSecond
      /\ t_time' = t_time /\ g_logTimeZone' = g_logTimeZone /\ outdated' = outdated
  BY DEF cached, settings
<1>3. ASSUME NEW u \in Threads PROVE CachesTrue(u)' /\ StampTrue(u)'
  <2>1. CachesTrue(u) /\ StampTrue(u) /\ NoLine' = NoLine
    BY DEF StampInv, NoLine
  <2>2. CachesTrue(u)'
    BY <1>2, <2>1 DEF CachesTrue
  <2>3. CASE u # t
    BY <1>1, <1>2, <2>1, <2>2, <2>3 DEF StampTrue
  <2>4. CASE u = t
    BY <1>1, <1>2, <2>1, <2>2, <2>4 DEF StampTrue, SameStamps
  <2> QED
    BY <2>3, <2>4
<1> QED
  BY <1>1, <1>2, <1>3 DEF StampInv

LEMMA LogStep == StampInv /\ LogNext => StampInv'
<1> SUFFICES ASSUME StampInv, LogNext PROVE StampInv'
  OBVIOUS
<1>a. NoLine' = NoLine /\ \A r : r.stage # "none" => r # NoLine
  BY DEF NoLine
<1>1. ASSUME NEW t \in Threads, NEW macro, NEW errno, Begin(t, macro, errno) PROVE StampInv'
  BY <1>1, BeginKeepsStamps
<1>2. ASSUME NEW t \in Threads, NEW piece, Stream(t, piece) PROVE StampInv'
  <2>1. line[t] # NoLine /\ IsLine(line[t])
    BY <1>a, <1>2 DEF Stream, StampInv, StampTrue
  <2>2. PICK b, w, g, r :
          r = [line[t] EXCEPT !.buffer = b, !.wanted = w, !.given = g]
          /\ line' = [line EXCEPT ![t] = r]
    BY <1>2 DEF Stream, StampInv
  <2>3. SameStamps(line[t], r)
    BY <2>1, <2>2, PiecesKeepStamps
  <2> QED
    BY <1>2, <2>1, <2>2, <2>3, LineKeepsStamps DEF Stream
<1>3. ASSUME NEW t \in Threads, Finish(t) PROVE StampInv'
  <2>1. line[t] # NoLine /\ IsLine(line[t])
    BY <1>a, <1>3 DEF Finish, StampInv, StampTrue
  <2>2. PICK b, w, s, r :
          r = [line[t] EXCEPT !.buffer = b, !.wanted = w, !.stage = s]
          /\ line' = [line EXCEPT ![t] = r]
    BY <1>3 DEF Finish, StampInv
  <2>3. SameStamps(line[t], r)
    BY <2>1, <2>2, PiecesKeepStamps
  <2> QED
    BY <1>3, <2>1, <2>2, <2>3, LineKeepsStamps DEF Finish
<1>4. ASSUME NEW t \in Threads, Output(t) PROVE StampInv'
  <2>1. line[t] # NoLine /\ IsLine(line[t])
    BY <1>a, <1>4 DEF Output, StampInv, StampTrue
  <2>2. PICK r : line' = [line EXCEPT ![t] = r] /\ (r = line[t] \/ r = NoLine)
    BY <1>4 DEF Output
  <2> QED
    BY <1>4, <2>1, <2>2, LineKeepsStamps DEF Output, SameStamps
<1>5. ASSUME NEW t \in Threads, Fork(t) PROVE StampInv'
  <2>1. /\ DOMAIN tid' = Threads /\ DOMAIN line' = Threads
        /\ \A u \in Threads : line'[u] = NoLine /\ (u # t => tid'[u] = 0)
    BY <1>5 DEF Fork
  <2>2. /\ now' = now /\ t_lastSecond' = t_lastSecond /\ t_time' = t_time
        /\ g_logTimeZone' = g_logTimeZone /\ outdated' = outdated
    BY <1>5 DEF Fork, settings
  <2>3. /\ tid'[t] = tid[t] + 1 /\ t_cachedTid'[t] = tid[t] + 1 /\ DOMAIN t_cachedTid' = Threads
    BY <1>5 DEF Fork, afterFork, StampInv
  <2>4. ASSUME NEW u \in Threads PROVE CachesTrue(u)'
    <3>1. CachesTrue(u)
      BY DEF StampInv
    <3> QED
      BY <2>1, <2>2, <2>3, <3>1 DEF CachesTrue
  <2> QED
    BY <1>a, <2>1, <2>2, <2>3, <2>4 DEF StampInv, StampTrue
<1>6. ASSUME Configure PROVE StampInv'
  <2>1. /\ \A t \in Threads : line[t] = NoLine
        /\ now' = now /\ tid' = tid /\ line' = line /\ t_cachedTid' = t_cachedTid
        /\ t_lastSecond' = t_lastSecond /\ t_time' = t_time
        /\ \/ g_logTimeZone' = g_logTimeZone /\ outdated' = outdated
           \/ outdated' = {t \in Threads : t_lastSecond[t] # 0}
    BY <1>6 DEF Configure, cached, setLogLevel, SetFunctions, setTimeZone
  <2>2. ASSUME NEW t \in Threads PROVE CachesTrue(t)' /\ StampTrue(t)'
    <3>1. CachesTrue(t)
      BY DEF StampInv
    <3> QED
      BY <1>a, <2>1, <3>1 DEF CachesTrue, StampTrue
  <2> QED
    BY <2>1, <2>2 DEF StampInv
<1>7. ASSUME Tick PROVE StampInv'
  <2>1. /\ now' \in Seconds /\ tid' = tid /\ line' = line /\ t_cachedTid' = t_cachedTid
        /\ t_lastSecond' = t_lastSecond /\ t_time' = t_time
        /\ g_logTimeZone' = g_logTimeZone /\ outdated' = outdated
    BY <1>7 DEF Tick, cached, settings
  <2> QED
    BY <1>a, <2>1 DEF StampInv, CachesTrue, StampTrue
<1> QED
  BY <1>1, <1>2, <1>3, <1>4, <1>5, <1>6, <1>7 DEF LogNext

(* Each log line has its own second in the zone in force, and the id of    *)
(* its thread, also after forks, for any threads, zones and seconds: a     *)
(* cache can only be behind a change of the zone.                          *)
THEOREM LogStampsTrue == MCSpec => []StampsTrue
<1>1. MCInit => StampInv
  BY StampInit DEF MCInit
<1>2. StampInv /\ [MCNext]_<<logVars, input>> => StampInv'
  <2> SUFFICES ASSUME StampInv, UNCHANGED logVars PROVE StampInv'
    BY LogStep DEF MCNext
  <2>1. /\ now' = now /\ tid' = tid /\ line' = line /\ t_cachedTid' = t_cachedTid
        /\ t_lastSecond' = t_lastSecond /\ t_time' = t_time
        /\ g_logTimeZone' = g_logTimeZone /\ outdated' = outdated
    BY DEF logVars, cached, settings
  <2> QED
    BY <2>1 DEF StampInv, CachesTrue, StampTrue, NoLine
<1>3. StampInv => StampsTrue
  BY DEF StampInv, StampTrue, StampsTrue
<1> QED
  BY <1>1, <1>2, <1>3, PTL DEF MCSpec

--------------------------------------------------------------------------------
LEMMA LeastOne ==
  ASSUME NEW S \in SUBSET Nat, S # {}
  PROVE  Min(S) \in S /\ \A x \in S : Min(S) <= x
<1>1. PICK x \in S : \A y \in S : ~(<<y, x>> \in OpToRel(<, Nat))
  BY NatLessThanWellFounded, WFMin, Zenon
<1>2. \A y \in S : ~(y < x)
  BY <1>1, Zenon DEF OpToRel
<1>3. \A y \in S : x <= y
  BY <1>2
<1> QED
  BY <1>3 DEF Min

(* A row of a zone's table, and the order lower_bound relies on: it is the *)
(* file's, whose times must increase.                                      *)
Transition == [gmttime : Int, localtime : Int, localtimeIdx : Nat]
Ascending(transitions) ==
  \A i, j \in DOMAIN transitions : i < j => transitions[i].gmttime < transitions[j].gmttime

(* lower_bound, on transitions in the order of their times, finds for each *)
(* time the local time of the last transition at or before it, and before  *)
(* all of them the first local time.                                       *)
THEOREM SearchFindsOffset ==
  ASSUME NEW zoneData, NEW t \in Int,
         zoneData.transitions \in Seq(Transition), Ascending(zoneData.transitions)
  PROVE  findLocaltime(zoneData, t, TRUE) = OffsetAt(zoneData, t)
<1>1. PICK trans \in Seq(Transition) : trans = zoneData.transitions
  OBVIOUS
<1>2. PICK n \in Nat : n = Len(trans) /\ DOMAIN trans = 1 .. n
  OBVIOUS
<1> DEFINE key(i) == trans[i].gmttime
<1>3. \A i \in 1 .. n : key(i) \in Int
  <2>1. \A i \in 1 .. n : trans[i] \in Transition
    BY <1>2
  <2> QED
    BY <2>1 DEF Transition
<1>4. \A i, j \in 1 .. n : i < j => key(i) < key(j)
  BY <1>1, <1>2 DEF Ascending
<1> DEFINE S == {i \in 1 .. n : key(i) >= t} \cup {n + 1}
           m == Min(S)
<1>5. m \in S /\ \A x \in S : m <= x
  <2>1. S \in SUBSET Nat /\ n + 1 \in S
    OBVIOUS
  <2> HIDE DEF S
  <2> QED
    BY <2>1, LeastOne
<1>6. lowerBound(trans, t, TRUE) = m
  BY <1>2 DEF lowerBound, Key
<1> HIDE DEF key, m
<1>7. m \in 1 .. n + 1 /\ \A i \in 1 .. n : (i < m => key(i) < t) /\ (i >= m => key(i) >= t)
  <2>1. m \in 1 .. n + 1
    BY <1>5
  <2>2. ASSUME NEW i \in 1 .. n, i < m PROVE key(i) < t
    BY <1>3, <1>5, <2>1, <2>2
  <2>3. ASSUME NEW i \in 1 .. n, i >= m PROVE key(i) >= t
    <3>1. m \in 1 .. n /\ key(m) >= t
      BY <1>5, <2>1, <2>3
    <3>2. i = m \/ key(m) < key(i)
      BY <1>4, <2>1, <2>3, <3>1
    <3> QED
      BY <1>3, <3>1, <3>2
  <2> QED
    BY <2>1, <2>2, <2>3
<1> DEFINE past == {i \in DOMAIN zoneData.transitions : zoneData.transitions[i].gmttime <= t}
           k == IF m <= n /\ key(m) = t THEN m ELSE m - 1
<1>8. past = {i \in 1 .. n : key(i) <= t}
  BY <1>1, <1>2 DEF key
<1>9. past = 1 .. k /\ k \in 0 .. n
  <2>1. k \in 0 .. n
    BY <1>2, <1>7
  <2>2. ASSUME NEW i \in 1 .. n PROVE key(i) <= t <=> i <= k
    <3>1. CASE i < m
      BY <1>3, <1>7, <2>2, <3>1
    <3>2. CASE i = m
      BY <1>3, <1>7, <2>2, <3>2
    <3>3. CASE i > m
      <4>1. m \in 1 .. n /\ key(m) >= t /\ key(m) < key(i)
        BY <1>4, <1>7, <3>3
      <4> QED
        BY <1>3, <1>7, <3>3, <4>1
    <3> QED
      BY <1>7, <3>1, <3>2, <3>3
  <2> QED
    BY <1>8, <2>1, <2>2
<1> HIDE DEF past, k
<1>10. past # {} => Max(past) = k
  <2> SUFFICES ASSUME past # {} PROVE Max(past) = k
    OBVIOUS
  <2>1. k \in past /\ \A x \in past : x \in Int /\ x <= k
    BY <1>9
  <2>2. \A x \in past : (\A y \in past : x >= y) => x = k
    BY <2>1
  <2> QED
    BY <2>1, <2>2 DEF Max
<1>11. OffsetAt(zoneData, t) = zoneData.localtimes[IF k = 0 THEN 1 ELSE trans[k].localtimeIdx]
  <2>1. past = {} <=> k = 0
    BY <1>9
  <2>2. OffsetAt(zoneData, t) =
          zoneData.localtimes[IF past = {} THEN 1 ELSE zoneData.transitions[Max(past)].localtimeIdx]
    BY DEF OffsetAt, past
  <2> QED
    BY <1>1, <1>10, <2>1, <2>2
<1>12. findLocaltime(zoneData, t, TRUE) =
         zoneData.localtimes[IF k = 0 THEN 1 ELSE trans[k].localtimeIdx]
  <2>1. (trans = <<>> \/ t < key(1)) <=> k = 0
    <3>1. trans = <<>> <=> n = 0
      BY <1>2
    <3>2. n = 0 => k = 0
      BY <1>9
    <3>3. n > 0 => (t < key(1) <=> k = 0)
      BY <1>3, <1>7, <1>8, <1>9
    <3> QED
      BY <1>2, <3>1, <3>2, <3>3
  <2>2. findLocaltime(zoneData, t, TRUE) =
          IF trans = <<>> \/ t < key(1) THEN zoneData.localtimes[1]
          ELSE zoneData.localtimes[trans[k].localtimeIdx]
    BY <1>1, <1>2, <1>6 DEF findLocaltime, Key, key, k
  <2> QED
    BY <2>1, <2>2
<1> QED
  BY <1>11, <1>12
================================================================================
