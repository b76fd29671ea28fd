---------------------------- MODULE MutexCondition ----------------------------
(***************************************************************************)
(* muduo::MutexLock, muduo::MutexLockGuard and muduo::Condition            *)
(* (muduo/base/Mutex.h, Condition.h, Condition.cpp), one step per access   *)
(* to the pthread mutex or to holder_.  lock() is pthread_mutex_lock and   *)
(* then assignHolder(); unlock() is unassignHolder() and then              *)
(* pthread_mutex_unlock; wait() brackets pthread_cond_wait with the        *)
(* constructor and the destructor of an UnassignGuard.                     *)
(*                                                                         *)
(* The pthread calls are external: pthread_mutex_lock blocks until the     *)
(* mutex is free, pthread_cond_wait releases the mutex and blocks in one   *)
(* step, may return at any time (a spurious wakeup, or the timeout of      *)
(* waitForSeconds) and returns with the mutex held.                        *)
(***************************************************************************)
CONSTANTS Thread,    \* the threads that share the object
          NoThread   \* holder_ == 0, and a free pthread mutex

ASSUME NoThreadAssumption == NoThread \notin Thread

VARIABLES owner,   \* the thread that owns mutex_ (the pthread mutex)
          holder,  \* holder_
          at       \* where each thread is in lock(), unlock() or wait()

mutexVars == <<owner, holder, at>>

(***************************************************************************)
(* "out" holds nothing; "locked" owns the mutex but has not assigned       *)
(* holder_; "in" is in the critical section; "unlocking" has cleared       *)
(* holder_; "sleeping" has built the UnassignGuard of wait(); "waiting" is *)
(* blocked on the condition; "woken" left it and wants the mutex back;     *)
(* "back" has it again but the UnassignGuard is not destroyed yet.         *)
(***************************************************************************)
Owning == {"locked", "in", "unlocking", "sleeping", "back"}
Places == Owning \cup {"out", "waiting", "woken"}

MutexInit == /\ owner = NoThread
             /\ holder = NoThread
             /\ at = [t \in Thread |-> "out"]

Goto(t, from, to) == /\ at[t] = from
                     /\ at' = [at EXCEPT ![t] = to]

AcquireMutex(t) == owner = NoThread /\ owner' = t
ReleaseMutex(t) == owner = t /\ owner' = NoThread
assignHolder(t) == holder' = t
unassignHolder  == holder' = NoThread

isLockedByThisThread(t) == holder = t

Lock(t) ==
  \/ Goto(t, "out", "locked") /\ AcquireMutex(t) /\ UNCHANGED holder
  \/ Goto(t, "locked", "in") /\ assignHolder(t) /\ UNCHANGED owner

(* A defect that Unlock must not have: the two lines of unlock() swapped. *)
UnlockSwapped(t) ==
  \/ Goto(t, "in", "unlocking") /\ ReleaseMutex(t) /\ UNCHANGED holder
  \/ Goto(t, "unlocking", "out") /\ unassignHolder /\ UNCHANGED owner

Unlock(t) ==
  \/ Goto(t, "in", "unlocking") /\ unassignHolder /\ UNCHANGED owner
  \/ Goto(t, "unlocking", "out") /\ ReleaseMutex(t) /\ UNCHANGED holder

(* The call of wait(): the UnassignGuard, then pthread_cond_wait blocks.  *)
(* A defect it must not have: no UnassignGuard.                           *)
WaitBeginUnguarded(t) ==
  \/ Goto(t, "in", "sleeping") /\ UNCHANGED <<owner, holder>>
  \/ Goto(t, "sleeping", "waiting") /\ ReleaseMutex(t) /\ UNCHANGED holder

WaitBegin(t) ==
  \/ Goto(t, "in", "sleeping") /\ unassignHolder /\ UNCHANGED owner
  \/ Goto(t, "sleeping", "waiting") /\ ReleaseMutex(t) /\ UNCHANGED holder

(* pthread_cond_wait returns, and the UnassignGuard is destroyed. *)
WaitEnd(t) ==
  \/ Goto(t, "woken", "back") /\ AcquireMutex(t) /\ UNCHANGED holder
  \/ Goto(t, "back", "in") /\ assignHolder(t) /\ UNCHANGED owner

(* A wakeup without a signal: spurious, or the timeout of waitForSeconds. *)
WakeUp(t) == Goto(t, "waiting", "woken") /\ UNCHANGED <<owner, holder>>

Waiting == {t \in Thread : at[t] = "waiting"}

(* The places of the threads after pthread_cond_signal, which wakes one   *)
(* waiter if there is one, and after pthread_cond_broadcast.              *)
Notified == IF Waiting = {} THEN {at}
            ELSE {[at EXCEPT ![w] = "woken"] : w \in Waiting}
NotifiedAll == [t \in Thread |-> IF t \in Waiting THEN "woken" ELSE at[t]]

Notify    == at' \in Notified /\ UNCHANGED <<owner, holder>>
NotifyAll == at' = NotifiedAll /\ UNCHANGED <<owner, holder>>

(* The most general client: every thread locks, unlocks, waits and        *)
(* notifies whenever it can.                                              *)
MutexNext == \/ \E t \in Thread : Lock(t) \/ Unlock(t)
                                  \/ WaitBegin(t) \/ WaitEnd(t) \/ WakeUp(t)
             \/ Notify
             \/ NotifyAll

MutexSpec == MutexInit /\ [][MutexNext]_mutexVars

------------------------------------------------------------------------------
MutexTypeOK == /\ owner \in Thread \cup {NoThread}
               /\ holder \in Thread \cup {NoThread}
               /\ at \in [Thread -> Places]

(* holder_ says the truth at every step of every thread: assertLocked()   *)
(* succeeds in the critical section and nowhere else, also just before    *)
(* and after a wait(), and ~MutexLock's assert(holder_ == 0) holds as     *)
(* soon as no thread is in the critical section (Mutex.h:113-134).        *)
HolderExact == \A t \in Thread : isLockedByThisThread(t) <=> at[t] = "in"

(* The pthread mutex and holder_ together implement the monitor, read     *)
(* through holder_ alone.                                                 *)
Mon == INSTANCE Monitor WITH
         inside <- holder,
         asleep <- {t \in Thread :
                      at[t] \in {"sleeping", "waiting", "woken", "back"}}

(* holder_ only ever goes from 0 to a thread and back to 0, as the        *)
(* critical section of a monitor does: it never passes from one thread to *)
(* another (Mutex.h:142-154, Condition.h:15-22).                          *)
ImplementsMonitor == Mon!MonitorSpec
==============================================================================
