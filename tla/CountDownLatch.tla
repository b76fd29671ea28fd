---------------------------- MODULE CountDownLatch ----------------------------
(***************************************************************************)
(* muduo::CountDownLatch (muduo/base/CountDownLatch.cpp) run on the steps  *)
(* of its MutexLock and Condition.  Each waiter calls wait() once and each *)
(* counter calls countDown() once.  The objects that own a latch (Thread,  *)
(* AsyncLogging, the tests) destroy it when their wait() has returned,     *)
(* while the counters may still be leaving countDown().                    *)
(***************************************************************************)
EXTENDS Integers, MutexCondition

CONSTANTS Waiters, Counters,  \* the threads that call wait(), countDown()
          Count               \* the constructor's argument

ASSUME LatchAssumption == /\ Count \in Nat
                          /\ Waiters \cup Counters = Thread
                          /\ Waiters \cap Counters = {}

VARIABLES count,  \* count_
          op      \* what each thread does with the latch

latchVars == <<mutexVars, count, op>>

Ops == {"idle", "wait", "countDown", "leaving", "done"}

LatchInit == /\ MutexInit
             /\ count = Count
             /\ op = [t \in Thread |-> "idle"]

Become(t, from, to) == /\ op[t] = from
                       /\ op' = [op EXCEPT ![t] = to]

CallWait(t) == /\ t \in Waiters
               /\ Become(t, "idle", "wait")
               /\ UNCHANGED <<mutexVars, count>>

CallCountDown(t) == /\ t \in Counters
                    /\ Become(t, "idle", "countDown")
                    /\ UNCHANGED <<mutexVars, count>>

(* The MutexLockGuard at the head of both functions. *)
EnterLatch(t) == /\ op[t] \in {"wait", "countDown"}
                 /\ Lock(t)
                 /\ UNCHANGED <<count, op>>

(* Two defects countDown must not have: it wakes one waiter only, or it  *)
(* wakes none.                                                           *)
CountDownSilent(t) ==
  /\ at[t] = "in"
  /\ Become(t, "countDown", "leaving")
  /\ count' = count - 1
  /\ UNCHANGED mutexVars

CountDownNotifyOne(t) ==
  /\ at[t] = "in"
  /\ Become(t, "countDown", "leaving")
  /\ count' = count - 1
  /\ at' \in IF count' = 0 THEN Notified ELSE {at}
  /\ UNCHANGED <<owner, holder>>

CountDown(t) ==
  /\ at[t] = "in"
  /\ Become(t, "countDown", "leaving")
  /\ count' = count - 1
  /\ at' = IF count' = 0 THEN NotifiedAll ELSE at
  /\ UNCHANGED <<owner, holder>>

(* The loop of wait(): it sleeps while count_ > 0 ...                    *)
Sleep(t) ==
  /\ op[t] = "wait"
  /\ at[t] = "in" => count > 0
  /\ WaitBegin(t)
  /\ UNCHANGED <<count, op>>

Awake(t) == (WakeUp(t) \/ WaitEnd(t)) /\ UNCHANGED <<count, op>>

(* ... and ends when it is not.  A defect: the loop is an if, so a thread *)
(* that slept once does not look at count_ again.                         *)
WaitDoneUnchecked(t) == /\ at[t] = "in"
                        /\ Become(t, "wait", "leaving")
                        /\ UNCHANGED <<mutexVars, count>>

WaitDone(t) == /\ at[t] = "in"
               /\ count <= 0
               /\ Become(t, "wait", "leaving")
               /\ UNCHANGED <<mutexVars, count>>

Leave(t) == /\ op[t] = "leaving"
            /\ Unlock(t)
            /\ UNCHANGED count
            /\ op' = IF at[t] = "unlocking" THEN [op EXCEPT ![t] = "done"] ELSE op

LatchStep(t) == \/ EnterLatch(t) \/ CountDown(t) \/ Sleep(t) \/ Awake(t)
                \/ WaitDone(t) \/ Leave(t)

LatchNext == \E t \in Thread : CallWait(t) \/ CallCountDown(t) \/ LatchStep(t)

(* Threads inside the latch keep running (weak fairness), nothing makes a *)
(* wakeup come without a signal, and a thread that wants the mutex gets   *)
(* it if it is free again and again (strong fairness).                    *)
LatchFairness ==
  \A t \in Thread :
     /\ WF_latchVars(CountDown(t) \/ Sleep(t) \/ WaitDone(t) \/ Leave(t))
     /\ SF_latchVars(EnterLatch(t))
     /\ SF_latchVars(WaitEnd(t) /\ UNCHANGED <<count, op>>)

LatchSpec == LatchInit /\ [][LatchNext]_latchVars /\ LatchFairness

------------------------------------------------------------------------------
LatchTypeOK == /\ MutexTypeOK
               /\ count \in Int
               /\ op \in [Thread -> Ops]

(* wait() returns only when the count has run out, whatever woke the     *)
(* thread (CountDownLatch.cpp:9-14).                                     *)
LatchHolds == \A t \in Waiters : op[t] \in {"leaving", "done"} => count <= 0

(* Nobody sleeps on a count that has run out: a thread that has seen     *)
(* count_ > 0 holds the mutex until it is blocked, so the notifyAll at   *)
(* zero finds it, and countDown() below zero need not notify             *)
(* (CountDownLatch.cpp:11-13, 18-22).                                    *)
NobodyAsleepAtZero ==
  count <= 0 => \A t \in Thread : at[t] \notin {"sleeping", "waiting"}

(* Once the count has run out every thread in wait() returns: the one    *)
(* notifyAll at zero is enough (CountDownLatch.cpp:16-22).               *)
WaitersReleased ==
  \A t \in Waiters : (count <= 0 /\ op[t] = "wait") ~> op[t] = "done"
==============================================================================
