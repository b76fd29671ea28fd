----------------------------- MODULE ThreadObject -----------------------------
(***************************************************************************)
(* muduo::Thread (muduo/base/Thread.cpp): the handshake between the thread *)
(* that starts, joins and destroys a Thread object and the pthread it      *)
(* starts.  start() hands the new thread a ThreadData with pointers to two *)
(* members of the object, tid_ and latch_, and waits on latch_ so that the *)
(* object may be destroyed as soon as start() has returned, long before    *)
(* the new thread has finished.  The latch is CountDownLatch's model with  *)
(* one waiter and one counter, down to the steps of its mutex.             *)
(***************************************************************************)
EXTENDS CountDownLatch

CONSTANTS Parent, Child

(* The latch is used by these two threads, once each. *)
ThreadLatch == /\ Parent # Child
               /\ Waiters = {Parent}
               /\ Counters = {Child}
               /\ Count = 1

VARIABLES parent,    \* where the caller of start(), join() and ~Thread is:
                     \* constructed, creating, starting, started, joining,
                     \* destroyed or crashed
          child,     \* where the new thread is: none, born, countingDown,
                     \* named, func, returned, throwing, exited or crashed
          started,   \* started_
          joined,    \* joined_
          tidKnown,  \* tid_ has been stored
          data,      \* the ThreadData of the last start(): none, live, freed
          name,      \* what t_threadName of the new thread points to
          reaped     \* pthread_join and pthread_detach calls so far

threadVars == <<parent, child, started, joined, tidKnown, data, name, reaped>>
vars == <<latchVars, threadVars>>

Init == /\ LatchInit
        /\ parent = "constructed"
        /\ child = "none"
        /\ started = FALSE
        /\ joined = FALSE
        /\ tidKnown = FALSE
        /\ data = "none"
        /\ name = "unknown"
        /\ reaped = 0

(* start(): the flag and the ThreadData come first ...                   *)
Start == /\ parent = "constructed"
         /\ ~started
         /\ started' = TRUE
         /\ data' = "live"
         /\ parent' = "creating"
         /\ UNCHANGED <<latchVars, child, joined, tidKnown, name, reaped>>

(* ... then pthread_create makes the thread and start() enters           *)
(* latch_.wait(); a defect: it does not.                                 *)
CreatedNoLatch == /\ parent = "creating"
                  /\ parent' = "started"
                  /\ child' = "born"
                  /\ UNCHANGED <<latchVars, started, joined, tidKnown, data,
                                 name, reaped>>

Created == /\ parent = "creating"
           /\ parent' = "starting"
           /\ child' = "born"
           /\ CallWait(Parent)
           /\ UNCHANGED <<started, joined, tidKnown, data, name, reaped>>

(* ... or fails, and start() returns with the object as it was before.   *)
CreateFails == /\ parent = "creating"
               /\ parent' = "constructed"
               /\ started' = FALSE
               /\ data' = "freed"
               /\ UNCHANGED <<latchVars, child, joined, tidKnown, name, reaped>>

StartReturns == /\ parent = "starting"
                /\ op[Parent] = "done"
                /\ parent' = "started"
                /\ UNCHANGED <<latchVars, child, started, joined, tidKnown, data,
                               name, reaped>>

(* ThreadData::runInThread: *tid_ is stored, latch_ is counted down, and *)
(* neither pointer is used again.                                        *)
StoreTid == /\ child = "born"
            /\ tidKnown' = TRUE
            /\ child' = "countingDown"
            /\ CallCountDown(Child)
            /\ UNCHANGED <<parent, started, joined, data, name, reaped>>

NameThread == /\ child = "countingDown"
              /\ op[Child] = "done"
              /\ child' = "named"
              /\ name' = "ThreadData"
              /\ UNCHANGED <<latchVars, parent, started, joined, tidKnown, data,
                             reaped>>

EnterFunc == /\ child = "named"
             /\ child' = "func"
             /\ UNCHANGED <<latchVars, parent, started, joined, tidKnown, data,
                            name, reaped>>

(* func_ returns and the thread is renamed; or it throws, is renamed too *)
(* and takes the process down.                                                 *)
FuncReturns == /\ child = "func"
               /\ child' = "returned"
               /\ name' = "finished"
               /\ UNCHANGED <<latchVars, parent, started, joined, tidKnown, data,
                              reaped>>

FuncThrows == /\ child = "func"
              /\ child' = "throwing"
              /\ name' = "crashed"
              /\ UNCHANGED <<latchVars, parent, started, joined, tidKnown, data,
                             reaped>>

(* abort(), or the rethrow that no frame of the thread catches. *)
Abort == /\ child = "throwing"
         /\ child' = "crashed"
         /\ parent' = "crashed"
         /\ UNCHANGED <<latchVars, started, joined, tidKnown, data, name, reaped>>

(* startThread: delete data, and the thread ends. *)
ChildExits == /\ child = "returned"
              /\ child' = "exited"
              /\ data' = "freed"
              /\ UNCHANGED <<latchVars, parent, started, joined, tidKnown, name,
                             reaped>>

LatchSteps == /\ parent # "crashed"
              /\ \E t \in Thread : LatchStep(t)
              /\ UNCHANGED threadVars

Join == /\ parent = "started"
        /\ started /\ ~joined
        /\ joined' = TRUE
        /\ parent' = "joining"
        /\ UNCHANGED <<latchVars, child, started, tidKnown, data, name, reaped>>

(* pthread_join returns. *)
Joined == /\ parent = "joining"
          /\ child = "exited"
          /\ reaped' = reaped + 1
          /\ parent' = "started"
          /\ UNCHANGED <<latchVars, child, started, joined, tidKnown, data,
                                   name>>

Destroy == /\ parent \in {"constructed", "started"}
           /\ parent' = "destroyed"
           /\ reaped' = IF started /\ ~joined THEN reaped + 1 ELSE reaped
           /\ UNCHANGED <<latchVars, child, started, joined, tidKnown, data,
                                   name>>

Next == \/ Start \/ Created \/ CreateFails \/ StartReturns
        \/ StoreTid \/ NameThread \/ EnterFunc \/ FuncReturns
        \/ FuncThrows \/ Abort \/ ChildExits
        \/ LatchSteps
        \/ Join \/ Joined \/ Destroy

(* Both threads are scheduled and the latch's mutex does not starve them; *)
(* func_ may run for ever and the owner may keep the object for ever.     *)
Fairness ==
  /\ WF_vars(StartReturns)
  /\ WF_vars(StoreTid)
  /\ \A t \in Thread :
       /\ WF_vars(LatchSteps /\ (CountDown(t) \/ Sleep(t) \/ WaitDone(t) \/ Leave(t)))
       /\ SF_vars(LatchSteps /\ EnterLatch(t))
       /\ SF_vars(LatchSteps /\ WaitEnd(t))

Spec == Init /\ [][Next]_vars /\ Fairness

------------------------------------------------------------------------------
(* The steps in which the new thread still reads or writes the Thread    *)
(* object: storing tid_, and countDown() up to its last unlock.          *)
ChildUsesObject == child \in {"born", "countingDown"} /\ op[Child] # "done"

(* When the object is gone the new thread no longer touches it, although  *)
(* nothing joins it first (Thread.cpp:51-55, 147; the case that            *)
(* Thread_test.cpp:77 describes), and a pthread that was created has been  *)
(* joined or detached, and only once (119-124, 152-158).  What the new     *)
(* thread reads of its ThreadData is there: func_ while it runs, and name_ *)
(* as long as t_threadName points to it, which is also what thread-exit    *)
(* destructors log (57-62, 83-88).                                         *)
LifetimesKept ==
  /\ parent = "destroyed" => ~ChildUsesObject /\ reaped = IF started THEN 1 ELSE 0
  /\ \/ child \in {"born", "countingDown", "named", "func", "throwing"}
     \/ name = "ThreadData"
     => data = "live"

(* start() returns only when tid_ is there: the assert of Thread.cpp:148, *)
(* and what tid() returns to every caller after that.                     *)
StartPublishesTid == parent \in {"started", "joining"} => tidKnown

(* start() returns once pthread_create has succeeded, unless the process *)
(* dies: the countdown of the new thread is never missed.                *)
StartTerminates == parent = "starting" ~> parent \in {"started", "crashed"}
==============================================================================
