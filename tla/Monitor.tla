------------------------------- MODULE Monitor -------------------------------
(***************************************************************************)
(* What a MutexLock with one Condition promises its clients: at any time   *)
(* at most one thread is inside the critical section; a thread leaves it   *)
(* by unlocking or by waiting, and comes back from a wait inside it.       *)
(***************************************************************************)
CONSTANTS Thread, NoThread

VARIABLES inside,   \* the thread in the critical section, or NoThread
          asleep    \* the threads that are in the middle of a wait()

mvars == <<inside, asleep>>

MonitorInit == /\ inside = NoThread
               /\ asleep = {}

MonitorEnter(t) == /\ inside = NoThread
                   /\ t \notin asleep
                   /\ inside' = t
                   /\ UNCHANGED asleep

MonitorExit(t) == /\ inside = t
                  /\ inside' = NoThread
                  /\ UNCHANGED asleep

MonitorWait(t) == /\ inside = t
                  /\ inside' = NoThread
                  /\ asleep' = asleep \cup {t}

MonitorReturn(t) == /\ inside = NoThread
                    /\ t \in asleep
                    /\ inside' = t
                    /\ asleep' = asleep \ {t}

MonitorNext == \E t \in Thread : \/ MonitorEnter(t)
                                 \/ MonitorExit(t)
                                 \/ MonitorWait(t)
                                 \/ MonitorReturn(t)

MonitorSpec == MonitorInit /\ [][MonitorNext]_mvars
==============================================================================
