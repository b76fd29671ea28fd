------------------------------- MODULE ThreadPool -------------------------------
(***************************************************************************)
(* muduo::ThreadPool (muduo/base/ThreadPool.cpp): a fixed number of        *)
(* threads take tasks from one queue; run() adds a task and blocks while   *)
(* the queue is full; stop() makes the threads leave and joins them.  What *)
(* a thread does while it holds mutex_ is one step, as in                  *)
(* BoundedBlockingQueue.  A task may itself call run() (its child), and    *)
(* may throw.                                                              *)
(***************************************************************************)
EXTENDS Naturals, Sequences, FiniteSets

CONSTANTS MaxThreads,     \* start() is called with 0 or with this many threads
          Callers,        \* the threads outside the pool that call run()
          Task, NoTask,
          Roots,          \* the tasks the callers submit, each once
          Child,          \* the task that a task submits, or NoTask
          Throwing,       \* the tasks that may throw
          MaxQueueSize    \* maxQueueSize_; 0 is unbounded

Workers == 1..MaxThreads
Threads == Workers \cup Callers

ASSUME PoolAssumption == /\ MaxThreads \in Nat
                         /\ IsFiniteSet(Callers)
                         /\ Workers \cap Callers = {}
                         /\ NoTask \notin Task
                         /\ Roots \subseteq Task /\ Throwing \subseteq Task
                         /\ Child \in [Task -> Task \cup {NoTask}]
                         /\ MaxQueueSize \in Nat

VARIABLES owner,       \* where the thread that calls start() and stop() is
          numThreads,  \* the argument of start()
          created,     \* threads_.size()
          joined,      \* the number of threads stop() has joined
          running,     \* running_
          stale,       \* the workers that may still read running_ as true
          queue,       \* queue_
          pc,          \* where each thread is
          task,        \* the task each thread executes or hands to run()
          todo,        \* the tasks no caller has submitted yet
          begun        \* the tasks whose execution has begun

ownerVars == <<owner, numThreads, created, joined>>
vars == <<ownerVars, running, stale, queue, pc, task, todo, begun>>

OwnerPlaces == {"new", "starting", "started", "joining", "stopped", "dead"}
Places == {"none", "failed",                 \* a worker not, or never, created
           "loop", "take", "takeWait",       \* runInThread, take and its wait
           "exec",                           \* inside a task
           "run", "runWait",                 \* run and its wait
           "exited", "idle",
          "dead"}                            \* the process has ended

At(place) == {t \in Threads : pc[t] = place}

isFull == MaxQueueSize > 0 /\ Len(queue) >= MaxQueueSize

Init == /\ owner = "new"
        /\ numThreads = 0 /\ created = 0 /\ joined = 0
        /\ running = FALSE
        /\ stale = {}
        /\ queue = <<>>
        /\ pc = [t \in Threads |-> IF t \in Workers THEN "none" ELSE "idle"]
        /\ task = [t \in Threads |-> NoTask]
        /\ todo = Roots
        /\ begun = {}

Move(t, from, to) == /\ pc[t] = from
                     /\ pc' = [pc EXCEPT ![t] = to]

(* The places of all threads after t has gone to `to` and one of those   *)
(* blocked at `asleep`, if there is one, has been sent to `awake`.       *)
Notifying(t, to, asleep, awake) ==
  LET moved == [pc EXCEPT ![t] = to] IN
  IF At(asleep) = {} THEN {moved}
  ELSE {[moved EXCEPT ![w] = awake] : w \in At(asleep)}

--------------------------------------------------------------------------------
(* start(): running_ is set, and the threads are created one by one; each *)
(* Thread::start() returns when its thread runs (see ThreadObject) or     *)
(* when it could not be created.                                          *)
Start == /\ owner = "new"
         /\ \E n \in {0, MaxThreads} : numThreads' = n
         /\ running' = TRUE
         /\ owner' = "starting"
         /\ UNCHANGED <<created, joined, stale, queue, pc, task, todo, begun>>

CreateThread == /\ owner = "starting"
                /\ created < numThreads
                /\ created' = created + 1
                /\ \/ Move(created', "none", "loop")
                   \/ Move(created', "none", "failed")
                /\ UNCHANGED <<owner, numThreads, joined, running, stale, queue, task,
                               todo, begun>>

StartReturns == /\ owner = "starting"
                /\ created = numThreads
                /\ owner' = "started"
                /\ UNCHANGED <<numThreads, created, joined, running, stale, queue, pc,
                               task, todo, begun>>

(* stop(), also from ~ThreadPool: it clears running_ and wakes every     *)
(* thread that waits for a task.  A defect: it wakes one.                *)
StopNotifyOne == /\ owner = "started"
                 /\ owner' = "joining"
                 /\ running' = FALSE
                 /\ stale' = Workers
                 /\ pc' \in IF At("takeWait") = {} THEN {pc}
                            ELSE {[pc EXCEPT ![w] = "take"] : w \in At("takeWait")}
                 /\ UNCHANGED <<numThreads, created, joined, queue, task, todo, begun>>

Stop == /\ owner = "started"
        /\ owner' = "joining"
        /\ running' = FALSE
        /\ stale' = Workers
        /\ pc' = [t \in Threads |-> IF pc[t] = "takeWait" THEN "take" ELSE pc[t]]
        /\ UNCHANGED <<numThreads, created, joined, queue, task, todo, begun>>

(* ... then joins the threads in the order of their creation.            *)
JoinThread == /\ owner = "joining"
              /\ joined < created
              /\ pc[joined + 1] = "exited"
              /\ joined' = joined + 1
              /\ UNCHANGED <<owner, numThreads, created, running, stale, queue, pc, task,
                             todo, begun>>

(* A thread that could not be created is joined all the same: the assert *)
(* in Thread::join() is off in a release build, and pthread_join() of an *)
(* id that names no thread returns an error or ends the process.         *)
JoinUnstarted == /\ owner = "joining"
                 /\ joined < created
                 /\ pc[joined + 1] = "failed"
                 /\ joined' = joined + 1
                 /\ \/ UNCHANGED <<owner, pc>>
                    \/ owner' = "dead" /\ pc' = [t \in Threads |-> "dead"]
                 /\ UNCHANGED <<numThreads, created, running, stale, queue, task, todo,
                                begun>>

StopReturns == /\ owner = "joining"
               /\ joined = created
               /\ owner' = "stopped"
               /\ UNCHANGED <<numThreads, created, joined, running, stale, queue, pc,
                              task, todo, begun>>

--------------------------------------------------------------------------------
(* run(): without threads the caller executes the task itself; otherwise *)
(* it waits for room, adds the task and wakes one waiting worker.        *)
CallRun(c) == /\ owner \in {"started", "joining", "stopped"}
              /\ Move(c, "idle", "run")
              /\ \E x \in todo : /\ task' = [task EXCEPT ![c] = x]
                                 /\ todo' = todo \ {x}
              /\ UNCHANGED <<ownerVars, running, stale, queue, begun>>

RunInline(t) == /\ created = 0
                /\ Move(t, "run", "exec")
                /\ begun' = begun \cup {task[t]}
                /\ UNCHANGED <<ownerVars, running, stale, queue, task, todo>>

RunWait(t) == /\ created > 0
              /\ isFull
              /\ Move(t, "run", "runWait")
              /\ stale' = stale \ {t}
              /\ UNCHANGED <<ownerVars, running, queue, task, todo, begun>>

(* run() has returned: a caller is done, and in a worker the task that   *)
(* called run() ends.                                                    *)
AfterRun(t) == IF t \in Workers THEN "loop" ELSE "idle"

(* Two defects run() must not have: no notify, and one too many let in.  *)
RunPushSilent(t) == /\ created > 0
                    /\ ~isFull
                    /\ Move(t, "run", AfterRun(t))
                    /\ queue' = Append(queue, task[t])
                    /\ task' = [task EXCEPT ![t] = NoTask]
                    /\ stale' = stale \ {t}
                    /\ UNCHANGED <<ownerVars, running, todo, begun>>

RunPushOver(t) == /\ created > 0
                  /\ MaxQueueSize > 0 => Len(queue) <= MaxQueueSize
                  /\ pc[t] = "run"
                  /\ queue' = Append(queue, task[t])
                  /\ pc' \in Notifying(t, AfterRun(t), "takeWait", "take")
                  /\ task' = [task EXCEPT ![t] = NoTask]
                  /\ stale' = stale \ {t}
                  /\ UNCHANGED <<ownerVars, running, todo, begun>>

RunPush(t) == /\ created > 0
              /\ ~isFull
              /\ pc[t] = "run"
              /\ queue' = Append(queue, task[t])
              /\ pc' \in Notifying(t, AfterRun(t), "takeWait", "take")
              /\ task' = [task EXCEPT ![t] = NoTask]
              /\ stale' = stale \ {t}
              /\ UNCHANGED <<ownerVars, running, todo, begun>>

--------------------------------------------------------------------------------
(* runInThread(): the worker reads running_ without the lock.  A worker  *)
(* that has not locked mutex_ since stop() cleared it may still read the *)
(* old value (a data race on a plain bool).                              *)
LoopTest(w) == /\ \/ running \/ w \in stale
                  /\ Move(w, "loop", "take")
               /\ UNCHANGED <<ownerVars, running, stale, queue, task, todo, begun>>
LoopExit(w) == /\ ~running
               /\ Move(w, "loop", "exited")
               /\ UNCHANGED <<ownerVars, running, stale, queue, task, todo, begun>>

(* take().  Two defects: running_ is not tested before the wait, and a   *)
(* task is taken without a notify for the slot it frees.                 *)
TakeWaitAlways(w) == /\ queue = <<>>
                     /\ Move(w, "take", "takeWait")
                     /\ stale' = stale \ {w}
                     /\ UNCHANGED <<ownerVars, running, queue, task, todo, begun>>

TakeWait(w) == /\ queue = <<>> /\ running
               /\ Move(w, "take", "takeWait")
               /\ stale' = stale \ {w}
               /\ UNCHANGED <<ownerVars, running, queue, task, todo, begun>>

TakeNothing(w) == /\ queue = <<>> /\ ~running
                  /\ Move(w, "take", "loop")
                  /\ stale' = stale \ {w}
                  /\ UNCHANGED <<ownerVars, running, queue, task, todo, begun>>

TakeTaskSilent(w) == /\ queue # <<>>
                     /\ Move(w, "take", "exec")
                     /\ queue' = Tail(queue)
                     /\ task' = [task EXCEPT ![w] = Head(queue)]
                     /\ begun' = begun \cup {Head(queue)}
                     /\ stale' = stale \ {w}
                     /\ UNCHANGED <<ownerVars, running, todo>>

TakeTask(w) == /\ queue # <<>>
               /\ pc[w] = "take"
               /\ queue' = Tail(queue)
               /\ task' = [task EXCEPT ![w] = Head(queue)]
               /\ begun' = begun \cup {Head(queue)}
               /\ pc' \in IF MaxQueueSize > 0
                          THEN Notifying(w, "exec", "runWait", "run")
                          ELSE {[pc EXCEPT ![w] = "exec"]}
               /\ stale' = stale \ {w}
               /\ UNCHANGED <<ownerVars, running, todo>>

(* The task, in a worker or inline: it ends, or submits its child with   *)
(* run(), or throws, which ends the process.                             *)
TaskEnds(t) == /\ Move(t, "exec", AfterRun(t))
               /\ Child[task[t]] = NoTask
               /\ task' = [task EXCEPT ![t] = NoTask]
               /\ UNCHANGED <<ownerVars, running, stale, queue, todo, begun>>

TaskCallsRun(t) == /\ Move(t, "exec", "run")
                   /\ Child[task[t]] # NoTask
                   /\ task' = [task EXCEPT ![t] = Child[task[t]]]
                   /\ UNCHANGED <<ownerVars, running, stale, queue, todo, begun>>

TaskThrows(t) == /\ pc[t] = "exec"
                 /\ task[t] \in Throwing
                 /\ pc' = [u \in Threads |-> "dead"]
                 /\ owner' = "dead"
                 /\ UNCHANGED <<numThreads, created, joined, running, stale, queue,
                                task, todo, begun>>

(* pthread_cond_wait may return without a signal. *)
SpuriousWakeup(t) == /\ \/ Move(t, "takeWait", "take")
                        \/ Move(t, "runWait", "run")
                     /\ UNCHANGED <<ownerVars, running, stale, queue, task, todo, begun>>

OwnerStep == CreateThread \/ StartReturns \/ JoinThread \/ JoinUnstarted \/ StopReturns
RunStep(t) == RunInline(t) \/ RunWait(t) \/ RunPush(t)
TakeStep(w) == LoopTest(w) \/ LoopExit(w) \/ TakeWait(w) \/ TakeNothing(w) \/ TakeTask(w)
ExecStep(t) == TaskEnds(t) \/ TaskCallsRun(t)

Next == \/ Start \/ OwnerStep \/ Stop
        \/ \E c \in Callers : CallRun(c)
        \/ \E t \in Threads : \/ RunStep(t) \/ ExecStep(t) \/ TaskThrows(t)
                              \/ SpuriousWakeup(t)
        \/ \E w \in Workers : TakeStep(w)

(* Every thread inside the pool is scheduled, gets the mutex in the end, *)
(* and every task ends; nobody has to call run() or stop(), no task has  *)
(* to throw and no spurious wakeup has to come.                          *)
Fairness == /\ WF_vars(OwnerStep)
            /\ \A t \in Threads : WF_vars(RunStep(t) \/ ExecStep(t))
            /\ \A w \in Workers : WF_vars(TakeStep(w))

Spec == Init /\ [][Next]_vars /\ Fairness

--------------------------------------------------------------------------------
(* The types; the bound of the queue is part of its type.                *)
TypeOK == /\ owner \in OwnerPlaces
          /\ numThreads \in {0, MaxThreads}
          /\ created \in 0..numThreads
          /\ joined \in 0..created
          /\ running \in BOOLEAN
          /\ stale \subseteq Workers
          /\ queue \in Seq(Task)
          /\ MaxQueueSize > 0 => Len(queue) <= MaxQueueSize
          /\ pc \in [Threads -> Places]
          /\ task \in [Threads -> Task \cup {NoTask}]
          /\ todo \subseteq Task
          /\ begun \subseteq Task

(* No lost wakeup for the workers: one sleeps in take() only while the   *)
(* pool runs and every queued task has a worker on its way to it, so     *)
(* that neither a task nor stop() can pass it by (ThreadPool.cpp:38-44,  *)
(* 66-67, 76-78).                                                        *)
WorkersNotStranded ==
  At("takeWait") # {} => running /\ Len(queue) <= Cardinality(At("take"))

(* No lost wakeup for run(): while a thread sleeps in it, every free slot *)
(* has a thread on its way to it, inside the pool or outside              *)
(* (ThreadPool.cpp:61-63, 84-86).                                         *)
RunnersNotStranded ==
  At("runWait") # {} => MaxQueueSize - Len(queue) <= Cardinality(At("run"))

(* The pool can clog: a task that calls run() sleeps in it when the queue *)
(* is full, and its worker takes no other task meanwhile.                 *)
Clogged(w) == isFull /\ pc[w] \in {"run", "runWait"}
NoWorkerLeft == \A w \in Workers : pc[w] \in {"none", "failed"} \/ Clogged(w)

(* A task in the queue begins, unless stop() comes first, the process    *)
(* dies or every worker that could be created is stuck in a run() of its *)
(* own (ThreadPool.cpp:56-69, 97-107).                                   *)
QueuedTasksBegin ==
  \A x \in Task :
    (\E i \in 1..Len(queue) : queue[i] = x)
      ~> (x \in begun \/ ~running \/ owner = "dead" \/ NoWorkerLeft)

(* run() returns, under the same conditions: a caller that sleeps on a   *)
(* full queue is not forgotten (ThreadPool.cpp:61-63, 84-86).            *)
RunReturns ==
  \A c \in Callers :
    pc[c] = "run" ~> (pc[c] = "idle" \/ ~running \/ owner = "dead" \/ NoWorkerLeft)

(* stop() returns, whatever the workers were doing when it was called,   *)
(* unless one of them is in a run() of its own that finds the queue      *)
(* full: nothing empties it any more (ThreadPool.cpp:38-49).             *)
StopTerminates ==
  owner = "joining"
    ~> (owner = "stopped" \/ owner = "dead" \/ \E w \in Workers : Clogged(w))

(* stop() joins only threads that were started: the assert of            *)
(* Thread.cpp:153.                                                       *)
JoinsOnlyStarted == \A w \in 1..joined : pc[w] # "failed"
================================================================================
