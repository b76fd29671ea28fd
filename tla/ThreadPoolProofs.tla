----------------------------- MODULE ThreadPoolProofs -----------------------------
(***************************************************************************)
(* Proofs about ThreadPool, for any number of threads, any finite set of   *)
(* callers, any tasks with any children and any maximal queue size.        *)
(***************************************************************************)
EXTENDS ThreadPool, Integers, FiniteSetTheorems, TLAPS

(* A thread that executes a task or hands one to run() has one. *)
HasTask == \A t \in Threads : pc[t] \in {"exec", "run", "runWait"} => task[t] \in Task

(* Nothing is created before start(), and run() only waits in a pool that *)
(* has threads: RunInline takes its caller out of run() without a push.   *)
NewIsEmpty == owner = "new" => numThreads = 0
InlineNeverWaits == created = 0 => At("runWait") = {}

SafeInv == TypeOK /\ HasTask /\ NewIsEmpty /\ InlineNeverWaits
Inv == SafeInv /\ WorkersNotStranded /\ RunnersNotStranded

LEMMA CountIsFinite ==
  ASSUME NEW place
  PROVE  IsFiniteSet(At(place)) /\ IsFiniteSet(At(place)')
<1>1. IsFiniteSet(Workers)
  BY PoolAssumption, FS_Interval DEF Workers
<1>2. IsFiniteSet(Threads)
  BY <1>1, PoolAssumption, FS_Union DEF Threads
<1>3. At(place) \subseteq Threads /\ At(place)' \subseteq Threads
  BY DEF At
<1> QED
  BY <1>2, <1>3, FS_Subset

LEMMA InvInit == Init => Inv
<1> SUFFICES ASSUME Init PROVE Inv
  OBVIOUS
<1>1. TypeOK
  <2>1. pc \in [Threads -> Places] /\ task \in [Threads -> Task \cup {NoTask}]
    BY DEF Init, Places
  <2>2. MaxQueueSize > 0 => Len(queue) <= MaxQueueSize
    BY PoolAssumption DEF Init
  <2>3. owner \in OwnerPlaces /\ queue \in Seq(Task)
    BY DEF Init, OwnerPlaces
  <2>6. running \in BOOLEAN
    BY DEF Init
  <2>5. stale \subseteq Workers /\ todo \subseteq Task /\ begun \subseteq Task
    BY PoolAssumption DEF Init
  <2>4. numThreads \in {0, MaxThreads} /\ created \in 0..numThreads /\ joined \in 0..created
    BY DEF Init
  <2> QED
    BY <2>1, <2>2, <2>3, <2>4, <2>5, <2>6 DEF TypeOK
<1>2. At("takeWait") = {} /\ At("runWait") = {}
  BY DEF Init, At
<1>3. SafeInv
  BY <1>1, <1>2 DEF Init, SafeInv, HasTask, NewIsEmpty, InlineNeverWaits
<1> QED
  BY <1>2, <1>3 DEF Inv, WorkersNotStranded, RunnersNotStranded

--------------------------------------------------------------------------------
(* What a notify() does to the threads of the pool. *)
LEMMA Notified ==
  ASSUME TypeOK, NEW t \in Threads, NEW to \in Places, NEW asleep, NEW awake \in Places,
         pc[t] # asleep, to # asleep, awake # asleep,
         pc' \in Notifying(t, to, asleep, awake)
  PROVE  /\ pc' \in [Threads -> Places]
         /\ pc'[t] = to
         /\ \A s \in Threads \ {t} :
               pc'[s] = pc[s] \/ (pc[s] = asleep /\ pc'[s] = awake)
         /\ \/ At(asleep)' = {}
            \/ \E w \in At(asleep) : /\ w # t
                                     /\ \A s \in Threads \ {t} :
                                          pc'[s] = IF s = w THEN awake ELSE pc[s]
<1>1. CASE At(asleep) = {}
  <2>1. pc' = [pc EXCEPT ![t] = to]
    BY <1>1 DEF Notifying
  <2> QED
    BY <1>1, <2>1 DEF TypeOK, At
<1>2. CASE At(asleep) # {}
  <2>1. PICK w \in At(asleep) : pc' = [[pc EXCEPT ![t] = to] EXCEPT ![w] = awake]
    BY <1>2 DEF Notifying
  <2>2. w \in Threads /\ w # t /\ pc[w] = asleep
    BY DEF At
  <2> QED
    BY <2>1, <2>2 DEF TypeOK
<1> QED
  BY <1>1, <1>2

(* A step in which no worker goes to sleep, none of those on their way   *)
(* leaves, and nothing is added to the queue; and its mirror for run().  *)
LEMMA WorkersKept ==
  ASSUME TypeOK, WorkersNotStranded, running' = running, queue' = queue,
         At("takeWait")' \subseteq At("takeWait"), At("take") \subseteq At("take")'
  PROVE  WorkersNotStranded'
<1>1. Len(queue) \in Int
  BY DEF TypeOK
<1> QED
  BY <1>1, CountIsFinite, FS_Subset, FS_CardinalityType DEF WorkersNotStranded

LEMMA RunnersKept ==
  ASSUME TypeOK, RunnersNotStranded, queue' = queue,
         At("runWait")' \subseteq At("runWait"), At("run") \subseteq At("run")'
  PROVE  RunnersNotStranded'
<1>1. MaxQueueSize - Len(queue) \in Int
  BY PoolAssumption DEF TypeOK
<1> QED
  BY <1>1, CountIsFinite, FS_Subset, FS_CardinalityType DEF RunnersNotStranded

--------------------------------------------------------------------------------
LEMMA OwnerKeepsInv == ASSUME Inv, Start \/ OwnerStep \/ Stop
                       PROVE  Inv'
<1>s. SafeInv /\ TypeOK
  BY DEF Inv, SafeInv
<1> USE PoolAssumption
    DEF ownerVars, TypeOK, HasTask, NewIsEmpty, InlineNeverWaits, At, Places,
        OwnerPlaces, Workers, Threads, Move
<1>1. CASE Start \/ StartReturns \/ JoinThread \/ StopReturns
  <2>1. UNCHANGED <<pc, queue, task, todo, begun, stale>> /\ running' \in {running, TRUE}
    BY <1>1 DEF Start, StartReturns, JoinThread, StopReturns
  <2>2. /\ owner' \in OwnerPlaces \ {"new"}
        /\ numThreads' \in {0, MaxThreads} /\ created' \in 0..numThreads'
        /\ joined' \in 0..created' /\ created' = created
    BY <1>1, <1>s DEF SafeInv, Start, StartReturns, JoinThread, StopReturns
  <2>3. SafeInv'
    BY <1>s, <2>1, <2>2 DEF SafeInv
  <2> QED
    BY <2>1, <2>3 DEF Inv, WorkersNotStranded, RunnersNotStranded
<1>2. CASE CreateThread
  <2>1. /\ created' \in Threads /\ created' \in Nat \ {0}
        /\ \/ pc' = [pc EXCEPT ![created'] = "loop"]
           \/ pc' = [pc EXCEPT ![created'] = "failed"]
        /\ pc[created'] = "none"
    BY <1>2, <1>s DEF CreateThread
  <2>2. created' \in 0..numThreads /\ joined \in 0..created'
    BY <1>2, <1>s DEF CreateThread
  <2>6. pc' \in [Threads -> Places]
    BY <1>s, <2>1
  <2>5. SafeInv'
    BY <1>2, <1>s, <2>1, <2>2, <2>6 DEF SafeInv, CreateThread
  <2>3. WorkersNotStranded'
    BY <1>2, <1>s, <2>1, WorkersKept DEF CreateThread, Inv
  <2>4. RunnersNotStranded'
    BY <1>2, <1>s, <2>1, RunnersKept DEF CreateThread, Inv
  <2> QED
    BY <2>3, <2>4, <2>5 DEF Inv
<1>3. CASE JoinUnstarted
  <2>1. /\ pc' = pc \/ pc' = [t \in Threads |-> "dead"]
        /\ UNCHANGED <<numThreads, created, running, stale, queue, task, todo, begun>>
        /\ owner' \in {owner, "dead"} /\ joined' \in 0..created
    BY <1>3, <1>s DEF JoinUnstarted
  <2>4. pc' \in [Threads -> Places] /\ HasTask' /\ InlineNeverWaits'
    BY <1>s, <2>1 DEF SafeInv
  <2>5. SafeInv'
    BY <1>s, <2>1, <2>4 DEF SafeInv
  <2>2. WorkersNotStranded'
    BY <1>s, <2>1 DEF Inv, WorkersNotStranded
  <2>3. RunnersNotStranded'
    BY <1>s, <2>1 DEF Inv, RunnersNotStranded
  <2> QED
    BY <2>2, <2>3, <2>5 DEF Inv
<1>4. CASE Stop
  <2>1. SafeInv' /\ At("takeWait")' = {}
    BY <1>4, <1>s DEF SafeInv, Stop
  <2>2. At("runWait")' = At("runWait") /\ At("run")' = At("run")
    BY <1>4, <1>s DEF Stop
  <2>3. RunnersNotStranded'
    BY <1>4, <1>s, <2>2 DEF Inv, Stop, RunnersNotStranded
  <2> QED
    BY <2>1, <2>3 DEF Inv, WorkersNotStranded
<1> QED
  BY <1>1, <1>2, <1>3, <1>4 DEF OwnerStep
--------------------------------------------------------------------------------
(* A thread that goes from one place to another and changes neither the  *)
(* queue nor running_ keeps the counts, unless it goes to sleep or is    *)
(* one of those that are counted.                                        *)
LEMMA Moved ==
  ASSUME Inv, NEW t \in Threads, NEW from, NEW to \in Places, Move(t, from, to),
         UNCHANGED <<running, queue>>
  PROVE  /\ pc' \in [Threads -> Places]
         /\ from # "take" /\ to # "takeWait" => WorkersNotStranded'
         /\ from # "run" /\ to # "runWait" => RunnersNotStranded'
<1>1. TypeOK /\ WorkersNotStranded /\ RunnersNotStranded
  BY DEF Inv, SafeInv
<1>2. pc' \in [Threads -> Places]
  BY <1>1 DEF Move, TypeOK
<1>3. \A place : /\ to # place => At(place)' \subseteq At(place)
                 /\ from # place => At(place) \subseteq At(place)'
  BY <1>1 DEF Move, TypeOK, At
<1> QED
  BY <1>1, <1>2, <1>3, WorkersKept, RunnersKept

LEMMA RunStepKeepsInv == ASSUME Inv, NEW t \in Threads, RunStep(t)
                         PROVE  Inv'
<1>s. /\ TypeOK /\ HasTask /\ NewIsEmpty /\ InlineNeverWaits
      /\ Len(queue) \in Nat /\ AfterRun(t) \in {"loop", "idle"}
  BY DEF Inv, SafeInv, TypeOK, AfterRun
<1> USE PoolAssumption
<1>1. CASE RunInline(t)
  <2>1. /\ Move(t, "run", "exec") /\ created = 0
        /\ UNCHANGED <<ownerVars, running, stale, queue, task, todo>>
        /\ begun' \subseteq Task
    BY <1>1, <1>s DEF RunInline, Move, HasTask, TypeOK
  <2>2. pc' \in [Threads -> Places] /\ WorkersNotStranded'
    BY <2>1, Moved DEF Places
  <2>3. At("runWait")' = {}
    BY <1>s, <2>1 DEF Move, InlineNeverWaits, At, TypeOK
  <2>4. SafeInv'
    BY <1>s, <2>1, <2>2, <2>3
       DEF SafeInv, TypeOK, HasTask, NewIsEmpty, InlineNeverWaits, ownerVars, Move
  <2> QED
    BY <2>2, <2>3, <2>4 DEF Inv, RunnersNotStranded
<1>2. CASE RunWait(t)
  <2>1. /\ Move(t, "run", "runWait") /\ created > 0
        /\ UNCHANGED <<ownerVars, running, queue, task, todo, begun>>
        /\ stale' \subseteq Workers
        /\ Len(queue) >= MaxQueueSize
    BY <1>2, <1>s DEF RunWait, TypeOK, isFull
  <2>2. pc' \in [Threads -> Places] /\ WorkersNotStranded'
    BY <2>1, Moved DEF Places
  <2>3. RunnersNotStranded'
    BY <1>s, <2>1, CountIsFinite, FS_CardinalityType DEF RunnersNotStranded
  <2>4. SafeInv'
    BY <1>s, <2>1, <2>2
       DEF SafeInv, TypeOK, HasTask, NewIsEmpty, InlineNeverWaits, ownerVars, Move
  <2> QED
    BY <2>2, <2>3, <2>4 DEF Inv
<1>3. CASE RunPush(t)
  <2>1. /\ pc[t] = "run" /\ created > 0 /\ task[t] \in Task
        /\ UNCHANGED <<ownerVars, running, todo, begun>>
        /\ stale' \subseteq Workers
        /\ task' = [task EXCEPT ![t] = NoTask]
    BY <1>3, <1>s DEF RunPush, TypeOK, HasTask
  <2>2. /\ queue' \in Seq(Task) /\ Len(queue') = Len(queue) + 1
        /\ MaxQueueSize > 0 => Len(queue') <= MaxQueueSize
    BY <1>3, <1>s, <2>1 DEF RunPush, TypeOK, isFull
  <2>3. /\ pc' \in [Threads -> Places]
        /\ pc'[t] = AfterRun(t)
        /\ \A s \in Threads \ {t} :
              pc'[s] = pc[s] \/ (pc[s] = "takeWait" /\ pc'[s] = "take")
        /\ \/ At("takeWait")' = {}
           \/ \E w \in At("takeWait") :
                 /\ w # t
                 /\ \A s \in Threads \ {t} : pc'[s] = IF s = w THEN "take" ELSE pc[s]
    BY <1>3, <1>s, <2>1, Notified DEF RunPush, Places
  <2>4. SafeInv'
    <3>1. task' \in [Threads -> Task \cup {NoTask}]
      BY <1>s, <2>1 DEF TypeOK
    <3>2. TypeOK'
      BY <1>s, <2>1, <2>2, <2>3, <3>1 DEF TypeOK, ownerVars
    <3>3. HasTask'
      BY <1>s, <2>1, <2>3 DEF HasTask, TypeOK
    <3>4. NewIsEmpty' /\ InlineNeverWaits'
      BY <1>s, <2>1, <2>3 DEF NewIsEmpty, InlineNeverWaits, TypeOK, ownerVars
    <3> QED
      BY <3>2, <3>3, <3>4 DEF SafeInv
  <2>5. WorkersNotStranded'
    <3>1. CASE At("takeWait")' = {}
      BY <3>1 DEF WorkersNotStranded
    <3>2. ASSUME NEW w \in At("takeWait"), w # t,
                 \A s \in Threads \ {t} : pc'[s] = IF s = w THEN "take" ELSE pc[s]
          PROVE  WorkersNotStranded'
      <4>1. At("take")' = At("take") \cup {w} /\ w \notin At("take")
        BY <1>s, <2>1, <2>3, <3>2 DEF At
      <4>2. running /\ Len(queue) + 1 <= Cardinality(At("take")')
        BY <1>s, <4>1, <3>2, CountIsFinite, FS_AddElement, FS_CardinalityType DEF Inv, WorkersNotStranded
      <4> QED
        BY <2>1, <2>2, <4>2 DEF WorkersNotStranded
    <3> QED
      BY <2>3, <3>1, <3>2
  <2>6. RunnersNotStranded'
    <3>1. At("runWait")' = At("runWait")
      BY <1>s, <2>1, <2>3 DEF At
    <3>2. At("run")' = At("run") \ {t} /\ t \in At("run")
      BY <1>s, <2>1, <2>3 DEF At
    <3>3. At("runWait")' # {} =>
            MaxQueueSize - Len(queue) - 1 <= Cardinality(At("run")')
      BY <1>s, <3>1, <3>2, CountIsFinite, FS_RemoveElement, FS_CardinalityType DEF Inv, RunnersNotStranded
    <3> QED
      BY <1>s, <2>2, <3>3 DEF RunnersNotStranded
  <2> QED
    BY <2>4, <2>5, <2>6 DEF Inv
<1> QED
  BY <1>1, <1>2, <1>3 DEF RunStep

LEMMA TakeStepKeepsInv == ASSUME Inv, NEW w \in Workers, TakeStep(w)
                          PROVE  Inv'
<1>s. /\ TypeOK /\ HasTask /\ NewIsEmpty /\ InlineNeverWaits
      /\ Len(queue) \in Nat /\ w \in Threads
  BY DEF Inv, SafeInv, TypeOK, Threads
<1> USE PoolAssumption
<1>1. ASSUME NEW from, NEW to \in Places \ {"exec", "run", "runWait"},
             from \notin {"run", "runWait"}, Move(w, from, to),
             UNCHANGED <<ownerVars, running, queue, task, todo, begun>>,
             stale' \subseteq Workers
      PROVE  /\ SafeInv' /\ RunnersNotStranded'
             /\ from # "take" /\ to # "takeWait" => WorkersNotStranded'
  <2>1. /\ pc' \in [Threads -> Places] /\ RunnersNotStranded'
        /\ from # "take" /\ to # "takeWait" => WorkersNotStranded'
    BY <1>1, <1>s, Moved
  <2>2. SafeInv'
    BY <1>1, <1>s, <2>1
       DEF SafeInv, TypeOK, HasTask, NewIsEmpty, InlineNeverWaits, ownerVars, Move, At
  <2> QED
    BY <2>1, <2>2
<1>2. CASE LoopTest(w) \/ LoopExit(w)
  <2>1. Inv'
    BY <1>2, <1>1, <1>s DEF LoopTest, LoopExit, TypeOK, Places, Inv
  <2> QED
    BY <2>1
<1>3. CASE TakeWait(w)
  <2>1. SafeInv' /\ RunnersNotStranded'
    BY <1>3, <1>1, <1>s DEF TakeWait, TypeOK, Places
  <2>2. running' /\ Len(queue') = 0
    BY <1>3 DEF TakeWait
  <2>3. WorkersNotStranded'
    BY <2>2, CountIsFinite, FS_CardinalityType DEF WorkersNotStranded
  <2> QED
    BY <2>1, <2>3 DEF Inv
<1>4. CASE TakeNothing(w)
  <2>1. SafeInv' /\ RunnersNotStranded'
    BY <1>4, <1>1, <1>s DEF TakeNothing, TypeOK, Places
  <2>2. At("takeWait") = {}
    BY <1>4 DEF TakeNothing, Inv, WorkersNotStranded
  <2>3. At("takeWait")' = {}
    BY <1>4, <1>s, <2>2 DEF TakeNothing, Move, TypeOK, At
  <2> QED
    BY <2>1, <2>3 DEF Inv, WorkersNotStranded
<1>5. CASE TakeTask(w)
  <2>1. /\ pc[w] = "take" /\ Head(queue) \in Task
        /\ queue' \in Seq(Task) /\ Len(queue') = Len(queue) - 1
        /\ UNCHANGED <<ownerVars, running, todo>>
        /\ task' = [task EXCEPT ![w] = Head(queue)]
        /\ stale' \subseteq Workers /\ begun' \subseteq Task
    BY <1>5, <1>s DEF TakeTask, TypeOK
  <2>2. /\ pc' \in [Threads -> Places]
        /\ pc'[w] = "exec"
        /\ \A s \in Threads \ {w} :
              pc'[s] = pc[s] \/ (pc[s] = "runWait" /\ pc'[s] = "run")
        /\ \/ At("runWait")' = {}
           \/ \E r \in At("runWait") :
                 /\ r # w
                 /\ \A s \in Threads \ {w} : pc'[s] = IF s = r THEN "run" ELSE pc[s]
           \/ MaxQueueSize = 0
    <3>1. CASE MaxQueueSize > 0
      <4>1. pc' \in Notifying(w, "exec", "runWait", "run")
        BY <1>5, <3>1 DEF TakeTask
      <4> QED
        BY <1>s, <2>1, <4>1, Notified DEF Places
    <3>2. CASE MaxQueueSize = 0
      <4>1. pc' = [pc EXCEPT ![w] = "exec"]
        BY <1>5, <3>2 DEF TakeTask
      <4> QED
        BY <1>s, <3>2, <4>1 DEF TypeOK, Places
    <3> QED
      BY <3>1, <3>2
  <2>3. At("runWait")' \subseteq At("runWait")
    BY <2>2 DEF At
  <2>4. SafeInv'
    <3>1. TypeOK'
      <4>1. task' \in [Threads -> Task \cup {NoTask}]
        BY <1>s, <2>1 DEF TypeOK
      <4>2. MaxQueueSize > 0 => Len(queue') <= MaxQueueSize
        BY <1>s, <2>1 DEF TypeOK
      <4> QED
        BY <1>s, <2>1, <2>2, <4>1, <4>2 DEF TypeOK, ownerVars
    <3> QED
      BY <1>s, <2>1, <2>2, <2>3, <3>1
         DEF SafeInv, TypeOK, HasTask, NewIsEmpty, InlineNeverWaits, ownerVars
  <2>5. WorkersNotStranded'
    <3>1. At("takeWait")' = At("takeWait")
      BY <1>s, <2>1, <2>2 DEF At
    <3>2. At("take")' = At("take") \ {w} /\ w \in At("take")
      BY <1>s, <2>1, <2>2 DEF At
    <3>3. At("takeWait")' # {} => running /\ Len(queue) - 1 <= Cardinality(At("take")')
      BY <1>s, <3>1, <3>2, CountIsFinite, FS_RemoveElement, FS_CardinalityType DEF Inv, WorkersNotStranded
    <3> QED
      BY <2>1, <3>3 DEF WorkersNotStranded
  <2>6. RunnersNotStranded'
    <3>1. CASE At("runWait")' = {}
      BY <3>1 DEF RunnersNotStranded
    <3>2. CASE MaxQueueSize = 0
      <4>1. MaxQueueSize - Len(queue') <= 0 /\ MaxQueueSize - Len(queue') \in Int
        BY <1>s, <2>1, <3>2 DEF TypeOK
      <4> QED
        BY <4>1, CountIsFinite, FS_CardinalityType DEF RunnersNotStranded
    <3>3. ASSUME NEW r \in At("runWait"), r # w,
                 \A s \in Threads \ {w} : pc'[s] = IF s = r THEN "run" ELSE pc[s]
          PROVE  RunnersNotStranded'
      <4>1. At("run")' = At("run") \cup {r} /\ r \notin At("run")
        BY <1>s, <2>1, <2>2, <3>3 DEF At
      <4>2. MaxQueueSize - Len(queue) + 1 <= Cardinality(At("run")')
        BY <1>s, <4>1, <3>3, CountIsFinite, FS_AddElement, FS_CardinalityType DEF Inv, RunnersNotStranded
      <4> QED
        BY <1>s, <2>1, <4>2 DEF RunnersNotStranded
    <3> QED
      BY <2>2, <3>1, <3>2, <3>3
  <2> QED
    BY <2>4, <2>5, <2>6 DEF Inv
<1> QED
  BY <1>2, <1>3, <1>4, <1>5 DEF TakeStep

LEMMA OtherStepKeepsInv ==
  ASSUME Inv, NEW t \in Threads,
         \/ t \in Callers /\ CallRun(t)
         \/ ExecStep(t) \/ TaskThrows(t) \/ SpuriousWakeup(t)
  PROVE  Inv'
<1>s. /\ TypeOK /\ HasTask /\ NewIsEmpty /\ InlineNeverWaits
      /\ AfterRun(t) \in {"loop", "idle"}
  BY DEF Inv, SafeInv, AfterRun
<1> USE PoolAssumption
<1>1. CASE t \in Callers /\ CallRun(t)
  <2>1. PICK x \in todo : task' = [task EXCEPT ![t] = x] /\ todo' = todo \ {x}
    BY <1>1 DEF CallRun
  <2>2. /\ Move(t, "idle", "run")
        /\ UNCHANGED <<ownerVars, running, stale, queue, begun>>
    BY <1>1 DEF CallRun
  <2>3. pc' \in [Threads -> Places] /\ WorkersNotStranded' /\ RunnersNotStranded'
    BY <2>2, Moved DEF Places
  <2>4. SafeInv'
    BY <1>s, <2>1, <2>2, <2>3
       DEF SafeInv, TypeOK, HasTask, NewIsEmpty, InlineNeverWaits, ownerVars, Move, At
  <2> QED
    BY <2>3, <2>4 DEF Inv
<1>2. CASE TaskEnds(t)
  <2>1. /\ Move(t, "exec", AfterRun(t)) /\ task' = [task EXCEPT ![t] = NoTask]
        /\ UNCHANGED <<ownerVars, running, stale, queue, todo, begun>>
    BY <1>2 DEF TaskEnds
  <2>3. pc' \in [Threads -> Places] /\ WorkersNotStranded' /\ RunnersNotStranded'
    BY <1>s, <2>1, Moved DEF Places
  <2>4. SafeInv'
    BY <1>s, <2>1, <2>3
       DEF SafeInv, TypeOK, HasTask, NewIsEmpty, InlineNeverWaits, ownerVars, Move, At
  <2> QED
    BY <2>3, <2>4 DEF Inv
<1>3. CASE TaskCallsRun(t)
  <2>1. /\ Move(t, "exec", "run") /\ task' = [task EXCEPT ![t] = Child[task[t]]]
        /\ Child[task[t]] \in Task
        /\ UNCHANGED <<ownerVars, running, stale, queue, todo, begun>>
    BY <1>3, <1>s DEF TaskCallsRun, Move, HasTask
  <2>3. pc' \in [Threads -> Places] /\ WorkersNotStranded' /\ RunnersNotStranded'
    BY <2>1, Moved DEF Places
  <2>4. SafeInv'
    BY <1>s, <2>1, <2>3
       DEF SafeInv, TypeOK, HasTask, NewIsEmpty, InlineNeverWaits, ownerVars, Move, At
  <2> QED
    BY <2>3, <2>4 DEF Inv
<1>4. CASE TaskThrows(t)
  <2>1. /\ pc' = [u \in Threads |-> "dead"] /\ owner' = "dead"
        /\ UNCHANGED <<numThreads, created, joined, running, stale, queue, task,
                       todo, begun>>
    BY <1>4 DEF TaskThrows
  <2>2. At("takeWait")' = {} /\ At("runWait")' = {}
    BY <2>1 DEF At
  <2>3. SafeInv'
    BY <1>s, <2>1, <2>2
       DEF SafeInv, TypeOK, HasTask, NewIsEmpty, InlineNeverWaits, Places, OwnerPlaces
  <2> QED
    BY <2>2, <2>3 DEF Inv, WorkersNotStranded, RunnersNotStranded
<1>5. CASE SpuriousWakeup(t)
  <2>1. /\ Move(t, "takeWait", "take") \/ Move(t, "runWait", "run")
        /\ UNCHANGED <<ownerVars, running, stale, queue, task, todo, begun>>
    BY <1>5 DEF SpuriousWakeup
  <2>3. pc' \in [Threads -> Places] /\ WorkersNotStranded' /\ RunnersNotStranded'
    BY <2>1, Moved DEF Places
  <2>4. SafeInv'
    BY <1>s, <2>1, <2>3
       DEF SafeInv, TypeOK, HasTask, NewIsEmpty, InlineNeverWaits, ownerVars, Move, At
  <2> QED
    BY <2>3, <2>4 DEF Inv
<1> QED
  BY <1>1, <1>2, <1>3, <1>4, <1>5 DEF ExecStep

LEMMA InvStep == Inv /\ [Next]_vars => Inv'
<1> SUFFICES ASSUME Inv, [Next]_vars
             PROVE  Inv'
  OBVIOUS
<1>1. CASE UNCHANGED vars
  BY <1>1 DEF vars, ownerVars, Inv, SafeInv, TypeOK, HasTask, NewIsEmpty,
              InlineNeverWaits, WorkersNotStranded, RunnersNotStranded, At
<1> QED
  BY <1>1, OwnerKeepsInv, RunStepKeepsInv, TakeStepKeepsInv, OtherStepKeepsInv
     DEF Next, Threads

LEMMA Invariance == Spec => []Inv
  BY InvInit, InvStep, PTL DEF Spec

(* The queue of the pool never grows beyond maxQueueSize_                *)
(* (ThreadPool.cpp:61-66, 91-94), and every variable keeps its type.     *)
THEOREM PoolTypeOK == Spec => []TypeOK
<1>1. Inv => TypeOK
  BY DEF Inv, SafeInv
<1> QED
  BY <1>1, Invariance, PTL

(* No worker sleeps past a task or past stop() (ThreadPool.cpp:38-44,    *)
(* 66-67, 76-78), for any number of workers and callers.                 *)
THEOREM NoWorkerStranded == Spec => []WorkersNotStranded
<1>1. Inv => WorkersNotStranded
  BY DEF Inv
<1> QED
  BY <1>1, Invariance, PTL

(* No run() sleeps while a slot is free and nobody is on the way to it   *)
(* (ThreadPool.cpp:61-63, 84-86).                                        *)
THEOREM NoRunnerStranded == Spec => []RunnersNotStranded
<1>1. Inv => RunnersNotStranded
  BY DEF Inv
<1> QED
  BY <1>1, Invariance, PTL
================================================================================
