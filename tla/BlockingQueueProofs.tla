--------------------------- MODULE BlockingQueueProofs ---------------------------
(***************************************************************************)
(* Proofs about BlockingQueue, for any producers and drainers, any finite  *)
(* set of consumers, any items and any bound on the pending elements.      *)
(***************************************************************************)
EXTENDS BlockingQueue, Integers, FiniteSetTheorems, TLAPS

Inv == TypeOK /\ ConsumersNotStranded

LEMMA CountIsFinite ==
  ASSUME NEW place
  PROVE  IsFiniteSet(At(Consumers, place)) /\ IsFiniteSet(At(Consumers, place)')
<1>1. At(Consumers, place) \subseteq Consumers /\ At(Consumers, place)' \subseteq Consumers
  BY DEF At
<1> QED
  BY <1>1, QueueAssumption, FS_Subset

LEMMA InvInit == Init => Inv
<1> SUFFICES ASSUME Init PROVE Inv
  OBVIOUS
<1>1. TypeOK
  BY DEF Init, TypeOK, Places
<1>2. At(Consumers, "waiting") = {}
  BY DEF Init, At, Threads
<1> QED
  BY <1>1, <1>2 DEF Inv, ConsumersNotStranded

(* What put() does to the threads: the producer goes, and either no      *)
(* consumer sleeps or one of them is sent on its way.                    *)
LEMMA PutWakes ==
  ASSUME TypeOK, NEW p \in Producers, Put(p)
  PROVE  /\ pc' \in [Threads -> Places]
         /\ \A t \in Threads \ Consumers : pc'[t] = IF t = p THEN "idle" ELSE pc[t]
         /\ \/ At(Consumers, "waiting") = {} /\ \A c \in Consumers : pc'[c] = pc[c]
            \/ \E w \in At(Consumers, "waiting") :
                 \A c \in Consumers : pc'[c] = IF c = w THEN "entering" ELSE pc[c]
<1>0. /\ Consumers \subseteq Threads /\ Producers \subseteq Threads /\ p \notin Consumers
      /\ Return(p) = [pc EXCEPT ![p] = "idle"]
  BY QueueAssumption DEF Threads, Return
<1>1. CASE At(Consumers, "waiting") = {}
  <2>1. pc' = [pc EXCEPT ![p] = "idle"]
    BY <1>0, <1>1 DEF Put
  <2> QED
    BY <1>0, <1>1, <2>1 DEF TypeOK, Places
<1>2. CASE At(Consumers, "waiting") # {}
  <2>1. PICK w \in At(Consumers, "waiting") :
          pc' = [[pc EXCEPT ![p] = "idle"] EXCEPT ![w] = "entering"]
    BY <1>0, <1>2 DEF Put
  <2>2. w \in Consumers /\ w # p
    BY <1>0 DEF At
  <2> QED
    BY <1>0, <2>1, <2>2 DEF TypeOK, Places
<1> QED
  BY <1>1, <1>2

LEMMA InvStep == Inv /\ [Next]_vars => Inv'
<1> SUFFICES ASSUME Inv, [Next]_vars
             PROVE  Inv'
  OBVIOUS
<1> DEFINE Waiting == At(Consumers, "waiting")
           Entering == At(Consumers, "entering")
<1> USE QueueAssumption
<1>t. /\ TypeOK
      /\ Len(queue) \in Nat
      /\ Producers \subseteq Threads /\ Consumers \subseteq Threads
      /\ Drainers \subseteq Threads
  BY DEF Inv, TypeOK, Threads
<1>f. IsFiniteSet(Entering) /\ IsFiniteSet(Entering')
  BY CountIsFinite
<1>1. ASSUME NEW t \in Threads, Call(t) \/ (t \in Consumers /\ SpuriousWakeup(t))
      PROVE  Inv'
  <2>1. /\ TypeOK' /\ queue' = queue
        /\ Waiting' \subseteq Waiting /\ Entering \subseteq Entering'
    BY <1>1, <1>t DEF Call, SpuriousWakeup, TypeOK, Places, At
  <2>2. ConsumersNotStranded'
    BY <1>t, <1>f, <2>1, FS_Subset, FS_CardinalityType DEF Inv, ConsumersNotStranded
  <2> QED
    BY <2>1, <2>2 DEF Inv
<1>2. ASSUME NEW p \in Producers, Put(p)
      PROVE  Inv'
  <2>1. queue' \in Seq(Item) /\ Len(queue') = Len(queue) + 1
    BY <1>2, <1>t DEF Put, TypeOK
  <2>2. pc' \in [Threads -> Places]
    BY <1>2, <1>t, PutWakes
  <2>3. CASE Waiting = {} /\ \A c \in Consumers : pc'[c] = pc[c]
    BY <2>1, <2>2, <2>3 DEF Inv, TypeOK, ConsumersNotStranded, At
  <2>4. ASSUME NEW w \in Waiting,
               \A c \in Consumers : pc'[c] = IF c = w THEN "entering" ELSE pc[c]
        PROVE  Inv'
    <3>1. Entering' = Entering \cup {w} /\ w \notin Entering
      BY <2>4 DEF At
    <3>2. Len(queue) + 1 <= Cardinality(Entering')
      BY <1>t, <1>f, <3>1, FS_AddElement, FS_CardinalityType DEF Inv, ConsumersNotStranded
    <3> QED
      BY <2>1, <2>2, <3>2 DEF Inv, TypeOK, ConsumersNotStranded
  <2> QED
    BY <1>2, <1>t, <2>3, <2>4, PutWakes
<1>3. ASSUME NEW c \in Consumers, TakeWait(c)
      PROVE  Inv'
  <2>1. TypeOK' /\ Len(queue') = 0
    BY <1>3, <1>t DEF TakeWait, TypeOK, Places
  <2> QED
    BY <1>f, <2>1, FS_CardinalityType DEF Inv, ConsumersNotStranded
<1>4. ASSUME NEW c \in Consumers, Take(c)
      PROVE  Inv'
  <2>1. /\ TypeOK' /\ Len(queue') = Len(queue) - 1
        /\ Waiting' = Waiting
        /\ Entering' = Entering \ {c} /\ c \in Entering
    BY <1>4, <1>t DEF Take, Return, TypeOK, Places, At
  <2>2. ConsumersNotStranded'
    BY <1>t, <1>f, <2>1, FS_RemoveElement, FS_CardinalityType DEF Inv, ConsumersNotStranded
  <2> QED
    BY <2>1, <2>2 DEF Inv
<1>5. ASSUME NEW d \in Drainers, Drain(d)
      PROVE  Inv'
  <2>1. TypeOK' /\ Len(queue') = 0
    BY <1>5, <1>t DEF Drain, Return, TypeOK, Places
  <2> QED
    BY <1>f, <2>1, FS_CardinalityType DEF Inv, ConsumersNotStranded
<1>6. CASE UNCHANGED vars
  BY <1>6 DEF vars, Inv, TypeOK, ConsumersNotStranded, At
<1> QED
  BY <1>1, <1>2, <1>3, <1>4, <1>5, <1>6, <1>t DEF Next

LEMMA Invariance == Spec => []Inv
  BY InvInit, InvStep, PTL DEF Spec

(* No wakeup of a consumer is lost, however slow the woken ones are and  *)
(* whatever drain() takes away in between (BlockingQueue.h:21-53).       *)
THEOREM NoConsumerStranded == Spec => []ConsumersNotStranded
<1>1. Inv => ConsumersNotStranded
  BY DEF Inv
<1> QED
  BY <1>1, Invariance, PTL

LEMMA FifoInitRefined == Init => Fifo!FifoInit
  BY DEF Init, Fifo!FifoInit, Threads

LEMMA FifoStepRefined == Inv /\ [Next]_vars => [Fifo!FifoNext]_(Fifo!fifoVars)
<1> DEFINE called == {t \in Threads : pc[t] # "idle"}
<1> SUFFICES ASSUME Inv, [Next]_vars
             PROVE  [Fifo!FifoNext]_(Fifo!fifoVars)
  OBVIOUS
<1> USE QueueAssumption
<1>t. /\ TypeOK
      /\ Producers \subseteq Threads /\ Consumers \subseteq Threads
      /\ Drainers \subseteq Threads
  BY DEF Inv, Threads
<1>1. ASSUME NEW t \in Threads, Call(t)
      PROVE  Fifo!FifoCall(t)
  BY <1>1, <1>t DEF Call, TypeOK, Fifo!FifoCall
<1>2. ASSUME NEW c \in Consumers, SpuriousWakeup(c) \/ TakeWait(c)
      PROVE  UNCHANGED Fifo!fifoVars
  BY <1>2, <1>t DEF SpuriousWakeup, TakeWait, TypeOK, Fifo!fifoVars
<1>3. ASSUME NEW p \in Producers, Put(p)
      PROVE  Fifo!FifoPut(p)
  <2>1. called' = called \ {p} /\ p \in called
    BY <1>3, <1>t, PutWakes DEF Put, At
  <2> QED
    BY <1>3, <2>1 DEF Put, Fifo!FifoPut
<1>4. ASSUME NEW c \in Consumers, Take(c)
      PROVE  Fifo!FifoTake(c)
  BY <1>4, <1>t DEF Take, Return, TypeOK, Fifo!FifoTake
<1>5. ASSUME NEW d \in Drainers, Drain(d)
      PROVE  Fifo!FifoDrain(d)
  BY <1>5, <1>t DEF Drain, Return, TypeOK, Fifo!FifoDrain
<1>6. CASE UNCHANGED vars
  BY <1>6 DEF vars, Fifo!fifoVars
<1>7. /\ \A t \in Threads : Fifo!FifoCall(t) => Fifo!FifoNext
      /\ \A p \in Producers : Fifo!FifoPut(p) => Fifo!FifoNext
      /\ \A c \in Consumers : Fifo!FifoTake(c) => Fifo!FifoNext
      /\ \A d \in Drainers : Fifo!FifoDrain(d) => Fifo!FifoNext
  BY DEF Fifo!FifoNext, Threads
<1> QED
  BY <1>1, <1>2, <1>3, <1>4, <1>5, <1>6, <1>7 DEF Next

(* The deque with its mutex, condition and while loop is a first-in      *)
(* first-out queue: every step is a call, a put, a take of the oldest    *)
(* element, a drain of all of them, or invisible.                        *)
THEOREM QueueIsFifo == Spec => Fifo!FifoSafety
  BY FifoInitRefined, FifoStepRefined, Invariance, PTL DEF Spec, Fifo!FifoSafety
================================================================================
