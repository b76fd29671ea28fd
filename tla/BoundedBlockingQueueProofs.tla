------------------------ MODULE BoundedBlockingQueueProofs ------------------------
(***************************************************************************)
(* Proofs about BoundedBlockingQueue, for any finite sets of producers and *)
(* consumers, any items and any capacity.                                  *)
(***************************************************************************)
EXTENDS BoundedBlockingQueue, Integers, FiniteSetTheorems, TLAPS

(* The three properties are inductive together: put() needs the bound of *)
(* the queue for the producers' free slots.                              *)
Inv == TypeOK /\ ConsumersNotStranded /\ ProducersNotStranded

LEMMA CountIsFinite ==
  ASSUME NEW S \in {Producers, Consumers}, NEW place
  PROVE  IsFiniteSet(At(S, place)) /\ IsFiniteSet(At(S, place)')
<1>1. At(S, place) \subseteq S /\ At(S, place)' \subseteq S
  BY DEF At
<1>2. IsFiniteSet(S)
  BY QueueAssumption
<1> QED
  BY <1>1, <1>2, FS_Subset

LEMMA InvInit == Init => Inv
<1> SUFFICES ASSUME Init PROVE Inv
  OBVIOUS
<1>1. TypeOK
  BY QueueAssumption DEF Init, TypeOK, Places
<1>2. At(Producers, "waiting") = {} /\ At(Consumers, "waiting") = {}
  BY DEF Init, At, Threads
<1> QED
  BY <1>1, <1>2 DEF Inv, ConsumersNotStranded, ProducersNotStranded

(* What ReturnNotifying does to the threads: t goes, and either nobody   *)
(* of S sleeps or one of those that do is sent on its way.               *)
LEMMA Returned ==
  ASSUME TypeOK, NEW t \in Threads, NEW S \in {Producers, Consumers},
         t \notin S, pc[t] = "entering", ReturnNotifying(t, S)
  PROVE  /\ pc' \in [Threads -> Places]
         /\ \A s \in Threads \ S : pc'[s] = IF s = t THEN "idle" ELSE pc[s]
         /\ \/ At(S, "waiting") = {} /\ \A s \in S : pc'[s] = pc[s]
            \/ \E w \in At(S, "waiting") :
                  \A s \in S : pc'[s] = IF s = w THEN "entering" ELSE pc[s]
<1> S \subseteq Threads
  BY DEF Threads
<1>1. CASE At(S, "waiting") = {}
  BY <1>1 DEF TypeOK, ReturnNotifying, Places
<1>2. CASE At(S, "waiting") # {}
  <2>1. PICK w \in At(S, "waiting") :
          pc' = [[pc EXCEPT ![t] = "idle"] EXCEPT ![w] = "entering"]
    BY <1>2 DEF ReturnNotifying
  <2>2. w \in S /\ w # t
    BY DEF At
  <2> QED
    BY <2>1, <2>2 DEF TypeOK, Places
<1> QED
  BY <1>1, <1>2

(* One of S is served, while of the other side R nobody leaves but one   *)
(* more is on its way, if any sleeps.                                    *)
LEMMA Exchanged ==
  ASSUME TypeOK,
         NEW S \in {Producers, Consumers}, NEW R \in {Producers, Consumers},
         S \cap R = {}, NEW t \in S, pc[t] = "entering",
         ReturnNotifying(t, R), NEW n \in Int, NEW m \in Int,
         At(S, "waiting") # {} => n <= Cardinality(At(S, "entering")),
         At(R, "waiting") # {} => m <= Cardinality(At(R, "entering"))
  PROVE  /\ pc' \in [Threads -> Places]
         /\ At(S, "waiting")' # {} => n - 1 <= Cardinality(At(S, "entering")')
         /\ At(R, "waiting")' # {} => m + 1 <= Cardinality(At(R, "entering")')
<1> S \subseteq Threads /\ R \subseteq Threads /\ t \notin R
  BY DEF Threads
<1>1. /\ pc' \in [Threads -> Places]
      /\ \A s \in Threads \ R : pc'[s] = IF s = t THEN "idle" ELSE pc[s]
      /\ \/ At(R, "waiting") = {} /\ \A s \in R : pc'[s] = pc[s]
         \/ \E w \in At(R, "waiting") :
               \A s \in R : pc'[s] = IF s = w THEN "entering" ELSE pc[s]
  BY Returned
<1>2. At(S, "waiting")' # {} => n - 1 <= Cardinality(At(S, "entering")')
  <2>1. At(S, "waiting")' = At(S, "waiting")
    BY <1>1 DEF At
  <2>2. At(S, "entering")' = At(S, "entering") \ {t} /\ t \in At(S, "entering")
    BY <1>1 DEF At
  <2> QED
    BY <2>1, <2>2, CountIsFinite, FS_RemoveElement, FS_CardinalityType
<1>3. At(R, "waiting")' # {} => m + 1 <= Cardinality(At(R, "entering")')
  <2>1. CASE At(R, "waiting") = {} /\ \A s \in R : pc'[s] = pc[s]
    BY <2>1 DEF At
  <2>2. ASSUME NEW w \in At(R, "waiting"),
               \A s \in R : pc'[s] = IF s = w THEN "entering" ELSE pc[s]
        PROVE  m + 1 <= Cardinality(At(R, "entering")')
    <3>1. At(R, "entering")' = At(R, "entering") \cup {w} /\ w \notin At(R, "entering")
      BY <2>2 DEF At
    <3> QED
      BY <3>1, CountIsFinite, FS_AddElement, FS_CardinalityType
  <2> QED
    BY <1>1, <2>1, <2>2
<1> QED
  BY <1>1, <1>2, <1>3

(* A step in which nobody of S goes to sleep and none of those on their  *)
(* way leaves.                                                           *)
LEMMA NoneSleeps ==
  ASSUME NEW S \in {Producers, Consumers}, NEW n \in Int,
         At(S, "waiting")' \subseteq At(S, "waiting"),
         At(S, "entering") \subseteq At(S, "entering")',
         At(S, "waiting") # {} => n <= Cardinality(At(S, "entering"))
  PROVE  At(S, "waiting")' # {} => n <= Cardinality(At(S, "entering")')
  BY CountIsFinite, FS_Subset, FS_CardinalityType

LEMMA InvStep == Inv /\ [Next]_vars => Inv'
<1> SUFFICES ASSUME Inv, [Next]_vars
             PROVE  Inv'
  OBVIOUS
<1> USE QueueAssumption
<1>t. TypeOK
  BY DEF Inv
<1>l. /\ Len(queue) \in Nat /\ Capacity - Len(queue) \in Int
      /\ Producers \subseteq Threads /\ Consumers \subseteq Threads
  BY <1>t DEF TypeOK, Threads
<1>1. ASSUME NEW t \in Threads, Call(t) \/ SpuriousWakeup(t)
      PROVE  Inv'
  <2>1. TypeOK'
    BY <1>1, <1>t DEF Call, SpuriousWakeup, TypeOK, Places
  <2>2. ASSUME NEW S \in {Producers, Consumers}
        PROVE  /\ At(S, "waiting")' \subseteq At(S, "waiting")
               /\ At(S, "entering") \subseteq At(S, "entering")'
    BY <1>1, <1>t, <1>l DEF Call, SpuriousWakeup, TypeOK, At
  <2>3. queue' = queue
    BY <1>1 DEF Call, SpuriousWakeup
  <2>4. ConsumersNotStranded'
    BY <1>l, <2>2, <2>3, NoneSleeps DEF Inv, ConsumersNotStranded
  <2>5. ProducersNotStranded'
    BY <1>l, <2>2, <2>3, NoneSleeps DEF Inv, ProducersNotStranded
  <2> QED
    BY <2>1, <2>4, <2>5 DEF Inv
<1>2. ASSUME NEW p \in Producers, PutWait(p)
      PROVE  Inv'
  <2>1. TypeOK'
    BY <1>2, <1>t DEF PutWait, Wait, TypeOK, Places
  <2>2. /\ At(Consumers, "waiting")' = At(Consumers, "waiting")
        /\ At(Consumers, "entering")' = At(Consumers, "entering")
        /\ queue' = queue /\ Len(queue) = Capacity
    BY <1>2, <1>t, <1>l DEF PutWait, Wait, TypeOK, At, Full
  <2>3. ConsumersNotStranded'
    BY <2>2 DEF Inv, ConsumersNotStranded
  <2>4. ProducersNotStranded'
    BY <1>l, <2>2, CountIsFinite, FS_CardinalityType DEF ProducersNotStranded
  <2> QED
    BY <2>1, <2>3, <2>4 DEF Inv
<1>3. ASSUME NEW p \in Producers, Put(p)
      PROVE  Inv'
  <2>1. /\ queue' \in Seq(Item)
        /\ Len(queue') = Len(queue) + 1 /\ Len(queue') <= Capacity
    BY <1>3, <1>t DEF Put, TypeOK, Full
  <2>2. /\ pc' \in [Threads -> Places]
        /\ At(Producers, "waiting")' # {} =>
             Capacity - Len(queue) - 1 <= Cardinality(At(Producers, "entering")')
        /\ At(Consumers, "waiting")' # {} =>
             Len(queue) + 1 <= Cardinality(At(Consumers, "entering")')
    BY <1>3, <1>t, <1>l, Exchanged
       DEF Put, Inv, ConsumersNotStranded, ProducersNotStranded
  <2> QED
    BY <1>l, <2>1, <2>2 DEF Inv, TypeOK, ConsumersNotStranded, ProducersNotStranded
<1>4. ASSUME NEW c \in Consumers, TakeWait(c)
      PROVE  Inv'
  <2>1. TypeOK'
    BY <1>4, <1>t DEF TakeWait, Wait, TypeOK, Places
  <2>2. /\ At(Producers, "waiting")' = At(Producers, "waiting")
        /\ At(Producers, "entering")' = At(Producers, "entering")
        /\ queue' = queue /\ Len(queue) = 0
    BY <1>4, <1>t, <1>l DEF TakeWait, Wait, TypeOK, At
  <2>3. ProducersNotStranded'
    BY <2>2 DEF Inv, ProducersNotStranded
  <2>4. ConsumersNotStranded'
    BY <1>l, <2>2, CountIsFinite, FS_CardinalityType DEF ConsumersNotStranded
  <2> QED
    BY <2>1, <2>3, <2>4 DEF Inv
<1>5. ASSUME NEW c \in Consumers, Take(c)
      PROVE  Inv'
  <2>1. /\ queue' \in Seq(Item)
        /\ Len(queue') = Len(queue) - 1 /\ Len(queue') <= Capacity
    BY <1>5, <1>t DEF Take, TypeOK
  <2>2. /\ pc' \in [Threads -> Places]
        /\ At(Consumers, "waiting")' # {} =>
             Len(queue) - 1 <= Cardinality(At(Consumers, "entering")')
        /\ At(Producers, "waiting")' # {} =>
             Capacity - Len(queue) + 1 <= Cardinality(At(Producers, "entering")')
    BY <1>5, <1>t, <1>l, Exchanged
       DEF Take, Inv, ConsumersNotStranded, ProducersNotStranded
  <2> QED
    BY <1>l, <2>1, <2>2 DEF Inv, TypeOK, ConsumersNotStranded, ProducersNotStranded
<1>6. CASE UNCHANGED vars
  BY <1>6 DEF vars, Inv, TypeOK, ConsumersNotStranded, ProducersNotStranded, At
<1> QED
  BY <1>1, <1>2, <1>3, <1>4, <1>5, <1>6 DEF Next

LEMMA Invariance == Spec => []Inv
  BY InvInit, InvStep, PTL DEF Spec

(* put() never overfills the circular buffer (BoundedBlockingQueue.h:23, *)
(* 79), for any number of threads and any capacity.                      *)
THEOREM BoundedTypeOK == Spec => []TypeOK
<1>1. Inv => TypeOK
  BY DEF Inv
<1> QED
  BY <1>1, Invariance, PTL

(* No wakeup of a consumer is lost: one notify() for each put is enough. *)
THEOREM NoConsumerStranded == Spec => []ConsumersNotStranded
<1>1. Inv => ConsumersNotStranded
  BY DEF Inv
<1> QED
  BY <1>1, Invariance, PTL

(* No wakeup of a producer is lost: one notify() for each take is enough. *)
THEOREM NoProducerStranded == Spec => []ProducersNotStranded
<1>1. Inv => ProducersNotStranded
  BY DEF Inv
<1> QED
  BY <1>1, Invariance, PTL
LEMMA FifoInitRefined == Init => Fifo!FifoInit
  BY DEF Init, Fifo!FifoInit, Threads

LEMMA FifoStepRefined == Inv /\ [Next]_vars => [Fifo!FifoNext]_(Fifo!fifoVars)
<1> DEFINE called == {t \in Threads : pc[t] # "idle"}
<1> SUFFICES ASSUME Inv, [Next]_vars
             PROVE  [Fifo!FifoNext]_(Fifo!fifoVars)
  OBVIOUS
<1> USE QueueAssumption
<1>t. /\ TypeOK
      /\ Producers \subseteq Threads /\ Consumers \subseteq Threads
  BY DEF Inv, Threads
<1>1. ASSUME NEW t \in Threads, Call(t)
      PROVE  Fifo!FifoCall(t)
  BY <1>1, <1>t DEF Call, TypeOK, Fifo!FifoCall
<1>2. ASSUME NEW t \in Threads, SpuriousWakeup(t) \/ PutWait(t) \/ TakeWait(t)
      PROVE  UNCHANGED Fifo!fifoVars
  BY <1>2, <1>t DEF SpuriousWakeup, PutWait, TakeWait, Wait, TypeOK, Fifo!fifoVars
<1>3. ASSUME NEW S \in {Producers, Consumers}, NEW t \in Threads \ S,
             pc[t] = "entering", ReturnNotifying(t, S)
      PROVE  called' = called \ {t}
  BY <1>3, <1>t, Returned DEF At
<1>4. ASSUME NEW p \in Producers, Put(p)
      PROVE  Fifo!FifoPut(p)
  <2>1. called' = called \ {p} /\ p \in called
    BY <1>4, <1>3, <1>t DEF Put
  <2>2. Len(queue) < Capacity
    BY <1>4, <1>t DEF Put, Full, TypeOK
  <2> QED
    BY <1>4, <2>1, <2>2 DEF Put, Fifo!FifoPut
<1>5. ASSUME NEW c \in Consumers, Take(c)
      PROVE  Fifo!FifoTake(c)
  <2>1. called' = called \ {c} /\ c \in called
    BY <1>5, <1>3, <1>t DEF Take
  <2> QED
    BY <1>5, <2>1 DEF Take, Fifo!FifoTake
<1>6. CASE UNCHANGED vars
  BY <1>6 DEF vars, Fifo!fifoVars
<1>7. /\ \A t \in Threads : Fifo!FifoCall(t) => Fifo!FifoNext
      /\ \A p \in Producers : Fifo!FifoPut(p) => Fifo!FifoNext
      /\ \A c \in Consumers : Fifo!FifoTake(c) => Fifo!FifoNext
  BY DEF Fifo!FifoNext, Threads
<1> QED
  BY <1>1, <1>2, <1>4, <1>5, <1>6, <1>7, <1>t DEF Next

(* The ring buffer with its mutex, two conditions and while loops is a   *)
(* bounded first-in first-out queue: every step is a call, a put that    *)
(* has room, a take of the oldest element, or invisible.                 *)
THEOREM BoundedQueueIsFifo == Spec => Fifo!FifoSafety
  BY FifoInitRefined, FifoStepRefined, Invariance, PTL DEF Spec, Fifo!FifoSafety
================================================================================
