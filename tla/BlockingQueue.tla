----------------------------- MODULE BlockingQueue -----------------------------
(***************************************************************************)
(* muduo::BlockingQueue (muduo/base/BlockingQueue.h): an unbounded deque   *)
(* behind one mutex and one condition, with a drain() that takes all there *)
(* is.  As in BoundedBlockingQueue, what an operation does while it holds  *)
(* mutex_ is one step, and a consumer is "entering" whenever it is about   *)
(* to test the condition of take()'s while loop.                           *)
(***************************************************************************)
EXTENDS Naturals, Sequences, FiniteSets

CONSTANTS Producers, Consumers, Drainers,  \* who calls put(), take(), drain()
          Item,
          MaxPending  \* bound of the model: no put() is called that could
                      \* make the queue longer than this

ASSUME QueueAssumption == /\ IsFiniteSet(Consumers)
                          /\ Consumers \cap (Producers \cup Drainers) = {}
                          /\ Producers \cap Drainers = {}
                          /\ MaxPending \in Nat \ {0}

VARIABLES queue,  \* queue_
          pc      \* where each thread is

vars == <<queue, pc>>

Threads == Producers \cup Consumers \cup Drainers
Places  == {"idle", "entering", "waiting"}

At(S, place) == {t \in S : pc[t] = place}

Init == /\ queue = <<>>
        /\ pc = [t \in Threads |-> "idle"]

Call(t) == /\ pc[t] = "idle"
           /\ pc' = [pc EXCEPT ![t] = "entering"]
           /\ UNCHANGED queue

Return(t) == [pc EXCEPT ![t] = "idle"]

(* A defect put() must not have: it notifies only when the queue was     *)
(* empty.                                                                *)
PutNotifyFirst(p) ==
  /\ pc[p] = "entering"
  /\ Len(queue) < MaxPending
  /\ \E x \in Item : queue' = Append(queue, x)
  /\ pc' \in IF At(Consumers, "waiting") = {} \/ queue # <<>> THEN {Return(p)}
             ELSE {[Return(p) EXCEPT ![w] = "entering"] :
                     w \in At(Consumers, "waiting")}

Put(p) ==
  /\ pc[p] = "entering"
  /\ Len(queue) < MaxPending
  /\ \E x \in Item : queue' = Append(queue, x)
  /\ pc' \in IF At(Consumers, "waiting") = {} THEN {Return(p)}
             ELSE {[Return(p) EXCEPT ![w] = "entering"] :
                     w \in At(Consumers, "waiting")}

TakeWait(c) == /\ pc[c] = "entering"
               /\ queue = <<>>
               /\ pc' = [pc EXCEPT ![c] = "waiting"]
               /\ UNCHANGED queue

Take(c) == /\ pc[c] = "entering"
           /\ queue # <<>>
           /\ queue' = Tail(queue)
           /\ pc' = Return(c)

(* A defect drain() must not have: it leaves the last element behind.    *)
DrainAllButLast(d) == /\ pc[d] = "entering"
                      /\ queue' = IF queue = <<>> THEN queue
                                  ELSE <<queue[Len(queue)]>>
                      /\ pc' = Return(d)

Drain(d) == /\ pc[d] = "entering"
            /\ queue' = <<>>
            /\ pc' = Return(d)

SpuriousWakeup(c) == /\ pc[c] = "waiting"
                     /\ pc' = [pc EXCEPT ![c] = "entering"]
                     /\ UNCHANGED queue

Next == \/ \E t \in Threads : Call(t)
        \/ \E p \in Producers : Put(p)
        \/ \E c \in Consumers : TakeWait(c) \/ Take(c) \/ SpuriousWakeup(c)
        \/ \E d \in Drainers : Drain(d)

(* A thread that is about to run its critical section gets the mutex in  *)
(* the end; nobody has to call, and no spurious wakeup has to come.      *)
Fairness == /\ \A p \in Producers : WF_vars(Put(p))
            /\ \A c \in Consumers : WF_vars(TakeWait(c) \/ Take(c))
            /\ \A d \in Drainers : WF_vars(Drain(d))

Spec == Init /\ [][Next]_vars /\ Fairness

--------------------------------------------------------------------------------
TypeOK == /\ queue \in Seq(Item)
          /\ pc \in [Threads -> Places]

(* No lost wakeup: while a consumer sleeps, every element of the queue   *)
(* has a consumer on its way to it.  One notify() for each put() is      *)
(* needed: notifying only when the queue was empty is not enough, since  *)
(* the woken consumer may be slow (BlockingQueue.h:21-43).               *)
ConsumersNotStranded ==
  At(Consumers, "waiting") # {} =>
    Len(queue) <= Cardinality(At(Consumers, "entering"))

Fifo == INSTANCE FifoQueue WITH Capacity <- MaxPending,
                                items <- queue,
                                called <- {t \in Threads : pc[t] # "idle"}

(* Mutex, condition and while loop together are a first-in first-out     *)
(* queue in which a take that has an element completes, whatever drain() *)
(* takes in between (BlockingQueue.h:21-53).                             *)
ImplementsFifo == Fifo!FifoSpec
================================================================================
