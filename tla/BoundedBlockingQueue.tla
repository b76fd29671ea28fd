-------------------------- MODULE BoundedBlockingQueue --------------------------
(***************************************************************************)
(* muduo::BoundedBlockingQueue (muduo/base/BoundedBlockingQueue.h): a ring *)
(* buffer behind one mutex and two conditions.  Between two waits each     *)
(* operation holds mutex_, so what it does there is one step; a thread is  *)
(* "entering" whenever it is about to test the condition of its while      *)
(* loop, on the way into the operation or on the way out of wait().        *)
(* MutexCondition has the steps inside lock, unlock and wait.              *)
(***************************************************************************)
EXTENDS Naturals, Sequences, FiniteSets

CONSTANTS Producers, Consumers,  \* the threads that call put(), take()
          Item,
          Capacity               \* the constructor's maxsize

ASSUME QueueAssumption == /\ IsFiniteSet(Producers)
                          /\ IsFiniteSet(Consumers)
                          /\ Producers \cap Consumers = {}
                          /\ Capacity \in Nat \ {0}

VARIABLES queue,  \* queue_
          pc      \* where each thread is

vars == <<queue, pc>>

Threads == Producers \cup Consumers
Places  == {"idle", "entering", "waiting"}

At(S, place) == {t \in S : pc[t] = place}

Full == Len(queue) = Capacity

Init == /\ queue = <<>>
        /\ pc = [t \in Threads |-> "idle"]

Call(t) == /\ pc[t] = "idle"
           /\ pc' = [pc EXCEPT ![t] = "entering"]
           /\ UNCHANGED queue

(* t returns, and pthread_cond_signal wakes one of the waiting threads   *)
(* of S, if there is one.                                                *)
ReturnNotifying(t, S) ==
  LET left == [pc EXCEPT ![t] = "idle"] IN
  pc' \in IF At(S, "waiting") = {} THEN {left}
          ELSE {[left EXCEPT ![w] = "entering"] : w \in At(S, "waiting")}

Wait(t) == /\ pc[t] = "entering"
           /\ pc' = [pc EXCEPT ![t] = "waiting"]
           /\ UNCHANGED queue

PutWait(p) == Full /\ Wait(p)

(* Two defects put() must not have: no notify, and no test for full.     *)
PutSilent(p) == /\ pc[p] = "entering"
                /\ ~Full
                /\ \E x \in Item : queue' = Append(queue, x)
                /\ pc' = [pc EXCEPT ![p] = "idle"]

PutOverfull(p) == /\ pc[p] = "entering"
                  /\ \E x \in Item : queue' = Append(queue, x)
                  /\ ReturnNotifying(p, Consumers)

Put(p) == /\ pc[p] = "entering"
          /\ ~Full
          /\ \E x \in Item : queue' = Append(queue, x)
          /\ ReturnNotifying(p, Consumers)

TakeWait(c) == queue = <<>> /\ Wait(c)

(* Two defects take() must not have: no notify, and the newest element   *)
(* taken first.                                                          *)
TakeSilent(c) == /\ pc[c] = "entering"
                 /\ queue # <<>>
                 /\ queue' = Tail(queue)
                 /\ pc' = [pc EXCEPT ![c] = "idle"]

TakeNewest(c) == /\ pc[c] = "entering"
                 /\ queue # <<>>
                 /\ queue' = SubSeq(queue, 1, Len(queue) - 1)
                 /\ ReturnNotifying(c, Producers)

Take(c) == /\ pc[c] = "entering"
           /\ queue # <<>>
           /\ queue' = Tail(queue)
           /\ ReturnNotifying(c, Producers)

(* pthread_cond_wait may return without a signal. *)
SpuriousWakeup(t) == /\ pc[t] = "waiting"
                     /\ pc' = [pc EXCEPT ![t] = "entering"]
                     /\ UNCHANGED queue

Next == \/ \E t \in Threads : Call(t) \/ SpuriousWakeup(t)
        \/ \E p \in Producers : PutWait(p) \/ Put(p)
        \/ \E c \in Consumers : TakeWait(c) \/ Take(c)

(* A thread that is about to test its condition gets the mutex in the    *)
(* end.  Nobody has to call an operation, and no spurious wakeup has to  *)
(* come.                                                                 *)
Fairness == /\ \A p \in Producers : WF_vars(PutWait(p) \/ Put(p))
            /\ \A c \in Consumers : WF_vars(TakeWait(c) \/ Take(c))

Spec == Init /\ [][Next]_vars /\ Fairness

--------------------------------------------------------------------------------
(* The types of the variables; push_back on a full circular_buffer would *)
(* overwrite the oldest element without a word, so the bound is part of  *)
(* the type (BoundedBlockingQueue.h:21-39, 79).                          *)
TypeOK == /\ queue \in Seq(Item)
          /\ Len(queue) <= Capacity
          /\ pc \in [Threads -> Places]

(* No lost wakeup: while a consumer sleeps, every element of the queue   *)
(* has a consumer on its way to it, so a notify() for each put is enough *)
(* (BoundedBlockingQueue.h:28, 43-45).                                   *)
ConsumersNotStranded ==
  At(Consumers, "waiting") # {} =>
    Len(queue) <= Cardinality(At(Consumers, "entering"))

(* While a producer sleeps, every free slot has a producer on its way to *)
(* it (BoundedBlockingQueue.h:23-25, 49).                                *)
ProducersNotStranded ==
  At(Producers, "waiting") # {} =>
    Capacity - Len(queue) <= Cardinality(At(Producers, "entering"))

Fifo == INSTANCE FifoQueue WITH Drainers <- {},
                                items <- queue,
                                called <- {t \in Threads : pc[t] # "idle"}

(* Mutex, conditions and while loops together are a bounded first-in     *)
(* first-out queue in which a put that has room and a take that has an   *)
(* element complete.                                                     *)
ImplementsFifo == Fifo!FifoSpec
================================================================================
