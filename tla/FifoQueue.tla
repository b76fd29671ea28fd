------------------------------- MODULE FifoQueue -------------------------------
(***************************************************************************)
(* What a blocking queue promises, without locks or condition variables:   *)
(* threads call, a called operation takes effect in one step when the      *)
(* queue allows it, the queue is first-in first-out, and an operation the  *)
(* queue allows does take effect (some put completes while there is room   *)
(* and a put is called; some take completes while there is an element and  *)
(* a take is called).                                                      *)
(***************************************************************************)
EXTENDS Naturals, Sequences

CONSTANTS Producers, Consumers, Drainers, Item, Capacity

VARIABLES items,   \* the elements, oldest first
          called   \* the threads inside put(), take() or drain()

fifoVars == <<items, called>>

FifoInit == items = <<>> /\ called = {}

FifoCall(t) == /\ t \notin called
               /\ called' = called \cup {t}
               /\ UNCHANGED items

FifoPut(p) == /\ p \in called
              /\ Len(items) < Capacity
              /\ \E x \in Item : items' = Append(items, x)
              /\ called' = called \ {p}

FifoTake(c) == /\ c \in called
               /\ items # <<>>
               /\ items' = Tail(items)
               /\ called' = called \ {c}

FifoDrain(d) == /\ d \in called
                /\ items' = <<>>
                /\ called' = called \ {d}

FifoNext == \/ \E t \in Producers \cup Consumers \cup Drainers : FifoCall(t)
            \/ \E p \in Producers : FifoPut(p)
            \/ \E c \in Consumers : FifoTake(c)
            \/ \E d \in Drainers  : FifoDrain(d)

FifoSafety == FifoInit /\ [][FifoNext]_fifoVars

FifoFairness == /\ WF_fifoVars(\E p \in Producers : FifoPut(p))
                /\ WF_fifoVars(\E c \in Consumers : FifoTake(c))
                /\ WF_fifoVars(\E d \in Drainers  : FifoDrain(d))

FifoSpec == FifoSafety /\ FifoFairness
================================================================================
