---------------------------- MODULE CustomerData ----------------------------
(***************************************************************************)
(* Two more users of the copy-on-write scheme of source/ch02.  The map of  *)
(* Customer.cpp is queried, updated in one entry, and replaced as a whole  *)
(* by one that was parsed outside the lock; a map is the set of its pairs. *)
(* In CopyOnWrite_test.cpp a thread that walks the list posts to it.       *)
(***************************************************************************)
EXTENDS CopyOnWriteSet

CONSTANTS Customer, Entries

VARIABLES program,
          intent,   \* the pair that each writer is to put
          newData,  \* whether what a thread holds is a map that it has parsed
          value,    \* history: the data, had they never been copied
          seen      \* history: what they were when each reader took the pointer

vars == <<program, cowVars, intent, newData, value, seen>>

Programs == {"Customer", "CopyOnWrite_test"}
Pairs == Customer \X Entries
Maps == {m \in SUBSET Pairs : \A p, q \in m : p[1] = q[1] => p = q}

Init ==
  /\ CowInit
  /\ intent = [t \in Threads |-> None]
  /\ newData = [t \in Threads |-> FALSE]
  /\ value = {}
  /\ seen = [t \in Threads |-> {}]

\* query() and traverse(): the pointer is taken, used at any time, dropped.
Read(t) ==
  /\ step[t] = "out" /\ getData(t)
  /\ seen' = [seen EXCEPT ![t] = value]
  /\ UNCHANGED <<intent, newData, value>>

ReadEnds(t) ==
  /\ step[t] = "out" /\ Release(t)
  /\ newData' = [newData EXCEPT ![t] = FALSE]
  /\ seen' = [seen EXCEPT ![t] = {}]
  /\ UNCHANGED <<intent, value>>

\* update(customer, entries), and post(), which may be called by a walk.
Call(t, p) ==
  /\ held[t] = None \/ program = "CopyOnWrite_test"
  /\ WriterLocks(t)
  /\ intent' = [intent EXCEPT ![t] = p]
  /\ UNCHANGED <<newData, value, seen>>

Prepare(t) ==
  /\ TestUnique(t) \/ Copy(t)
  /\ UNCHANGED <<intent, newData, value, seen>>

Put(map, p) ==
  (IF program = "Customer" THEN {q \in map : q[1] # p[1]} ELSE map) \cup {p}

Write(t) ==
  /\ Modify(t, Put(lists[current], intent[t]))
  /\ value' = Put(value, intent[t])
  /\ intent' = [intent EXCEPT ![t] = None]
  /\ UNCHANGED <<newData, seen>>

\* update(message): the new map is parsed, swapped in, and the old one dropped
\* when the lock is released (by ReadEnds).
parseData(t, map) ==
  /\ program = "Customer" /\ step[t] = "out" /\ held[t] = None
  /\ Free # {}
  /\ held' = [held EXCEPT ![t] = CHOOSE l \in Free : TRUE]
  /\ lists' = [lists EXCEPT ![held'[t]] = map]
  /\ newData' = [newData EXCEPT ![t] = TRUE]
  /\ seen' = [seen EXCEPT ![t] = map]
  /\ UNCHANGED <<current, mutex, step, intent, value>>

\* A defect: the data are assigned, not the pointer.
AssignData(t) ==
  /\ newData[t] /\ mutex = None
  /\ lists' = [lists EXCEPT ![current] = lists[held[t]]]
  /\ value' = lists[held[t]]
  /\ newData' = [newData EXCEPT ![t] = FALSE]
  /\ UNCHANGED <<current, held, mutex, step, intent, seen>>

Swap(t) ==
  /\ newData[t] /\ mutex = None
  /\ current' = held[t]
  /\ held' = [held EXCEPT ![t] = current]
  /\ value' = lists[held[t]]
  /\ seen' = [seen EXCEPT ![t] = lists[current]]
  /\ newData' = [newData EXCEPT ![t] = FALSE]
  /\ UNCHANGED <<lists, mutex, step, intent>>

Next ==
  /\ \E t \in Threads :
       \/ Read(t) \/ ReadEnds(t)
       \/ \E p \in Pairs : Call(t, p)
       \/ Prepare(t) \/ Write(t)
       \/ \E m \in Maps : parseData(t, m)
       \/ Swap(t)
  /\ UNCHANGED program

----------------------------------------------------------------------------
\* A query and a walk have the data of one moment to the end, whatever is
\* updated or swapped in meanwhile, by themselves included, and no update is
\* lost to a copy (Customer.cpp:42-80, CopyOnWrite_test.cpp:20-49).
SnapshotsKept ==
  /\ lists[current] = value
  /\ \A t \in Threads : held[t] # None => lists[held[t]] = seen[t]
=============================================================================
