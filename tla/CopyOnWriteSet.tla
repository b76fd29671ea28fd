----------------------------- MODULE CopyOnWriteSet -----------------------------
(***************************************************************************)
(* The copy-on-write scheme of source/ch02 (RequestInventory_test2.cpp)    *)
(* and of the chat server source/ch07/chat/server_threaded_efficient.cpp:  *)
(* a set behind a shared_ptr behind a mutex.  A reader copies the pointer  *)
(* under the mutex and walks the set without it.  A writer holds the mutex *)
(* all along and looks at unique(): if nobody else has the pointer it      *)
(* modifies the set in place, otherwise it first makes a copy and lets the *)
(* pointer point to that.  A reader drops its pointer without the mutex,   *)
(* at any time.                                                            *)
(***************************************************************************)
CONSTANTS Threads,  \* the threads that read or write
          Elem,     \* the elements of the set
          Lists,    \* the set objects; one without a pointer to it is freed
          None

ASSUME CowAssumption == None \notin Threads \cup Lists /\ Lists # {}

VARIABLES lists,    \* what is in each set object
          current,  \* the object that requests_ points to
          held,     \* the object that each reader has a pointer to, or None
          mutex,    \* the thread that holds mutex_ of the inventory, or None
          step      \* where each thread is in add() or remove()

cowVars == <<lists, current, held, mutex, step>>

Steps == {"out", "test", "copy", "modify"}

unique   == \A t \in Threads : held[t] # current
Free     == {l \in Lists : l # current /\ \A t \in Threads : held[t] # l}

CowInit == /\ lists = [l \in Lists |-> {}]
           /\ current = CHOOSE l \in Lists : TRUE
           /\ held = [t \in Threads |-> None]
           /\ mutex = None
           /\ step = [t \in Threads |-> "out"]

GoTo(t, from, to) == /\ step[t] = from
                     /\ step' = [step EXCEPT ![t] = to]

(* The head of add() and remove(): MutexLockGuard, and the test of        *)
(* unique().                                                              *)
WriterLocks(t) == /\ mutex = None
                  /\ mutex' = t
                  /\ GoTo(t, "out", "test")
                  /\ UNCHANGED <<lists, current, held>>

(* Defect: the set is always modified in place. *)
NeverCopy(t) == /\ GoTo(t, "test", "modify")
                /\ UNCHANGED <<lists, current, held, mutex>>

TestUnique(t) == /\ GoTo(t, "test", IF unique THEN "modify" ELSE "copy")
                 /\ UNCHANGED <<lists, current, held, mutex>>

(* requests_.reset() with a new RequestList that is a copy of the old one; *)
(* which object it is makes no difference.                                 *)
Copy(t) == /\ GoTo(t, "copy", "modify")
           /\ Free # {}
           /\ current' = CHOOSE l \in Free : TRUE
           /\ lists' = [lists EXCEPT ![current'] = lists[current]]
           /\ UNCHANGED <<held, mutex>>

(* insert() or erase(), and ~MutexLockGuard. *)
Modify(t, new) == /\ GoTo(t, "modify", "out")
                  /\ lists' = [lists EXCEPT ![current] = new]
                  /\ mutex' = None
                  /\ UNCHANGED <<current, held>>

Insert(t, x) == Modify(t, lists[current] \cup {x})
Erase(t, x)  == Modify(t, lists[current] \ {x})

(* getData(): the pointer is copied under the mutex.  Defect: without it. *)
getDataUnlocked(t) == /\ held[t] = None
                      /\ held' = [held EXCEPT ![t] = current]
                      /\ UNCHANGED <<lists, current, mutex, step>>

getData(t) == /\ mutex = None
              /\ held[t] = None
              /\ held' = [held EXCEPT ![t] = current]
              /\ UNCHANGED <<lists, current, mutex, step>>

(* The reader's pointer goes out of scope. *)
Release(t) == /\ held[t] # None
              /\ held' = [held EXCEPT ![t] = None]
              /\ UNCHANGED <<lists, current, mutex, step>>

--------------------------------------------------------------------------------
CowTypeOK == /\ lists \in [Lists -> SUBSET Elem]
             /\ current \in Lists
             /\ held \in [Threads -> Lists \cup {None}]
             /\ mutex \in Threads \cup {None}
             /\ step \in [Threads -> Steps]

Shared == INSTANCE SharedSet WITH
            value <- lists[current],
            seen  <- [t \in Threads |-> IF held[t] = None THEN None ELSE lists[held[t]]]

(* Copy-on-write is a shared set whose readers each work on the value of *)
(* one moment: no insert() or erase() ever touches a set that somebody    *)
(* walks, although unique() is read while readers come and go, and the   *)
(* copies lose no update (RequestInventory_test2.cpp:19-41, 49-53; the   *)
(* asserts of lines 27 and 39).                                          *)
ImplementsSharedSet == Shared!SharedSpec
================================================================================
