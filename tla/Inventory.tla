-------------------------------- MODULE Inventory --------------------------------
(***************************************************************************)
(* source/ch02/RequestInventory_test2.cpp: requests put themselves into a  *)
(* shared inventory, and printAll() walks it and prints every request.     *)
(* add() and remove() run with the request's mutex held, print() takes the *)
(* request's mutex: the two orders do not deadlock because printAll()      *)
(* walks a snapshot with the inventory's mutex released, and the snapshot  *)
(* is made of shared_ptrs, so that a request is not destroyed under it.    *)
(* (MutualDeadLock.cpp and RequestInventory_test.cpp show what happens     *)
(* otherwise.)  Each worker makes a request, processes it, cancels it and  *)
(* drops it.                                                               *)
(***************************************************************************)
EXTENDS CopyOnWriteSet

CONSTANTS Workers, Printers

ASSUME InventoryAssumption == /\ Threads = Workers \cup Printers
                              /\ Workers \cap Printers = {}
                              /\ Elem = Workers  \* a request by its worker

VARIABLES at,        \* where each thread is
          reqMutex,  \* who holds mutex_ of each request, or None
          it,        \* the request that each printer is printing, or None
          printed    \* what each printer has printed of its snapshot

vars == <<cowVars, at, reqMutex, it, printed>>

WorkerPlaces  == {"made", "process", "added", "processed",
                  "cancel", "removed", "cancelled", "dropped"}
PrinterPlaces == {"idle", "walking", "calling", "printing"}

Init == /\ CowInit
        /\ at = [t \in Threads |-> IF t \in Workers THEN "made" ELSE "idle"]
        /\ reqMutex = [r \in Workers |-> None]
        /\ it = [p \in Printers |-> None]
        /\ printed = [p \in Printers |-> {}]

Goes(t, from, to) == /\ at[t] = from
                     /\ at' = [at EXCEPT ![t] = to]

LockRequest(t, r)   == reqMutex[r] = None /\ reqMutex' = [reqMutex EXCEPT ![r] = t]
UnlockRequest(t, r) == reqMutex[r] = t /\ reqMutex' = [reqMutex EXCEPT ![r] = None]

(* Request::process() and Request::cancel(). *)
EnterRequest(w) == /\ \/ Goes(w, "made", "process")
                      \/ Goes(w, "processed", "cancel")
                   /\ LockRequest(w, w)
                   /\ UNCHANGED <<cowVars, it, printed>>

CallInventory(w) == /\ at[w] \in {"process", "cancel"}
                    /\ WriterLocks(w)
                    /\ UNCHANGED <<at, reqMutex, it, printed>>

Prepare(w) == /\ TestUnique(w) \/ Copy(w)
              /\ UNCHANGED <<at, reqMutex, it, printed>>

add(w) == /\ Goes(w, "process", "added")
          /\ Insert(w, w)
          /\ UNCHANGED <<reqMutex, it, printed>>

remove(w) == /\ Goes(w, "cancel", "removed")
             /\ Erase(w, w)
             /\ UNCHANGED <<reqMutex, it, printed>>

LeaveRequest(w) == /\ \/ Goes(w, "added", "processed")
                      \/ Goes(w, "removed", "cancelled")
                   /\ UnlockRequest(w, w)
                   /\ UNCHANGED <<cowVars, it, printed>>

(* The worker's RequestPtr goes out of scope. *)
DropRequest(w) == /\ Goes(w, "cancelled", "dropped")
                  /\ UNCHANGED <<cowVars, reqMutex, it, printed>>

(* Inventory::printAll(): the snapshot, then each request of it.         *)
PrintAll(p) == /\ Goes(p, "idle", "walking")
               /\ getData(p)
               /\ UNCHANGED <<reqMutex, it, printed>>

ToPrint(p) == lists[held[p]] \ printed[p]

(* The order of the walk is that of the addresses, so any.               *)
NextRequest(p, r) == /\ Goes(p, "walking", "calling")
                     /\ r \in ToPrint(p)
                     /\ it' = [it EXCEPT ![p] = r]
                     /\ UNCHANGED <<cowVars, reqMutex, printed>>

(* print(): it may have to wait for the request's mutex.                 *)
PrintBegins(p) == /\ Goes(p, "calling", "printing")
                  /\ LockRequest(p, it[p])
                  /\ UNCHANGED <<cowVars, it, printed>>

Advance(p) == /\ Goes(p, "printing", "walking")
              /\ it' = [it EXCEPT ![p] = None]
              /\ printed' = [printed EXCEPT ![p] = @ \cup {it[p]}]

(* Defect: the request's mutex is not released.                          *)
PrintEndsLocked(p) == Advance(p) /\ UNCHANGED <<cowVars, reqMutex>>

PrintEnds(p) == /\ Advance(p)
                /\ UnlockRequest(p, it[p])
                /\ UNCHANGED cowVars

PrintAllReturns(p) == /\ Goes(p, "walking", "idle")
                      /\ ToPrint(p) = {}
                      /\ Release(p)
                      /\ printed' = [printed EXCEPT ![p] = {}]
                      /\ UNCHANGED <<reqMutex, it>>

WorkerStep(w) == \/ EnterRequest(w) \/ CallInventory(w) \/ Prepare(w)
                 \/ add(w) \/ remove(w) \/ LeaveRequest(w) \/ DropRequest(w)

PrintStep(p) == \/ \E r \in Elem : NextRequest(p, r)
                \/ PrintBegins(p) \/ PrintEnds(p)
                \/ PrintAllReturns(p)

Next == \/ \E w \in Workers : WorkerStep(w)
        \/ \E p \in Printers : PrintAll(p) \/ PrintStep(p)

(* Every thread runs, and gets a mutex that is free again and again.     *)
(* Nobody has to call printAll().                                        *)
Fairness == /\ \A w \in Workers : SF_vars(WorkerStep(w))
            /\ \A p \in Printers : SF_vars(PrintStep(p))

Spec == Init /\ [][Next]_vars /\ Fairness

--------------------------------------------------------------------------------
(* A request lives as long as its worker or some set object points to it. *)
Alive(r) == \/ at[r] # "dropped"
            \/ \E l \in Lists \ Free : r \in lists[l]

(* printAll() never prints a request that has been destroyed, nor waits  *)
(* for its mutex: the snapshot keeps it alive when its worker cancels and *)
(* drops it meanwhile (RequestInventory_test2.cpp:102-113, the point of   *)
(* its shared_ptrs).                                                      *)
PrintsTheLiving == \A p \in Printers : it[p] # None => Alive(it[p])

(* The two orders of locking do not deadlock: every worker gets through   *)
(* process() and cancel(), and every printAll() returns                   *)
(* (RequestInventory_test2.cpp:74-95, 102-113).                           *)
EverybodyReturns ==
  /\ \A w \in Workers : <>(at[w] = "dropped")
  /\ \A p \in Printers : at[p] = "walking" ~> at[p] = "idle"
================================================================================
