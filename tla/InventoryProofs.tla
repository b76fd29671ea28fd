------------------------------ MODULE InventoryProofs ------------------------------
(***************************************************************************)
(* Proofs about CopyOnWriteSet and Inventory, for any number of workers,   *)
(* printers and set objects.                                               *)
(***************************************************************************)
EXTENDS Inventory, TLAPS

(* A writer holds the mutex from its first step to its last, and once it  *)
(* has seen unique() or made its copy nobody has a pointer to the current *)
(* set until it is through: readers need the mutex to get one.            *)
CowInv == /\ CowTypeOK
          /\ \A t \in Threads : step[t] # "out" <=> mutex = t
          /\ \A t \in Threads : step[t] = "modify" => unique

(* A printer has a snapshot while it walks, and the request that it is at *)
(* is in the snapshot.                                                    *)
PrintInv == /\ at \in [Threads -> WorkerPlaces \cup PrinterPlaces]
            /\ it \in [Printers -> Workers \cup {None}]
            /\ \A p \in Printers :
                 /\ at[p] \in {"walking", "calling", "printing"} => held[p] # None
                 /\ it[p] # None => /\ at[p] \in {"calling", "printing"}
                                   /\ it[p] \in lists[held[p]]

(* Either a set that somebody walks keeps its elements, or nobody walks   *)
(* it.                                                                    *)
Kept == \A t \in Threads : held[t] # None => lists'[held[t]] = lists[held[t]]

LEMMA CowInvInit == ASSUME CowInit
                    PROVE  CowInv
<1>1. current \in Lists
  BY CowAssumption DEF CowInit
<1>2. \A t \in Threads : None # t
  BY CowAssumption
<1> QED
  BY <1>1, <1>2 DEF CowInit, CowInv, CowTypeOK, Steps

LEMMA CopyKeeps ==
  ASSUME CowInv, NEW t \in Threads, Copy(t)
  PROVE  CowInv' /\ Kept /\ lists'[current'] = lists[current]
<1>1. current' \in Free
  BY DEF Copy
<1>2. /\ current' \in Lists /\ \A u \in Threads : held[u] # current'
      /\ lists' = [lists EXCEPT ![current'] = lists[current]]
      /\ UNCHANGED <<held, mutex>>
      /\ step[t] = "copy" /\ step' = [step EXCEPT ![t] = "modify"]
  BY <1>1 DEF Copy, Free, GoTo
<1>3. CowTypeOK'
  BY <1>2 DEF CowInv, CowTypeOK, Steps
<1>4. \A u \in Threads : step'[u] # "out" <=> mutex' = u
  BY <1>2 DEF CowInv, CowTypeOK
<1>5. unique'
  BY <1>2 DEF unique
<1>6. Kept /\ lists'[current'] = lists[current]
  BY <1>2 DEF Kept, CowInv, CowTypeOK
<1> QED
  BY <1>3, <1>4, <1>5, <1>6 DEF CowInv

LEMMA ModifyKeeps ==
  ASSUME CowInv, NEW t \in Threads, NEW new \in SUBSET Elem, Modify(t, new)
  PROVE  CowInv' /\ Kept /\ lists'[current'] = new
<1>1. /\ step[t] = "modify" /\ step' = [step EXCEPT ![t] = "out"]
      /\ lists' = [lists EXCEPT ![current] = new]
      /\ mutex' = None /\ UNCHANGED <<current, held>>
  BY DEF Modify, GoTo
<1>2. unique /\ mutex = t
  BY <1>1 DEF CowInv
<1>3. CowTypeOK'
  BY <1>1 DEF CowInv, CowTypeOK, Steps
<1>4. \A u \in Threads : step'[u] # "out" <=> mutex' = u
  <2>1. \A u \in Threads \ {t} : step[u] = "out"
    BY <1>2 DEF CowInv
  <2> QED
    BY <1>1, <2>1, CowAssumption DEF CowInv, CowTypeOK
<1>5. \A u \in Threads : step'[u] = "modify" => unique'
  BY <1>1, <1>4, CowAssumption
<1>6. Kept /\ lists'[current'] = new
  BY <1>1, <1>2 DEF Kept, unique, CowInv, CowTypeOK
<1> QED
  BY <1>3, <1>4, <1>5, <1>6 DEF CowInv

LEMMA OtherStepsKeep ==
  ASSUME CowInv, NEW t \in Threads,
         WriterLocks(t) \/ TestUnique(t) \/ getData(t) \/ Release(t)
  PROVE  CowInv' /\ UNCHANGED <<lists, current>>
<1> USE CowAssumption DEF CowInv, CowTypeOK, Steps, unique, GoTo
<1>1. CASE WriterLocks(t)
  BY <1>1 DEF WriterLocks
<1>2. CASE TestUnique(t)
  BY <1>2 DEF TestUnique
<1>3. CASE getData(t)
  BY <1>3 DEF getData
<1>4. CASE Release(t)
  BY <1>4 DEF Release
<1> QED
  BY <1>1, <1>2, <1>3, <1>4

Inv == CowInv /\ PrintInv

LEMMA InvInit == ASSUME Init
                 PROVE  Inv
<1>1. CowInv
  BY CowInvInit DEF Init
<1>2. PrintInv
  <2> USE DEF Init, CowInit
  <2>1. at \in [Threads -> WorkerPlaces \cup PrinterPlaces]
    BY DEF WorkerPlaces, PrinterPlaces
  <2>2. \A p \in Printers : at[p] = "idle"
    BY InventoryAssumption
  <2> QED
    BY <2>1, <2>2 DEF PrintInv
<1> QED
  BY <1>1, <1>2 DEF Inv

(* The steps of workers: those that do not touch the set ...             *)
LEMMA WorkerPrivateStep ==
  ASSUME Inv, NEW w \in Workers,
         EnterRequest(w) \/ LeaveRequest(w) \/ DropRequest(w)
  PROVE  Inv' /\ UNCHANGED cowVars
<1>1. UNCHANGED cowVars
  BY DEF EnterRequest, LeaveRequest, DropRequest
<1>2. CowInv'
  BY <1>1 DEF Inv, CowInv, CowTypeOK, unique, cowVars
<1>3. /\ at' \in [Threads -> WorkerPlaces \cup PrinterPlaces]
      /\ \A t \in Threads \ {w} : at'[t] = at[t]
  BY InventoryAssumption
     DEF Inv, PrintInv, EnterRequest, LeaveRequest, DropRequest, Goes, WorkerPlaces
<1>4. UNCHANGED it /\ \A p \in Printers : p # w /\ p \in Threads
  BY InventoryAssumption DEF EnterRequest, LeaveRequest, DropRequest
<1>5. PrintInv'
  BY <1>1, <1>3, <1>4 DEF Inv, PrintInv, cowVars
<1> QED
  BY <1>1, <1>2, <1>5 DEF Inv

(* ... and those of add() and remove(), which keep what printers walk.    *)
LEMMA WorkerWritesSet ==
  ASSUME Inv, NEW w \in Workers, CowInv', Kept, UNCHANGED <<held, it>>,
         \/ UNCHANGED at
         \/ Goes(w, "process", "added") \/ Goes(w, "cancel", "removed")
  PROVE  Inv'
<1>1. /\ at' \in [Threads -> WorkerPlaces \cup PrinterPlaces]
      /\ \A t \in Threads \ {w} : at'[t] = at[t]
  BY InventoryAssumption DEF Inv, PrintInv, Goes, WorkerPlaces
<1>2. \A p \in Printers : p # w /\ p \in Threads
  BY InventoryAssumption
<1>3. PrintInv'
  BY <1>1, <1>2 DEF Inv, PrintInv, Kept
<1> QED
  BY <1>3 DEF Inv

LEMMA WorkerStepKeepsInv == ASSUME Inv, NEW w \in Workers, WorkerStep(w)
                            PROVE  Inv'
<1>0. w \in Threads /\ w \in Elem /\ CowInv
  BY InventoryAssumption DEF Inv
<1>1. CASE EnterRequest(w) \/ LeaveRequest(w) \/ DropRequest(w)
  BY <1>1, WorkerPrivateStep
<1>2. CASE CallInventory(w)
  <2>1. WriterLocks(w) /\ UNCHANGED <<at, it, held>>
    BY <1>2 DEF CallInventory, WriterLocks
  <2>2. CowInv' /\ Kept
    BY <1>0, <2>1, OtherStepsKeep DEF Kept
  <2> QED
    BY <2>1, <2>2, WorkerWritesSet
<1>3. CASE Prepare(w)
  <2>1. UNCHANGED <<at, it, held>>
    BY <1>3 DEF Prepare, TestUnique, Copy
  <2>2. CowInv' /\ Kept
    <3>1. CASE TestUnique(w)
      BY <1>0, <2>1, <3>1, OtherStepsKeep DEF Kept
    <3>2. CASE Copy(w)
      BY <1>0, <3>2, CopyKeeps
    <3> QED
      BY <1>3, <3>1, <3>2 DEF Prepare
  <2> QED
    BY <2>1, <2>2, WorkerWritesSet
<1>4. CASE add(w) \/ remove(w)
  <2>1. PICK new \in SUBSET Elem : Modify(w, new)
    BY <1>0, <1>4 DEF add, remove, Insert, Erase, CowInv, CowTypeOK
  <2>2. CowInv' /\ Kept
    BY <1>0, <2>1, ModifyKeeps
  <2>3. UNCHANGED <<held, it>>
    BY <1>4, <2>1 DEF add, remove, Modify
  <2>4. Goes(w, "process", "added") \/ Goes(w, "cancel", "removed")
    BY <1>4 DEF add, remove
  <2> QED
    BY <2>2, <2>3, <2>4, WorkerWritesSet
<1> QED
  BY <1>1, <1>2, <1>3, <1>4 DEF WorkerStep

LEMMA PrinterStepKeepsInv == ASSUME Inv, NEW p \in Printers, PrintAll(p) \/ PrintStep(p)
                             PROVE  Inv'
<1>0. /\ p \in Threads /\ p # None /\ Workers \subseteq Threads /\ p \notin Workers
      /\ \A q \in Printers : q \in Threads /\ q # None
  BY InventoryAssumption, CowAssumption
<1>1. CASE PrintAll(p)
  <2>1. /\ getData(p) /\ UNCHANGED <<it, lists>>
        /\ at[p] = "idle" /\ at' = [at EXCEPT ![p] = "walking"]
        /\ held' = [held EXCEPT ![p] = current]
    BY <1>1 DEF PrintAll, Goes, getData
  <2>2. CowInv'
    BY <1>0, <2>1, OtherStepsKeep DEF Inv
  <2>3. current # None
    BY CowAssumption DEF Inv, CowInv, CowTypeOK
  <2>4. PrintInv'
    BY <1>0, <2>1, <2>3 DEF Inv, PrintInv, CowInv, CowTypeOK, PrinterPlaces
  <2> QED
    BY <2>2, <2>4 DEF Inv
<1>2. ASSUME NEW r \in Elem, NextRequest(p, r)
      PROVE  Inv'
  <2>1. /\ UNCHANGED cowVars /\ r \in Workers /\ r \in lists[held[p]]
        /\ at[p] = "walking" /\ at' = [at EXCEPT ![p] = "calling"]
        /\ it' = [it EXCEPT ![p] = r]
    BY <1>2, InventoryAssumption DEF NextRequest, Goes, ToPrint
  <2>2. CowInv'
    BY <2>1 DEF Inv, CowInv, CowTypeOK, unique, cowVars
  <2>3. PrintInv'
    BY <1>0, <2>1 DEF Inv, PrintInv, PrinterPlaces, cowVars
  <2> QED
    BY <2>2, <2>3 DEF Inv
<1>3. CASE PrintBegins(p) \/ PrintEnds(p)
  <2>1. /\ UNCHANGED cowVars
        /\ \/ /\ at[p] = "calling" /\ at' = [at EXCEPT ![p] = "printing"]
              /\ UNCHANGED it
           \/ /\ at[p] = "printing" /\ at' = [at EXCEPT ![p] = "walking"]
              /\ it' = [it EXCEPT ![p] = None]
    BY <1>3 DEF PrintBegins, PrintEnds, Advance, Goes
  <2>2. CowInv'
    BY <2>1 DEF Inv, CowInv, CowTypeOK, unique, cowVars
  <2>3. PrintInv'
    BY <1>0, <2>1 DEF Inv, PrintInv, PrinterPlaces, cowVars
  <2> QED
    BY <2>2, <2>3 DEF Inv
<1>4. CASE PrintAllReturns(p)
  <2>1. /\ Release(p) /\ UNCHANGED <<it, lists>>
        /\ at[p] = "walking" /\ at' = [at EXCEPT ![p] = "idle"]
        /\ held' = [held EXCEPT ![p] = None]
    BY <1>4 DEF PrintAllReturns, Goes, Release
  <2>2. CowInv'
    BY <1>0, <2>1, OtherStepsKeep DEF Inv
  <2>3. PrintInv'
    BY <1>0, <2>1 DEF Inv, PrintInv, CowInv, CowTypeOK, PrinterPlaces
  <2> QED
    BY <2>2, <2>3 DEF Inv
<1> QED
  BY <1>1, <1>2, <1>3, <1>4 DEF PrintStep

LEMMA InvStep == Inv /\ [Next]_vars => Inv'
<1> SUFFICES ASSUME Inv, [Next]_vars
             PROVE  Inv'
  OBVIOUS
<1>1. CASE \E w \in Workers : WorkerStep(w)
  BY <1>1, WorkerStepKeepsInv
<1>2. CASE \E p \in Printers : PrintAll(p) \/ PrintStep(p)
  BY <1>2, PrinterStepKeepsInv
<1>3. CASE UNCHANGED vars
  BY <1>3 DEF vars, cowVars, Inv, CowInv, CowTypeOK, PrintInv, unique
<1> QED
  BY <1>1, <1>2, <1>3 DEF Next

LEMMA Invariance == Spec => []Inv
  BY InvInit, InvStep, PTL DEF Spec

(* printAll() never prints a destroyed request, for any number of         *)
(* requests and printers and any order of their steps                     *)
(* (RequestInventory_test2.cpp:102-113).                                   *)
THEOREM InventoryPrintsTheLiving == Spec => []PrintsTheLiving
<1>1. Inv => PrintsTheLiving
  <2> SUFFICES ASSUME Inv, NEW p \in Printers, it[p] # None
               PROVE  Alive(it[p])
    BY DEF PrintsTheLiving
  <2>1. p \in Threads
    BY InventoryAssumption
  <2>2. held[p] # None /\ it[p] \in lists[held[p]]
    BY DEF Inv, PrintInv
  <2>3. held[p] \in Lists \ Free
    BY <2>1, <2>2 DEF Inv, CowInv, CowTypeOK, Free
  <2> QED
    BY <2>2, <2>3 DEF Alive
<1> QED
  BY <1>1, Invariance, PTL

(* What a step does to the set that the inventory stands for.             *)
LEMMA SetUnchanged ==
  ASSUME UNCHANGED <<lists, current, held>>
  PROVE  UNCHANGED Shared!sharedVars
  BY DEF Shared!sharedVars

LEMMA WriteIsUpdate ==
  ASSUME Inv, NEW w \in Workers, add(w) \/ remove(w)
  PROVE  Shared!Update(w)
<1>1. w \in Threads /\ w \in Elem
  BY InventoryAssumption
<1>2. PICK new \in SUBSET Elem : /\ Modify(w, new)
                                 /\ new \in {lists[current] \cup {w}, lists[current] \ {w}}
  BY <1>1 DEF add, remove, Insert, Erase, Inv, CowInv, CowTypeOK
<1>3. Kept /\ lists'[current'] = new /\ UNCHANGED held
  BY <1>1, <1>2, ModifyKeeps DEF Inv, Modify
<1> QED
  BY <1>2, <1>3 DEF Shared!Update, Kept

LEMMA CopyIsInvisible ==
  ASSUME Inv, NEW w \in Workers, Copy(w)
  PROVE  UNCHANGED Shared!sharedVars
<1>1. w \in Threads
  BY InventoryAssumption
<1>2. Kept /\ lists'[current'] = lists[current] /\ UNCHANGED held
  BY <1>1, CopyKeeps DEF Inv, Copy
<1> QED
  BY <1>2 DEF Shared!sharedVars, Kept

LEMMA ReaderSteps ==
  ASSUME Inv, NEW p \in Printers
  PROVE  /\ getData(p) => Shared!ReadBegins(p)
         /\ Release(p) => Shared!ReadEnds(p)
<1>1. p \in Threads
  BY InventoryAssumption
<1>2. current # None
  BY CowAssumption DEF Inv, CowInv, CowTypeOK
<1>3. ASSUME getData(p) PROVE Shared!ReadBegins(p)
  BY <1>1, <1>2, <1>3 DEF getData, Shared!ReadBegins, Inv, CowInv, CowTypeOK
<1>4. ASSUME Release(p) PROVE Shared!ReadEnds(p)
  BY <1>1, <1>4 DEF Release, Shared!ReadEnds, Inv, CowInv, CowTypeOK
<1> QED
  BY <1>3, <1>4

LEMMA StepRefines == Inv /\ [Next]_vars => [Shared!SharedNext]_(Shared!sharedVars)
<1> SUFFICES ASSUME Inv, [Next]_vars
             PROVE  Shared!SharedNext \/ UNCHANGED Shared!sharedVars
  OBVIOUS
<1>1. ASSUME NEW w \in Workers, WorkerStep(w)
      PROVE  Shared!SharedNext \/ UNCHANGED Shared!sharedVars
  <2>1. CASE EnterRequest(w) \/ LeaveRequest(w) \/ DropRequest(w)
    BY <2>1, SetUnchanged DEF EnterRequest, LeaveRequest, DropRequest, cowVars
  <2>2. CASE CallInventory(w)
    BY <2>2, SetUnchanged DEF CallInventory, WriterLocks
  <2>3. CASE Prepare(w)
    BY <2>3, SetUnchanged, CopyIsInvisible DEF Prepare, TestUnique
  <2>4. CASE add(w) \/ remove(w)
    BY <2>4, WriteIsUpdate, InventoryAssumption DEF Shared!SharedNext
  <2> QED
    BY <1>1, <2>1, <2>2, <2>3, <2>4 DEF WorkerStep
<1>2. ASSUME NEW p \in Printers, PrintAll(p) \/ PrintStep(p)
      PROVE  Shared!SharedNext \/ UNCHANGED Shared!sharedVars
  <2>1. p \in Threads
    BY InventoryAssumption
  <2>2. CASE PrintAll(p)
    BY <2>1, <2>2, ReaderSteps DEF PrintAll, Shared!SharedNext
  <2>3. CASE (\E r \in Elem : NextRequest(p, r)) \/ PrintBegins(p) \/ PrintEnds(p)
    BY <2>3, SetUnchanged DEF NextRequest, PrintBegins, PrintEnds, cowVars
  <2>4. CASE PrintAllReturns(p)
    BY <2>1, <2>4, ReaderSteps DEF PrintAllReturns, Shared!SharedNext
  <2> QED
    BY <1>2, <2>2, <2>3, <2>4 DEF PrintStep
<1>3. CASE UNCHANGED vars
  BY <1>3, SetUnchanged DEF vars, cowVars
<1> QED
  BY <1>1, <1>2, <1>3 DEF Next

(* Copy-on-write implements a set whose readers work on the value of one *)
(* moment, for any number of threads (RequestInventory_test2.cpp:19-53,  *)
(* server_threaded_efficient.cpp:41-84).                                 *)
THEOREM InventoryIsSharedSet == Spec => ImplementsSharedSet
<1>1. Init => Shared!SharedInit
  BY CowAssumption DEF Init, CowInit, Shared!SharedInit
<1> QED
  BY <1>1, StepRefines, Invariance, PTL
     DEF Spec, ImplementsSharedSet, Shared!SharedSpec
================================================================================
