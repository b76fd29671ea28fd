--------------------------- MODULE MCSharedObjects --------------------------
(***************************************************************************)
(* Objects of ch01 and ch02 that several threads share, one program at a   *)
(* time: the stock factories, the observers, and the copied data.          *)
(***************************************************************************)
EXTENDS StockFactory

CONSTANTS Observer, Lists, Customer, Entries

ASSUME SharedAssumption == None \notin Threads \cup Observer \cup Lists /\ Lists # {}

VARIABLES program,
          observers, subject, life, it, obj, there, due, updated, unsafe, wild,
          lists, current, reads, mutex, step, intent, newData, value, seen

observerVars == <<observers, subject, life, it, obj, there, due, updated, unsafe, wild>>
customerVars == <<lists, current, reads, mutex, step, intent, newData, value, seen>>

Observers == INSTANCE Observer WITH NoObserver <- None

Customers == INSTANCE CustomerData WITH Elem <- Customer \X Entries, held <- reads

MCInit ==
  /\ Init /\ Observers!Init /\ Customers!Init
  /\ program \in {"StockFactory"} \cup Observers!Programs \cup Customers!Programs
  /\ program # "StockFactory" => version = 1

MCNext ==
  \/ program = "StockFactory" /\ Next /\ UNCHANGED <<program, observerVars, customerVars>>
  \/ program \in Observers!Programs /\ Observers!Next /\ UNCHANGED <<vars, customerVars>>
  \/ program \in Customers!Programs /\ Customers!Next /\ UNCHANGED <<vars, observerVars>>

MCSpec == MCInit /\ [][MCNext]_<<program, vars, observerVars, customerVars>>

\* See the modules.
ObserversAlive == program \in Observers!Programs => Observers!ObserversAlive
SnapshotsKept  == program \in Customers!Programs => Customers!SnapshotsKept
=============================================================================
