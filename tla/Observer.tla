------------------------------ MODULE Observer ------------------------------
(***************************************************************************)
(* Observer.cpp and Observer_safe.cpp of source/ch01: a subject that calls *)
(* update() of its observers, while their owners make and destroy them in  *)
(* other threads.  The first keeps raw pointers, which ~Observer takes     *)
(* out; the safe one keeps weak pointers, which it erases when they have   *)
(* expired, under a mutex that register_() does not take.                  *)
(*                                                                         *)
(* One thread at a time is in notifyObservers().  What two threads do to   *)
(* the vector at once is a data race, and undefined: push_back may move    *)
(* the elements while the other thread has an iterator.  The history       *)
(* `unsafe' says that it has happened; from then on a walk may also stray. *)
(***************************************************************************)
EXTENDS Naturals, Sequences, SequencesExt

CONSTANTS Observer,
          NoObserver

VARIABLES program,     \* "Observer" or "Observer_safe"
          observers,   \* observers_
          subject,     \* whether the Observable lives
          life,        \* of each observer
          it,          \* where notifyObservers() is in the vector, or 0
          obj,         \* the observer that it is about to update
          there,       \* history: who was in the vector when it began,
          due,         \* and who of these lived
          updated,     \* history: whom it has updated
          unsafe,      \* history: no lock or order protects what was done
          wild         \* history: an object that is gone was called

notify == <<it, obj, there, due, updated>>
vars == <<program, observers, subject, life, notify, unsafe, wild>>

Safe == program = "Observer_safe"
Programs == {"Observer", "Observer_safe"}

Init ==
  /\ observers = <<>> /\ subject = TRUE
  /\ life = [o \in Observer |-> "new"]
  /\ it = 0 /\ obj = NoObserver /\ there = {} /\ due = {} /\ updated = <<>>
  /\ unsafe = FALSE /\ wild = FALSE

Notifying == it > 0

\* Somebody is in register_() or on the way into unregister(), without a lock.
Changing == \E o \in Observer : life[o] \in {"joining", "dying"}

\* Observer::observe, up to its call of register_() ...
observe(o) ==
  /\ life[o] = "new" /\ subject
  /\ life' = [life EXCEPT ![o] = "joining"]
  /\ unsafe' = (unsafe \/ Notifying \/ Changing)
  /\ UNCHANGED <<observers, subject, notify, wild>>

\* ... which ends with the observer in the vector.
register_(o) ==
  /\ life[o] = "joining"
  /\ life' = [life EXCEPT ![o] = "alive"]
  /\ observers' = IF subject THEN Append(observers, o) ELSE observers
  /\ wild' = (wild \/ ~subject)
  /\ UNCHANGED <<subject, notify, unsafe>>

\* ~Observer begins: from now on there is no update() to call.
Destroy(o) ==
  /\ ~Safe /\ life[o] = "alive"
  /\ life' = [life EXCEPT ![o] = "dying"]
  /\ unsafe' = (unsafe \/ Notifying \/ Changing \/ ~subject)
  /\ UNCHANGED <<observers, subject, notify, wild>>

SwapPop(seq, i) == Front([seq EXCEPT ![i] = Last(seq)])

unregister(o) ==
  /\ life[o] = "dying"
  /\ life' = [life EXCEPT ![o] = "dead"]
  /\ observers' = IF subject /\ o \in ToSet(observers)
                  THEN SwapPop(observers, SelectInSeq(observers, LAMBDA x : x = o)) ELSE observers
  /\ wild' = (wild \/ ~subject)
  /\ UNCHANGED <<subject, notify, unsafe>>

\* The owner's shared_ptr goes, and the object with it unless it is locked.
Drop(o) ==
  /\ Safe /\ life[o] = "alive"
  /\ life' = [life EXCEPT ![o] = IF obj = o THEN "locked" ELSE "dead"]
  /\ UNCHANGED <<observers, subject, notify, unsafe, wild>>

DestroySubject ==
  /\ subject /\ ~Notifying
  /\ subject' = FALSE
  /\ unsafe' = (unsafe \/ Changing)
  /\ UNCHANGED <<observers, life, notify, wild>>

notifyObservers ==
  /\ subject /\ ~Notifying
  /\ it' = 1
  /\ there' = ToSet(observers)
  /\ due' = {o \in ToSet(observers) : life[o] = "alive"}
  /\ updated' = <<>>
  /\ unsafe' = (unsafe \/ Changing)
  /\ UNCHANGED <<observers, subject, life, obj, wild>>

AtElement == Notifying /\ obj = NoObserver /\ it <= Len(observers)

Take ==
  /\ AtElement
  /\ Safe => life[observers[it]] = "alive"
  /\ obj' = observers[it]
  /\ UNCHANGED <<observers, subject, life, it, there, due, updated, unsafe, wild>>

\* A defect: the element that has moved here is passed over.
EraseAndAdvance ==
  /\ AtElement /\ Safe /\ life[observers[it]] # "alive"
  /\ observers' = RemoveAt(observers, it)
  /\ it' = it + 1
  /\ UNCHANGED <<subject, life, obj, there, due, updated, unsafe, wild>>

EraseExpired ==
  /\ AtElement /\ Safe /\ life[observers[it]] # "alive"
  /\ observers' = RemoveAt(observers, it)
  /\ UNCHANGED <<subject, life, notify, unsafe, wild>>

\* update(), and, in the safe one, the end of the shared_ptr obj.
Update ==
  /\ Notifying /\ obj # NoObserver
  /\ updated' = Append(updated, obj)
  /\ wild' = (wild \/ life[obj] \in {"dying", "dead"})
  /\ life' = IF life[obj] = "locked" THEN [life EXCEPT ![obj] = "dead"] ELSE life
  /\ obj' = NoObserver
  /\ it' = it + 1
  /\ UNCHANGED <<observers, subject, there, due, unsafe>>

\* In a vector that two threads have been at, `it' may point to anything.
Stray ==
  /\ Notifying /\ obj = NoObserver /\ unsafe
  /\ wild' = TRUE
  /\ UNCHANGED <<observers, subject, life, notify, unsafe>>

NotifyReturns ==
  /\ Notifying /\ obj = NoObserver /\ it > Len(observers)
  /\ it' = 0
  /\ UNCHANGED <<observers, subject, life, obj, there, due, updated, unsafe, wild>>

Next ==
  /\ \/ \E o \in Observer : observe(o) \/ register_(o) \/ Destroy(o) \/ unregister(o) \/ Drop(o)
     \/ DestroySubject
     \/ notifyObservers \/ Take \/ EraseExpired \/ Update \/ Stray \/ NotifyReturns
  /\ UNCHANGED program

----------------------------------------------------------------------------
\* An observer or a subject that is gone is called only after a step that no
\* lock or order keeps apart from another's: for the safe subject, whose
\* observers may be dropped by their owners at any time, nothing else than a
\* register_() that overlaps a walk, another one or the subject's end; for the
\* other one also an observer destroyed meanwhile or after it.  Up to there, one
\* call updates everybody who was there and still is, once, and with weak
\* pointers leaves none that had expired before, whatever it erases on its way
\* (Observer.cpp:26-65, Observer_safe.cpp:29-49, 68-71).
ObserversAlive ==
  /\ wild => unsafe
  /\ ~unsafe /\ ~Notifying =>
       /\ IsInjective(updated)
       /\ ToSet(updated) \subseteq due
       /\ \A o \in due : life[o] = "alive" => o \in ToSet(updated)
       /\ Safe => (there \ due) \cap ToSet(observers) = {}
=============================================================================
