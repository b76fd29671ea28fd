------------------------------- MODULE SharedSet -------------------------------
(***************************************************************************)
(* What a set shared by copy-on-write promises: updates take effect one at *)
(* a time, and a reader keeps the value the set had at one moment, whoever *)
(* updates it meanwhile.                                                   *)
(***************************************************************************)
CONSTANTS Threads, Elem, None

VARIABLES value,  \* the set
          seen    \* the value that each reader works on, or None

sharedVars == <<value, seen>>

SharedInit == value = {} /\ seen = [t \in Threads |-> None]

Update(x) == /\ value' \in {value \cup {x}, value \ {x}}
             /\ UNCHANGED seen

ReadBegins(t) == /\ seen[t] = None
                 /\ seen' = [seen EXCEPT ![t] = value]
                 /\ UNCHANGED value

ReadEnds(t) == /\ seen' = [seen EXCEPT ![t] = None]
               /\ UNCHANGED value

SharedNext == \/ \E x \in Elem : Update(x)
              \/ \E t \in Threads : ReadBegins(t) \/ ReadEnds(t)

SharedSpec == SharedInit /\ [][SharedNext]_sharedVars
================================================================================
