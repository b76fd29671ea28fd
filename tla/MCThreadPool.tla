------------------------------ MODULE MCThreadPool ------------------------------
(* Two workers, two callers and a queue of one task.  Two of the three   *)
(* tasks submit a child with run(), which is how a pool can clog.        *)
EXTENDS ThreadPool

CONSTANTS c1, c2, a, b, c, d, e, none

MCTask  == {a, b, c, d, e}
MCRoots == {a, b, c}
MCChild == [x \in MCTask |-> CASE x = a -> d [] x = b -> e [] OTHER -> none]
================================================================================
