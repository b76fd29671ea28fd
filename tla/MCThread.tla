-------------------------------- MODULE MCThread --------------------------------
(***************************************************************************)
(* ThreadObject with one thread that owns the object and one that it       *)
(* starts.                                                                 *)
(***************************************************************************)
EXTENDS ThreadObject

ASSUME ThreadLatchAssumption == ThreadLatch
================================================================================
