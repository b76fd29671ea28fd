------------------------------ MODULE MCLogging -----------------------------
(***************************************************************************)
(* The logger and the log file that it writes to, one of them at a time:   *)
(* the logger takes the file for a place where its buffers are kept in     *)
(* order, and the file takes lines whenever they come.                     *)
(***************************************************************************)
EXTENDS AsyncLogging, LogFile

VARIABLE part   \* the one that takes steps

MCInit ==
  /\ Init /\ FileInit
  /\ part \in {"logger", "file"}
  /\ part = "logger" => now = 1

MCNext == \/ part = "logger" /\ Next /\ UNCHANGED <<fileVars, part>>
          \/ part = "file" /\ FileNext /\ UNCHANGED <<vars, part>>

\* The fairness of AsyncLogging; of the file nothing is said to happen.
MCSpec == /\ MCInit /\ [][MCNext]_<<vars, fileVars, part>>
          /\ Fairness
=============================================================================
