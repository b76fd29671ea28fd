---------------------------- MODULE FileTransfer ----------------------------
(***************************************************************************)
(* The three file servers of ch07: "download" sends the file as one        *)
(* message, "download2" a block whenever the last one has been written,    *)
(* with a FILE* in the connection's context, "download3" the same with a   *)
(* shared_ptr that closes it.                                              *)
(*                                                                         *)
(* A file is the sequence of its blocks and does not change while it is    *)
(* read; a message is the blocks it consists of.                           *)
(***************************************************************************)
EXTENDS Net

VARIABLES file,      \* its blocks, numbered from one, or Missing
          fp,        \* of each connection: how many blocks were read, whether it is open
          context,   \* what the connection's context holds: "empty", "null" or "fp"
          late       \* history: it went down with a write-complete callback queued

vars == <<program, net, file, fp, context, late>>

Programs == {"download", "download2", "download3"}
Missing == <<0>>
Whole == IF file = Missing THEN <<>> ELSE file

\* closed counts the calls of fclose, stale the reads after one.
NeverOpened == [pos |-> 0, opened |-> FALSE, closed |-> 0, stale |-> FALSE]

Init ==
  /\ fp = [c \in Conn |-> NeverOpened]
  /\ context = [c \in Conn |-> "empty"]
  /\ late = [c \in Conn |-> FALSE]

\* fread: the next block, or none at the end.
Block(f) == IF f.pos < Len(file) THEN <<file[f.pos + 1]>> ELSE <<>>
Advanced(f) == [f EXCEPT !.pos = @ + Len(Block(f))]
Opened == [NeverOpened EXCEPT !.opened = TRUE]
Closed(f) == [f EXCEPT !.closed = @ + 1]

sendHere(n, c, blocks) == send(n, n.loop[c], c, blocks)

\* "download": readFile opens, reads and closes; a missing file is an empty one.
SendWhole(c) ==
  /\ net' = shutdown(sendHere(connected(net, c), c, Whole), c)
  /\ UNCHANGED <<fp, context>>

SendFirst(c) ==
  IF file = Missing
  THEN net' = shutdown(connected(net, c), c) /\ UNCHANGED <<fp, context>>
  ELSE /\ net' = sendHere(connected(net, c), c, Block(Opened))
       /\ fp' = [fp EXCEPT ![c] = Advanced(Opened)]
       /\ context' = [context EXCEPT ![c] = "fp"]

onConnectionUp(c) ==
  /\ MayConnect(c)
  /\ IF program = "download" THEN SendWhole(c) ELSE SendFirst(c)
  /\ UNCHANGED <<file, late>>

onConnectionDown(c) ==
  /\ MayClose(c)
  /\ net' = disconnected(net, c)
  /\ fp' = IF program = "download2" /\ context[c] = "fp" THEN [fp EXCEPT ![c] = Closed(@)] ELSE fp
  /\ late' = [late EXCEPT ![c] = Queued(net, "writeComplete", c)]
  /\ UNCHANGED <<file, context>>

Completed(c) == MayCall(net.loop[c], "writeComplete") /\ Head(net.queue[net.loop[c]]).conn = c

\* download2 at the end of the file.
\* A defect: the context keeps the pointer.
CloseKeeping(c) == fp' = [fp EXCEPT ![c] = Closed(@)] /\ UNCHANGED context

Close(c) == fp' = [fp EXCEPT ![c] = Closed(@)] /\ context' = [context EXCEPT ![c] = "null"]

onWriteComplete(c) ==
  LET n == called(net, net.loop[c])
      f == fp[c]
  IN  /\ Completed(c)
      /\ f.closed = 0
      /\ IF Block(f) # <<>>
         THEN /\ net' = sendHere(n, c, Block(f))
              /\ fp' = [fp EXCEPT ![c] = Advanced(f)]
              /\ UNCHANGED context
         ELSE /\ net' = shutdown(n, c)
              /\ IF program = "download2" THEN Close(c) ELSE UNCHANGED <<fp, context>>
      /\ UNCHANGED <<file, late>>

\* The same of a FILE that has been closed: fread gives anything, and at what
\* it takes for the end fclose is called again.
onWriteCompleteStale(c) ==
  /\ Completed(c)
  /\ fp[c].closed > 0
  /\ \/ fp' = [fp EXCEPT ![c].stale = TRUE] /\ UNCHANGED context
     \/ fp' = [fp EXCEPT ![c] = [Closed(@) EXCEPT !.stale = TRUE]] /\ context' = [context EXCEPT ![c] = "null"]
  /\ net' = called(net, net.loop[c])
  /\ UNCHANGED <<file, late>>

\* The last reference to the connection goes, and its context with it.
Destroyed(c) ==
  /\ net.state[c] = "disconnected" /\ ~Queued(net, "writeComplete", c)
  /\ net' = [net EXCEPT !.state[c] = "destroyed"]
  /\ fp' = IF program = "download3" /\ context[c] = "fp" THEN [fp EXCEPT ![c] = Closed(@)] ELSE fp
  /\ UNCHANGED <<file, context, late>>

Next ==
  /\ \/ \E c \in Conn : \/ onConnectionUp(c) \/ onConnectionDown(c) \/ Destroyed(c)
                        \/ onWriteComplete(c) \/ onWriteCompleteStale(c)
     \/ NetStep /\ UNCHANGED <<file, fp, context, late>>
  /\ UNCHANGED program

----------------------------------------------------------------------------
\* What is to be sent: the file at once, or block by block; of an empty one a
\* message without a block.
Messages ==
  IF program = "download" THEN <<Whole>>
  ELSE IF file = Missing THEN <<>>
  ELSE IF file = <<>> THEN <<<<>>>>
  ELSE [i \in DOMAIN file |-> <<file[i]>>]

\* A peer is sent the blocks of the file in order, and all of them before the
\* server shuts the connection down; until then a write-complete callback is
\* due, which will find a FILE.  Each FILE is closed once, and before the
\* connection is gone; it is used after that only by download2 if such a
\* callback was queued when the connection went down (download2.cpp:48-60).
FileArrivesWhole ==
  \A c \in Conn :
    LET due == net.unwritten[c] \/ Queued(net, "writeComplete", c)
    IN  /\ Begins(net.output[c], Messages)
        /\ net.state[c] \in {"disconnecting", "shut"} => net.output[c] = Messages
        /\ net.state[c] = "connected" => due
        /\ due => context[c] = "fp" \/ late[c]
        /\ (fp[c].closed <= 1 /\ ~fp[c].stale) \/ (program = "download2" /\ late[c])
        /\ net.state[c] = "destroyed" /\ fp[c].opened => fp[c].closed > 0
=============================================================================
