-------------------------------- MODULE Net ---------------------------------
(***************************************************************************)
(* What the servers of ch06 and ch07 rely on of muduo::net, which is not   *)
(* in the repository: event loops, each run by one thread, connections     *)
(* that each belong to a loop, input buffers that fill in any pieces, and  *)
(* output that is taken as long as the connection is open for writing.     *)
(*                                                                         *)
(* The operators take the state of the network and return the next one,    *)
(* since a callback makes several calls.  A callback that loops over its   *)
(* buffer is several steps: `reading' holds its loop until it returns.     *)
(***************************************************************************)
EXTENDS Integers, Sequences

CONSTANTS Conn, Loop,
          NoConn

VARIABLES program,   \* which server is run
          net

\* An int32_t on the wire, with two digits to the base 4 for the four bytes.
kIntLen == 2
hostToNetwork32(i) == <<(i % 16) \div 4, i % 4>>
networkToHost32(bytes) ==
  LET i == bytes[1] * 4 + bytes[2] IN IF i < 8 THEN i ELSE i - 16

\* loop is where each connection belongs, stream what its peer will send.
Network(loop, stream, notifies) ==
  [loop      |-> loop,
   state     |-> [c \in Conn |-> "idle"],
   arriving  |-> stream,
   received  |-> [c \in Conn |-> <<>>],     \* history: what has been read
   input     |-> [c \in Conn |-> <<>>],     \* the Buffer
   output    |-> [c \in Conn |-> <<>>],     \* the sends that were taken
   notifies  |-> notifies,                  \* a writeCompleteCallback is set
   unwritten |-> [c \in Conn |-> FALSE],    \* output that it will report
   queue     |-> [l \in Loop |-> <<>>],     \* the functors of each loop
   reading   |-> [l \in Loop |-> NoConn]]   \* the message callback it is in

\* After shutdown() a connection is disconnecting until all is written, and
\* shut until the peer closes its side, too.
Open(n, c)     == n.state[c] \in {"connected", "disconnecting", "shut"}
Writable(n, c) == n.state[c] \in {"connected", "disconnecting"}
Free(l)        == net.reading[l] = NoConn
EndOf(seq, k)  == SubSeq(seq, k + 1, Len(seq))
Begins(s, seq) == \E k \in 0 .. Len(seq) : s = SubSeq(seq, 1, k)

sendInLoop(n, c, m) ==
  IF Writable(n, c)
  THEN [n EXCEPT !.output[c] = Append(@, m), !.unwritten[c] = n.notifies]
  ELSE n

queueInLoop(n, l, f) == [n EXCEPT !.queue[l] = Append(@, f)]

\* By the thread of loop l, or by one that is no loop's.
send(n, l, c, m) ==
  IF n.state[c] # "connected" THEN n
  ELSE IF n.loop[c] = l THEN sendInLoop(n, c, m)
  ELSE queueInLoop(n, n.loop[c], [call |-> "send", conn |-> c, arg |-> m])

shutdown(n, c) == [n EXCEPT !.state[c] = IF @ = "connected" THEN "disconnecting" ELSE @]
retrieve(n, c, k) == [n EXCEPT !.input[c] = EndOf(@, k)]
retrieveAll(n, c) == [n EXCEPT !.input[c] = <<>>]

connected(n, c) == [n EXCEPT !.state[c] = "connected"]
disconnected(n, c) == [n EXCEPT !.state[c] = "disconnected", !.unwritten[c] = FALSE]

\* The next k bytes come in.
arrived(n, c, k) ==
  LET bytes == SubSeq(n.arriving[c], 1, k)
  IN  [n EXCEPT !.arriving[c] = EndOf(@, k), !.input[c] = @ \o bytes, !.received[c] = @ \o bytes]

\* When a loop may call back: for a connection that is established, closed,
\* or has input, and for its next functor.
MayConnect(c) == Free(net.loop[c]) /\ net.state[c] = "idle"
MayClose(c)   == Free(net.loop[c]) /\ Open(net, c)
MayRead(c, k) == Free(net.loop[c]) /\ Open(net, c) /\ k \in 1 .. Len(net.arriving[c])
MayCall(l, call) == Free(l) /\ net.queue[l] # <<>> /\ Head(net.queue[l]).call = call
called(n, l) == [n EXCEPT !.queue[l] = Tail(@)]
Queued(n, call, c) ==
  \E l \in Loop : \E i \in DOMAIN n.queue[l] : n.queue[l][i].call = call /\ n.queue[l][i].conn = c

\* Steps in which no code of a server runs.
SendQueued(l) ==
  /\ MayCall(l, "send")
  /\ net' = LET f == Head(net.queue[l]) IN sendInLoop(called(net, l), f.conn, f.arg)

AllWritten(c) ==
  /\ Free(net.loop[c]) /\ net.unwritten[c]
  /\ net' = queueInLoop([net EXCEPT !.unwritten[c] = FALSE], net.loop[c],
                        [call |-> "writeComplete", conn |-> c])

ShutdownInLoop(c) ==
  /\ Free(net.loop[c]) /\ net.state[c] = "disconnecting" /\ ~net.unwritten[c]
  /\ net' = [net EXCEPT !.state[c] = "shut"]

NetStep ==
  \/ \E l \in Loop : SendQueued(l)
  \/ \E c \in Conn : AllWritten(c) \/ ShutdownInLoop(c)
=============================================================================
