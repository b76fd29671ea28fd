----------------------------- MODULE ChatServer -----------------------------
(***************************************************************************)
(* The four chat servers of ch07 on the codec of codec.h.  Each gives a    *)
(* message from one client to all of them, "server" in its only loop, the  *)
(* others from several: "threaded" walks the connections with its mutex    *)
(* locked, "efficient" walks a snapshot of them, "highperformance" hands   *)
(* the message to every loop, which walks its own connections.             *)
(*                                                                         *)
(* What a mutex protects is one step.  LocalConnections of a loop are the  *)
(* connections that belong to it.                                          *)
(***************************************************************************)
EXTENDS Net, FiniteSetsExt

CONSTANT kMaxLen     \* 65536 in the code

VARIABLES connections,
          walk,      \* the snapshot that each loop of "efficient" is sending to
          delivered, \* history: the messages that came from each connection
          joined     \* history: how many there were when a connection was added

vars == <<program, net, connections, walk, delivered, joined>>

Programs == {"server", "threaded", "efficient", "highperformance"}

kHeaderLen == kIntLen

\* LengthHeaderCodec::send, as the clients use it.
Frame(text) == hostToNetwork32(Len(text)) \o text

Length(buf)     == networkToHost32(buf)
HasHeader(buf)  == Len(buf) >= kHeaderLen
BadLength(buf)  == Length(buf) > kMaxLen \/ Length(buf) < 0
\* A defect: the last byte of a message is not enough.
CompleteLate(buf) == Len(buf) > kHeaderLen + Length(buf)

Complete(buf) == Len(buf) >= kHeaderLen + Length(buf)

NoWalk == [todo |-> {}, message |-> <<>>]

Init ==
  /\ connections = {}
  /\ walk = [l \in Loop |-> NoWalk]
  /\ delivered = [c \in Conn |-> <<>>]
  /\ joined = [c \in Conn |-> [s \in Conn |-> 0]]

onConnectionUp(c) ==
  /\ MayConnect(c)
  /\ net' = connected(net, c)
  /\ connections' = connections \cup {c}
  /\ joined' = [joined EXCEPT ![c] = [s \in Conn |-> Len(delivered[s])]]
  /\ UNCHANGED <<walk, delivered>>

onConnectionDown(c) ==
  /\ MayClose(c)
  /\ net' = disconnected(net, c)
  /\ connections' = connections \ {c}
  /\ UNCHANGED <<walk, delivered, joined>>

\* LengthHeaderCodec::onMessage begins, with k more bytes in the buffer.
Receive(c, k) ==
  /\ MayRead(c, k)
  /\ net' = [arrived(net, c, k) EXCEPT !.reading[net.loop[c]] = c]
  /\ UNCHANGED <<connections, walk, delivered, joined>>

\* The buffer that loop l is at, between two turns of its while.
Turn(l, c) == net.reading[l] = c /\ c # NoConn /\ walk[l].todo = {}

SendAll(n, l, receivers, message) ==
  FoldSet(LAMBDA c, m : send(m, l, c, message), n, receivers)

Local(n, l) == {c \in connections : n.loop[c] = l}

\* A defect: the loop that is running does not queue it.
DistributeRunning(n, here, message) ==
  FoldSet(LAMBDA l, m : queueInLoop(m, l, [call |-> "distributeMessage", arg |-> message]),
          SendAll(n, here, Local(n, here), message), Loop \ {here})

DistributeToAll(n, here, message) ==
  FoldSet(LAMBDA l, m : queueInLoop(m, l, [call |-> "distributeMessage", arg |-> message]), n, Loop)

\* onStringMessage: what the network is like after it, and what is left to do.
Broadcast(n, l, message) ==
  CASE program \in {"server", "threaded"} -> SendAll(n, l, connections, message)
    [] program = "highperformance" -> DistributeToAll(n, l, message)
    [] program = "efficient" -> n

CodecMessage(l) ==
  \E c \in Conn :
    LET buf == net.input[c]
        message == [from |-> c, nth |-> Len(delivered[c]) + 1,
                    text |-> SubSeq(buf, kHeaderLen + 1, kHeaderLen + Length(buf))]
    IN  /\ Turn(l, c)
        /\ HasHeader(buf) /\ ~BadLength(buf) /\ Complete(buf)
        /\ net' = Broadcast(retrieve(net, c, kHeaderLen + Length(buf)), l, message)
        /\ walk' = IF program = "efficient"
                   THEN [walk EXCEPT ![l] = [todo |-> connections, message |-> message]]
                   ELSE walk
        /\ delivered' = [delivered EXCEPT ![c] = Append(@, message.text)]
        /\ UNCHANGED <<connections, joined>>

CodecInvalidLength(l) ==
  \E c \in Conn :
    /\ Turn(l, c)
    /\ HasHeader(net.input[c]) /\ BadLength(net.input[c])
    /\ net' = [shutdown(net, c) EXCEPT !.reading[l] = NoConn]
    /\ UNCHANGED <<connections, walk, delivered, joined>>

CodecReturns(l) ==
  \E c \in Conn :
    LET buf == net.input[c]
    IN  /\ Turn(l, c)
        /\ ~(HasHeader(buf) /\ (BadLength(buf) \/ Complete(buf)))
        /\ net' = [net EXCEPT !.reading[l] = NoConn]
        /\ UNCHANGED <<connections, walk, delivered, joined>>

\* "efficient": the next connection of the snapshot.
SendNext(l) ==
  \E c \in walk[l].todo :
    /\ net' = send(net, l, c, walk[l].message)
    /\ walk' = [walk EXCEPT ![l] = IF @.todo = {c} THEN NoWalk
                                   ELSE [todo |-> @.todo \ {c}, message |-> @.message]]
    /\ UNCHANGED <<connections, delivered, joined>>

distributeMessage(l) ==
  /\ MayCall(l, "distributeMessage")
  /\ net' = SendAll(called(net, l), l, Local(net, l), Head(net.queue[l]).arg)
  /\ UNCHANGED <<connections, walk, delivered, joined>>

Next ==
  /\ \/ \E c \in Conn : onConnectionUp(c) \/ onConnectionDown(c)
     \/ \E c \in Conn : \E k \in DOMAIN net.arriving[c] : Receive(c, k)
     \/ \E l \in Loop : \/ CodecMessage(l) \/ CodecInvalidLength(l) \/ CodecReturns(l)
                        \/ SendNext(l) \/ distributeMessage(l)
     \/ NetStep /\ UNCHANGED <<connections, walk, delivered, joined>>
  /\ UNCHANGED program

----------------------------------------------------------------------------
\* The frames at the beginning of a stream that are complete, up to the
\* first whose length is out of bounds.
Frames(stream) ==
  LET from[k \in 0 .. Len(stream)] ==
        LET bytes == EndOf(stream, k)
        IN  IF \/ ~HasHeader(bytes) \/ Length(bytes) \notin 0 .. kMaxLen
               \/ Len(bytes) < kHeaderLen + Length(bytes)
            THEN <<>>
            ELSE <<SubSeq(bytes, kHeaderLen + 1, kHeaderLen + Length(bytes))>>
                   \o from[k + kHeaderLen + Length(bytes)]
  IN  from[0]

\* The messages delivered are the frames that have come in, in whatever
\* pieces, and none after a length out of bounds, at which the connection is
\* shut down; while the callback runs, those it has got to (codec.h:25-48).
FramesDelivered ==
  \A c \in Conn :
    LET frames == Frames(net.received[c])
        rest   == EndOf(net.received[c], MapThenSumSet(LAMBDA i : kHeaderLen + Len(frames[i]), DOMAIN frames))
    IN  /\ Begins(delivered[c], frames)
        /\ net.reading[net.loop[c]] # c =>
             /\ delivered[c] = frames
             /\ HasHeader(rest) /\ Length(rest) \notin 0 .. kMaxLen => net.state[c] # "connected"

\* The places of the messages from s in what was sent to c, and their numbers.
From(c, s)    == {i \in DOMAIN net.output[c] : net.output[c][i].from = s}
Numbers(c, s) == {net.output[c][i].nth : i \in From(c, s)}

Quiet == \A l \in Loop : net.queue[l] = <<>> /\ walk[l] = NoWalk

\* Whatever thread sends it and however messages, connections and
\* disconnections overlap: of each sender a connection gets a run of messages
\* without a gap, a repetition or a change of order, from the one after it
\* was added at the latest, and up to the last one when nothing is under way.
\* All get all messages in one order if one loop sends them or one mutex
\* orders them for all the loops.
BroadcastComplete ==
  \A c \in Conn, s \in Conn :
    LET sent == Numbers(c, s)
    IN  /\ sent \subseteq 1 .. Len(delivered[s])
        /\ \A i, j \in From(c, s) : i < j => net.output[c][i].nth < net.output[c][j].nth
        /\ \A first, last \in sent : first .. last \subseteq sent
        /\ sent # {} => \E first \in sent : first <= joined[c][s] + 1
        /\ Quiet /\ net.state[c] = "connected" /\ Len(delivered[s]) > joined[c][s]
             => Len(delivered[s]) \in sent
        /\ program \in {"server", "highperformance"} =>
             \A i, j \in DOMAIN net.output[c], u, v \in DOMAIN net.output[s] :
               net.output[c][i] = net.output[s][u] /\ net.output[c][j] = net.output[s][v]
                 => (i < j <=> u < v)
=============================================================================
