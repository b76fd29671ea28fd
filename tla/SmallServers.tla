---------------------------- MODULE SmallServers ----------------------------
(***************************************************************************)
(* The servers and the client of ch06 and ch07 that answer within one      *)
(* callback: echo, echo with a limit on its connections, finger, discard,  *)
(* daytime, time with its client, and chargen.                             *)
(***************************************************************************)
EXTENDS Net, FiniteSetsExt

CONSTANTS kMaxConnections,
          kChars, kWidth,   \* of chargen, 94 and 72 in the code
          kMaxSent          \* the messages of chargen are cut off after so many

VARIABLES now,              \* the server's time
          numConnected,
          rejected,         \* the connections that forceCloseWithDelay is to close
          printed,          \* the times that the client has printed
          transferred,      \* messages of chargen, where the code counts bytes
          reported          \* history: what printThroughput has set back

state == <<now, numConnected, rejected, printed, transferred, reported>>
vars == <<program, net, state>>

Programs == {"echo", "maxconnection", "finger", "discard", "daytime", "time", "timeclient", "chargen"}

CR == 13  LF == 10
CRLFs(bytes) == {i \in 1 .. Len(bytes) - 1 : bytes[i] = CR /\ bytes[i + 1] = LF}

users == [u \in {<<97, 120>>} |-> "Happy and well"]
getUser(user) == IF user \in DOMAIN users THEN users[user] ELSE "No such user"
FirstLine(bytes) == SubSeq(bytes, 1, Min(CRLFs(bytes)) - 1)

\* static_cast<int32_t>, on the width of Net.
toInt(i) == ((i + 8) % 16) - 8

\* message_: of all lines of kWidth characters, cyclic, one after the other.
line == [i \in 1 .. 2 * kChars |-> ((i - 1) % kChars) + 1]
message_ == [i \in 1 .. kChars |-> SubSeq(line, i, i + kWidth - 1)]

Init ==
  /\ numConnected = 0 /\ rejected = {} /\ printed = <<>>
  /\ transferred = 0 /\ reported = 0

Taken(n, c, m) == send(n, n.loop[c], c, m)

\* What each does for a connection that is new.
Greeted(n, c) ==
  CASE program = "daytime" -> shutdown(Taken(n, c, [date |-> now]), c)
    [] program = "time"    -> shutdown(Taken(n, c, hostToNetwork32(toInt(now))), c)
    [] program = "chargen" -> Taken(n, c, message_)
    [] program = "maxconnection" /\ numConnected + 1 > kMaxConnections -> shutdown(n, c)
    [] OTHER -> n

onConnectionUp(c) ==
  /\ MayConnect(c)
  /\ net' = Greeted(connected(net, c), c)
  /\ IF program = "maxconnection"
     THEN /\ numConnected' = numConnected + 1
          /\ rejected' = IF numConnected' > kMaxConnections THEN rejected \cup {c} ELSE rejected
     ELSE UNCHANGED <<numConnected, rejected>>
  /\ UNCHANGED <<now, printed, transferred, reported>>

\* Also from the timer of a connection that was rejected; the client's loop
\* quits.
onConnectionDown(c) ==
  /\ MayClose(c)
  /\ net' = disconnected(net, c)
  /\ numConnected' = IF program = "maxconnection" THEN numConnected - 1 ELSE numConnected
  /\ UNCHANGED <<now, rejected, printed, transferred, reported>>

\* onMessage of each, as what it makes of the network.
Echo(n, c)    == Taken(retrieveAll(n, c), c, n.input[c])
Discard(n, c) == retrieveAll(n, c)

\* A defect: the connection stays open for writing.
FingerOpen(n, c) ==
  IF CRLFs(n.input[c]) = {} THEN n
  ELSE retrieve(Taken(n, c, getUser(FirstLine(n.input[c]))), c, Len(FirstLine(n.input[c])) + 2)

Finger(n, c) ==
  IF CRLFs(n.input[c]) = {} THEN n
  ELSE shutdown(retrieve(Taken(n, c, getUser(FirstLine(n.input[c]))), c,
                         Len(FirstLine(n.input[c])) + 2), c)

TimeClient(n, c) == IF Len(n.input[c]) >= kIntLen THEN retrieve(n, c, kIntLen) ELSE n

onMessage(c, k) ==
  LET n == arrived(net, c, k)
  IN  /\ MayRead(c, k)
      /\ net' = CASE program \in {"echo", "maxconnection"} -> Echo(n, c)
                  [] program = "finger"     -> Finger(n, c)
                  [] program = "timeclient" -> TimeClient(n, c)
                  [] OTHER                  -> Discard(n, c)
      /\ printed' = IF program = "timeclient" /\ Len(n.input[c]) >= kIntLen
                    THEN Append(printed, networkToHost32(n.input[c])) ELSE printed
      /\ UNCHANGED <<now, numConnected, rejected, transferred, reported>>

\* Of chargen.
onWriteComplete(l) ==
  /\ MayCall(l, "writeComplete")
  /\ LET c == Head(net.queue[l]).conn
     IN  /\ Len(net.output[c]) < kMaxSent
         /\ net' = Taken(called(net, l), c, message_)
  /\ transferred' = transferred + 1
  /\ UNCHANGED <<now, numConnected, rejected, printed, reported>>

printThroughput(l) ==
  /\ program = "chargen" /\ Free(l) /\ transferred > 0
  /\ reported' = reported + transferred
  /\ transferred' = 0
  /\ UNCHANGED <<net, now, numConnected, rejected, printed>>

Next ==
  /\ \/ \E c \in Conn : onConnectionUp(c) \/ onConnectionDown(c)
     \/ \E c \in Conn : \E k \in DOMAIN net.arriving[c] : onMessage(c, k)
     \/ \E l \in Loop : onWriteComplete(l) \/ printThroughput(l)
     \/ NetStep /\ UNCHANGED state
  /\ UNCHANGED program

----------------------------------------------------------------------------
Up == {c \in Conn : Open(net, c)}
Completing(c) == net.unwritten[c] \/ Queued(net, "writeComplete", c)

Flattened(seqs) ==
  LET upTo[i \in 0 .. Len(seqs)] == IF i = 0 THEN <<>> ELSE upTo[i - 1] \o seqs[i]
  IN  upTo[Len(seqs)]
EchoExact(c) == Flattened(net.output[c]) = IF c \in rejected THEN <<>> ELSE net.received[c]

FingerExact(c) ==
  LET text == net.received[c]
  IN  net.output[c] = IF CRLFs(text) = {} THEN <<>> ELSE <<getUser(FirstLine(text))>>

GreetedOnce(c, m) ==
  net.output[c] = (IF net.state[c] = "idle" THEN <<>> ELSE <<m>>) /\ net.state[c] # "connected"

\* The time is right as far as it fits into the int32_t.
TimePrinted(c) ==
  /\ Len(printed) <= 1
  /\ Len(net.received[c]) = kIntLen => Len(printed) = 1
  /\ printed # <<>> /\ toInt(now) = now => printed[1] = now

\* chargen never waits for a connection that waits for it, and counts each
\* message that it sends after another once, and one that it could not send for
\* a connection that went down at most; every character stands once in each column.
CharsFlow ==
  LET written == {c \in Conn : net.output[c] # <<>>}
      further == MapThenSumSet(LAMBDA c : Len(net.output[c]) - 1, written)
      lost    == Cardinality({c \in written : net.state[c] # "connected"})
  IN  /\ \A c \in Conn : net.state[c] = "connected" => Completing(c)
      /\ \A i \in 1 .. kWidth : {message_[j][i] : j \in DOMAIN message_} = 1 .. kChars
      /\ reported + transferred \in further .. further + lost

\* The counter is that of the connections that are up, the rejected ones
\* included, and no more are served than the limit.
CounterExact == numConnected = Cardinality(Up) /\ Cardinality(Up \ rejected) <= kMaxConnections

\* Whatever pieces the input comes in and however connections come and go,
\* each connection is given exactly what its input calls for: its echo, or
\* the answer to its first line once, or the time once; no more connections
\* are served than the limit, and the counter is that of those that are up,
\* the rejected ones included (maxconnection/echo.cpp:33-45).
AnsweredExactly ==
  /\ \A c \in Conn :
       CASE program \in {"echo", "maxconnection"} -> EchoExact(c)
         [] program = "finger"     -> FingerExact(c)
         [] program = "discard"    -> net.output[c] = <<>> /\ net.input[c] = <<>>
         [] program = "daytime"    -> GreetedOnce(c, [date |-> now])
         [] program = "time"       -> GreetedOnce(c, hostToNetwork32(toInt(now)))
         [] program = "timeclient" -> net.received[c] # <<>> => TimePrinted(c)
         [] program = "chargen"    -> CharsFlow
  /\ program = "maxconnection" => CounterExact
=============================================================================
