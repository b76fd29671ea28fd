---------------------------- MODULE ServersProofs ----------------------------
(***************************************************************************)
(* Proofs about the servers, for any set of connections, any finite set of *)
(* loops and files of any size.                                            *)
(***************************************************************************)
EXTENDS MCServers, SequenceTheorems, FiniteSetTheorems, WellFoundedInduction, TLAPS

(***************************************************************************)
(* FileTransfer.                                                           *)
(***************************************************************************)
States == {"idle", "connected", "disconnecting", "shut", "disconnected", "destroyed"}
Callback == [call : {"writeComplete"}, conn : Conn]
OpenFile == [pos : Nat, opened : BOOLEAN, closed : Nat, stale : BOOLEAN]

\* Nothing arrives, and no callback is in a loop of its own.
FilesNet ==
  [loop : [Conn -> Loop], state : [Conn -> States],
   arriving : [Conn -> {<<>>}], received : [Conn -> {<<>>}], input : [Conn -> {<<>>}],
   output : [Conn -> Seq(Seq(Nat))], notifies : BOOLEAN, unwritten : [Conn -> BOOLEAN],
   queue : [Loop -> Seq(Callback)], reading : [Loop -> {NoConn}]]

FilesTypeOK ==
  /\ net \in FilesNet
  /\ net.notifies <=> program # "download"
  /\ program \in Files!Programs
  /\ file \in Seq(Nat)
  /\ fp \in [Conn -> OpenFile]
  /\ context \in [Conn -> {"empty", "null", "fp"}]
  /\ late \in [Conn -> BOOLEAN]

(* A connection has one callback in the queue of its loop, or output that *)
(* it will report, or neither.                                            *)
Waits(queue, c) == \E l \in Loop : \E i \in 1 .. Len(queue[l]) : queue[l][i].conn = c
InOwnLoop(loop, queue) ==
  \A l \in Loop : \A i, j \in 1 .. Len(queue[l]) :
    /\ loop[queue[l][i].conn] = l
    /\ queue[l][j].conn = queue[l][i].conn => i = j

Queued(c) == Waits(net.queue, c)
CallbacksOnce ==
  /\ InOwnLoop(net.loop, net.queue)
  /\ \A c \in Conn : ~(net.unwritten[c] /\ Queued(c))

Due(c) == net.unwritten[c] \/ Queued(c)

(* A connection without a FILE: it is idle, or nothing needs one.  All is *)
(* sent in the callback that finds it up.                                 *)
WithoutFile(c) ==
  /\ fp[c] = Files!NeverOpened /\ context[c] = "empty"
  /\ ~late[c] /\ ~Due(c)
  /\ net.state[c] # "connected"
  /\ net.output[c] = IF net.state[c] = "idle" THEN <<>> ELSE Files!Messages

Untouched(c) == context[c] = "fp" /\ fp[c].closed = 0 /\ ~fp[c].stale /\ ~late[c]

(* With one: until its end has been read a callback is due.               *)
Sending(c) ==
  /\ Untouched(c) /\ Due(c)
  /\ fp[c].pos <= Len(file) /\ Len(net.output[c]) = IF file = <<>> THEN 1 ELSE fp[c].pos

AllSent(c) ==
  /\ net.output[c] = Files!Messages
  /\ ~Due(c)
  /\ IF program = "download2"
     THEN context[c] = "null" /\ fp[c].closed = 1 /\ ~fp[c].stale /\ ~late[c]
     ELSE Untouched(c)

Gone(c) ==
  /\ ~net.unwritten[c]
  /\ Queued(c) => late[c] /\ net.state[c] = "disconnected"
  /\ IF program = "download2"
     THEN fp[c].closed >= 1 /\ (~late[c] => fp[c].closed = 1 /\ ~fp[c].stale)
     ELSE /\ context[c] = "fp" /\ ~fp[c].stale
          /\ fp[c].closed = IF net.state[c] = "destroyed" THEN 1 ELSE 0

WithFile(c) ==
  /\ fp[c].opened
  /\ Len(net.output[c]) <= Len(Files!Messages)
  /\ \A i \in 1 .. Len(net.output[c]) : net.output[c][i] = Files!Messages[i]
  /\ net.state[c] = "connected" => Sending(c)
  /\ net.state[c] \in {"disconnecting", "shut"} => AllSent(c)
  /\ net.state[c] \in {"disconnected", "destroyed"} => Gone(c)

Served(c) ==
  IF net.state[c] = "idle" \/ program = "download" \/ file = Files!Missing
  THEN WithoutFile(c) ELSE WithFile(c)

FilesInv == FilesTypeOK /\ CallbacksOnce /\ \A c \in Conn : Served(c)

--------------------------------------------------------------------------------
(* What the operators of the network change. *)
Only(c, before, after) == \A d \in Conn : d # c => after[d] = before[d]

LEMMA SendHere ==
  ASSUME NEW n \in FilesNet, NEW c \in Conn, NEW m \in Seq(Nat)
  PROVE  LET s == Files!sendHere(n, c, m)
         IN  /\ s \in FilesNet
             /\ s.loop = n.loop /\ s.state = n.state /\ s.queue = n.queue /\ s.notifies = n.notifies
             /\ n.state[c] # "connected" => s.output = n.output /\ s.unwritten = n.unwritten
             /\ Only(c, n.output, s.output) /\ Only(c, n.unwritten, s.unwritten)
             /\ n.state[c] = "connected" => /\ s.output[c] = Append(n.output[c], m)
                                           /\ s.unwritten[c] = n.notifies
<1> USE DEF Only
<1>1. CASE n.state[c] # "connected"
  BY <1>1 DEF Files!sendHere, Files!send
<1>2. CASE n.state[c] = "connected"
  <2>1. Files!sendHere(n, c, m) =
          [n EXCEPT !.output = [n.output EXCEPT ![c] = Append(@, m)],
                    !.unwritten = [n.unwritten EXCEPT ![c] = n.notifies]]
    BY <1>2 DEF FilesNet, Files!sendHere, Files!send, Files!sendInLoop, Files!Writable
  <2>2. /\ [n.output EXCEPT ![c] = Append(@, m)] \in [Conn -> Seq(Seq(Nat))]
        /\ [n.unwritten EXCEPT ![c] = n.notifies] \in [Conn -> BOOLEAN]
    BY DEF FilesNet
  <2> DEFINE s == [n EXCEPT !.output = [n.output EXCEPT ![c] = Append(@, m)],
                            !.unwritten = [n.unwritten EXCEPT ![c] = n.notifies]]
  <2>3. /\ s \in FilesNet
        /\ s.loop = n.loop /\ s.state = n.state /\ s.queue = n.queue /\ s.notifies = n.notifies
        /\ s.output = [n.output EXCEPT ![c] = Append(@, m)]
        /\ s.unwritten = [n.unwritten EXCEPT ![c] = n.notifies]
    BY <2>2 DEF FilesNet
  <2>4. /\ Only(c, n.output, s.output) /\ Only(c, n.unwritten, s.unwritten)
        /\ s.output[c] = Append(n.output[c], m) /\ s.unwritten[c] = n.notifies
    <3>1. n.output \in [Conn -> Seq(Seq(Nat))] /\ n.unwritten \in [Conn -> BOOLEAN]
      BY DEF FilesNet
    <3> HIDE DEF s
    <3> QED
      BY <2>3, <3>1
  <2> QED
    BY <1>2, <2>1, <2>3, <2>4
<1> QED
  BY <1>1, <1>2

LEMMA Connects ==
  ASSUME NEW n \in FilesNet, NEW c \in Conn
  PROVE  LET s == Files!connected(n, c)
         IN  /\ s \in FilesNet
             /\ s.loop = n.loop /\ s.queue = n.queue /\ s.notifies = n.notifies
             /\ s.output = n.output /\ s.unwritten = n.unwritten
             /\ s.state[c] = "connected" /\ Only(c, n.state, s.state)
  BY DEF Only, FilesNet, Files!connected, States

LEMMA ShutsDown ==
  ASSUME NEW n \in FilesNet, NEW c \in Conn
  PROVE  LET s == Files!shutdown(n, c)
         IN  /\ s \in FilesNet
             /\ s.loop = n.loop /\ s.queue = n.queue /\ s.notifies = n.notifies
             /\ s.output = n.output /\ s.unwritten = n.unwritten
             /\ s.state[c] = IF n.state[c] = "connected" THEN "disconnecting" ELSE n.state[c]
             /\ Only(c, n.state, s.state)
  BY DEF Only, FilesNet, Files!shutdown, States

LEMMA Disconnects ==
  ASSUME NEW n \in FilesNet, NEW c \in Conn
  PROVE  LET s == Files!disconnected(n, c)
         IN  /\ s \in FilesNet
             /\ s.loop = n.loop /\ s.queue = n.queue /\ s.notifies = n.notifies /\ s.output = n.output
             /\ ~s.unwritten[c] /\ Only(c, n.unwritten, s.unwritten)
             /\ s.state[c] = "disconnected" /\ Only(c, n.state, s.state)
  BY DEF Only, FilesNet, Files!disconnected, States

LEMMA Calls ==
  ASSUME NEW n \in FilesNet, NEW l \in Loop, n.queue[l] # <<>>
  PROVE  LET s == Files!called(n, l)
         IN  /\ s \in FilesNet
             /\ s.loop = n.loop /\ s.state = n.state /\ s.notifies = n.notifies
             /\ s.output = n.output /\ s.unwritten = n.unwritten
             /\ s.queue = [n.queue EXCEPT ![l] = Tail(@)]
<1>1. [n.queue EXCEPT ![l] = Tail(@)] \in [Loop -> Seq(Callback)]
  <2>1. n.queue \in [Loop -> Seq(Callback)] /\ Tail(n.queue[l]) \in Seq(Callback)
    BY DEF FilesNet
  <2> QED
    BY <2>1
<1>2. Files!called(n, l) = [n EXCEPT !.queue = [n.queue EXCEPT ![l] = Tail(@)]]
  BY DEF FilesNet, Files!called
<1> QED
  BY <1>1, <1>2 DEF FilesNet

(* The callbacks in the queues, when one is added and when one is taken.  *)
LEMMA Callbacks ==
  ASSUME NEW queue \in [Loop -> Seq(Callback)], NEW c
  PROVE  Waits(queue, c) <=>
           \E l \in Loop : \E i \in DOMAIN queue[l] :
             queue[l][i].call = "writeComplete" /\ queue[l][i].conn = c
<1>1. ASSUME NEW l \in Loop, NEW i \in 1 .. Len(queue[l])
      PROVE  queue[l][i].call = "writeComplete"
  <2>1. queue[l][i] \in Callback
    OBVIOUS
  <2> QED
    BY <2>1 DEF Callback
<1>2. \A l \in Loop : DOMAIN queue[l] = 1 .. Len(queue[l])
  OBVIOUS
<1> QED
  BY <1>1, <1>2 DEF Waits

LEMMA QueueGrows ==
  ASSUME NEW loop \in [Conn -> Loop], NEW queue \in [Loop -> Seq(Callback)], NEW c \in Conn,
         InOwnLoop(loop, queue), ~Waits(queue, c)
  PROVE  LET grown == [queue EXCEPT ![loop[c]] = Append(@, [call |-> "writeComplete", conn |-> c])]
         IN  /\ grown \in [Loop -> Seq(Callback)]
             /\ InOwnLoop(loop, grown)
             /\ \A d \in Conn : Waits(grown, d) <=> Waits(queue, d) \/ d = c
<1>a. PICK grown : grown = [queue EXCEPT ![loop[c]] = Append(@, [call |-> "writeComplete", conn |-> c])]
  OBVIOUS
<1> DEFINE f == [call |-> "writeComplete", conn |-> c]
<1>1. PICK k \in Loop : k = loop[c]
  OBVIOUS
<1>2. PICK q \in Seq(Callback) : q = queue[k]
  OBVIOUS
<1>3. f \in Callback /\ f.conn = c
  BY DEF Callback
<1> HIDE DEF f
<1>4. PICK g \in Seq(Callback) : g = Append(q, f)
  <2>1. Append(q, f) \in Seq(Callback)
    BY <1>3
  <2> QED
    BY <2>1, Zenon
<1>5. /\ Len(q) \in Nat /\ Len(g) = Len(q) + 1 /\ g[Len(q) + 1] = f
      /\ \A i \in 1 .. Len(q) : g[i] = q[i]
  BY <1>3, <1>4
<1>6. grown[k] = g /\ \A l \in Loop : l # k => grown[l] = queue[l]
  BY <1>a, <1>1, <1>2, <1>4 DEF f
<1>7. grown \in [Loop -> Seq(Callback)]
  BY <1>a, <1>1, <1>2, <1>4 DEF f
<1>8. \A l \in Loop : \A i \in 1 .. Len(queue[l]) : queue[l][i].conn # c
  BY DEF Waits
<1>9. InOwnLoop(loop, grown)
  <2> SUFFICES ASSUME NEW l \in Loop, NEW i \in 1 .. Len(grown[l]), NEW j \in 1 .. Len(grown[l])
               PROVE  /\ loop[grown[l][i].conn] = l
                      /\ grown[l][j].conn = grown[l][i].conn => i = j
    BY DEF InOwnLoop
  <2>1. CASE l # k
    BY <2>1, <1>6 DEF InOwnLoop
  <2>2. CASE l = k
    <3>1. i \in 1 .. Len(q) + 1 /\ j \in 1 .. Len(q) + 1
      BY <2>2, <1>5, <1>6
    <3>2. \A x, y \in 1 .. Len(q) : loop[q[x].conn] = k /\ (q[y].conn = q[x].conn => x = y) /\ q[x].conn # c
      BY <1>2, <1>8 DEF InOwnLoop
    <3>3. \A x \in 1 .. Len(q) + 1 : (x \in 1 .. Len(q) /\ g[x] = q[x]) \/ (x = Len(q) + 1 /\ g[x] = f)
      <4> TAKE x \in 1 .. Len(q) + 1
      <4>1. CASE x = Len(q) + 1
        BY <4>1, <1>5
      <4>2. CASE x # Len(q) + 1
        <5>1. x \in 1 .. Len(q)
          BY <4>2, <1>5
        <5> QED
          BY <5>1, <1>5
      <4> QED
        BY <4>1, <4>2
    <3>4. loop[g[i].conn] = k
      BY <3>1, <3>2, <3>3, <1>1, <1>3, Zenon
    <3>5. g[j].conn = g[i].conn => i = j
      BY <3>1, <3>2, <3>3, <1>3, Zenon
    <3> QED
      BY <2>2, <3>4, <3>5, <1>6
  <2> QED
    BY <2>1, <2>2
<1>10. ASSUME NEW d \in Conn PROVE Waits(grown, d) <=> Waits(queue, d) \/ d = c
  <2>1. (\E i \in 1 .. Len(g) : g[i].conn = d) <=> (\E i \in 1 .. Len(q) : q[i].conn = d) \/ d = c
    <3>1. Len(q) + 1 \in 1 .. Len(g) /\ \A i \in 1 .. Len(g) : i \in 1 .. Len(q) \/ i = Len(q) + 1
      BY <1>5
    <3>2. \A i \in 1 .. Len(q) : i \in 1 .. Len(g)
      BY <1>5
    <3> QED
      BY <3>1, <3>2, <1>3, <1>5
  <2> QED
    BY <2>1, <1>2, <1>6 DEF Waits
<1> QED
  BY <1>a, <1>7, <1>9, <1>10

Takes(loop, queue, l, c, shrunk) ==
  /\ loop \in [Conn -> Loop] /\ queue \in [Loop -> Seq(Callback)] /\ l \in Loop
  /\ queue[l] # <<>> /\ c = Head(queue[l]).conn /\ shrunk = [queue EXCEPT ![l] = Tail(@)]

LEMMA QueueShrinks ==
  ASSUME NEW loop, NEW queue, NEW l, NEW c, NEW shrunk,
         Takes(loop, queue, l, c, shrunk), InOwnLoop(loop, queue)
  PROVE  /\ shrunk \in [Loop -> Seq(Callback)]
         /\ InOwnLoop(loop, shrunk)
         /\ \A d \in Conn : Waits(shrunk, d) <=> Waits(queue, d) /\ d # c
         /\ c \in Conn /\ loop[c] = l /\ Waits(queue, c)
<1> USE DEF Takes
<1>1. PICK q \in Seq(Callback) : q = queue[l]
  OBVIOUS
<1>2. Len(q) \in Nat /\ Len(q) >= 1 /\ q # <<>>
  BY <1>1
<1>3. PICK t \in Seq(Callback) : t = Tail(q)
  <2>1. Tail(q) \in Seq(Callback)
    BY <1>2
  <2> QED
    BY <2>1, Zenon
<1>4. Len(t) = Len(q) - 1 /\ \A i \in 1 .. Len(q) - 1 : t[i] = q[i + 1]
  BY <1>2, <1>3
<1>5. shrunk[l] = t /\ \A m \in Loop : m # l => shrunk[m] = queue[m]
  BY <1>1, <1>3
<1>6. shrunk \in [Loop -> Seq(Callback)]
  BY <1>1, <1>3
<1>7. q[1] \in Callback /\ q[1].conn = c
  BY <1>1, <1>2
<1>8. c \in Conn /\ loop[c] = l /\ Waits(queue, c)
  <2>1. c \in Conn
    BY <1>7 DEF Callback
  <2>2. 1 \in 1 .. Len(queue[l]) /\ queue[l][1].conn = c
    BY <1>1, <1>2, <1>7
  <2> QED
    BY <2>1, <2>2 DEF InOwnLoop, Waits
<1>9. \A x, y \in 1 .. Len(q) : loop[q[x].conn] = l /\ (q[y].conn = q[x].conn => x = y)
  BY <1>1 DEF InOwnLoop
<1>10. InOwnLoop(loop, shrunk)
  <2> SUFFICES ASSUME NEW m \in Loop, NEW i \in 1 .. Len(shrunk[m]), NEW j \in 1 .. Len(shrunk[m])
               PROVE  /\ loop[shrunk[m][i].conn] = m
                      /\ shrunk[m][j].conn = shrunk[m][i].conn => i = j
    BY DEF InOwnLoop
  <2>1. CASE m # l
    BY <2>1, <1>5 DEF InOwnLoop
  <2>2. CASE m = l
    <3>1. i \in 1 .. Len(q) - 1 /\ j \in 1 .. Len(q) - 1
      BY <2>2, <1>4, <1>5
    <3>2. i + 1 \in 1 .. Len(q) /\ j + 1 \in 1 .. Len(q)
      BY <3>1, <1>2
    <3>3. t[i] = q[i + 1] /\ t[j] = q[j + 1]
      BY <3>1, <1>4
    <3>4. loop[t[i].conn] = l /\ (t[j].conn = t[i].conn => i + 1 = j + 1)
      BY <3>2, <3>3, <1>9
    <3>5. i + 1 = j + 1 => i = j
      BY <3>1, <1>2
    <3>6. shrunk[m] = t
      BY <2>2, <1>5
    <3> QED
      BY <2>2, <3>4, <3>5, <3>6
  <2> QED
    BY <2>1, <2>2
<1>11. ASSUME NEW d \in Conn PROVE Waits(shrunk, d) <=> Waits(queue, d) /\ d # c
  <2>1. (\E i \in 1 .. Len(t) : t[i].conn = d) <=> (\E i \in 1 .. Len(q) : q[i].conn = d) /\ d # c
    <3>1. ASSUME NEW i \in 1 .. Len(t), t[i].conn = d
          PROVE  i + 1 \in 1 .. Len(q) /\ q[i + 1].conn = d /\ d # c
      <4>1. i \in 1 .. Len(q) - 1 /\ i + 1 \in 1 .. Len(q) /\ 1 \in 1 .. Len(q) /\ i + 1 # 1
        BY <1>2, <1>4
      <4> QED
        BY <3>1, <4>1, <1>4, <1>7, <1>9
    <3>2. ASSUME NEW i \in 1 .. Len(q), q[i].conn = d, d # c
          PROVE  i - 1 \in 1 .. Len(t) /\ t[i - 1].conn = d
      <4>1. i # 1 /\ i - 1 \in 1 .. Len(q) - 1
        BY <3>2, <1>2, <1>7
      <4>2. t[i - 1] = q[i]
        BY <4>1, <1>4
      <4> QED
        BY <3>2, <4>1, <4>2, <1>4
    <3> QED
      BY <3>1, <3>2
  <2>2. \A m \in Loop : m # l => ~\E i \in 1 .. Len(queue[m]) : queue[m][i].conn = c
    BY <1>8 DEF InOwnLoop
  <2>3. \A m \in Loop : m # l => /\ shrunk[m] = queue[m]
                                 /\ d = c => ~\E i \in 1 .. Len(queue[m]) : queue[m][i].conn = d
    BY <2>2, <1>5
  <2>4. shrunk[l] = t /\ queue[l] = q
    BY <1>1, <1>5
  <2> QED
    BY <2>1, <2>3, <2>4, Zenon DEF Waits
<1> QED
  BY <1>6, <1>8, <1>10, <1>11

--------------------------------------------------------------------------------
(* The messages of a file. *)
LEMMA MessagesType ==
  ASSUME FilesTypeOK
  PROVE  /\ Files!Whole \in Seq(Nat)
         /\ program = "download" => Files!Messages = <<Files!Whole>>
         /\ program # "download" /\ file = Files!Missing => Files!Messages = <<>>
         /\ program # "download" /\ file # Files!Missing =>
              /\ file = <<>> => Files!Messages = <<<<>>>>
              /\ file # <<>> => /\ Files!Messages = [i \in DOMAIN file |-> <<file[i]>>]
                               /\ Len(Files!Messages) = Len(file)
         /\ Files!Messages \in Seq(Seq(Nat))
<1>1. Files!Whole \in Seq(Nat)
  BY DEF FilesTypeOK, Files!Whole, Files!Missing
<1>2. file # <<>> => /\ [i \in DOMAIN file |-> <<file[i]>>] \in Seq(Seq(Nat))
                     /\ Len([i \in DOMAIN file |-> <<file[i]>>]) = Len(file)
  <2>1. /\ Len(file) \in Nat /\ DOMAIN file = 1 .. Len(file)
        /\ \A i \in 1 .. Len(file) : <<file[i]>> \in Seq(Nat)
    BY DEF FilesTypeOK
  <2> DEFINE m == [i \in DOMAIN file |-> <<file[i]>>]
  <2>2. m \in [1 .. Len(file) -> Seq(Nat)]
    BY <2>1
  <2> QED
    BY <2>1, <2>2, SeqDef, LenProperties
<1> QED
  BY <1>1, <1>2 DEF Files!Messages

(* What is done to a FILE. *)
LEMMA Closes ==
  ASSUME NEW f \in OpenFile
  PROVE  LET g == Files!Closed(f)
         IN  /\ g \in OpenFile /\ g.pos = f.pos /\ g.opened = f.opened /\ g.stale = f.stale
             /\ g.closed = f.closed + 1
  BY DEF OpenFile, Files!Closed

LEMMA Advances ==
  ASSUME FilesTypeOK, NEW f \in OpenFile
  PROVE  /\ Files!Block(f) = IF f.pos < Len(file) THEN <<file[f.pos + 1]>> ELSE <<>>
         /\ Files!Block(f) \in Seq(Nat)
         /\ LET g == Files!Advanced(f)
            IN  /\ g \in OpenFile /\ g.opened = f.opened /\ g.stale = f.stale /\ g.closed = f.closed
                /\ g.pos = IF f.pos < Len(file) THEN f.pos + 1 ELSE f.pos
<1> DEFINE b == Files!Block(f)
<1>1. file \in Seq(Nat) /\ Len(file) \in Nat /\ f.pos \in Nat
  BY DEF FilesTypeOK, OpenFile
<1>2. b = IF f.pos < Len(file) THEN <<file[f.pos + 1]>> ELSE <<>>
  BY DEF Files!Block
<1>3. b \in Seq(Nat) /\ Len(b) = IF f.pos < Len(file) THEN 1 ELSE 0
  BY <1>1, <1>2
<1> HIDE DEF b
<1>4. Files!Advanced(f) = [f EXCEPT !.pos = @ + Len(b)]
  BY DEF Files!Advanced, b
<1>5. /\ Files!Advanced(f) \in OpenFile
      /\ Files!Advanced(f).opened = f.opened /\ Files!Advanced(f).stale = f.stale
      /\ Files!Advanced(f).closed = f.closed /\ Files!Advanced(f).pos = f.pos + Len(b)
  BY <1>3, <1>4 DEF OpenFile
<1> QED
  BY <1>1, <1>2, <1>3, <1>5 DEF b

(* A step that is about one connection leaves the others as they are. *)
Alike(c) == /\ net'.state[c] = net.state[c] /\ net'.output[c] = net.output[c]
            /\ net'.unwritten[c] = net.unwritten[c] /\ (Queued(c)' <=> Queued(c))
            /\ fp'[c] = fp[c] /\ context'[c] = context[c] /\ late'[c] = late[c]

LEMMA ServedAlike ==
  ASSUME NEW c \in Conn, Served(c), Alike(c), program' = program, file' = file
  PROVE  Served(c)'
<1>1. Files!Messages' = Files!Messages /\ (Due(c)' <=> Due(c))
  BY DEF Files!Messages, Files!Whole, Files!Missing, Alike, Due
<1>2. WithoutFile(c)' <=> WithoutFile(c)
  BY <1>1 DEF Alike, WithoutFile, Files!NeverOpened
<1>3. /\ Sending(c)' <=> Sending(c) 
      /\ AllSent(c)' <=> AllSent(c)
      /\ Gone(c)' <=> Gone(c)
  BY <1>1 DEF Alike, Sending, AllSent, Gone, Untouched
<1>4. WithFile(c)' <=> WithFile(c)
  BY <1>1, <1>3 DEF Alike, WithFile
<1> QED
  BY <1>2, <1>4 DEF Served, Alike, Files!Missing

LEMMA OneServed ==
  ASSUME FilesInv, program' = program, file' = file, FilesTypeOK', CallbacksOnce',
         NEW c \in Conn, \A d \in Conn : d # c => Alike(d), Served(c)'
  PROVE  FilesInv'
<1>1. ASSUME NEW d \in Conn PROVE Served(d)'
  BY <1>1, ServedAlike DEF FilesInv
<1> QED
  BY <1>1 DEF FilesInv

LEMMA FilesInitially == FilesInit /\ Files!Init => FilesInv
<1> SUFFICES ASSUME FilesInit, Files!Init PROVE FilesInv
  OBVIOUS
<1>1. FilesTypeOK
  <2>1. OneLoop \in [Conn -> Loop] /\ oneLoop \in Loop
    BY ServersAssumption DEF OneLoop, oneLoop
  <2>2. Streams(<<>>, <<>>) = [c \in Conn |-> <<>>]
    BY DEF Streams
  <2>3. net \in FilesNet /\ net.notifies = (program # "download")
    BY <2>1, <2>2 DEF FilesInit, Chat!Network, FilesNet, States
  <2>4. file \in Seq(Nat)
    <3>1. ASSUME NEW n \in FileSizes PROVE [i \in 1 .. n |-> i] \in Seq(Nat)
      <4>1. n \in Nat /\ [i \in 1 .. n |-> i] \in [1 .. n -> Nat]
        BY ServersAssumption
      <4> QED
        BY <4>1, SeqDef
    <3>2. <<0>> \in Seq(Nat)
      OBVIOUS
    <3> QED
      BY <3>1, <3>2, Zenon DEF FilesInit, Files!Missing
  <2> QED
    BY <2>3, <2>4 DEF FilesInit, Files!Init, FilesTypeOK, Files!NeverOpened, OpenFile
<1>2. /\ net.queue = [l \in Loop |-> <<>>] /\ net.state = [c \in Conn |-> "idle"]
      /\ net.output = [c \in Conn |-> <<>>] /\ net.unwritten = [c \in Conn |-> FALSE]
  BY DEF FilesInit, Chat!Network
<1>3. CallbacksOnce /\ \A c \in Conn : ~Queued(c)
  BY <1>2 DEF CallbacksOnce, InOwnLoop, Queued, Waits
<1>4. ASSUME NEW c \in Conn PROVE Served(c)
  BY <1>2, <1>3 DEF Served, WithoutFile, Due, Files!Init
<1> QED
  BY <1>1, <1>3, <1>4 DEF FilesInv

--------------------------------------------------------------------------------
(* Each step keeps the invariant. *)
LEMMA UpKeepsInv ==
  ASSUME FilesInv, program' = program, NEW c \in Conn, Files!onConnectionUp(c)
  PROVE  FilesInv'
<1>1. /\ net \in FilesNet /\ net.state[c] = "idle" /\ file' = file /\ late' = late
      /\ WithoutFile(c) /\ net.output[c] = <<>>
      /\ net.state \in [Conn -> States] /\ net.output \in [Conn -> Seq(Seq(Nat))]
      /\ net.unwritten \in [Conn -> BOOLEAN]
  BY DEF FilesInv, FilesTypeOK, Served, WithoutFile, Files!onConnectionUp, Files!MayConnect, FilesNet
<1> USE DEF Only
<1>2. PICK n \in FilesNet :
        /\ n = Files!connected(net, c)
        /\ n.loop = net.loop /\ n.queue = net.queue /\ n.notifies = net.notifies
        /\ n.output = net.output /\ n.unwritten = net.unwritten
        /\ n.state[c] = "connected" /\ Only(c, net.state, n.state)
  BY <1>1, Connects
<1>3. net'.queue = net.queue => \A d \in Conn : Queued(d)' <=> Queued(d)
  BY DEF Queued, Waits
<1>4. CASE program = "download"
  <2>1. PICK s \in FilesNet :
          /\ s = Files!sendHere(n, c, Files!Whole)
          /\ s.loop = n.loop /\ s.state = n.state /\ s.queue = n.queue /\ s.notifies = n.notifies
          /\ Only(c, n.output, s.output) /\ Only(c, n.unwritten, s.unwritten)
          /\ s.output[c] = Append(n.output[c], Files!Whole) /\ s.unwritten[c] = n.notifies
    <3>1. Files!Whole \in Seq(Nat)
      BY MessagesType DEF FilesInv
    <3> QED
      BY <3>1, <1>2, SendHere
  <2>2. net' = Files!shutdown(s, c) /\ fp' = fp /\ context' = context
    BY <1>2, <1>4, <2>1 DEF Files!onConnectionUp, Files!SendWhole
  <2>3. s.state[c] = "connected" /\ ~net.notifies
    BY <1>1, <1>2, <1>4, <2>1 DEF FilesInv, FilesTypeOK
  <2>4. /\ net' \in FilesNet /\ net'.queue = net.queue /\ net'.loop = net.loop
        /\ net'.notifies = net.notifies
        /\ net'.output[c] = <<Files!Whole>> /\ ~net'.unwritten[c] /\ net'.state[c] = "disconnecting"
        /\ \A d \in Conn : d # c => /\ net'.output[d] = net.output[d] /\ net'.state[d] = net.state[d]
                                    /\ net'.unwritten[d] = net.unwritten[d]
    <3>1. PICK t \in FilesNet :
            /\ t = Files!shutdown(s, c)
            /\ t.loop = s.loop /\ t.queue = s.queue /\ t.notifies = s.notifies
            /\ t.output = s.output /\ t.unwritten = s.unwritten
            /\ t.state[c] = "disconnecting" /\ Only(c, s.state, t.state)
      BY <2>3, ShutsDown
    <3> QED
      BY <1>1, <1>2, <2>1, <2>2, <2>3, <3>1
  <2>5. FilesTypeOK' /\ CallbacksOnce'
    BY <1>1, <1>3, <2>2, <2>4 DEF FilesInv, FilesTypeOK, CallbacksOnce
  <2>6. Files!Messages' = <<Files!Whole>>
    BY <1>1, <1>4, MessagesType DEF FilesInv, Files!Messages, Files!Whole, Files!Missing
  <2>7. Served(c)'
    BY <1>1, <1>3, <1>4, <2>2, <2>4, <2>6 DEF Served, WithoutFile, Due, Files!NeverOpened
  <2> QED
    BY <1>1, <1>3, <2>2, <2>4, <2>5, <2>7, OneServed DEF Alike
<1>5. CASE program # "download" /\ file = Files!Missing
  <2>1. /\ net' = Files!shutdown(n, c) /\ fp' = fp /\ context' = context
    BY <1>2, <1>5 DEF Files!onConnectionUp, Files!SendFirst
  <2>2. /\ net' \in FilesNet /\ net'.queue = net.queue /\ net'.loop = net.loop
        /\ net'.notifies = net.notifies /\ net'.output = net.output /\ net'.unwritten = net.unwritten
        /\ net'.state[c] = "disconnecting" /\ Only(c, net.state, net'.state)
    <3>1. PICK t \in FilesNet :
            /\ t = Files!shutdown(n, c)
            /\ t.loop = n.loop /\ t.queue = n.queue /\ t.notifies = n.notifies
            /\ t.output = n.output /\ t.unwritten = n.unwritten
            /\ t.state[c] = "disconnecting" /\ Only(c, n.state, t.state)
      BY <1>2, ShutsDown
    <3> QED
      BY <1>2, <2>1, <3>1
  <2>3. FilesTypeOK' /\ CallbacksOnce'
    BY <1>1, <1>3, <2>1, <2>2 DEF FilesInv, FilesTypeOK, CallbacksOnce
  <2>4. Files!Messages' = <<>> /\ file' = Files!Missing'
    BY <1>1, <1>5, MessagesType DEF FilesInv, Files!Messages, Files!Whole, Files!Missing
  <2>5. Served(c)'
    BY <1>1, <1>3, <1>5, <2>1, <2>2, <2>4 DEF Served, WithoutFile, Due, Files!NeverOpened
  <2> QED
    BY <1>1, <1>3, <2>1, <2>2, <2>3, <2>5, OneServed DEF Alike
<1>6. CASE program # "download" /\ file # Files!Missing
  <2> DEFINE b == Files!Block(Files!Opened)
             f == Files!Advanced(Files!Opened)
  <2>0. file \in Seq(Nat) /\ Len(file) \in Nat
    BY DEF FilesInv, FilesTypeOK
  <2>1. /\ b = IF file = <<>> THEN <<>> ELSE <<file[1]>>
        /\ b \in Seq(Nat)
        /\ f \in OpenFile /\ f.opened /\ f.closed = 0 /\ ~f.stale
        /\ f.pos = IF file = <<>> THEN 0 ELSE 1
    <3> DEFINE o == Files!Opened
    <3>1. o \in OpenFile /\ o.pos = 0 /\ o.opened /\ o.closed = 0 /\ ~o.stale
      BY DEF Files!Opened, Files!NeverOpened, OpenFile
    <3> HIDE DEF o
    <3>2. b = IF file = <<>> THEN <<>> ELSE <<file[1]>>
      BY <2>0, <3>1 DEF Files!Block, o
    <3>3. b \in Seq(Nat) /\ Len(b) = IF file = <<>> THEN 0 ELSE 1
      BY <2>0, <3>2
    <3> HIDE DEF b
    <3>4. f = [o EXCEPT !.pos = @ + Len(b)]
      BY DEF Files!Advanced, b, o
    <3>5. f \in OpenFile /\ f.pos = Len(b) /\ f.opened /\ f.closed = 0 /\ ~f.stale
      BY <3>1, <3>3, <3>4 DEF OpenFile
    <3> QED
      BY <3>2, <3>3, <3>5
  <2> HIDE DEF b, f
  <2>2. /\ net' = Files!sendHere(n, c, b)
        /\ fp' = [fp EXCEPT ![c] = f] /\ context' = [context EXCEPT ![c] = "fp"]
    BY <1>2, <1>6 DEF Files!onConnectionUp, Files!SendFirst, b, f
  <2>3. n.state[c] = "connected" /\ n.notifies
    BY <1>1, <1>2, <1>6 DEF FilesInv, FilesTypeOK
  <2>4. /\ net' \in FilesNet /\ net'.queue = net.queue /\ net'.loop = net.loop
        /\ net'.notifies = net.notifies
        /\ net'.output[c] = Append(net.output[c], b) /\ net'.unwritten[c] /\ net'.state[c] = "connected"
        /\ \A d \in Conn : d # c => /\ net'.output[d] = net.output[d] /\ net'.state[d] = net.state[d]
                                    /\ net'.unwritten[d] = net.unwritten[d]
    <3>1. PICK t \in FilesNet :
            /\ t = Files!sendHere(n, c, b)
            /\ t.loop = n.loop /\ t.state = n.state /\ t.queue = n.queue /\ t.notifies = n.notifies
            /\ Only(c, n.output, t.output) /\ Only(c, n.unwritten, t.unwritten)
            /\ t.output[c] = Append(n.output[c], b) /\ t.unwritten[c] = n.notifies
      BY <2>1, <2>3, SendHere
    <3> QED
      BY <1>2, <2>2, <2>3, <3>1
  <2>5. fp \in [Conn -> OpenFile] /\ context \in [Conn -> {"empty", "null", "fp"}] /\ f \in OpenFile
    BY <2>1 DEF FilesInv, FilesTypeOK, OpenFile
  <2>6. /\ net'.output[c] = <<b>> /\ fp'[c] = f /\ context'[c] = "fp"
        /\ \A d \in Conn : d # c => fp'[d] = fp[d] /\ context'[d] = context[d]
    BY <1>1, <2>2, <2>4, <2>5
  <2>7. FilesTypeOK'
    BY <1>1, <2>2, <2>4, <2>5 DEF FilesInv, FilesTypeOK
  <2>8. CallbacksOnce'
    BY <1>1, <1>3, <2>4 DEF FilesInv, CallbacksOnce, WithoutFile, Due
  <2>9. /\ Files!Messages' = Files!Messages /\ file' # Files!Missing'
        /\ Len(Files!Messages) >= 1 /\ Files!Messages[1] = b
    <3>1. file = <<>> => Files!Messages = <<<<>>>> /\ b = <<>>
      BY <1>6, <2>1, MessagesType DEF FilesInv
    <3>2. file # <<>> => /\ Files!Messages = [i \in DOMAIN file |-> <<file[i]>>]
                         /\ Len(Files!Messages) = Len(file) /\ Len(file) >= 1 /\ b = <<file[1]>>
      BY <1>6, <2>0, <2>1, MessagesType DEF FilesInv
    <3> QED
      BY <1>1, <1>6, <2>0, <3>1, <3>2 DEF Files!Messages, Files!Whole, Files!Missing
  <2>10. Sending(c)'
    BY <1>1, <2>0, <2>1, <2>4, <2>6 DEF Sending, Untouched, Due, WithoutFile
  <2>11. Served(c)'
    BY <1>1, <1>6, <2>1, <2>4, <2>6, <2>9, <2>10 DEF Served, WithFile
  <2> QED
    BY <1>1, <1>3, <2>4, <2>6, <2>7, <2>8, <2>11, OneServed DEF Alike
<1> QED
  BY <1>4, <1>5, <1>6

LEMMA DownKeepsInv ==
  ASSUME FilesInv, program' = program, NEW c \in Conn, Files!onConnectionDown(c)
  PROVE  FilesInv'
<1> USE DEF Only
<1>1. /\ net \in FilesNet /\ file' = file /\ context' = context /\ Served(c)
      /\ net.state[c] \in {"connected", "disconnecting", "shut"}
      /\ net' = Files!disconnected(net, c)
      /\ fp \in [Conn -> OpenFile] /\ late \in [Conn -> BOOLEAN]
  BY DEF FilesInv, FilesTypeOK, Files!onConnectionDown, Files!MayClose, Files!Open
<1>2. /\ net' \in FilesNet
      /\ net'.loop = net.loop /\ net'.queue = net.queue /\ net'.notifies = net.notifies
      /\ net'.output = net.output
      /\ ~net'.unwritten[c] /\ Only(c, net.unwritten, net'.unwritten)
      /\ net'.state[c] = "disconnected" /\ Only(c, net.state, net'.state)
  <2>1. PICK t \in FilesNet :
          /\ t = Files!disconnected(net, c)
          /\ t.loop = net.loop /\ t.queue = net.queue /\ t.notifies = net.notifies
          /\ t.output = net.output
          /\ ~t.unwritten[c] /\ Only(c, net.unwritten, t.unwritten)
          /\ t.state[c] = "disconnected" /\ Only(c, net.state, t.state)
    BY <1>1, Disconnects
  <2> QED
    BY <1>1, <2>1
<1>3. \A d \in Conn : Queued(d)' <=> Queued(d)
  BY <1>2 DEF Queued, Waits
<1>4. /\ late'[c] = Queued(c) /\ Only(c, late, late') /\ late' \in [Conn -> BOOLEAN]
  <2>1. Files!Queued(net, "writeComplete", c) <=> Queued(c)
    <3>1. PICK q \in [Loop -> Seq(Callback)] : q = net.queue
      BY <1>1 DEF FilesNet
    <3> QED
      BY <3>1, Callbacks DEF Files!Queued, Queued
  <2>2. late' = [late EXCEPT ![c] = Files!Queued(net, "writeComplete", c)]
    BY DEF Files!onConnectionDown
  <2>3. Files!Queued(net, "writeComplete", c) \in BOOLEAN
    BY DEF Files!Queued
  <2>4. Queued(c) \in BOOLEAN
    BY DEF Queued, Waits
  <2>5. Files!Queued(net, "writeComplete", c) = Queued(c)
    BY <2>1, <2>3, <2>4
  <2> QED
    BY <1>1, <2>2, <2>4, <2>5
<1>5. /\ fp' \in [Conn -> OpenFile] /\ Only(c, fp, fp')
      /\ fp'[c].opened = fp[c].opened /\ fp'[c].stale = fp[c].stale
      /\ fp'[c].closed = IF program = "download2" /\ context[c] = "fp" THEN fp[c].closed + 1 ELSE fp[c].closed
      /\ ~(program = "download2" /\ context[c] = "fp") => fp' = fp
  <2>1. CASE program = "download2" /\ context[c] = "fp"
    <3>1. fp' = [fp EXCEPT ![c] = Files!Closed(fp[c])]
      BY <2>1 DEF Files!onConnectionDown
    <3>2. PICK f \in OpenFile : /\ f = Files!Closed(fp[c]) /\ f.opened = fp[c].opened
                                /\ f.stale = fp[c].stale /\ f.closed = fp[c].closed + 1
      BY <1>1, Closes
    <3> QED
      BY <1>1, <2>1, <3>1, <3>2
  <2>2. CASE ~(program = "download2" /\ context[c] = "fp")
    BY <1>1, <2>2 DEF Files!onConnectionDown
  <2> QED
    BY <2>1, <2>2
<1>6. FilesTypeOK'
  BY <1>1, <1>2, <1>4, <1>5 DEF FilesInv, FilesTypeOK
<1>7. CallbacksOnce'
  BY <1>1, <1>2, <1>3 DEF FilesInv, CallbacksOnce
<1>8. Files!Messages' = Files!Messages /\ Files!Missing' = Files!Missing
  BY <1>1 DEF Files!Messages, Files!Whole, Files!Missing
<1>9. Served(c)'
  <2>1. CASE program = "download" \/ file = Files!Missing
    <3>1. WithoutFile(c)
      BY <1>1, <2>1 DEF Served
    <3>2. WithoutFile(c)'
      BY <3>1, <1>1, <1>2, <1>3, <1>4, <1>5, <1>8 DEF WithoutFile, Due, Files!NeverOpened
    <3> QED
      BY <2>1, <3>2, <1>1, <1>8 DEF Served
  <2>2. CASE ~(program = "download" \/ file = Files!Missing)
    <3>1. WithFile(c) /\ (Sending(c) \/ AllSent(c))
      BY <1>1, <2>2 DEF Served, WithFile
    <3>2. /\ ~fp[c].stale /\ ~late[c]
          /\ \/ fp[c].closed = 0 /\ context[c] = "fp"
             \/ program = "download2" /\ fp[c].closed = 1 /\ context[c] = "null"
      BY <3>1 DEF Sending, AllSent, Untouched
    <3>3. program \in {"download2", "download3"}
      BY <2>2 DEF FilesInv, FilesTypeOK, Files!Programs
    <3>4. Gone(c)'
      BY <3>2, <3>3, <1>1, <1>2, <1>3, <1>4, <1>5 DEF Gone
    <3>5. WithFile(c)'
      BY <3>1, <3>4, <1>2, <1>5, <1>8 DEF WithFile
    <3> QED
      BY <2>2, <3>5, <1>1, <1>2, <1>8 DEF Served
  <2> QED
    BY <2>1, <2>2
<1> QED
  BY <1>1, <1>2, <1>3, <1>4, <1>5, <1>6, <1>7, <1>9, OneServed DEF Alike

(* A callback is only ever due for a FILE.                                *)
LEMMA CallbackTaken ==
  ASSUME FilesInv, NEW c \in Conn, Files!Completed(c),
         NEW n, n = Files!called(net, net.loop[c])
  PROVE  /\ n \in FilesNet
         /\ n.loop = net.loop /\ n.state = net.state /\ n.notifies = net.notifies
         /\ n.output = net.output /\ n.unwritten = net.unwritten
         /\ InOwnLoop(net.loop, n.queue)
         /\ \A d \in Conn : Waits(n.queue, d) <=> Queued(d) /\ d # c
         /\ Queued(c) /\ ~net.unwritten[c]
         /\ program # "download" /\ file # Files!Missing /\ net.state[c] # "idle"
         /\ WithFile(c)
         /\ \/ Sending(c) /\ net.state[c] = "connected"
            \/ Gone(c) /\ net.state[c] = "disconnected" /\ late[c]
<1>1. /\ net \in FilesNet /\ net.queue \in [Loop -> Seq(Callback)] /\ net.loop \in [Conn -> Loop]
      /\ CallbacksOnce /\ Served(c) /\ net.state[c] \in States
  BY DEF FilesInv, FilesTypeOK, FilesNet
<1>2. net.queue[net.loop[c]] # <<>> /\ c = Head(net.queue[net.loop[c]]).conn
  BY DEF Files!Completed, Files!MayCall
<1>3. PICK l \in Loop : l = net.loop[c]
  BY <1>1
<1>4. /\ n \in FilesNet
      /\ n.loop = net.loop /\ n.state = net.state /\ n.notifies = net.notifies
      /\ n.output = net.output /\ n.unwritten = net.unwritten
      /\ n.queue = [net.queue EXCEPT ![l] = Tail(@)]
  BY <1>1, <1>2, <1>3, Calls
<1>5. /\ InOwnLoop(net.loop, n.queue)
      /\ \A d \in Conn : Waits(n.queue, d) <=> Waits(net.queue, d) /\ d # c
      /\ Waits(net.queue, c)
  <2>1. PICK queue \in [Loop -> Seq(Callback)] : queue = net.queue
    BY <1>1
  <2>2. PICK loop \in [Conn -> Loop] : loop = net.loop
    BY <1>1
  <2>3. queue[l] # <<>> /\ c = Head(queue[l]).conn /\ n.queue = [queue EXCEPT ![l] = Tail(@)]
    BY <1>2, <1>3, <1>4, <2>1
  <2>4. InOwnLoop(loop, queue)
    BY <1>1, <2>1, <2>2 DEF CallbacksOnce
  <2>5. /\ InOwnLoop(loop, n.queue) /\ Waits(queue, c)
        /\ \A d \in Conn : Waits(n.queue, d) <=> Waits(queue, d) /\ d # c
    <3>1. Takes(loop, queue, l, c, n.queue)
      BY <2>3 DEF Takes
    <3> QED
      BY <2>4, <3>1, QueueShrinks, Zenon
  <2> QED
    BY <2>1, <2>2, <2>5
<1>6. Queued(c) /\ Due(c) /\ ~net.unwritten[c]
  BY <1>1, <1>5 DEF Queued, Due, CallbacksOnce
<1>7. program # "download" /\ file # Files!Missing /\ net.state[c] # "idle" /\ WithFile(c)
  BY <1>1, <1>6 DEF Served, WithoutFile
<1>8. \/ Sending(c) /\ net.state[c] = "connected"
      \/ Gone(c) /\ net.state[c] = "disconnected" /\ late[c]
  BY <1>1, <1>6, <1>7 DEF WithFile, AllSent, Gone, States
<1> QED
  BY <1>4, <1>5, <1>6, <1>7, <1>8 DEF Queued

LEMMA WriteCompleteKeepsInv ==
  ASSUME FilesInv, program' = program, NEW c \in Conn, Files!onWriteComplete(c)
  PROVE  FilesInv'
<1> USE DEF Only
<1>1. /\ Files!Completed(c) /\ file' = file /\ late' = late
      /\ fp \in [Conn -> OpenFile] /\ fp[c] \in OpenFile /\ fp[c].closed = 0
      /\ context \in [Conn -> {"empty", "null", "fp"}] /\ net \in FilesNet
      /\ file \in Seq(Nat) /\ Len(file) \in Nat /\ FilesTypeOK /\ CallbacksOnce
      /\ net.output[c] \in Seq(Seq(Nat)) /\ Len(net.output[c]) \in Nat
  BY DEF FilesInv, FilesTypeOK, FilesNet, Files!onWriteComplete
<1>2. PICK n \in FilesNet : n = Files!called(net, net.loop[c])
  BY <1>1, CallbackTaken
<1>3. /\ n \in FilesNet
      /\ n.loop = net.loop /\ n.state = net.state /\ n.notifies = net.notifies
      /\ n.output = net.output /\ n.unwritten = net.unwritten
      /\ InOwnLoop(net.loop, n.queue)
      /\ \A d \in Conn : Waits(n.queue, d) <=> Queued(d) /\ d # c
      /\ Queued(c) /\ ~net.unwritten[c]
      /\ program # "download" /\ file # Files!Missing /\ net.state[c] # "idle"
      /\ WithFile(c)
      /\ \/ Sending(c) /\ net.state[c] = "connected"
         \/ Gone(c) /\ net.state[c] = "disconnected" /\ late[c]
  BY <1>1, <1>2, CallbackTaken
<1> DEFINE b == Files!Block(fp[c])
           f == Files!Advanced(fp[c])
<1>4. /\ b = IF fp[c].pos < Len(file) THEN <<file[fp[c].pos + 1]>> ELSE <<>>
      /\ b \in Seq(Nat)
      /\ f \in OpenFile /\ f.opened = fp[c].opened /\ f.stale = fp[c].stale /\ f.closed = fp[c].closed
      /\ f.pos = IF fp[c].pos < Len(file) THEN fp[c].pos + 1 ELSE fp[c].pos
  BY <1>1, Advances
<1>5. /\ b # <<>> => /\ net' = Files!sendHere(n, c, b)
                     /\ fp' = [fp EXCEPT ![c] = f] /\ context' = context
      /\ b = <<>> => /\ net' = Files!shutdown(n, c)
                     /\ IF program = "download2"
                        THEN fp' = [fp EXCEPT ![c] = Files!Closed(fp[c])] /\ context' = [context EXCEPT ![c] = "null"]
                        ELSE fp' = fp /\ context' = context
  BY <1>2 DEF Files!onWriteComplete, Files!Close
<1> HIDE DEF b, f
<1>6. /\ Files!Messages' = Files!Messages /\ Files!Missing' = Files!Missing
      /\ Files!Messages \in Seq(Seq(Nat)) /\ Len(Files!Messages) \in Nat
      /\ file = <<>> => Files!Messages = <<<<>>>> /\ Len(Files!Messages) = 1
      /\ file # <<>> => /\ \A i \in 1 .. Len(file) : Files!Messages[i] = <<file[i]>>
                       /\ Len(Files!Messages) = Len(file) /\ Len(file) >= 1
  <2>1. Files!Messages' = Files!Messages /\ Files!Missing' = Files!Missing
    BY <1>1 DEF Files!Messages, Files!Whole, Files!Missing
  <2>2. Files!Messages \in Seq(Seq(Nat))
    BY <1>1, MessagesType
  <2>3. file = <<>> => Files!Messages = <<<<>>>>
    BY <1>1, <1>3, MessagesType
  <2>4. file # <<>> => /\ Files!Messages = [i \in DOMAIN file |-> <<file[i]>>]
                       /\ Len(Files!Messages) = Len(file) /\ Len(file) >= 1
    BY <1>1, <1>3, MessagesType
  <2> QED
    BY <2>1, <2>2, <2>3, <2>4, <1>1
<1>7. CASE b # <<>>
  <2>1. PICK t \in FilesNet :
          /\ t = Files!sendHere(n, c, b)
          /\ t.loop = n.loop /\ t.state = n.state /\ t.queue = n.queue /\ t.notifies = n.notifies
          /\ n.state[c] # "connected" => t.output = n.output /\ t.unwritten = n.unwritten
          /\ Only(c, n.output, t.output) /\ Only(c, n.unwritten, t.unwritten)
          /\ n.state[c] = "connected" => /\ t.output[c] = Append(n.output[c], b)
                                        /\ t.unwritten[c] = n.notifies
    <3>1. b \in Seq(Nat) /\ n \in FilesNet
      BY <1>2, <1>4
    <3> QED
      BY <3>1, SendHere
  <2>2. /\ net' \in FilesNet /\ net'.loop = net.loop /\ net'.state = net.state
        /\ net'.queue = n.queue /\ net'.notifies = net.notifies /\ net.notifies
        /\ net.state[c] # "connected" => net'.output = net.output /\ ~net'.unwritten[c]
        /\ net.state[c] = "connected" => /\ net'.output[c] = Append(net.output[c], b)
                                        /\ net'.unwritten[c]
        /\ \A d \in Conn : d # c => net'.output[d] = net.output[d] /\ net'.unwritten[d] = net.unwritten[d]
    BY <1>1, <1>3, <1>5, <1>7, <2>1 DEF FilesTypeOK
  <2>3. /\ fp' \in [Conn -> OpenFile] /\ fp'[c] = f /\ context' = context
        /\ \A d \in Conn : d # c => fp'[d] = fp[d]
    BY <1>1, <1>4, <1>5, <1>7
  <2>4. \A d \in Conn : Queued(d)' <=> Queued(d) /\ d # c
    BY <1>3, <2>2 DEF Queued, Waits
  <2>5. FilesTypeOK'
    BY <1>1, <2>2, <2>3 DEF FilesTypeOK
  <2>6. CallbacksOnce'
    BY <1>1, <1>3, <2>2, <2>4 DEF CallbacksOnce
  <2>7. CASE Sending(c) /\ net.state[c] = "connected"
    <3>1. fp[c].pos < Len(file) /\ file # <<>> /\ fp[c].pos \in Nat /\ b = <<file[fp[c].pos + 1]>>
      BY <1>1, <1>4, <1>7 DEF OpenFile
    <3>2. Sending(c)'
      <4>1. Untouched(c)' /\ Due(c)'
        BY <1>1, <1>4, <2>2, <2>3, <2>7 DEF Sending, Untouched, Due
      <4>2. fp[c].pos = Len(net.output[c])
        BY <2>7, <3>1 DEF Sending
      <4>3. Len(net'.output[c]) = Len(net.output[c]) + 1
        BY <1>1, <1>4, <2>2, <2>7
      <4> QED
        BY <1>1, <1>4, <2>3, <3>1, <4>1, <4>2, <4>3 DEF Sending
    <3>3. /\ Len(net'.output[c]) <= Len(Files!Messages)
          /\ \A i \in 1 .. Len(net'.output[c]) : net'.output[c][i] = Files!Messages[i]
      <4>1. /\ Len(net'.output[c]) = Len(net.output[c]) + 1 /\ Len(net.output[c]) = fp[c].pos
            /\ \A i \in 1 .. Len(net.output[c]) : net'.output[c][i] = net.output[c][i]
            /\ net'.output[c][Len(net.output[c]) + 1] = b
        <5>1. PICK o \in Seq(Seq(Nat)) : o = net.output[c]
          BY <1>1
        <5>2. net'.output[c] = Append(o, b) /\ Len(o) = fp[c].pos
          BY <2>2, <2>7, <3>1, <5>1 DEF Sending
        <5>3. /\ Len(Append(o, b)) = Len(o) + 1 /\ Append(o, b)[Len(o) + 1] = b
              /\ \A i \in 1 .. Len(o) : Append(o, b)[i] = o[i]
          BY <1>4
        <5> QED
          BY <5>1, <5>2, <5>3
      <4>2. \A i \in 1 .. Len(net.output[c]) : net.output[c][i] = Files!Messages[i]
        BY <1>3 DEF WithFile
      <4>3. Files!Messages[fp[c].pos + 1] = b /\ fp[c].pos + 1 <= Len(Files!Messages)
        BY <1>6, <3>1
      <4>4. Len(net'.output[c]) <= Len(Files!Messages)
        BY <4>1, <4>3
      <4>5. ASSUME NEW i \in 1 .. Len(net'.output[c]) PROVE net'.output[c][i] = Files!Messages[i]
        <5>1. i \in 1 .. Len(net.output[c]) \/ i = Len(net.output[c]) + 1
          BY <1>1, <4>1
        <5>2. i = Len(net.output[c]) + 1 => net'.output[c][i] = b /\ Files!Messages[i] = b
          BY <4>1, <4>3
        <5> QED
          BY <4>1, <4>2, <5>1, <5>2
      <4> QED
        BY <4>4, <4>5
    <3>4. WithFile(c)'
      BY <1>3, <1>4, <1>6, <2>2, <2>3, <2>7, <3>2, <3>3 DEF WithFile
    <3>5. Served(c)'
      BY <1>1, <1>3, <1>6, <2>2, <3>4 DEF Served
    <3> QED
      BY <1>1, <1>3, <2>2, <2>3, <2>4, <2>5, <2>6, <3>5, OneServed DEF Alike
  <2>8. CASE Gone(c) /\ net.state[c] = "disconnected"
    <3>1. Gone(c)'
      BY <1>1, <1>4, <2>2, <2>3, <2>4, <2>8 DEF Gone
    <3>2. WithFile(c)'
      <4>1. /\ net'.output[c] = net.output[c] /\ net'.state[c] = "disconnected"
            /\ fp'[c].opened = fp[c].opened
        BY <1>4, <2>2, <2>3, <2>8
      <4> QED
        BY <1>3, <1>6, <3>1, <4>1 DEF WithFile
    <3>3. Served(c)'
      BY <1>1, <1>3, <1>6, <2>2, <3>2 DEF Served
    <3> QED
      BY <1>1, <1>3, <2>2, <2>3, <2>4, <2>5, <2>6, <3>3, OneServed DEF Alike
  <2> QED
    BY <1>3, <2>7, <2>8
<1>8. CASE b = <<>>
  <2>1. PICK t \in FilesNet :
          /\ t = Files!shutdown(n, c)
          /\ t.loop = n.loop /\ t.queue = n.queue /\ t.notifies = n.notifies
          /\ t.output = n.output /\ t.unwritten = n.unwritten
          /\ t.state[c] = IF n.state[c] = "connected" THEN "disconnecting" ELSE n.state[c]
          /\ Only(c, n.state, t.state)
    BY <1>3, ShutsDown
  <2>2. /\ net' \in FilesNet /\ net'.loop = net.loop /\ net'.queue = n.queue
        /\ net'.notifies = net.notifies /\ net'.output = net.output /\ net'.unwritten = net.unwritten
        /\ net'.state[c] = IF net.state[c] = "connected" THEN "disconnecting" ELSE net.state[c]
        /\ \A d \in Conn : d # c => net'.state[d] = net.state[d]
    BY <1>3, <1>5, <1>8, <2>1
  <2>3. /\ fp' \in [Conn -> OpenFile] /\ context' \in [Conn -> {"empty", "null", "fp"}]
        /\ fp'[c].opened = fp[c].opened /\ fp'[c].stale = fp[c].stale
        /\ IF program = "download2" THEN fp'[c].closed = 1 /\ context'[c] = "null"
           ELSE fp'[c].closed = 0 /\ context'[c] = context[c]
        /\ \A d \in Conn : d # c => fp'[d] = fp[d] /\ context'[d] = context[d]
    <3>1. PICK g \in OpenFile : /\ g = Files!Closed(fp[c]) /\ g.opened = fp[c].opened
                                /\ g.stale = fp[c].stale /\ g.closed = fp[c].closed + 1
      BY <1>1, Closes
    <3>2. CASE program = "download2"
      <4>1. fp' = [fp EXCEPT ![c] = g] /\ context' = [context EXCEPT ![c] = "null"]
        BY <1>5, <1>8, <3>1, <3>2
      <4>2. g.closed = 1
        BY <1>1, <3>1
      <4> QED
        BY <1>1, <3>1, <3>2, <4>1, <4>2
    <3>3. CASE program # "download2"
      BY <1>1, <1>5, <1>8, <3>3
    <3> QED
      BY <3>2, <3>3
  <2>4. \A d \in Conn : Queued(d)' <=> Queued(d) /\ d # c
    BY <1>3, <2>2 DEF Queued, Waits
  <2>5. FilesTypeOK'
    BY <1>1, <2>2, <2>3 DEF FilesTypeOK
  <2>6. CallbacksOnce'
    BY <1>1, <1>3, <2>2, <2>4 DEF CallbacksOnce
  <2>7. CASE Sending(c) /\ net.state[c] = "connected"
    <3>1. Len(net.output[c]) = Len(Files!Messages)
      <4>1. fp[c].pos \in Nat /\ fp[c].pos = Len(file)
        BY <1>1, <1>4, <1>8, <2>7 DEF Sending, OpenFile
      <4> QED
        BY <1>6, <2>7, <4>1 DEF Sending
    <3>2. net.output[c] = Files!Messages
      BY <1>1, <1>3, <1>6, <3>1, SeqEqual DEF WithFile
    <3>3. AllSent(c)'
      BY <1>1, <1>3, <1>6, <2>2, <2>3, <2>4, <2>7, <3>2 DEF AllSent, Sending, Untouched, Due
    <3>4. WithFile(c)'
      BY <1>3, <1>6, <2>2, <2>3, <2>7, <3>3 DEF WithFile
    <3>5. Served(c)'
      BY <1>1, <1>3, <1>6, <2>2, <2>7, <3>4 DEF Served
    <3> QED
      BY <1>1, <1>3, <2>2, <2>3, <2>4, <2>5, <2>6, <3>5, OneServed DEF Alike
  <2>8. CASE Gone(c) /\ net.state[c] = "disconnected"
    <3>1. program # "download2"
      BY <1>1, <2>8 DEF Gone
    <3>2. Gone(c)'
      BY <1>1, <2>2, <2>3, <2>4, <2>8, <3>1 DEF Gone
    <3>3. WithFile(c)'
      BY <1>3, <1>6, <2>2, <2>3, <2>8, <3>2 DEF WithFile
    <3>4. Served(c)'
      BY <1>1, <1>3, <1>6, <2>2, <2>8, <3>3 DEF Served
    <3> QED
      BY <1>1, <1>3, <2>2, <2>3, <2>4, <2>5, <2>6, <3>4, OneServed DEF Alike
  <2> QED
    BY <1>3, <2>7, <2>8
<1> QED
  BY <1>7, <1>8

LEMMA StaleKeepsInv ==
  ASSUME FilesInv, program' = program, NEW c \in Conn, Files!onWriteCompleteStale(c)
  PROVE  FilesInv'
<1> USE DEF Only
<1>1. /\ Files!Completed(c) /\ file' = file /\ late' = late
      /\ fp \in [Conn -> OpenFile] /\ fp[c] \in OpenFile /\ fp[c].closed > 0
      /\ context \in [Conn -> {"empty", "null", "fp"}] /\ net \in FilesNet
      /\ FilesTypeOK /\ CallbacksOnce
  BY DEF FilesInv, FilesTypeOK, Files!onWriteCompleteStale
<1>2. PICK n \in FilesNet : n = Files!called(net, net.loop[c])
  BY <1>1, CallbackTaken
<1>3. /\ n.loop = net.loop /\ n.state = net.state /\ n.notifies = net.notifies
      /\ n.output = net.output /\ n.unwritten = net.unwritten
      /\ InOwnLoop(net.loop, n.queue)
      /\ \A d \in Conn : Waits(n.queue, d) <=> Queued(d) /\ d # c
      /\ ~net.unwritten[c]
      /\ program # "download" /\ file # Files!Missing /\ net.state[c] # "idle"
      /\ WithFile(c)
      /\ \/ Sending(c) /\ net.state[c] = "connected"
         \/ Gone(c) /\ net.state[c] = "disconnected" /\ late[c]
  BY <1>1, <1>2, CallbackTaken
<1>4. /\ Gone(c) /\ net.state[c] = "disconnected" /\ late[c]
      /\ program = "download2"
  <2>1. ~Sending(c)
    BY <1>1 DEF Sending, Untouched
  <2>2. Gone(c) /\ net.state[c] = "disconnected" /\ late[c]
    BY <1>3, <2>1
  <2>3. program = "download2"
    BY <1>1, <2>2 DEF Gone
  <2> QED
    BY <2>2, <2>3
<1>5. net' = n
  BY <1>2 DEF Files!onWriteCompleteStale
<1>6. /\ fp' \in [Conn -> OpenFile] /\ context' \in [Conn -> {"empty", "null", "fp"}]
      /\ fp'[c].opened = fp[c].opened /\ fp'[c].closed >= 1
      /\ \A d \in Conn : d # c => fp'[d] = fp[d] /\ context'[d] = context[d]
  <2>1. CASE fp' = [fp EXCEPT ![c].stale = TRUE] /\ context' = context
    <3>1. [fp[c] EXCEPT !.stale = TRUE] \in OpenFile
      BY <1>1 DEF OpenFile
    <3>2. PICK g \in OpenFile : /\ g = [fp[c] EXCEPT !.stale = TRUE]
                                /\ g.opened = fp[c].opened /\ g.closed = fp[c].closed
      BY <1>1, <3>1 DEF OpenFile
    <3>3. fp' = [fp EXCEPT ![c] = g]
      BY <2>1, <3>2
    <3>4. fp[c].closed \in Nat
      BY <1>1 DEF OpenFile
    <3> QED
      BY <1>1, <2>1, <3>2, <3>3, <3>4
  <2>2. CASE /\ fp' = [fp EXCEPT ![c] = [Files!Closed(fp[c]) EXCEPT !.stale = TRUE]]
             /\ context' = [context EXCEPT ![c] = "null"]
    <3>1. PICK g \in OpenFile : /\ g = Files!Closed(fp[c]) /\ g.opened = fp[c].opened
                                /\ g.closed = fp[c].closed + 1
      BY <1>1, Closes
    <3>2. PICK h \in OpenFile : /\ h = [g EXCEPT !.stale = TRUE]
                                /\ h.opened = g.opened /\ h.closed = g.closed
      <4>1. [g EXCEPT !.stale = TRUE] \in OpenFile
        BY DEF OpenFile
      <4> QED
        BY <4>1 DEF OpenFile
    <3>3. fp' = [fp EXCEPT ![c] = h]
      BY <2>2, <3>1, <3>2
    <3>4. fp[c].closed \in Nat
      BY <1>1 DEF OpenFile
    <3> QED
      BY <1>1, <2>2, <3>1, <3>2, <3>3, <3>4
  <2> QED
    BY <2>1, <2>2 DEF Files!onWriteCompleteStale
<1>7. \A d \in Conn : Queued(d)' <=> Queued(d) /\ d # c
  BY <1>3, <1>5 DEF Queued, Waits
<1>8. FilesTypeOK'
  BY <1>1, <1>3, <1>5, <1>6 DEF FilesTypeOK
<1>9. CallbacksOnce'
  BY <1>1, <1>3, <1>5, <1>7 DEF CallbacksOnce
<1>10. Served(c)'
  <2>1. Files!Messages' = Files!Messages /\ Files!Missing' = Files!Missing
    BY <1>1 DEF Files!Messages, Files!Whole, Files!Missing
  <2>2. Gone(c)'
    BY <1>1, <1>3, <1>4, <1>5, <1>6, <1>7 DEF Gone
  <2>3. WithFile(c)'
    <3>1. net'.output[c] = net.output[c] /\ net'.state[c] = "disconnected"
      BY <1>3, <1>4, <1>5
    <3> QED
      BY <1>3, <1>6, <2>1, <2>2, <3>1 DEF WithFile
  <2> QED
    BY <1>1, <1>3, <1>4, <1>5, <2>1, <2>3 DEF Served
<1> QED
  BY <1>1, <1>3, <1>5, <1>6, <1>7, <1>8, <1>9, <1>10, OneServed DEF Alike

LEMMA DestroyedKeepsInv ==
  ASSUME FilesInv, program' = program, NEW c \in Conn, Files!Destroyed(c)
  PROVE  FilesInv'
<1> USE DEF Only
<1>1. /\ net \in FilesNet /\ file' = file /\ context' = context /\ late' = late /\ Served(c)
      /\ net.state[c] = "disconnected"
      /\ fp \in [Conn -> OpenFile] /\ fp[c] \in OpenFile
  BY DEF FilesInv, FilesTypeOK, Files!Destroyed
<1>2. /\ net' \in FilesNet
      /\ net'.loop = net.loop /\ net'.queue = net.queue /\ net'.notifies = net.notifies
      /\ net'.output = net.output /\ net'.unwritten = net.unwritten
      /\ net'.state[c] = "destroyed" /\ Only(c, net.state, net'.state)
  <2>1. net' = [net EXCEPT !.state = [net.state EXCEPT ![c] = "destroyed"]]
    BY DEF Files!Destroyed
  <2>2. [net.state EXCEPT ![c] = "destroyed"] \in [Conn -> States]
    BY <1>1 DEF FilesNet, States
  <2> QED
    BY <1>1, <2>1, <2>2 DEF FilesNet
<1>3. ~Queued(c) /\ \A d \in Conn : Queued(d)' <=> Queued(d)
  <2>1. PICK q \in [Loop -> Seq(Callback)] : q = net.queue
    BY <1>1 DEF FilesNet
  <2>2. ~Queued(c)
    <3>1. ~Files!Queued(net, "writeComplete", c)
      BY DEF Files!Destroyed
    <3>2. Files!Queued(net, "writeComplete", c) <=>
            \E l \in Loop : \E i \in DOMAIN q[l] : q[l][i].call = "writeComplete" /\ q[l][i].conn = c
      BY <2>1 DEF Files!Queued
    <3>3. Waits(q, c) <=>
            \E l \in Loop : \E i \in DOMAIN q[l] : q[l][i].call = "writeComplete" /\ q[l][i].conn = c
      BY Callbacks
    <3> QED
      BY <2>1, <3>1, <3>2, <3>3 DEF Queued
  <2> QED
    BY <1>2, <2>2 DEF Queued, Waits
<1>4. /\ fp' \in [Conn -> OpenFile] /\ Only(c, fp, fp')
      /\ fp'[c].opened = fp[c].opened /\ fp'[c].stale = fp[c].stale
      /\ fp'[c].closed = IF program = "download3" /\ context[c] = "fp" THEN fp[c].closed + 1 ELSE fp[c].closed
      /\ ~(program = "download3" /\ context[c] = "fp") => fp' = fp
  <2>1. CASE program = "download3" /\ context[c] = "fp"
    <3>1. fp' = [fp EXCEPT ![c] = Files!Closed(fp[c])]
      BY <2>1 DEF Files!Destroyed
    <3>2. PICK f \in OpenFile : /\ f = Files!Closed(fp[c]) /\ f.opened = fp[c].opened
                                /\ f.stale = fp[c].stale /\ f.closed = fp[c].closed + 1
      BY <1>1, Closes
    <3> QED
      BY <1>1, <2>1, <3>1, <3>2
  <2>2. CASE ~(program = "download3" /\ context[c] = "fp")
    BY <1>1, <2>2 DEF Files!Destroyed
  <2> QED
    BY <2>1, <2>2
<1>5. FilesTypeOK'
  BY <1>1, <1>2, <1>4 DEF FilesInv, FilesTypeOK
<1>6. CallbacksOnce'
  BY <1>1, <1>2, <1>3 DEF FilesInv, CallbacksOnce
<1>7. Files!Messages' = Files!Messages /\ Files!Missing' = Files!Missing
  BY <1>1 DEF Files!Messages, Files!Whole, Files!Missing
<1>8. Served(c)'
  <2>1. CASE program = "download" \/ file = Files!Missing
    <3>1. WithoutFile(c)
      BY <1>1, <2>1 DEF Served
    <3>2. context[c] = "empty" /\ fp' = fp
      BY <3>1, <1>4 DEF WithoutFile
    <3>3. WithoutFile(c)'
      BY <3>1, <3>2, <1>1, <1>2, <1>3, <1>7 DEF WithoutFile, Due, Files!NeverOpened
    <3> QED
      BY <2>1, <3>3, <1>1, <1>7 DEF Served
  <2>2. CASE ~(program = "download" \/ file = Files!Missing)
    <3>1. WithFile(c) /\ Gone(c)
      BY <1>1, <2>2 DEF Served, WithFile
    <3>2. program \in {"download2", "download3"}
      BY <2>2 DEF FilesInv, FilesTypeOK, Files!Programs
    <3>3. Gone(c)'
      <4>1. ~net'.unwritten[c] /\ ~Queued(c)'
        BY <3>1, <1>2, <1>3 DEF Gone
      <4>2. CASE program = "download2"
        BY <3>1, <4>1, <4>2, <1>1, <1>4 DEF Gone
      <4>3. CASE program = "download3"
        <5>1. context[c] = "fp" /\ ~fp[c].stale /\ fp[c].closed = 0
          BY <3>1, <4>3, <1>1 DEF Gone
        <5> QED
          BY <4>1, <4>3, <5>1, <1>1, <1>2, <1>4 DEF Gone
      <4> QED
        BY <3>2, <4>2, <4>3
    <3>4. WithFile(c)'
      BY <3>1, <3>3, <1>2, <1>4, <1>7 DEF WithFile
    <3> QED
      BY <2>2, <3>4, <1>1, <1>2, <1>7 DEF Served
  <2> QED
    BY <2>1, <2>2
<1> QED
  BY <1>1, <1>2, <1>3, <1>4, <1>5, <1>6, <1>8, OneServed DEF Alike

LEMMA NetKeepsInv ==
  ASSUME FilesInv, program' = program, Files!NetStep, UNCHANGED filesVars
  PROVE  FilesInv'
<1> USE DEF Only
<1>1. /\ net \in FilesNet /\ file' = file /\ context' = context /\ late' = late /\ fp' = fp
      /\ net.queue \in [Loop -> Seq(Callback)] /\ net.loop \in [Conn -> Loop]
      /\ FilesTypeOK /\ CallbacksOnce
  BY DEF FilesInv, FilesTypeOK, FilesNet, filesVars
<1>2. ASSUME NEW l \in Loop PROVE ~Files!SendQueued(l)
  <2>1. net.queue[l] # <<>> => Head(net.queue[l]) \in Callback
    BY <1>1
  <2> QED
    BY <2>1 DEF Files!SendQueued, Files!MayCall, Callback
<1>3. /\ Files!Messages' = Files!Messages /\ Files!Missing' = Files!Missing
  BY <1>1 DEF Files!Messages, Files!Whole, Files!Missing
<1>4. ASSUME NEW c \in Conn, Files!AllWritten(c) PROVE FilesInv'
  <2> DEFINE f == [call |-> "writeComplete", conn |-> c]
             grown == [net.queue EXCEPT ![net.loop[c]] = Append(@, f)]
             written == [net.unwritten EXCEPT ![c] = FALSE]
  <2>1. net' = [net EXCEPT !.unwritten = written, !.queue = grown]
    BY <1>1, <1>4 DEF Files!AllWritten, Files!queueInLoop, FilesNet
  <2>2. net.unwritten[c] /\ ~Waits(net.queue, c)
    BY <1>1, <1>4 DEF Files!AllWritten, CallbacksOnce, Queued
  <2>3. /\ grown \in [Loop -> Seq(Callback)]
        /\ InOwnLoop(net.loop, grown)
        /\ \A d \in Conn : Waits(grown, d) <=> Waits(net.queue, d) \/ d = c
    <3>1. PICK queue \in [Loop -> Seq(Callback)] : queue = net.queue
      BY <1>1
    <3>2. PICK loop \in [Conn -> Loop] : loop = net.loop
      BY <1>1
    <3>3. InOwnLoop(loop, queue) /\ ~Waits(queue, c)
      BY <1>1, <2>2, <3>1, <3>2 DEF CallbacksOnce
    <3>4. LET g == [queue EXCEPT ![loop[c]] = Append(@, [call |-> "writeComplete", conn |-> c])]
          IN  /\ g \in [Loop -> Seq(Callback)]
              /\ InOwnLoop(loop, g)
              /\ \A d \in Conn : Waits(g, d) <=> Waits(queue, d) \/ d = c
      BY <3>3, QueueGrows
    <3> QED
      BY <3>1, <3>2, <3>4
  <2>4. /\ written \in [Conn -> BOOLEAN] /\ ~written[c]
        /\ \A d \in Conn : d # c => written[d] = net.unwritten[d]
    BY <1>1 DEF FilesNet
  <2> HIDE DEF grown, written, f
  <2>5. /\ net' \in FilesNet /\ net'.loop = net.loop /\ net'.state = net.state
        /\ net'.notifies = net.notifies /\ net'.output = net.output
        /\ net'.queue = grown /\ net'.unwritten = written
    BY <1>1, <2>1, <2>3, <2>4 DEF FilesNet
  <2>6. \A d \in Conn : Queued(d)' <=> Queued(d) \/ d = c
    BY <2>3, <2>5 DEF Queued, Waits
  <2>7. FilesTypeOK'
    BY <1>1, <2>5 DEF FilesTypeOK
  <2>8. CallbacksOnce'
    BY <1>1, <2>3, <2>4, <2>5, <2>6 DEF CallbacksOnce
  <2>9. WithFile(c) /\ Sending(c) /\ net.state[c] = "connected"
    <3>1. Due(c) /\ Served(c) /\ net.state[c] \in States
      BY <1>1, <2>2 DEF Due, FilesInv, FilesNet
    <3>2. WithFile(c) /\ net.state[c] # "idle"
      BY <3>1 DEF Served, WithoutFile
    <3>3. ~AllSent(c) /\ ~Gone(c)
      BY <2>2, <3>1 DEF AllSent, Gone
    <3> QED
      BY <3>1, <3>2, <3>3 DEF WithFile, States
  <2>10. Served(c)'
    <3>1. Sending(c)'
      BY <1>1, <2>5, <2>6, <2>9 DEF Sending, Untouched, Due
    <3>2. WithFile(c)'
      BY <1>1, <1>3, <2>5, <2>9, <3>1 DEF WithFile
    <3>3. net.state[c] # "idle" /\ program # "download" /\ file # Files!Missing
      <4>1. ~WithoutFile(c) /\ Served(c)
        BY <2>2 DEF WithoutFile, Due, FilesInv
      <4> QED
        BY <4>1 DEF Served
    <3> QED
      BY <1>1, <1>3, <2>5, <3>2, <3>3 DEF Served
  <2> QED
    BY <1>1, <2>4, <2>5, <2>6, <2>7, <2>8, <2>10, OneServed DEF Alike
<1>5. ASSUME NEW c \in Conn, Files!ShutdownInLoop(c) PROVE FilesInv'
  <2>1. net.state[c] = "disconnecting" /\ ~net.unwritten[c]
    BY <1>5 DEF Files!ShutdownInLoop
  <2>2. /\ net' \in FilesNet
        /\ net'.loop = net.loop /\ net'.queue = net.queue /\ net'.notifies = net.notifies
        /\ net'.output = net.output /\ net'.unwritten = net.unwritten
        /\ net'.state[c] = "shut" /\ Only(c, net.state, net'.state)
    <3>1. net' = [net EXCEPT !.state = [net.state EXCEPT ![c] = "shut"]]
      BY <1>5 DEF Files!ShutdownInLoop
    <3>2. [net.state EXCEPT ![c] = "shut"] \in [Conn -> States]
      BY <1>1 DEF FilesNet, States
    <3> QED
      BY <1>1, <3>1, <3>2 DEF FilesNet
  <2>3. \A d \in Conn : Queued(d)' <=> Queued(d)
    BY <2>2 DEF Queued, Waits
  <2>4. FilesTypeOK'
    BY <1>1, <2>2 DEF FilesTypeOK
  <2>5. CallbacksOnce'
    BY <1>1, <2>2, <2>3 DEF CallbacksOnce
  <2>6. Served(c)'
    <3>1. Served(c)
      BY DEF FilesInv
    <3>2. Due(c)' <=> Due(c)
      BY <2>2, <2>3 DEF Due
    <3>3. WithoutFile(c) => WithoutFile(c)'
      BY <1>1, <1>3, <2>1, <2>2, <3>2 DEF WithoutFile, Files!NeverOpened
    <3>4. WithFile(c) => WithFile(c)'
      <4>1. AllSent(c) => AllSent(c)'
        BY <1>1, <1>3, <2>2, <3>2 DEF AllSent, Untouched
      <4> QED
        BY <1>1, <1>3, <2>1, <2>2, <4>1 DEF WithFile
    <3> QED
      BY <1>1, <1>3, <2>1, <2>2, <3>1, <3>3, <3>4 DEF Served
  <2> QED
    BY <1>1, <2>2, <2>3, <2>4, <2>5, <2>6, OneServed DEF Alike
<1> QED
  BY <1>2, <1>4, <1>5 DEF Files!NetStep

LEMMA FilesStep == FilesInv /\ Files!Next => FilesInv'
<1> SUFFICES ASSUME FilesInv, Files!Next PROVE FilesInv'
  OBVIOUS
<1>1. program' = program
  BY DEF Files!Next
<1>2. ASSUME NEW c \in Conn,
             Files!onConnectionUp(c) \/ Files!onConnectionDown(c) \/ Files!Destroyed(c)
               \/ Files!onWriteComplete(c) \/ Files!onWriteCompleteStale(c)
      PROVE  FilesInv'
  BY <1>1, <1>2, UpKeepsInv, DownKeepsInv, DestroyedKeepsInv, WriteCompleteKeepsInv, StaleKeepsInv
<1>3. ASSUME Files!NetStep, UNCHANGED filesVars PROVE FilesInv'
  BY <1>1, <1>3, NetKeepsInv
<1> QED
  BY <1>2, <1>3 DEF Files!Next, filesVars

(* What the invariant says of the property. *)
LEMMA SameBeginning ==
  ASSUME NEW S, NEW s \in Seq(S), NEW t \in Seq(S), Len(s) <= Len(t),
         \A i \in 1 .. Len(s) : s[i] = t[i]
  PROVE  Files!Begins(s, t)
<1>1. Len(s) \in 0 .. Len(t)
  OBVIOUS
<1>2. PICK b \in Seq(S) : /\ b = SubSeq(t, 1, Len(s)) /\ Len(b) = Len(s)
                          /\ \A i \in 1 .. Len(s) : b[i] = t[i]
  BY <1>1, SubSeqProperties
<1>3. s = b
  BY <1>1, <1>2, SeqEqual
<1> QED
  BY <1>1, <1>2, <1>3 DEF Files!Begins

LEMMA FilesInvProperty == FilesInv => Files!FileArrivesWhole
<1> SUFFICES ASSUME FilesInv PROVE Files!FileArrivesWhole
  OBVIOUS
<1>1. /\ net \in FilesNet /\ FilesTypeOK /\ fp \in [Conn -> OpenFile]
      /\ program \in Files!Programs
  BY DEF FilesInv, FilesTypeOK
<1>2. Files!Messages \in Seq(Seq(Nat))
  BY <1>1, MessagesType
<1>3. PICK q \in [Loop -> Seq(Callback)] : q = net.queue
  BY <1>1 DEF FilesNet
<1>4. ASSUME NEW c \in Conn
      PROVE  (net.unwritten[c] \/ Files!Queued(net, "writeComplete", c)) <=> Due(c)
  BY <1>3, Callbacks DEF Files!Queued, Queued, Due
<1>5. ASSUME NEW c \in Conn, WithoutFile(c)
      PROVE  /\ net.output[c] = <<>> \/ net.output[c] = Files!Messages
             /\ net.state[c] \in {"disconnecting", "shut"} => net.output[c] = Files!Messages
             /\ net.state[c] # "connected" /\ ~Due(c)
             /\ fp[c].closed <= 1 /\ ~fp[c].stale /\ ~fp[c].opened
  BY <1>5 DEF WithoutFile, Files!NeverOpened
<1>6. ASSUME NEW c \in Conn, net.state[c] # "idle", WithFile(c)
      PROVE  /\ net.state[c] \in {"disconnecting", "shut"} => net.output[c] = Files!Messages
             /\ net.state[c] = "connected" => Due(c)
             /\ Due(c) => context[c] = "fp" \/ late[c]
             /\ (fp[c].closed <= 1 /\ ~fp[c].stale) \/ (program = "download2" /\ late[c])
             /\ net.state[c] = "destroyed" => fp[c].closed > 0
  <2>0. fp[c].closed \in Nat
    BY <1>1 DEF OpenFile
  <2>1. Sending(c) => /\ Due(c) /\ context[c] = "fp" /\ fp[c].closed = 0 /\ ~fp[c].stale
    BY DEF Sending, Untouched
  <2>2. AllSent(c) => /\ net.output[c] = Files!Messages /\ ~Due(c)
                      /\ fp[c].closed <= 1 /\ ~fp[c].stale
    BY DEF AllSent, Untouched
  <2>3. Gone(c) => /\ Due(c) => late[c]
                   /\ (fp[c].closed <= 1 /\ ~fp[c].stale) \/ (program = "download2" /\ late[c])
                   /\ net.state[c] = "destroyed" => fp[c].closed > 0
    BY <2>0 DEF Gone, Due
  <2>4. \/ net.state[c] = "connected" /\ Sending(c)
        \/ net.state[c] \in {"disconnecting", "shut"} /\ AllSent(c)
        \/ net.state[c] \in {"disconnected", "destroyed"} /\ Gone(c)
    BY <1>1, <1>6 DEF WithFile, FilesNet, States
  <2> QED
    BY <2>1, <2>2, <2>3, <2>4
<1>7. ASSUME NEW c \in Conn
      PROVE  /\ Files!Begins(net.output[c], Files!Messages)
             /\ net.state[c] \in {"disconnecting", "shut"} => net.output[c] = Files!Messages
             /\ net.state[c] = "connected" => Due(c)
             /\ Due(c) => context[c] = "fp" \/ late[c]
             /\ (fp[c].closed <= 1 /\ ~fp[c].stale) \/ (program = "download2" /\ late[c])
             /\ net.state[c] = "destroyed" /\ fp[c].opened => fp[c].closed > 0
  <2>1. net.output[c] \in Seq(Seq(Nat)) /\ Len(Files!Messages) \in Nat
    BY <1>1, <1>2 DEF FilesNet
  <2>2. CASE net.state[c] # "idle" /\ WithFile(c)
    <3>1. Files!Begins(net.output[c], Files!Messages)
      BY <1>2, <2>1, <2>2, SameBeginning DEF WithFile
    <3> QED
      BY <1>6, <2>2, <3>1
  <2>3. CASE WithoutFile(c)
    <3>1. Files!Begins(net.output[c], Files!Messages)
      <4>1. PICK s \in Seq(Seq(Nat)) : s = net.output[c]
        BY <2>1
      <4>2. Len(s) <= Len(Files!Messages) /\ \A i \in 1 .. Len(s) : s[i] = Files!Messages[i]
        BY <1>5, <2>1, <2>3, <4>1
      <4>3. Files!Begins(s, Files!Messages)
        BY <1>2, <4>2, SameBeginning
      <4> QED
        BY <4>1, <4>3
    <3> QED
      BY <1>5, <2>3, <3>1
  <2> QED
    BY <2>2, <2>3 DEF FilesInv, Served
<1> QED
  BY <1>4, <1>7 DEF Files!FileArrivesWhole

--------------------------------------------------------------------------------
(* One server runs; the steps of the others leave it alone.               *)
FilesServed == program \in Files!Programs => FilesInv

LEMMA FilesServedInit == Init => FilesServed
  BY FilesInitially
  DEF Init, FilesServed, ChatInit, SudokuInit, SolverInit, SmallInit,
      Chat!Programs, Sudoku!Programs, Files!Programs, Small!Programs

LEMMA FilesServedNext == FilesServed /\ [Next]_vars => FilesServed'
<1> SUFFICES ASSUME FilesServed, [Next]_vars, program' \in Files!Programs'
    PROVE  FilesInv'
  BY DEF FilesServed
<1>1. program \in Files!Programs /\ (Files!Next \/ UNCHANGED vars)
  <2>1. Files!Programs' = Files!Programs
    BY DEF Files!Programs
  <2>2. \/ UNCHANGED vars
        \/ program \in Files!Programs /\ Files!Next
        \/ program' = program /\ program \notin Files!Programs
    BY DEF Next, Chat!Next, Sudoku!Next, Small!Next,
           Chat!Programs, Sudoku!Programs, Files!Programs, Small!Programs
  <2> QED
    BY <2>1, <2>2 DEF vars
<1>2. FilesInv
  BY <1>1 DEF FilesServed
<1>3. CASE Files!Next
  BY <1>2, <1>3, FilesStep
<1>4. CASE UNCHANGED vars
  <2>1. /\ program' = program /\ net' = net
        /\ file' = file /\ fp' = fp /\ context' = context /\ late' = late
    BY <1>4 DEF vars, filesVars
  <2>2. FilesTypeOK' /\ CallbacksOnce' /\ \A c \in Conn : Queued(c)' <=> Queued(c)
    BY <1>2, <2>1 DEF FilesInv, FilesTypeOK, CallbacksOnce, Queued, Waits
  <2>3. ASSUME NEW c \in Conn PROVE Served(c)'
    BY <1>2, <2>1, <2>2, ServedAlike DEF FilesInv, Alike
  <2> QED
    BY <2>2, <2>3 DEF FilesInv
<1> QED
  BY <1>1, <1>3, <1>4

(* A file arrives whole and in order, its FILE is closed once, and nothing *)
(* is read from it after that but by download2 when a write-complete       *)
(* callback comes late: for any connections, loops and files.              *)
THEOREM FilesArriveWhole == Spec => []FileArrivesWhole
<1>1. FilesServed => FileArrivesWhole
  BY FilesInvProperty DEF FilesServed, FileArrivesWhole
<1> QED
  BY <1>1, FilesServedInit, FilesServedNext, PTL DEF Spec

--------------------------------------------------------------------------------
(***************************************************************************)
(* SmallServers: the counter of maxconnection.  A connection is up in any  *)
(* of three states, and no call of a server takes it from these to others. *)
(***************************************************************************)
Shaped(n) ==
  n = [loop |-> n.loop, state |-> n.state, arriving |-> n.arriving, received |-> n.received,
       input |-> n.input, output |-> n.output, notifies |-> n.notifies, unwritten |-> n.unwritten,
       queue |-> n.queue, reading |-> n.reading]

UpIn(state) == {c \in Conn : state[c] \in {"connected", "disconnecting", "shut"}}

Counted ==
  /\ Shaped(net)
  /\ net.state \in [Conn -> States]
  /\ IsFiniteSet(UpIn(net.state))
  /\ numConnected = Cardinality(UpIn(net.state))
  /\ Cardinality(UpIn(net.state) \ rejected) <= kMaxConnections

LEMMA CountedProperty == Counted => Small!CounterExact
<1>1. Small!Up = UpIn(net.state)
  BY DEF Small!Up, Small!Open, UpIn
<1>2. \A S : Small!Cardinality(S) = Cardinality(S)
  BY Zenon DEF Small!Cardinality, Cardinality
<1> QED
  BY <1>1, <1>2 DEF Counted, Small!CounterExact

(* What leaves the states of the connections alone. *)
LEMMA SendsKeepStates ==
  ASSUME NEW n, Shaped(n), NEW l, NEW c, NEW m
  PROVE  LET s == Small!send(n, l, c, m)
             t == Small!sendInLoop(n, c, m)
         IN  Shaped(s) /\ s.state = n.state /\ Shaped(t) /\ t.state = n.state
  BY DEF Shaped, Small!send, Small!sendInLoop, Small!queueInLoop

LEMMA InputKeepsStates ==
  ASSUME NEW n, Shaped(n), NEW l, NEW c, NEW k
  PROVE  LET a == Small!arrived(n, c, k)
             r == Small!retrieveAll(n, c)
             q == Small!called(n, l)
         IN  /\ Shaped(a) /\ a.state = n.state
             /\ Shaped(r) /\ r.state = n.state
             /\ Shaped(q) /\ q.state = n.state
<1>1. Shaped(Small!arrived(n, c, k)) /\ Small!arrived(n, c, k).state = n.state
  <2> DEFINE bytes == SubSeq(n.arriving[c], 1, k)
  <2>1. PICK x, y, z : /\ x = [n.arriving EXCEPT ![c] = Small!EndOf(n.arriving[c], k)]
                       /\ y = [n.input EXCEPT ![c] = n.input[c] \o bytes]
                       /\ z = [n.received EXCEPT ![c] = n.received[c] \o bytes]
    OBVIOUS
  <2>2. Small!arrived(n, c, k) = [n EXCEPT !.arriving = x, !.input = y, !.received = z]
    BY <2>1 DEF Small!arrived, Shaped
  <2> QED
    BY <2>2 DEF Shaped
<1>2. Shaped(Small!retrieveAll(n, c)) /\ Small!retrieveAll(n, c).state = n.state
  BY DEF Shaped, Small!retrieveAll
<1>3. Shaped(Small!called(n, l)) /\ Small!called(n, l).state = n.state
  <2>1. PICK x : x = [n.queue EXCEPT ![l] = Tail(n.queue[l])]
    OBVIOUS
  <2>2. Small!called(n, l) = [n EXCEPT !.queue = x]
    BY <2>1 DEF Small!called, Shaped
  <2> QED
    BY <2>2 DEF Shaped
<1> QED
  BY <1>1, <1>2, <1>3

(* A step that keeps the set of those that are up keeps the count. *)
LEMMA SameUp ==
  ASSUME Counted, Shaped(net'), net'.state \in [Conn -> States],
         UpIn(net'.state) = UpIn(net.state),
         numConnected' = numConnected, rejected' = rejected
  PROVE  Counted'
  BY DEF Counted

LEMMA SmallUpKeepsCount ==
  ASSUME Counted, program = "maxconnection", NEW c \in Conn, Small!onConnectionUp(c)
  PROVE  Counted'
<1>1. /\ Shaped(net) /\ net.state \in [Conn -> States] /\ net.state[c] = "idle"
      /\ net' = Small!Greeted(Small!connected(net, c), c)
      /\ numConnected' = numConnected + 1
      /\ rejected' = IF numConnected + 1 > kMaxConnections THEN rejected \cup {c} ELSE rejected
  BY DEF Counted, Small!onConnectionUp, Small!MayConnect
<1> DEFINE up == UpIn(net.state)
<1>2. PICK n : n = Small!connected(net, c)
  OBVIOUS
<1>3. Shaped(n) /\ n.state = [net.state EXCEPT ![c] = "connected"]
  BY <1>1, <1>2 DEF Shaped, Small!connected
<1>4. net' = IF numConnected + 1 > kMaxConnections THEN Small!shutdown(n, c) ELSE n
  BY <1>1, <1>2 DEF Small!Greeted
<1>5. /\ Shaped(net')
      /\ net'.state = IF numConnected + 1 > kMaxConnections
                      THEN [net.state EXCEPT ![c] = "disconnecting"]
                      ELSE [net.state EXCEPT ![c] = "connected"]
  <2>1. /\ Shaped(Small!shutdown(n, c))
        /\ Small!shutdown(n, c).state =
             [n.state EXCEPT ![c] = IF @ = "connected" THEN "disconnecting" ELSE @]
    BY <1>3 DEF Shaped, Small!shutdown
  <2>2. Small!shutdown(n, c).state = [net.state EXCEPT ![c] = "disconnecting"]
    BY <1>1, <1>3, <2>1
  <2> QED
    BY <1>3, <1>4, <2>1, <2>2
<1>6. net'.state \in [Conn -> States]
  BY <1>1, <1>5 DEF States
<1>7. UpIn(net'.state) = up \cup {c} /\ c \notin up
  BY <1>1, <1>5 DEF UpIn
<1> HIDE DEF up
<1>8. /\ IsFiniteSet(up) /\ numConnected = Cardinality(up) /\ Cardinality(up) \in Nat
      /\ Cardinality(up \ rejected) <= kMaxConnections
  BY FS_CardinalityType DEF Counted, up
<1>9. IsFiniteSet(up \cup {c}) /\ Cardinality(up \cup {c}) = numConnected + 1
  BY <1>7, <1>8, FS_AddElement
<1>10. Cardinality((up \cup {c}) \ rejected') <= kMaxConnections
  <2>1. CASE numConnected + 1 > kMaxConnections
    <3>1. (up \cup {c}) \ rejected' = up \ rejected
      BY <1>1, <1>7, <2>1
    <3> QED
      BY <3>1, <1>8
  <2>2. CASE ~(numConnected + 1 > kMaxConnections)
    <3>1. kMaxConnections \in Nat
      BY ServersAssumption
    <3>2. /\ Cardinality((up \cup {c}) \ rejected') \in Nat
          /\ Cardinality((up \cup {c}) \ rejected') <= Cardinality(up \cup {c})
      <4>1. (up \cup {c}) \ rejected' \in SUBSET (up \cup {c})
        OBVIOUS
      <4> QED
        BY <4>1, <1>9, FS_Subset, FS_CardinalityType
    <3> QED
      BY <1>8, <1>9, <2>2, <3>1, <3>2
  <2> QED
    BY <2>1, <2>2
<1> QED
  BY <1>1, <1>5, <1>6, <1>7, <1>9, <1>10 DEF Counted

LEMMA SmallDownKeepsCount ==
  ASSUME Counted, program = "maxconnection", NEW c \in Conn, Small!onConnectionDown(c)
  PROVE  Counted'
<1>1. /\ Shaped(net) /\ net.state \in [Conn -> States]
      /\ net.state[c] \in {"connected", "disconnecting", "shut"}
      /\ net' = Small!disconnected(net, c)
      /\ numConnected' = numConnected - 1 /\ rejected' = rejected
  BY DEF Counted, Small!onConnectionDown, Small!MayClose, Small!Open
<1>2. Shaped(net') /\ net'.state = [net.state EXCEPT ![c] = "disconnected"]
  BY <1>1 DEF Shaped, Small!disconnected
<1>3. net'.state \in [Conn -> States]
  BY <1>1, <1>2 DEF States
<1> DEFINE up == UpIn(net.state)
<1>4. UpIn(net'.state) = up \ {c} /\ c \in up
  BY <1>1, <1>2 DEF UpIn
<1> HIDE DEF up
<1>5. /\ IsFiniteSet(up) /\ numConnected = Cardinality(up)
      /\ Cardinality(up \ rejected) <= kMaxConnections
  BY DEF Counted, up
<1>6. IsFiniteSet(up \ {c}) /\ Cardinality(up \ {c}) = numConnected - 1
  BY <1>4, <1>5, FS_RemoveElement
<1>7. Cardinality((up \ {c}) \ rejected) <= kMaxConnections
  <2>1. IsFiniteSet(up \ rejected) /\ (up \ {c}) \ rejected \in SUBSET (up \ rejected)
    BY <1>5, FS_Subset
  <2>2. /\ IsFiniteSet((up \ {c}) \ rejected)
        /\ Cardinality((up \ {c}) \ rejected) <= Cardinality(up \ rejected)
    BY <2>1, FS_Subset
  <2>3. Cardinality((up \ {c}) \ rejected) \in Nat /\ Cardinality(up \ rejected) \in Nat
    BY <2>1, <2>2, FS_CardinalityType
  <2> QED
    BY <1>5, <2>2, <2>3, ServersAssumption
<1> QED
  BY <1>1, <1>2, <1>3, <1>4, <1>6, <1>7 DEF Counted

LEMMA SmallStep ==
  ASSUME Counted, program = "maxconnection", Small!Next
  PROVE  Counted'
<1>1. Shaped(net) /\ net.state \in [Conn -> States]
  BY DEF Counted
<1>2. ASSUME NEW c \in Conn, NEW k, Small!onMessage(c, k) PROVE Counted'
  <2>1. /\ net' = Small!Echo(Small!arrived(net, c, k), c)
        /\ numConnected' = numConnected /\ rejected' = rejected
    BY <1>2 DEF Small!onMessage
  <2>2. PICK a : a = Small!arrived(net, c, k)
    OBVIOUS
  <2>3. Shaped(a) /\ a.state = net.state
    BY <1>1, <2>2, InputKeepsStates
  <2>4. PICK r : r = Small!retrieveAll(a, c)
    OBVIOUS
  <2>5. Shaped(r) /\ r.state = net.state
    BY <2>3, <2>4, InputKeepsStates
  <2>6. net' = Small!send(r, r.loop[c], c, a.input[c])
    BY <2>1, <2>2, <2>4 DEF Small!Echo, Small!Taken
  <2>7. Shaped(net') /\ net'.state = net.state
    BY <2>5, <2>6, SendsKeepStates
  <2> QED
    BY <1>1, <2>1, <2>7, SameUp
<1>3. ASSUME NEW l \in Loop, Small!onWriteComplete(l) PROVE Counted'
  <2>1. PICK c, n : /\ n = Small!called(net, l)
                    /\ net' = Small!send(n, n.loop[c], c, Small!message_)
                    /\ numConnected' = numConnected /\ rejected' = rejected
    BY <1>3 DEF Small!onWriteComplete, Small!Taken
  <2>2. Shaped(n) /\ n.state = net.state
    BY <1>1, <2>1, InputKeepsStates
  <2>3. Shaped(net') /\ net'.state = net.state
    BY <2>1, <2>2, SendsKeepStates
  <2> QED
    BY <1>1, <2>1, <2>3, SameUp
<1>4. ASSUME NEW l \in Loop, Small!SendQueued(l), UNCHANGED Small!state PROVE Counted'
  <2>1. PICK n, c, m : n = Small!called(net, l) /\ net' = Small!sendInLoop(n, c, m)
    BY <1>4 DEF Small!SendQueued
  <2>2. Shaped(n) /\ n.state = net.state
    BY <1>1, <2>1, InputKeepsStates
  <2>3. Shaped(net') /\ net'.state = net.state
    BY <2>1, <2>2, SendsKeepStates
  <2> QED
    BY <1>1, <1>4, <2>3, SameUp DEF Small!state
<1>5. ASSUME NEW c \in Conn, Small!AllWritten(c), UNCHANGED Small!state PROVE Counted'
  <2>1. Shaped(net') /\ net'.state = net.state
    BY <1>1, <1>5 DEF Shaped, Small!AllWritten, Small!queueInLoop
  <2> QED
    BY <1>1, <1>5, <2>1, SameUp DEF Small!state
<1>6. ASSUME NEW c \in Conn, Small!ShutdownInLoop(c), UNCHANGED Small!state PROVE Counted'
  <2>1. /\ Shaped(net') /\ net'.state = [net.state EXCEPT ![c] = "shut"]
        /\ net.state[c] = "disconnecting"
    BY <1>1, <1>6 DEF Shaped, Small!ShutdownInLoop
  <2>2. net'.state \in [Conn -> States] /\ UpIn(net'.state) = UpIn(net.state)
    BY <1>1, <2>1 DEF States, UpIn
  <2> QED
    BY <1>6, <2>1, <2>2, SameUp DEF Small!state
<1>7. ASSUME NEW l \in Loop, Small!printThroughput(l) PROVE Counted'
  BY <1>7 DEF Small!printThroughput
<1> QED
  BY <1>2, <1>3, <1>4, <1>5, <1>6, <1>7, SmallUpKeepsCount, SmallDownKeepsCount
  DEF Small!Next, Small!NetStep

CountRuns == program = "maxconnection" => Counted

LEMMA CountedInitially ==
  ASSUME program = "maxconnection", Small!Init, Shaped(net), net.state = [c \in Conn |-> "idle"]
  PROVE  Counted
<1>1. UpIn(net.state) = {}
  BY DEF UpIn
<1>2. UpIn(net.state) \ rejected = {}
  BY <1>1
<1>3. numConnected = 0 /\ net.state \in [Conn -> States]
  BY DEF Small!Init, States
<1>4. /\ IsFiniteSet(UpIn(net.state)) /\ Cardinality(UpIn(net.state)) = 0
      /\ Cardinality(UpIn(net.state) \ rejected) = 0 /\ 0 <= kMaxConnections
  BY <1>1, <1>2, FS_EmptySet, ServersAssumption
<1> QED
  BY <1>3, <1>4 DEF Counted

LEMMA CountRunsNext == CountRuns /\ [Next]_vars => CountRuns'
<1> SUFFICES ASSUME CountRuns, [Next]_vars, program' = "maxconnection" PROVE Counted'
  BY DEF CountRuns
<1>1. program = "maxconnection" /\ (Small!Next \/ UNCHANGED vars)
  BY DEF Next, vars, Chat!Next, Sudoku!Next, Files!Next, Small!Next,
         Chat!Programs, Sudoku!Programs, Files!Programs, Small!Programs
<1>2. Counted
  BY <1>1 DEF CountRuns
<1>3. CASE Small!Next
  BY <1>1, <1>2, <1>3, SmallStep
<1>4. CASE UNCHANGED vars
  <2>1. net' = net /\ numConnected' = numConnected /\ rejected' = rejected
    BY <1>4 DEF vars, smallVars
  <2> QED
    BY <1>2, <2>1 DEF Counted, Shaped, UpIn
<1> QED
  BY <1>1, <1>3, <1>4

(* maxconnection counts the connections that are up, the rejected ones      *)
(* included, and serves no more than its limit, whatever that is and       *)
(* however many connect.                                                   *)
THEOREM CounterKept == Spec => [](program = "maxconnection" => Small!CounterExact)
<1>1. Init => CountRuns
  <2> SUFFICES ASSUME Init, program = "maxconnection" PROVE Counted
    BY DEF CountRuns
  <2>1. SmallInit /\ Small!Init
    BY DEF Init, ChatInit, SudokuInit, SolverInit, FilesInit,
           Chat!Programs, Sudoku!Programs, Files!Programs
  <2>2. Shaped(net) /\ net.state = [c \in Conn |-> "idle"]
    BY <2>1 DEF SmallInit, Chat!Network, Shaped
  <2> QED
    BY <2>1, <2>2, CountedInitially
<1>2. CountRuns => (program = "maxconnection" => Small!CounterExact)
  BY CountedProperty DEF CountRuns
<1> QED
  BY <1>1, <1>2, CountRunsNext, PTL DEF Spec

(***************************************************************************)
(* ChatServer.  A message from s to c takes one way: it is sent at once if *)
(* they are of the same loop, otherwise it waits in the queue of c's loop; *)
(* "highperformance" lets all wait, "efficient" is still walking with the  *)
(* last one.                                                               *)
(***************************************************************************)
Message == [from : Conn, nth : Nat, text : Seq(Int)]
Functor == [call : {"send"}, conn : Conn, arg : Message]
             \cup [call : {"distributeMessage"}, arg : Message]

ChatNet ==
  [loop : [Conn -> Loop], state : [Conn -> States],
   arriving : [Conn -> Seq(Int)], received : [Conn -> Seq(Int)], input : [Conn -> Seq(Int)],
   output : [Conn -> Seq(Message)], notifies : {FALSE}, unwritten : [Conn -> {FALSE}],
   queue : [Loop -> Seq(Functor)], reading : [Loop -> Conn \cup {NoConn}]]

ChatTypeOK ==
  /\ net \in ChatNet
  /\ program \in Chat!Programs
  /\ connections \in SUBSET Conn /\ IsFiniteSet(connections)
  /\ walk \in [Loop -> [todo : SUBSET Conn, message : Message \cup {<<>>}]]
  /\ delivered \in [Conn -> Seq(Seq(Int))]
  /\ joined \in [Conn -> [Conn -> Nat]]

\* Who is in the list is open, and stays so as long as its loop is in a
\* callback for it.
ListExact ==
  /\ connections = {c \in Conn : Chat!Open(net, c)}
  /\ \A l \in Loop : net.reading[l] # NoConn =>
       net.loop[net.reading[l]] = l /\ net.reading[l] \in connections

\* A loop walks with the last message of the connection that it reads.
WalksLast ==
  \A l \in Loop :
    IF walk[l].todo = {} THEN walk[l] = Chat!NoWalk
    ELSE /\ program = "efficient" /\ net.reading[l] # NoConn
         /\ walk[l].message \in Message
         /\ walk[l].message.from = net.reading[l]
         /\ walk[l].message.nth = Len(delivered[net.reading[l]])
         /\ \A c \in walk[l].todo : net.state[c] # "idle"

\* What waits in the queue of a loop.
WaitsFor(f, l) ==
  /\ f.arg.nth \in 1 .. Len(delivered[f.arg.from])
  /\ CASE program \in {"threaded", "efficient"} ->
            /\ f.call = "send" /\ net.loop[f.conn] = l /\ net.state[f.conn] # "idle"
            /\ net.loop[f.arg.from] # l
       [] program = "highperformance" -> f.call = "distributeMessage"
       [] program = "server" -> FALSE

QueuesRight ==
  /\ \A l \in Loop : \A i \in 1 .. Len(net.queue[l]) : WaitsFor(net.queue[l][i], l)
  /\ program = "server" => \A c, d \in Conn : net.loop[c] = net.loop[d]

\* At the places P of the messages are those numbered from a + 1 to b.
Run(messages, P, a, b) ==
  /\ a \in Nat /\ b \in Nat /\ a <= b
  /\ P \subseteq 1 .. Len(messages)
  /\ \A i \in P : messages[i].nth \in a + 1 .. b
  /\ \A n \in a + 1 .. b : \E i \in P : messages[i].nth = n
  /\ \A i, j \in P : i < j => messages[i].nth < messages[j].nth

OutAt(output, s) == {i \in 1 .. Len(output) : output[i].from = s}

\* The functors of a queue that are for c and have a message from s.
DueAt(queue, c, s) ==
  {i \in 1 .. Len(queue) : (queue[i].call = "send" => queue[i].conn = c) /\ queue[i].arg.from = s}
Args(queue) == [i \in 1 .. Len(queue) |-> queue[i].arg]

\* What was sent to c of s's messages, and what waits for it in its loop.
OutRun(n, c, s, a, b) == Run(n.output[c], OutAt(n.output[c], s), a, b)
DueRun(n, c, s, b, d) ==
  LET queue == n.queue[n.loop[c]] IN Run(Args(queue), DueAt(queue, c, s), b, d)

Walking(c, s) == c \in walk[net.loop[s]].todo /\ walk[net.loop[s]].message.from = s

\* Whether what waits for c is going to be sent.
Reachable(c) ==
  \/ net.state[c] \in {"idle", "connected"}
  \/ net.state[c] = "disconnecting" /\ program # "highperformance"

\* The messages from s to c are sent up to b, wait up to d, and the last one
\* may be that of the walk.
Chained(c, s, a, b, d) ==
  /\ b <= d /\ d <= Len(delivered[s])
  /\ OutRun(net, c, s, a, b)
  /\ Reachable(c) => DueRun(net, c, s, b, d)
  /\ IF net.state[c] = "idle" THEN a = b /\ d = Len(delivered[s]) ELSE a <= joined[c][s]
  /\ net.state[c] = "connected" => (IF Walking(c, s) THEN d + 1 ELSE d) = Len(delivered[s])

AllChained == \A c, s \in Conn : \E a, b, d \in Nat : Chained(c, s, a, b, d)

\* There is one order of the messages that all get them in, those that wait
\* last.
InOrder(rank, top, o, q) ==
  /\ \A i \in 1 .. Len(o) : rank[o[i]] < top
  /\ \A j \in 1 .. Len(q) : rank[q[j].arg] < top
  /\ \A i, j \in 1 .. Len(o) : i < j => rank[o[i]] < rank[o[j]]
  /\ \A i, j \in 1 .. Len(q) : i < j => rank[q[i].arg] < rank[q[j].arg]
  /\ \A i \in 1 .. Len(o), j \in 1 .. Len(q) : rank[o[i]] < rank[q[j].arg]
AllInOrder ==
  program \in {"server", "highperformance"} =>
    \E rank \in [Message -> Nat], top \in Nat :
      \A c \in Conn : InOrder(rank, top, net.output[c], net.queue[net.loop[c]])

\* No output is of a message that was not delivered.
OutputFresh ==
  \A c \in Conn : \A i \in 1 .. Len(net.output[c]) :
    net.output[c][i].nth \in 1 .. Len(delivered[net.output[c][i].from])

ChatInv ==
  ChatTypeOK /\ ListExact /\ WalksLast /\ QueuesRight /\ OutputFresh /\ AllChained /\ AllInOrder

\* Induction, on a set instead of a predicate.
LEMMA NatSetInduction ==
  ASSUME NEW K, 0 \in K, \A n \in Nat : n \in K => n + 1 \in K
  PROVE  Nat \subseteq K
<1> SUFFICES ASSUME Nat \ K # {} PROVE FALSE
  OBVIOUS
<1>1. \E m \in Nat \ K : \A n \in Nat \ K : ~(n < m)
  <2>1. PICK m \in Nat \ K : \A n \in Nat \ K : ~(<<n, m>> \in OpToRel(<, Nat))
    BY NatLessThanWellFounded, WFMin, Zenon
  <2> QED
    BY <2>1, Zenon DEF OpToRel
<1>2. PICK m \in Nat \ K : \A n \in Nat \ K : ~(n < m)
  BY <1>1
<1>3. m # 0 /\ m - 1 \in Nat /\ m - 1 \in K
  BY <1>2
<1> QED
  BY <1>2, <1>3

Grows(S, G) == {} \in G /\ \A T \in SUBSET S : T # {} => \E x \in T : T \ {x} \in G => T \in G

LEMMA SubsetInduction ==
  ASSUME NEW S, IsFiniteSet(S), NEW G, Grows(S, G)
  PROVE  \A T \in SUBSET S : T \in G
<1> USE DEF Grows
<1> DEFINE K == {k \in Nat : \A T \in SUBSET S : Cardinality(T) = k => T \in G}
<1>1. 0 \in K
  <2>1. ASSUME NEW T \in SUBSET S, Cardinality(T) = 0 PROVE T \in G
    <3>1. IsFiniteSet(T)
      BY FS_Subset
    <3>2. T = {}
      BY <2>1, <3>1, FS_EmptySet
    <3> QED
      BY <3>2
  <2> QED
    BY <2>1
<1>2. ASSUME NEW n \in Nat, n \in K PROVE n + 1 \in K
  <2>1. ASSUME NEW T \in SUBSET S, Cardinality(T) = n + 1 PROVE T \in G
    <3>1. IsFiniteSet(T) /\ T # {}
      BY <2>1, FS_Subset, FS_EmptySet
    <3>2. PICK x \in T : T \ {x} \in G => T \in G
      BY <3>1
    <3>3. Cardinality(T \ {x}) = Cardinality(T) - 1
      BY <3>1, FS_RemoveElement
    <3>4. Cardinality(T \ {x}) = n /\ T \ {x} \in SUBSET S
      BY <2>1, <3>3
    <3> QED
      BY <1>2, <3>2, <3>4
  <2> QED
    BY <2>1
<1> HIDE DEF K
<1>3. Nat \subseteq K
  BY <1>1, <1>2, NatSetInduction
<1>4. ASSUME NEW T \in SUBSET S PROVE T \in G
  <2>1. Cardinality(T) \in K
    BY <1>3, FS_Subset, FS_CardinalityType
  <2> QED
    BY <2>1 DEF K
<1> QED
  BY <1>4

Pick(s) == CHOOSE x \in s : TRUE

FoldOf(g, S, b, f) ==
  \A s \in SUBSET S : g[s] = IF s = {} THEN b ELSE f[<<g[s \ {Pick(s)}], Pick(s)>>]

\* A recursion over the subsets of a finite set has a solution.
LEMMA FoldExists ==
  ASSUME NEW S, IsFiniteSet(S), NEW V, NEW b \in V, NEW f \in [V \X S -> V]
  PROVE  \E g \in [SUBSET S -> V] : FoldOf(g, S, b, f)
<1> DEFINE UpTo(k) == {s \in SUBSET S : Cardinality(s) <= k}
           Step(g, s) == IF s = {} THEN b ELSE f[<<g[s \ {Pick(s)}], Pick(s)>>]
           K == {k \in Nat : \E g \in [UpTo(k) -> V] : \A s \in UpTo(k) : g[s] = Step(g, s)}
<1>c. \A s \in SUBSET S : IsFiniteSet(s) /\ Cardinality(s) \in Nat /\ (Cardinality(s) = 0 <=> s = {})
  BY FS_Subset, FS_CardinalityType, FS_EmptySet
<1>p. ASSUME NEW s \in SUBSET S, s # {}
      PROVE  Pick(s) \in S /\ s \ {Pick(s)} \in SUBSET S /\ Cardinality(s \ {Pick(s)}) = Cardinality(s) - 1
  <2>1. Pick(s) \in s
    BY <1>p DEF Pick
  <2> QED
    BY <2>1, <1>c, FS_RemoveElement
<1>1. 0 \in K
  <2>1. \A s \in UpTo(0) : s = {}
    BY <1>c
  <2>2. [s \in UpTo(0) |-> b] \in [UpTo(0) -> V] /\ \A s \in UpTo(0) : [t \in UpTo(0) |-> b][s] = Step([t \in UpTo(0) |-> b], s)
    BY <2>1
  <2> QED
    BY <2>2
<1>2. ASSUME NEW n \in Nat, n \in K PROVE n + 1 \in K
  <2>1. PICK g \in [UpTo(n) -> V] : \A s \in UpTo(n) : g[s] = Step(g, s)
    BY <1>2
  <2> DEFINE h == [s \in UpTo(n + 1) |-> Step(g, s)]
  <2>2. ASSUME NEW s \in UpTo(n + 1), s # {}
        PROVE  Pick(s) \in S /\ s \ {Pick(s)} \in UpTo(n)
    BY <1>c, <1>p, <2>2
  <2>3. h \in [UpTo(n + 1) -> V]
    <3>1. ASSUME NEW s \in UpTo(n + 1) PROVE Step(g, s) \in V
      BY <2>2
    <3> QED
      BY <3>1
  <2>4. ASSUME NEW s \in UpTo(n) PROVE s \in UpTo(n + 1) /\ h[s] = g[s]
    BY <1>c, <2>1
  <2>5. ASSUME NEW s \in UpTo(n + 1) PROVE h[s] = Step(h, s)
    <3>1. h[s] = Step(g, s)
      OBVIOUS
    <3> HIDE DEF h
    <3>2. s # {} => g[s \ {Pick(s)}] = h[s \ {Pick(s)}]
      BY <2>2, <2>4
    <3> QED
      BY <3>1, <3>2
  <2>6. \E g2 \in [UpTo(n + 1) -> V] : \A s \in UpTo(n + 1) : g2[s] = Step(g2, s)
    <3> HIDE DEF h, UpTo, Step
    <3> QED
      BY <2>3, <2>5
  <2> HIDE DEF h, UpTo, Step
  <2> QED
    BY <2>6
<1>3. Cardinality(S) \in K
  <2> HIDE DEF K
  <2> QED
    BY <1>1, <1>2, NatSetInduction, FS_CardinalityType
<1>4. UpTo(Cardinality(S)) = SUBSET S
  BY FS_Subset
<1> QED
  BY <1>3, <1>4 DEF FoldOf

\* A sequence that goes on, one that does by one element, and one without
\* its first.
Extends(x, y) ==
  Len(x) \in Nat /\ Len(y) \in Nat /\ Len(y) >= Len(x) /\ \A i \in 1 .. Len(x) : y[i] = x[i]
Appended(x, e, y) == Extends(x, y) /\ Len(y) = Len(x) + 1 /\ y[Len(x) + 1] = e
Shifted(x, y) ==
  /\ Len(x) \in Nat /\ Len(x) >= 1 /\ Len(y) = Len(x) - 1
  /\ \A i \in 1 .. Len(x) - 1 : y[i] = x[i + 1]

LEMMA TailIs ==
  ASSUME NEW S, NEW x \in Seq(S), x # <<>>
  PROVE  Head(x) = x[1] /\ x[1] \in S /\ Tail(x) \in Seq(S) /\ Shifted(x, Tail(x))
  BY DEF Shifted

LEMMA AppendIs ==
  ASSUME NEW S, NEW x \in Seq(S), NEW e \in S
  PROVE  Append(x, e) \in Seq(S) /\ Appended(x, e, Append(x, e))
  BY DEF Appended, Extends

LEMMA RunKept ==
  ASSUME NEW x, NEW y, Extends(x, y), NEW P, NEW a, NEW b, Run(x, P, a, b)
  PROVE  Run(y, P, a, b)
<1>1. /\ a \in Nat /\ b \in Nat /\ a <= b
      /\ P \subseteq 1 .. Len(x)
      /\ \A i \in P : x[i].nth \in a + 1 .. b
      /\ \A n \in a + 1 .. b : \E i \in P : x[i].nth = n
      /\ \A i, j \in P : i < j => x[i].nth < x[j].nth
  BY DEF Run
<1>2. \A i \in P : i \in 1 .. Len(y) /\ y[i] = x[i]
  BY <1>1 DEF Extends
<1>3. P \subseteq 1 .. Len(y)
  BY <1>2
<1>4. \A n \in a + 1 .. b : \E i \in P : y[i].nth = n
  BY <1>1, <1>2
<1>5. \A i \in P : y[i].nth \in a + 1 .. b
  BY <1>1, <1>2
<1>6. \A i, j \in P : i < j => y[i].nth < y[j].nth
  BY <1>1, <1>2
<1> QED
  BY <1>1, <1>3, <1>4, <1>5, <1>6, Zenon DEF Run

LEMMA RunAppends ==
  ASSUME NEW x, NEW y, Extends(x, y), NEW P, NEW a, NEW b, Run(x, P, a, b),
         NEW p, p \in Len(x) + 1 .. Len(y), y[p].nth = b + 1
  PROVE  Run(y, P \cup {p}, a, b + 1)
<1>1. /\ a \in Nat /\ b \in Nat /\ a <= b
      /\ P \subseteq 1 .. Len(x)
  BY DEF Run
<1>2. /\ \A i \in P : y[i].nth \in a + 1 .. b
      /\ \A n \in a + 1 .. b : \E i \in P : y[i].nth = n
      /\ \A i, j \in P : i < j => y[i].nth < y[j].nth
  <2>1. Run(y, P, a, b)
    BY RunKept, Zenon
  <2> QED
    BY <2>1, Zenon DEF Run
<1>3. p \in Nat /\ p \in 1 .. Len(y) /\ \A i \in P : i \in Nat /\ i \in 1 .. Len(y) /\ i < p
  BY <1>1 DEF Extends
<1>4. P \cup {p} \subseteq 1 .. Len(y)
  BY <1>3
<1>5. ASSUME NEW i \in P \cup {p} PROVE y[i].nth \in a + 1 .. b + 1
  BY <1>1, <1>2
<1>6. ASSUME NEW n \in a + 1 .. b + 1 PROVE \E i \in P \cup {p} : y[i].nth = n
  <2>1. n \in a + 1 .. b \/ n = b + 1
    BY <1>1
  <2> QED
    BY <1>2, <2>1
<1>7. ASSUME NEW i \in P \cup {p}, NEW j \in P \cup {p}, i < j
      PROVE  y[i].nth < y[j].nth
  <2>1. i \in P
    BY <1>3, <1>7
  <2>2. CASE j \in P
    BY <1>2, <1>7, <2>1, <2>2
  <2>3. CASE j = p
    <3>1. y[i].nth \in a + 1 .. b
      BY <1>2, <2>1
    <3> QED
      BY <1>1, <2>3, <3>1
  <2> QED
    BY <2>2, <2>3
<1>8. a <= b + 1 /\ b + 1 \in Nat
  BY <1>1
<1> QED
  BY <1>1, <1>4, <1>5, <1>6, <1>7, <1>8, Zenon DEF Run

LEMMA RunTail ==
  ASSUME NEW x, NEW t, Shifted(x, t), NEW P, NEW a, NEW b, Run(x, P, a, b),
         NEW rest, rest = {i \in 1 .. Len(x) - 1 : i + 1 \in P}
  PROVE  /\ 1 \in P => x[1].nth = a + 1 /\ a < b /\ Run(t, rest, a + 1, b)
         /\ 1 \notin P => Run(t, rest, a, b)
<1>1. /\ a \in Nat /\ b \in Nat /\ a <= b
      /\ P \subseteq 1 .. Len(x)
      /\ \A i \in P : x[i].nth \in a + 1 .. b
      /\ \A n \in a + 1 .. b : \E i \in P : x[i].nth = n
      /\ \A i, j \in P : i < j => x[i].nth < x[j].nth
  BY DEF Run
<1>2. /\ Len(x) \in Nat /\ Len(x) >= 1 /\ Len(t) = Len(x) - 1
      /\ \A i \in 1 .. Len(x) - 1 : t[i] = x[i + 1]
  BY DEF Shifted
<1>3. \A i \in rest : i \in Nat /\ i \in 1 .. Len(t) /\ i + 1 \in P /\ i + 1 # 1 /\ t[i] = x[i + 1]
  BY <1>2
<1>4. ASSUME NEW i \in P, i # 1 PROVE i - 1 \in rest /\ t[i - 1] = x[i]
  <2>1. i \in 1 .. Len(x) /\ i - 1 \in 1 .. Len(x) - 1 /\ i = (i - 1) + 1
    BY <1>1, <1>2, <1>4
  <2>2. t[i - 1] = x[(i - 1) + 1] /\ (i - 1) + 1 \in P
    BY <1>2, <2>1
  <2> QED
    BY <2>1, <2>2
<1>5. ASSUME NEW i \in rest, NEW j \in rest, i < j PROVE t[i].nth < t[j].nth
  <2>1. i + 1 \in P /\ j + 1 \in P /\ i + 1 < j + 1 /\ t[i] = x[i + 1] /\ t[j] = x[j + 1]
    BY <1>3, <1>5
  <2> QED
    BY <1>1, <2>1
<1>i. rest \subseteq 1 .. Len(t)
  BY <1>2
<1>6. ASSUME 1 \in P PROVE x[1].nth = a + 1 /\ a < b /\ Run(t, rest, a + 1, b)
  <2>1. x[1].nth \in a + 1 .. b
    BY <1>1, <1>6
  <2>2. PICK i \in P : x[i].nth = a + 1
    BY <1>1, <2>1
  <2>3. i = 1
    <3>1. i \in 1 .. Len(x)
      BY <1>1
    <3>2. 1 < i => x[1].nth < x[i].nth
      BY <1>1, <1>6
    <3> QED
      BY <1>1, <1>2, <2>1, <2>2, <3>1, <3>2
  <2>4. ASSUME NEW k \in rest PROVE t[k].nth \in a + 2 .. b
    <3>1. t[k].nth \in a + 1 .. b /\ x[1].nth < t[k].nth
      <4>1. k + 1 \in P /\ 1 < k + 1 /\ t[k] = x[k + 1]
        BY <1>3
      <4> QED
        BY <1>1, <1>6, <4>1
    <3> QED
      BY <1>1, <2>2, <2>3, <3>1
  <2>5. ASSUME NEW n \in a + 2 .. b PROVE \E k \in rest : t[k].nth = n
    <3>1. n \in a + 1 .. b /\ n # a + 1
      BY <1>1
    <3>2. PICK k \in P : x[k].nth = n
      BY <1>1, <3>1
    <3>3. k # 1
      BY <2>2, <2>3, <3>1, <3>2
    <3>4. k - 1 \in rest /\ t[k - 1].nth = n
      BY <1>4, <3>2, <3>3
    <3> QED
      BY <3>4
  <2>6. a + 1 \in Nat /\ a + 1 <= b /\ (a + 1) + 1 = a + 2
    BY <1>1, <2>1
  <2>7. Run(t, rest, a + 1, b)
    BY <1>1, <1>5, <1>i, <2>4, <2>5, <2>6, Zenon DEF Run
  <2> QED
    BY <1>1, <2>2, <2>3, <2>6, <2>7
<1>7. ASSUME 1 \notin P PROVE Run(t, rest, a, b)
  <2>1. \A k \in rest : t[k].nth \in a + 1 .. b
    BY <1>1, <1>3
  <2>2. ASSUME NEW n \in a + 1 .. b PROVE \E k \in rest : t[k].nth = n
    <3>1. PICK k \in P : x[k].nth = n
      BY <1>1
    <3>2. k - 1 \in rest /\ t[k - 1].nth = n
      BY <1>4, <1>7, <3>1
    <3> QED
      BY <3>2
  <2> QED
    BY <1>1, <1>5, <1>i, <2>1, <2>2, Zenon DEF Run
<1> QED
  BY <1>6, <1>7

LEMMA RunOfNone ==
  ASSUME NEW x, NEW a \in Nat
  PROVE  /\ Run(x, {}, a, a)
         /\ \A b : Run(x, {}, a, b) => a = b
         /\ \A P : Run(x, P, a, a) => P = {}
  BY DEF Run

\* What is sent to a connection, and what is queued for it.
LEMMA OutputTakes ==
  ASSUME NEW o, NEW m, NEW p, Appended(o, m, p), NEW s, NEW a, NEW b,
         Run(o, OutAt(o, s), a, b)
  PROVE  /\ m.from # s => Run(p, OutAt(p, s), a, b)
         /\ m.from = s /\ m.nth = b + 1 => Run(p, OutAt(p, s), a, b + 1)
<1>1. /\ Extends(o, p) /\ Len(o) \in Nat /\ Len(p) = Len(o) + 1 /\ p[Len(o) + 1] = m
      /\ \A i \in 1 .. Len(o) : p[i] = o[i]
  BY Zenon DEF Appended, Extends
<1>2. OutAt(p, s) = IF m.from = s THEN OutAt(o, s) \cup {Len(o) + 1} ELSE OutAt(o, s)
  <2>1. 1 .. Len(p) = 1 .. Len(o) \cup {Len(o) + 1}
    BY <1>1
  <2>2. OutAt(p, s) = {i \in 1 .. Len(o) : p[i].from = s} \cup {i \in {Len(o) + 1} : p[i].from = s}
    BY <2>1, Zenon DEF OutAt
  <2>3. {i \in 1 .. Len(o) : p[i].from = s} = OutAt(o, s)
    BY <1>1, Zenon DEF OutAt
  <2>4. {i \in {Len(o) + 1} : p[i].from = s} = IF m.from = s THEN {Len(o) + 1} ELSE {}
    BY <1>1
  <2> QED
    BY <2>2, <2>3, <2>4
<1>3. Run(p, OutAt(o, s), a, b)
  BY <1>1, RunKept, Zenon
<1>4. Len(o) + 1 \in Len(o) + 1 .. Len(p)
  BY <1>1
<1>5. m.nth = b + 1 => Run(p, OutAt(o, s) \cup {Len(o) + 1}, a, b + 1)
  BY <1>1, <1>4, RunAppends, Zenon
<1> QED
  BY <1>2, <1>3, <1>5

LEMMA ArgsAre ==
  ASSUME NEW q \in Seq(Functor)
  PROVE  Args(q) \in Seq(Message) /\ Len(Args(q)) = Len(q) /\ \A i \in 1 .. Len(q) : Args(q)[i] = q[i].arg
<1>1. \A i \in 1 .. Len(q) : q[i].arg \in Message
  <2>1. \A f \in Functor : f.arg \in Message
    BY DEF Functor
  <2> QED
    BY <2>1
<1> QED
  BY <1>1 DEF Args

\* The new functors of a queue that are for c and have a message from s.
NewDue(q, r, c, s) ==
  {i \in Len(q) + 1 .. Len(r) : (r[i].call = "send" => r[i].conn = c) /\ r[i].arg.from = s}

LEMMA DueGrows ==
  ASSUME NEW q, NEW r, q \in Seq(Functor), r \in Seq(Functor), Extends(q, r), NEW c, NEW s,
         NEW b, NEW d, Run(Args(q), DueAt(q, c, s), b, d)
  PROVE  /\ NewDue(q, r, c, s) = {} => Run(Args(r), DueAt(r, c, s), b, d)
         /\ \A p : NewDue(q, r, c, s) = {p} /\ r[p].arg.nth = d + 1
                     => Run(Args(r), DueAt(r, c, s), b, d + 1)
<1>1. DueAt(r, c, s) = DueAt(q, c, s) \cup NewDue(q, r, c, s)
  <2> DEFINE For(x, i) == (x[i].call = "send" => x[i].conn = c) /\ x[i].arg.from = s
  <2>1. 1 .. Len(r) = 1 .. Len(q) \cup (Len(q) + 1 .. Len(r))
    BY DEF Extends
  <2>2. DueAt(r, c, s) = {i \in 1 .. Len(q) : For(r, i)} \cup NewDue(q, r, c, s)
    BY <2>1, Zenon DEF DueAt, NewDue
  <2>3. {i \in 1 .. Len(q) : For(r, i)} = DueAt(q, c, s)
    BY Zenon DEF DueAt, Extends
  <2> QED
    BY <2>2, <2>3, Zenon
<1>2. Extends(Args(q), Args(r))
  <2>1. Len(q) \in Nat /\ Len(r) \in Nat /\ Len(r) >= Len(q)
        /\ \A i \in 1 .. Len(q) : i \in 1 .. Len(r) /\ r[i] = q[i]
    BY DEF Extends
  <2>2. \A i \in 1 .. Len(q) : Args(r)[i] = Args(q)[i]
    BY <2>1, ArgsAre
  <2> QED
    BY <2>1, <2>2, ArgsAre DEF Extends
<1>3. NewDue(q, r, c, s) = {} => Run(Args(r), DueAt(r, c, s), b, d)
  <2>1. Run(Args(r), DueAt(q, c, s), b, d)
    BY <1>2, RunKept, Zenon
  <2> QED
    BY <1>1, <2>1
<1>4. ASSUME NEW p, NewDue(q, r, c, s) = {p}, r[p].arg.nth = d + 1
      PROVE  Run(Args(r), DueAt(r, c, s), b, d + 1)
  <2>1. p \in Len(q) + 1 .. Len(r) /\ p \in 1 .. Len(r)
    <3>1. p \in Len(q) + 1 .. Len(r)
      BY <1>4, Zenon DEF NewDue
    <3> QED
      BY <3>1 DEF Extends
  <2>2. p \in Len(Args(q)) + 1 .. Len(Args(r)) /\ Args(r)[p].nth = d + 1
    BY <1>4, <2>1, ArgsAre
  <2>3. DueAt(r, c, s) = DueAt(q, c, s) \cup {p}
    BY <1>1, <1>4
  <2>4. Run(Args(r), DueAt(q, c, s) \cup {p}, b, d + 1)
    BY <1>2, <2>2, RunAppends, Zenon
  <2> QED
    BY <2>3, <2>4
<1> QED
  BY <1>3, <1>4

LEMMA DueShrinks ==
  ASSUME NEW q, NEW t, q \in Seq(Functor), t \in Seq(Functor), Shifted(q, t),
         NEW c, NEW s, NEW b, NEW d, Run(Args(q), DueAt(q, c, s), b, d)
  PROVE  LET due == (q[1].call = "send" => q[1].conn = c) /\ q[1].arg.from = s
         IN  /\ due => q[1].arg.nth = b + 1 /\ b < d /\ Run(Args(t), DueAt(t, c, s), b + 1, d)
             /\ ~due => Run(Args(t), DueAt(t, c, s), b, d)
<1>1. /\ Len(q) \in Nat /\ Len(q) >= 1 /\ Len(t) = Len(q) - 1
      /\ \A i \in 1 .. Len(q) - 1 : i + 1 \in 1 .. Len(q) /\ t[i] = q[i + 1]
      /\ 1 \in 1 .. Len(q)
  BY DEF Shifted
<1>2. Shifted(Args(q), Args(t)) /\ Args(q)[1] = q[1].arg
  <2>1. \A i \in 1 .. Len(q) - 1 : Args(t)[i] = t[i].arg /\ Args(q)[i + 1] = q[i + 1].arg
    BY <1>1, ArgsAre
  <2>2. Len(Args(q)) = Len(q) /\ Len(Args(t)) = Len(t) /\ Args(q)[1] = q[1].arg
    BY <1>1, ArgsAre, Zenon
  <2>3. \A i \in 1 .. Len(q) - 1 : Args(t)[i] = Args(q)[i + 1]
    BY <1>1, <2>1
  <2> QED
    BY <1>1, <2>2, <2>3 DEF Shifted
<1>3. DueAt(t, c, s) = {i \in 1 .. Len(Args(q)) - 1 : i + 1 \in DueAt(q, c, s)}
  <2>1. Len(Args(q)) = Len(q)
    BY ArgsAre, Zenon
  <2>2. \A i \in 1 .. Len(q) - 1 :
          i + 1 \in DueAt(q, c, s) <=> (t[i].call = "send" => t[i].conn = c) /\ t[i].arg.from = s
    BY <1>1, Zenon DEF DueAt
  <2> QED
    BY <1>1, <2>1, <2>2, Zenon DEF DueAt
<1>4. 1 \in DueAt(q, c, s) <=> (q[1].call = "send" => q[1].conn = c) /\ q[1].arg.from = s
  BY <1>1, Zenon DEF DueAt
<1>5. /\ 1 \in DueAt(q, c, s) => Args(q)[1].nth = b + 1 /\ b < d /\ Run(Args(t), DueAt(t, c, s), b + 1, d)
      /\ 1 \notin DueAt(q, c, s) => Run(Args(t), DueAt(t, c, s), b, d)
  BY <1>2, <1>3, RunTail, Zenon
<1> QED
  BY <1>2, <1>4, <1>5, Zenon

\* What the operators of the network leave alone, and what a send does.
SameBut(n, r) ==
  /\ r.loop = n.loop /\ r.state = n.state /\ r.arriving = n.arriving /\ r.received = n.received
  /\ r.input = n.input /\ r.notifies = n.notifies /\ r.unwritten = n.unwritten
  /\ r.reading = n.reading

ToSend(c, m) == [call |-> "send", conn |-> c, arg |-> m]

LEMMA ChatSendInLoop ==
  ASSUME NEW n \in ChatNet, NEW c \in Conn, NEW m \in Message
  PROVE  LET r == Chat!sendInLoop(n, c, m)
         IN  /\ r \in ChatNet /\ SameBut(n, r) /\ r.queue = n.queue
             /\ r.output = IF n.state[c] \in {"connected", "disconnecting"}
                           THEN [n.output EXCEPT ![c] = Append(@, m)] ELSE n.output
<1>1. CASE n.state[c] \notin {"connected", "disconnecting"}
  BY <1>1 DEF Chat!sendInLoop, Chat!Writable, SameBut
<1>2. CASE n.state[c] \in {"connected", "disconnecting"}
  <2>1. Chat!sendInLoop(n, c, m) =
          [n EXCEPT !.output = [n.output EXCEPT ![c] = Append(@, m)],
                    !.unwritten = [n.unwritten EXCEPT ![c] = n.notifies]]
    BY <1>2 DEF ChatNet, Chat!sendInLoop, Chat!Writable
  <2>2. /\ [n.output EXCEPT ![c] = Append(@, m)] \in [Conn -> Seq(Message)]
        /\ [n.unwritten EXCEPT ![c] = n.notifies] = n.unwritten
    <3>1. /\ n.output \in [Conn -> Seq(Message)] /\ n.unwritten \in [Conn -> {FALSE}]
          /\ n.notifies = FALSE
      BY DEF ChatNet
    <3>2. [n.output EXCEPT ![c] = Append(@, m)] \in [Conn -> Seq(Message)]
      BY <3>1
    <3>3. [n.unwritten EXCEPT ![c] = n.notifies] = n.unwritten
      BY <3>1
    <3> QED
      BY <3>2, <3>3
  <2>3. Chat!sendInLoop(n, c, m) = [n EXCEPT !.output = [n.output EXCEPT ![c] = Append(@, m)]]
    <3>1. [n EXCEPT !.output = [n.output EXCEPT ![c] = Append(@, m)], !.unwritten = n.unwritten] =
            [n EXCEPT !.output = [n.output EXCEPT ![c] = Append(@, m)]]
      BY DEF ChatNet
    <3> QED
      BY <2>1, <2>2, <3>1
  <2>4. PICK o \in [Conn -> Seq(Message)] : o = [n.output EXCEPT ![c] = Append(@, m)]
    BY <2>2
  <2>5. [n EXCEPT !.output = o] \in ChatNet /\ SameBut(n, [n EXCEPT !.output = o])
    BY DEF ChatNet, SameBut
  <2>6. [n EXCEPT !.output = o].output = o /\ [n EXCEPT !.output = o].queue = n.queue
    BY DEF ChatNet
  <2>7. Chat!sendInLoop(n, c, m) = [n EXCEPT !.output = o]
    BY <2>3, <2>4
  <2> QED
    BY <1>2, <2>4, <2>5, <2>6, <2>7
<1> QED
  BY <1>1, <1>2

LEMMA ChatQueueInLoop ==
  ASSUME NEW n \in ChatNet, NEW l \in Loop, NEW f \in Functor
  PROVE  LET r == Chat!queueInLoop(n, l, f)
         IN  /\ r \in ChatNet /\ SameBut(n, r) /\ r.output = n.output
             /\ r.queue = [n.queue EXCEPT ![l] = Append(@, f)]
<1>1. [n.queue EXCEPT ![l] = Append(@, f)] \in [Loop -> Seq(Functor)]
  BY DEF ChatNet
<1>2. Chat!queueInLoop(n, l, f) = [n EXCEPT !.queue = [n.queue EXCEPT ![l] = Append(@, f)]]
  BY DEF ChatNet, Chat!queueInLoop
<1> QED
  BY <1>1, <1>2 DEF ChatNet, SameBut

LEMMA ChatSend ==
  ASSUME NEW n \in ChatNet, NEW l \in Loop, NEW c \in Conn, NEW m \in Message
  PROVE  LET r == Chat!send(n, l, c, m)
         IN  /\ r \in ChatNet /\ SameBut(n, r)
             /\ r.output = IF n.state[c] = "connected" /\ n.loop[c] = l
                           THEN [n.output EXCEPT ![c] = Append(@, m)] ELSE n.output
             /\ r.queue = IF n.state[c] = "connected" /\ n.loop[c] # l
                          THEN [n.queue EXCEPT ![n.loop[c]] = Append(@, ToSend(c, m))]
                          ELSE n.queue
<1>1. CASE n.state[c] # "connected"
  BY <1>1 DEF Chat!send, SameBut
<1>2. CASE n.state[c] = "connected" /\ n.loop[c] = l
  <2>1. Chat!send(n, l, c, m) = Chat!sendInLoop(n, c, m)
    BY <1>2 DEF Chat!send
  <2> QED
    BY <1>2, <2>1, ChatSendInLoop
<1>3. CASE n.state[c] = "connected" /\ n.loop[c] # l
  <2>1. Chat!send(n, l, c, m) = Chat!queueInLoop(n, n.loop[c], ToSend(c, m))
    BY <1>3 DEF Chat!send, ToSend
  <2>2. n.loop[c] \in Loop /\ ToSend(c, m) \in Functor
    BY DEF ChatNet, ToSend, Functor
  <2>3. PICK r : r = Chat!queueInLoop(n, n.loop[c], ToSend(c, m))
    OBVIOUS
  <2>5. PICK k \in Loop, f \in Functor : k = n.loop[c] /\ f = ToSend(c, m)
    BY <2>2
  <2>6. r = Chat!queueInLoop(n, k, f)
    BY <2>3, <2>5
  <2>4. /\ r \in ChatNet /\ SameBut(n, r) /\ r.output = n.output
        /\ r.queue = [n.queue EXCEPT ![n.loop[c]] = Append(@, ToSend(c, m))]
    BY <2>5, <2>6, ChatQueueInLoop
  <2> QED
    BY <1>3, <2>1, <2>3, <2>4
<1> QED
  BY <1>1, <1>2, <1>3

\* What it is to send m to all of S from loop l.
Sends(n, S, l, k, x, y) ==
  /\ Extends(x, y)
  /\ k = l => y = x
  /\ \A i \in Len(x) + 1 .. Len(y) :
       /\ y[i].call = "send" /\ y[i].conn \in S
       /\ n.state[y[i].conn] = "connected" /\ n.loop[y[i].conn] = k
  /\ \A i, j \in Len(x) + 1 .. Len(y) : y[i].conn = y[j].conn => i = j
  /\ \A c \in S : n.state[c] = "connected" /\ n.loop[c] = k /\ k # l =>
       \E i \in Len(x) + 1 .. Len(y) : y[i].conn = c

Broadcasts(n, r, l, S, m) ==
  /\ r \in ChatNet /\ SameBut(n, r)
  /\ \A c \in Conn : IF c \in S /\ n.state[c] = "connected" /\ n.loop[c] = l
                     THEN Appended(n.output[c], m, r.output[c]) ELSE r.output[c] = n.output[c]
  /\ \A k \in Loop : /\ Sends(n, S, l, k, n.queue[k], r.queue[k])
                     /\ \A i \in Len(n.queue[k]) + 1 .. Len(r.queue[k]) : r.queue[k][i].arg = m

LEMMA BroadcastNone ==
  ASSUME NEW n \in ChatNet, NEW l, NEW m
  PROVE  Broadcasts(n, n, l, {}, m)
<1>1. \A k \in Loop : Len(n.queue[k]) \in Nat
  BY DEF ChatNet
<1>2. \A k \in Loop : Len(n.queue[k]) + 1 .. Len(n.queue[k]) = {}
  BY <1>1
<1>3. \A k \in Loop : Sends(n, {}, l, k, n.queue[k], n.queue[k])
  BY <1>1, <1>2 DEF Sends, Extends
<1> QED
  BY <1>2, <1>3 DEF Broadcasts, SameBut

LEMMA BroadcastOneMore ==
  ASSUME NEW n \in ChatNet, NEW r, NEW l \in Loop, NEW S, S \subseteq Conn, NEW m \in Message,
         Broadcasts(n, r, l, S, m), NEW c, c \in Conn \ S
  PROVE  Broadcasts(n, Chat!send(r, l, c, m), l, S \cup {c}, m)
<1>1. PICK x : x = Chat!send(r, l, c, m)
  OBVIOUS
<1>2. /\ r \in ChatNet /\ SameBut(n, r)
      /\ \A d \in Conn : IF d \in S /\ n.state[d] = "connected" /\ n.loop[d] = l
                         THEN Appended(n.output[d], m, r.output[d]) ELSE r.output[d] = n.output[d]
      /\ \A k \in Loop : /\ Sends(n, S, l, k, n.queue[k], r.queue[k])
                         /\ \A i \in Len(n.queue[k]) + 1 .. Len(r.queue[k]) : r.queue[k][i].arg = m
  BY Zenon DEF Broadcasts
<1>3. r.state = n.state /\ r.loop = n.loop
  BY <1>2 DEF SameBut
<1>4. /\ x \in ChatNet /\ SameBut(r, x)
      /\ x.output = IF n.state[c] = "connected" /\ n.loop[c] = l
                    THEN [r.output EXCEPT ![c] = Append(@, m)] ELSE r.output
      /\ x.queue = IF n.state[c] = "connected" /\ n.loop[c] # l
                   THEN [r.queue EXCEPT ![n.loop[c]] = Append(@, ToSend(c, m))] ELSE r.queue
  <2>1. c \in Conn /\ r \in ChatNet
    BY <1>2
  <2>2. /\ x \in ChatNet /\ SameBut(r, x)
        /\ x.output = IF r.state[c] = "connected" /\ r.loop[c] = l
                      THEN [r.output EXCEPT ![c] = Append(@, m)] ELSE r.output
        /\ x.queue = IF r.state[c] = "connected" /\ r.loop[c] # l
                     THEN [r.queue EXCEPT ![r.loop[c]] = Append(@, ToSend(c, m))] ELSE r.queue
    BY <1>1, <2>1, ChatSend
  <2> QED
    BY <1>3, <2>2, Zenon
<1>5. SameBut(n, x)
  BY <1>2, <1>4 DEF SameBut
<1>t. /\ r.output \in [Conn -> Seq(Message)] /\ r.queue \in [Loop -> Seq(Functor)]
      /\ n.queue \in [Loop -> Seq(Functor)] /\ n.loop \in [Conn -> Loop]
  BY <1>2 DEF ChatNet
<1>6. ASSUME NEW d \in Conn
      PROVE  IF d \in S \cup {c} /\ n.state[d] = "connected" /\ n.loop[d] = l
             THEN Appended(n.output[d], m, x.output[d]) ELSE x.output[d] = n.output[d]
  <2>1. CASE d # c
    <3>1. x.output[d] = r.output[d]
      BY <1>4, <1>t, <2>1
    <3> QED
      BY <1>2, <2>1, <3>1
  <2>2. CASE d = c
    <3>1. r.output[c] = n.output[c]
      BY <1>2
    <3>2. CASE n.state[c] = "connected" /\ n.loop[c] = l
      <4>1. x.output[c] = Append(r.output[c], m)
        BY <1>4, <1>t, <3>2
      <4>2. r.output[c] \in Seq(Message)
        BY <1>t
      <4>3. Appended(r.output[c], m, Append(r.output[c], m))
        BY <4>2, AppendIs, Zenon
      <4>4. Appended(n.output[c], m, x.output[c])
        BY <3>1, <4>1, <4>3, Zenon
      <4> QED
        BY <2>2, <3>2, <4>4, Zenon
    <3>3. CASE ~(n.state[c] = "connected" /\ n.loop[c] = l)
      <4>1. x.output = r.output
        BY <1>4, <3>3, Zenon
      <4> QED
        BY <2>2, <3>1, <3>3, <4>1
    <3> QED
      BY <3>2, <3>3
  <2> QED
    BY <2>1, <2>2
<1>7. ASSUME NEW k \in Loop
      PROVE  /\ Sends(n, S \cup {c}, l, k, n.queue[k], x.queue[k])
             /\ \A i \in Len(n.queue[k]) + 1 .. Len(x.queue[k]) : x.queue[k][i].arg = m
  <2>1. PICK q, u : q = n.queue[k] /\ u = r.queue[k]
    OBVIOUS
  <2>2. q \in Seq(Functor) /\ u \in Seq(Functor) /\ Len(q) \in Nat /\ Len(u) \in Nat
    BY <1>t, <2>1
  <2>3. Sends(n, S, l, k, q, u) /\ \A i \in Len(q) + 1 .. Len(u) : u[i].arg = m
    BY <1>2, <2>1, Zenon
  <2>4. CASE n.state[c] = "connected" /\ n.loop[c] = k /\ k # l
    <3>1. PICK v : v = Append(u, ToSend(c, m))
      OBVIOUS
    <3>2. x.queue[k] = v
      BY <1>4, <1>t, <2>1, <2>4, <3>1
    <3>3. Appended(u, ToSend(c, m), v)
      <4>1. ToSend(c, m) \in Functor
        BY DEF ToSend, Functor
      <4> QED
        BY <2>2, <3>1, <4>1, AppendIs, Zenon
    <3>4. /\ Len(v) = Len(u) + 1 /\ v[Len(u) + 1] = ToSend(c, m)
          /\ \A i \in 1 .. Len(u) : v[i] = u[i]
      BY <3>3 DEF Appended, Extends
    <3>5. /\ Len(u) >= Len(q) /\ \A i \in 1 .. Len(q) : u[i] = q[i]
          /\ \A i \in Len(q) + 1 .. Len(u) :
               /\ u[i].call = "send" /\ u[i].conn \in S /\ u[i].arg = m
               /\ n.state[u[i].conn] = "connected" /\ n.loop[u[i].conn] = k
          /\ \A i, j \in Len(q) + 1 .. Len(u) : u[i].conn = u[j].conn => i = j
          /\ \A d \in S : n.state[d] = "connected" /\ n.loop[d] = k =>
               \E i \in Len(q) + 1 .. Len(u) : u[i].conn = d
      BY <2>3, <2>4 DEF Sends, Extends
    <3>l. Len(u) >= Len(q) /\ Len(v) = Len(u) + 1 /\ Len(q) \in Nat /\ Len(u) \in Nat
      BY <2>2, <3>4, <3>5, Zenon
    <3>6. Extends(q, v)
      <4>1. ASSUME NEW i \in 1 .. Len(q) PROVE v[i] = q[i]
        <5>1. i \in 1 .. Len(u)
          BY <2>2, <3>5
        <5> QED
          BY <3>4, <3>5, <5>1
      <4> QED
        BY <2>2, <3>4, <3>5, <4>1 DEF Extends
    <3>7. ToSend(c, m).call = "send" /\ ToSend(c, m).conn = c /\ ToSend(c, m).arg = m
      BY DEF ToSend
    <3>8. \A i \in Len(q) + 1 .. Len(v) :
            \/ i \in Len(q) + 1 .. Len(u) /\ v[i] = u[i]
            \/ i = Len(u) + 1 /\ v[i] = ToSend(c, m)
      <4>1. ASSUME NEW i \in Len(q) + 1 .. Len(v)
            PROVE  i = Len(u) + 1 \/ (i \in Len(q) + 1 .. Len(u) /\ i \in 1 .. Len(u))
        BY <3>l
      <4> QED
        BY <3>4, <4>1
    <3>9. Len(u) + 1 \in Len(q) + 1 .. Len(v) /\ \A i \in Len(q) + 1 .. Len(u) :
            i \in Len(q) + 1 .. Len(v) /\ v[i] = u[i] /\ i # Len(u) + 1
      <4>1. ASSUME NEW i \in Len(q) + 1 .. Len(u)
            PROVE  i \in Len(q) + 1 .. Len(v) /\ i \in 1 .. Len(u) /\ i # Len(u) + 1
        BY <3>l
      <4>2. Len(u) + 1 \in Len(q) + 1 .. Len(v)
        BY <3>l
      <4> QED
        BY <3>4, <4>1, <4>2, Zenon
    <3>10. \A i \in Len(q) + 1 .. Len(v) :
             /\ v[i].call = "send" /\ v[i].conn \in S \cup {c} /\ v[i].arg = m
             /\ n.state[v[i].conn] = "connected" /\ n.loop[v[i].conn] = k
      BY <2>4, <3>5, <3>7, <3>8
    <3>s. \A i \in Len(q) + 1 .. Len(u) : u[i].conn # c
      <4>1. \A i \in Len(q) + 1 .. Len(u) : u[i].conn \in S
        BY <3>5, Zenon
      <4>2. c \notin S
        OBVIOUS
      <4> QED
        BY <4>1, <4>2, Zenon
    <3>11. ASSUME NEW i \in Len(q) + 1 .. Len(v), NEW j \in Len(q) + 1 .. Len(v), v[i].conn = v[j].conn
           PROVE  i = j
      <4>1. CASE v[i].conn = c
        <5>1. i = Len(u) + 1 /\ j = Len(u) + 1
          BY <3>8, <3>11, <3>s, <4>1, Zenon
        <5> QED
          BY <5>1
      <4>2. CASE v[i].conn # c
        <5>1. /\ i \in Len(q) + 1 .. Len(u) /\ v[i] = u[i]
              /\ j \in Len(q) + 1 .. Len(u) /\ v[j] = u[j]
          BY <3>7, <3>8, <3>11, <4>2
        <5> QED
          BY <3>5, <3>11, <5>1
      <4> QED
        BY <4>1, <4>2
    <3>12. \A d \in S \cup {c} : n.state[d] = "connected" /\ n.loop[d] = k =>
             \E i \in Len(q) + 1 .. Len(v) : v[i].conn = d
      <4>1. ASSUME NEW d \in S, n.state[d] = "connected", n.loop[d] = k
            PROVE  \E i \in Len(q) + 1 .. Len(v) : v[i].conn = d
        BY <3>5, <3>9, <4>1
      <4>2. \E i \in Len(q) + 1 .. Len(v) : v[i].conn = c
        BY <3>4, <3>7, <3>9
      <4> QED
        BY <4>1, <4>2
    <3>13. Sends(n, S \cup {c}, l, k, q, v)
      BY <2>4, <3>6, <3>10, <3>11, <3>12, Zenon DEF Sends
    <3> QED
      BY <2>1, <3>2, <3>10, <3>13
  <2>5. CASE ~(n.state[c] = "connected" /\ n.loop[c] = k /\ k # l)
    <3>1. x.queue[k] = u
      BY <1>4, <1>t, <2>1, <2>5
    <3>2. Sends(n, S \cup {c}, l, k, q, u)
      BY <2>3, <2>5 DEF Sends
    <3> QED
      BY <2>1, <2>3, <3>1, <3>2
  <2> QED
    BY <2>4, <2>5
<1> QED
  BY <1>1, <1>4, <1>5, <1>6, <1>7, Zenon DEF Broadcasts

\* What FoldSet makes of the sends to all of S.
SendsFolded(h, n, l, S, m) ==
  h = [s \in SUBSET S |-> IF s = {} THEN n ELSE Chat!send(h[s \ {Pick(s)}], l, Pick(s), m)]

LEMMA SendAllFolds ==
  ASSUME NEW n, NEW l, NEW S, NEW m, NEW g, SendsFolded(g, n, l, S, m)
  PROVE  \E h : Chat!SendAll(n, l, S, m) = h[S] /\ SendsFolded(h, n, l, S, m)
<1> DEFINE Solves(h) == h = [s \in SUBSET S |-> IF s = {} THEN n ELSE Chat!send(h[s \ {Pick(s)}], l, Pick(s), m)]
           h == CHOOSE h : Solves(h)
<1>1. Chat!SendAll(n, l, S, m) = h[S]
  BY DEF Chat!SendAll, Chat!FoldSet, Chat!MapThenFoldSet, Pick
<1>2. Solves(h)
  <2>1. \E k : Solves(k)
    BY DEF SendsFolded
  <2> HIDE DEF Solves
  <2> QED
    BY <2>1
<1> HIDE DEF h
<1> QED
  BY <1>1, <1>2 DEF SendsFolded

LEMMA SendAllBroadcasts ==
  ASSUME NEW n \in ChatNet, NEW l \in Loop, NEW S, S \subseteq Conn, IsFiniteSet(S), NEW m \in Message
  PROVE  Broadcasts(n, Chat!SendAll(n, l, S, m), l, S, m)
<1> DEFINE f == [p \in ChatNet \X S |-> Chat!send(p[1], l, p[2], m)]
           G(h) == {T \in SUBSET S : Broadcasts(n, h[T], l, T, m)}
<1>1. f \in [ChatNet \X S -> ChatNet]
  <2>1. \A r \in ChatNet, c \in S : Chat!send(r, l, c, m) \in ChatNet
    BY ChatSend
  <2> QED
    BY <2>1
<1>2. \A r \in ChatNet, c \in S : f[<<r, c>>] = Chat!send(r, l, c, m)
  OBVIOUS
<1> HIDE DEF f
<1>3. PICK g \in [SUBSET S -> ChatNet] : FoldOf(g, S, n, f)
  BY <1>1, FoldExists, Zenon
<1>p. \A s \in SUBSET S : s # {} => Pick(s) \in s /\ Pick(s) \in S /\ s \ {Pick(s)} \in SUBSET S
  BY DEF Pick
<1>4. SendsFolded(g, n, l, S, m)
  <2>1. ASSUME NEW s \in SUBSET S
        PROVE  g[s] = IF s = {} THEN n ELSE Chat!send(g[s \ {Pick(s)}], l, Pick(s), m)
    <3>1. CASE s = {}
      BY <1>3, <3>1 DEF FoldOf
    <3>2. CASE s # {}
      <4>1. Pick(s) \in S /\ s \ {Pick(s)} \in SUBSET S /\ g[s \ {Pick(s)}] \in ChatNet
        BY <1>p, <3>2
      <4>2. f[<<g[s \ {Pick(s)}], Pick(s)>>] = Chat!send(g[s \ {Pick(s)}], l, Pick(s), m)
        BY <1>2, <4>1
      <4> QED
        BY <1>3, <3>2, <4>2 DEF FoldOf
    <3> QED
      BY <3>1, <3>2
  <2> QED
    BY <2>1 DEF SendsFolded
<1>5. PICK h : Chat!SendAll(n, l, S, m) = h[S] /\ SendsFolded(h, n, l, S, m)
  BY <1>4, SendAllFolds, Zenon
<1>6. \A s \in SUBSET S : h[s] = IF s = {} THEN n ELSE Chat!send(h[s \ {Pick(s)}], l, Pick(s), m)
  BY <1>5 DEF SendsFolded
<1>7. {} \in G(h)
  BY <1>6, BroadcastNone
<1>8. ASSUME NEW T \in SUBSET S, T # {} PROVE \E c \in T : T \ {c} \in G(h) => T \in G(h)
  <2>1. Pick(T) \in T /\ Pick(T) \in Conn \ (T \ {Pick(T)}) /\ T \ {Pick(T)} \subseteq Conn
    BY <1>p, <1>8
  <2>2. (T \ {Pick(T)}) \cup {Pick(T)} = T
    BY <2>1
  <2>3. ASSUME Broadcasts(n, h[T \ {Pick(T)}], l, T \ {Pick(T)}, m)
        PROVE  Broadcasts(n, h[T], l, T, m)
    <3>1. Broadcasts(n, Chat!send(h[T \ {Pick(T)}], l, Pick(T), m), l, (T \ {Pick(T)}) \cup {Pick(T)}, m)
      BY <2>1, <2>3, BroadcastOneMore
    <3>2. h[T] = Chat!send(h[T \ {Pick(T)}], l, Pick(T), m)
      BY <1>6, <1>8
    <3> QED
      BY <2>2, <3>1, <3>2
  <2> QED
    BY <2>1, <2>3
<1>9. S \in G(h)
  <2> HIDE DEF G
  <2>1. Grows(S, G(h))
    BY <1>7, <1>8 DEF Grows
  <2> QED
    BY <2>1, SubsetInduction
<1> QED
  BY <1>5, <1>9

LEMMA SendBroadcasts ==
  ASSUME NEW n \in ChatNet, NEW l \in Loop, NEW c \in Conn, NEW m \in Message
  PROVE  Broadcasts(n, Chat!send(n, l, c, m), l, {c}, m)
<1>1. Broadcasts(n, Chat!send(n, l, c, m), l, {} \cup {c}, m)
  BY BroadcastNone, BroadcastOneMore
<1> QED
  BY <1>1

\* What it is to queue f in all the loops of T.
Distributes(n, r, T, f) ==
  /\ r \in ChatNet /\ SameBut(n, r) /\ r.output = n.output
  /\ \A k \in Loop : IF k \in T THEN Appended(n.queue[k], f, r.queue[k]) ELSE r.queue[k] = n.queue[k]

ToDistribute(m) == [call |-> "distributeMessage", arg |-> m]

LEMMA DistributeOneMore ==
  ASSUME NEW n \in ChatNet, NEW r, NEW T, T \subseteq Loop, NEW f \in Functor,
         Distributes(n, r, T, f), NEW l, l \in Loop \ T
  PROVE  Distributes(n, Chat!queueInLoop(r, l, f), T \cup {l}, f)
<1>1. PICK x : x = Chat!queueInLoop(r, l, f)
  OBVIOUS
<1>2. /\ r \in ChatNet /\ SameBut(n, r) /\ r.output = n.output /\ l \in Loop
      /\ \A k \in Loop : IF k \in T THEN Appended(n.queue[k], f, r.queue[k]) ELSE r.queue[k] = n.queue[k]
  BY Zenon DEF Distributes
<1>3. x \in ChatNet /\ SameBut(r, x) /\ x.output = r.output /\ x.queue = [r.queue EXCEPT ![l] = Append(@, f)]
  BY <1>1, <1>2, ChatQueueInLoop
<1>4. r.queue \in [Loop -> Seq(Functor)]
  BY <1>2 DEF ChatNet
<1>5. SameBut(n, x) /\ x.output = n.output
  BY <1>2, <1>3 DEF SameBut
<1>6. ASSUME NEW k \in Loop
      PROVE  IF k \in T \cup {l} THEN Appended(n.queue[k], f, x.queue[k]) ELSE x.queue[k] = n.queue[k]
  <2>1. CASE k # l
    <3>1. x.queue[k] = r.queue[k]
      BY <1>3, <1>4, <2>1
    <3> QED
      BY <1>2, <2>1, <3>1
  <2>2. CASE k = l
    <3>1. x.queue[l] = Append(r.queue[l], f) /\ r.queue[l] \in Seq(Functor)
      BY <1>2, <1>3, <1>4
    <3>2. r.queue[l] = n.queue[l]
      BY <1>2
    <3>3. Appended(r.queue[l], f, Append(r.queue[l], f))
      BY <3>1, AppendIs, Zenon
    <3>4. Appended(n.queue[l], f, x.queue[l])
      BY <3>1, <3>2, <3>3, Zenon
    <3> QED
      BY <2>2, <3>4, Zenon
  <2> QED
    BY <2>1, <2>2
<1> QED
  BY <1>1, <1>3, <1>5, <1>6, Zenon DEF Distributes

QueuesFolded(h, n, m) ==
  h = [s \in SUBSET Loop |-> IF s = {} THEN n
                             ELSE Chat!queueInLoop(h[s \ {Pick(s)}], Pick(s), ToDistribute(m))]

LEMMA DistributeFolds ==
  ASSUME NEW n, NEW here, NEW m, NEW g, QueuesFolded(g, n, m)
  PROVE  \E h : Chat!DistributeToAll(n, here, m) = h[Loop] /\ QueuesFolded(h, n, m)
<1> DEFINE Solves(h) == h = [s \in SUBSET Loop |-> IF s = {} THEN n
                               ELSE Chat!queueInLoop(h[s \ {Pick(s)}], Pick(s), ToDistribute(m))]
           h == CHOOSE h : Solves(h)
<1>1. Chat!DistributeToAll(n, here, m) = h[Loop]
  BY DEF Chat!DistributeToAll, Chat!FoldSet, Chat!MapThenFoldSet, Pick, ToDistribute
<1>2. Solves(h)
  <2>1. \E k : Solves(k)
    BY DEF QueuesFolded
  <2> HIDE DEF Solves
  <2> QED
    BY <2>1
<1> HIDE DEF h
<1> QED
  BY <1>1, <1>2 DEF QueuesFolded

LEMMA DistributeDistributes ==
  ASSUME NEW n \in ChatNet, NEW here, NEW m \in Message
  PROVE  Distributes(n, Chat!DistributeToAll(n, here, m), Loop, ToDistribute(m))
<1> DEFINE f == [p \in ChatNet \X Loop |-> Chat!queueInLoop(p[1], p[2], ToDistribute(m))]
           G(h) == {T \in SUBSET Loop : Distributes(n, h[T], T, ToDistribute(m))}
<1>d. ToDistribute(m) \in Functor
  BY DEF ToDistribute, Functor
<1>1. f \in [ChatNet \X Loop -> ChatNet]
  <2>1. \A r \in ChatNet, l \in Loop : Chat!queueInLoop(r, l, ToDistribute(m)) \in ChatNet
    BY <1>d, ChatQueueInLoop
  <2> QED
    BY <2>1
<1>2. \A r \in ChatNet, l \in Loop : f[<<r, l>>] = Chat!queueInLoop(r, l, ToDistribute(m))
  OBVIOUS
<1> HIDE DEF f
<1>3. PICK g \in [SUBSET Loop -> ChatNet] : FoldOf(g, Loop, n, f)
  BY <1>1, FoldExists, ServersAssumption, Zenon
<1>p. \A s \in SUBSET Loop : s # {} => Pick(s) \in s /\ Pick(s) \in Loop /\ s \ {Pick(s)} \in SUBSET Loop
  BY DEF Pick
<1>4. QueuesFolded(g, n, m)
  <2>1. ASSUME NEW s \in SUBSET Loop
        PROVE  g[s] = IF s = {} THEN n ELSE Chat!queueInLoop(g[s \ {Pick(s)}], Pick(s), ToDistribute(m))
    <3>1. CASE s = {}
      BY <1>3, <3>1 DEF FoldOf
    <3>2. CASE s # {}
      <4>1. Pick(s) \in Loop /\ s \ {Pick(s)} \in SUBSET Loop /\ g[s \ {Pick(s)}] \in ChatNet
        BY <1>p, <3>2
      <4>2. f[<<g[s \ {Pick(s)}], Pick(s)>>]
              = Chat!queueInLoop(g[s \ {Pick(s)}], Pick(s), ToDistribute(m))
        BY <1>2, <4>1
      <4> QED
        BY <1>3, <3>2, <4>2 DEF FoldOf
    <3> QED
      BY <3>1, <3>2
  <2> QED
    BY <2>1 DEF QueuesFolded
<1>5. PICK h : Chat!DistributeToAll(n, here, m) = h[Loop] /\ QueuesFolded(h, n, m)
  BY <1>4, DistributeFolds, Zenon
<1>6. \A s \in SUBSET Loop :
        h[s] = IF s = {} THEN n ELSE Chat!queueInLoop(h[s \ {Pick(s)}], Pick(s), ToDistribute(m))
  BY <1>5 DEF QueuesFolded
<1>7. {} \in G(h)
  BY <1>6 DEF Distributes, SameBut
<1>8. ASSUME NEW T \in SUBSET Loop, T # {} PROVE \E l \in T : T \ {l} \in G(h) => T \in G(h)
  <2>1. Pick(T) \in T /\ Pick(T) \in Loop \ (T \ {Pick(T)}) /\ T \ {Pick(T)} \subseteq Loop
    BY <1>p, <1>8
  <2>2. (T \ {Pick(T)}) \cup {Pick(T)} = T
    BY <2>1
  <2>3. ASSUME Distributes(n, h[T \ {Pick(T)}], T \ {Pick(T)}, ToDistribute(m))
        PROVE  Distributes(n, h[T], T, ToDistribute(m))
    <3>1. Distributes(n, Chat!queueInLoop(h[T \ {Pick(T)}], Pick(T), ToDistribute(m)),
                      (T \ {Pick(T)}) \cup {Pick(T)}, ToDistribute(m))
      BY <1>d, <2>1, <2>3, DistributeOneMore
    <3>2. h[T] = Chat!queueInLoop(h[T \ {Pick(T)}], Pick(T), ToDistribute(m))
      BY <1>6, <1>8
    <3> QED
      BY <2>2, <3>1, <3>2
  <2> QED
    BY <2>1, <2>3
<1>9. Loop \in G(h)
  <2> HIDE DEF G
  <2>1. Grows(Loop, G(h))
    BY <1>7, <1>8 DEF Grows
  <2> QED
    BY <2>1, SubsetInduction, ServersAssumption
<1> QED
  BY <1>5, <1>9

\* A step in which nothing is sent or queued and nobody comes up.
Settles ==
  /\ net' \in ChatNet /\ net'.loop = net.loop /\ net'.output = net.output /\ net'.queue = net.queue
  /\ connections' \in SUBSET Conn /\ IsFiniteSet(connections')
  /\ UNCHANGED <<program, walk, delivered, joined>>
  /\ \A c \in Conn : \/ net'.state[c] = net.state[c]
                     \/ /\ net.state[c] # "idle" /\ net'.state[c] \notin {"idle", "connected"}
                        /\ Reachable(c)' => Reachable(c)
  /\ \A l \in Loop : walk[l].todo # {} => net'.reading[l] = net.reading[l]

LEMMA SettlesKeepsInv == ChatInv /\ Settles /\ ListExact' => ChatInv'
<1> SUFFICES ASSUME ChatInv, Settles, ListExact' PROVE ChatInv'
  OBVIOUS
<1>1. ChatTypeOK'
  BY DEF ChatInv, ChatTypeOK, Settles
<1>2. WalksLast'
  <2>1. ASSUME NEW l \in Loop
        PROVE IF walk[l].todo = {} THEN walk[l] = Chat!NoWalk
              ELSE /\ program = "efficient" /\ net'.reading[l] # NoConn
                   /\ walk[l].message \in Message
                   /\ walk[l].message.from = net'.reading[l]
                   /\ walk[l].message.nth = Len(delivered[net'.reading[l]])
                   /\ \A c \in walk[l].todo : net'.state[c] # "idle"
    <3>1. CASE walk[l].todo = {}
      BY <3>1, Zenon DEF ChatInv, WalksLast
    <3>2. CASE walk[l].todo # {}
      <4>1. net'.reading[l] = net.reading[l]
        BY <3>2, Zenon DEF Settles
      <4>2. \A c \in walk[l].todo : c \in Conn
        BY DEF ChatInv, ChatTypeOK
      <4>3. \A c \in Conn : net'.state[c] = "idle" => net.state[c] = "idle"
        BY DEF Settles
      <4>4. /\ program = "efficient" /\ net.reading[l] # NoConn
            /\ walk[l].message \in Message
            /\ walk[l].message.from = net.reading[l]
            /\ walk[l].message.nth = Len(delivered[net.reading[l]])
            /\ \A c \in walk[l].todo : net.state[c] # "idle"
        BY <3>2, Zenon DEF ChatInv, WalksLast
      <4> QED
        BY <3>2, <4>1, <4>2, <4>3, <4>4
    <3> QED
      BY <3>1, <3>2
  <2> QED
    BY <2>1 DEF WalksLast, Settles
<1>3. QueuesRight'
  <2>1. \A c \in Conn : net'.state[c] = "idle" => net.state[c] = "idle"
    BY DEF Settles
  <2>2. ASSUME NEW l \in Loop, NEW i \in 1 .. Len(net.queue[l]) PROVE WaitsFor(net.queue[l][i], l)'
    <3>1. PICK f \in Functor : f = net.queue[l][i]
      BY DEF ChatInv, ChatTypeOK, ChatNet
    <3>2. WaitsFor(f, l)
      BY <3>1 DEF ChatInv, QueuesRight
    <3>3. f.call = "send" => f.conn \in Conn
      BY DEF Functor
    <3>4. WaitsFor(f, l)'
      BY <2>1, <3>2, <3>3 DEF WaitsFor, Settles
    <3> QED
      BY <3>1, <3>4 DEF Settles
  <2>3. program = "server" => \A c, d \in Conn : net'.loop[c] = net'.loop[d]
    BY DEF ChatInv, QueuesRight, Settles
  <2> QED
    BY <2>2, <2>3 DEF QueuesRight, Settles
<1>4. OutputFresh'
  BY DEF ChatInv, OutputFresh, Settles
<1>5. AllChained'
  <2>1. ASSUME NEW c \in Conn, NEW s \in Conn PROVE \E a, b, d \in Nat : Chained(c, s, a, b, d)'
    <3>1. PICK a \in Nat, b \in Nat, d \in Nat : Chained(c, s, a, b, d)
      BY DEF ChatInv, AllChained
    <3>2. /\ net'.output = net.output /\ net'.queue = net.queue /\ net'.loop = net.loop
          /\ walk' = walk /\ delivered' = delivered /\ joined' = joined /\ program' = program
      BY DEF Settles
    <3>3. OutRun(net, c, s, a, b)' <=> OutRun(net, c, s, a, b)
      BY <3>2 DEF OutRun
    <3>4. DueRun(net, c, s, b, d)' <=> DueRun(net, c, s, b, d)
      BY <3>2 DEF DueRun
    <3>5. Walking(c, s)' <=> Walking(c, s)
      BY <3>2 DEF Walking
    <3>6. CASE net'.state[c] = net.state[c]
      <4>1. Reachable(c)' <=> Reachable(c)
        BY <3>2, <3>6 DEF Reachable
      <4>2. Chained(c, s, a, b, d)'
        BY <3>1, <3>2, <3>3, <3>4, <3>5, <3>6, <4>1 DEF Chained
      <4> QED
        BY <4>2
    <3>7. CASE /\ net.state[c] # "idle" /\ net'.state[c] \notin {"idle", "connected"}
               /\ Reachable(c)' => Reachable(c)
      <4>1. Chained(c, s, a, b, d)'
        BY <3>1, <3>2, <3>3, <3>4, <3>7 DEF Chained
      <4> QED
        BY <4>1
    <3> QED
      BY <3>6, <3>7 DEF Settles
  <2> QED
    BY <2>1 DEF AllChained
<1>6. AllInOrder'
  BY DEF ChatInv, AllInOrder, Settles
<1> QED
  BY <1>1, <1>2, <1>3, <1>4, <1>5, <1>6 DEF ChatInv

LEMMA ChatDownKeepsInv ==
  ASSUME ChatInv, NEW c \in Conn, Chat!onConnectionDown(c), program' = program
  PROVE  ChatInv'
<1>1. net \in ChatNet /\ connections \in SUBSET Conn /\ IsFiniteSet(connections)
  BY DEF ChatInv, ChatTypeOK
<1>2. /\ net.reading[net.loop[c]] = NoConn /\ Chat!Open(net, c)
      /\ net' = Chat!disconnected(net, c) /\ connections' = connections \ {c}
      /\ walk' = walk /\ delivered' = delivered /\ joined' = joined
  BY DEF Chat!onConnectionDown, Chat!MayClose, Chat!Free
<1>3. net' = [net EXCEPT !.state = [net.state EXCEPT ![c] = "disconnected"]]
  <2>1. [net.unwritten EXCEPT ![c] = FALSE] = net.unwritten
    <3>1. net.unwritten \in [Conn -> {FALSE}]
      BY <1>1 DEF ChatNet
    <3> QED
      BY <3>1
  <2>2. net' = [net EXCEPT !.state = [net.state EXCEPT ![c] = "disconnected"],
                           !.unwritten = [net.unwritten EXCEPT ![c] = FALSE]]
    BY <1>1, <1>2 DEF ChatNet, Chat!disconnected
  <2>3. [net EXCEPT !.state = [net.state EXCEPT ![c] = "disconnected"], !.unwritten = net.unwritten]
          = [net EXCEPT !.state = [net.state EXCEPT ![c] = "disconnected"]]
    BY <1>1 DEF ChatNet
  <2> QED
    BY <2>1, <2>2, <2>3
<1>4. PICK state \in [Conn -> States] : /\ state = [net.state EXCEPT ![c] = "disconnected"]
                                        /\ net' = [net EXCEPT !.state = state]
  BY <1>1, <1>3 DEF ChatNet, States
<1>5. /\ net' \in ChatNet /\ net'.loop = net.loop /\ net'.output = net.output /\ net'.queue = net.queue
      /\ net'.reading = net.reading /\ net'.state = state
  BY <1>1, <1>4 DEF ChatNet
<1>6. state[c] = "disconnected" /\ \A d \in Conn : d # c => state[d] = net.state[d]
  BY <1>1, <1>4 DEF ChatNet
<1>7. connections' \in SUBSET Conn /\ IsFiniteSet(connections')
  BY <1>1, <1>2, FS_Subset
<1>8. Settles
  BY <1>2, <1>5, <1>6, <1>7 DEF Settles, Reachable, Chat!Open
<1>9. ListExact'
  <2>1. connections = {d \in Conn : Chat!Open(net, d)}
    BY DEF ChatInv, ListExact
  <2>2. \A d \in Conn : Chat!Open(net', d) <=> d # c /\ Chat!Open(net, d)
    BY <1>5, <1>6 DEF Chat!Open
  <2>3. connections' = {d \in Conn : Chat!Open(net', d)}
    BY <1>2, <2>1, <2>2
  <2>4. ASSUME NEW l \in Loop, net.reading[l] # NoConn
        PROVE  net.loop[net.reading[l]] = l /\ net.reading[l] \in connections'
    <3>1. net.loop[net.reading[l]] = l /\ net.reading[l] \in connections
      BY <2>4 DEF ChatInv, ListExact
    <3>2. net.reading[l] # c
      BY <1>2, <2>4, <3>1
    <3> QED
      BY <1>2, <3>1, <3>2
  <2> QED
    BY <1>5, <2>3, <2>4 DEF ListExact
<1> QED
  BY <1>8, <1>9, SettlesKeepsInv

\* The steps of a callback for input that sends nothing.
LEMMA ReadingKeepsList ==
  ASSUME ChatInv, UNCHANGED connections, net' \in ChatNet, net'.loop = net.loop,
         \A c \in Conn : Chat!Open(net', c) <=> Chat!Open(net, c),
         NEW l \in Loop, \A k \in Loop : k # l => net'.reading[k] = net.reading[k],
         \/ net'.reading[l] \in {NoConn, net.reading[l]}
         \/ net'.reading[l] \in connections /\ net.loop[net'.reading[l]] = l
  PROVE  ListExact'
<1>1. /\ connections = {c \in Conn : Chat!Open(net, c)}
      /\ \A k \in Loop : net.reading[k] # NoConn =>
           net.loop[net.reading[k]] = k /\ net.reading[k] \in connections
  BY DEF ChatInv, ListExact
<1>2. connections' = {c \in Conn : Chat!Open(net', c)}
  BY <1>1
<1>3. ASSUME NEW k \in Loop, net'.reading[k] # NoConn
      PROVE  net'.loop[net'.reading[k]] = k /\ net'.reading[k] \in connections'
  BY <1>1, <1>3
<1> QED
  BY <1>2, <1>3 DEF ListExact

LEMMA ReceiveKeepsInv ==
  ASSUME ChatInv, NEW c \in Conn, NEW k, Chat!Receive(c, k), program' = program
  PROVE  ChatInv'
<1>1. net \in ChatNet /\ connections \in SUBSET Conn /\ IsFiniteSet(connections) /\ net.loop[c] \in Loop
  BY DEF ChatInv, ChatTypeOK, ChatNet
<1>2. /\ net.reading[net.loop[c]] = NoConn /\ Chat!Open(net, c) /\ k \in 1 .. Len(net.arriving[c])
      /\ net' = [Chat!arrived(net, c, k) EXCEPT !.reading[net.loop[c]] = c]
      /\ UNCHANGED <<connections, walk, delivered, joined>>
  BY DEF Chat!Receive, Chat!MayRead, Chat!Free
<1>3. PICK bytes \in Seq(Int), rest \in Seq(Int) :
        bytes = SubSeq(net.arriving[c], 1, k) /\ rest = Chat!EndOf(net.arriving[c], k)
  <2>1. net.arriving[c] \in Seq(Int)
    BY <1>1 DEF ChatNet
  <2>2. SubSeq(net.arriving[c], 1, k) \in Seq(Int)
    BY <1>2, <2>1
  <2>3. Chat!EndOf(net.arriving[c], k) \in Seq(Int)
    BY <1>2, <2>1 DEF Chat!EndOf
  <2> QED
    BY <2>2, <2>3
<1>4. PICK arriving \in [Conn -> Seq(Int)], received \in [Conn -> Seq(Int)], input \in [Conn -> Seq(Int)] :
        /\ arriving = [net.arriving EXCEPT ![c] = rest]
        /\ received = [net.received EXCEPT ![c] = net.received[c] \o bytes]
        /\ input = [net.input EXCEPT ![c] = net.input[c] \o bytes]
  <2>1. net.input[c] \o bytes \in Seq(Int) /\ net.received[c] \o bytes \in Seq(Int)
    BY <1>1 DEF ChatNet
  <2>2. /\ [net.arriving EXCEPT ![c] = rest] \in [Conn -> Seq(Int)]
        /\ [net.received EXCEPT ![c] = net.received[c] \o bytes] \in [Conn -> Seq(Int)]
        /\ [net.input EXCEPT ![c] = net.input[c] \o bytes] \in [Conn -> Seq(Int)]
    BY <1>1, <2>1 DEF ChatNet
  <2> QED
    BY <2>2
<1>5. Chat!arrived(net, c, k) = [net EXCEPT !.arriving = arriving, !.input = input, !.received = received]
  BY <1>1, <1>3, <1>4 DEF ChatNet, Chat!arrived
<1>6. PICK reading \in [Loop -> Conn \cup {NoConn}] : reading = [net.reading EXCEPT ![net.loop[c]] = c]
  BY <1>1 DEF ChatNet
<1>7. net' = [net EXCEPT !.arriving = arriving, !.input = input, !.received = received, !.reading = reading]
  BY <1>1, <1>2, <1>5, <1>6 DEF ChatNet
<1>8. /\ net' \in ChatNet /\ net'.loop = net.loop /\ net'.output = net.output /\ net'.queue = net.queue
      /\ net'.state = net.state /\ net'.reading = reading
  BY <1>1, <1>7 DEF ChatNet
<1>9. reading[net.loop[c]] = c /\ \A l \in Loop : l # net.loop[c] => reading[l] = net.reading[l]
  BY <1>1, <1>6 DEF ChatNet
<1>10. c \in connections
  BY <1>2 DEF ChatInv, ListExact
<1>11. \A l \in Loop : walk[l].todo # {} => net'.reading[l] = net.reading[l]
  <2>1. \A l \in Loop : walk[l].todo # {} => net.reading[l] # NoConn
    BY Zenon DEF ChatInv, WalksLast
  <2> QED
    BY <1>2, <1>8, <1>9, <2>1
<1>12. Settles
  BY <1>1, <1>2, <1>8, <1>11 DEF Settles, Reachable
<1>13. ListExact'
  <2>1. \A d \in Conn : Chat!Open(net', d) <=> Chat!Open(net, d)
    BY <1>8 DEF Chat!Open
  <2>2. PICK l \in Loop : l = net.loop[c]
    BY <1>1
  <2>3. /\ \A m \in Loop : m # l => net'.reading[m] = net.reading[m]
        /\ net'.reading[l] \in connections /\ net.loop[net'.reading[l]] = l
    BY <1>8, <1>9, <1>10, <2>2
  <2> QED
    BY <1>2, <1>8, <2>1, <2>3, ReadingKeepsList
<1> QED
  BY <1>12, <1>13, SettlesKeepsInv

\* A callback for input has returned.
LEMMA ReturnKeepsInv ==
  ASSUME ChatInv, NEW l \in Loop, walk[l].todo = {}, NEW n \in ChatNet,
         UNCHANGED <<program, connections, walk, delivered, joined>>,
         net' = [n EXCEPT !.reading[l] = NoConn],
         n.loop = net.loop, n.output = net.output, n.queue = net.queue, n.reading = net.reading,
         \A c \in Conn : \/ n.state[c] = net.state[c]
                         \/ net.state[c] = "connected" /\ n.state[c] \in {"disconnecting", "shut"}
  PROVE  ChatInv'
<1>1. connections \in SUBSET Conn /\ IsFiniteSet(connections)
  BY DEF ChatInv, ChatTypeOK
<1>2. PICK reading \in [Loop -> Conn \cup {NoConn}] : reading = [n.reading EXCEPT ![l] = NoConn]
  BY DEF ChatNet
<1>3. net' = [n EXCEPT !.reading = reading]
  BY <1>2 DEF ChatNet
<1>4. /\ net' \in ChatNet /\ net'.loop = net.loop /\ net'.output = net.output /\ net'.queue = net.queue
      /\ net'.state = n.state /\ net'.reading = reading
  <2>1. [n EXCEPT !.reading = reading] \in ChatNet
    BY DEF ChatNet
  <2>2. /\ net'.loop = n.loop /\ net'.output = n.output /\ net'.queue = n.queue
        /\ net'.state = n.state /\ net'.reading = reading
    BY <1>3 DEF ChatNet
  <2> QED
    BY <1>3, <2>1, <2>2
<1>5. reading[l] = NoConn /\ \A k \in Loop : k # l => reading[k] = net.reading[k]
  BY <1>2 DEF ChatNet
<1>6. Settles
  BY <1>1, <1>4, <1>5 DEF Settles, Reachable
<1>7. ListExact'
  <2>1. \A d \in Conn : Chat!Open(net', d) <=> Chat!Open(net, d)
    BY <1>4 DEF Chat!Open
  <2> QED
    BY <1>4, <1>5, <2>1, ReadingKeepsList
<1> QED
  BY <1>6, <1>7, SettlesKeepsInv

LEMMA CodecReturnsKeepsInv ==
  ASSUME ChatInv, NEW l \in Loop, Chat!CodecReturns(l), program' = program
  PROVE  ChatInv'
<1>1. /\ net' = [net EXCEPT !.reading[l] = NoConn] /\ walk[l].todo = {}
      /\ UNCHANGED <<connections, walk, delivered, joined>>
  BY DEF Chat!CodecReturns, Chat!Turn
<1>2. net \in ChatNet
  BY DEF ChatInv, ChatTypeOK
<1> QED
  BY <1>1, <1>2, ReturnKeepsInv

LEMMA InvalidLengthKeepsInv ==
  ASSUME ChatInv, NEW l \in Loop, Chat!CodecInvalidLength(l), program' = program
  PROVE  ChatInv'
<1>1. PICK c \in Conn : /\ net' = [Chat!shutdown(net, c) EXCEPT !.reading[l] = NoConn]
                        /\ walk[l].todo = {}
                        /\ UNCHANGED <<connections, walk, delivered, joined>>
  BY DEF Chat!CodecInvalidLength, Chat!Turn
<1>2. net \in ChatNet
  BY DEF ChatInv, ChatTypeOK
<1>3. PICK state \in [Conn -> States] :
        state = [net.state EXCEPT ![c] = IF net.state[c] = "connected" THEN "disconnecting" ELSE net.state[c]]
  BY <1>2 DEF ChatNet, States
<1>4. PICK n : n = [net EXCEPT !.state = state]
  OBVIOUS
<1>5. Chat!shutdown(net, c) = n
  BY <1>2, <1>3, <1>4 DEF ChatNet, Chat!shutdown
<1>6. /\ n \in ChatNet /\ n.loop = net.loop /\ n.output = net.output /\ n.queue = net.queue
      /\ n.reading = net.reading /\ n.state = state
  BY <1>2, <1>4 DEF ChatNet
<1>7. \A d \in Conn : \/ state[d] = net.state[d]
                      \/ net.state[d] = "connected" /\ state[d] \in {"disconnecting", "shut"}
  BY <1>2, <1>3 DEF ChatNet
<1>8. net' = [n EXCEPT !.reading[l] = NoConn]
  BY <1>1, <1>5
<1> QED
  BY <1>1, <1>6, <1>7, <1>8, ReturnKeepsInv

LEMMA ShutdownInLoopKeepsInv ==
  ASSUME ChatInv, NEW c \in Conn, Chat!ShutdownInLoop(c),
         UNCHANGED <<program, connections, walk, delivered, joined>>
  PROVE  ChatInv'
<1>1. /\ net' = [net EXCEPT !.state[c] = "shut"] /\ net.state[c] = "disconnecting"
      /\ net \in ChatNet /\ connections \in SUBSET Conn /\ IsFiniteSet(connections)
      /\ net.loop[c] \in Loop
  BY DEF Chat!ShutdownInLoop, ChatInv, ChatTypeOK, ChatNet
<1>2. PICK state \in [Conn -> States] : state = [net.state EXCEPT ![c] = "shut"]
  BY <1>1 DEF ChatNet, States
<1>3. net' = [net EXCEPT !.state = state]
  BY <1>1, <1>2 DEF ChatNet
<1>4. /\ net' \in ChatNet /\ net'.loop = net.loop /\ net'.output = net.output /\ net'.queue = net.queue
      /\ net'.reading = net.reading /\ net'.state = state
  BY <1>1, <1>3 DEF ChatNet
<1>5. state[c] = "shut" /\ \A d \in Conn : d # c => state[d] = net.state[d]
  BY <1>1, <1>2 DEF ChatNet
<1>6. Settles
  BY <1>1, <1>4, <1>5 DEF Settles, Reachable
<1>7. ListExact'
  <2>1. \A d \in Conn : Chat!Open(net', d) <=> Chat!Open(net, d)
    BY <1>1, <1>4, <1>5 DEF Chat!Open
  <2> QED
    BY <1>1, <1>4, <2>1, ReadingKeepsList
<1> QED
  BY <1>6, <1>7, SettlesKeepsInv

\* What goes on in any step, and what waits goes on waiting.
Ages ==
  /\ program \in Chat!Programs /\ program' = program /\ net'.loop = net.loop
  /\ \A c \in Conn : /\ net'.state[c] = "idle" => net.state[c] = "idle"
                     /\ Len(delivered[c]) \in Nat /\ Len(delivered'[c]) \in Nat
                     /\ Len(delivered[c]) <= Len(delivered'[c])

LEMMA WaitsKept ==
  ASSUME Ages, NEW f \in Functor, NEW l, WaitsFor(f, l)
  PROVE  WaitsFor(f, l)'
<1>1. f.arg.from \in Conn /\ (f.call = "send" => f.conn \in Conn)
  BY DEF Functor, Message
<1>2. f.arg.nth \in 1 .. Len(delivered'[f.arg.from])
  <2>1. f.arg.nth \in 1 .. Len(delivered[f.arg.from])
    BY DEF WaitsFor
  <2> QED
    BY <1>1, <2>1 DEF Ages
<1>3. CASE program \in {"threaded", "efficient"}
  <2>1. /\ f.call = "send" /\ net.loop[f.conn] = l /\ net.state[f.conn] # "idle"
        /\ net.loop[f.arg.from] # l
    BY <1>3 DEF WaitsFor
  <2>2. /\ net'.loop[f.conn] = l /\ net'.state[f.conn] # "idle" /\ net'.loop[f.arg.from] # l
        /\ program' \in {"threaded", "efficient"}
    BY <1>1, <1>3, <2>1 DEF Ages
  <2> QED
    BY <1>2, <2>1, <2>2 DEF WaitsFor
<1>4. CASE program = "highperformance"
  <2>1. f.call = "distributeMessage" /\ program' = "highperformance"
    BY <1>4 DEF WaitsFor, Ages
  <2> QED
    BY <1>2, <2>1 DEF WaitsFor
<1>5. CASE program = "server"
  BY <1>5 DEF WaitsFor
<1> QED
  BY <1>3, <1>4, <1>5 DEF Ages, Chat!Programs

LEMMA ChatUpKeepsInv ==
  ASSUME ChatInv, NEW c \in Conn, Chat!onConnectionUp(c), program' = program
  PROVE  ChatInv'
<1>1. /\ net \in ChatNet /\ connections \in SUBSET Conn /\ IsFiniteSet(connections)
      /\ walk \in [Loop -> [todo : SUBSET Conn, message : Message \cup {<<>>}]]
      /\ delivered \in [Conn -> Seq(Seq(Int))] /\ joined \in [Conn -> [Conn -> Nat]]
      /\ program \in Chat!Programs
  BY DEF ChatInv, ChatTypeOK
<1>2. /\ net.reading[net.loop[c]] = NoConn /\ net.state[c] = "idle"
      /\ net' = [net EXCEPT !.state[c] = "connected"]
      /\ connections' = connections \cup {c}
      /\ joined' = [joined EXCEPT ![c] = [s \in Conn |-> Len(delivered[s])]]
      /\ walk' = walk /\ delivered' = delivered
  BY DEF Chat!onConnectionUp, Chat!MayConnect, Chat!Free, Chat!connected
<1>3. PICK state \in [Conn -> States] : state = [net.state EXCEPT ![c] = "connected"]
  BY <1>1 DEF ChatNet, States
<1>4. net' = [net EXCEPT !.state = state]
  BY <1>1, <1>2, <1>3 DEF ChatNet
<1>5. /\ net' \in ChatNet /\ net'.loop = net.loop /\ net'.output = net.output /\ net'.queue = net.queue
      /\ net'.reading = net.reading /\ net'.state = state
  BY <1>1, <1>4 DEF ChatNet
<1>6. state[c] = "connected" /\ \A d \in Conn : d # c => state[d] = net.state[d]
  BY <1>1, <1>3 DEF ChatNet
<1>7. \A s \in Conn : Len(delivered[s]) \in Nat
  BY <1>1
<1>8. /\ joined' \in [Conn -> [Conn -> Nat]]
      /\ \A s \in Conn : joined'[c][s] = Len(delivered[s])
      /\ \A d \in Conn : d # c => joined'[d] = joined[d]
  BY <1>1, <1>2, <1>7
<1>9. ChatTypeOK'
  <2>1. connections' \in SUBSET Conn /\ IsFiniteSet(connections')
    BY <1>1, <1>2, FS_AddElement
  <2> QED
    BY <1>1, <1>2, <1>5, <1>8, <2>1 DEF ChatTypeOK
<1>10. ListExact'
  <2>1. /\ connections = {d \in Conn : Chat!Open(net, d)}
        /\ \A k \in Loop : net.reading[k] # NoConn =>
             net.loop[net.reading[k]] = k /\ net.reading[k] \in connections
    BY DEF ChatInv, ListExact
  <2>2. \A d \in Conn : Chat!Open(net', d) <=> d = c \/ Chat!Open(net, d)
    BY <1>5, <1>6 DEF Chat!Open
  <2>3. connections' = {d \in Conn : Chat!Open(net', d)}
    BY <1>2, <2>1, <2>2
  <2> QED
    BY <1>2, <1>5, <2>1, <2>3 DEF ListExact
<1>11. WalksLast'
  <2>1. \A l \in Loop : \A d \in walk[l].todo : d \in Conn
    BY <1>1
  <2>2. \A d \in Conn : state[d] = "idle" => net.state[d] = "idle"
    BY <1>6
  <2> QED
    BY <1>2, <1>5, <2>1, <2>2 DEF ChatInv, WalksLast
<1>12. QueuesRight'
  <2>1. Ages
    BY <1>1, <1>2, <1>5, <1>6, <1>7 DEF Ages
  <2>2. ASSUME NEW l \in Loop, NEW i \in 1 .. Len(net.queue[l]) PROVE WaitsFor(net.queue[l][i], l)'
    <3>1. PICK f \in Functor : f = net.queue[l][i]
      BY <1>1 DEF ChatNet
    <3>2. WaitsFor(f, l)
      BY <3>1 DEF ChatInv, QueuesRight
    <3>3. WaitsFor(f, l)'
      BY <2>1, <3>2, WaitsKept
    <3> QED
      BY <1>5, <3>1, <3>3
  <2>3. program = "server" => \A d, e \in Conn : net'.loop[d] = net'.loop[e]
    BY <1>5 DEF ChatInv, QueuesRight
  <2> QED
    BY <1>5, <2>2, <2>3 DEF QueuesRight
<1>13. OutputFresh'
  BY <1>2, <1>5 DEF ChatInv, OutputFresh
<1>14. ASSUME NEW x \in Conn, NEW s \in Conn PROVE \E a, b, d \in Nat : Chained(x, s, a, b, d)'
  <2>1. PICK a \in Nat, b \in Nat, d \in Nat : Chained(x, s, a, b, d)
    BY DEF ChatInv, AllChained
  <2>2. OutRun(net, x, s, a, b)' <=> OutRun(net, x, s, a, b)
    BY <1>5 DEF OutRun
  <2>3. DueRun(net, x, s, b, d)' <=> DueRun(net, x, s, b, d)
    BY <1>5 DEF DueRun
  <2>4. Walking(x, s)' <=> Walking(x, s)
    BY <1>2, <1>5 DEF Walking
  <2>5. CASE x = c
    <3>1. a = b /\ d = Len(delivered[s]) /\ b <= d /\ OutRun(net, x, s, a, b) /\ DueRun(net, x, s, b, d)
      BY <1>2, <2>1, <2>5 DEF Chained, Reachable
    <3>2. ~Walking(x, s)
      <4>1. net.loop[s] \in Loop
        BY <1>1 DEF ChatNet
      <4> QED
        BY <1>2, <2>5, <4>1 DEF Walking, ChatInv, WalksLast
    <3>3. net'.state[x] = "connected" /\ joined'[x][s] = Len(delivered[s])
      BY <1>5, <1>6, <1>8, <2>5
    <3>4. Chained(x, s, a, b, d)'
      BY <1>2, <2>2, <2>3, <2>4, <3>1, <3>2, <3>3 DEF Chained
    <3> QED
      BY <3>4
  <2>6. CASE x # c
    <3>1. net'.state[x] = net.state[x] /\ joined'[x][s] = joined[x][s]
      BY <1>5, <1>6, <1>8, <2>6
    <3>2. Reachable(x)' <=> Reachable(x)
      BY <3>1 DEF Reachable
    <3>3. Chained(x, s, a, b, d)'
      BY <1>2, <2>1, <2>2, <2>3, <2>4, <3>1, <3>2 DEF Chained
    <3> QED
      BY <3>3
  <2> QED
    BY <2>5, <2>6
<1>15. AllInOrder'
  BY <1>5 DEF ChatInv, AllInOrder
<1> QED
  BY <1>9, <1>10, <1>11, <1>12, <1>13, <1>14, <1>15 DEF ChatInv, AllChained

\* What the sends to all of S make of what c has and waits for.
LEMMA PairSent ==
  ASSUME NEW n \in ChatNet, NEW r, NEW l, NEW S, NEW m, Broadcasts(n, r, l, S, m),
         NEW c \in Conn, NEW s
  PROVE  LET gets == c \in S /\ n.state[c] = "connected" /\ m.from = s
             here == n.loop[c] = l
         IN  /\ \A a, b : OutRun(n, c, s, a, b) =>
                  IF gets /\ here THEN m.nth = b + 1 => OutRun(r, c, s, a, b + 1) ELSE OutRun(r, c, s, a, b)
             /\ \A b, d : DueRun(n, c, s, b, d) =>
                  IF gets /\ ~here THEN m.nth = d + 1 => DueRun(r, c, s, b, d + 1) ELSE DueRun(r, c, s, b, d)
<1>1. /\ r \in ChatNet /\ r.loop = n.loop
      /\ IF c \in S /\ n.state[c] = "connected" /\ n.loop[c] = l
         THEN Appended(n.output[c], m, r.output[c]) ELSE r.output[c] = n.output[c]
      /\ \A k \in Loop : /\ Sends(n, S, l, k, n.queue[k], r.queue[k])
                         /\ \A i \in Len(n.queue[k]) + 1 .. Len(r.queue[k]) : r.queue[k][i].arg = m
  BY Zenon DEF Broadcasts, SameBut
<1> DEFINE gets == c \in S /\ n.state[c] = "connected" /\ m.from = s
           here == n.loop[c] = l
<1>2. ASSUME NEW a, NEW b, OutRun(n, c, s, a, b)
      PROVE  IF gets /\ here THEN m.nth = b + 1 => OutRun(r, c, s, a, b + 1) ELSE OutRun(r, c, s, a, b)
  <2>1. CASE c \in S /\ n.state[c] = "connected" /\ here
    <3>1. Appended(n.output[c], m, r.output[c])
      BY <1>1, <2>1
    <3>r. Run(n.output[c], OutAt(n.output[c], s), a, b)
      BY <1>2 DEF OutRun
    <3>o. /\ m.from # s => Run(r.output[c], OutAt(r.output[c], s), a, b)
          /\ m.from = s /\ m.nth = b + 1 => Run(r.output[c], OutAt(r.output[c], s), a, b + 1)
      BY <3>r, <3>1, OutputTakes
    <3>2. /\ m.from # s => OutRun(r, c, s, a, b)
          /\ m.from = s /\ m.nth = b + 1 => OutRun(r, c, s, a, b + 1)
      BY <3>o DEF OutRun
    <3> QED
      BY <2>1, <3>2
  <2>2. CASE ~(c \in S /\ n.state[c] = "connected" /\ here)
    <3>1. r.output[c] = n.output[c]
      BY <1>1, <2>2, Zenon
    <3> QED
      BY <1>2, <2>2, <3>1 DEF OutRun
  <2> QED
    BY <2>1, <2>2
<1>3. ASSUME NEW b, NEW d, DueRun(n, c, s, b, d)
      PROVE  IF gets /\ ~here THEN m.nth = d + 1 => DueRun(r, c, s, b, d + 1) ELSE DueRun(r, c, s, b, d)
  <2>1. PICK k \in Loop : k = n.loop[c]
    BY DEF ChatNet
  <2>2. PICK q \in Seq(Functor), u \in Seq(Functor) : q = n.queue[k] /\ u = r.queue[k]
    BY <1>1 DEF ChatNet
  <2>s. Sends(n, S, l, k, q, u) /\ \A i \in Len(q) + 1 .. Len(u) : u[i].arg = m
    BY <1>1, <2>2
  <2>3. /\ Extends(q, u)
        /\ k = l => u = q
        /\ \A i \in Len(q) + 1 .. Len(u) :
             /\ u[i].call = "send" /\ u[i].conn \in S /\ u[i].arg = m
             /\ n.state[u[i].conn] = "connected" /\ n.loop[u[i].conn] = k
        /\ \A i, j \in Len(q) + 1 .. Len(u) : u[i].conn = u[j].conn => i = j
        /\ \A e \in S : n.state[e] = "connected" /\ n.loop[e] = k /\ k # l =>
             \E i \in Len(q) + 1 .. Len(u) : u[i].conn = e
    BY <2>s, Zenon DEF Sends
  <2>4. Run(Args(q), DueAt(q, c, s), b, d)
    BY <1>3, <2>1, <2>2 DEF DueRun
  <2>5. \A b2, d2 : Run(Args(u), DueAt(u, c, s), b2, d2) => DueRun(r, c, s, b2, d2)
    BY <1>1, <2>1, <2>2 DEF DueRun
  <2>g. /\ NewDue(q, u, c, s) = {} => Run(Args(u), DueAt(u, c, s), b, d)
        /\ \A p : NewDue(q, u, c, s) = {p} /\ u[p].arg.nth = d + 1
                    => Run(Args(u), DueAt(u, c, s), b, d + 1)
    BY <2>3, <2>4, DueGrows
  <2>6. /\ NewDue(q, u, c, s) = {} => DueRun(r, c, s, b, d)
        /\ \A p : NewDue(q, u, c, s) = {p} /\ u[p].arg.nth = d + 1 => DueRun(r, c, s, b, d + 1)
    BY <2>5, <2>g
  <2>7. CASE gets /\ ~here
    <3>1. PICK p \in Len(q) + 1 .. Len(u) : u[p].conn = c
      BY <2>1, <2>3, <2>7
    <3>2. u[p].arg = m
      BY <2>3, <3>1
    <3>3. \A i \in Len(q) + 1 .. Len(u) :
            (u[i].call = "send" => u[i].conn = c) /\ u[i].arg.from = s <=> i = p
      BY <2>3, <2>7, <3>1
    <3>4. NewDue(q, u, c, s) = {p}
      BY <3>1, <3>3 DEF NewDue
    <3>5. m.nth = d + 1 => DueRun(r, c, s, b, d + 1)
      BY <2>6, <3>2, <3>4, Zenon
    <3> QED
      BY <2>7, <3>5
  <2>8. CASE ~(gets /\ ~here)
    <3>1. ASSUME NEW i \in Len(q) + 1 .. Len(u),
                 (u[i].call = "send" => u[i].conn = c) /\ u[i].arg.from = s
          PROVE  FALSE
      <4>1. u[i].conn = c /\ gets
        BY <2>3, <3>1
      <4>2. u = q
        BY <2>1, <2>3, <2>8, <4>1
      <4>3. Len(q) \in Nat /\ i \in Len(q) + 1 .. Len(q)
        BY <3>1, <4>2
      <4> QED
        BY <4>3
    <3>2. NewDue(q, u, c, s) = {}
      BY <3>1, Zenon DEF NewDue
    <3> QED
      BY <2>6, <2>8, <3>2
  <2> QED
    BY <2>7, <2>8
<1> HIDE DEF gets, here
<1>4. /\ \A a, b : OutRun(n, c, s, a, b) =>
           IF gets /\ here THEN m.nth = b + 1 => OutRun(r, c, s, a, b + 1) ELSE OutRun(r, c, s, a, b)
      /\ \A b, d : DueRun(n, c, s, b, d) =>
           IF gets /\ ~here THEN m.nth = d + 1 => DueRun(r, c, s, b, d + 1) ELSE DueRun(r, c, s, b, d)
  BY <1>2, <1>3, Zenon
<1> QED
  BY <1>4, Zenon DEF gets, here

\* A loop takes its next functor.
Shrinks(n, r, l) ==
  /\ r \in ChatNet /\ r.loop = n.loop
  /\ l \in Loop /\ Shifted(n.queue[l], r.queue[l])
  /\ \A k \in Loop : k # l => r.queue[k] = n.queue[k]

LEMMA PairShrunk ==
  ASSUME NEW n \in ChatNet, NEW r, NEW l, Shrinks(n, r, l), NEW c \in Conn, NEW s, NEW b, NEW d,
         DueRun(n, c, s, b, d)
  PROVE  LET f == n.queue[l][1]
             due == n.loop[c] = l /\ (f.call = "send" => f.conn = c) /\ f.arg.from = s
         IN  IF due THEN f.arg.nth = b + 1 /\ b < d /\ DueRun(r, c, s, b + 1, d) ELSE DueRun(r, c, s, b, d)
<1>1. CASE n.loop[c] = l
  <2>1. PICK q, t : q = n.queue[l] /\ t = r.queue[l]
    OBVIOUS
  <2>2. q \in Seq(Functor) /\ t \in Seq(Functor) /\ Shifted(q, t)
    BY <2>1 DEF Shrinks, ChatNet
  <2>3. Run(Args(q), DueAt(q, c, s), b, d)
    BY <1>1, <2>1 DEF DueRun
  <2>4. \A b2, d2 : Run(Args(t), DueAt(t, c, s), b2, d2) => DueRun(r, c, s, b2, d2)
    BY <1>1, <2>1 DEF DueRun, Shrinks
  <2>5. /\ (q[1].call = "send" => q[1].conn = c) /\ q[1].arg.from = s =>
             q[1].arg.nth = b + 1 /\ b < d /\ Run(Args(t), DueAt(t, c, s), b + 1, d)
        /\ ~((q[1].call = "send" => q[1].conn = c) /\ q[1].arg.from = s) => Run(Args(t), DueAt(t, c, s), b, d)
    BY <2>2, <2>3, DueShrinks, Zenon
  <2> QED
    BY <1>1, <2>1, <2>4, <2>5, Zenon
<1>2. CASE n.loop[c] # l
  <2>1. n.loop[c] \in Loop
    BY DEF ChatNet
  <2>2. r.queue[n.loop[c]] = n.queue[n.loop[c]] /\ r.loop = n.loop
    BY <1>2, <2>1 DEF Shrinks
  <2>3. DueRun(r, c, s, b, d)
    BY <2>2 DEF DueRun
  <2> QED
    BY <1>2, <2>3
<1> QED
  BY <1>1, <1>2

LEMMA AppendedAt ==
  ASSUME NEW x, NEW e, NEW y, Appended(x, e, y)
  PROVE  /\ \A j \in 1 .. Len(y) : \/ j \in 1 .. Len(x) /\ y[j] = x[j]
                                   \/ j = Len(x) + 1 /\ y[j] = e
         /\ \A i, j \in 1 .. Len(y) : i < j => i \in 1 .. Len(x) /\ y[i] = x[i]
<1>1. /\ Len(x) \in Nat /\ Len(y) = Len(x) + 1 /\ y[Len(x) + 1] = e
      /\ \A j \in 1 .. Len(x) : y[j] = x[j]
  BY DEF Appended, Extends
<1>2. ASSUME NEW j \in 1 .. Len(y) PROVE j \in 1 .. Len(x) \/ j = Len(x) + 1
  BY <1>1
<1>3. ASSUME NEW i \in 1 .. Len(y), NEW j \in 1 .. Len(y), i < j PROVE i \in 1 .. Len(x)
  BY <1>1, <1>3
<1>4. ASSUME NEW j \in 1 .. Len(y)
      PROVE  \/ j \in 1 .. Len(x) /\ y[j] = x[j]
             \/ j = Len(x) + 1 /\ y[j] = e
  <2>1. CASE j \in 1 .. Len(x)
    BY <1>1, <2>1, Zenon
  <2>2. CASE j = Len(x) + 1
    BY <1>1, <2>2, Zenon
  <2> QED
    BY <1>2, <2>1, <2>2
<1>5. \A i, j \in 1 .. Len(y) : i < j => i \in 1 .. Len(x) /\ y[i] = x[i]
  BY <1>1, <1>3, Zenon
<1> QED
  BY <1>4, <1>5

\* The order with one message more, and with one sent that waited.
LEMMA OrderAppends ==
  ASSUME NEW rank \in [Message -> Nat], NEW top \in Nat, NEW m \in Message,
         NEW o \in Seq(Message), NEW q \in Seq(Functor), InOrder(rank, top, o, q),
         \A i \in 1 .. Len(o) : o[i] # m, \A j \in 1 .. Len(q) : q[j].arg # m
  PROVE  LET new == [rank EXCEPT ![m] = top]
         IN  /\ InOrder(new, top + 1, o, q)
             /\ \A f, r : f.arg = m /\ Appended(q, f, r) => InOrder(new, top + 1, o, r)
             /\ \A p : q = <<>> /\ Appended(o, m, p) => InOrder(new, top + 1, p, q)
<1>1. PICK new \in [Message -> Nat] : new = [rank EXCEPT ![m] = top]
  OBVIOUS
<1>2. new[m] = top /\ \A x \in Message : x # m => new[x] = rank[x]
  BY <1>1
<1>3. \A i \in 1 .. Len(o) : o[i] \in Message /\ new[o[i]] = rank[o[i]] /\ rank[o[i]] \in Nat
  BY <1>2
<1>4. \A j \in 1 .. Len(q) : q[j].arg \in Message /\ new[q[j].arg] = rank[q[j].arg] /\ rank[q[j].arg] \in Nat
  <2>1. ASSUME NEW j \in 1 .. Len(q) PROVE q[j].arg \in Message
    <3>1. q[j] \in Functor
      OBVIOUS
    <3> QED
      BY <3>1 DEF Functor
  <2> QED
    BY <1>2, <2>1
<1>5. /\ \A i \in 1 .. Len(o) : new[o[i]] < top
      /\ \A j \in 1 .. Len(q) : new[q[j].arg] < top
      /\ \A i, j \in 1 .. Len(o) : i < j => new[o[i]] < new[o[j]]
      /\ \A i, j \in 1 .. Len(q) : i < j => new[q[i].arg] < new[q[j].arg]
      /\ \A i \in 1 .. Len(o), j \in 1 .. Len(q) : new[o[i]] < new[q[j].arg]
  BY <1>3, <1>4 DEF InOrder
<1>6. /\ \A i \in 1 .. Len(o) : new[o[i]] < top + 1
      /\ \A j \in 1 .. Len(q) : new[q[j].arg] < top + 1
  <2>1. \A k \in Nat : k < top => k < top + 1
    OBVIOUS
  <2>2. /\ \A i \in 1 .. Len(o) : new[o[i]] \in Nat
        /\ \A j \in 1 .. Len(q) : new[q[j].arg] \in Nat
    BY <1>3, <1>4, Zenon
  <2> QED
    BY <1>5, <2>1, <2>2, Zenon
<1>7. InOrder(new, top + 1, o, q)
  BY <1>5, <1>6 DEF InOrder
<1>8. ASSUME NEW f, NEW r, f.arg = m, Appended(q, f, r) PROVE InOrder(new, top + 1, o, r)
  <2>1. /\ \A j \in 1 .. Len(r) : \/ j \in 1 .. Len(q) /\ r[j] = q[j]
                                  \/ j = Len(q) + 1 /\ r[j] = f
        /\ \A i, j \in 1 .. Len(r) : i < j => i \in 1 .. Len(q) /\ r[i] = q[i]
    BY <1>8, AppendedAt, Zenon
  <2>2. ASSUME NEW j \in 1 .. Len(r)
        PROVE  \/ j \in 1 .. Len(q) /\ r[j] = q[j]
               \/ j = Len(q) + 1 /\ r[j].arg = m
    <3>1. f.arg = m
      BY <1>8
    <3> QED
      BY <2>1, <3>1
  <2>t. top < top + 1
    OBVIOUS
  <2>3. \A j \in 1 .. Len(r) : new[r[j].arg] < top + 1
    BY <1>2, <1>6, <2>2, <2>t, Zenon
  <2>4. ASSUME NEW i \in 1 .. Len(r), NEW j \in 1 .. Len(r), i < j PROVE new[r[i].arg] < new[r[j].arg]
    <3>1. i \in 1 .. Len(q) /\ r[i] = q[i]
      BY <2>1, <2>4, Zenon
    <3>2. CASE r[j].arg = m
      BY <1>2, <1>5, <3>1, <3>2, Zenon
    <3>3. CASE j \in 1 .. Len(q) /\ r[j] = q[j]
      BY <1>5, <2>4, <3>1, <3>3, Zenon
    <3> QED
      BY <2>2, <3>2, <3>3, Zenon
  <2>5. \A i \in 1 .. Len(o), j \in 1 .. Len(r) : new[o[i]] < new[r[j].arg]
    BY <1>2, <1>5, <2>2, Zenon
  <2> QED
    BY <1>5, <1>6, <2>3, <2>4, <2>5, Zenon DEF InOrder
<1>9. ASSUME NEW p, q = <<>>, Appended(o, m, p) PROVE InOrder(new, top + 1, p, q)
  <2>p. Appended(o, m, p)
    BY <1>9, Zenon
  <2>1. \A i, j \in 1 .. Len(p) : i < j => i \in 1 .. Len(o) /\ p[i] = o[i]
    BY <2>p, AppendedAt
  <2>2. \A j \in 1 .. Len(p) : \/ j \in 1 .. Len(o) /\ p[j] = o[j]
                               \/ j = Len(o) + 1 /\ p[j] = m
    BY <2>p, AppendedAt
  <2>t. top < top + 1
    OBVIOUS
  <2>3. \A j \in 1 .. Len(p) : new[p[j]] < top + 1
    BY <1>2, <1>6, <2>2, <2>t, Zenon
  <2>4. ASSUME NEW i \in 1 .. Len(p), NEW j \in 1 .. Len(p), i < j PROVE new[p[i]] < new[p[j]]
    <3>1. i \in 1 .. Len(o) /\ p[i] = o[i]
      BY <2>1, <2>4, Zenon
    <3>2. CASE p[j] = m
      BY <1>2, <1>5, <3>1, <3>2, Zenon
    <3>3. CASE j \in 1 .. Len(o) /\ p[j] = o[j]
      BY <1>5, <2>4, <3>1, <3>3, Zenon
    <3> QED
      BY <2>2, <3>2, <3>3, Zenon
  <2>5. 1 .. Len(q) = {}
    BY <1>9
  <2> QED
    BY <2>3, <2>4, <2>5, Zenon DEF InOrder
<1> QED
  BY <1>1, <1>7, <1>8, <1>9

LEMMA OrderMoves ==
  ASSUME NEW rank \in [Message -> Nat], NEW top \in Nat, NEW o \in Seq(Message), NEW q \in Seq(Functor),
         InOrder(rank, top, o, q), NEW t, Shifted(q, t)
  PROVE  /\ InOrder(rank, top, o, t)
         /\ \A p : Appended(o, q[1].arg, p) => InOrder(rank, top, p, t)
<1>1. /\ Len(q) \in Nat /\ Len(q) >= 1 /\ Len(t) = Len(q) - 1
      /\ \A j \in 1 .. Len(q) - 1 : t[j] = q[j + 1]
  BY DEF Shifted
<1>2. \A j \in 1 .. Len(t) : j + 1 \in 1 .. Len(q) /\ 1 < j + 1 /\ t[j] = q[j + 1]
  BY <1>1
<1>3. 1 \in 1 .. Len(q)
  BY <1>1
<1>4. /\ \A i \in 1 .. Len(o) : rank[o[i]] < top
      /\ \A j \in 1 .. Len(q) : rank[q[j].arg] < top
      /\ \A i, j \in 1 .. Len(o) : i < j => rank[o[i]] < rank[o[j]]
      /\ \A i, j \in 1 .. Len(q) : i < j => rank[q[i].arg] < rank[q[j].arg]
      /\ \A i \in 1 .. Len(o), j \in 1 .. Len(q) : rank[o[i]] < rank[q[j].arg]
  BY Zenon DEF InOrder
<1>5. ASSUME NEW i \in 1 .. Len(t), NEW j \in 1 .. Len(t), i < j PROVE rank[t[i].arg] < rank[t[j].arg]
  <2>1. i + 1 < j + 1
    BY <1>5
  <2> QED
    BY <1>2, <1>4, <2>1
<1>6. InOrder(rank, top, o, t)
  BY <1>2, <1>4, <1>5 DEF InOrder
<1>7. ASSUME NEW p, Appended(o, q[1].arg, p) PROVE InOrder(rank, top, p, t)
  <2>p. Appended(o, q[1].arg, p)
    BY <1>7, Zenon
  <2>1. \A i, j \in 1 .. Len(p) : i < j => i \in 1 .. Len(o) /\ p[i] = o[i]
    BY <2>p, AppendedAt
  <2>2. \A j \in 1 .. Len(p) : \/ j \in 1 .. Len(o) /\ p[j] = o[j]
                               \/ j = Len(o) + 1 /\ p[j] = q[1].arg
    BY <2>p, AppendedAt
  <2>t. top < top + 1
    OBVIOUS
  <2>3. \A j \in 1 .. Len(p) : rank[p[j]] < top
    BY <1>3, <1>4, <2>2, Zenon
  <2>4. ASSUME NEW i \in 1 .. Len(p), NEW j \in 1 .. Len(p), i < j PROVE rank[p[i]] < rank[p[j]]
    <3>1. i \in 1 .. Len(o) /\ p[i] = o[i]
      BY <2>1, <2>4, Zenon
    <3>2. CASE p[j] = q[1].arg
      BY <1>3, <1>4, <3>1, <3>2, Zenon
    <3>3. CASE j \in 1 .. Len(o) /\ p[j] = o[j]
      BY <1>4, <2>4, <3>1, <3>3, Zenon
    <3> QED
      BY <2>2, <3>2, <3>3, Zenon
  <2>5. ASSUME NEW i \in 1 .. Len(p), NEW j \in 1 .. Len(t) PROVE rank[p[i]] < rank[t[j].arg]
    <3>1. CASE p[i] = q[1].arg
      BY <1>2, <1>3, <1>4, <3>1, Zenon
    <3>2. CASE i \in 1 .. Len(o) /\ p[i] = o[i]
      BY <1>2, <1>4, <3>2, Zenon
    <3> QED
      BY <2>2, <3>1, <3>2, Zenon
  <2> QED
    BY <1>6, <2>3, <2>4, <2>5, Zenon DEF InOrder
<1> QED
  BY <1>6, <1>7

\* What a loop does when it takes its next functor.
LEMMA ChatCalled ==
  ASSUME NEW n \in ChatNet, NEW l \in Loop, n.queue[l] # <<>>
  PROVE  LET r == Chat!called(n, l)
         IN  /\ Shrinks(n, r, l) /\ SameBut(n, r) /\ r.output = n.output
             /\ Head(n.queue[l]) = n.queue[l][1] /\ n.queue[l][1] \in Functor
<1>1. PICK q \in Seq(Functor) : q = n.queue[l]
  BY DEF ChatNet
<1>2. Head(q) = q[1] /\ q[1] \in Functor /\ Tail(q) \in Seq(Functor) /\ Shifted(q, Tail(q))
  BY <1>1, TailIs
<1>3. PICK t \in Seq(Functor) : t = Tail(q)
  BY <1>2, Zenon
<1>4. PICK queue \in [Loop -> Seq(Functor)] : queue = [n.queue EXCEPT ![l] = t]
  BY DEF ChatNet
<1>5. Chat!called(n, l) = [n EXCEPT !.queue = queue]
  <2>1. Chat!called(n, l) = [n EXCEPT !.queue = [n.queue EXCEPT ![l] = Tail(n.queue[l])]]
    BY DEF ChatNet, Chat!called
  <2> QED
    BY <1>1, <1>3, <1>4, <2>1, Zenon
<1>6. PICK r : r = [n EXCEPT !.queue = queue]
  OBVIOUS
<1>7. r \in ChatNet /\ SameBut(n, r) /\ r.output = n.output /\ r.queue = queue
  BY <1>6 DEF ChatNet, SameBut
<1>8. queue[l] = t /\ \A k \in Loop : k # l => queue[k] = n.queue[k]
  BY <1>4 DEF ChatNet
<1>9. Shifted(n.queue[l], r.queue[l])
  BY <1>1, <1>2, <1>3, <1>7, <1>8, Zenon
<1>10. Shrinks(n, r, l)
  BY <1>7, <1>8, <1>9 DEF Shrinks, SameBut
<1> QED
  BY <1>1, <1>2, <1>5, <1>6, <1>7, <1>10

LEMMA ShrunkWaits ==
  ASSUME net \in ChatNet, Ages, QueuesRight, NEW n, NEW l, Shrinks(net, n, l)
  PROVE  \A k \in Loop : \A i \in 1 .. Len(n.queue[k]) : WaitsFor(n.queue[k][i], k)'
<1> SUFFICES ASSUME NEW k \in Loop, NEW i \in 1 .. Len(n.queue[k]) PROVE WaitsFor(n.queue[k][i], k)'
  OBVIOUS
<1>1. \E j \in 1 .. Len(net.queue[k]) : n.queue[k][i] = net.queue[k][j]
  <2>1. CASE k = l
    <3>1. i + 1 \in 1 .. Len(net.queue[k]) /\ n.queue[k][i] = net.queue[k][i + 1]
      BY <2>1 DEF Shrinks, Shifted
    <3> QED
      BY <3>1
  <2>2. CASE k # l
    BY <2>2 DEF Shrinks
  <2> QED
    BY <2>1, <2>2
<1>2. PICK j \in 1 .. Len(net.queue[k]) : n.queue[k][i] = net.queue[k][j]
  BY <1>1
<1>3. PICK f \in Functor : f = net.queue[k][j]
  BY DEF ChatNet
<1>4. WaitsFor(f, k)
  BY <1>3 DEF QueuesRight
<1>5. WaitsFor(f, k)'
  BY <1>4, WaitsKept
<1>6. f = n.queue[k][i]
  BY <1>2, <1>3
<1> QED
  BY <1>5, <1>6

\* What sends leave as it is, and the numbers of what they send.
LEMMA SameUsers ==
  ASSUME ListExact, WalksLast, UNCHANGED <<program, connections, walk, delivered>>,
         net'.loop = net.loop, net'.state = net.state, net'.reading = net.reading
  PROVE  ListExact' /\ WalksLast'
<1>1. ListExact'
  BY DEF ListExact, Chat!Open
<1>2. WalksLast'
  BY DEF WalksLast
<1> QED
  BY <1>1, <1>2

LEMMA FreshSent ==
  ASSUME ChatInv, NEW m,
         \A s \in Conn : Len(delivered[s]) <= Len(delivered'[s]) /\ Len(delivered'[s]) \in Nat,
         m.nth \in 1 .. Len(delivered'[m.from]),
         \A c \in Conn : \/ net'.output[c] = net.output[c]
                         \/ Appended(net.output[c], m, net'.output[c])
  PROVE  OutputFresh'
<1> SUFFICES ASSUME NEW c \in Conn, NEW i \in 1 .. Len(net'.output[c])
             PROVE  net'.output[c][i].nth \in 1 .. Len(delivered'[net'.output[c][i].from])
  BY DEF OutputFresh
<1>1. \/ i \in 1 .. Len(net.output[c]) /\ net'.output[c][i] = net.output[c][i]
      \/ net'.output[c][i] = m
  <2>1. CASE net'.output[c] = net.output[c]
    BY <2>1
  <2>2. CASE Appended(net.output[c], m, net'.output[c])
    <3>1. PICK x, y : x = net.output[c] /\ y = net'.output[c]
      OBVIOUS
    <3>2. (i \in 1 .. Len(x) /\ y[i] = x[i]) \/ y[i] = m
      BY <2>2, <3>1, AppendedAt
    <3> QED
      BY <3>1, <3>2
  <2> QED
    BY <2>1, <2>2
<1>2. CASE i \in 1 .. Len(net.output[c]) /\ net'.output[c][i] = net.output[c][i]
  <2>1. PICK x : x = net.output[c][i]
    OBVIOUS
  <2>2. x.nth \in 1 .. Len(delivered[x.from])
    BY <1>2, <2>1 DEF ChatInv, OutputFresh
  <2>3. x \in Message /\ x.from \in Conn
    <3>1. net.output[c] \in Seq(Message)
      BY DEF ChatInv, ChatTypeOK, ChatNet
    <3>2. x \in Message
      BY <1>2, <2>1, <3>1
    <3> QED
      BY <3>2 DEF Message
  <2>4. Len(delivered[x.from]) \in Nat
    BY <2>3 DEF ChatInv, ChatTypeOK
  <2>5. x.nth \in 1 .. Len(delivered'[x.from])
    BY <2>2, <2>3, <2>4
  <2> QED
    BY <1>2, <2>1, <2>5
<1> QED
  BY <1>1, <1>2

\* A message that waited in a loop is sent there.
LEMMA SendQueuedKeepsInv ==
  ASSUME ChatInv, NEW l \in Loop, Chat!SendQueued(l),
         UNCHANGED <<program, connections, walk, delivered, joined>>
  PROVE  ChatInv'
<1>1. /\ net \in ChatNet /\ program \in Chat!Programs
      /\ \A s \in Conn : Len(delivered[s]) \in Nat
      /\ ListExact /\ WalksLast /\ QueuesRight
  BY DEF ChatInv, ChatTypeOK
<1>2. /\ net.queue[l] # <<>> /\ Head(net.queue[l]).call = "send"
      /\ net' = Chat!sendInLoop(Chat!called(net, l), Head(net.queue[l]).conn, Head(net.queue[l]).arg)
  BY Zenon DEF Chat!SendQueued, Chat!MayCall
<1>3. PICK n : n = Chat!called(net, l)
  OBVIOUS
<1>4. /\ Shrinks(net, n, l) /\ SameBut(net, n) /\ n.output = net.output
      /\ Head(net.queue[l]) = net.queue[l][1] /\ net.queue[l][1] \in Functor
  BY <1>1, <1>2, <1>3, ChatCalled
<1>5. PICK f \in Functor : f = net.queue[l][1]
  BY <1>4
<1>6. f.call = "send" /\ f.conn \in Conn /\ f.arg \in Message /\ f.arg.from \in Conn
  BY <1>2, <1>4, <1>5 DEF Functor, Message
<1>7. WaitsFor(f, l)
  <2>1. 1 \in 1 .. Len(net.queue[l])
    BY <1>4 DEF Shrinks, Shifted
  <2> QED
    BY <1>1, <1>5, <2>1 DEF QueuesRight
<1>8. /\ program \in {"threaded", "efficient"}
      /\ net.loop[f.conn] = l /\ net.state[f.conn] # "idle" /\ net.loop[f.arg.from] # l
      /\ f.arg.nth \in 1 .. Len(delivered[f.arg.from])
  BY <1>1, <1>6, <1>7 DEF WaitsFor, Chat!Programs
<1>9. n \in ChatNet /\ n.loop = net.loop /\ n.state = net.state /\ n.reading = net.reading
  BY <1>4 DEF Shrinks, SameBut
<1>10. /\ net' \in ChatNet /\ SameBut(n, net') /\ net'.queue = n.queue
       /\ net'.output = IF n.state[f.conn] \in {"connected", "disconnecting"}
                        THEN [n.output EXCEPT ![f.conn] = Append(@, f.arg)] ELSE n.output
  <2>1. net' = Chat!sendInLoop(n, f.conn, f.arg)
    BY <1>2, <1>3, <1>4, <1>5
  <2> QED
    BY <1>6, <1>9, <2>1, ChatSendInLoop
<1>11. net'.loop = net.loop /\ net'.state = net.state /\ net'.reading = net.reading
  BY <1>9, <1>10 DEF SameBut
<1>12. ASSUME NEW c \in Conn
       PROVE  IF c = f.conn /\ net.state[c] \in {"connected", "disconnecting"}
              THEN Appended(net.output[c], f.arg, net'.output[c]) ELSE net'.output[c] = net.output[c]
  <2>1. net.output \in [Conn -> Seq(Message)]
    BY <1>1 DEF ChatNet
  <2>2. CASE c = f.conn /\ net.state[c] \in {"connected", "disconnecting"}
    <3>1. net'.output[c] = Append(net.output[c], f.arg)
      BY <1>4, <1>9, <1>10, <2>1, <2>2
    <3>2. Appended(net.output[c], f.arg, Append(net.output[c], f.arg))
      BY <1>6, <2>1, AppendIs
    <3> QED
      BY <2>2, <3>1, <3>2
  <2>3. CASE ~(c = f.conn /\ net.state[c] \in {"connected", "disconnecting"})
    <3>1. net'.output[c] = net.output[c]
      BY <1>4, <1>6, <1>9, <1>10, <2>1, <2>3
    <3> QED
      BY <2>3, <3>1
  <2> QED
    BY <2>2, <2>3
<1>13. Ages
  BY <1>1, <1>11 DEF Ages
<1>14. ChatTypeOK'
  BY <1>10 DEF ChatInv, ChatTypeOK
<1>15. ListExact' /\ WalksLast'
  BY <1>1, <1>11, SameUsers
<1>16. QueuesRight'
  <2>1. \A k \in Loop : \A i \in 1 .. Len(n.queue[k]) : WaitsFor(n.queue[k][i], k)'
    BY <1>1, <1>4, <1>13, ShrunkWaits
  <2> QED
    BY <1>8, <1>10, <2>1 DEF QueuesRight
<1>17. OutputFresh'
  <2>1. \A c \in Conn : net'.output[c] = net.output[c] \/ Appended(net.output[c], f.arg, net'.output[c])
    BY <1>12
  <2> QED
    BY <1>1, <1>8, <2>1, FreshSent
<1>18. ASSUME NEW c \in Conn, NEW s \in Conn PROVE \E a, b, d \in Nat : Chained(c, s, a, b, d)'
  <2>1. PICK a \in Nat, b \in Nat, d \in Nat : Chained(c, s, a, b, d)
    BY DEF ChatInv, AllChained
  <2>2. Reachable(c)' <=> Reachable(c)
    BY <1>11 DEF Reachable
  <2>3. Walking(c, s)' <=> Walking(c, s)
    BY <1>11 DEF Walking
  <2>4. \A b2, d2 : DueRun(n, c, s, b2, d2) => DueRun(net', c, s, b2, d2)
    BY <1>9, <1>10, <1>11 DEF DueRun
  <2> DEFINE due == net.loop[c] = l /\ f.conn = c /\ f.arg.from = s
  <2>5. DueRun(net, c, s, b, d) =>
          IF due THEN f.arg.nth = b + 1 /\ b < d /\ DueRun(net', c, s, b + 1, d) ELSE DueRun(net', c, s, b, d)
    <3>1. ASSUME DueRun(net, c, s, b, d)
          PROVE  IF net.loop[c] = l /\ (f.call = "send" => f.conn = c) /\ f.arg.from = s
                 THEN f.arg.nth = b + 1 /\ b < d /\ DueRun(n, c, s, b + 1, d) ELSE DueRun(n, c, s, b, d)
      BY <1>1, <1>4, <1>5, <3>1, PairShrunk
    <3> QED
      BY <1>6, <2>4, <3>1
  <2>6. CASE due /\ net.state[c] \in {"connected", "disconnecting"}
    <3>1. Reachable(c)
      BY <1>8, <2>6 DEF Reachable
    <3>2. f.arg.nth = b + 1 /\ b < d /\ DueRun(net', c, s, b + 1, d)
      BY <2>1, <2>5, <2>6, <3>1 DEF Chained
    <3>3. Appended(net.output[c], f.arg, net'.output[c])
      BY <1>12, <2>6
    <3>4. Run(net.output[c], OutAt(net.output[c], s), a, b)
      BY <2>1 DEF Chained, OutRun
    <3>5. Run(net'.output[c], OutAt(net'.output[c], s), a, b + 1)
      BY <2>6, <3>2, <3>3, <3>4, OutputTakes
    <3>6. OutRun(net', c, s, a, b + 1)
      BY <3>5 DEF OutRun
    <3>7. b + 1 \in Nat /\ b + 1 <= d
      BY <3>2
    <3>8. Chained(c, s, a, b + 1, d)'
      BY <1>11, <2>1, <2>3, <2>6, <3>2, <3>6, <3>7 DEF Chained
    <3> QED
      BY <3>7, <3>8
  <2>7. CASE ~(due /\ net.state[c] \in {"connected", "disconnecting"})
    <3>1. OutRun(net', c, s, a, b)
      <4>1. Run(net.output[c], OutAt(net.output[c], s), a, b)
        BY <2>1 DEF Chained, OutRun
      <4>2. CASE c = f.conn /\ net.state[c] \in {"connected", "disconnecting"}
        <5>1. f.arg.from # s /\ Appended(net.output[c], f.arg, net'.output[c])
          BY <1>8, <1>12, <2>7, <4>2
        <5>2. Run(net'.output[c], OutAt(net'.output[c], s), a, b)
          BY <4>1, <5>1, OutputTakes
        <5> QED
          BY <5>2 DEF OutRun
      <4>3. CASE ~(c = f.conn /\ net.state[c] \in {"connected", "disconnecting"})
        <5>1. net'.output[c] = net.output[c]
          BY <1>12, <4>3
        <5> QED
          BY <4>1, <5>1 DEF OutRun
      <4> QED
        BY <4>2, <4>3
    <3>2. Reachable(c) => DueRun(net', c, s, b, d)
      <4>1. Reachable(c) => ~due
        BY <1>8, <2>7 DEF Reachable
      <4> QED
        BY <2>1, <2>5, <4>1 DEF Chained
    <3>3. Chained(c, s, a, b, d)'
      BY <1>11, <2>1, <2>2, <2>3, <3>1, <3>2 DEF Chained
    <3> QED
      BY <3>3
  <2> QED
    BY <2>6, <2>7
<1>19. AllInOrder'
  BY <1>8 DEF AllInOrder
<1> QED
  BY <1>14, <1>15, <1>16, <1>17, <1>18, <1>19 DEF ChatInv, AllChained

\* Sends within a loop queue nothing.
LEMMA LocalSends ==
  ASSUME NEW n \in ChatNet, NEW r, NEW l, NEW S, NEW m, Broadcasts(n, r, l, S, m),
         \A c \in S : n.loop[c] = l
  PROVE  r.queue = n.queue
<1>1. r \in ChatNet /\ \A k \in Loop : Sends(n, S, l, k, n.queue[k], r.queue[k])
  BY Zenon DEF Broadcasts
<1>2. ASSUME NEW k \in Loop PROVE r.queue[k] = n.queue[k]
  <2>1. PICK q \in Seq(Functor), u \in Seq(Functor) : q = n.queue[k] /\ u = r.queue[k]
    BY <1>1 DEF ChatNet
  <2>2. Sends(n, S, l, k, q, u)
    BY <1>1, <2>1
  <2>3. /\ Extends(q, u)
        /\ k = l => u = q
        /\ \A i \in Len(q) + 1 .. Len(u) : u[i].conn \in S /\ n.loop[u[i].conn] = k
    BY <2>2, Zenon DEF Sends
  <2>4. CASE k = l
    BY <2>1, <2>3, <2>4
  <2>5. CASE k # l
    <3>1. Len(q) + 1 .. Len(u) = {}
      BY <2>3, <2>5
    <3>2. /\ Len(q) \in Nat /\ Len(u) \in Nat /\ Len(u) >= Len(q)
          /\ \A i \in 1 .. Len(q) : u[i] = q[i]
      BY <2>3 DEF Extends
    <3>3. Len(u) = Len(q)
      <4>1. ~(Len(q) < Len(u))
        <5>1. Len(q) < Len(u) => Len(u) \in Len(q) + 1 .. Len(u)
          BY <3>2
        <5> QED
          BY <3>1, <5>1
      <4> QED
        BY <3>2, <4>1
    <3>4. u = q
      BY <3>2, <3>3, SeqEqual
    <3> QED
      BY <2>1, <3>4
  <2> QED
    BY <2>4, <2>5
<1> QED
  BY <1>1, <1>2 DEF ChatNet

\* A loop gives a message to its own connections.
LEMMA DistributeKeepsInv ==
  ASSUME ChatInv, NEW l \in Loop, Chat!distributeMessage(l), program' = program
  PROVE  ChatInv'
<1>1. /\ net \in ChatNet /\ program \in Chat!Programs
      /\ \A s \in Conn : Len(delivered[s]) \in Nat
      /\ ListExact /\ WalksLast /\ QueuesRight
      /\ connections \subseteq Conn /\ IsFiniteSet(connections)
  BY DEF ChatInv, ChatTypeOK
<1>2. /\ net.queue[l] # <<>> /\ Head(net.queue[l]).call = "distributeMessage"
      /\ net' = Chat!SendAll(Chat!called(net, l), l, Chat!Local(net, l), Head(net.queue[l]).arg)
  BY Zenon DEF Chat!distributeMessage, Chat!MayCall
<1>u. UNCHANGED <<connections, walk, delivered, joined>>
  BY Zenon DEF Chat!distributeMessage
<1>3. PICK n : n = Chat!called(net, l)
  OBVIOUS
<1>4. /\ Shrinks(net, n, l) /\ SameBut(net, n) /\ n.output = net.output
      /\ Head(net.queue[l]) = net.queue[l][1] /\ net.queue[l][1] \in Functor
  BY <1>1, <1>2, <1>3, ChatCalled
<1>5. PICK f \in Functor : f = net.queue[l][1]
  BY <1>4
<1>6. f.call = "distributeMessage" /\ f.arg \in Message /\ f.arg.from \in Conn
  BY <1>2, <1>4, <1>5 DEF Functor, Message
<1>7. WaitsFor(f, l)
  <2>1. 1 \in 1 .. Len(net.queue[l])
    BY <1>4 DEF Shrinks, Shifted
  <2> QED
    BY <1>1, <1>5, <2>1 DEF QueuesRight
<1>8. program = "highperformance" /\ f.arg.nth \in 1 .. Len(delivered[f.arg.from])
  BY <1>1, <1>6, <1>7 DEF WaitsFor, Chat!Programs
<1>9. n \in ChatNet /\ n.loop = net.loop /\ n.state = net.state /\ n.reading = net.reading
  BY <1>4 DEF Shrinks, SameBut
<1>s. PICK S : S = Chat!Local(net, l)
  OBVIOUS
<1>10. S \subseteq Conn /\ IsFiniteSet(S) /\ S = {c \in connections : net.loop[c] = l}
  <2>1. S = {c \in connections : net.loop[c] = l}
    BY <1>s DEF Chat!Local
  <2>2. S \subseteq connections
    BY <2>1
  <2> QED
    BY <1>1, <2>1, <2>2, FS_Subset
<1>11. Broadcasts(n, net', l, S, f.arg)
  <2>1. Broadcasts(n, Chat!SendAll(n, l, S, f.arg), l, S, f.arg)
    BY <1>6, <1>9, <1>10, SendAllBroadcasts
  <2>2. net' = Chat!SendAll(n, l, S, f.arg)
    BY <1>2, <1>3, <1>4, <1>5, <1>s
  <2> QED
    BY <2>1, <2>2
<1>12. /\ net' \in ChatNet /\ SameBut(n, net') /\ net'.queue = n.queue
       /\ \A c \in Conn : IF c \in S /\ n.state[c] = "connected" /\ n.loop[c] = l
                          THEN Appended(n.output[c], f.arg, net'.output[c])
                          ELSE net'.output[c] = n.output[c]
  <2>1. net'.queue = n.queue
    <3>1. \A c \in S : n.loop[c] = l
      BY <1>9, <1>10
    <3> QED
      BY <1>9, <1>11, <3>1, LocalSends
  <2> QED
    BY <1>11, <2>1, Zenon DEF Broadcasts
<1>13. net'.loop = net.loop /\ net'.state = net.state /\ net'.reading = net.reading
  BY <1>9, <1>12, Zenon DEF SameBut
<1>14. Ages
  BY <1>1, <1>u, <1>13 DEF Ages
<1>15. ChatTypeOK'
  <2>1. net' \in ChatNet
    BY <1>12
  <2> QED
    BY <1>u, <2>1 DEF ChatInv, ChatTypeOK
<1>16. ListExact' /\ WalksLast'
  BY <1>1, <1>u, <1>13, SameUsers
<1>17. QueuesRight'
  <2>1. \A k \in Loop : \A i \in 1 .. Len(n.queue[k]) : WaitsFor(n.queue[k][i], k)'
    BY <1>1, <1>4, <1>14, ShrunkWaits
  <2> QED
    BY <1>8, <1>12, <2>1 DEF QueuesRight
<1>18. OutputFresh'
  <2>1. \A c \in Conn : net'.output[c] = net.output[c] \/ Appended(net.output[c], f.arg, net'.output[c])
    BY <1>4, <1>12, Zenon
  <2> QED
    BY <1>1, <1>u, <1>8, <2>1, FreshSent
<1>19. ASSUME NEW c \in Conn, NEW s \in Conn PROVE \E a, b, d \in Nat : Chained(c, s, a, b, d)'
  <2>1. PICK a \in Nat, b \in Nat, d \in Nat : Chained(c, s, a, b, d)
    BY DEF ChatInv, AllChained
  <2>2. Reachable(c)' <=> Reachable(c)
    BY <1>13 DEF Reachable
  <2>3. Walking(c, s)' <=> Walking(c, s)
    BY <1>u, <1>13 DEF Walking
  <2>4. \A b2, d2 : DueRun(n, c, s, b2, d2) => DueRun(net', c, s, b2, d2)
    BY <1>9, <1>12, <1>13 DEF DueRun
  <2> DEFINE due == net.loop[c] = l /\ f.arg.from = s
  <2>5. DueRun(net, c, s, b, d) =>
          IF due THEN f.arg.nth = b + 1 /\ b < d /\ DueRun(net', c, s, b + 1, d) ELSE DueRun(net', c, s, b, d)
    <3>1. ASSUME DueRun(net, c, s, b, d)
          PROVE  IF net.loop[c] = l /\ (f.call = "send" => f.conn = c) /\ f.arg.from = s
                 THEN f.arg.nth = b + 1 /\ b < d /\ DueRun(n, c, s, b + 1, d) ELSE DueRun(n, c, s, b, d)
      BY <1>1, <1>4, <1>5, <3>1, PairShrunk
    <3>2. f.call = "send" => f.conn = c
      BY <1>6
    <3> QED
      BY <2>4, <3>1, <3>2
  <2>6. OutRun(n, c, s, a, b)
    BY <1>4, <2>1 DEF Chained, OutRun
  <2>7. \A a2, b2 : OutRun(n, c, s, a2, b2) =>
          IF c \in S /\ n.state[c] = "connected" /\ f.arg.from = s /\ n.loop[c] = l
          THEN f.arg.nth = b2 + 1 => OutRun(net', c, s, a2, b2 + 1) ELSE OutRun(net', c, s, a2, b2)
    BY <1>9, <1>11, PairSent
  <2>8. CASE due /\ net.state[c] = "connected"
    <3>1. f.arg.nth = b + 1 /\ b < d /\ DueRun(net', c, s, b + 1, d)
      BY <2>1, <2>5, <2>8 DEF Chained, Reachable
    <3>2. c \in S
      BY <1>1, <1>10, <2>8 DEF ListExact, Chat!Open
    <3>3. OutRun(net', c, s, a, b + 1)
      BY <1>9, <2>6, <2>7, <2>8, <3>1, <3>2
    <3>4. b + 1 \in Nat /\ b + 1 <= d
      BY <3>1
    <3>5. Chained(c, s, a, b + 1, d)'
      BY <1>u, <1>13, <2>1, <2>3, <2>8, <3>1, <3>3, <3>4 DEF Chained
    <3> QED
      BY <3>4, <3>5
  <2>9. CASE due /\ net.state[c] = "idle"
    <3>1. /\ f.arg.nth = b + 1 /\ b < d /\ DueRun(net', c, s, b + 1, d)
          /\ a = b /\ d = Len(delivered[s])
      BY <2>1, <2>5, <2>9 DEF Chained, Reachable
    <3>2. OutRun(n, c, s, b + 1, b + 1)
      <4>1. OutAt(n.output[c], s) = {}
        BY <2>6, <3>1, RunOfNone DEF OutRun
      <4> QED
        BY <4>1, RunOfNone DEF OutRun
    <3>3. OutRun(net', c, s, b + 1, b + 1)
      BY <1>9, <2>7, <2>9, <3>2
    <3>4. b + 1 \in Nat /\ b + 1 <= d
      BY <3>1
    <3>5. Chained(c, s, b + 1, b + 1, d)'
      BY <1>u, <1>13, <2>1, <2>9, <3>1, <3>3, <3>4 DEF Chained
    <3> QED
      BY <3>4, <3>5
  <2>10. CASE ~(due /\ net.state[c] \in {"idle", "connected"})
    <3>1. OutRun(net', c, s, a, b)
      BY <1>9, <2>6, <2>7, <2>10
    <3>2. Reachable(c) => DueRun(net', c, s, b, d)
      <4>1. Reachable(c) => ~due
        BY <1>8, <2>10 DEF Reachable
      <4> QED
        BY <2>1, <2>5, <4>1 DEF Chained
    <3>3. Chained(c, s, a, b, d)'
      BY <1>u, <1>13, <2>1, <2>2, <2>3, <3>1, <3>2 DEF Chained
    <3> QED
      BY <3>3
  <2> QED
    BY <2>8, <2>9, <2>10
<1>20. AllInOrder'
  <2>1. PICK rank \in [Message -> Nat], top \in Nat :
          \A c \in Conn : InOrder(rank, top, net.output[c], net.queue[net.loop[c]])
    BY <1>8 DEF ChatInv, AllInOrder
  <2>2. ASSUME NEW c \in Conn PROVE InOrder(rank, top, net'.output[c], net'.queue[net'.loop[c]])
    <3>1. PICK o \in Seq(Message), q \in Seq(Functor) : o = net.output[c] /\ q = net.queue[net.loop[c]]
      BY <1>1 DEF ChatNet
    <3>2. InOrder(rank, top, o, q)
      BY <2>1, <3>1
    <3>3. CASE net.loop[c] = l
      <4>1. Shifted(q, n.queue[l]) /\ f = q[1]
        BY <1>4, <1>5, <3>1, <3>3 DEF Shrinks
      <4>2. /\ InOrder(rank, top, o, n.queue[l])
            /\ \A p : Appended(o, f.arg, p) => InOrder(rank, top, p, n.queue[l])
        BY <3>2, <4>1, OrderMoves
      <4>3. net'.output[c] = o \/ Appended(o, f.arg, net'.output[c])
        BY <1>4, <1>12, <3>1, Zenon
      <4>4. net'.queue[net'.loop[c]] = n.queue[l]
        BY <1>12, <1>13, <3>3
      <4> QED
        BY <4>2, <4>3, <4>4
    <3>4. CASE net.loop[c] # l
      <4>1. net'.output[c] = o
        BY <1>4, <1>9, <1>12, <3>1, <3>4
      <4>2. net.loop[c] \in Loop
        BY <1>1 DEF ChatNet
      <4>3. net'.queue[net'.loop[c]] = q
        BY <1>4, <1>12, <1>13, <3>1, <3>4, <4>2 DEF Shrinks
      <4> QED
        BY <3>2, <4>1, <4>3
    <3> QED
      BY <3>3, <3>4
  <2> QED
    BY <2>2 DEF AllInOrder
<1> QED
  BY <1>15, <1>16, <1>17, <1>18, <1>19, <1>20 DEF ChatInv, AllChained

\* Nothing waits for a connection of the sender's loop, nor for one that is
\* not established.
LEMMA NoneDue ==
  ASSUME net \in ChatNet, program \in Chat!Programs, QueuesRight, NEW c \in Conn, NEW s \in Conn,
         program # "highperformance", net.loop[c] = net.loop[s] \/ net.state[c] = "idle"
  PROVE  DueAt(net.queue[net.loop[c]], c, s) = {}
<1>1. PICK l \in Loop : l = net.loop[c]
  BY DEF ChatNet
<1>2. PICK q \in Seq(Functor) : q = net.queue[l]
  BY DEF ChatNet
<1>3. \A i \in 1 .. Len(q) : WaitsFor(q[i], l)
  BY <1>2 DEF QueuesRight
<1>4. ASSUME NEW i \in 1 .. Len(q), q[i].call = "send" => q[i].conn = c, q[i].arg.from = s PROVE FALSE
  <2>1. WaitsFor(q[i], l)
    BY <1>3
  <2>2. /\ q[i].call = "send" /\ net.state[q[i].conn] # "idle"
        /\ net.loop[q[i].arg.from] # l
    BY <2>1 DEF WaitsFor, Chat!Programs
  <2> QED
    BY <1>1, <1>4, <2>2
<1>5. DueAt(q, c, s) = {}
  BY <1>4, Zenon DEF DueAt
<1> QED
  BY <1>1, <1>2, <1>5

LEMMA DueOfNone ==
  ASSUME NEW n, NEW c, NEW s
  PROVE  /\ DueAt(n.queue[n.loop[c]], c, s) = {} =>
              /\ \A b, d : DueRun(n, c, s, b, d) => b = d
              /\ \A k \in Nat : DueRun(n, c, s, k, k)
         /\ \A b, k \in Nat : DueRun(n, c, s, b, b) => DueRun(n, c, s, k, k)
<1>1. PICK x, P : x = Args(n.queue[n.loop[c]]) /\ P = DueAt(n.queue[n.loop[c]], c, s)
  OBVIOUS
<1>2. \A b, d : DueRun(n, c, s, b, d) <=> Run(x, P, b, d)
  BY <1>1 DEF DueRun
<1>3. P = {} => /\ \A b, d : DueRun(n, c, s, b, d) => b = d
                /\ \A k \in Nat : DueRun(n, c, s, k, k)
  <2>1. ASSUME NEW b, NEW d, P = {}, DueRun(n, c, s, b, d) PROVE b = d
    <3>1. Run(x, {}, b, d)
      BY <1>2, <2>1
    <3> QED
      BY <3>1, RunOfNone DEF Run
  <2> QED
    BY <1>2, <2>1, RunOfNone
<1>4. ASSUME NEW b \in Nat, NEW k \in Nat, DueRun(n, c, s, b, b) PROVE DueRun(n, c, s, k, k)
  <2>1. P = {}
    BY <1>2, <1>4, RunOfNone
  <2> QED
    BY <1>3, <2>1
<1> QED
  BY <1>1, <1>3, <1>4

\* A functor of sends is right where it waits.
Like(n) == n \in ChatNet /\ n.queue = net.queue /\ n.loop = net.loop /\ n.state = net.state
IsSent(l, S, m) ==
  /\ program \in {"threaded", "efficient"} /\ net'.state = net.state
  /\ S \subseteq Conn /\ m.from \in Conn /\ net.loop[m.from] = l
  /\ \A c \in S : net.state[c] = "connected" => m.nth \in 1 .. Len(delivered'[m.from])

LEMMA SentWaits ==
  ASSUME net \in ChatNet, Ages, QueuesRight,
         NEW n, Like(n), NEW l, NEW S, NEW m, IsSent(l, S, m), Broadcasts(n, net', l, S, m)
  PROVE  QueuesRight'
<1> USE DEF Like, IsSent
<1>r. PICK r : r = net'
  OBVIOUS
<1>b. Broadcasts(n, r, l, S, m)
  BY <1>r
<1>1. ASSUME NEW k \in Loop, NEW i \in 1 .. Len(r.queue[k]) PROVE WaitsFor(r.queue[k][i], k)'
  <2>1. /\ r \in ChatNet /\ Sends(n, S, l, k, n.queue[k], r.queue[k])
        /\ \A j \in Len(n.queue[k]) + 1 .. Len(r.queue[k]) : r.queue[k][j].arg = m
    BY <1>b, Zenon DEF Broadcasts
  <2>2. PICK q \in Seq(Functor), u \in Seq(Functor) : q = net.queue[k] /\ u = r.queue[k]
    BY <2>1 DEF ChatNet
  <2>3. PICK f \in Functor : f = u[i]
    BY <2>2
  <2>4. Sends(n, S, l, k, q, u) /\ \A j \in Len(q) + 1 .. Len(u) : u[j].arg = m
    BY <2>1, <2>2
  <2>5. CASE i \in 1 .. Len(q)
    <3>1. f = q[i]
      BY <2>3, <2>4, <2>5 DEF Sends, Extends
    <3>2. WaitsFor(f, k)
      BY <2>2, <2>5, <3>1 DEF QueuesRight
    <3>3. WaitsFor(f, k)'
      BY <3>2, WaitsKept
    <3> QED
      BY <2>2, <2>3, <3>3
  <2>6. CASE i \in Len(q) + 1 .. Len(u)
    <3>1. /\ f.call = "send" /\ f.conn \in S /\ f.arg = m
          /\ net.state[f.conn] = "connected" /\ net.loop[f.conn] = k
      BY <2>3, <2>4, <2>6 DEF Sends
    <3>2. k # l
      <4>1. k = l => u = q
        BY <2>4 DEF Sends
      <4>2. u # q
        BY <2>6
      <4> QED
        BY <4>1, <4>2
    <3>3. f.arg.nth \in 1 .. Len(delivered'[f.arg.from])
      BY <3>1
    <3>4. /\ net'.loop[f.conn] = k /\ net'.state[f.conn] # "idle" /\ net'.loop[f.arg.from] # k
          /\ program' \in {"threaded", "efficient"}
      BY <3>1, <3>2 DEF Ages
    <3>5. WaitsFor(f, k)'
      BY <3>1, <3>3, <3>4 DEF WaitsFor
    <3> QED
      BY <2>2, <2>3, <3>5
  <2>7. i \in 1 .. Len(q) \/ i \in Len(q) + 1 .. Len(u)
    BY <2>2
  <2> QED
    BY <2>5, <2>6, <2>7
<1>2. program' # "server"
  BY DEF Ages
<1> QED
  BY <1>1, <1>2, <1>r DEF QueuesRight

\* The walk of "efficient" goes on to its next connection.
LEMMA SendNextKeepsInv ==
  ASSUME ChatInv, NEW l \in Loop, Chat!SendNext(l), program' = program
  PROVE  ChatInv'
<1>1. /\ net \in ChatNet /\ program \in Chat!Programs
      /\ \A s \in Conn : Len(delivered[s]) \in Nat
      /\ ListExact /\ WalksLast /\ QueuesRight
      /\ connections \subseteq Conn /\ IsFiniteSet(connections)
      /\ walk \in [Loop -> [todo : SUBSET Conn, message : Message \cup {<<>>}]]
  BY DEF ChatInv, ChatTypeOK
<1>2. PICK x \in walk[l].todo : net' = Chat!send(net, l, x, walk[l].message)
                             /\ walk' = [walk EXCEPT ![l] = IF @.todo = {x} THEN Chat!NoWalk
                                                            ELSE [todo |-> @.todo \ {x}, message |-> @.message]]
  BY Zenon DEF Chat!SendNext
<1>n. net' = Chat!send(net, l, x, walk[l].message)
  BY <1>2
<1>w. walk' = [walk EXCEPT ![l] = IF walk[l].todo = {x} THEN Chat!NoWalk
                                  ELSE [todo |-> walk[l].todo \ {x}, message |-> walk[l].message]]
  BY <1>2
<1>x. x \in walk[l].todo
  BY <1>2
<1>u. UNCHANGED <<connections, delivered, joined>>
  BY Zenon DEF Chat!SendNext
<1>3. PICK m, s0 : m = walk[l].message /\ s0 = net.reading[l]
  OBVIOUS
<1>4. /\ program = "efficient" /\ s0 # NoConn
      /\ m \in Message /\ m.from = s0 /\ m.nth = Len(delivered[s0])
      /\ x \in Conn /\ net.state[x] # "idle"
  <2>1. walk[l].todo # {} /\ walk[l].todo \subseteq Conn
    BY <1>1, <1>2
  <2> QED
    BY <1>1, <1>x, <1>3, <2>1 DEF WalksLast
<1>5. s0 \in Conn /\ net.loop[s0] = l
  BY <1>1, <1>3, <1>4 DEF ListExact
<1>6. Broadcasts(net, net', l, {x}, m)
  <2>1. Broadcasts(net, Chat!send(net, l, x, m), l, {x}, m)
    BY <1>1, <1>4, SendBroadcasts
  <2> QED
    BY <1>3, <1>n, <2>1
<1>7. net' \in ChatNet /\ net'.loop = net.loop /\ net'.state = net.state /\ net'.reading = net.reading
  BY <1>6, Zenon DEF Broadcasts, SameBut
<1>8. /\ walk' \in [Loop -> [todo : SUBSET Conn, message : Message \cup {<<>>}]]
      /\ walk'[l].todo = walk[l].todo \ {x}
      /\ IF walk'[l].todo = {} THEN walk'[l] = Chat!NoWalk ELSE walk'[l].message = m
      /\ \A k \in Loop : k # l => walk'[k] = walk[k]
  <2>1. PICK w \in [todo : SUBSET Conn, message : Message \cup {<<>>}] :
          w = IF walk[l].todo = {x} THEN Chat!NoWalk ELSE [todo |-> walk[l].todo \ {x}, message |-> walk[l].message]
    BY <1>1 DEF Chat!NoWalk
  <2>2. walk' = [walk EXCEPT ![l] = w]
    BY <1>w, <2>1
  <2>3. /\ w.todo = walk[l].todo \ {x}
        /\ IF w.todo = {} THEN w = Chat!NoWalk ELSE w.message = m
    <3>1. CASE walk[l].todo = {x}
      <4>1. w = Chat!NoWalk /\ w.todo = {}
        BY <2>1, <3>1 DEF Chat!NoWalk
      <4> QED
        BY <3>1, <4>1
    <3>2. CASE walk[l].todo # {x}
      <4>1. walk[l] \in [todo : SUBSET Conn, message : Message \cup {<<>>}]
        BY <1>1
      <4>2. w.todo = walk[l].todo \ {x} /\ w.message = m
        BY <1>3, <2>1, <3>2, <4>1
      <4> QED
        BY <1>x, <3>2, <4>2
    <3> QED
      BY <3>1, <3>2
  <2> QED
    BY <1>1, <2>2, <2>3
<1>9. Ages
  BY <1>1, <1>u, <1>7 DEF Ages
<1>10. ChatTypeOK'
  BY <1>u, <1>7, <1>8 DEF ChatInv, ChatTypeOK
<1>11. ListExact'
  BY <1>1, <1>u, <1>7 DEF ListExact, Chat!Open
<1>12. WalksLast'
  <2>1. ASSUME NEW k \in Loop
        PROVE  IF walk'[k].todo = {} THEN walk'[k] = Chat!NoWalk
               ELSE /\ program' = "efficient" /\ net'.reading[k] # NoConn
                    /\ walk'[k].message \in Message
                    /\ walk'[k].message.from = net'.reading[k]
                    /\ walk'[k].message.nth = Len(delivered'[net'.reading[k]])
                    /\ \A c \in walk'[k].todo : net'.state[c] # "idle"
    <3>1. CASE k = l
      <4>1. CASE walk'[l].todo = {}
        BY <1>8, <3>1, <4>1
      <4>2. CASE walk'[l].todo # {}
        <5>1. \A c \in walk[l].todo : net.state[c] # "idle"
          BY <1>1, <1>x DEF WalksLast
        <5> QED
          BY <1>3, <1>4, <1>u, <1>7, <1>8, <3>1, <4>2, <5>1
      <4> QED
        BY <4>1, <4>2
    <3>2. CASE k # l
      BY <1>1, <1>u, <1>7, <1>8, <3>2 DEF WalksLast
    <3> QED
      BY <3>1, <3>2
  <2> QED
    BY <2>1 DEF WalksLast
<1>13. \A c, s \in Conn : Walking(c, s)' <=> Walking(c, s) /\ ~(c = x /\ s = s0)
  <2>1. ASSUME NEW c \in Conn, NEW s \in Conn PROVE Walking(c, s)' <=> Walking(c, s) /\ ~(c = x /\ s = s0)
    <3>1. PICK k \in Loop : k = net.loop[s]
      BY <1>1 DEF ChatNet
    <3>2. /\ Walking(c, s) <=> c \in walk[k].todo /\ walk[k].message.from = s
          /\ Walking(c, s)' <=> c \in walk'[k].todo /\ walk'[k].message.from = s
      BY <1>7, <3>1 DEF Walking
    <3>3. CASE k # l
      BY <1>5, <1>8, <3>1, <3>2, <3>3
    <3>4. CASE k = l
      <4>1. Walking(c, s) <=> c \in walk[l].todo /\ s = s0
        BY <1>3, <1>4, <3>2, <3>4
      <4>2. Walking(c, s)' <=> c \in walk'[l].todo /\ s = s0
        BY <1>4, <1>8, <3>2, <3>4
      <4> QED
        BY <1>8, <4>1, <4>2
    <3> QED
      BY <3>3, <3>4
  <2> QED
    BY <2>1
<1>14. net.state[x] = "connected" => m.nth \in 1 .. Len(delivered[s0])
  <2>1. PICK a \in Nat, b \in Nat, d \in Nat : Chained(x, s0, a, b, d)
    BY <1>4, <1>5 DEF ChatInv, AllChained
  <2>2. Walking(x, s0)
    BY <1>x, <1>3, <1>4, <1>5 DEF Walking
  <2>3. net.state[x] = "connected" => d + 1 = Len(delivered[s0])
    BY <2>1, <2>2 DEF Chained
  <2> QED
    BY <1>1, <1>4, <1>5, <2>3
<1>15. QueuesRight'
  <2>1. IsSent(l, {x}, m)
    BY <1>4, <1>5, <1>7, <1>14, <1>u DEF IsSent
  <2>2. Like(net)
    BY <1>1 DEF Like
  <2> QED
    BY <1>1, <1>6, <1>9, <2>1, <2>2, SentWaits
<1>16. OutputFresh'
  <2>1. \A c \in Conn : IF c = x /\ net.state[x] = "connected" /\ net.loop[c] = l
                        THEN Appended(net.output[c], m, net'.output[c]) ELSE net'.output[c] = net.output[c]
    BY <1>6 DEF Broadcasts
  <2>2. CASE net.state[x] = "connected"
    <3>1. \A c \in Conn : net'.output[c] = net.output[c] \/ Appended(net.output[c], m, net'.output[c])
      BY <2>1, Zenon
    <3> QED
      BY <1>1, <1>4, <1>u, <1>14, <2>2, <3>1, FreshSent
  <2>3. CASE net.state[x] # "connected"
    <3>1. \A c \in Conn : net'.output[c] = net.output[c]
      BY <2>1, <2>3
    <3> QED
      BY <1>u, <3>1 DEF ChatInv, OutputFresh
  <2> QED
    BY <2>2, <2>3
<1>17. ASSUME NEW c \in Conn, NEW s \in Conn PROVE \E a, b, d \in Nat : Chained(c, s, a, b, d)'
  <2>1. PICK a \in Nat, b \in Nat, d \in Nat : Chained(c, s, a, b, d)
    BY DEF ChatInv, AllChained
  <2>2. Reachable(c)' <=> Reachable(c)
    BY <1>7 DEF Reachable
  <2>o. \A a2, b2 : OutRun(net, c, s, a2, b2) =>
          IF c = x /\ net.state[c] = "connected" /\ s = s0 /\ net.loop[c] = l
          THEN m.nth = b2 + 1 => OutRun(net', c, s, a2, b2 + 1) ELSE OutRun(net', c, s, a2, b2)
    BY <1>1, <1>4, <1>6, PairSent
  <2>q. \A b2, d2 : DueRun(net, c, s, b2, d2) =>
          IF c = x /\ net.state[c] = "connected" /\ s = s0 /\ net.loop[c] # l
          THEN m.nth = d2 + 1 => DueRun(net', c, s, b2, d2 + 1) ELSE DueRun(net', c, s, b2, d2)
    BY <1>1, <1>4, <1>6, PairSent
  <2>3. CASE c = x /\ s = s0 /\ net.state[c] = "connected"
    <3>1. Reachable(c) /\ Walking(c, s) /\ ~Walking(c, s)'
      BY <1>x, <1>3, <1>4, <1>5, <1>13, <2>3 DEF Reachable, Walking
    <3>2. m.nth = d + 1 /\ d + 1 = Len(delivered[s]) /\ b <= d
          /\ OutRun(net, c, s, a, b) /\ DueRun(net, c, s, b, d) /\ a <= joined[c][s]
      BY <1>4, <2>1, <2>3, <3>1 DEF Chained
    <3>3. CASE net.loop[c] = l
      <4>1. DueAt(net.queue[net.loop[c]], c, s) = {}
        BY <1>1, <1>4, <1>5, <2>3, <3>3, NoneDue
      <4>2. b = d
        BY <3>2, <4>1, DueOfNone
      <4>3. OutRun(net', c, s, a, b + 1)
        BY <2>o, <2>3, <3>2, <3>3, <4>2
      <4>4. DueRun(net', c, s, b, b)
        BY <2>q, <3>2, <3>3, <4>2
      <4>5. DueRun(net', c, s, b + 1, b + 1)
        BY <4>4, DueOfNone
      <4>6. Chained(c, s, a, b + 1, d + 1)'
        BY <1>u, <1>7, <2>3, <3>1, <3>2, <4>2, <4>3, <4>5 DEF Chained
      <4> QED
        BY <4>6
    <3>4. CASE net.loop[c] # l
      <4>1. OutRun(net', c, s, a, b)
        BY <2>o, <3>2, <3>4
      <4>2. DueRun(net', c, s, b, d + 1)
        BY <2>q, <2>3, <3>2, <3>4
      <4>3. Chained(c, s, a, b, d + 1)'
        BY <1>u, <1>7, <2>3, <3>1, <3>2, <4>1, <4>2 DEF Chained
      <4> QED
        BY <4>3
    <3> QED
      BY <3>3, <3>4
  <2>4. CASE ~(c = x /\ s = s0 /\ net.state[c] = "connected")
    <3>1. /\ OutRun(net, c, s, a, b) => OutRun(net', c, s, a, b)
          /\ DueRun(net, c, s, b, d) => DueRun(net', c, s, b, d)
      BY <2>o, <2>q, <2>4
    <3>2. net.state[c] = "connected" => (Walking(c, s)' <=> Walking(c, s))
      BY <1>13, <2>4
    <3>3. Chained(c, s, a, b, d)'
      BY <1>u, <1>7, <2>1, <2>2, <3>1, <3>2 DEF Chained
    <3> QED
      BY <3>3
  <2> QED
    BY <2>3, <2>4
<1>18. AllInOrder'
  BY <1>4 DEF AllInOrder
<1> QED
  BY <1>10, <1>11, <1>12, <1>15, <1>16, <1>17, <1>18 DEF ChatInv, AllChained

\* A message m of c comes to the callback of loop l, and the network is n
\* when it has been taken from the buffer.
Delivers(n, l, c, m) ==
  /\ Like(n) /\ n.output = net.output /\ n.reading = net.reading
  /\ c \in connections /\ net.reading[l] = c /\ net.loop[c] = l /\ walk[l].todo = {}
  /\ m \in Message /\ m.from = c /\ m.nth = Len(delivered[c]) + 1
  /\ walk' = IF program = "efficient" THEN [walk EXCEPT ![l] = [todo |-> connections, message |-> m]]
             ELSE walk
  /\ delivered' = [delivered EXCEPT ![c] = Append(@, m.text)]
  /\ connections' = connections /\ joined' = joined

LEMMA LengthIsInt ==
  ASSUME NEW buf, buf[1] \in Int, buf[2] \in Int
  PROVE  Chat!Length(buf) \in Int
BY SMT DEF Chat!Length, Chat!networkToHost32

LEMMA CodecDelivers ==
  ASSUME ChatInv, NEW l \in Loop, Chat!CodecMessage(l)
  PROVE  \E c, n, m : Delivers(n, l, c, m) /\ net' = Chat!Broadcast(n, l, m)
<1>1. /\ net \in ChatNet /\ ListExact /\ connections \subseteq Conn
      /\ \A s \in Conn : Len(delivered[s]) \in Nat
  BY DEF ChatInv, ChatTypeOK
<1> DEFINE Text(buf) == SubSeq(buf, 2 + 1, 2 + Chat!Length(buf))
           M(c) == [from |-> c, nth |-> Len(delivered[c]) + 1, text |-> Text(net.input[c])]
<1>2. PICK c \in Conn :
        /\ Chat!Turn(l, c)
        /\ Chat!HasHeader(net.input[c]) /\ ~Chat!BadLength(net.input[c]) /\ Chat!Complete(net.input[c])
        /\ net' = Chat!Broadcast(Chat!retrieve(net, c, 2 + Chat!Length(net.input[c])), l, M(c))
        /\ walk' = IF program = "efficient"
                   THEN [walk EXCEPT ![l] = [todo |-> connections, message |-> M(c)]] ELSE walk
        /\ delivered' = [delivered EXCEPT ![c] = Append(@, M(c).text)]
        /\ UNCHANGED <<connections, joined>>
  BY Zenon DEF Chat!CodecMessage, Chat!kHeaderLen, Chat!kIntLen
<1>3. PICK buf \in Seq(Int) : buf = net.input[c]
  BY <1>1 DEF ChatNet
<1>4. PICK k : k = Chat!Length(buf)
  OBVIOUS
<1>5. k \in Nat /\ Len(buf) >= 2 + k
  <2>h. Chat!HasHeader(buf) /\ ~Chat!BadLength(buf) /\ Chat!Complete(buf)
    BY <1>2, <1>3, Zenon
  <2>1. Len(buf) >= 2
    <3>1. Chat!HasHeader(buf)
      BY <2>h
    <3> QED
      BY <3>1, SMT DEF Chat!HasHeader, Chat!kHeaderLen, Chat!kIntLen
  <2>2. buf[1] \in Int /\ buf[2] \in Int
    BY <2>1
  <2>3. k \in Int
    BY <1>4, <2>2, LengthIsInt
  <2>4. ~(k < 0) /\ Len(buf) >= 2 + k
    BY <1>4, <2>h DEF Chat!BadLength, Chat!Complete, Chat!kHeaderLen, Chat!kIntLen
  <2> QED
    BY <2>3, <2>4
<1>6. PICK m : m = M(c)
  OBVIOUS
<1>7. m \in Message /\ m.from = c /\ m.nth = Len(delivered[c]) + 1
  <2>1. SubSeq(buf, 2 + 1, 2 + k) \in Seq(Int)
    BY <1>5
  <2>2. m = [from |-> c, nth |-> Len(delivered[c]) + 1, text |-> SubSeq(buf, 2 + 1, 2 + k)]
    BY <1>3, <1>4, <1>6
  <2>3. Len(delivered[c]) + 1 \in Nat
    BY <1>1
  <2> QED
    BY <2>1, <2>2, <2>3 DEF Message
<1>8. PICK n : n = Chat!retrieve(net, c, 2 + Chat!Length(net.input[c]))
  OBVIOUS
<1>9. Like(n) /\ n.output = net.output /\ n.reading = net.reading
  <2>1. SubSeq(buf, 2 + k + 1, Len(buf)) \in Seq(Int)
    BY <1>5
  <2>2. PICK input \in [Conn -> Seq(Int)] : input = [net.input EXCEPT ![c] = SubSeq(buf, 2 + k + 1, Len(buf))]
    BY <1>1, <2>1 DEF ChatNet
  <2>3. n = [net EXCEPT !.input = input]
    BY <1>1, <1>3, <1>4, <1>8, <2>2 DEF ChatNet, Chat!retrieve, Chat!EndOf
  <2> QED
    BY <1>1, <2>3 DEF ChatNet, Like
<1>10. net' = Chat!Broadcast(n, l, m)
  BY <1>2, <1>6, <1>8, Zenon
<1>11. c \in connections /\ net.reading[l] = c /\ net.loop[c] = l /\ walk[l].todo = {}
  <2>1. net.reading[l] = c /\ c # NoConn /\ walk[l].todo = {}
    BY <1>2 DEF Chat!Turn
  <2> QED
    BY <1>1, <2>1 DEF ListExact
<1>12. /\ walk' = IF program = "efficient" THEN [walk EXCEPT ![l] = [todo |-> connections, message |-> m]]
                  ELSE walk
       /\ delivered' = [delivered EXCEPT ![c] = Append(@, m.text)]
       /\ connections' = connections /\ joined' = joined
  BY <1>2, <1>6, Zenon
<1>13. Delivers(n, l, c, m)
  BY <1>7, <1>9, <1>11, <1>12, Zenon DEF Delivers
<1> QED
  BY <1>10, <1>13

\* What is the same after every message.
Stands ==
  /\ net' \in ChatNet /\ net'.loop = net.loop /\ net'.state = net.state /\ net'.reading = net.reading
  /\ program' = program

LEMMA Grown ==
  ASSUME ChatInv, NEW l \in Loop, NEW c, NEW n, NEW m, Delivers(n, l, c, m)
  PROVE  /\ delivered' \in [Conn -> Seq(Seq(Int))]
         /\ \A s \in Conn : /\ Len(delivered[s]) \in Nat /\ Len(delivered'[s]) \in Nat
                            /\ Len(delivered[s]) <= Len(delivered'[s])
                            /\ s # c => delivered'[s] = delivered[s]
         /\ c \in Conn /\ c # NoConn /\ Len(delivered'[c]) = m.nth
         /\ m.nth \in 1 .. Len(delivered'[m.from])
<1>1. delivered \in [Conn -> Seq(Seq(Int))] /\ connections \subseteq Conn
  BY DEF ChatInv, ChatTypeOK
<1>2. /\ c \in Conn /\ m.from = c /\ m.nth = Len(delivered[c]) + 1 /\ m.text \in Seq(Int)
      /\ delivered' = [delivered EXCEPT ![c] = Append(@, m.text)]
  BY <1>1 DEF Delivers, Message
<1>3. PICK x \in Seq(Seq(Int)) : x = delivered[c]
  BY <1>1, <1>2
<1>4. Append(x, m.text) \in Seq(Seq(Int)) /\ Len(Append(x, m.text)) = Len(x) + 1 /\ Len(x) \in Nat
  BY <1>2
<1>5. delivered' \in [Conn -> Seq(Seq(Int))]
  BY <1>1, <1>2, <1>3, <1>4
<1>6. delivered'[c] = Append(x, m.text) /\ \A s \in Conn : s # c => delivered'[s] = delivered[s]
  BY <1>1, <1>2, <1>3
<1>7. ASSUME NEW s \in Conn
      PROVE  /\ Len(delivered[s]) \in Nat /\ Len(delivered'[s]) \in Nat
             /\ Len(delivered[s]) <= Len(delivered'[s])
  <2>1. CASE s = c
    BY <1>3, <1>4, <1>6, <2>1
  <2>2. CASE s # c
    BY <1>1, <1>6, <2>2
  <2> QED
    BY <2>1, <2>2
<1>8. Len(delivered'[c]) = m.nth /\ m.nth \in 1 .. Len(delivered'[c])
  BY <1>2, <1>3, <1>4, <1>6
<1> QED
  BY <1>2, <1>5, <1>6, <1>7, <1>8, ServersAssumption

LEMMA DeliversKeepsUsers ==
  ASSUME ChatInv, NEW l \in Loop, NEW c, NEW n, NEW m, Delivers(n, l, c, m), Stands
  PROVE  ChatTypeOK' /\ ListExact' /\ WalksLast' /\ Ages
<1>1. /\ net \in ChatNet /\ program \in Chat!Programs /\ ListExact /\ WalksLast
      /\ connections \in SUBSET Conn /\ IsFiniteSet(connections)
      /\ walk \in [Loop -> [todo : SUBSET Conn, message : Message \cup {<<>>}]]
      /\ joined \in [Conn -> [Conn -> Nat]]
  BY DEF ChatInv, ChatTypeOK
<1>2. /\ delivered' \in [Conn -> Seq(Seq(Int))]
      /\ \A s \in Conn : /\ Len(delivered[s]) \in Nat /\ Len(delivered'[s]) \in Nat
                         /\ Len(delivered[s]) <= Len(delivered'[s])
                         /\ s # c => delivered'[s] = delivered[s]
      /\ c \in Conn /\ c # NoConn /\ Len(delivered'[c]) = m.nth
  BY Grown
<1>3. /\ net' \in ChatNet /\ net'.loop = net.loop /\ net'.state = net.state /\ net'.reading = net.reading
      /\ program' = program
  BY DEF Stands
<1>4. /\ c \in connections /\ net.reading[l] = c /\ m \in Message /\ m.from = c
      /\ connections' = connections /\ joined' = joined
  BY DEF Delivers
<1>5. walk' = IF program = "efficient" THEN [walk EXCEPT ![l] = [todo |-> connections, message |-> m]]
              ELSE walk
  BY DEF Delivers
<1>6. walk' \in [Loop -> [todo : SUBSET Conn, message : Message \cup {<<>>}]]
  <2>1. [todo |-> connections, message |-> m] \in [todo : SUBSET Conn, message : Message \cup {<<>>}]
    BY <1>1, <1>4
  <2> QED
    BY <1>1, <1>5, <2>1
<1>7. ChatTypeOK'
  BY <1>1, <1>2, <1>3, <1>4, <1>6 DEF ChatTypeOK
<1>8. ListExact'
  BY <1>1, <1>3, <1>4 DEF ListExact, Chat!Open
<1>9. WalksLast'
  <2>1. ASSUME NEW k \in Loop
        PROVE  IF walk'[k].todo = {} THEN walk'[k] = Chat!NoWalk
               ELSE /\ program' = "efficient" /\ net'.reading[k] # NoConn
                    /\ walk'[k].message \in Message
                    /\ walk'[k].message.from = net'.reading[k]
                    /\ walk'[k].message.nth = Len(delivered'[net'.reading[k]])
                    /\ \A x \in walk'[k].todo : net'.state[x] # "idle"
    <3>1. CASE k = l /\ program = "efficient"
      <4>1. walk'[k] = [todo |-> connections, message |-> m]
        BY <1>1, <1>5, <3>1
      <4>2. walk'[k].todo = connections /\ walk'[k].message = m
        BY <4>1
      <4>3. \A x \in connections : net.state[x] # "idle"
        BY <1>1 DEF ListExact, Chat!Open
      <4> QED
        BY <1>2, <1>3, <1>4, <3>1, <4>2, <4>3
    <3>2. CASE ~(k = l /\ program = "efficient")
      <4>1. walk'[k] = walk[k]
        BY <1>1, <1>5, <3>2
      <4>2. CASE walk[k].todo = {}
        BY <1>1, <4>1, <4>2 DEF WalksLast
      <4>3. CASE walk[k].todo # {}
        <5>1. /\ program = "efficient" /\ net.reading[k] # NoConn
              /\ walk[k].message \in Message
              /\ walk[k].message.from = net.reading[k]
              /\ walk[k].message.nth = Len(delivered[net.reading[k]])
              /\ \A x \in walk[k].todo : net.state[x] # "idle"
          BY <1>1, <4>3 DEF WalksLast
        <5>2. net.loop[net.reading[k]] = k /\ net.reading[k] \in Conn
          BY <1>1, <5>1 DEF ListExact
        <5>3. net.reading[k] # c
          <6>1. net.loop[c] = l
            BY DEF Delivers
          <6> QED
            BY <3>2, <5>1, <5>2, <6>1
        <5>4. delivered'[net.reading[k]] = delivered[net.reading[k]]
          BY <1>2, <5>2, <5>3
        <5> QED
          BY <1>3, <4>1, <4>3, <5>1, <5>4
      <4> QED
        BY <4>2, <4>3
    <3> QED
      BY <3>1, <3>2
  <2> QED
    BY <2>1 DEF WalksLast
<1>10. Ages
  BY <1>1, <1>2, <1>3 DEF Ages
<1> QED
  BY <1>7, <1>8, <1>9, <1>10

\* Of the walks, those with the messages of c are new.
LEMMA DeliversWalks ==
  ASSUME ChatInv, NEW l \in Loop, NEW c, NEW n, NEW m, Delivers(n, l, c, m), Stands,
         NEW x \in Conn, NEW s \in Conn
  PROVE  /\ Walking(x, c)' <=> program = "efficient" /\ x \in connections
         /\ ~Walking(x, c)
         /\ s # c => (Walking(x, s)' <=> Walking(x, s))
<1>1. /\ net \in ChatNet /\ WalksLast
      /\ walk \in [Loop -> [todo : SUBSET Conn, message : Message \cup {<<>>}]]
  BY DEF ChatInv, ChatTypeOK
<1>2. /\ net.loop[c] = l /\ walk[l].todo = {} /\ m.from = c
      /\ walk' = IF program = "efficient" THEN [walk EXCEPT ![l] = [todo |-> connections, message |-> m]]
                 ELSE walk
  BY DEF Delivers
<1>3. net'.loop = net.loop
  BY DEF Stands
<1>4. /\ IF program = "efficient" THEN walk'[l].todo = connections /\ walk'[l].message = m
         ELSE walk'[l].todo = {}
      /\ \A k \in Loop : k # l => walk'[k] = walk[k]
  BY <1>1, <1>2
<1>5. /\ Walking(x, c)' <=> x \in walk'[l].todo /\ walk'[l].message.from = c
      /\ ~Walking(x, c)
  BY <1>2, <1>3 DEF Walking
<1>6. ASSUME s # c PROVE Walking(x, s)' <=> Walking(x, s)
  <2>1. PICK k \in Loop : k = net.loop[s]
    BY <1>1 DEF ChatNet
  <2>2. /\ Walking(x, s) <=> x \in walk[k].todo /\ walk[k].message.from = s
        /\ Walking(x, s)' <=> x \in walk'[k].todo /\ walk'[k].message.from = s
    BY <1>3, <2>1 DEF Walking
  <2>3. CASE k = l
    BY <1>2, <1>4, <1>6, <2>2, <2>3
  <2>4. CASE k # l
    BY <1>4, <2>2, <2>4
  <2> QED
    BY <2>3, <2>4
<1> QED
  BY <1>2, <1>4, <1>5, <1>6

LEMMA QueuesStay ==
  ASSUME ChatInv, Ages, net'.queue = net.queue
  PROVE  QueuesRight'
<1>q. PICK queue : queue = net'.queue
  OBVIOUS
<1>1. ASSUME NEW k \in Loop, NEW i \in 1 .. Len(queue[k]) PROVE WaitsFor(queue[k][i], k)'
  <2>1. PICK f \in Functor : f = queue[k][i]
    BY <1>q DEF ChatInv, ChatTypeOK, ChatNet
  <2>2. WaitsFor(f, k)
    BY <1>q, <2>1 DEF ChatInv, QueuesRight
  <2>3. WaitsFor(f, k)'
    BY <2>2, WaitsKept
  <2> QED
    BY <2>1, <2>3
<1>2. program' = "server" => \A c, d \in Conn : net'.loop[c] = net'.loop[d]
  BY DEF ChatInv, QueuesRight, Ages
<1> QED
  BY <1>1, <1>2, <1>q DEF QueuesRight

\* The message is new.
LEMMA DeliversFresh ==
  ASSUME ChatInv, NEW l, NEW c, NEW n, NEW m, Delivers(n, l, c, m), NEW x \in Conn
  PROVE  /\ \A i \in 1 .. Len(net.output[x]) : net.output[x][i] # m
         /\ \A j \in 1 .. Len(net.queue[net.loop[x]]) : net.queue[net.loop[x]][j].arg # m
<1>1. m.nth \notin 1 .. Len(delivered[m.from])
  <2>1. m.nth = Len(delivered[m.from]) + 1 /\ m.from \in Conn
    BY DEF Delivers, Message
  <2>2. Len(delivered[m.from]) \in Nat
    BY <2>1 DEF ChatInv, ChatTypeOK
  <2> QED
    BY <2>1, <2>2
<1>2. \A i \in 1 .. Len(net.output[x]) : net.output[x][i] # m
  BY <1>1 DEF ChatInv, OutputFresh
<1>3. PICK k \in Loop : k = net.loop[x]
  BY DEF ChatInv, ChatTypeOK, ChatNet
<1>4. \A j \in 1 .. Len(net.queue[k]) : net.queue[k][j].arg # m
  <2>1. ASSUME NEW j \in 1 .. Len(net.queue[k]) PROVE net.queue[k][j].arg # m
    <3>1. PICK f : f = net.queue[k][j]
      OBVIOUS
    <3>2. WaitsFor(f, k)
      BY <3>1 DEF ChatInv, QueuesRight
    <3>3. f.arg.nth \in 1 .. Len(delivered[f.arg.from])
      BY <3>2 DEF WaitsFor
    <3> QED
      BY <1>1, <3>1, <3>3
  <2> QED
    BY <2>1
<1> QED
  BY <1>2, <1>3, <1>4

\* A message changes nothing for x of the messages from s.
PairKept(x, s) ==
  /\ \A a, b : OutRun(net, x, s, a, b) => OutRun(net', x, s, a, b)
  /\ \A b, d : DueRun(net, x, s, b, d) => DueRun(net', x, s, b, d)

LEMMA PairKeeps ==
  ASSUME ChatInv, NEW l \in Loop, NEW c, NEW n, NEW m, Delivers(n, l, c, m), Stands,
         NEW x \in Conn, NEW s \in Conn, PairKept(x, s),
         s # c \/ net.state[x] \notin {"idle", "connected"}
  PROVE  \E a, b, d \in Nat : Chained(x, s, a, b, d)'
<1>1. PICK a \in Nat, b \in Nat, d \in Nat : Chained(x, s, a, b, d)
  BY DEF ChatInv, AllChained
<1>2. /\ Len(delivered[s]) \in Nat /\ Len(delivered'[s]) \in Nat
      /\ Len(delivered[s]) <= Len(delivered'[s])
      /\ s # c => delivered'[s] = delivered[s]
  BY Grown
<1>3. s # c => (Walking(x, s)' <=> Walking(x, s))
  BY DeliversWalks
<1>4. /\ net'.loop = net.loop /\ net'.state = net.state /\ program' = program /\ joined' = joined
  BY DEF Stands, Delivers
<1>5. Reachable(x)' <=> Reachable(x)
  BY <1>4 DEF Reachable
<1>6. OutRun(net', x, s, a, b) /\ (Reachable(x) => DueRun(net', x, s, b, d))
  BY <1>1 DEF Chained, PairKept
<1>7. b <= d /\ d <= Len(delivered'[s])
  <2>1. b <= d /\ d <= Len(delivered[s])
    BY <1>1 DEF Chained
  <2> QED
    BY <1>2, <2>1
<1>8. CASE s # c
  <2>1. delivered'[s] = delivered[s]
    BY <1>2, <1>8
  <2>2. Chained(x, s, a, b, d)'
    BY <1>1, <1>3, <1>4, <1>5, <1>6, <1>7, <1>8, <2>1 DEF Chained
  <2> QED
    BY <2>2
<1>9. CASE net.state[x] \notin {"idle", "connected"}
  <2>1. a <= joined[x][s]
    BY <1>1, <1>9 DEF Chained
  <2>2. Chained(x, s, a, b, d)'
    BY <1>4, <1>5, <1>6, <1>7, <1>9, <2>1 DEF Chained
  <2> QED
    BY <2>2
<1> QED
  BY <1>8, <1>9

\* Who is not established has missed it.
LEMMA PairMisses ==
  ASSUME ChatInv, NEW l \in Loop, NEW c, NEW n, NEW m, Delivers(n, l, c, m), Stands,
         program # "highperformance",
         NEW x \in Conn, PairKept(x, c), net.state[x] = "idle"
  PROVE  \E a, b, d \in Nat : Chained(x, c, a, b, d)'
<1>1. c \in Conn /\ Len(delivered'[c]) \in Nat
  BY Grown
<1>2. PICK a \in Nat, b \in Nat, d \in Nat : Chained(x, c, a, b, d)
  BY <1>1 DEF ChatInv, AllChained
<1>3. a = b /\ OutRun(net, x, c, a, b) /\ DueRun(net, x, c, b, d)
  BY <1>2 DEF Chained, Reachable
<1>4. DueAt(net.queue[net.loop[x]], x, c) = {}
  BY <1>1, NoneDue DEF ChatInv, ChatTypeOK
<1>5. b = d
  BY <1>3, <1>4, DueOfNone
<1>6. PICK k \in Nat : k = Len(delivered'[c])
  BY <1>1
<1>7. OutRun(net', x, c, k, k)
  <2>1. OutRun(net', x, c, a, a)
    BY <1>3 DEF PairKept
  <2>2. OutAt(net'.output[x], c) = {}
    BY <2>1, RunOfNone DEF OutRun
  <2> QED
    BY <2>2, RunOfNone DEF OutRun
<1>8. DueRun(net', x, c, k, k)
  <2>1. DueRun(net', x, c, b, b)
    BY <1>3, <1>5 DEF PairKept
  <2> QED
    BY <2>1, DueOfNone
<1>9. net'.state[x] = "idle"
  BY DEF Stands
<1>10. Chained(x, c, k, k, k)'
  BY <1>6, <1>7, <1>8, <1>9 DEF Chained
<1> QED
  BY <1>10

\* "server" and "threaded" send it to all of the list.
LEMMA SendAllKeepsInv ==
  ASSUME ChatInv, NEW l \in Loop, NEW c, NEW n, NEW m, Delivers(n, l, c, m),
         net' = Chat!SendAll(n, l, connections, m),
         program \in {"server", "threaded"}, program' = program
  PROVE  ChatInv'
<1>1. /\ net \in ChatNet /\ program \in Chat!Programs /\ ListExact /\ QueuesRight
      /\ connections \subseteq Conn /\ IsFiniteSet(connections)
  BY DEF ChatInv, ChatTypeOK
<1>2. /\ Like(n) /\ n.output = net.output /\ n.reading = net.reading
      /\ c \in connections /\ net.loop[c] = l
      /\ m \in Message /\ m.from = c /\ m.nth = Len(delivered[c]) + 1
      /\ joined' = joined
  BY DEF Delivers
<1>3. /\ n \in ChatNet /\ n.queue = net.queue /\ n.loop = net.loop /\ n.state = net.state
  BY <1>2 DEF Like
<1>4. Broadcasts(n, net', l, connections, m)
  <2>1. Broadcasts(n, Chat!SendAll(n, l, connections, m), l, connections, m)
    BY <1>1, <1>2, <1>3, SendAllBroadcasts
  <2> QED
    BY <2>1
<1>5. SameBut(n, net') /\ net' \in ChatNet
  BY <1>4, Zenon DEF Broadcasts
<1>6. Stands
  BY <1>2, <1>3, <1>5 DEF SameBut, Stands
<1>7. ChatTypeOK' /\ ListExact' /\ WalksLast' /\ Ages
  BY <1>6, DeliversKeepsUsers
<1>8. /\ \A s \in Conn : Len(delivered[s]) <= Len(delivered'[s]) /\ Len(delivered'[s]) \in Nat
      /\ m.nth \in 1 .. Len(delivered'[m.from]) /\ c \in Conn /\ Len(delivered'[c]) = m.nth
  BY Grown
<1>9. ASSUME NEW x \in Conn
      PROVE  IF x \in connections /\ net.state[x] = "connected" /\ net.loop[x] = l
             THEN Appended(net.output[x], m, net'.output[x]) ELSE net'.output[x] = net.output[x]
  BY <1>2, <1>3, <1>4 DEF Broadcasts
<1>10. QueuesRight' /\ (program = "server" => net'.queue = net.queue)
  <2>1. CASE program = "threaded"
    <3>1. IsSent(l, connections, m)
      BY <1>1, <1>2, <1>6, <1>8, <2>1 DEF IsSent, Stands
    <3>2. QueuesRight'
      BY <1>1, <1>2, <1>4, <1>7, <3>1, SentWaits
    <3> QED
      BY <2>1, <3>2
  <2>2. CASE program = "server"
    <3>1. \A x \in connections : n.loop[x] = l
      BY <1>1, <1>2, <1>3, <1>8, <2>2 DEF QueuesRight
    <3>2. net'.queue = net.queue
      BY <1>3, <1>4, <3>1, LocalSends
    <3>3. QueuesRight'
      BY <1>7, <3>2, QueuesStay
    <3> QED
      BY <3>2, <3>3
  <2> QED
    BY <2>1, <2>2
<1>11. OutputFresh'
  <2>1. \A x \in Conn : net'.output[x] = net.output[x] \/ Appended(net.output[x], m, net'.output[x])
    BY <1>9
  <2> QED
    BY <1>8, <2>1, FreshSent
<1>12. ASSUME NEW x \in Conn, NEW s \in Conn PROVE \E a, b, d \in Nat : Chained(x, s, a, b, d)'
  <2>o. \A a, b : OutRun(net, x, s, a, b) =>
          IF x \in connections /\ net.state[x] = "connected" /\ s = c /\ net.loop[x] = l
          THEN m.nth = b + 1 => OutRun(net', x, s, a, b + 1) ELSE OutRun(net', x, s, a, b)
    <3>1. \A a, b : OutRun(net, x, s, a, b) <=> OutRun(n, x, s, a, b)
      BY <1>2 DEF OutRun
    <3>2. \A a, b : OutRun(n, x, s, a, b) =>
            IF x \in connections /\ n.state[x] = "connected" /\ m.from = s /\ n.loop[x] = l
            THEN m.nth = b + 1 => OutRun(net', x, s, a, b + 1) ELSE OutRun(net', x, s, a, b)
      BY <1>3, <1>4, PairSent
    <3> QED
      BY <1>2, <1>3, <3>1, <3>2
  <2>q. \A b, d : DueRun(net, x, s, b, d) =>
          IF x \in connections /\ net.state[x] = "connected" /\ s = c /\ net.loop[x] # l
          THEN m.nth = d + 1 => DueRun(net', x, s, b, d + 1) ELSE DueRun(net', x, s, b, d)
    <3>1. \A b, d : DueRun(net, x, s, b, d) <=> DueRun(n, x, s, b, d)
      BY <1>3 DEF DueRun
    <3>2. \A b, d : DueRun(n, x, s, b, d) =>
            IF x \in connections /\ n.state[x] = "connected" /\ m.from = s /\ n.loop[x] # l
            THEN m.nth = d + 1 => DueRun(net', x, s, b, d + 1) ELSE DueRun(net', x, s, b, d)
      BY <1>3, <1>4, PairSent
    <3> QED
      BY <1>2, <1>3, <3>1, <3>2
  <2>1. CASE ~(s = c /\ net.state[x] = "connected")
    <3>1. PairKept(x, s)
      BY <2>o, <2>q, <2>1 DEF PairKept
    <3>2. s = c /\ net.state[x] = "idle" => \E a, b, d \in Nat : Chained(x, s, a, b, d)'
      BY <1>6, <3>1, PairMisses
    <3>3. s # c \/ net.state[x] \notin {"idle", "connected"} => \E a, b, d \in Nat : Chained(x, s, a, b, d)'
      BY <1>6, <3>1, PairKeeps
    <3> QED
      BY <2>1, <3>2, <3>3
  <2>2. CASE s = c /\ net.state[x] = "connected"
    <3>1. PICK a \in Nat, b \in Nat, d \in Nat : Chained(x, s, a, b, d)
      BY DEF ChatInv, AllChained
    <3>2. ~Walking(x, s) /\ ~Walking(x, s)'
      BY <1>6, <2>2, DeliversWalks
    <3>3. /\ m.nth = d + 1 /\ b <= d /\ a <= joined[x][s]
          /\ OutRun(net, x, s, a, b) /\ DueRun(net, x, s, b, d)
      BY <1>2, <2>2, <3>1, <3>2 DEF Chained, Reachable
    <3>4. x \in connections
      BY <1>1, <2>2 DEF ListExact, Chat!Open
    <3>5. /\ net'.state[x] = "connected" /\ joined' = joined /\ Len(delivered'[s]) = d + 1
      BY <1>2, <1>6, <1>8, <2>2, <3>3 DEF Stands
    <3>6. CASE net.loop[x] = l
      <4>1. DueAt(net.queue[net.loop[x]], x, s) = {}
        BY <1>1, <1>2, <2>2, <3>6, NoneDue
      <4>2. b = d
        BY <3>3, <4>1, DueOfNone
      <4>3. OutRun(net', x, s, a, b + 1)
        BY <2>o, <2>2, <3>3, <3>4, <3>6, <4>2
      <4>4. DueRun(net', x, s, b, b)
        BY <2>q, <3>3, <3>6, <4>2
      <4>5. DueRun(net', x, s, b + 1, b + 1)
        BY <4>4, DueOfNone
      <4>6. Chained(x, s, a, b + 1, d + 1)'
        BY <3>2, <3>3, <3>5, <4>2, <4>3, <4>5 DEF Chained
      <4> QED
        BY <4>6
    <3>7. CASE net.loop[x] # l
      <4>1. OutRun(net', x, s, a, b)
        BY <2>o, <3>3, <3>7
      <4>2. DueRun(net', x, s, b, d + 1)
        BY <2>q, <2>2, <3>3, <3>4, <3>7
      <4>3. Chained(x, s, a, b, d + 1)'
        BY <3>2, <3>3, <3>5, <4>1, <4>2 DEF Chained
      <4> QED
        BY <4>3
    <3> QED
      BY <3>6, <3>7
  <2> QED
    BY <2>1, <2>2
<1>13. AllInOrder'
  <2>1. CASE program = "threaded"
    BY <2>1 DEF AllInOrder
  <2>2. CASE program = "server"
    <3>1. PICK rank \in [Message -> Nat], top \in Nat :
            \A x \in Conn : InOrder(rank, top, net.output[x], net.queue[net.loop[x]])
      BY <2>2 DEF ChatInv, AllInOrder
    <3>2. PICK new \in [Message -> Nat] : new = [rank EXCEPT ![m] = top]
      BY <1>2
    <3>3. ASSUME NEW x \in Conn PROVE InOrder(new, top + 1, net'.output[x], net'.queue[net'.loop[x]])
      <4>1. PICK o \in Seq(Message), q \in Seq(Functor) : o = net.output[x] /\ q = net.queue[net.loop[x]]
        BY <1>1 DEF ChatNet
      <4>2. q = <<>>
        <5>1. net.loop[x] \in Loop
          BY <1>1 DEF ChatNet
        <5>2. \A i \in 1 .. Len(q) : FALSE
          BY <1>1, <2>2, <4>1, <5>1 DEF QueuesRight, WaitsFor
        <5> QED
          BY <4>1, <5>2
      <4>3. InOrder(rank, top, o, q)
        BY <3>1, <4>1
      <4>4. /\ \A i \in 1 .. Len(o) : o[i] # m
            /\ \A j \in 1 .. Len(q) : q[j].arg # m
        BY <4>1, DeliversFresh
      <4>5. /\ InOrder(new, top + 1, o, q)
            /\ \A p : q = <<>> /\ Appended(o, m, p) => InOrder(new, top + 1, p, q)
        BY <1>2, <3>2, <4>3, <4>4, OrderAppends
      <4>6. net'.output[x] = o \/ Appended(o, m, net'.output[x])
        BY <1>9, <4>1
      <4>7. net'.queue[net'.loop[x]] = q
        BY <1>6, <1>10, <2>2, <4>1 DEF Stands
      <4> QED
        BY <4>2, <4>5, <4>6, <4>7
    <3>4. top + 1 \in Nat
      OBVIOUS
    <3> QED
      BY <3>3, <3>4 DEF AllInOrder
  <2> QED
    BY <2>1, <2>2
<1> QED
  BY <1>7, <1>10, <1>11, <1>12, <1>13 DEF ChatInv, AllChained

\* "efficient" begins a walk.
LEMMA WalkKeepsInv ==
  ASSUME ChatInv, NEW l \in Loop, NEW c, NEW n, NEW m, Delivers(n, l, c, m), net' = n,
         program = "efficient", program' = program
  PROVE  ChatInv'
<1>1. /\ net' \in ChatNet /\ net'.queue = net.queue /\ net'.loop = net.loop /\ net'.state = net.state
      /\ net'.output = net.output /\ net'.reading = net.reading
      /\ c \in connections /\ joined' = joined /\ m.nth = Len(delivered[c]) + 1
  BY DEF Delivers, Like
<1>2. Stands
  BY <1>1 DEF Stands
<1>3. ChatTypeOK' /\ ListExact' /\ WalksLast' /\ Ages
  BY <1>2, DeliversKeepsUsers
<1>4. QueuesRight'
  BY <1>1, <1>3, QueuesStay
<1>5. /\ \A s \in Conn : Len(delivered[s]) <= Len(delivered'[s]) /\ Len(delivered'[s]) \in Nat
      /\ m.nth \in 1 .. Len(delivered'[m.from]) /\ c \in Conn /\ Len(delivered'[c]) = m.nth
  BY Grown
<1>6. OutputFresh'
  BY <1>1, <1>5, FreshSent
<1>7. ASSUME NEW x \in Conn, NEW s \in Conn PROVE \E a, b, d \in Nat : Chained(x, s, a, b, d)'
  <2>1. PairKept(x, s)
    BY <1>1 DEF PairKept, OutRun, DueRun
  <2>2. CASE ~(s = c /\ net.state[x] = "connected")
    <3>1. s = c /\ net.state[x] = "idle" => \E a, b, d \in Nat : Chained(x, s, a, b, d)'
      BY <1>2, <2>1, PairMisses
    <3>2. s # c \/ net.state[x] \notin {"idle", "connected"} => \E a, b, d \in Nat : Chained(x, s, a, b, d)'
      BY <1>2, <2>1, PairKeeps
    <3> QED
      BY <2>2, <3>1, <3>2
  <2>3. CASE s = c /\ net.state[x] = "connected"
    <3>1. PICK a \in Nat, b \in Nat, d \in Nat : Chained(x, s, a, b, d)
      BY DEF ChatInv, AllChained
    <3>2. x \in connections
      BY <2>3 DEF ChatInv, ListExact, Chat!Open
    <3>3. ~Walking(x, s) /\ Walking(x, s)'
      BY <1>2, <2>3, <3>2, DeliversWalks
    <3>4. /\ m.nth = d + 1 /\ b <= d /\ a <= joined[x][s]
          /\ OutRun(net', x, s, a, b) /\ DueRun(net', x, s, b, d)
      BY <1>1, <2>1, <2>3, <3>1, <3>3 DEF Chained, Reachable, PairKept
    <3>5. Len(delivered'[s]) = d + 1 /\ net'.state[x] = "connected"
      BY <1>1, <1>5, <2>3, <3>4
    <3>6. Chained(x, s, a, b, d)'
      BY <1>1, <3>3, <3>4, <3>5 DEF Chained
    <3> QED
      BY <3>6
  <2> QED
    BY <2>2, <2>3
<1>8. AllInOrder'
  BY DEF AllInOrder
<1> QED
  BY <1>3, <1>4, <1>6, <1>7, <1>8 DEF ChatInv, AllChained

\* "highperformance" hands it to every loop.
LEMMA PairDistributed ==
  ASSUME NEW n \in ChatNet, NEW r, NEW m \in Message, Distributes(n, r, Loop, ToDistribute(m)),
         NEW x \in Conn, NEW s
  PROVE  /\ \A a, b : OutRun(n, x, s, a, b) => OutRun(r, x, s, a, b)
         /\ \A b, d : DueRun(n, x, s, b, d) =>
              IF m.from = s THEN m.nth = d + 1 => DueRun(r, x, s, b, d + 1) ELSE DueRun(r, x, s, b, d)
<1>1. PICK k \in Loop : k = n.loop[x]
  BY DEF ChatNet
<1>2. r \in ChatNet /\ r.loop = n.loop /\ r.output = n.output /\ Appended(n.queue[k], ToDistribute(m), r.queue[k])
  BY DEF Distributes, SameBut
<1>3. PICK q \in Seq(Functor), u \in Seq(Functor) : q = n.queue[k] /\ u = r.queue[k]
  BY <1>2 DEF ChatNet
<1>4. /\ Extends(q, u) /\ Len(q) \in Nat /\ Len(u) = Len(q) + 1
      /\ u[Len(q) + 1].call = "distributeMessage" /\ u[Len(q) + 1].arg = m
  BY <1>2, <1>3 DEF Appended, Extends, ToDistribute
<1>5. Len(q) + 1 .. Len(u) = {Len(q) + 1}
  BY <1>4
<1>6. NewDue(q, u, x, s) = IF m.from = s THEN {Len(q) + 1} ELSE {}
  BY <1>4, <1>5 DEF NewDue
<1>7. ASSUME NEW b, NEW d, DueRun(n, x, s, b, d)
      PROVE  IF m.from = s THEN m.nth = d + 1 => DueRun(r, x, s, b, d + 1) ELSE DueRun(r, x, s, b, d)
  <2>1. Run(Args(q), DueAt(q, x, s), b, d)
    BY <1>1, <1>3, <1>7 DEF DueRun
  <2>2. /\ NewDue(q, u, x, s) = {} => Run(Args(u), DueAt(u, x, s), b, d)
        /\ \A p : NewDue(q, u, x, s) = {p} /\ u[p].arg.nth = d + 1 => Run(Args(u), DueAt(u, x, s), b, d + 1)
    BY <1>4, <2>1, DueGrows
  <2>3. \A b2, d2 : Run(Args(u), DueAt(u, x, s), b2, d2) => DueRun(r, x, s, b2, d2)
    BY <1>1, <1>2, <1>3 DEF DueRun
  <2> QED
    BY <1>4, <1>6, <2>2, <2>3
<1>8. \A a, b : OutRun(n, x, s, a, b) => OutRun(r, x, s, a, b)
  BY <1>2 DEF OutRun
<1> QED
  BY <1>7, <1>8

LEMMA ToAllKeepsInv ==
  ASSUME ChatInv, NEW l \in Loop, NEW c, NEW n, NEW m, Delivers(n, l, c, m),
         net' = Chat!DistributeToAll(n, l, m),
         program = "highperformance", program' = program
  PROVE  ChatInv'
<1>1. net \in ChatNet /\ ListExact
  BY DEF ChatInv, ChatTypeOK
<1>2. /\ Like(n) /\ n.output = net.output /\ n.reading = net.reading
      /\ c \in connections /\ m \in Message /\ m.from = c /\ m.nth = Len(delivered[c]) + 1
      /\ joined' = joined
  BY DEF Delivers
<1>3. /\ n \in ChatNet /\ n.queue = net.queue /\ n.loop = net.loop /\ n.state = net.state
  BY <1>2 DEF Like
<1>4. Distributes(n, net', Loop, ToDistribute(m))
  <2>1. Distributes(n, Chat!DistributeToAll(n, l, m), Loop, ToDistribute(m))
    BY <1>2, <1>3, DistributeDistributes
  <2> QED
    BY <2>1
<1>5. /\ net' \in ChatNet /\ SameBut(n, net') /\ net'.output = net.output
      /\ \A k \in Loop : Appended(net.queue[k], ToDistribute(m), net'.queue[k])
  BY <1>2, <1>3, <1>4 DEF Distributes
<1>6. Stands
  BY <1>2, <1>3, <1>5 DEF SameBut, Stands
<1>7. ChatTypeOK' /\ ListExact' /\ WalksLast' /\ Ages
  BY <1>6, DeliversKeepsUsers
<1>8. /\ \A s \in Conn : Len(delivered[s]) <= Len(delivered'[s]) /\ Len(delivered'[s]) \in Nat
      /\ m.nth \in 1 .. Len(delivered'[m.from]) /\ c \in Conn /\ Len(delivered'[c]) = m.nth
  BY Grown
<1>9. QueuesRight'
  <2>q. PICK queue : queue = net'.queue
    OBVIOUS
  <2>1. ASSUME NEW k \in Loop, NEW i \in 1 .. Len(queue[k]) PROVE WaitsFor(queue[k][i], k)'
    <3>1. Appended(net.queue[k], ToDistribute(m), queue[k])
      BY <1>5, <2>q
    <3>2. PICK f : f = queue[k][i]
      OBVIOUS
    <3>3. \/ i \in 1 .. Len(net.queue[k]) /\ f = net.queue[k][i]
          \/ f = ToDistribute(m)
      <4>1. PICK x, y : x = net.queue[k] /\ y = queue[k]
        OBVIOUS
      <4>2. (i \in 1 .. Len(x) /\ y[i] = x[i]) \/ y[i] = ToDistribute(m)
        BY <3>1, <4>1, AppendedAt
      <4> QED
        BY <3>2, <4>1, <4>2
    <3>4. CASE i \in 1 .. Len(net.queue[k]) /\ f = net.queue[k][i]
      <4>1. f \in Functor
        BY <1>1, <3>4 DEF ChatNet
      <4>2. WaitsFor(f, k)
        BY <3>4 DEF ChatInv, QueuesRight
      <4>3. WaitsFor(f, k)'
        BY <1>7, <4>1, <4>2, WaitsKept
      <4> QED
        BY <3>2, <4>3
    <3>5. CASE f = ToDistribute(m)
      <4>1. f.arg = m /\ f.call = "distributeMessage"
        BY <3>5 DEF ToDistribute
      <4>2. f.arg.nth \in 1 .. Len(delivered'[f.arg.from]) /\ program' = "highperformance"
        BY <1>8, <4>1
      <4>3. WaitsFor(f, k)'
        BY <4>1, <4>2 DEF WaitsFor
      <4> QED
        BY <3>2, <4>3
    <3> QED
      BY <3>3, <3>4, <3>5
  <2>2. program' # "server"
    OBVIOUS
  <2> QED
    BY <2>1, <2>2, <2>q DEF QueuesRight
<1>10. OutputFresh'
  <2>1. \A x \in Conn : net'.output[x] = net.output[x]
    BY <1>5
  <2> QED
    BY <1>8, <2>1, FreshSent
<1>11. ASSUME NEW x \in Conn, NEW s \in Conn PROVE \E a, b, d \in Nat : Chained(x, s, a, b, d)'
  <2>o. \A a, b : OutRun(net, x, s, a, b) => OutRun(net', x, s, a, b)
    BY <1>5 DEF OutRun
  <2>q. \A b, d : DueRun(net, x, s, b, d) =>
          IF s = c THEN m.nth = d + 1 => DueRun(net', x, s, b, d + 1) ELSE DueRun(net', x, s, b, d)
    <3>1. \A b, d : DueRun(net, x, s, b, d) <=> DueRun(n, x, s, b, d)
      BY <1>3 DEF DueRun
    <3>2. \A b, d : DueRun(n, x, s, b, d) =>
            IF m.from = s THEN m.nth = d + 1 => DueRun(net', x, s, b, d + 1) ELSE DueRun(net', x, s, b, d)
      BY <1>2, <1>3, <1>4, PairDistributed
    <3> QED
      BY <1>2, <3>1, <3>2
  <2>1. CASE s # c
    <3>1. PairKept(x, s)
      BY <2>o, <2>q, <2>1 DEF PairKept
    <3> QED
      BY <1>6, <2>1, <3>1, PairKeeps
  <2>2. CASE s = c
    <3>1. PICK a \in Nat, b \in Nat, d \in Nat : Chained(x, s, a, b, d)
      BY DEF ChatInv, AllChained
    <3>2. ~Walking(x, s) /\ ~Walking(x, s)'
      BY <1>6, <2>2, DeliversWalks
    <3>3. OutRun(net', x, s, a, b) /\ b <= d /\ d <= Len(delivered[s]) /\ Len(delivered'[s]) = Len(delivered[s]) + 1
      BY <1>2, <1>8, <2>o, <2>2, <3>1 DEF Chained
    <3>4. net'.state = net.state /\ program' = program /\ joined' = joined
      BY <1>2, <1>6 DEF Stands
    <3>5. CASE net.state[x] \in {"idle", "connected"}
      <4>1. d = Len(delivered[s]) /\ DueRun(net, x, s, b, d)
        BY <3>1, <3>2, <3>5 DEF Chained, Reachable
      <4>2. DueRun(net', x, s, b, d + 1)
        BY <1>2, <2>q, <2>2, <4>1
      <4>3. CASE net.state[x] = "idle"
        <5>1. a = b
          BY <3>1, <4>3 DEF Chained
        <5>2. Chained(x, s, a, b, d + 1)'
          BY <3>3, <3>4, <4>1, <4>2, <4>3, <5>1 DEF Chained
        <5> QED
          BY <5>2
      <4>4. CASE net.state[x] = "connected"
        <5>1. a <= joined[x][s]
          BY <3>1, <4>4 DEF Chained
        <5>2. Chained(x, s, a, b, d + 1)'
          BY <3>2, <3>3, <3>4, <4>1, <4>2, <4>4, <5>1 DEF Chained
        <5> QED
          BY <5>2
      <4> QED
        BY <3>5, <4>3, <4>4
    <3>6. CASE net.state[x] \notin {"idle", "connected"}
      <4>1. ~Reachable(x)' /\ a <= joined[x][s]
        BY <3>1, <3>4, <3>6 DEF Reachable, Chained
      <4>2. d <= Len(delivered'[s])
        BY <3>1, <3>3, <1>7, <1>8 DEF Ages
      <4>3. Chained(x, s, a, b, d)'
        BY <3>3, <3>4, <3>6, <4>1, <4>2 DEF Chained
      <4> QED
        BY <4>3
    <3> QED
      BY <3>5, <3>6
  <2> QED
    BY <2>1, <2>2
<1>12. AllInOrder'
  <2>1. PICK rank \in [Message -> Nat], top \in Nat :
          \A x \in Conn : InOrder(rank, top, net.output[x], net.queue[net.loop[x]])
    BY DEF ChatInv, AllInOrder
  <2>2. PICK new \in [Message -> Nat] : new = [rank EXCEPT ![m] = top]
    BY <1>2
  <2>3. ASSUME NEW x \in Conn PROVE InOrder(new, top + 1, net'.output[x], net'.queue[net'.loop[x]])
    <3>k. PICK k \in Loop : k = net.loop[x]
      BY <1>1 DEF ChatNet
    <3>1. PICK o \in Seq(Message), q \in Seq(Functor) : o = net.output[x] /\ q = net.queue[k]
      BY <1>1 DEF ChatNet
    <3>2. InOrder(rank, top, o, q)
      BY <2>1, <3>k, <3>1
    <3>3. /\ \A i \in 1 .. Len(o) : o[i] # m
          /\ \A j \in 1 .. Len(q) : q[j].arg # m
      BY <3>k, <3>1, DeliversFresh
    <3>4. \A f, r : f.arg = m /\ Appended(q, f, r) => InOrder(new, top + 1, o, r)
      BY <1>2, <2>2, <3>2, <3>3, OrderAppends
    <3>5. ToDistribute(m).arg = m
      BY DEF ToDistribute
    <3>6. InOrder(new, top + 1, o, net'.queue[k])
      BY <1>5, <3>1, <3>4, <3>5
    <3>7. net'.loop[x] = k /\ net'.output[x] = o
      BY <1>5, <1>6, <3>k, <3>1 DEF Stands
    <3> QED
      BY <3>6, <3>7
  <2>4. top + 1 \in Nat
    OBVIOUS
  <2> QED
    BY <2>3, <2>4 DEF AllInOrder
<1> QED
  BY <1>7, <1>9, <1>10, <1>11, <1>12 DEF ChatInv, AllChained

LEMMA CodecKeepsInv ==
  ASSUME ChatInv, NEW l \in Loop, Chat!CodecMessage(l), program' = program
  PROVE  ChatInv'
<1>1. PICK c, n, m : Delivers(n, l, c, m) /\ net' = Chat!Broadcast(n, l, m)
  BY CodecDelivers
<1>2. CASE program \in {"server", "threaded"}
  <2>1. net' = Chat!SendAll(n, l, connections, m)
    BY <1>1, <1>2, Zenon DEF Chat!Broadcast
  <2> QED
    BY <1>1, <1>2, <2>1, SendAllKeepsInv
<1>3. CASE program = "highperformance"
  <2>1. net' = Chat!DistributeToAll(n, l, m)
    BY <1>1, <1>3 DEF Chat!Broadcast
  <2> QED
    BY <1>1, <1>3, <2>1, ToAllKeepsInv
<1>4. CASE program = "efficient"
  <2>1. net' = n
    BY <1>1, <1>4 DEF Chat!Broadcast
  <2> QED
    BY <1>1, <1>4, <2>1, WalkKeepsInv
<1>5. program \in Chat!Programs
  BY DEF ChatInv, ChatTypeOK
<1> QED
  BY <1>2, <1>3, <1>4, <1>5 DEF Chat!Programs

LEMMA ChatStep == ChatInv /\ Chat!Next => ChatInv'
<1> SUFFICES ASSUME ChatInv, Chat!Next PROVE ChatInv'
  OBVIOUS
<1>1. program' = program
  BY DEF Chat!Next
<1>2. ASSUME NEW c \in Conn, Chat!onConnectionUp(c) \/ Chat!onConnectionDown(c) PROVE ChatInv'
  BY <1>1, <1>2, ChatUpKeepsInv, ChatDownKeepsInv
<1>3. ASSUME NEW c \in Conn, NEW k, Chat!Receive(c, k) PROVE ChatInv'
  BY <1>1, <1>3, ReceiveKeepsInv
<1>4. ASSUME NEW l \in Loop,
             \/ Chat!CodecMessage(l) \/ Chat!CodecInvalidLength(l) \/ Chat!CodecReturns(l)
             \/ Chat!SendNext(l) \/ Chat!distributeMessage(l)
      PROVE  ChatInv'
  BY <1>1, <1>4, CodecKeepsInv, InvalidLengthKeepsInv, CodecReturnsKeepsInv, SendNextKeepsInv, DistributeKeepsInv
<1>5. ASSUME Chat!NetStep, UNCHANGED <<connections, walk, delivered, joined>> PROVE ChatInv'
  <2>1. ASSUME NEW l \in Loop, Chat!SendQueued(l) PROVE ChatInv'
    BY <1>1, <1>5, <2>1, SendQueuedKeepsInv
  <2>2. ASSUME NEW c \in Conn, Chat!ShutdownInLoop(c) PROVE ChatInv'
    BY <1>1, <1>5, <2>2, ShutdownInLoopKeepsInv
  <2>3. ASSUME NEW c \in Conn, Chat!AllWritten(c) PROVE FALSE
    <3>1. net.unwritten \in [Conn -> {FALSE}]
      BY DEF ChatInv, ChatTypeOK, ChatNet
    <3>2. net.unwritten[c]
      BY <2>3 DEF Chat!AllWritten
    <3> QED
      BY <3>1, <3>2
  <2> QED
    BY <1>5, <2>1, <2>2, <2>3 DEF Chat!NetStep
<1> QED
  BY <1>2, <1>3, <1>4, <1>5 DEF Chat!Next

LEMMA ChatStutter == ChatInv /\ UNCHANGED <<program, net, chatVars>> => ChatInv'
<1> SUFFICES ASSUME ChatInv, UNCHANGED <<program, net, chatVars>> PROVE ChatInv'
  OBVIOUS
<1>1. /\ program' = program /\ net' = net
      /\ connections' = connections /\ walk' = walk /\ delivered' = delivered /\ joined' = joined
  BY DEF chatVars
<1>2. net \in ChatNet /\ connections \in SUBSET Conn /\ IsFiniteSet(connections)
  BY DEF ChatInv, ChatTypeOK
<1>3. Settles
  BY <1>1, <1>2 DEF Settles
<1>4. ListExact'
  BY <1>1 DEF ChatInv, ListExact, Chat!Open
<1> QED
  BY <1>3, <1>4, SettlesKeepsInv

\* Clients of any loops that write anything.
AnyChat ==
  /\ program \in Chat!Programs
  /\ \E loop \in [Conn -> Loop], stream \in [Conn -> Seq(Int)] :
       /\ net = Chat!Network(loop, stream, FALSE)
       /\ program = "server" => \A c, d \in Conn : loop[c] = loop[d]
  /\ Chat!Init

LEMMA ChatInitially == AnyChat => ChatInv
<1> SUFFICES ASSUME AnyChat PROVE ChatInv
  OBVIOUS
<1>1. PICK loop \in [Conn -> Loop], stream \in [Conn -> Seq(Int)] :
        /\ net = Chat!Network(loop, stream, FALSE)
        /\ program = "server" => \A c, d \in Conn : loop[c] = loop[d]
  BY DEF AnyChat
<1>2. /\ program \in Chat!Programs /\ connections = {}
      /\ walk = [l \in Loop |-> Chat!NoWalk] /\ delivered = [c \in Conn |-> <<>>]
      /\ joined = [c \in Conn |-> [s \in Conn |-> 0]]
  BY DEF AnyChat, Chat!Init
<1>3. /\ net \in ChatNet /\ net.loop = loop
      /\ net.state = [c \in Conn |-> "idle"] /\ net.output = [c \in Conn |-> <<>>]
      /\ net.queue = [l \in Loop |-> <<>>] /\ net.reading = [l \in Loop |-> NoConn]
  BY <1>1 DEF Chat!Network, ChatNet, States
<1>4. \A l \in Loop : walk[l] = Chat!NoWalk /\ walk[l].todo = {}
  BY <1>2 DEF Chat!NoWalk
<1>5. ChatTypeOK
  <2>1. walk \in [Loop -> [todo : SUBSET Conn, message : Message \cup {<<>>}]]
    BY <1>2 DEF Chat!NoWalk
  <2>2. connections \in SUBSET Conn /\ IsFiniteSet(connections)
    BY <1>2, FS_EmptySet
  <2> QED
    BY <1>2, <1>3, <2>1, <2>2 DEF ChatTypeOK
<1>6. ListExact
  BY <1>2, <1>3 DEF ListExact, Chat!Open
<1>7. WalksLast
  BY <1>4 DEF WalksLast
<1>8. \A l \in Loop : net.queue[l] = <<>> /\ 1 .. Len(net.queue[l]) = {}
  BY <1>3
<1>9. \A c \in Conn : /\ net.output[c] = <<>> /\ 1 .. Len(net.output[c]) = {}
                      /\ net.loop[c] \in Loop
  BY <1>3
<1>10. QueuesRight
  <2>1. ASSUME NEW l \in Loop, NEW i \in 1 .. Len(net.queue[l]) PROVE WaitsFor(net.queue[l][i], l)
    <3>1. 1 .. Len(net.queue[l]) = {}
      BY <1>8
    <3> QED
      BY <3>1, Zenon
  <2>2. program = "server" => \A c, d \in Conn : net.loop[c] = net.loop[d]
    <3>1. net.loop = loop
      BY <1>3
    <3>2. program = "server" => \A c, d \in Conn : loop[c] = loop[d]
      BY <1>1
    <3> QED
      BY <3>1, <3>2, Zenon
  <2> QED
    BY <2>1, <2>2 DEF QueuesRight
<1>11. OutputFresh
  BY <1>9 DEF OutputFresh
<1>12. AllChained
  <2>1. ASSUME NEW c \in Conn, NEW s \in Conn PROVE Chained(c, s, 0, 0, 0)
    <3>1. Len(delivered[s]) = 0 /\ net.state[c] = "idle"
      BY <1>2, <1>3
    <3>2. OutRun(net, c, s, 0, 0)
      <4>1. OutAt(net.output[c], s) = {}
        BY <1>9 DEF OutAt
      <4> QED
        BY <4>1, RunOfNone DEF OutRun
    <3>3. DueRun(net, c, s, 0, 0)
      <4>1. DueAt(net.queue[net.loop[c]], c, s) = {}
        BY <1>8, <1>9 DEF DueAt
      <4> QED
        BY <4>1, DueOfNone
    <3> QED
      BY <3>1, <3>2, <3>3 DEF Chained
  <2> QED
    BY <2>1 DEF AllChained
<1>13. AllInOrder
  <2>1. PICK rank \in [Message -> Nat] : rank = [m \in Message |-> 0]
    OBVIOUS
  <2>2. ASSUME NEW c \in Conn PROVE InOrder(rank, 0, net.output[c], net.queue[net.loop[c]])
    <3>1. 1 .. Len(net.output[c]) = {} /\ 1 .. Len(net.queue[net.loop[c]]) = {}
      BY <1>8, <1>9
    <3> QED
      BY <3>1, Zenon DEF InOrder
  <2> QED
    BY <2>2 DEF AllInOrder
<1> QED
  BY <1>5, <1>6, <1>7, <1>10, <1>11, <1>12, <1>13 DEF ChatInv

\* What the invariant says of the property.
LEMMA ChatInvProperty == ChatInv => Chat!BroadcastComplete
<1> SUFFICES ASSUME ChatInv PROVE Chat!BroadcastComplete
  OBVIOUS
<1>1. /\ net \in ChatNet
      /\ \A s \in Conn : Len(delivered[s]) \in Nat
      /\ joined \in [Conn -> [Conn -> Nat]]
  BY DEF ChatInv, ChatTypeOK
<1>2. \A c \in Conn : DOMAIN net.output[c] = 1 .. Len(net.output[c]) /\ net.loop[c] \in Loop
  <2>1. \A o \in Seq(Message) : DOMAIN o = 1 .. Len(o)
    OBVIOUS
  <2> QED
    BY <1>1, <2>1 DEF ChatNet
<1>3. ASSUME NEW c \in Conn, NEW s \in Conn
      PROVE  LET sent == Chat!Numbers(c, s)
             IN  /\ sent \subseteq 1 .. Len(delivered[s])
                 /\ \A i, j \in Chat!From(c, s) : i < j => net.output[c][i].nth < net.output[c][j].nth
                 /\ \A first, last \in sent : first .. last \subseteq sent
                 /\ sent # {} => \E first \in sent : first <= joined[c][s] + 1
                 /\ Chat!Quiet /\ net.state[c] = "connected" /\ Len(delivered[s]) > joined[c][s]
                      => Len(delivered[s]) \in sent
  <2>1. PICK a \in Nat, b \in Nat, d \in Nat : Chained(c, s, a, b, d)
    BY DEF ChatInv, AllChained
  <2>2. Chat!From(c, s) = OutAt(net.output[c], s)
    BY <1>2 DEF Chat!From, OutAt
  <2>3. /\ a <= b /\ b <= d /\ d <= Len(delivered[s])
        /\ \A i \in Chat!From(c, s) : net.output[c][i].nth \in a + 1 .. b
        /\ \A k \in a + 1 .. b : \E i \in Chat!From(c, s) : net.output[c][i].nth = k
        /\ \A i, j \in Chat!From(c, s) : i < j => net.output[c][i].nth < net.output[c][j].nth
    BY <2>1, <2>2 DEF Chained, OutRun, Run
  <2>4. Chat!Numbers(c, s) = a + 1 .. b
    <3>1. \A k \in Chat!Numbers(c, s) : k \in a + 1 .. b
      BY <2>3 DEF Chat!Numbers
    <3>2. \A k \in a + 1 .. b : k \in Chat!Numbers(c, s)
      BY <2>3 DEF Chat!Numbers
    <3> QED
      BY <3>1, <3>2
  <2>5. PICK sent : sent = Chat!Numbers(c, s)
    OBVIOUS
  <2>6. sent \subseteq 1 .. Len(delivered[s]) /\ \A first, last \in sent : first .. last \subseteq sent
    <3>1. sent = a + 1 .. b /\ b <= Len(delivered[s]) /\ Len(delivered[s]) \in Nat
      BY <1>1, <2>3, <2>4, <2>5
    <3> QED
      BY <3>1
  <2>7. joined[c][s] \in Nat /\ Len(delivered[s]) \in Nat
    BY <1>1
  <2>8. sent # {} => \E first \in sent : first <= joined[c][s] + 1
    <3>1. ASSUME sent # {} PROVE a + 1 \in sent /\ a + 1 <= joined[c][s] + 1
      <4>1. a < b
        BY <2>3, <2>4, <2>5, <3>1
      <4>2. a <= joined[c][s]
        BY <2>1, <4>1 DEF Chained
      <4> QED
        BY <2>4, <2>5, <2>7, <4>1, <4>2
    <3> QED
      BY <3>1
  <2>9. ASSUME Chat!Quiet, net.state[c] = "connected", Len(delivered[s]) > joined[c][s]
        PROVE  Len(delivered[s]) \in sent
    <3>1. net.queue[net.loop[c]] = <<>> /\ walk[net.loop[s]] = Chat!NoWalk
      BY <1>2, <2>9 DEF Chat!Quiet
    <3>2. ~Walking(c, s)
      <4>1. walk[net.loop[s]].todo = {}
        BY <3>1 DEF Chat!NoWalk
      <4> QED
        BY <4>1 DEF Walking
    <3>3. DueAt(net.queue[net.loop[c]], c, s) = {}
      BY <3>1 DEF DueAt
    <3>4. DueRun(net, c, s, b, d) /\ d = Len(delivered[s]) /\ a <= joined[c][s]
      BY <2>1, <2>9, <3>2 DEF Chained, Reachable
    <3>5. b = d
      BY <3>3, <3>4, DueOfNone
    <3> QED
      BY <2>4, <2>5, <2>7, <2>9, <3>4, <3>5
  <2> QED
    BY <2>3, <2>5, <2>6, <2>8, <2>9
<1>4. ASSUME program \in {"server", "highperformance"}, NEW c \in Conn, NEW s \in Conn,
             NEW i \in DOMAIN net.output[c], NEW j \in DOMAIN net.output[c],
             NEW u \in DOMAIN net.output[s], NEW v \in DOMAIN net.output[s],
             net.output[c][i] = net.output[s][u], net.output[c][j] = net.output[s][v]
      PROVE  i < j <=> u < v
  <2>1. PICK rank \in [Message -> Nat], top \in Nat :
          \A x \in Conn : InOrder(rank, top, net.output[x], net.queue[net.loop[x]])
    BY <1>4 DEF ChatInv, AllInOrder
  <2>2. PICK o \in Seq(Message), p \in Seq(Message) : o = net.output[c] /\ p = net.output[s]
    BY <1>1 DEF ChatNet
  <2>3. /\ \A x, y \in 1 .. Len(o) : x < y => rank[o[x]] < rank[o[y]]
        /\ \A x, y \in 1 .. Len(p) : x < y => rank[p[x]] < rank[p[y]]
    BY <2>1, <2>2, Zenon DEF InOrder
  <2>4. /\ i \in 1 .. Len(o) /\ j \in 1 .. Len(o) /\ u \in 1 .. Len(p) /\ v \in 1 .. Len(p)
        /\ o[i] = p[u] /\ o[j] = p[v]
    BY <1>2, <1>4, <2>2
  <2>5. PICK ri \in Nat, rj \in Nat : ri = rank[o[i]] /\ rj = rank[o[j]]
    <3>1. o[i] \in Message /\ o[j] \in Message
      BY <2>4
    <3> QED
      BY <3>1
  <2>6. (i < j => ri < rj) /\ (j < i => rj < ri) /\ (u < v => ri < rj) /\ (v < u => rj < ri)
    <3>1. /\ i < j => rank[o[i]] < rank[o[j]]
          /\ j < i => rank[o[j]] < rank[o[i]]
          /\ u < v => rank[p[u]] < rank[p[v]]
          /\ v < u => rank[p[v]] < rank[p[u]]
      BY <2>3, <2>4, Zenon
    <3> QED
      BY <2>4, <2>5, <3>1, Zenon
  <2>7. (i = j => ri = rj) /\ (u = v => ri = rj)
    BY <2>4, <2>5
  <2>8. i \in Int /\ j \in Int /\ u \in Int /\ v \in Int
    BY <2>4
  <2>9. ri < rj <=> i < j
    BY <2>5, <2>6, <2>7, <2>8
  <2>10. ri < rj <=> u < v
    BY <2>5, <2>6, <2>7, <2>8
  <2> QED
    BY <2>9, <2>10
<1> QED
  BY <1>3, <1>4 DEF Chat!BroadcastComplete

--------------------------------------------------------------------------------
ChatRuns == program \in Chat!Programs => ChatInv

LEMMA ChatRunsNext == ChatRuns /\ [Next]_vars => ChatRuns'
<1> SUFFICES ASSUME ChatRuns, [Next]_vars, program' \in Chat!Programs'
    PROVE  ChatInv'
  BY DEF ChatRuns
<1>1. program \in Chat!Programs /\ (Chat!Next \/ UNCHANGED vars)
  <2>1. Chat!Programs' = Chat!Programs
    BY DEF Chat!Programs
  <2>2. \/ UNCHANGED vars
        \/ program \in Chat!Programs /\ Chat!Next
        \/ program' = program /\ program \notin Chat!Programs
    BY DEF Next, Files!Next, Sudoku!Next, Small!Next,
           Chat!Programs, Sudoku!Programs, Files!Programs, Small!Programs
  <2> QED
    BY <2>1, <2>2 DEF vars
<1>2. ChatInv
  BY <1>1 DEF ChatRuns
<1>3. CASE Chat!Next
  BY <1>2, <1>3, ChatStep
<1>4. CASE UNCHANGED vars
  <2>1. UNCHANGED <<program, net, chatVars>>
    BY <1>4 DEF vars
  <2> QED
    BY <1>2, <2>1, ChatStutter
<1> QED
  BY <1>1, <1>3, <1>4

LEMMA ChatRunsProperty == ChatRuns => BroadcastComplete
  BY ChatInvProperty DEF ChatRuns, BroadcastComplete

LEMMA LoopsTyped == OneLoop \in [Conn -> Loop] /\ Loops \in [Conn -> Loop]
<1>1. oneLoop \in Loop
  BY ServersAssumption DEF oneLoop
<1>2. nextLoop \in Loop
  <2>1. \E l \in Loop : l # oneLoop \/ Loop = {oneLoop}
    BY <1>1
  <2> QED
    BY <2>1 DEF nextLoop
<1> QED
  BY <1>1, <1>2 DEF OneLoop, Loops

LEMMA FrameTyped ==
  ASSUME NEW text \in Seq(Int)
  PROVE  Chat!Frame(text) \in Seq(Int)
<1>1. Len(text) \in Nat
  OBVIOUS
<1>2. (Len(text) % 16) \div 4 \in Int /\ Len(text) % 4 \in Int
  BY <1>1
<1>3. Chat!hostToNetwork32(Len(text)) \in Seq(Int)
  BY <1>2 DEF Chat!hostToNetwork32
<1> QED
  BY <1>3 DEF Chat!Frame

LEMMA ChatRunsInit == Init => ChatRuns
<1> SUFFICES ASSUME Init, program \in Chat!Programs PROVE ChatInv
  BY DEF ChatRuns
<1>1. ChatInit /\ Chat!Init
  BY DEF Init, SudokuInit, SolverInit, FilesInit, SmallInit,
         Chat!Programs, Sudoku!Programs, Files!Programs, Small!Programs
<1>2. PICK of2 \in {Chat!Frame(<<21>>) \o Chat!Frame(<<>>),
                    Chat!Frame(<<21>>) \o Chat!Frame(<<22, 22, 22>>),
                    <<3, 3>> \o Chat!Frame(<<21>>)} :
        net = Chat!Network(IF program = "server" THEN OneLoop ELSE Loops,
                           Streams(Chat!Frame(<<11>>) \o Chat!Frame(<<12, 13>>), of2), FALSE)
  BY <1>1 DEF ChatInit
<1>3. of2 \in Seq(Int) /\ Chat!Frame(<<11>>) \o Chat!Frame(<<12, 13>>) \in Seq(Int)
  <2>1. /\ <<21>> \in Seq(Int) /\ <<>> \in Seq(Int) /\ <<22, 22, 22>> \in Seq(Int)
        /\ <<3, 3>> \in Seq(Int) /\ <<11>> \in Seq(Int) /\ <<12, 13>> \in Seq(Int)
    OBVIOUS
  <2>2. /\ Chat!Frame(<<21>>) \in Seq(Int) /\ Chat!Frame(<<>>) \in Seq(Int)
        /\ Chat!Frame(<<22, 22, 22>>) \in Seq(Int)
        /\ Chat!Frame(<<11>>) \in Seq(Int) /\ Chat!Frame(<<12, 13>>) \in Seq(Int)
    BY <2>1, FrameTyped
  <2>3. \A x, y \in Seq(Int) : x \o y \in Seq(Int)
    OBVIOUS
  <2>4. /\ Chat!Frame(<<21>>) \o Chat!Frame(<<>>) \in Seq(Int)
        /\ Chat!Frame(<<21>>) \o Chat!Frame(<<22, 22, 22>>) \in Seq(Int)
        /\ <<3, 3>> \o Chat!Frame(<<21>>) \in Seq(Int)
        /\ Chat!Frame(<<11>>) \o Chat!Frame(<<12, 13>>) \in Seq(Int)
    BY <2>1, <2>2, <2>3, Zenon
  <2> QED
    BY <1>2, <2>4, Zenon
<1>4. PICK loop, stream :
        /\ loop = (IF program = "server" THEN OneLoop ELSE Loops)
        /\ stream = Streams(Chat!Frame(<<11>>) \o Chat!Frame(<<12, 13>>), of2)
  OBVIOUS
<1>5. loop \in [Conn -> Loop] /\ stream \in [Conn -> Seq(Int)]
  BY <1>3, <1>4, LoopsTyped DEF Streams
<1>6. program = "server" => \A c, d \in Conn : loop[c] = loop[d]
  BY <1>4 DEF OneLoop
<1>7. AnyChat
  BY <1>1, <1>2, <1>4, <1>5, <1>6 DEF AnyChat
<1> QED
  BY <1>7, ChatInitially

(* What a connection gets of each sender's messages is a run of them      *)
(* without gap, repetition or change of order that begins with the first  *)
(* one after it was added at the latest and, when nothing is under way,   *)
(* ends with the last; in two of the servers all get all in one order.    *)
THEOREM BroadcastReachesAll == Spec => []BroadcastComplete
<1> QED
  BY ChatRunsInit, ChatRunsNext, ChatRunsProperty, PTL DEF Spec

(* The same, whatever the clients write and wherever they are put.        *)
THEOREM BroadcastReachesAny == AnyChat /\ [][Next]_vars => []BroadcastComplete
<1>1. AnyChat => ChatRuns
  BY ChatInitially DEF ChatRuns
<1> QED
  BY <1>1, ChatRunsNext, ChatRunsProperty, PTL

--------------------------------------------------------------------------------
(***************************************************************************)
(* SmallServers: the answers.  What a connection has been given is fixed   *)
(* by what has been read of it, whatever pieces that came in; the messages *)
(* of chargen are counted as pairs of a connection and a number.           *)
(***************************************************************************)
(***************************************************************************)
(* SmallServers: the answers.  Nothing is queued but the callbacks of      *)
(* chargen.                                                                *)
(***************************************************************************)
Answer ==
  CASE program \in {"echo", "maxconnection"} -> Seq(Int)
    [] program = "finger"  -> {Small!getUser(u) : u \in Seq(Int)}
    [] program = "daytime" -> {[date |-> now]}
    [] program = "time"    -> {Small!hostToNetwork32(Small!toInt(now))}
    [] program = "chargen" -> {Small!message_}
    [] OTHER               -> {}

SmallNet ==
  [loop : [Conn -> Loop], state : [Conn -> States],
   arriving : [Conn -> Seq(Int)], received : [Conn -> Seq(Int)], input : [Conn -> Seq(Int)],
   output : [Conn -> Seq(Answer)], notifies : {program = "chargen"}, unwritten : [Conn -> BOOLEAN],
   queue : [Loop -> Seq(Callback)], reading : [Loop -> {NoConn}]]

SmallTypeOK ==
  /\ program \in Small!Programs
  /\ net \in SmallNet
  /\ now \in Nat /\ rejected \subseteq Conn /\ printed \in Seq(Int)
  /\ transferred \in Nat /\ reported \in Nat
  /\ program # "chargen" => /\ \A c \in Conn : ~net.unwritten[c]
                            /\ \A l \in Loop : net.queue[l] = <<>>

\* A network that differs in what belongs to c only.
OnlyOf(n, c) ==
  /\ n \in SmallNet /\ n.queue = net.queue /\ n.loop = net.loop
  /\ \A d \in Conn : d # c =>
       /\ n.state[d] = net.state[d] /\ n.arriving[d] = net.arriving[d]
       /\ n.received[d] = net.received[d] /\ n.input[d] = net.input[d]
       /\ n.output[d] = net.output[d] /\ n.unwritten[d] = net.unwritten[d]

InState(n, c, s)     == [n EXCEPT !.state[c] = s]
Having(n, c, x)      == [n EXCEPT !.input[c] = x]
Saying(n, c, m, u) == [n EXCEPT !.output[c] = Append(@, m), !.unwritten[c] = u]

LEMMA SmallSetState ==
  ASSUME NEW n, NEW c \in Conn, OnlyOf(n, c), NEW s \in States
  PROVE  LET r == InState(n, c, s)
         IN  /\ OnlyOf(r, c) /\ r.state[c] = s
             /\ r.arriving = n.arriving /\ r.received = n.received /\ r.input = n.input
             /\ r.output = n.output /\ r.unwritten = n.unwritten
<1>1. n \in SmallNet /\ n.state \in [Conn -> States]
  BY DEF OnlyOf, SmallNet
<1>2. PICK t \in [Conn -> States] : t = [n.state EXCEPT ![c] = s]
  BY <1>1
<1>3. PICK r : r = [n EXCEPT !.state = t]
  OBVIOUS
<1>4. /\ r \in SmallNet /\ r.state = t /\ r.queue = n.queue /\ r.loop = n.loop
      /\ r.arriving = n.arriving /\ r.received = n.received /\ r.input = n.input
      /\ r.output = n.output /\ r.unwritten = n.unwritten
  BY <1>1, <1>3 DEF SmallNet
<1>5. r = InState(n, c, s)
  BY <1>1, <1>2, <1>3 DEF SmallNet, InState
<1>6. OnlyOf(r, c) /\ r.state[c] = s
  BY <1>1, <1>2, <1>4 DEF OnlyOf
<1> QED
  BY <1>4, <1>5, <1>6

LEMMA SmallSetOutput ==
  ASSUME NEW n, NEW c \in Conn, OnlyOf(n, c), NEW m \in Answer, NEW u \in BOOLEAN
  PROVE  LET r == Saying(n, c, m, u)
         IN  /\ OnlyOf(r, c) /\ r.output[c] = Append(n.output[c], m) /\ r.unwritten[c] = u
             /\ r.state = n.state
             /\ r.arriving = n.arriving /\ r.received = n.received /\ r.input = n.input
<1>1. n \in SmallNet /\ n.output \in [Conn -> Seq(Answer)] /\ n.unwritten \in [Conn -> BOOLEAN]
  BY DEF OnlyOf, SmallNet
<1>2. PICK t \in [Conn -> Seq(Answer)] : t = [n.output EXCEPT ![c] = Append(@, m)]
  <2>1. PICK V : V = Answer
    OBVIOUS
  <2>2. PICK o : o = n.output
    OBVIOUS
  <2>3. o \in [Conn -> Seq(V)] /\ m \in V
    BY <1>1, <2>1, <2>2
  <2>4. [o EXCEPT ![c] = Append(@, m)] \in [Conn -> Seq(V)]
    BY <2>3
  <2> QED
    BY <2>1, <2>2, <2>4
<1>3. PICK w \in [Conn -> BOOLEAN] : w = [n.unwritten EXCEPT ![c] = u]
  BY <1>1
<1>4. PICK r : r = [n EXCEPT !.output = t, !.unwritten = w]
  OBVIOUS
<1>5. /\ r \in SmallNet /\ r.output = t /\ r.unwritten = w /\ r.queue = n.queue /\ r.loop = n.loop
      /\ r.arriving = n.arriving /\ r.received = n.received /\ r.input = n.input
      /\ r.state = n.state
  BY <1>1, <1>4 DEF SmallNet
<1>6. r = Saying(n, c, m, u)
  BY <1>1, <1>2, <1>3, <1>4 DEF SmallNet, Saying
<1>7. t[c] = Append(n.output[c], m) /\ w[c] = u /\ \A d \in Conn : d # c => t[d] = n.output[d] /\ w[d] = n.unwritten[d]
  BY <1>1, <1>2, <1>3
<1>8. OnlyOf(r, c)
  BY <1>1, <1>5, <1>7 DEF OnlyOf
<1>9. /\ OnlyOf(r, c) /\ r.output[c] = Append(n.output[c], m) /\ r.unwritten[c] = u
      /\ r.state = n.state
      /\ r.arriving = n.arriving /\ r.received = n.received /\ r.input = n.input
  BY <1>5, <1>7, <1>8
<1> QED
  BY <1>6, <1>9, Zenon

LEMMA SmallSetInput ==
  ASSUME NEW n, NEW c \in Conn, OnlyOf(n, c), NEW x \in Seq(Int)
  PROVE  LET r == Having(n, c, x)
         IN  /\ OnlyOf(r, c) /\ r.input[c] = x
             /\ r.arriving = n.arriving /\ r.received = n.received /\ r.state = n.state
             /\ r.output = n.output /\ r.unwritten = n.unwritten
<1>1. n \in SmallNet /\ n.input \in [Conn -> Seq(Int)]
  BY DEF OnlyOf, SmallNet
<1>2. PICK t \in [Conn -> Seq(Int)] : t = [n.input EXCEPT ![c] = x]
  BY <1>1
<1>3. PICK r : r = [n EXCEPT !.input = t]
  OBVIOUS
<1>4. /\ r \in SmallNet /\ r.input = t /\ r.queue = n.queue /\ r.loop = n.loop
      /\ r.arriving = n.arriving /\ r.received = n.received /\ r.state = n.state
      /\ r.output = n.output /\ r.unwritten = n.unwritten
  BY <1>1, <1>3 DEF SmallNet
<1>5. r = Having(n, c, x)
  BY <1>1, <1>2, <1>3 DEF SmallNet, Having
<1>6. OnlyOf(r, c) /\ r.input[c] = x
  BY <1>1, <1>2, <1>4 DEF OnlyOf
<1> QED
  BY <1>4, <1>5, <1>6

\* The calls of a server for c.
Took(n, r, c, m) ==
  /\ OnlyOf(r, c) /\ r.state = n.state
  /\ r.arriving = n.arriving /\ r.received = n.received /\ r.input = n.input
  /\ IF n.state[c] = "connected"
     THEN r.output[c] = Append(n.output[c], m) /\ r.unwritten[c] = (program = "chargen")
     ELSE r.output = n.output /\ r.unwritten = n.unwritten

LEMMA SmallTaken ==
  ASSUME NEW n, NEW c \in Conn, OnlyOf(n, c), NEW m \in Answer
  PROVE  Took(n, Small!Taken(n, c, m), c, m)
<1>1. CASE n.state[c] # "connected"
  BY <1>1 DEF Small!Taken, Small!send, Took
<1>2. CASE n.state[c] = "connected"
  <2>1. n \in SmallNet /\ n.notifies = (program = "chargen")
    BY DEF OnlyOf, SmallNet
  <2>2. PICK u \in BOOLEAN : u = (program = "chargen")
    OBVIOUS
  <2>3. Small!Taken(n, c, m) = [n EXCEPT !.output[c] = Append(@, m), !.unwritten[c] = n.notifies]
    BY <1>2 DEF Small!Taken, Small!send, Small!sendInLoop, Small!Writable
  <2>4. Small!Taken(n, c, m) = Saying(n, c, m, u)
    BY <2>1, <2>2, <2>3, Zenon DEF Saying
  <2>5. PICK r : r = Saying(n, c, m, u)
    OBVIOUS
  <2>6. /\ OnlyOf(r, c) /\ r.output[c] = Append(n.output[c], m) /\ r.unwritten[c] = u
        /\ r.state = n.state
        /\ r.arriving = n.arriving /\ r.received = n.received /\ r.input = n.input
    BY <2>5, SmallSetOutput
  <2> QED
    BY <1>2, <2>2, <2>4, <2>5, <2>6, Zenon DEF Took
<1> QED
  BY <1>1, <1>2

LEMMA SmallShutdown ==
  ASSUME NEW n, NEW c \in Conn, OnlyOf(n, c)
  PROVE  LET r == Small!shutdown(n, c)
         IN  /\ OnlyOf(r, c)
             /\ r.state[c] = IF n.state[c] = "connected" THEN "disconnecting" ELSE n.state[c]
             /\ r.arriving = n.arriving /\ r.received = n.received /\ r.input = n.input
             /\ r.output = n.output /\ r.unwritten = n.unwritten
<1>1. n \in SmallNet /\ n.state \in [Conn -> States]
  BY DEF OnlyOf, SmallNet
<1>2. PICK s \in States : s = IF n.state[c] = "connected" THEN "disconnecting" ELSE n.state[c]
  BY <1>1 DEF States
<1>3. Small!shutdown(n, c) = InState(n, c, s)
  BY <1>1, <1>2 DEF Small!shutdown, InState
<1>4. PICK r : r = InState(n, c, s)
  OBVIOUS
<1>5. /\ OnlyOf(r, c) /\ r.state[c] = s
      /\ r.arriving = n.arriving /\ r.received = n.received /\ r.input = n.input
      /\ r.output = n.output /\ r.unwritten = n.unwritten
  BY <1>4, SmallSetState
<1> QED
  BY <1>2, <1>3, <1>4, <1>5, Zenon

LEMMA SmallConnected ==
  ASSUME net \in SmallNet, NEW c \in Conn
  PROVE  LET r == Small!connected(net, c)
         IN  /\ OnlyOf(r, c) /\ r.state[c] = "connected"
             /\ r.arriving = net.arriving /\ r.received = net.received /\ r.input = net.input
             /\ r.output = net.output /\ r.unwritten = net.unwritten
<1>1. OnlyOf(net, c) /\ "connected" \in States
  BY DEF OnlyOf, States
<1> QED
  BY <1>1, SmallSetState DEF Small!connected, InState

LEMMA SmallDisconnected ==
  ASSUME net \in SmallNet, NEW c \in Conn
  PROVE  LET r == Small!disconnected(net, c)
         IN  /\ OnlyOf(r, c) /\ r.state[c] = "disconnected" /\ r.unwritten[c] = FALSE
             /\ r.arriving = net.arriving /\ r.received = net.received /\ r.input = net.input
             /\ r.output = net.output
<1>1. net.state \in [Conn -> States] /\ net.unwritten \in [Conn -> BOOLEAN] /\ "disconnected" \in States
  BY DEF SmallNet, States
<1>2. PICK t \in [Conn -> States] : t = [net.state EXCEPT ![c] = "disconnected"]
  BY <1>1
<1>3. PICK w \in [Conn -> BOOLEAN] : w = [net.unwritten EXCEPT ![c] = FALSE]
  BY <1>1
<1>4. PICK r : r = [net EXCEPT !.state = t, !.unwritten = w]
  OBVIOUS
<1>5. /\ r \in SmallNet /\ r.state = t /\ r.unwritten = w /\ r.queue = net.queue /\ r.loop = net.loop
      /\ r.arriving = net.arriving /\ r.received = net.received /\ r.input = net.input
      /\ r.output = net.output
  BY <1>4 DEF SmallNet
<1>6. r = Small!disconnected(net, c)
  BY <1>2, <1>3, <1>4 DEF SmallNet, Small!disconnected
<1>7. t[c] = "disconnected" /\ w[c] = FALSE /\ \A d \in Conn : d # c => t[d] = net.state[d] /\ w[d] = net.unwritten[d]
  BY <1>1, <1>2, <1>3
<1>8. OnlyOf(r, c) /\ r.state[c] = "disconnected" /\ r.unwritten[c] = FALSE
  BY <1>5, <1>7 DEF OnlyOf
<1> QED
  BY <1>5, <1>6, <1>8, Zenon

LEMMA SmallRetrieve ==
  ASSUME NEW n, NEW c \in Conn, OnlyOf(n, c), NEW k, Small!EndOf(n.input[c], k) \in Seq(Int)
  PROVE  LET r == Small!retrieve(n, c, k)
         IN  /\ OnlyOf(r, c) /\ r.input[c] = Small!EndOf(n.input[c], k)
             /\ r.arriving = n.arriving /\ r.received = n.received /\ r.state = n.state
             /\ r.output = n.output /\ r.unwritten = n.unwritten
<1>1. n \in SmallNet /\ n.input \in [Conn -> Seq(Int)]
  BY DEF OnlyOf, SmallNet
<1>2. PICK x \in Seq(Int) : x = Small!EndOf(n.input[c], k)
  OBVIOUS
<1>3. Small!retrieve(n, c, k) = Having(n, c, x)
  BY <1>1, <1>2 DEF Small!retrieve, Having
<1>4. PICK r : r = Having(n, c, x)
  OBVIOUS
<1>5. /\ OnlyOf(r, c) /\ r.input[c] = x
      /\ r.arriving = n.arriving /\ r.received = n.received /\ r.state = n.state
      /\ r.output = n.output /\ r.unwritten = n.unwritten
  BY <1>4, SmallSetInput
<1> QED
  BY <1>2, <1>3, <1>4, <1>5, Zenon

LEMMA SmallRetrieveAll ==
  ASSUME NEW n, NEW c \in Conn, OnlyOf(n, c)
  PROVE  LET r == Small!retrieveAll(n, c)
         IN  /\ OnlyOf(r, c) /\ r.input[c] = <<>>
             /\ r.arriving = n.arriving /\ r.received = n.received /\ r.state = n.state
             /\ r.output = n.output /\ r.unwritten = n.unwritten
<1>1. <<>> \in Seq(Int)
  OBVIOUS
<1> QED
  BY <1>1, SmallSetInput DEF Small!retrieveAll, Having

LEMMA SmallArrived ==
  ASSUME net \in SmallNet, NEW c \in Conn, NEW k \in 1 .. Len(net.arriving[c])
  PROVE  LET r == Small!arrived(net, c, k)
             b == SubSeq(net.arriving[c], 1, k)
         IN  /\ OnlyOf(r, c) /\ r.state = net.state
             /\ r.output = net.output /\ r.unwritten = net.unwritten
             /\ r.arriving[c] = Small!EndOf(net.arriving[c], k)
             /\ r.input[c] = net.input[c] \o b /\ r.received[c] = net.received[c] \o b
<1>1. /\ net.arriving \in [Conn -> Seq(Int)] /\ net.input \in [Conn -> Seq(Int)]
      /\ net.received \in [Conn -> Seq(Int)] /\ k \in Nat
  BY DEF SmallNet
<1>2. PICK a \in Seq(Int) : a = net.arriving[c]
  BY <1>1
<1>3. PICK b \in Seq(Int) : b = SubSeq(a, 1, k)
  <2>1. SubSeq(a, 1, k) \in Seq(Int)
    BY <1>1, <1>2
  <2> QED
    BY <2>1
<1>4. PICK e \in Seq(Int) : e = Small!EndOf(a, k)
  <2>1. Small!EndOf(a, k) \in Seq(Int)
    BY <1>1, <1>2 DEF Small!EndOf
  <2> QED
    BY <2>1
<1>5. PICK arriving \in [Conn -> Seq(Int)] : arriving = [net.arriving EXCEPT ![c] = e]
  BY <1>1, <1>4
<1>6. PICK x \in Seq(Int), y \in Seq(Int) : x = net.input[c] \o b /\ y = net.received[c] \o b
  <2>1. net.input[c] \o b \in Seq(Int) /\ net.received[c] \o b \in Seq(Int)
    BY <1>1, <1>3
  <2> QED
    BY <2>1
<1>7. PICK input \in [Conn -> Seq(Int)], received \in [Conn -> Seq(Int)] :
        input = [net.input EXCEPT ![c] = x] /\ received = [net.received EXCEPT ![c] = y]
  BY <1>1, <1>6
<1>8. PICK r : r = [net EXCEPT !.arriving = arriving, !.input = input, !.received = received]
  OBVIOUS
<1>9. /\ r \in SmallNet /\ r.arriving = arriving /\ r.input = input /\ r.received = received
      /\ r.state = net.state /\ r.output = net.output /\ r.unwritten = net.unwritten
      /\ r.queue = net.queue /\ r.loop = net.loop
  BY <1>8 DEF SmallNet
<1>10. r = Small!arrived(net, c, k)
  BY <1>2, <1>3, <1>4, <1>5, <1>6, <1>7, <1>8 DEF SmallNet, Small!arrived
<1>11. /\ arriving[c] = e /\ input[c] = x /\ received[c] = y
       /\ \A d \in Conn : d # c => /\ arriving[d] = net.arriving[d] /\ input[d] = net.input[d]
                                   /\ received[d] = net.received[d]
  BY <1>1, <1>5, <1>7
<1>12. OnlyOf(r, c)
  BY <1>9, <1>11 DEF OnlyOf
<1>13. /\ r.arriving[c] = Small!EndOf(net.arriving[c], k)
       /\ r.input[c] = net.input[c] \o SubSeq(net.arriving[c], 1, k)
       /\ r.received[c] = net.received[c] \o SubSeq(net.arriving[c], 1, k)
  BY <1>2, <1>3, <1>4, <1>6, <1>9, <1>11, Zenon
<1> QED
  BY <1>9, <1>10, <1>12, <1>13, Zenon

\* What each connection has been given, and what else the programs rely on.
EchoStands(c) ==
  /\ net.input[c] = <<>>
  /\ net.state[c] = "idle" => c \notin rejected /\ net.output[c] = <<>>
  /\ IF c \in rejected THEN net.output[c] = <<>> /\ net.state[c] # "connected"
     ELSE /\ Small!Flattened(net.output[c]) = net.received[c]
          /\ net.state[c] \notin {"disconnecting", "shut"}

FingerStands(c) ==
  IF Small!CRLFs(net.received[c]) = {}
  THEN /\ net.output[c] = <<>> /\ net.input[c] = net.received[c]
       /\ net.state[c] \notin {"disconnecting", "shut"}
  ELSE /\ net.output[c] = <<Small!getUser(Small!FirstLine(net.received[c]))>>
       /\ net.state[c] \notin {"idle", "connected"}

DiscardStands(c) == net.output[c] = <<>> /\ net.input[c] = <<>>

GreetedStands(c) ==
  /\ net.output[c] = IF net.state[c] = "idle" THEN <<>> ELSE <<CHOOSE m \in Answer : TRUE>>
  /\ net.state[c] # "connected"

\* One client, whose peer sends the time.
TimeSent == Small!hostToNetwork32(Small!toInt(now))
ClientStands(c) ==
  IF c = oneConn
  THEN /\ net.received[c] \o net.arriving[c] = TimeSent
       /\ IF Len(net.received[c]) = 2 THEN printed = <<Small!networkToHost32(TimeSent)>>
          ELSE printed = <<>> /\ net.input[c] = net.received[c]
  ELSE net.arriving[c] = <<>> /\ net.received[c] = <<>>

Standing(c) ==
  /\ program \in {"echo", "maxconnection"} => EchoStands(c)
  /\ program = "finger" => FingerStands(c)
  /\ program = "discard" => DiscardStands(c)
  /\ program \in {"daytime", "time"} => GreetedStands(c)
  /\ program = "timeclient" => ClientStands(c)

\* The messages of chargen but the first of each connection.
Further(output) == {p \in Conn \X Nat : p[2] \in 2 .. Len(output[p[1]])}
Written(output) == {c \in Conn : output[c] # <<>>}

Flows ==
  /\ \A c \in Conn : /\ net.state[c] = "connected" => net.unwritten[c] \/ Waits(net.queue, c)
                     /\ net.state[c] = "idle" => net.output[c] = <<>>
  /\ IsFiniteSet(Written(net.output)) /\ IsFiniteSet(Further(net.output))
  /\ Cardinality(Further(net.output)) <= reported + transferred

SmallInv ==
  /\ SmallTypeOK
  /\ \A c \in Conn : Standing(c)
  /\ program = "chargen" => Flows

\* A step that leaves what belongs to a connection alone.
Spared(c) ==
  /\ net'.state[c] = net.state[c] /\ net'.arriving[c] = net.arriving[c]
  /\ net'.received[c] = net.received[c] /\ net'.input[c] = net.input[c]
  /\ net'.output[c] = net.output[c]
  /\ c \in rejected' <=> c \in rejected
  /\ program' = program /\ now' = now
  /\ c = oneConn => printed' = printed

LEMMA SparedStands ==
  ASSUME NEW c \in Conn, Spared(c), Standing(c)
  PROVE  Standing(c)'
<1>1. Answer' = Answer /\ TimeSent' = TimeSent
  BY DEF Spared, Answer, TimeSent
<1>2. (program \in {"echo", "maxconnection"} => EchoStands(c))'
  BY DEF Spared, Standing, EchoStands
<1>3. (program = "finger" => FingerStands(c))'
  BY DEF Spared, Standing, FingerStands
<1>4. (program = "discard" => DiscardStands(c))'
  BY DEF Spared, Standing, DiscardStands
<1>5. (program \in {"daytime", "time"} => GreetedStands(c))'
  BY <1>1 DEF Spared, Standing, GreetedStands
<1>6. (program = "timeclient" => ClientStands(c))'
  BY <1>1 DEF Spared, Standing, ClientStands
<1> QED
  BY <1>2, <1>3, <1>4, <1>5, <1>6 DEF Standing

LEMMA SmallUpIs ==
  ASSUME SmallTypeOK, NEW c \in Conn, Small!onConnectionUp(c)
  PROVE  /\ OnlyOf(net', c) /\ net.state[c] = "idle"
         /\ net'.arriving = net.arriving /\ net'.received = net.received /\ net'.input = net.input
         /\ IF program \in {"daytime", "time", "chargen"}
            THEN /\ net'.output[c] = Append(net.output[c], CHOOSE m \in Answer : TRUE)
                 /\ net'.unwritten[c] = (program = "chargen")
            ELSE net'.output = net.output /\ net'.unwritten = net.unwritten
         /\ net'.state[c] = IF \/ program \in {"daytime", "time"}
                               \/ program = "maxconnection" /\ numConnected + 1 > kMaxConnections
                            THEN "disconnecting" ELSE "connected"
<1>1. net \in SmallNet /\ net.state[c] = "idle" /\ net' = Small!Greeted(Small!connected(net, c), c)
  BY DEF SmallTypeOK, Small!onConnectionUp, Small!MayConnect
<1>2. PICK n : n = Small!connected(net, c)
  OBVIOUS
<1>3. /\ OnlyOf(n, c) /\ n.state[c] = "connected"
      /\ n.arriving = net.arriving /\ n.received = net.received /\ n.input = net.input
      /\ n.output = net.output /\ n.unwritten = net.unwritten
  BY <1>1, <1>2, SmallConnected, Zenon
<1>4. CASE program \in {"daytime", "time", "chargen"}
  <2>1. PICK m : m = IF program = "daytime" THEN [date |-> now]
                     ELSE IF program = "time" THEN Small!hostToNetwork32(Small!toInt(now))
                     ELSE Small!message_
    OBVIOUS
  <2>2. Answer = {m}
    BY <1>4, <2>1 DEF Answer
  <2>3. m \in Answer /\ (CHOOSE x \in Answer : TRUE) = m
    BY <2>2
  <2>4. PICK r : r = Small!Taken(n, c, m)
    OBVIOUS
  <2>5. /\ OnlyOf(r, c) /\ r.state = n.state
        /\ r.arriving = n.arriving /\ r.received = n.received /\ r.input = n.input
        /\ r.output[c] = Append(n.output[c], m) /\ r.unwritten[c] = (program = "chargen")
    <3>1. Took(n, r, c, m)
      BY <1>3, <2>3, <2>4, SmallTaken
    <3> QED
      BY <1>3, <3>1, Zenon DEF Took
  <2>6. PICK s : s = Small!shutdown(r, c)
    OBVIOUS
  <2>7. /\ OnlyOf(s, c) /\ s.state[c] = "disconnecting"
        /\ s.arriving = r.arriving /\ s.received = r.received /\ s.input = r.input
        /\ s.output = r.output /\ s.unwritten = r.unwritten
    BY <1>3, <2>5, <2>6, SmallShutdown
  <2>8. net' = IF program = "chargen" THEN r ELSE s
    BY <1>1, <1>2, <1>4, <2>1, <2>4, <2>6 DEF Small!Greeted
  <2>9. CASE program = "chargen"
    BY <1>1, <1>3, <2>3, <2>5, <2>8, <2>9
  <2>10. CASE program # "chargen"
    BY <1>1, <1>3, <1>4, <2>3, <2>5, <2>7, <2>8, <2>10
  <2> QED
    BY <2>9, <2>10
<1>5. CASE program \notin {"daytime", "time", "chargen"}
  <2>1. PICK s : s = Small!shutdown(n, c)
    OBVIOUS
  <2>2. /\ OnlyOf(s, c) /\ s.state[c] = "disconnecting"
        /\ s.arriving = n.arriving /\ s.received = n.received /\ s.input = n.input
        /\ s.output = n.output /\ s.unwritten = n.unwritten
    BY <1>3, <2>1, SmallShutdown
  <2>3. net' = IF program = "maxconnection" /\ numConnected + 1 > kMaxConnections THEN s ELSE n
    BY <1>1, <1>2, <1>5, <2>1 DEF Small!Greeted
  <2> QED
    BY <1>1, <1>3, <1>5, <2>2, <2>3
<1> QED
  BY <1>4, <1>5

\* The steps of one connection spare the others.
LEMMA OthersSpared ==
  ASSUME NEW c \in Conn, OnlyOf(net', c), UNCHANGED <<program, now>>,
         \A d \in Conn : d # c => (d \in rejected' <=> d \in rejected),
         printed' = printed \/ c = oneConn
  PROVE  \A d \in Conn : d # c => Spared(d)
  BY DEF OnlyOf, Spared

\* SmallNet is the same set from step to step.
LEMMA SameSmallNet ==
  ASSUME UNCHANGED <<program, now>>
  PROVE  SmallNet' = SmallNet /\ Answer' = Answer
<1>1. Answer' = Answer
  BY DEF Answer
<1> QED
  BY <1>1 DEF SmallNet

\* Flattened: f has the concatenation of the first i sequences of x at i.
Joins(f, x, n) == \A i \in 0 .. n : f[i] = IF i = 0 THEN <<>> ELSE f[i - 1] \o x[i]

LEMMA JoinsOnce ==
  ASSUME NEW f, NEW g, NEW x, NEW y, NEW n \in Nat, Joins(f, x, n), Joins(g, y, n),
         \A i \in 1 .. n : x[i] = y[i]
  PROVE  f[n] = g[n]
<1> DEFINE K == {k \in Nat : k <= n => f[k] = g[k]}
<1>1. 0 \in K
  BY DEF Joins
<1>2. ASSUME NEW k \in Nat, k \in K PROVE k + 1 \in K
  <2> SUFFICES ASSUME k + 1 <= n PROVE f[k + 1] = g[k + 1]
    OBVIOUS
  <2>1. k + 1 \in 0 .. n /\ k + 1 # 0 /\ (k + 1) - 1 = k /\ k + 1 \in 1 .. n /\ k <= n
    OBVIOUS
  <2>2. f[k + 1] = f[k] \o x[k + 1] /\ g[k + 1] = g[k] \o y[k + 1]
    <3>1. PICK j : j = k + 1
      OBVIOUS
    <3>2. j \in 0 .. n /\ j # 0 /\ j - 1 = k
      BY <2>1, <3>1
    <3>3. f[j] = f[j - 1] \o x[j] /\ g[j] = g[j - 1] \o y[j]
      BY <3>2, Zenon DEF Joins
    <3> QED
      BY <3>1, <3>2, <3>3
  <2>3. f[k] = g[k] /\ x[k + 1] = y[k + 1]
    BY <1>2, <2>1
  <2> QED
    BY <2>2, <2>3
<1> HIDE DEF K
<1>3. n \in K
  BY <1>1, <1>2, NatSetInduction
<1> QED
  BY <1>3 DEF K

LEMMA JoinsExist ==
  ASSUME NEW x \in Seq(Seq(Int))
  PROVE  \E f \in [0 .. Len(x) -> Seq(Int)] : Joins(f, x, Len(x))
<1> DEFINE K == {n \in Nat : n <= Len(x) => \E f \in [0 .. n -> Seq(Int)] : Joins(f, x, n)}
<1>1. 0 \in K
  <2>1. [i \in 0 .. 0 |-> <<>>] \in [0 .. 0 -> Seq(Int)] /\ Joins([i \in 0 .. 0 |-> <<>>], x, 0)
    BY DEF Joins
  <2> QED
    BY <2>1
<1>2. ASSUME NEW n \in Nat, n \in K PROVE n + 1 \in K
  <2> SUFFICES ASSUME n + 1 <= Len(x)
               PROVE  \E f \in [0 .. n + 1 -> Seq(Int)] : Joins(f, x, n + 1)
    OBVIOUS
  <2>1. PICK f \in [0 .. n -> Seq(Int)] : Joins(f, x, n)
    BY <1>2
  <2>2. PICK y \in Seq(Int) : y = f[n] \o x[n + 1]
    <3>1. f[n] \in Seq(Int) /\ x[n + 1] \in Seq(Int)
      OBVIOUS
    <3>2. f[n] \o x[n + 1] \in Seq(Int)
      BY <3>1
    <3> QED
      BY <3>2
  <2>3. PICK g : g = [i \in 0 .. n + 1 |-> IF i = n + 1 THEN y ELSE f[i]]
    OBVIOUS
  <2>4. g \in [0 .. n + 1 -> Seq(Int)] /\ g[n + 1] = y /\ \A i \in 0 .. n : g[i] = f[i]
    BY <2>3
  <2>5. ASSUME NEW i \in 0 .. n + 1 PROVE g[i] = IF i = 0 THEN <<>> ELSE g[i - 1] \o x[i]
    <3>1. CASE i = n + 1
      <4>1. i # 0 /\ i - 1 = n /\ g[i - 1] = f[n]
        BY <2>4, <3>1
      <4> QED
        BY <2>2, <2>4, <3>1, <4>1
    <3>2. CASE i # n + 1
      <4>1. i \in 0 .. n /\ (i # 0 => i - 1 \in 0 .. n)
        BY <3>2
      <4>2. g[i] = f[i] /\ (i # 0 => g[i - 1] = f[i - 1])
        BY <2>4, <4>1
      <4>3. f[i] = IF i = 0 THEN <<>> ELSE f[i - 1] \o x[i]
        BY <2>1, <4>1, Zenon DEF Joins
      <4> QED
        BY <4>2, <4>3
    <3> QED
      BY <3>1, <3>2
  <2>6. Joins(g, x, n + 1)
    BY <2>5, Zenon DEF Joins
  <2> QED
    BY <2>4, <2>6
<1> HIDE DEF K
<1>3. Len(x) \in K
  <2>1. Len(x) \in Nat
    OBVIOUS
  <2>2. Nat \subseteq K
    BY <1>1, <1>2, NatSetInduction
  <2> QED
    BY <2>1, <2>2
<1> QED
  BY <1>3 DEF K

LEMMA FlattenedIs ==
  ASSUME NEW x \in Seq(Seq(Int)), NEW f, Joins(f, x, Len(x))
  PROVE  Small!Flattened(x) = f[Len(x)]
<1> DEFINE Solves(g) == g = [i \in 0 .. Len(x) |-> IF i = 0 THEN <<>> ELSE g[i - 1] \o x[i]]
           g == CHOOSE g : Solves(g)
<1>1. Small!Flattened(x) = g[Len(x)]
  BY DEF Small!Flattened
<1>2. Solves(g)
  <2>1. PICK h \in [0 .. Len(x) -> Seq(Int)] : Joins(h, x, Len(x))
    BY JoinsExist
  <2>2. h = [i \in 0 .. Len(x) |-> h[i]]
    BY <2>1
  <2>3. Solves(h)
    BY <2>1, <2>2 DEF Joins
  <2> HIDE DEF Solves
  <2> QED
    BY <2>3
<1>3. Joins(g, x, Len(x))
  <2> HIDE DEF g
  <2> QED
    BY <1>2 DEF Joins
<1> HIDE DEF g
<1>4. Len(x) \in Nat
  OBVIOUS
<1> QED
  BY <1>1, <1>3, <1>4, JoinsOnce

LEMMA FlattenedAppend ==
  ASSUME NEW x \in Seq(Seq(Int)), NEW y \in Seq(Int)
  PROVE  Small!Flattened(Append(x, y)) = Small!Flattened(x) \o y
<1>1. PICK z \in Seq(Seq(Int)) : z = Append(x, y)
  <2>1. PICK V : V = Seq(Int)
    OBVIOUS
  <2>2. Append(x, y) \in Seq(V)
    BY <2>1
  <2> QED
    BY <2>1, <2>2, Zenon
<1>2. Len(z) = Len(x) + 1 /\ z[Len(z)] = y /\ (\A i \in 1 .. Len(x) : z[i] = x[i]) /\ Len(x) \in Nat
  BY <1>1
<1>3. PICK f \in [0 .. Len(z) -> Seq(Int)] : Joins(f, z, Len(z))
  BY JoinsExist
<1>4. PICK g \in [0 .. Len(x) -> Seq(Int)] : Joins(g, x, Len(x))
  BY JoinsExist
<1>5. Joins(f, z, Len(x))
  <2>1. 0 .. Len(x) \subseteq 0 .. Len(z)
    BY <1>2
  <2> QED
    BY <1>3, <2>1, Zenon DEF Joins
<1>6. f[Len(x)] = g[Len(x)]
  BY <1>2, <1>4, <1>5, JoinsOnce
<1>7. f[Len(z)] = f[Len(x)] \o y
  <2>1. PICK k : k = Len(z)
    OBVIOUS
  <2>2. k \in 0 .. Len(z) /\ k # 0 /\ k - 1 = Len(x)
    BY <1>2, <2>1
  <2>3. f[k] = f[k - 1] \o z[k]
    BY <1>3, <2>2, Zenon DEF Joins
  <2> QED
    BY <1>2, <2>1, <2>2, <2>3
<1>8. Small!Flattened(z) = f[Len(z)] /\ Small!Flattened(x) = g[Len(x)]
  BY <1>3, <1>4, FlattenedIs
<1> QED
  BY <1>1, <1>6, <1>7, <1>8

LEMMA FlattenedNone == Small!Flattened(<<>>) = <<>>
<1>1. PICK x \in Seq(Seq(Int)) : x = <<>> /\ Len(x) = 0
  <2>1. <<>> \in Seq(Seq(Int)) /\ Len(<<>>) = 0
    OBVIOUS
  <2> QED
    BY <2>1, Zenon
<1>2. Joins([i \in 0 .. 0 |-> <<>>], x, Len(x))
  BY <1>1 DEF Joins
<1>3. Small!Flattened(x) = [i \in 0 .. 0 |-> <<>>][Len(x)]
  BY <1>2, FlattenedIs
<1> QED
  BY <1>1, <1>3

LEMMA MinIs ==
  ASSUME NEW S, S \subseteq Nat, S # {}
  PROVE  Small!Min(S) \in S /\ \A y \in S : Small!Min(S) <= y
<1>1. \E m \in S : \A y \in S : ~(y < m)
  <2>1. PICK m \in S : \A y \in S : ~(<<y, m>> \in OpToRel(<, Nat))
    BY NatLessThanWellFounded, WFMin, Zenon
  <2>2. m \in Nat /\ \A y \in S : y \in Nat
    OBVIOUS
  <2> QED
    BY <2>1, <2>2, Zenon DEF OpToRel
<1>2. \E m \in S : \A y \in S : m <= y
  BY <1>1
<1> QED
  BY <1>2 DEF Small!Min

\* The first line of a text that has one stays what it is as more comes in.
LEMMA FirstLineIs ==
  ASSUME NEW x \in Seq(Int), Small!CRLFs(x) # {}
  PROVE  \E m \in 1 .. Len(x) - 1 :
           /\ m \in Small!CRLFs(x) /\ \A y \in Small!CRLFs(x) : m <= y
           /\ Small!Min(Small!CRLFs(x)) = m /\ Small!FirstLine(x) = SubSeq(x, 1, m - 1)
           /\ Len(Small!FirstLine(x)) = m - 1
<1>1. PICK C : C = Small!CRLFs(x)
  OBVIOUS
<1>2. C \subseteq 1 .. Len(x) - 1 /\ Len(x) \in Nat
  BY <1>1 DEF Small!CRLFs
<1>3. PICK m : m = Small!Min(C)
  OBVIOUS
<1>4. m \in C /\ \A y \in C : m <= y
  BY <1>1, <1>2, <1>3, MinIs
<1>5. m \in 1 .. Len(x) - 1
  BY <1>2, <1>4
<1>6. Small!FirstLine(x) = SubSeq(x, 1, m - 1)
  BY <1>1, <1>3 DEF Small!FirstLine
<1>7. Len(SubSeq(x, 1, m - 1)) = m - 1
  BY <1>2, <1>5
<1> QED
  BY <1>1, <1>3, <1>4, <1>5, <1>6, <1>7

LEMMA FirstLineStays ==
  ASSUME NEW x \in Seq(Int), NEW b \in Seq(Int), Small!CRLFs(x) # {}
  PROVE  Small!CRLFs(x \o b) # {} /\ Small!FirstLine(x \o b) = Small!FirstLine(x)
<1>1. PICK m \in 1 .. Len(x) - 1 :
        /\ m \in Small!CRLFs(x) /\ \A y \in Small!CRLFs(x) : m <= y
        /\ Small!Min(Small!CRLFs(x)) = m /\ Small!FirstLine(x) = SubSeq(x, 1, m - 1)
  BY FirstLineIs
<1>2. PICK z \in Seq(Int) : z = x \o b
  <2>1. x \o b \in Seq(Int)
    OBVIOUS
  <2> QED
    BY <2>1
<1>l. Len(x) \in Nat /\ Len(z) \in Nat /\ Len(z) >= Len(x)
  BY <1>2
<1>3. \A i \in 1 .. Len(x) : z[i] = x[i]
  BY <1>2
<1>c. \A i \in 1 .. Len(x) - 1 : i \in Small!CRLFs(z) <=> i \in Small!CRLFs(x)
  <2>1. ASSUME NEW i \in 1 .. Len(x) - 1
        PROVE  i \in 1 .. Len(z) - 1 /\ z[i] = x[i] /\ z[i + 1] = x[i + 1]
    <3>1. i \in 1 .. Len(x) /\ i + 1 \in 1 .. Len(x) /\ i \in 1 .. Len(z) - 1
      BY <1>l
    <3> QED
      BY <1>3, <3>1
  <2> QED
    BY <2>1 DEF Small!CRLFs
<1>4. m \in Small!CRLFs(z)
  BY <1>1, <1>c
<1>5. ASSUME NEW y \in Small!CRLFs(z) PROVE m <= y
  <2>1. CASE y < Len(x)
    <3>1. y \in 1 .. Len(x) - 1
      BY <1>l, <2>1 DEF Small!CRLFs
    <3> QED
      BY <1>1, <1>c, <3>1
  <2>2. CASE ~(y < Len(x))
    BY <1>1, <1>l, <2>2 DEF Small!CRLFs
  <2> QED
    BY <2>1, <2>2
<1>6. PICK k \in 1 .. Len(z) - 1 :
        /\ k \in Small!CRLFs(z) /\ \A y \in Small!CRLFs(z) : k <= y
        /\ Small!FirstLine(z) = SubSeq(z, 1, k - 1)
  BY <1>4, FirstLineIs
<1>7. k = m
  <2>1. k <= m /\ m <= k
    BY <1>4, <1>5, <1>6
  <2> QED
    BY <1>1, <1>6, <2>1
<1>8. SubSeq(z, 1, m - 1) = SubSeq(x, 1, m - 1)
  <2>1. m - 1 \in 0 .. Len(x) /\ m - 1 \in 0 .. Len(z)
    BY <1>l
  <2>2. PICK j \in Nat : j = m - 1 /\ j <= Len(x) /\ j <= Len(z)
    BY <2>1
  <2>3. SubSeq(z, 1, j) = [i \in 1 .. j |-> z[i]] /\ SubSeq(x, 1, j) = [i \in 1 .. j |-> x[i]]
    BY <1>l, <2>2
  <2>4. \A i \in 1 .. j : z[i] = x[i]
    BY <1>3, <1>l, <2>2
  <2> QED
    BY <2>2, <2>3, <2>4
<1> QED
  BY <1>1, <1>2, <1>4, <1>6, <1>7, <1>8

LEMMA UserIsAnswer ==
  ASSUME program = "finger", NEW x \in Seq(Int), Small!CRLFs(x) # {}
  PROVE  Small!getUser(Small!FirstLine(x)) \in Answer
<1>1. PICK m \in 1 .. Len(x) - 1 : Small!FirstLine(x) = SubSeq(x, 1, m - 1)
  BY FirstLineIs
<1>2. SubSeq(x, 1, m - 1) \in Seq(Int)
  <2>1. Len(x) \in Nat /\ m - 1 \in Nat /\ m - 1 <= Len(x)
    OBVIOUS
  <2> QED
    BY <2>1
<1> QED
  BY <1>1, <1>2 DEF Answer

LEMMA EndTyped ==
  ASSUME NEW x \in Seq(Int), NEW k \in Nat
  PROVE  Small!EndOf(x, k) \in Seq(Int)
<1>1. Len(x) \in Nat /\ \A i \in 1 .. Len(x) : x[i] \in Int
  OBVIOUS
<1> QED
  BY <1>1 DEF Small!EndOf

\* The second of two texts follows the first.
LEMMA SecondPart ==
  ASSUME NEW a \in Seq(Int), NEW b \in Seq(Int), NEW i \in Int, Len(a) < i, i <= Len(a) + Len(b)
  PROVE  (a \o b)[i] = b[i - Len(a)]
<1>1. PICK m \in Nat, n \in Nat : m = Len(a) /\ n = Len(b)
  OBVIOUS
<1>2. m < i /\ i <= m + n
  BY <1>1
<1>3. (a \o b)[i] = b[i - m]
  BY <1>1, <1>2
<1> QED
  BY <1>1, <1>3

\* What has come in and what is still to come are together what was sent.
LEMMA SplitIs ==
  ASSUME NEW x \in Seq(Int), NEW k \in 0 .. Len(x)
  PROVE  SubSeq(x, 1, k) \o Small!EndOf(x, k) = x
<1>1. Len(x) \in Nat /\ k \in Nat
  OBVIOUS
<1>2. PICK a \in Seq(Int) : a = SubSeq(x, 1, k)
  <2>1. SubSeq(x, 1, k) \in Seq(Int)
    BY <1>1
  <2> QED
    BY <2>1
<1>3. PICK b \in Seq(Int) : b = Small!EndOf(x, k)
  <2>1. Small!EndOf(x, k) \in Seq(Int)
    BY <1>1 DEF Small!EndOf
  <2> QED
    BY <2>1
<1>4. Len(a) = k /\ \A i \in 1 .. k : a[i] = x[i]
  BY <1>1, <1>2
<1>5. Len(b) = Len(x) - k /\ \A i \in 1 .. Len(x) - k : b[i] = x[i + k]
  <2>1. PICK n \in Nat : n = Len(x)
    OBVIOUS
  <2>2. b = SubSeq(x, k + 1, n)
    BY <1>3, <2>1 DEF Small!EndOf
  <2>3. Len(b) = n - k
    BY <1>1, <2>1, <2>2
  <2>4. ASSUME NEW i \in 1 .. n - k PROVE b[i] = x[i + k]
    BY <1>1, <2>1, <2>2
  <2> QED
    BY <2>1, <2>3, <2>4
<1>6. PICK y \in Seq(Int) : y = a \o b
  <2>1. a \o b \in Seq(Int)
    OBVIOUS
  <2> QED
    BY <2>1
<1>7. Len(y) = Len(x)
  <2>1. Len(y) = Len(a) + Len(b)
    BY <1>6
  <2> QED
    BY <1>1, <1>4, <1>5, <2>1
<1>8. ASSUME NEW i \in 1 .. Len(x) PROVE y[i] = x[i]
  <2>1. CASE i <= k
    BY <1>1, <1>4, <1>6, <2>1
  <2>2. CASE ~(i <= k)
    <3>1. i - k \in 1 .. Len(x) - k /\ (i - k) + k = i
      BY <1>1, <2>2
    <3>2. y[i] = b[i - k]
      <4>1. Len(a) = k /\ i > Len(a) /\ i <= Len(a) + Len(b) /\ i \in Int
        BY <1>1, <1>4, <1>5, <2>2
      <4>2. (a \o b)[i] = b[i - Len(a)]
        <5>1. Len(a) < i /\ i <= Len(a) + Len(b)
          BY <4>1
        <5> QED
          BY <4>1, <5>1, SecondPart
      <4> QED
        BY <1>6, <4>1, <4>2
    <3> QED
      BY <1>5, <3>1, <3>2
  <2> QED
    BY <2>1, <2>2
<1>9. y = x
  BY <1>7, <1>8, SeqEqual
<1> QED
  BY <1>2, <1>3, <1>6, <1>9

\* The time that is sent is the one that is printed.
LEMMA TimeIs ==
  ASSUME now \in Nat
  PROVE  /\ TimeSent \in Seq(Int) /\ Len(TimeSent) = 2
         /\ Small!networkToHost32(TimeSent) = Small!toInt(now)
         /\ Small!toInt(now) \in Int
<1>1. PICK i \in -8 .. 7 : i = Small!toInt(now)
  <2>1. Small!toInt(now) \in -8 .. 7
    BY DEF Small!toInt
  <2> QED
    BY <2>1
<1>2. PICK j \in 0 .. 15 : j = i % 16 /\ j = IF i >= 0 THEN i ELSE i + 16
  <2>1. i % 16 \in 0 .. 15 /\ i % 16 = IF i >= 0 THEN i ELSE i + 16
    BY <1>1
  <2> QED
    BY <2>1
<1>3. PICK h \in Int, l \in Int : h = j \div 4 /\ l = i % 4
  <2>1. j \div 4 \in Int /\ i % 4 \in Int
    BY <1>1, <1>2
  <2> QED
    BY <2>1
<1>4. h * 4 + l = j
  BY <1>1, <1>2, <1>3
<1>5. TimeSent = <<h, l>>
  BY <1>1, <1>2, <1>3 DEF TimeSent, Small!hostToNetwork32
<1>6. Small!networkToHost32(<<h, l>>) = IF j < 8 THEN j ELSE j - 16
  BY <1>4 DEF Small!networkToHost32
<1>7. (IF j < 8 THEN j ELSE j - 16) = i
  BY <1>1, <1>2
<1> QED
  BY <1>1, <1>5, <1>6, <1>7

LEMMA OneMoves ==
  ASSUME SmallInv, NEW c \in Conn, OnlyOf(net', c), UNCHANGED <<program, now>>,
         rejected' \subseteq Conn, \A d \in Conn : d # c => (d \in rejected' <=> d \in rejected),
         printed' \in Seq(Int), printed' = printed \/ c = oneConn,
         transferred' \in Nat, reported' \in Nat,
         program # "chargen" => ~net'.unwritten[c],
         Standing(c)', program = "chargen" => Flows'
  PROVE  SmallInv'
<1>1. SmallTypeOK /\ net' \in SmallNet /\ net'.queue = net.queue
  BY DEF SmallInv, OnlyOf
<1>2. program # "chargen" => /\ \A d \in Conn : ~net'.unwritten[d]
                             /\ \A l \in Loop : net'.queue[l] = <<>>
  <2>1. \A d \in Conn : d # c => net'.unwritten[d] = net.unwritten[d]
    BY DEF OnlyOf
  <2> QED
    BY <1>1, <2>1 DEF SmallTypeOK
<1>3. SmallTypeOK'
  BY <1>1, <1>2, SameSmallNet DEF SmallTypeOK
<1>4. ASSUME NEW d \in Conn PROVE Standing(d)'
  <2>1. CASE d = c
    BY <2>1
  <2>2. CASE d # c
    <3>1. Spared(d)
      BY <2>2, OthersSpared
    <3> QED
      BY <3>1, SparedStands DEF SmallInv
  <2> QED
    BY <2>1, <2>2
<1> QED
  BY <1>3, <1>4 DEF SmallInv

\* What the counts of chargen are of does not change with the sends.
LEMMA FurtherStays ==
  ASSUME SmallInv, program = "chargen", NEW c \in Conn, OnlyOf(net', c),
         reported' + transferred' = reported + transferred,
         net'.output[c] = net.output[c] \/ (net.output[c] = <<>> /\ Len(net'.output[c]) = 1)
  PROVE  /\ IsFiniteSet(Written(net'.output)) /\ IsFiniteSet(Further(net'.output))
         /\ Further(net'.output) = Further(net.output)
         /\ Cardinality(Further(net'.output)) <= reported' + transferred'
<1>1. Flows
  BY DEF SmallInv
<1>2. \A d \in Conn : d # c => net'.output[d] = net.output[d]
  BY DEF OnlyOf
<1>3. Written(net'.output) \subseteq Written(net.output) \cup {c}
  BY <1>2 DEF Written
<1>4. IsFiniteSet(Written(net.output) \cup {c})
  BY <1>1, FS_AddElement DEF Flows
<1>5. IsFiniteSet(Written(net'.output))
  BY <1>3, <1>4, FS_Subset
<1>6. \A d \in Conn : 2 .. Len(net'.output[d]) = 2 .. Len(net.output[d])
  <2>1. Len(<<>>) = 0 /\ 2 .. 0 = {} /\ 2 .. 1 = {}
    OBVIOUS
  <2>2. net'.output[c] # net.output[c] => 2 .. Len(net'.output[c]) = 2 .. Len(net.output[c])
    BY <2>1
  <2> QED
    BY <1>2, <2>2
<1>7. Further(net'.output) = Further(net.output)
  BY <1>6 DEF Further
<1> QED
  BY <1>1, <1>5, <1>7 DEF Flows

LEMMA SmallUpKeepsInv ==
  ASSUME SmallInv, NEW c \in Conn, Small!onConnectionUp(c), program' = program
  PROVE  SmallInv'
<1>1. SmallTypeOK /\ Standing(c) /\ UNCHANGED <<program, now, printed, transferred, reported>>
  BY DEF SmallInv, Small!onConnectionUp
<1>2. /\ OnlyOf(net', c) /\ net.state[c] = "idle"
      /\ net'.arriving = net.arriving /\ net'.received = net.received /\ net'.input = net.input
      /\ IF program \in {"daytime", "time", "chargen"}
         THEN /\ net'.output[c] = Append(net.output[c], CHOOSE m \in Answer : TRUE)
              /\ net'.unwritten[c] = (program = "chargen")
         ELSE net'.output = net.output /\ net'.unwritten = net.unwritten
      /\ net'.state[c] = IF \/ program \in {"daytime", "time"}
                            \/ program = "maxconnection" /\ numConnected + 1 > kMaxConnections
                         THEN "disconnecting" ELSE "connected"
  BY <1>1, SmallUpIs
<1>3. rejected' = IF program = "maxconnection" /\ numConnected + 1 > kMaxConnections
                  THEN rejected \cup {c} ELSE rejected
  BY DEF Small!onConnectionUp
<1>4. Standing(c)'
  <2>1. (program \in {"echo", "maxconnection"} => EchoStands(c))'
    BY <1>1, <1>2, <1>3 DEF Standing, EchoStands
  <2>2. (program = "finger" => FingerStands(c))'
    BY <1>1, <1>2 DEF Standing, FingerStands
  <2>3. (program = "discard" => DiscardStands(c))'
    BY <1>1, <1>2 DEF Standing, DiscardStands
  <2>4. (program \in {"daytime", "time"} => GreetedStands(c))'
    <3>1. Answer' = Answer
      BY <1>1, SameSmallNet
    <3>2. program \in {"daytime", "time"} => net.output[c] = <<>>
      BY <1>1, <1>2 DEF Standing, GreetedStands
    <3>3. \A m : Append(<<>>, m) = <<m>>
      OBVIOUS
    <3> QED
      BY <1>1, <1>2, <3>1, <3>2, <3>3 DEF GreetedStands
  <2>5. (program = "timeclient" => ClientStands(c))'
    <3>1. TimeSent' = TimeSent
      BY <1>1 DEF TimeSent
    <3> QED
      BY <1>1, <1>2, <3>1 DEF Standing, ClientStands
  <2> QED
    BY <2>1, <2>2, <2>3, <2>4, <2>5 DEF Standing
<1>5. program = "chargen" => Flows'
  <2> SUFFICES ASSUME program = "chargen" PROVE Flows'
    OBVIOUS
  <2>1. net.output[c] = <<>>
    BY <1>2 DEF SmallInv, Flows
  <2>2. Len(net'.output[c]) = 1 /\ net'.unwritten[c]
    <3>1. net'.output[c] = Append(<<>>, CHOOSE m \in Answer : TRUE)
      BY <1>2, <2>1, Zenon
    <3>2. \A m : Len(Append(<<>>, m)) = 1
      OBVIOUS
    <3>3. net'.unwritten[c] = (program = "chargen")
      BY <1>2, Zenon
    <3> QED
      BY <3>1, <3>2, <3>3
  <2>3. /\ IsFiniteSet(Written(net'.output)) /\ IsFiniteSet(Further(net'.output))
        /\ Cardinality(Further(net'.output)) <= reported' + transferred'
    BY <1>1, <1>2, <2>1, <2>2, FurtherStays
  <2>4. \A d \in Conn : /\ net'.state[d] = "connected" => net'.unwritten[d] \/ Waits(net'.queue, d)
                        /\ net'.state[d] = "idle" => net'.output[d] = <<>>
    <3>1. net'.queue = net.queue /\ net'.state[c] = "connected"
      BY <1>2 DEF OnlyOf
    <3>2. \A d \in Conn : d # c => /\ net'.state[d] = net.state[d] /\ net'.output[d] = net.output[d]
                                   /\ net'.unwritten[d] = net.unwritten[d]
      BY <1>2 DEF OnlyOf
    <3> QED
      BY <2>2, <3>1, <3>2 DEF SmallInv, Flows
  <2> QED
    BY <2>3, <2>4 DEF Flows
<1>6. program # "chargen" => ~net'.unwritten[c]
  BY <1>1, <1>2 DEF SmallTypeOK
<1>7. /\ rejected' \subseteq Conn /\ printed' \in Seq(Int) /\ transferred' \in Nat /\ reported' \in Nat
      /\ \A d \in Conn : d # c => (d \in rejected' <=> d \in rejected)
  BY <1>1, <1>3 DEF SmallTypeOK
<1> QED
  BY <1>1, <1>2, <1>4, <1>5, <1>6, <1>7, OneMoves

LEMMA SmallDownKeepsInv ==
  ASSUME SmallInv, NEW c \in Conn, Small!onConnectionDown(c), program' = program
  PROVE  SmallInv'
<1>1. /\ SmallTypeOK /\ Standing(c) /\ UNCHANGED <<program, now, printed, transferred, reported, rejected>>
      /\ net \in SmallNet /\ net' = Small!disconnected(net, c) /\ net.state[c] # "idle"
  BY DEF SmallInv, SmallTypeOK, Small!onConnectionDown, Small!MayClose, Small!Open
<1>2. /\ OnlyOf(net', c) /\ net'.state[c] = "disconnected" /\ net'.unwritten[c] = FALSE
      /\ net'.arriving = net.arriving /\ net'.received = net.received /\ net'.input = net.input
      /\ net'.output = net.output
  BY <1>1, SmallDisconnected
<1>3. Standing(c)'
  <2>1. (program \in {"echo", "maxconnection"} => EchoStands(c))'
    BY <1>1, <1>2 DEF Standing, EchoStands
  <2>2. (program = "finger" => FingerStands(c))'
    BY <1>1, <1>2 DEF Standing, FingerStands
  <2>3. (program = "discard" => DiscardStands(c))'
    BY <1>1, <1>2 DEF Standing, DiscardStands
  <2>4. (program \in {"daytime", "time"} => GreetedStands(c))'
    BY <1>1, <1>2, SameSmallNet DEF Standing, GreetedStands
  <2>5. (program = "timeclient" => ClientStands(c))'
    BY <1>1, <1>2 DEF Standing, ClientStands, TimeSent
  <2> QED
    BY <2>1, <2>2, <2>3, <2>4, <2>5 DEF Standing
<1>4. program = "chargen" => Flows'
  <2> SUFFICES ASSUME program = "chargen" PROVE Flows'
    OBVIOUS
  <2>1. /\ IsFiniteSet(Written(net'.output)) /\ IsFiniteSet(Further(net'.output))
        /\ Cardinality(Further(net'.output)) <= reported' + transferred'
    <3>1. reported' + transferred' = reported + transferred /\ net'.output[c] = net.output[c]
      BY <1>1, <1>2
    <3> QED
      BY <1>2, <3>1, FurtherStays
  <2>2. net'.queue = net.queue
    BY <1>2 DEF OnlyOf
  <2>3. \A d \in Conn : d # c => /\ net'.state[d] = net.state[d] /\ net'.output[d] = net.output[d]
                                 /\ net'.unwritten[d] = net.unwritten[d]
    BY <1>2 DEF OnlyOf
  <2>4. \A d \in Conn : /\ net'.state[d] = "connected" => net'.unwritten[d] \/ Waits(net'.queue, d)
                        /\ net'.state[d] = "idle" => net'.output[d] = <<>>
    BY <1>2, <2>2, <2>3 DEF SmallInv, Flows
  <2> QED
    BY <2>1, <2>4 DEF Flows
<1> QED
  BY <1>1, <1>2, <1>3, <1>4, OneMoves DEF SmallTypeOK

LEMMA SmallShutdownInLoopKeepsInv ==
  ASSUME SmallInv, NEW c \in Conn, Small!ShutdownInLoop(c), UNCHANGED <<program, smallVars>>
  PROVE  SmallInv'
<1>1. /\ SmallTypeOK /\ Standing(c) /\ UNCHANGED <<program, now, printed, transferred, reported, rejected>>
      /\ net \in SmallNet /\ net' = InState(net, c, "shut") /\ net.state[c] = "disconnecting"
      /\ ~net.unwritten[c]
  BY DEF SmallInv, SmallTypeOK, Small!ShutdownInLoop, smallVars, InState
<1>2. /\ OnlyOf(net', c) /\ net'.state[c] = "shut"
      /\ net'.arriving = net.arriving /\ net'.received = net.received /\ net'.input = net.input
      /\ net'.output = net.output /\ net'.unwritten = net.unwritten
  <2>1. OnlyOf(net, c) /\ "shut" \in States
    BY <1>1 DEF OnlyOf, States
  <2> QED
    BY <1>1, <2>1, SmallSetState
<1>3. Standing(c)'
  <2>1. (program \in {"echo", "maxconnection"} => EchoStands(c))'
    BY <1>1, <1>2 DEF Standing, EchoStands
  <2>2. (program = "finger" => FingerStands(c))'
    BY <1>1, <1>2 DEF Standing, FingerStands
  <2>3. (program = "discard" => DiscardStands(c))'
    BY <1>1, <1>2 DEF Standing, DiscardStands
  <2>4. (program \in {"daytime", "time"} => GreetedStands(c))'
    BY <1>1, <1>2, SameSmallNet DEF Standing, GreetedStands
  <2>5. (program = "timeclient" => ClientStands(c))'
    BY <1>1, <1>2 DEF Standing, ClientStands, TimeSent
  <2> QED
    BY <2>1, <2>2, <2>3, <2>4, <2>5 DEF Standing
<1>4. program = "chargen" => Flows'
  <2> SUFFICES ASSUME program = "chargen" PROVE Flows'
    OBVIOUS
  <2>1. /\ IsFiniteSet(Written(net'.output)) /\ IsFiniteSet(Further(net'.output))
        /\ Cardinality(Further(net'.output)) <= reported' + transferred'
    <3>1. reported' + transferred' = reported + transferred /\ net'.output[c] = net.output[c]
      BY <1>1, <1>2
    <3> QED
      BY <1>2, <3>1, FurtherStays
  <2>2. net'.queue = net.queue
    BY <1>2 DEF OnlyOf
  <2>3. \A d \in Conn : d # c => net'.state[d] = net.state[d]
    BY <1>2 DEF OnlyOf
  <2>4. \A d \in Conn : /\ net'.state[d] = "connected" => net'.unwritten[d] \/ Waits(net'.queue, d)
                        /\ net'.state[d] = "idle" => net'.output[d] = <<>>
    BY <1>2, <2>2, <2>3 DEF SmallInv, Flows
  <2> QED
    BY <2>1, <2>4 DEF Flows
<1> QED
  BY <1>1, <1>2, <1>3, <1>4, OneMoves DEF SmallTypeOK

\* The bytes that come in with a step of onMessage.
Reads(c, k, n, b) ==
  /\ n = Small!arrived(net, c, k) /\ b = SubSeq(net.arriving[c], 1, k) /\ b \in Seq(Int)
  /\ OnlyOf(n, c) /\ n.state = net.state /\ n.output = net.output /\ n.unwritten = net.unwritten
  /\ n.arriving[c] = Small!EndOf(net.arriving[c], k)
  /\ n.input[c] = net.input[c] \o b /\ n.received[c] = net.received[c] \o b
  /\ n.input[c] \in Seq(Int) /\ n.received[c] \in Seq(Int)

LEMMA ReadsIs ==
  ASSUME SmallTypeOK, NEW c \in Conn, NEW k \in 1 .. Len(net.arriving[c])
  PROVE  \E n, b : Reads(c, k, n, b)
<1>1. net \in SmallNet /\ net.arriving[c] \in Seq(Int) /\ k \in Nat
  BY DEF SmallTypeOK, SmallNet
<1>2. PICK n, b : n = Small!arrived(net, c, k) /\ b = SubSeq(net.arriving[c], 1, k)
  OBVIOUS
<1>3. /\ OnlyOf(n, c) /\ n.state = net.state
      /\ n.output = net.output /\ n.unwritten = net.unwritten
      /\ n.arriving[c] = Small!EndOf(net.arriving[c], k)
      /\ n.input[c] = net.input[c] \o b /\ n.received[c] = net.received[c] \o b
  BY <1>1, <1>2, SmallArrived, Zenon
<1>4. b \in Seq(Int)
  <2>1. PICK a \in Seq(Int) : a = net.arriving[c]
    BY <1>1
  <2>2. SubSeq(a, 1, k) \in Seq(Int)
    BY <1>1, <2>1
  <2> QED
    BY <1>2, <2>1, <2>2
<1>5. n.input[c] \in Seq(Int) /\ n.received[c] \in Seq(Int)
  BY <1>3 DEF OnlyOf, SmallNet
<1> QED
  BY <1>2, <1>3, <1>4, <1>5 DEF Reads

\* What a step of onMessage makes of the connection.
Reacts(c, n) ==
  /\ OnlyOf(net', c) /\ Standing(c)' /\ ~net'.unwritten[c]
  /\ printed' \in Seq(Int) /\ (printed' = printed \/ c = oneConn)

LEMMA EchoReacts ==
  ASSUME SmallInv, program \in {"echo", "maxconnection"}, NEW c \in Conn, NEW k, Small!onMessage(c, k),
         NEW n, NEW b, Reads(c, k, n, b), program' = program
  PROVE  Reacts(c, n)
<1>1. /\ SmallTypeOK /\ EchoStands(c) /\ printed' = printed /\ printed \in Seq(Int)
      /\ rejected' = rejected
      /\ net.state[c] \in {"connected", "disconnecting", "shut"}
      /\ ~net.unwritten[c] /\ net \in SmallNet
  BY DEF SmallInv, SmallTypeOK, Standing, Small!onMessage, Small!MayRead, Small!Open
<1>2. net' = Small!Taken(Small!retrieveAll(n, c), c, n.input[c])
  BY DEF Small!onMessage, Small!Echo, Reads
<1>3. PICK r : r = Small!retrieveAll(n, c)
  OBVIOUS
<1>4. /\ OnlyOf(r, c) /\ r.input[c] = <<>> /\ r.received = n.received /\ r.state = n.state
      /\ r.output = n.output /\ r.unwritten = n.unwritten
  BY <1>3, SmallRetrieveAll DEF Reads
<1>5. n.input[c] = b
  BY <1>1 DEF EchoStands, Reads
<1>6. Answer = Seq(Int)
  BY DEF Answer
<1>7. Took(r, net', c, b)
  BY <1>2, <1>3, <1>4, <1>5, <1>6, SmallTaken DEF Reads
<1>8. OnlyOf(net', c) /\ net'.state[c] = net.state[c] /\ net'.input[c] = <<>>
      /\ net'.received[c] = net.received[c] \o b
  BY <1>4, <1>7, Zenon DEF Took, Reads
<1>9. IF net.state[c] = "connected" THEN net'.output[c] = Append(net.output[c], b) /\ ~net'.unwritten[c]
      ELSE net'.output[c] = net.output[c] /\ net'.unwritten[c] = net.unwritten[c]
  <2>1. program # "chargen"
    OBVIOUS
  <2> QED
    BY <1>4, <1>7, <2>1, Zenon DEF Took, Reads
<1>10. EchoStands(c)'
  <2>1. CASE c \in rejected
    BY <1>1, <1>8, <1>9, <2>1 DEF EchoStands
  <2>2. CASE c \notin rejected
    <3>1. net.state[c] = "connected" /\ Small!Flattened(net.output[c]) = net.received[c]
      BY <1>1, <2>2 DEF EchoStands
    <3>2. net.output[c] \in Seq(Seq(Int)) /\ b \in Seq(Int)
      BY <1>1, <1>6 DEF SmallNet, Reads
    <3>3. Small!Flattened(Append(net.output[c], b)) = Small!Flattened(net.output[c]) \o b
      BY <3>2, FlattenedAppend
    <3>4. Small!Flattened(net'.output[c]) = net'.received[c]
      BY <1>8, <1>9, <3>1, <3>3
    <3> QED
      BY <1>1, <1>8, <2>2, <3>1, <3>4 DEF EchoStands
  <2> QED
    BY <2>1, <2>2
<1>11. Standing(c)'
  BY <1>10 DEF Standing
<1>12. ~net'.unwritten[c]
  BY <1>1, <1>9
<1> QED
  BY <1>1, <1>8, <1>11, <1>12 DEF Reacts

\* Of finger: how it takes the first line, when there is one in the buffer.
LEMMA FingerTakes ==
  ASSUME SmallTypeOK, program = "finger", NEW c \in Conn, NEW k, Small!onMessage(c, k),
         NEW n, NEW b, Reads(c, k, n, b), Small!CRLFs(n.input[c]) # {}
  PROVE  /\ OnlyOf(net', c) /\ net'.received[c] = n.received[c]
         /\ net'.state[c] = IF net.state[c] = "connected" THEN "disconnecting" ELSE net.state[c]
         /\ net'.output[c] = IF net.state[c] = "connected"
                             THEN Append(net.output[c], Small!getUser(Small!FirstLine(n.input[c])))
                             ELSE net.output[c]
         /\ ~net'.unwritten[c]
<1>1. PICK x \in Seq(Int) : x = n.input[c]
  BY DEF Reads
<1>2. PICK m : m = Small!getUser(Small!FirstLine(x))
  OBVIOUS
<1>3. PICK t : t = Small!Taken(n, c, m)
  OBVIOUS
<1>4. Took(n, t, c, m)
  <2>1. m \in Answer
    BY <1>1, <1>2, UserIsAnswer
  <2> QED
    BY <1>3, <2>1, SmallTaken DEF Reads
<1>5. /\ OnlyOf(t, c) /\ t.state = net.state /\ t.received = n.received /\ t.input = n.input
      /\ t.output[c] = IF net.state[c] = "connected" THEN Append(net.output[c], m) ELSE net.output[c]
  BY <1>4, Zenon DEF Took, Reads
<1>6. ~t.unwritten[c]
  <2>1. ~net.unwritten[c] /\ program # "chargen"
    BY DEF SmallTypeOK
  <2> QED
    BY <1>4, <2>1, Zenon DEF Took, Reads
<1>7. PICK j \in Nat : j = Len(Small!FirstLine(x)) + 2
  <2>1. Len(Small!FirstLine(x)) + 2 \in Nat
    <3>1. PICK i \in 1 .. Len(x) - 1 : Len(Small!FirstLine(x)) = i - 1
      BY <1>1, FirstLineIs
    <3> QED
      BY <3>1
  <2> QED
    BY <2>1
<1>8. PICK r : r = Small!retrieve(t, c, j)
  OBVIOUS
<1>9. /\ OnlyOf(r, c) /\ r.state = t.state /\ r.received = t.received
      /\ r.output = t.output /\ r.unwritten = t.unwritten
  <2>1. Small!EndOf(t.input[c], j) \in Seq(Int)
    BY <1>1, <1>5, <1>7, EndTyped
  <2> QED
    BY <1>5, <1>8, <2>1, SmallRetrieve
<1>10. net' = Small!shutdown(r, c)
  <2>1. net' = Small!Finger(n, c)
    BY DEF Small!onMessage, Reads
  <2> QED
    BY <1>1, <1>2, <1>3, <1>7, <1>8, <2>1, Zenon DEF Small!Finger
<1>11. /\ OnlyOf(net', c)
       /\ net'.state[c] = IF r.state[c] = "connected" THEN "disconnecting" ELSE r.state[c]
       /\ net'.received = r.received /\ net'.output = r.output /\ net'.unwritten = r.unwritten
  BY <1>9, <1>10, SmallShutdown
<1> QED
  BY <1>1, <1>2, <1>5, <1>6, <1>9, <1>11

LEMMA FingerReacts ==
  ASSUME SmallInv, program = "finger", NEW c \in Conn, NEW k, Small!onMessage(c, k),
         NEW n, NEW b, Reads(c, k, n, b), program' = program
  PROVE  Reacts(c, n)
<1>1. /\ SmallTypeOK /\ FingerStands(c) /\ printed' = printed /\ printed \in Seq(Int)
      /\ net.state[c] \in {"connected", "disconnecting", "shut"}
      /\ ~net.unwritten[c] /\ net \in SmallNet /\ net.received[c] \in Seq(Int)
  BY DEF SmallInv, SmallTypeOK, Standing, Small!onMessage, Small!MayRead, Small!Open, SmallNet
<1>2. OnlyOf(net', c) /\ net'.received[c] = net.received[c] \o b /\ ~net'.unwritten[c]
  <2>1. CASE Small!CRLFs(n.input[c]) = {}
    <3>1. net' = n
      BY <2>1 DEF Small!onMessage, Small!Finger, Reads
    <3> QED
      BY <1>1, <3>1 DEF Reads
  <2>2. CASE Small!CRLFs(n.input[c]) # {}
    BY <1>1, <2>2, FingerTakes DEF Reads
  <2> QED
    BY <2>1, <2>2
<1>3. FingerStands(c)'
  <2>1. CASE Small!CRLFs(net.received[c]) # {}
    <3>1. /\ Small!CRLFs(net'.received[c]) # {}
          /\ Small!FirstLine(net'.received[c]) = Small!FirstLine(net.received[c])
      <4>1. PICK x \in Seq(Int) : x = net.received[c] /\ Small!CRLFs(x) # {}
        BY <1>1, <2>1
      <4>2. b \in Seq(Int)
        BY DEF Reads
      <4>3. Small!CRLFs(x \o b) # {} /\ Small!FirstLine(x \o b) = Small!FirstLine(x)
        BY <4>1, <4>2, FirstLineStays
      <4> QED
        BY <1>2, <4>1, <4>3
    <3>2. net.state[c] \in {"disconnecting", "shut"}
      BY <1>1, <2>1 DEF FingerStands
    <3>3. net'.output[c] = net.output[c] /\ net'.state[c] = net.state[c]
      <4>1. CASE Small!CRLFs(n.input[c]) = {}
        BY <4>1 DEF Small!onMessage, Small!Finger, Reads
      <4>2. CASE Small!CRLFs(n.input[c]) # {}
        BY <1>1, <3>2, <4>2, FingerTakes
      <4> QED
        BY <4>1, <4>2
    <3> QED
      BY <1>1, <2>1, <3>1, <3>2, <3>3 DEF FingerStands
  <2>2. CASE Small!CRLFs(net.received[c]) = {}
    <3>1. /\ net.output[c] = <<>> /\ n.input[c] = n.received[c] /\ net.state[c] = "connected"
          /\ net'.received[c] = n.received[c]
      BY <1>1, <1>2, <2>2 DEF FingerStands, Reads
    <3>2. CASE Small!CRLFs(n.input[c]) = {}
      <4>1. net' = n
        BY <3>2 DEF Small!onMessage, Small!Finger, Reads
      <4>2. net'.output[c] = <<>> /\ net'.state[c] = "connected" /\ net'.input[c] = net'.received[c]
        BY <3>1, <4>1 DEF Reads
      <4> QED
        BY <3>1, <3>2, <4>2 DEF FingerStands
    <3>3. CASE Small!CRLFs(n.input[c]) # {}
      <4>1. /\ net'.state[c] = "disconnecting"
            /\ net'.output[c] = Append(<<>>, Small!getUser(Small!FirstLine(n.input[c])))
        BY <1>1, <3>1, <3>3, FingerTakes
      <4>2. \A m : Append(<<>>, m) = <<m>>
        OBVIOUS
      <4> QED
        BY <3>1, <3>3, <4>1, <4>2 DEF FingerStands
    <3> QED
      BY <3>2, <3>3
  <2> QED
    BY <2>1, <2>2
<1>4. Standing(c)'
  BY <1>3 DEF Standing
<1> QED
  BY <1>1, <1>2, <1>4 DEF Reacts

\* c is a and then b, place by place.
Follows(c, a, b, m, n) ==
  /\ Len(c) = m + n
  /\ \A i \in Int : 1 <= i /\ i <= m => c[i] = a[i]
  /\ \A i \in Int : m < i /\ i <= m + n => c[i] = b[i - m]

LEMMA JoinFollows ==
  ASSUME NEW a \in Seq(Int), NEW b \in Seq(Int), NEW c, c = a \o b,
         NEW m \in Nat, NEW n \in Nat, m = Len(a), n = Len(b)
  PROVE  c \in Seq(Int) /\ Follows(c, a, b, m, n)
<1>1. c \in Seq(Int) /\ Len(c) = m + n
  OBVIOUS
<1>2. ASSUME NEW i \in Int, 1 <= i, i <= m PROVE c[i] = a[i]
  BY <1>2
<1>3. ASSUME NEW i \in Int, m < i, i <= m + n PROVE c[i] = b[i - m]
  BY <1>3, SecondPart
<1> QED
  BY <1>1, <1>2, <1>3 DEF Follows

LEMMA TextsAssociative ==
  ASSUME NEW x \in Seq(Int), NEW y \in Seq(Int), NEW z \in Seq(Int)
  PROVE  (x \o y) \o z = x \o (y \o z)
<1>1. PICK p \in Nat, m \in Nat, n \in Nat : p = Len(x) /\ m = Len(y) /\ n = Len(z)
  OBVIOUS
<1>2. PICK u, v : u = x \o y /\ v = y \o z
  OBVIOUS
<1>3. PICK s, t : s = u \o z /\ t = x \o v
  OBVIOUS
<1>4. /\ u \in Seq(Int) /\ Follows(u, x, y, p, m)
      /\ v \in Seq(Int) /\ Follows(v, y, z, m, n)
  BY <1>1, <1>2, JoinFollows, Zenon
<1>5. Len(u) = p + m /\ Len(v) = m + n /\ p + m \in Nat /\ m + n \in Nat
  BY <1>4 DEF Follows
<1>6. /\ s \in Seq(Int) /\ Follows(s, u, z, p + m, n)
      /\ t \in Seq(Int) /\ Follows(t, x, v, p, m + n)
  BY <1>1, <1>3, <1>4, <1>5, JoinFollows, Zenon
<1>7. Len(s) = (p + m) + n /\ Len(t) = p + (m + n) /\ (p + m) + n = p + (m + n)
  BY <1>6 DEF Follows
<1>8. ASSUME NEW i \in Int, 1 <= i, i <= (p + m) + n PROVE s[i] = t[i]
  <2>1. CASE i <= p
    <3>1. u[i] = x[i]
      BY <1>4, <1>8, <2>1 DEF Follows
    <3>2. t[i] = x[i]
      BY <1>6, <1>8, <2>1 DEF Follows
    <3>3. i <= p + m
      BY <2>1
    <3>4. s[i] = u[i]
      BY <1>6, <1>8, <3>3 DEF Follows
    <3> QED
      BY <3>1, <3>2, <3>4, Zenon
  <2>2. CASE p < i
    <3>1. PICK j \in Int : j = i - p
      OBVIOUS
    <3>2. 1 <= j /\ j <= m + n
      BY <1>8, <2>2, <3>1
    <3>3. t[i] = v[j]
      BY <1>6, <1>8, <2>2, <3>1 DEF Follows
    <3>4. CASE j <= m
      <4>1. i <= p + m
        BY <3>1, <3>4
      <4>2. s[i] = u[i]
        BY <1>6, <1>8, <4>1 DEF Follows
      <4>3. u[i] = y[j]
        BY <1>4, <2>2, <3>1, <4>1 DEF Follows
      <4>4. v[j] = y[j]
        BY <1>4, <3>2, <3>4 DEF Follows
      <4> QED
        BY <3>3, <4>2, <4>3, <4>4, Zenon
    <3>5. CASE m < j
      <4>1. p + m < i /\ i - (p + m) = j - m
        BY <3>1, <3>5
      <4>2. s[i] = z[j - m]
        BY <1>6, <1>8, <4>1 DEF Follows
      <4>3. v[j] = z[j - m]
        BY <1>4, <3>2, <3>5 DEF Follows
      <4> QED
        BY <3>3, <4>2, <4>3, Zenon
    <3> QED
      BY <3>4, <3>5
  <2> QED
    BY <2>1, <2>2
<1>9. s = t
  <2>1. ASSUME NEW i \in 1 .. Len(s) PROVE s[i] = t[i]
    BY <1>7, <1>8
  <2>2. Len(s) = Len(t)
    BY <1>7, Zenon
  <2> QED
    BY <1>6, <2>1, <2>2, SeqEqual
<1> QED
  BY <1>2, <1>3, <1>9, Zenon

\* x is r and then b, and t is all three texts.
Split3(r, b, e, x, t) == x = r \o b /\ t = r \o (b \o e)

LEMMA RestJoined ==
  ASSUME NEW r \in Seq(Int), NEW b \in Seq(Int), NEW e \in Seq(Int), NEW x, NEW t, Split3(r, b, e, x, t)
  PROVE  x \o e = t
<1>1. (r \o b) \o e = r \o (b \o e)
  BY TextsAssociative
<1> QED
  BY <1>1, Zenon DEF Split3

LEMMA ClientReacts ==
  ASSUME SmallInv, program = "timeclient", NEW c \in Conn, NEW k, Small!onMessage(c, k),
         NEW n, NEW b, Reads(c, k, n, b), program' = program
  PROVE  Reacts(c, n)
<1>1. /\ SmallTypeOK /\ ClientStands(c) /\ printed \in Seq(Int) /\ now' = now /\ now \in Nat
      /\ ~net.unwritten[c] /\ net \in SmallNet /\ k \in 1 .. Len(net.arriving[c])
      /\ net.arriving[c] \in Seq(Int) /\ net.received[c] \in Seq(Int)
  BY DEF SmallInv, SmallTypeOK, Standing, Small!onMessage, Small!MayRead, SmallNet
<1>2. PICK a \in Seq(Int), r \in Seq(Int), T \in Seq(Int) :
        a = net.arriving[c] /\ r = net.received[c] /\ T = TimeSent
  BY <1>1, TimeIs
<1>3. Len(T) = 2 /\ Small!networkToHost32(T) \in Int /\ TimeSent' = T
  <2>1. TimeSent' = TimeSent
    BY <1>1 DEF TimeSent
  <2> QED
    BY <1>1, <1>2, <2>1, TimeIs
<1>4. c = oneConn
  <2> SUFFICES ASSUME c # oneConn PROVE FALSE
    OBVIOUS
  <2>1. net.arriving[c] = <<>>
    BY <1>1 DEF ClientStands
  <2>2. 1 .. Len(<<>>) = {}
    OBVIOUS
  <2> QED
    BY <1>1, <2>1, <2>2
<1>5. r \o a = T
  BY <1>1, <1>2, <1>4 DEF ClientStands
<1>6. Len(r) + Len(a) = 2 /\ Len(a) > 0 /\ Len(a) \in Nat /\ Len(r) \in Nat /\ Len(r) # 2
  <2>1. Len(r \o a) = Len(r) + Len(a)
    OBVIOUS
  <2>2. Len(T) = Len(r) + Len(a)
    BY <1>5, <2>1, Zenon
  <2>3. Len(a) > 0 /\ Len(a) \in Nat /\ Len(r) \in Nat
    <3>1. k \in 1 .. Len(a)
      BY <1>1, <1>2, Zenon
    <3>2. Len(a) \in Nat /\ Len(r) \in Nat
      OBVIOUS
    <3> QED
      BY <3>1, <3>2
  <2>4. PICK i \in Nat, j \in Nat : i = Len(r) /\ j = Len(a)
    BY <2>3
  <2>5. i + j = 2 /\ j > 0
    BY <1>3, <2>2, <2>3, <2>4, Zenon
  <2>6. i # 2
    BY <2>5
  <2> QED
    BY <2>4, <2>5, <2>6, Zenon
<1>7. printed = <<>> /\ net.input[c] = r
  BY <1>1, <1>2, <1>4, <1>6 DEF ClientStands
<1>8. PICK e \in Seq(Int), x \in Seq(Int) :
        e = Small!EndOf(a, k) /\ x = r \o b /\ n.arriving[c] = e /\ n.received[c] = x /\ n.input[c] = x
  <2>1. Small!EndOf(a, k) \in Seq(Int)
    BY <1>1, EndTyped
  <2> QED
    BY <1>2, <1>7, <2>1 DEF Reads
<1>9. x \o e = T
  <2>1. b \in Seq(Int) /\ b \o e = a
    <3>1. k \in 0 .. Len(a) /\ b \in Seq(Int) /\ b = SubSeq(a, 1, k)
      BY <1>1, <1>2 DEF Reads
    <3>2. SubSeq(a, 1, k) \o Small!EndOf(a, k) = a
      BY <3>1, SplitIs
    <3> QED
      BY <1>8, <3>1, <3>2
  <2>2. x = r \o b
    BY <1>8
  <2>3. Split3(r, b, e, x, T)
    BY <1>5, <2>1, <2>2, Zenon DEF Split3
  <2> QED
    BY <2>1, <2>3, RestJoined, Zenon
<1>10. CASE Len(x) >= 2
  <2>1. Len(x) = 2 /\ x = T
    <3>1. Len(x \o e) = Len(x) + Len(e) /\ Len(x) \in Nat /\ Len(e) \in Nat
      OBVIOUS
    <3>2. Len(T) = Len(x) + Len(e)
      BY <1>9, <3>1, Zenon
    <3>4. Len(x) = 2
      <4>1. PICK i \in Nat, j \in Nat : i = Len(x) /\ j = Len(e)
        BY <3>1
      <4>2. i + j = 2 /\ i >= 2
        BY <1>3, <1>10, <3>2, <4>1, Zenon
      <4>3. i = 2
        BY <4>2
      <4> QED
        BY <4>1, <4>3, Zenon
    <3>3. \A i \in 1 .. Len(x) : (x \o e)[i] = x[i]
      OBVIOUS
    <3> QED
      BY <1>3, <1>9, <3>3, <3>4, SeqEqual
  <2>2. net' = Small!retrieve(n, c, 2) /\ printed' = Append(printed, Small!networkToHost32(T))
    <3>1. /\ net' = Small!TimeClient(n, c)
          /\ printed' = IF Len(n.input[c]) >= Small!kIntLen
                        THEN Append(printed, Small!networkToHost32(n.input[c])) ELSE printed
      BY DEF Small!onMessage, Reads
    <3>2. n.input[c] = T /\ Small!kIntLen = 2 /\ Len(n.input[c]) >= Small!kIntLen
      BY <1>3, <1>8, <2>1 DEF Small!kIntLen
    <3> QED
      BY <3>1, <3>2, Zenon DEF Small!TimeClient
  <2>3. /\ OnlyOf(net', c) /\ net'.arriving = n.arriving /\ net'.received = n.received
        /\ net'.unwritten = n.unwritten
    <3>1. Small!EndOf(n.input[c], 2) \in Seq(Int) /\ OnlyOf(n, c)
      <4>1. Small!EndOf(x, 2) \in Seq(Int)
        BY EndTyped
      <4> QED
        BY <1>8, <4>1 DEF Reads
    <3> QED
      BY <2>2, <3>1, SmallRetrieve
  <2>4. printed' = <<Small!networkToHost32(T)>> /\ printed' \in Seq(Int)
    BY <1>3, <1>7, <2>2
  <2>5. ClientStands(c)'
    BY <1>3, <1>4, <1>8, <1>9, <2>1, <2>3, <2>4 DEF ClientStands
  <2> QED
    BY <1>1, <1>4, <2>3, <2>4, <2>5 DEF Reacts, Reads, Standing
<1>11. CASE ~(Len(x) >= 2)
  <2>1. net' = n /\ printed' = printed
    <3>1. /\ net' = Small!TimeClient(n, c)
          /\ printed' = IF Len(n.input[c]) >= Small!kIntLen
                        THEN Append(printed, Small!networkToHost32(n.input[c])) ELSE printed
      BY DEF Small!onMessage, Reads
    <3>2. ~(Len(n.input[c]) >= Small!kIntLen)
      BY <1>8, <1>11 DEF Small!kIntLen
    <3> QED
      BY <3>1, <3>2, Zenon DEF Small!TimeClient
  <2>2. Len(x) # 2
    <3>1. 2 >= 2
      OBVIOUS
    <3> QED
      BY <1>11, <3>1, Zenon
  <2>3. ClientStands(c)'
    BY <1>3, <1>4, <1>7, <1>8, <1>9, <2>1, <2>2 DEF ClientStands
  <2> QED
    BY <1>1, <2>1, <2>3 DEF Reacts, Reads, Standing
<1> QED
  BY <1>10, <1>11

LEMMA DiscardReacts ==
  ASSUME SmallInv, program \in {"discard", "daytime", "time", "chargen"},
         NEW c \in Conn, NEW k, Small!onMessage(c, k),
         NEW n, NEW b, Reads(c, k, n, b), program' = program
  PROVE  /\ OnlyOf(net', c) /\ Standing(c)' /\ printed' = printed
         /\ net'.output = net.output /\ net'.state = net.state /\ net'.unwritten = net.unwritten
<1>1. /\ SmallTypeOK /\ Standing(c) /\ printed' = printed /\ now' = now
  BY DEF SmallInv, Small!onMessage
<1>2. net' = Small!retrieveAll(n, c)
  BY DEF Small!onMessage, Small!Discard, Reads
<1>3. /\ OnlyOf(net', c) /\ net'.input[c] = <<>> /\ net'.state = n.state
      /\ net'.output = n.output /\ net'.unwritten = n.unwritten
  BY <1>2, SmallRetrieveAll DEF Reads
<1>4. net'.output = net.output /\ net'.state = net.state /\ net'.unwritten = net.unwritten
  BY <1>3 DEF Reads
<1>5. (program = "discard" => DiscardStands(c))'
  BY <1>1, <1>3, <1>4 DEF Standing, DiscardStands
<1>6. (program \in {"daytime", "time"} => GreetedStands(c))'
  BY <1>1, <1>4, SameSmallNet DEF Standing, GreetedStands
<1>7. Standing(c)'
  BY <1>5, <1>6 DEF Standing
<1> QED
  BY <1>1, <1>3, <1>4, <1>7

LEMMA SmallMessageKeepsInv ==
  ASSUME SmallInv, NEW c \in Conn, NEW k, Small!onMessage(c, k), program' = program
  PROVE  SmallInv'
<1>1. /\ SmallTypeOK /\ k \in 1 .. Len(net.arriving[c])
      /\ UNCHANGED <<program, now, rejected, transferred, reported>>
  BY DEF SmallInv, Small!onMessage, Small!MayRead
<1>2. PICK n, b : Reads(c, k, n, b)
  BY <1>1, ReadsIs
<1>3. /\ rejected' \subseteq Conn /\ transferred' \in Nat /\ reported' \in Nat /\ printed \in Seq(Int)
      /\ program \in Small!Programs /\ (program # "chargen" => ~net.unwritten[c])
  BY <1>1 DEF SmallTypeOK
<1>4. CASE program \in {"echo", "maxconnection", "finger", "timeclient"}
  <2>1. Reacts(c, n)
    BY <1>2, <1>4, EchoReacts, FingerReacts, ClientReacts
  <2> QED
    BY <1>1, <1>3, <1>4, <2>1, OneMoves DEF Reacts
<1>5. CASE program \in {"discard", "daytime", "time", "chargen"}
  <2>1. /\ OnlyOf(net', c) /\ Standing(c)' /\ printed' = printed
        /\ net'.output = net.output /\ net'.state = net.state /\ net'.unwritten = net.unwritten
    BY <1>2, <1>5, DiscardReacts
  <2>2. program = "chargen" => Flows'
    <3> SUFFICES ASSUME program = "chargen" PROVE Flows'
      OBVIOUS
    <3>1. net'.queue = net.queue
      BY <2>1 DEF OnlyOf
    <3> QED
      BY <1>1, <2>1, <3>1 DEF SmallInv, Flows
  <2>3. program # "chargen" => ~net'.unwritten[c]
    BY <1>3, <2>1
  <2> QED
    BY <1>1, <1>3, <2>1, <2>2, <2>3, OneMoves
<1> QED
  BY <1>3, <1>4, <1>5 DEF Small!Programs

\* Only the callbacks of chargen wait.
LEMMA ChargenStep ==
  ASSUME SmallInv, program = "chargen", net' \in SmallNet,
         UNCHANGED <<program, now, rejected, printed>>,
         transferred' \in Nat, reported' \in Nat, Flows'
  PROVE  SmallInv'
<1>1. SmallTypeOK'
  BY SameSmallNet DEF SmallInv, SmallTypeOK
<1>2. \A c \in Conn : Standing(c)'
  BY DEF Standing
<1> QED
  BY <1>1, <1>2 DEF SmallInv

WithCallback(queue, l, c) == [queue EXCEPT ![l] = Append(@, [call |-> "writeComplete", conn |-> c])]

LEMMA StillWait ==
  ASSUME NEW queue \in [Loop -> Seq(Callback)], NEW l \in Loop, NEW c \in Conn, NEW grown,
         grown = WithCallback(queue, l, c)
  PROVE  /\ grown \in [Loop -> Seq(Callback)] /\ Waits(grown, c)
         /\ \A d \in Conn : Waits(queue, d) => Waits(grown, d)
<1>1. PICK f \in Callback : f = [call |-> "writeComplete", conn |-> c]
  BY DEF Callback
<1>2. PICK q \in Seq(Callback) : q = queue[l]
  OBVIOUS
<1>3. PICK g \in Seq(Callback) : g = Append(q, f)
  <2>1. Append(q, f) \in Seq(Callback)
    OBVIOUS
  <2> QED
    BY <2>1, Zenon
<1>4. /\ Len(q) \in Nat /\ Len(g) = Len(q) + 1 /\ g[Len(g)] = f /\ Len(g) \in 1 .. Len(g)
      /\ \A i \in 1 .. Len(q) : i \in 1 .. Len(g) /\ g[i] = q[i]
  BY <1>3
<1>5. grown = [queue EXCEPT ![l] = g]
  BY <1>1, <1>2, <1>3 DEF WithCallback
<1>6. /\ grown \in [Loop -> Seq(Callback)] /\ grown[l] = g
      /\ \A m \in Loop : m # l => grown[m] = queue[m]
  BY <1>5
<1>7. f.conn = c
  BY <1>1
<1>8. Waits(grown, c)
  BY <1>4, <1>6, <1>7 DEF Waits
<1>9. ASSUME NEW d \in Conn, Waits(queue, d) PROVE Waits(grown, d)
  <2>1. PICK m \in Loop : \E i \in 1 .. Len(queue[m]) : queue[m][i].conn = d
    BY <1>9 DEF Waits
  <2>2. \E i \in 1 .. Len(grown[m]) : grown[m][i].conn = d
    <3>1. CASE m = l
      BY <1>2, <1>4, <1>6, <2>1, <3>1
    <3>2. CASE m # l
      BY <1>6, <2>1, <3>2
    <3> QED
      BY <3>1, <3>2
  <2> QED
    BY <2>2 DEF Waits
<1> QED
  BY <1>6, <1>8, <1>9

LEMMA OthersWait ==
  ASSUME NEW queue \in [Loop -> Seq(Callback)], NEW l \in Loop, queue[l] # <<>>
  PROVE  LET shrunk == [queue EXCEPT ![l] = Tail(@)]
         IN  /\ Head(queue[l]).call = "writeComplete" /\ Head(queue[l]).conn \in Conn
             /\ shrunk \in [Loop -> Seq(Callback)]
             /\ \A d \in Conn : Waits(queue, d) /\ d # Head(queue[l]).conn => Waits(shrunk, d)
<1>1. PICK q \in Seq(Callback) : q = queue[l]
  OBVIOUS
<1>2. PICK t \in Seq(Callback) : t = Tail(q)
  <2>1. Tail(q) \in Seq(Callback)
    BY <1>1
  <2> QED
    BY <2>1, Zenon
<1>3. /\ Len(q) \in Nat /\ Len(q) >= 1 /\ Head(q) = q[1] /\ Head(q) \in Callback
      /\ Len(t) = Len(q) - 1 /\ \A i \in 1 .. Len(q) - 1 : t[i] = q[i + 1]
  BY <1>1, <1>2
<1>4. PICK shrunk : shrunk = [queue EXCEPT ![l] = t]
  OBVIOUS
<1>5. /\ shrunk \in [Loop -> Seq(Callback)] /\ shrunk[l] = t
      /\ \A m \in Loop : m # l => shrunk[m] = queue[m]
  BY <1>4
<1>6. ASSUME NEW d \in Conn, Waits(queue, d), d # Head(q).conn PROVE Waits(shrunk, d)
  <2>1. PICK m \in Loop : \E i \in 1 .. Len(queue[m]) : queue[m][i].conn = d
    BY <1>6 DEF Waits
  <2>2. \E i \in 1 .. Len(shrunk[m]) : shrunk[m][i].conn = d
    <3>1. CASE m = l
      <4>1. PICK i \in 1 .. Len(q) : q[i].conn = d
        BY <1>1, <2>1, <3>1
      <4>2. i # 1
        BY <1>3, <1>6, <4>1
      <4>3. i - 1 \in 1 .. Len(q) - 1 /\ (i - 1) + 1 = i
        BY <1>3, <4>2
      <4>4. t[i - 1] = q[i]
        BY <1>3, <4>3
      <4> QED
        BY <1>3, <1>5, <3>1, <4>1, <4>3, <4>4
    <3>2. CASE m # l
      BY <1>5, <2>1, <3>2
    <3> QED
      BY <3>1, <3>2
  <2> QED
    BY <2>2 DEF Waits
<1>7. Head(q).call = "writeComplete" /\ Head(q).conn \in Conn
  BY <1>3 DEF Callback
<1> QED
  BY <1>1, <1>2, <1>4, <1>5, <1>6, <1>7

LEMMA SmallAllWrittenKeepsInv ==
  ASSUME SmallInv, NEW c \in Conn, Small!AllWritten(c), UNCHANGED <<program, smallVars>>
  PROVE  SmallInv'
<1>1. /\ SmallTypeOK /\ program = "chargen" /\ Flows
      /\ UNCHANGED <<program, now, printed, transferred, reported, rejected>>
      /\ net \in SmallNet /\ net.loop[c] \in Loop /\ net.queue \in [Loop -> Seq(Callback)]
      /\ net.unwritten \in [Conn -> BOOLEAN]
  BY DEF SmallInv, SmallTypeOK, Small!AllWritten, smallVars, SmallNet
<1>2. PICK w \in [Conn -> BOOLEAN] : w = [net.unwritten EXCEPT ![c] = FALSE]
  BY <1>1
<1>3. PICK k, u, q : k = net.loop[c] /\ u = net.queue /\ q = WithCallback(u, k, c)
  OBVIOUS
<1>4. /\ q \in [Loop -> Seq(Callback)] /\ Waits(q, c)
      /\ \A d \in Conn : Waits(net.queue, d) => Waits(q, d)
  <2>1. u \in [Loop -> Seq(Callback)] /\ k \in Loop
    BY <1>1, <1>3, Zenon
  <2>2. q \in [Loop -> Seq(Callback)] /\ Waits(q, c) /\ \A d \in Conn : Waits(u, d) => Waits(q, d)
    BY <1>3, <2>1, StillWait, Zenon
  <2> QED
    BY <1>3, <2>2, Zenon
<1>5. PICK r : r = [net EXCEPT !.unwritten = w, !.queue = q]
  OBVIOUS
<1>6. r \in SmallNet /\ r.state = net.state /\ r.output = net.output /\ r.unwritten = w /\ r.queue = q
  BY <1>1, <1>4, <1>5 DEF SmallNet
<1>7. net' = r
  BY <1>1, <1>2, <1>3, <1>5 DEF Small!AllWritten, Small!queueInLoop, SmallNet, WithCallback
<1>8. \A d \in Conn : /\ net'.state[d] = "connected" => net'.unwritten[d] \/ Waits(net'.queue, d)
                      /\ net'.state[d] = "idle" => net'.output[d] = <<>>
  <2>1. \A d \in Conn : d # c => w[d] = net.unwritten[d]
    BY <1>1, <1>2
  <2> QED
    BY <1>1, <1>4, <1>6, <1>7, <2>1 DEF Flows
<1>9. Flows'
  BY <1>1, <1>6, <1>7, <1>8 DEF Flows
<1> QED
  BY <1>1, <1>6, <1>7, <1>9, ChargenStep DEF SmallTypeOK

LEMMA ThroughputKeepsInv ==
  ASSUME SmallInv, NEW l \in Loop, Small!printThroughput(l), program' = program
  PROVE  SmallInv'
<1>1. /\ SmallTypeOK /\ program = "chargen" /\ Flows
      /\ UNCHANGED <<program, net, now, printed, rejected>>
      /\ reported' = reported + transferred /\ transferred' = 0
  BY DEF SmallInv, Small!printThroughput
<1>2. net' \in SmallNet /\ transferred' \in Nat /\ reported' \in Nat
      /\ reported' + transferred' = reported + transferred
  BY <1>1 DEF SmallTypeOK
<1>3. Flows'
  BY <1>1, <1>2 DEF Flows
<1> QED
  BY <1>1, <1>2, <1>3, ChargenStep

\* One message more to one connection.
LEMMA FurtherGrows ==
  ASSUME NEW o, NEW p, NEW c \in Conn, \A d \in Conn : d # c => p[d] = o[d],
         Len(o[c]) \in Nat, Len(p[c]) = Len(o[c]) + 1,
         IsFiniteSet(Written(o)), IsFiniteSet(Further(o)), Cardinality(Further(o)) \in Nat
  PROVE  /\ IsFiniteSet(Written(p)) /\ IsFiniteSet(Further(p))
         /\ Cardinality(Further(p)) <= Cardinality(Further(o)) + 1
         /\ Len(o[c]) >= 1 => Cardinality(Further(p)) = Cardinality(Further(o)) + 1
<1>1. Written(p) \subseteq Written(o) \cup {c}
  BY DEF Written
<1>2. IsFiniteSet(Written(p))
  BY <1>1, FS_AddElement, FS_Subset
<1>3. PICK x : x = <<c, Len(p[c])>>
  OBVIOUS
<1>4. Further(p) \subseteq Further(o) \cup {x}
  <2> SUFFICES ASSUME NEW d \in Conn, NEW i \in Nat, i \in 2 .. Len(p[d]), <<d, i>> # x
               PROVE  i \in 2 .. Len(o[d])
    BY <1>3 DEF Further
  <2>1. CASE d # c
    BY <2>1
  <2>2. CASE d = c
    <3>1. i # Len(p[c])
      BY <1>3, <2>2
    <3> QED
      BY <2>2, <3>1
  <2> QED
    BY <2>1, <2>2
<1>5. IsFiniteSet(Further(o) \cup {x}) /\ Cardinality(Further(o) \cup {x}) <= Cardinality(Further(o)) + 1
      /\ Cardinality(Further(o) \cup {x}) \in Nat
  <2>1. IsFiniteSet(Further(o) \cup {x})
    BY FS_AddElement
  <2>2. x \notin Further(o) => Cardinality(Further(o) \cup {x}) = Cardinality(Further(o)) + 1
    BY FS_AddElement
  <2>3. x \in Further(o) => Further(o) \cup {x} = Further(o)
    OBVIOUS
  <2>4. PICK i \in Nat, j \in Nat : i = Cardinality(Further(o)) /\ j = Cardinality(Further(o) \cup {x})
    BY <2>1, FS_CardinalityType
  <2>5. j = i + 1 \/ j = i
    BY <2>2, <2>3, <2>4, Zenon
  <2>6. j <= i + 1
    BY <2>5
  <2> QED
    BY <2>1, <2>4, <2>6, Zenon
<1>6. /\ IsFiniteSet(Further(p)) /\ Cardinality(Further(p)) \in Nat
      /\ Cardinality(Further(p)) <= Cardinality(Further(o) \cup {x})
  BY <1>4, <1>5, FS_Subset, FS_CardinalityType
<1>7. ASSUME Len(o[c]) >= 1 PROVE Cardinality(Further(p)) = Cardinality(Further(o)) + 1
  <2>1. PICK i \in Nat : i = Len(p[c]) /\ i = Len(o[c]) + 1 /\ i >= 2
    BY <1>7
  <2>2. x \in Further(p) /\ x \notin Further(o)
    BY <1>3, <2>1 DEF Further
  <2>3. Further(o) \subseteq Further(p)
    <3> SUFFICES ASSUME NEW d \in Conn, NEW j \in Nat, j \in 2 .. Len(o[d]) PROVE j \in 2 .. Len(p[d])
      BY DEF Further
    <3>1. CASE d # c
      BY <3>1
    <3>2. CASE d = c
      BY <2>1, <3>2
    <3> QED
      BY <3>1, <3>2
  <2>4. Further(p) = Further(o) \cup {x}
    BY <1>4, <2>2, <2>3
  <2> QED
    BY <2>2, <2>4, FS_AddElement
<1> QED
  BY <1>2, <1>5, <1>6, <1>7

\* A step of onWriteComplete: the callback of c goes, and c is sent a message
\* when it is still up.
CalledBack(l, c, q) ==
  /\ net.queue[l] # <<>> /\ c = Head(net.queue[l]).conn /\ q = [net.queue EXCEPT ![l] = Tail(@)]
  /\ q \in [Loop -> Seq(Callback)]
  /\ net' \in SmallNet /\ net'.state = net.state /\ net'.loop = net.loop /\ net'.queue = q
  /\ \A d \in Conn : d # c => net'.output[d] = net.output[d] /\ net'.unwritten[d] = net.unwritten[d]
  /\ \A d \in Conn : Waits(net.queue, d) /\ d # c => Waits(q, d)
  /\ Len(net.output[c]) \in Nat
  /\ IF net.state[c] = "connected"
     THEN /\ Len(net'.output[c]) = Len(net.output[c]) + 1 /\ net'.output[c] # <<>>
          /\ net'.unwritten[c]
     ELSE net'.output = net.output /\ net'.unwritten = net.unwritten

LEMMA WriteCompleteIs ==
  ASSUME SmallInv, NEW l \in Loop, Small!onWriteComplete(l), program' = program
  PROVE  \E c \in Conn : \E q : CalledBack(l, c, q)
<1>1. /\ SmallTypeOK /\ net.queue[l] # <<>> /\ UNCHANGED <<program, now, printed, rejected, reported>>
      /\ transferred' = transferred + 1
      /\ net' = Small!Taken(Small!called(net, l), Head(net.queue[l]).conn, Small!message_)
  BY DEF SmallInv, Small!onWriteComplete, Small!MayCall
<1>2. /\ program = "chargen" /\ Flows /\ net \in SmallNet /\ net.queue \in [Loop -> Seq(Callback)]
  BY <1>1 DEF SmallInv, SmallTypeOK, SmallNet
<1>3. PICK q : q = [net.queue EXCEPT ![l] = Tail(@)]
  OBVIOUS
<1>4. PICK c : c = Head(net.queue[l]).conn
  OBVIOUS
<1>5. /\ c \in Conn /\ q \in [Loop -> Seq(Callback)]
      /\ \A d \in Conn : Waits(net.queue, d) /\ d # c => Waits(q, d)
  BY <1>1, <1>2, <1>3, <1>4, OthersWait, Zenon
<1>6. PICK m : m = Small!message_
  OBVIOUS
<1>7. m \in Answer
  BY <1>2, <1>6 DEF Answer
<1>8. PICK r : r = Small!Taken(net, c, m)
  OBVIOUS
<1>9. Took(net, r, c, m)
  <2>1. OnlyOf(net, c)
    BY <1>2 DEF OnlyOf
  <2> QED
    BY <1>5, <1>7, <1>8, <2>1, SmallTaken
<1>10. /\ r \in SmallNet /\ r.state = net.state /\ r.loop = net.loop
       /\ \A d \in Conn : d # c => r.output[d] = net.output[d] /\ r.unwritten[d] = net.unwritten[d]
  BY <1>9, Zenon DEF Took, OnlyOf
<1>11. IF net.state[c] = "connected"
       THEN r.output[c] = Append(net.output[c], m) /\ r.unwritten[c]
       ELSE r.output = net.output /\ r.unwritten = net.unwritten
  BY <1>2, <1>9, Zenon DEF Took
<1>12. net' = [r EXCEPT !.queue = q]
  <2>1. PICK n : n = [net EXCEPT !.queue = q]
    OBVIOUS
  <2>2. Small!called(net, l) = n /\ n.state = net.state /\ n.loop = net.loop /\ n.notifies = net.notifies
    BY <1>2, <1>3, <2>1 DEF Small!called, SmallNet
  <2>3. net' = Small!Taken(n, c, m)
    BY <1>1, <1>4, <1>6, <2>2
  <2>4. CASE net.state[c] # "connected"
    BY <1>8, <2>1, <2>2, <2>3, <2>4 DEF Small!Taken, Small!send
  <2>5. CASE net.state[c] = "connected"
    <3>1. r = [net EXCEPT !.output[c] = Append(@, m), !.unwritten[c] = net.notifies]
      BY <1>8, <2>5 DEF Small!Taken, Small!send, Small!sendInLoop, Small!Writable
    <3>2. net' = [n EXCEPT !.output[c] = Append(@, m), !.unwritten[c] = n.notifies]
      BY <2>2, <2>3, <2>5 DEF Small!Taken, Small!send, Small!sendInLoop, Small!Writable
    <3> QED
      BY <1>2, <2>1, <3>1, <3>2 DEF SmallNet
  <2> QED
    BY <2>4, <2>5
<1>13. /\ net' \in SmallNet /\ net'.state = net.state /\ net'.output = r.output
       /\ net'.unwritten = r.unwritten /\ net'.queue = q /\ net'.loop = net.loop
  BY <1>5, <1>10, <1>12 DEF SmallNet
<1>14. /\ Len(net.output[c]) \in Nat
       /\ net.state[c] = "connected" => /\ Len(r.output[c]) = Len(net.output[c]) + 1
                                        /\ r.output[c] # <<>>
  <2>1. net.output[c] \in Seq(Answer)
    BY <1>2, <1>5 DEF SmallNet
  <2>2. PICK o \in Seq(Answer) : o = net.output[c]
    BY <2>1
  <2>3. Len(o) \in Nat /\ Len(Append(o, m)) = Len(o) + 1 /\ Append(o, m) # <<>>
    BY <1>7
  <2> QED
    BY <1>11, <2>2, <2>3
<1>15. CalledBack(l, c, q)
  BY <1>1, <1>3, <1>4, <1>5, <1>10, <1>11, <1>13, <1>14, Zenon DEF CalledBack
<1> QED
  BY <1>5, <1>15

LEMMA SmallWriteCompleteKeepsInv ==
  ASSUME SmallInv, NEW l \in Loop, Small!onWriteComplete(l), program' = program
  PROVE  SmallInv'
<1>1. /\ SmallTypeOK /\ program = "chargen" /\ Flows
      /\ UNCHANGED <<program, now, printed, rejected, reported>> /\ transferred' = transferred + 1
  <2>1. net.queue[l] # <<>>
    BY DEF Small!onWriteComplete, Small!MayCall
  <2> QED
    BY <2>1 DEF SmallInv, SmallTypeOK, Small!onWriteComplete
<1>2. PICK c \in Conn : \E x : CalledBack(l, c, x)
  BY WriteCompleteIs
<1>q. PICK q : CalledBack(l, c, q)
  BY <1>2
<1>3. net' \in SmallNet
  BY <1>q DEF CalledBack
<1>4. \A d \in Conn : /\ net'.state[d] = "connected" => net'.unwritten[d] \/ Waits(net'.queue, d)
                      /\ net'.state[d] = "idle" => net'.output[d] = <<>>
  <2>1. \A d \in Conn : d # c => /\ net'.state[d] = net.state[d] /\ net'.output[d] = net.output[d]
                                 /\ net'.unwritten[d] = net.unwritten[d]
                                 /\ Waits(net.queue, d) => Waits(net'.queue, d)
    BY <1>q DEF CalledBack
  <2>2. net'.state[c] = "connected" => net'.unwritten[c]
    BY <1>q DEF CalledBack
  <2>3. net'.state[c] = "idle" => net'.output[c] = net.output[c] /\ net.state[c] = "idle"
    BY <1>q DEF CalledBack
  <2> QED
    BY <1>1, <2>1, <2>2, <2>3 DEF Flows
<1>5. Cardinality(Further(net.output)) \in Nat /\ reported \in Nat /\ transferred \in Nat
  BY <1>1, FS_CardinalityType DEF Flows, SmallTypeOK
<1>6. /\ IsFiniteSet(Written(net'.output)) /\ IsFiniteSet(Further(net'.output))
      /\ Cardinality(Further(net'.output)) <= reported' + transferred'
  <2>1. CASE net.state[c] = "connected"
    <3>1. PICK o, p : o = net.output /\ p = net'.output
      OBVIOUS
    <3>2. /\ Len(o[c]) \in Nat /\ Len(p[c]) = Len(o[c]) + 1
          /\ \A d \in Conn : d # c => p[d] = o[d]
      BY <1>q, <2>1, <3>1, Zenon DEF CalledBack
    <3>3. /\ IsFiniteSet(Written(p)) /\ IsFiniteSet(Further(p))
          /\ Cardinality(Further(p)) <= Cardinality(Further(o)) + 1
      BY <1>1, <1>5, <3>1, <3>2, FurtherGrows DEF Flows
    <3>4. Cardinality(Further(p)) <= reported + (transferred + 1)
      BY <1>1, <1>5, <3>1, <3>3, FS_CardinalityType DEF Flows
    <3> QED
      BY <1>1, <3>1, <3>3, <3>4
  <2>2. CASE net.state[c] # "connected"
    <3>1. net'.output = net.output
      BY <1>q, <2>2 DEF CalledBack
    <3>2. Cardinality(Further(net.output)) <= reported + (transferred + 1)
      BY <1>1, <1>5 DEF Flows
    <3> QED
      BY <1>1, <3>1, <3>2 DEF Flows
  <2> QED
    BY <2>1, <2>2
<1>7. Flows'
  BY <1>4, <1>6 DEF Flows
<1> QED
  BY <1>1, <1>3, <1>5, <1>7, ChargenStep

\* What MapThenSumSet makes of the messages of S.
SumFolded(h, o, S) ==
  h = [s \in SUBSET S |-> IF s = {} THEN 0 ELSE (Len(o[Pick(s)]) - 1) + h[s \ {Pick(s)}]]

LEMMA SumFolds ==
  ASSUME NEW o, NEW S, NEW g, SumFolded(g, o, S)
  PROVE  \E h : Small!MapThenSumSet(LAMBDA c : Len(o[c]) - 1, S) = h[S] /\ SumFolded(h, o, S)
<1> DEFINE Solves(h) == h = [s \in SUBSET S |-> IF s = {} THEN 0
                               ELSE (Len(o[Pick(s)]) - 1) + h[s \ {Pick(s)}]]
           h == CHOOSE h : Solves(h)
<1>1. Small!MapThenSumSet(LAMBDA c : Len(o[c]) - 1, S) = h[S]
  BY DEF Small!MapThenSumSet, Small!MapThenFoldSet, Pick
<1>2. Solves(h)
  <2>1. \E k : Solves(k)
    BY DEF SumFolded
  <2> HIDE DEF Solves
  <2> QED
    BY <2>1
<1> HIDE DEF h
<1> QED
  BY <1>1, <1>2 DEF SumFolded

FurtherOf(o, T) == {p \in Further(o) : p[1] \in T}

LEMMA OneMoreSummed ==
  ASSUME NEW o, IsFiniteSet(Further(o)), NEW T, NEW c \in Conn \ T, NEW i \in Nat,
         Len(o[c]) = i, i >= 1, IsFiniteSet(FurtherOf(o, T))
  PROVE  /\ IsFiniteSet(FurtherOf(o, T \cup {c}))
         /\ Cardinality(FurtherOf(o, T \cup {c})) = (i - 1) + Cardinality(FurtherOf(o, T))
<1>1. PICK S, U : S = FurtherOf(o, T) /\ U = {c} \X (2 .. i)
  OBVIOUS
<1>2. FurtherOf(o, T \cup {c}) = S \cup U
  <2>1. ASSUME NEW p \in Conn \X Nat, p[1] = c PROVE p \in Further(o) <=> p \in U
    BY <1>1, <2>1 DEF Further
  <2>2. \A p \in U : p \in Conn \X Nat /\ p[1] = c
    BY <1>1
  <2>3. \A p \in Further(o) : p \in Conn \X Nat
    BY DEF Further
  <2> QED
    BY <1>1, <2>1, <2>2, <2>3 DEF FurtherOf
<1>3. S \cap U = {}
  BY <1>1 DEF FurtherOf
<1>4. IsFiniteSet(U) /\ Cardinality(U) = i - 1
  <2>1. IsFiniteSet({c}) /\ Cardinality({c}) = 1
    BY FS_Singleton
  <2>2. IsFiniteSet(2 .. i) /\ Cardinality(2 .. i) = i - 1
    BY FS_Interval
  <2>3. /\ IsFiniteSet({c} \X (2 .. i))
        /\ Cardinality({c} \X (2 .. i)) = Cardinality({c}) * Cardinality(2 .. i)
    BY <2>1, <2>2, FS_Product, Zenon
  <2>4. 1 * (i - 1) = i - 1
    OBVIOUS
  <2> QED
    BY <1>1, <2>1, <2>2, <2>3, <2>4, Zenon
<1>5. IsFiniteSet(S \cup U) /\ Cardinality(S \cup U) = Cardinality(S) + Cardinality(U) - Cardinality({})
  <2>1. IsFiniteSet(S) /\ IsFiniteSet(U)
    BY <1>1, <1>4
  <2>2. /\ IsFiniteSet(S \cup U)
        /\ Cardinality(S \cup U) = Cardinality(S) + Cardinality(U) - Cardinality(S \cap U)
    BY <2>1, FS_Union, Zenon
  <2> QED
    BY <1>3, <2>2
<1>6. PICK k \in Nat : k = Cardinality(S)
  BY <1>1, FS_CardinalityType
<1>7. Cardinality(S \cup U) = (i - 1) + k
  BY <1>4, <1>5, <1>6, FS_EmptySet
<1> QED
  BY <1>1, <1>2, <1>5, <1>6, <1>7

LEMMA SumIs ==
  ASSUME NEW o, \A c \in Conn : Len(o[c]) \in Nat /\ (Len(o[c]) = 0 <=> o[c] = <<>>),
         IsFiniteSet(Written(o)), IsFiniteSet(Further(o))
  PROVE  Small!MapThenSumSet(LAMBDA c : Len(o[c]) - 1, Written(o)) = Cardinality(Further(o))
<1>1. PICK S : S = Written(o)
  OBVIOUS
<1>2. \A c \in S : c \in Conn /\ Len(o[c]) \in Nat /\ Len(o[c]) >= 1
  BY <1>1 DEF Written
<1>p. \A s \in SUBSET S : s # {} => Pick(s) \in s /\ Pick(s) \in S /\ s \ {Pick(s)} \in SUBSET S
  BY DEF Pick
<1> DEFINE f == [p \in Int \X S |-> (Len(o[p[2]]) - 1) + p[1]]
           G(h) == {T \in SUBSET S : /\ IsFiniteSet(FurtherOf(o, T))
                                     /\ h[T] = Cardinality(FurtherOf(o, T))}
<1>3. f \in [Int \X S -> Int] /\ \A k \in Int, c \in S : f[<<k, c>>] = (Len(o[c]) - 1) + k
  BY <1>2
<1> HIDE DEF f
<1>4. PICK g \in [SUBSET S -> Int] : FoldOf(g, S, 0, f)
  <2>1. IsFiniteSet(S) /\ 0 \in Int
    BY <1>1
  <2> QED
    BY <1>3, <2>1, FoldExists, Zenon
<1>5. SumFolded(g, o, S)
  <2>1. ASSUME NEW s \in SUBSET S
        PROVE  g[s] = IF s = {} THEN 0 ELSE (Len(o[Pick(s)]) - 1) + g[s \ {Pick(s)}]
    <3>1. CASE s = {}
      BY <1>4, <3>1 DEF FoldOf
    <3>2. CASE s # {}
      <4>1. Pick(s) \in S /\ s \ {Pick(s)} \in SUBSET S /\ g[s \ {Pick(s)}] \in Int
        BY <1>p, <3>2
      <4>2. f[<<g[s \ {Pick(s)}], Pick(s)>>] = (Len(o[Pick(s)]) - 1) + g[s \ {Pick(s)}]
        BY <1>3, <4>1
      <4> QED
        BY <1>4, <3>2, <4>2 DEF FoldOf
    <3> QED
      BY <3>1, <3>2
  <2> QED
    BY <2>1 DEF SumFolded
<1>6. PICK h : /\ Small!MapThenSumSet(LAMBDA c : Len(o[c]) - 1, S) = h[S]
               /\ SumFolded(h, o, S)
  BY <1>5, SumFolds, Zenon
<1>7. \A s \in SUBSET S : h[s] = IF s = {} THEN 0 ELSE (Len(o[Pick(s)]) - 1) + h[s \ {Pick(s)}]
  BY <1>6 DEF SumFolded
<1>8. {} \in G(h)
  <2>1. FurtherOf(o, {}) = {}
    BY DEF FurtherOf
  <2> QED
    BY <1>7, <2>1, FS_EmptySet
<1>9. ASSUME NEW T \in SUBSET S, T # {} PROVE \E c \in T : T \ {c} \in G(h) => T \in G(h)
  <2>1. PICK c : c = Pick(T)
    OBVIOUS
  <2>2. c \in T /\ c \in S /\ c \in Conn \ (T \ {c}) /\ T \ {c} \in SUBSET S /\ (T \ {c}) \cup {c} = T
    BY <1>2, <1>p, <1>9, <2>1
  <2>3. PICK i \in Nat : i = Len(o[c]) /\ i >= 1
    BY <1>2, <2>2
  <2>4. ASSUME IsFiniteSet(FurtherOf(o, T \ {c})), h[T \ {c}] = Cardinality(FurtherOf(o, T \ {c}))
        PROVE  IsFiniteSet(FurtherOf(o, T)) /\ h[T] = Cardinality(FurtherOf(o, T))
    <3>1. /\ IsFiniteSet(FurtherOf(o, (T \ {c}) \cup {c}))
          /\ Cardinality(FurtherOf(o, (T \ {c}) \cup {c})) = (i - 1) + Cardinality(FurtherOf(o, T \ {c}))
      BY <2>2, <2>3, <2>4, OneMoreSummed
    <3>2. h[T] = (i - 1) + h[T \ {c}]
      BY <1>7, <1>9, <2>1, <2>3, Zenon
    <3> QED
      BY <2>2, <2>4, <3>1, <3>2, Zenon
  <2> QED
    BY <2>2, <2>4
<1>10. S \in G(h)
  <2> HIDE DEF G
  <2>1. Grows(S, G(h))
    BY <1>8, <1>9 DEF Grows
  <2> QED
    BY <1>1, <2>1, SubsetInduction
<1>11. FurtherOf(o, S) = Further(o)
  <2>1. ASSUME NEW p \in Further(o) PROVE p[1] \in S
    <3>1. p[1] \in Conn /\ Len(o[p[1]]) \in Nat /\ Len(o[p[1]]) # 0
      BY DEF Further
    <3> QED
      BY <1>1, <3>1 DEF Written
  <2> QED
    BY <2>1 DEF FurtherOf
<1> QED
  BY <1>1, <1>6, <1>10, <1>11

\* Nothing but the callbacks is queued.
LEMMA OnlyCallbacks ==
  ASSUME SmallInv, NEW l \in Loop, Small!SendQueued(l)
  PROVE  FALSE
<1>1. net.queue[l] # <<>> /\ Head(net.queue[l]).call = "send"
  BY DEF Small!SendQueued, Small!MayCall
<1>2. net.queue \in [Loop -> Seq(Callback)]
  BY DEF SmallInv, SmallTypeOK, SmallNet
<1> QED
  BY <1>1, <1>2, OthersWait

LEMMA SmallInvStep == SmallInv /\ Small!Next => SmallInv'
<1> SUFFICES ASSUME SmallInv, Small!Next PROVE SmallInv'
  OBVIOUS
<1>1. program' = program
  BY DEF Small!Next
<1>2. ASSUME NEW c \in Conn, Small!onConnectionUp(c) \/ Small!onConnectionDown(c) PROVE SmallInv'
  BY <1>1, <1>2, SmallUpKeepsInv, SmallDownKeepsInv
<1>3. ASSUME NEW c \in Conn, NEW k, Small!onMessage(c, k) PROVE SmallInv'
  BY <1>1, <1>3, SmallMessageKeepsInv
<1>4. ASSUME NEW l \in Loop, Small!onWriteComplete(l) \/ Small!printThroughput(l) PROVE SmallInv'
  BY <1>1, <1>4, SmallWriteCompleteKeepsInv, ThroughputKeepsInv
<1>5. ASSUME Small!NetStep, UNCHANGED Small!state PROVE SmallInv'
  <2>1. UNCHANGED <<program, smallVars>>
    BY <1>1, <1>5 DEF Small!state, smallVars
  <2>2. ASSUME NEW l \in Loop, Small!SendQueued(l) PROVE FALSE
    BY <2>2, OnlyCallbacks
  <2>3. ASSUME NEW c \in Conn, Small!AllWritten(c) \/ Small!ShutdownInLoop(c) PROVE SmallInv'
    BY <2>1, <2>3, SmallAllWrittenKeepsInv, SmallShutdownInLoopKeepsInv
  <2> QED
    BY <1>5, <2>2, <2>3 DEF Small!NetStep
<1> QED
  BY <1>2, <1>3, <1>4, <1>5 DEF Small!Next

LEMMA SmallInvStutter == SmallInv /\ UNCHANGED <<program, net, smallVars>> => SmallInv'
<1> SUFFICES ASSUME SmallInv, UNCHANGED <<program, net, smallVars>> PROVE SmallInv'
  OBVIOUS
<1>1. UNCHANGED <<program, net, now, rejected, printed, transferred, reported>>
  BY DEF smallVars
<1>2. SmallTypeOK'
  BY <1>1, SameSmallNet DEF SmallInv, SmallTypeOK
<1>3. ASSUME NEW c \in Conn PROVE Standing(c)'
  <2>1. Spared(c)
    BY <1>1 DEF Spared
  <2> QED
    BY <2>1, SparedStands DEF SmallInv
<1>4. program = "chargen" => Flows'
  BY <1>1 DEF SmallInv, Flows
<1> QED
  BY <1>1, <1>2, <1>3, <1>4 DEF SmallInv

\* Peers of any loops that write anything, at any time; the time server writes
\* the time to its one client.
AnySmall ==
  /\ program \in Small!Programs /\ now \in Nat
  /\ \E loop \in [Conn -> Loop], stream \in [Conn -> Seq(Int)] :
       /\ net = Chat!Network(loop, stream, program = "chargen")
       /\ program = "timeclient" => \A c \in Conn : stream[c] = IF c = oneConn THEN TimeSent ELSE <<>>
  /\ Small!Init

LEMMA SmallInitially == AnySmall => SmallInv
<1> SUFFICES ASSUME AnySmall PROVE SmallInv
  OBVIOUS
<1>1. PICK loop \in [Conn -> Loop], stream \in [Conn -> Seq(Int)] :
        /\ net = Chat!Network(loop, stream, program = "chargen")
        /\ program = "timeclient" => \A c \in Conn : stream[c] = IF c = oneConn THEN TimeSent ELSE <<>>
  BY DEF AnySmall
<1>2. /\ program \in Small!Programs /\ now \in Nat
      /\ rejected = {} /\ printed = <<>> /\ transferred = 0 /\ reported = 0
  BY DEF AnySmall, Small!Init
<1>3. /\ net \in SmallNet /\ net.arriving = stream
      /\ net.state = [c \in Conn |-> "idle"] /\ net.output = [c \in Conn |-> <<>>]
      /\ net.input = [c \in Conn |-> <<>>] /\ net.received = [c \in Conn |-> <<>>]
      /\ net.unwritten = [c \in Conn |-> FALSE] /\ net.queue = [l \in Loop |-> <<>>]
  BY <1>1 DEF Chat!Network, SmallNet, States
<1>4. SmallTypeOK
  BY <1>2, <1>3 DEF SmallTypeOK
<1>5. ASSUME NEW c \in Conn PROVE Standing(c)
  <2>1. /\ net.state[c] = "idle" /\ net.output[c] = <<>> /\ net.input[c] = <<>>
        /\ net.received[c] = <<>> /\ net.arriving[c] = stream[c]
    BY <1>3
  <2>2. EchoStands(c)
    BY <1>2, <2>1, FlattenedNone DEF EchoStands
  <2>3. FingerStands(c)
    <3>1. Small!CRLFs(<<>>) = {}
      BY DEF Small!CRLFs
    <3> QED
      BY <2>1, <3>1 DEF FingerStands
  <2>4. DiscardStands(c) /\ GreetedStands(c)
    BY <2>1 DEF DiscardStands, GreetedStands
  <2>5. program = "timeclient" => ClientStands(c)
    <3> SUFFICES ASSUME program = "timeclient" PROVE ClientStands(c)
      OBVIOUS
    <3>1. <<>> \o TimeSent = TimeSent
      BY <1>2, TimeIs
    <3>2. Len(<<>>) = 0 /\ Len(<<>>) # 2
      OBVIOUS
    <3>3. Len(net.received[c]) # 2
      BY <2>1, <3>2, Zenon
    <3>4. net.arriving[c] = IF c = oneConn THEN TimeSent ELSE <<>>
      BY <1>1, <2>1, Zenon
    <3>5. c = oneConn => net.received[c] \o net.arriving[c] = TimeSent
      BY <2>1, <3>1, <3>4
    <3> QED
      BY <1>2, <2>1, <3>3, <3>4, <3>5 DEF ClientStands
  <2> QED
    BY <2>2, <2>3, <2>4, <2>5 DEF Standing
<1>6. Flows
  <2>1. Written(net.output) = {}
    BY <1>3 DEF Written
  <2>2. Further(net.output) = {}
    <3>1. 2 .. Len(<<>>) = {}
      OBVIOUS
    <3> QED
      BY <1>3, <3>1 DEF Further
  <2>3. IsFiniteSet({}) /\ Cardinality({}) = 0 /\ 0 <= 0 + 0
    BY FS_EmptySet
  <2> QED
    BY <1>2, <1>3, <2>1, <2>2, <2>3 DEF Flows
<1> QED
  BY <1>4, <1>5, <1>6 DEF SmallInv

\* chargen counts no message twice: no connection waits twice, and one that went
\* down is counted once more at most.
Spent(state, output, queue) ==
  {c \in Conn : output[c] # <<>> /\ state[c] # "connected" /\ ~Waits(queue, c)}

Charged ==
  /\ InOwnLoop(net.loop, net.queue)
  /\ \A c \in Conn : /\ net.unwritten[c] => net.state[c] = "connected" /\ ~Waits(net.queue, c)
                     /\ net.unwritten[c] \/ Waits(net.queue, c) => net.output[c] # <<>>
  /\ reported + transferred <=
       Cardinality(Further(net.output)) + Cardinality(Spent(net.state, net.output, net.queue))

LEMMA SpentFinite ==
  ASSUME NEW s, NEW o, NEW q, IsFiniteSet(Written(o))
  PROVE  IsFiniteSet(Spent(s, o, q)) /\ Cardinality(Spent(s, o, q)) \in Nat
<1>1. Spent(s, o, q) \subseteq Written(o)
  BY DEF Spent, Written
<1> QED
  BY <1>1, FS_Subset, FS_CardinalityType

\* What is counted, of both kinds.
LEMMA Counts ==
  ASSUME SmallInv, program = "chargen"
  PROVE  /\ Flows /\ net \in SmallNet /\ reported \in Nat /\ transferred \in Nat
         /\ Cardinality(Further(net.output)) \in Nat
         /\ IsFiniteSet(Spent(net.state, net.output, net.queue))
         /\ Cardinality(Spent(net.state, net.output, net.queue)) \in Nat
<1>1. Flows /\ net \in SmallNet /\ reported \in Nat /\ transferred \in Nat
  BY DEF SmallInv, SmallTypeOK
<1> QED
  BY <1>1, SpentFinite, FS_CardinalityType DEF Flows

\* A step at c that changes neither the queues nor what is counted.
LEMMA ChargedStays ==
  ASSUME SmallInv, SmallInv', program = "chargen", program' = program, Charged, NEW c \in Conn,
         OnlyOf(net', c), Further(net'.output) = Further(net.output),
         reported' + transferred' = reported + transferred,
         net.output[c] # <<>> => net'.output[c] # <<>>,
         net'.state[c] = "connected" => net.state[c] = "connected" \/ net.output[c] = <<>>,
         net'.unwritten[c] => /\ net'.state[c] = "connected" /\ ~Waits(net.queue, c)
                              /\ net'.output[c] # <<>>
  PROVE  Charged'
<1>1. /\ net'.queue = net.queue /\ net'.loop = net.loop
      /\ \A d \in Conn : d # c => /\ net'.state[d] = net.state[d] /\ net'.output[d] = net.output[d]
                                  /\ net'.unwritten[d] = net.unwritten[d]
  BY DEF OnlyOf
<1>2. PICK S, T : /\ S = Spent(net.state, net.output, net.queue)
                  /\ T = Spent(net'.state, net'.output, net'.queue)
  OBVIOUS
<1>3. S \subseteq T
  BY <1>1, <1>2 DEF Spent
<1>4. /\ Cardinality(S) \in Nat /\ Cardinality(Further(net.output)) \in Nat
      /\ IsFiniteSet(T) /\ Cardinality(T) \in Nat
  <2>1. Flows'
    BY DEF SmallInv
  <2>2. IsFiniteSet(T) /\ Cardinality(T) \in Nat
    BY <1>2, <2>1, SpentFinite DEF Flows
  <2> QED
    BY <1>2, <2>2, Counts
<1>5. Cardinality(S) <= Cardinality(T)
  BY <1>3, <1>4, FS_Subset
<1>6. reported + transferred <= Cardinality(Further(net.output)) + Cardinality(S)
  BY <1>2 DEF Charged
<1>7. reported' + transferred' <= Cardinality(Further(net'.output)) + Cardinality(T)
  <2>1. reported + transferred \in Nat
    BY Counts
  <2>2. PICK i \in Nat, f \in Nat, s \in Nat, t \in Nat :
          /\ i = reported + transferred /\ f = Cardinality(Further(net.output))
          /\ s = Cardinality(S) /\ t = Cardinality(T)
    BY <1>4, <2>1
  <2>3. i <= f + s /\ s <= t
    BY <1>5, <1>6, <2>2
  <2>4. i <= f + t
    BY <2>3
  <2> QED
    BY <2>2, <2>4, Zenon
<1>8. InOwnLoop(net'.loop, net'.queue)
  BY <1>1 DEF Charged
<1>9. ASSUME NEW d \in Conn
      PROVE  /\ net'.unwritten[d] => net'.state[d] = "connected" /\ ~Waits(net'.queue, d)
             /\ net'.unwritten[d] \/ Waits(net'.queue, d) => net'.output[d] # <<>>
  <2>1. CASE d = c
    BY <1>1, <2>1 DEF Charged
  <2>2. CASE d # c
    BY <1>1, <2>2 DEF Charged
  <2> QED
    BY <2>1, <2>2
<1> QED
  BY <1>2, <1>7, <1>8, <1>9 DEF Charged

LEMMA UpCharged ==
  ASSUME SmallInv, program = "chargen", Charged, NEW c \in Conn,
         Small!onConnectionUp(c), program' = program
  PROVE  Charged'
<1>1. SmallTypeOK /\ UNCHANGED <<transferred, reported>> /\ Flows
  BY DEF SmallInv, Small!onConnectionUp
<1>2. /\ OnlyOf(net', c) /\ net.state[c] = "idle" /\ net'.state[c] = "connected"
      /\ net'.output[c] = Append(net.output[c], CHOOSE m \in Answer : TRUE)
  BY <1>1, SmallUpIs
<1>3. net.output[c] = <<>> /\ ~Waits(net.queue, c)
  BY <1>1, <1>2 DEF Flows, Charged
<1>4. Len(net'.output[c]) = 1 /\ net'.output[c] # <<>>
  <2>1. \A m : Len(Append(<<>>, m)) = 1 /\ Append(<<>>, m) # <<>>
    OBVIOUS
  <2> QED
    BY <1>2, <1>3, <2>1, Zenon
<1>5. Further(net'.output) = Further(net.output) /\ reported' + transferred' = reported + transferred
  BY <1>1, <1>2, <1>3, <1>4, FurtherStays
<1>6. SmallInv'
  BY SmallUpKeepsInv
<1> QED
  BY <1>2, <1>3, <1>4, <1>5, <1>6, ChargedStays

LEMMA DownCharged ==
  ASSUME SmallInv, program = "chargen", Charged, NEW c \in Conn,
         Small!onConnectionDown(c), program' = program
  PROVE  Charged'
<1>1. /\ net \in SmallNet /\ UNCHANGED <<transferred, reported>>
      /\ net' = Small!disconnected(net, c)
  BY DEF SmallInv, SmallTypeOK, Small!onConnectionDown
<1>2. /\ OnlyOf(net', c) /\ net'.state[c] = "disconnected" /\ ~net'.unwritten[c]
      /\ net'.output = net.output
  BY <1>1, SmallDisconnected
<1>3. SmallInv'
  BY SmallDownKeepsInv
<1> QED
  BY <1>1, <1>2, <1>3, ChargedStays

LEMMA ShutCharged ==
  ASSUME SmallInv, program = "chargen", Charged, NEW c \in Conn,
         Small!ShutdownInLoop(c), UNCHANGED <<program, smallVars>>
  PROVE  Charged'
<1>1. /\ net \in SmallNet /\ UNCHANGED <<transferred, reported>>
      /\ net' = InState(net, c, "shut") /\ ~net.unwritten[c]
  BY DEF SmallInv, SmallTypeOK, Small!ShutdownInLoop, smallVars, InState
<1>2. /\ OnlyOf(net', c) /\ net'.state[c] = "shut" /\ net'.output = net.output
      /\ net'.unwritten = net.unwritten
  <2>1. OnlyOf(net, c) /\ "shut" \in States
    BY <1>1 DEF OnlyOf, States
  <2> QED
    BY <1>1, <2>1, SmallSetState
<1>3. SmallInv'
  BY SmallShutdownInLoopKeepsInv
<1> QED
  BY <1>1, <1>2, <1>3, ChargedStays

LEMMA MessageCharged ==
  ASSUME SmallInv, program = "chargen", Charged, NEW c \in Conn, NEW k,
         Small!onMessage(c, k), program' = program
  PROVE  Charged'
<1>1. /\ SmallTypeOK /\ k \in 1 .. Len(net.arriving[c]) /\ UNCHANGED <<transferred, reported>>
  BY DEF SmallInv, Small!onMessage, Small!MayRead
<1>2. PICK n, b : Reads(c, k, n, b)
  BY <1>1, ReadsIs
<1>3. /\ OnlyOf(net', c)
      /\ net'.output = net.output /\ net'.state = net.state /\ net'.unwritten = net.unwritten
  BY <1>2, DiscardReacts
<1>4. SmallInv'
  BY SmallMessageKeepsInv
<1>5. net.unwritten[c] => net.state[c] = "connected" /\ ~Waits(net.queue, c) /\ net.output[c] # <<>>
  BY DEF Charged
<1> QED
  BY <1>1, <1>3, <1>4, <1>5, ChargedStays

LEMMA AllWrittenCharged ==
  ASSUME SmallInv, program = "chargen", Charged, NEW c \in Conn,
         Small!AllWritten(c), UNCHANGED <<program, smallVars>>
  PROVE  Charged'
<1>1. /\ net \in SmallNet /\ UNCHANGED <<transferred, reported>> /\ net.unwritten[c]
      /\ net.loop \in [Conn -> Loop] /\ net.queue \in [Loop -> Seq(Callback)]
      /\ net.unwritten \in [Conn -> BOOLEAN]
  BY DEF SmallInv, SmallTypeOK, Small!AllWritten, smallVars, SmallNet
<1>2. PICK w \in [Conn -> BOOLEAN] : w = [net.unwritten EXCEPT ![c] = FALSE]
  BY <1>1
<1>3. PICK k, u, q : k = net.loop /\ u = net.queue /\ q = WithCallback(u, k[c], c)
  OBVIOUS
<1>4. InOwnLoop(k, u) /\ ~Waits(u, c) /\ net.state[c] = "connected" /\ net.output[c] # <<>>
  BY <1>1, <1>3 DEF Charged
<1>5. /\ q \in [Loop -> Seq(Callback)] /\ InOwnLoop(k, q)
      /\ \A d \in Conn : Waits(q, d) <=> Waits(u, d) \/ d = c
  <2>1. k \in [Conn -> Loop] /\ u \in [Loop -> Seq(Callback)]
    BY <1>1, <1>3, Zenon
  <2> QED
    <3>1. q = [u EXCEPT ![k[c]] = Append(@, [call |-> "writeComplete", conn |-> c])]
      BY <1>3 DEF WithCallback
    <3> QED
      BY <1>4, <2>1, <3>1, QueueGrows
<1>6. PICK r : r = [net EXCEPT !.unwritten = w, !.queue = q]
  OBVIOUS
<1>7. /\ r.state = net.state /\ r.output = net.output /\ r.loop = net.loop
      /\ r.unwritten = w /\ r.queue = q
  BY <1>1, <1>6 DEF SmallNet
<1>8. net' = r
  BY <1>1, <1>2, <1>3, <1>6 DEF Small!AllWritten, Small!queueInLoop, SmallNet, WithCallback
<1>9. Spent(net'.state, net'.output, net'.queue) = Spent(net.state, net.output, net.queue)
  BY <1>3, <1>4, <1>5, <1>7, <1>8 DEF Spent
<1>10. ASSUME NEW d \in Conn
       PROVE  /\ net'.unwritten[d] => net'.state[d] = "connected" /\ ~Waits(net'.queue, d)
              /\ net'.unwritten[d] \/ Waits(net'.queue, d) => net'.output[d] # <<>>
  <2>1. w[c] = FALSE /\ (d # c => w[d] = net.unwritten[d])
    BY <1>1, <1>2
  <2>2. CASE d = c
    BY <1>4, <1>7, <1>8, <2>1, <2>2
  <2>3. CASE d # c
    BY <1>3, <1>5, <1>7, <1>8, <2>1, <2>3 DEF Charged
  <2> QED
    BY <2>2, <2>3
<1> QED
  BY <1>1, <1>3, <1>5, <1>7, <1>8, <1>9, <1>10 DEF Charged

LEMMA WriteCompleteCharged ==
  ASSUME SmallInv, program = "chargen", Charged, NEW l \in Loop,
         Small!onWriteComplete(l), program' = program
  PROVE  Charged'
<1>1. reported' = reported /\ transferred' = transferred + 1
  BY DEF Small!onWriteComplete
<1>2. PICK c \in Conn : \E x : CalledBack(l, c, x)
  BY WriteCompleteIs
<1>q. PICK q : CalledBack(l, c, q)
  BY <1>2
<1>3. /\ Flows /\ net \in SmallNet /\ reported \in Nat /\ transferred \in Nat
      /\ Cardinality(Further(net.output)) \in Nat
      /\ net.loop \in [Conn -> Loop] /\ net.queue \in [Loop -> Seq(Callback)]
  BY Counts DEF SmallNet
<1>4. PICK k, u : k = net.loop /\ u = net.queue
  OBVIOUS
<1>5. /\ InOwnLoop(k, q) /\ \A d \in Conn : Waits(q, d) <=> Waits(u, d) /\ d # c
      /\ Waits(u, c)
  <2>1. Takes(k, u, l, c, q) /\ InOwnLoop(k, u)
    BY <1>q, <1>3, <1>4, Zenon DEF Takes, CalledBack, Charged
  <2> QED
    BY <2>1, QueueShrinks, Zenon
<1>6. net'.queue = q /\ net'.loop = k /\ net'.state = net.state
  BY <1>q, <1>4, Zenon DEF CalledBack
<1>7. ~net.unwritten[c] /\ net.output[c] # <<>>
  BY <1>4, <1>5 DEF Charged
<1>8. PICK S, T, m, n, i : /\ S = Spent(net.state, net.output, net.queue)
                           /\ T = Spent(net'.state, net'.output, net'.queue)
                           /\ m = Cardinality(Further(net.output))
                           /\ n = Cardinality(Further(net'.output))
                           /\ i = reported + transferred
  OBVIOUS
<1>9. /\ i \in Nat /\ m \in Nat /\ IsFiniteSet(S) /\ Cardinality(S) \in Nat
      /\ i <= m + Cardinality(S) /\ reported' + transferred' = i + 1
  <2>1. IsFiniteSet(S) /\ Cardinality(S) \in Nat
    BY <1>8, Counts
  <2>2. i <= m + Cardinality(S)
    BY <1>8, Zenon DEF Charged
  <2>3. i \in Nat /\ reported' + transferred' = i + 1
    BY <1>1, <1>3, <1>8
  <2> QED
    BY <1>3, <1>8, <2>1, <2>2, <2>3
<1>10. \A d \in Conn : d # c => net'.output[d] = net.output[d] /\ net'.unwritten[d] = net.unwritten[d]
  BY <1>q DEF CalledBack
<1>11. CASE net.state[c] = "connected"
  <2>1. /\ Len(net.output[c]) \in Nat /\ Len(net'.output[c]) = Len(net.output[c]) + 1
        /\ net'.output[c] # <<>> /\ net'.unwritten[c]
    BY <1>q, <1>11 DEF CalledBack
  <2>2. n = m + 1
    <3>1. Len(net.output[c]) >= 1
      <4>1. \A o \in Seq(Answer) : o # <<>> => Len(o) >= 1
        OBVIOUS
      <4> QED
        BY <1>3, <1>7, <4>1 DEF SmallNet
    <3>2. PICK o, p : o = net.output /\ p = net'.output
      OBVIOUS
    <3> QED
      BY <1>3, <1>8, <1>10, <2>1, <3>1, <3>2, FurtherGrows DEF Flows
  <2>3. S = T
    <3>1. ASSUME NEW d \in Conn, d # c
          PROVE  net'.output[d] = net.output[d] /\ (Waits(q, d) <=> Waits(net.queue, d))
      BY <1>4, <1>5, <1>10, <3>1
    <3> QED
      BY <1>6, <1>8, <1>11, <3>1 DEF Spent
  <2>4. i + 1 <= n + Cardinality(T)
    BY <1>9, <2>2, <2>3
  <2>5. ASSUME NEW d \in Conn
        PROVE  /\ net'.unwritten[d] => net'.state[d] = "connected" /\ ~Waits(net'.queue, d)
               /\ net'.unwritten[d] \/ Waits(net'.queue, d) => net'.output[d] # <<>>
    BY <1>4, <1>5, <1>6, <1>10, <1>11, <2>1 DEF Charged
  <2> QED
    BY <1>5, <1>6, <1>8, <1>9, <2>4, <2>5 DEF Charged
<1>12. CASE net.state[c] # "connected"
  <2>1. net'.output = net.output /\ net'.unwritten = net.unwritten
    BY <1>q, <1>12 DEF CalledBack
  <2>2. T = S \cup {c} /\ c \notin S
    <3>1. c \in T /\ c \notin S
      BY <1>4, <1>5, <1>6, <1>7, <1>8, <1>12, <2>1 DEF Spent
    <3>2. \A d \in Conn : d # c => (d \in T <=> d \in S)
      BY <1>4, <1>5, <1>6, <1>8, <2>1 DEF Spent
    <3>3. S \subseteq Conn /\ T \subseteq Conn
      BY <1>8 DEF Spent
    <3> QED
      BY <3>1, <3>2, <3>3
  <2>3. Cardinality(T) = Cardinality(S) + 1
    BY <1>9, <2>2, FS_AddElement
  <2>4. i + 1 <= n + Cardinality(T)
    BY <1>8, <1>9, <2>1, <2>3
  <2>5. ASSUME NEW d \in Conn
        PROVE  /\ net'.unwritten[d] => net'.state[d] = "connected" /\ ~Waits(net'.queue, d)
               /\ net'.unwritten[d] \/ Waits(net'.queue, d) => net'.output[d] # <<>>
    BY <1>4, <1>5, <1>6, <2>1 DEF Charged
  <2> QED
    BY <1>5, <1>6, <1>8, <1>9, <2>4, <2>5 DEF Charged
<1> QED
  BY <1>11, <1>12

LEMMA ThroughputCharged ==
  ASSUME SmallInv, program = "chargen", Charged, NEW l \in Loop, Small!printThroughput(l)
  PROVE  Charged'
<1>1. /\ net' = net /\ reported' = reported + transferred /\ transferred' = 0
      /\ reported \in Nat /\ transferred \in Nat
  BY DEF SmallInv, SmallTypeOK, Small!printThroughput
<1>2. reported' + transferred' = reported + transferred
  BY <1>1
<1> QED
  BY <1>1, <1>2 DEF Charged

LEMMA ChargedStep ==
  ASSUME SmallInv, program = "chargen", Charged, Small!Next
  PROVE  Charged'
<1>1. program' = program
  BY DEF Small!Next
<1>2. ASSUME NEW c \in Conn, Small!onConnectionUp(c) \/ Small!onConnectionDown(c) PROVE Charged'
  BY <1>1, <1>2, UpCharged, DownCharged
<1>3. ASSUME NEW c \in Conn, NEW k, Small!onMessage(c, k) PROVE Charged'
  BY <1>1, <1>3, MessageCharged
<1>4. ASSUME NEW l \in Loop, Small!onWriteComplete(l) \/ Small!printThroughput(l) PROVE Charged'
  BY <1>1, <1>4, WriteCompleteCharged, ThroughputCharged
<1>5. ASSUME Small!NetStep, UNCHANGED Small!state PROVE Charged'
  <2>1. UNCHANGED <<program, smallVars>>
    BY <1>1, <1>5 DEF Small!state, smallVars
  <2>2. ASSUME NEW l \in Loop, Small!SendQueued(l) PROVE FALSE
    BY <2>2, OnlyCallbacks
  <2>3. ASSUME NEW c \in Conn, Small!AllWritten(c) \/ Small!ShutdownInLoop(c) PROVE Charged'
    BY <2>1, <2>3, AllWrittenCharged, ShutCharged
  <2> QED
    BY <1>5, <2>2, <2>3 DEF Small!NetStep
<1> QED
  BY <1>2, <1>3, <1>4, <1>5 DEF Small!Next

LEMMA ChargedInitially == AnySmall => Charged
<1> SUFFICES ASSUME AnySmall PROVE Charged
  OBVIOUS
<1>1. /\ net.state = [c \in Conn |-> "idle"] /\ net.output = [c \in Conn |-> <<>>]
      /\ net.unwritten = [c \in Conn |-> FALSE] /\ net.queue = [l \in Loop |-> <<>>]
  BY DEF AnySmall, Chat!Network
<1>2. transferred = 0 /\ reported = 0
  BY DEF AnySmall, Small!Init
<1>3. InOwnLoop(net.loop, net.queue) /\ \A c \in Conn : ~Waits(net.queue, c)
  <2>1. 1 .. Len(<<>>) = {}
    OBVIOUS
  <2> QED
    BY <1>1, <2>1 DEF InOwnLoop, Waits
<1>4. Further(net.output) = {} /\ Spent(net.state, net.output, net.queue) = {}
  <2>1. 2 .. Len(<<>>) = {}
    OBVIOUS
  <2> QED
    BY <1>1, <2>1 DEF Further, Spent
<1>5. Cardinality({}) = 0 /\ 0 + 0 <= 0 + 0
  BY FS_EmptySet
<1> QED
  BY <1>1, <1>2, <1>3, <1>4, <1>5 DEF Charged

\* Each character stands once in each column of chargen's message.
LEMMA ColumnsFull ==
  \A i \in 1 .. 2 : {Small!message_[j][i] : j \in DOMAIN Small!message_} = 1 .. 3
<1>1. PICK line : line = [i \in 1 .. 6 |-> ((i - 1) % 3) + 1]
  OBVIOUS
<1>2. /\ line \in Seq(Int) /\ Len(line) = 6
      /\ line[1] = 1 /\ line[2] = 2 /\ line[3] = 3 /\ line[4] = 1
  BY <1>1
<1>3. Small!message_ = [i \in 1 .. 3 |-> SubSeq(line, i, i + 1)]
  BY <1>1 DEF Small!message_, Small!line
<1>4. \A j \in 1 .. 3 : SubSeq(line, j, j + 1)[1] = line[j] /\ SubSeq(line, j, j + 1)[2] = line[j + 1]
  BY <1>2
<1>5. PICK m : m = Small!message_
  OBVIOUS
<1>6. /\ DOMAIN m = 1 .. 3
      /\ m[1][1] = 1 /\ m[2][1] = 2 /\ m[3][1] = 3
      /\ m[1][2] = 2 /\ m[2][2] = 3 /\ m[3][2] = 1
  BY <1>2, <1>3, <1>4, <1>5
<1>7. 1 .. 3 = {1, 2, 3} /\ 1 .. 2 = {1, 2}
  OBVIOUS
<1>8. {m[j][1] : j \in {1, 2, 3}} = {1, 2, 3} /\ {m[j][2] : j \in {1, 2, 3}} = {1, 2, 3}
  BY <1>6
<1> QED
  BY <1>5, <1>6, <1>7, <1>8

\* What the invariant says of the property.
LEMMA SmallInvProperty ==
  SmallInv /\ (program = "chargen" => Charged) /\ (program = "maxconnection" => Small!CounterExact)
    => Small!AnsweredExactly
<1> SUFFICES ASSUME SmallInv, program = "chargen" => Charged,
                    program = "maxconnection" => Small!CounterExact
             PROVE  Small!AnsweredExactly
  OBVIOUS
<1>1. /\ program \in Small!Programs /\ net \in SmallNet /\ now \in Nat /\ \A c \in Conn : Standing(c)
  BY DEF SmallInv, SmallTypeOK
<1>2. ASSUME NEW c \in Conn
      PROVE  /\ program \in {"echo", "maxconnection"} => Small!EchoExact(c)
             /\ program = "finger" => Small!FingerExact(c)
             /\ program = "discard" => net.output[c] = <<>> /\ net.input[c] = <<>>
             /\ program = "daytime" => Small!GreetedOnce(c, [date |-> now])
             /\ program = "time" => Small!GreetedOnce(c, Small!hostToNetwork32(Small!toInt(now)))
             /\ program = "timeclient" => (net.received[c] # <<>> => Small!TimePrinted(c))
  <2>1. program \in {"echo", "maxconnection"} => Small!EchoExact(c)
    BY <1>1, FlattenedNone DEF Standing, EchoStands, Small!EchoExact
  <2>2. program = "finger" => Small!FingerExact(c)
    BY <1>1 DEF Standing, FingerStands, Small!FingerExact
  <2>3. program = "discard" => net.output[c] = <<>> /\ net.input[c] = <<>>
    BY <1>1 DEF Standing, DiscardStands
  <2>4. program = "daytime" => Small!GreetedOnce(c, [date |-> now])
    <3> SUFFICES ASSUME program = "daytime" PROVE Small!GreetedOnce(c, [date |-> now])
      OBVIOUS
    <3>1. Answer = {[date |-> now]}
      BY DEF Answer
    <3>2. (CHOOSE m \in Answer : TRUE) = [date |-> now]
      BY <3>1
    <3> QED
      BY <1>1, <3>2 DEF Standing, GreetedStands, Small!GreetedOnce
  <2>5. program = "time" => Small!GreetedOnce(c, Small!hostToNetwork32(Small!toInt(now)))
    <3> SUFFICES ASSUME program = "time" PROVE Small!GreetedOnce(c, TimeSent)
      BY DEF TimeSent
    <3>1. Answer = {TimeSent}
      BY DEF Answer, TimeSent
    <3>2. (CHOOSE m \in Answer : TRUE) = TimeSent
      BY <3>1
    <3> QED
      BY <1>1, <3>2 DEF Standing, GreetedStands, Small!GreetedOnce
  <2>6. program = "timeclient" => (net.received[c] # <<>> => Small!TimePrinted(c))
    <3> SUFFICES ASSUME program = "timeclient", net.received[c] # <<>> PROVE Small!TimePrinted(c)
      OBVIOUS
    <3>1. PICK i : i = Small!toInt(now)
      OBVIOUS
    <3>2. Small!networkToHost32(TimeSent) = i
      BY <1>1, <3>1, TimeIs
    <3>3. printed = <<>> \/ printed = <<i>>
      BY <1>1, <3>2 DEF Standing, ClientStands
    <3>4. Len(net.received[c]) = 2 => printed = <<i>>
      BY <1>1, <3>2 DEF Standing, ClientStands
    <3>5. Len(<<>>) = 0 /\ Len(<<i>>) = 1 /\ <<i>>[1] = i
      OBVIOUS
    <3> QED
      BY <3>1, <3>3, <3>4, <3>5 DEF Small!TimePrinted, Small!kIntLen
  <2> QED
    BY <2>1, <2>2, <2>3, <2>4, <2>5, <2>6
<1>3. program = "chargen" => Small!CharsFlow
  <2> SUFFICES ASSUME program = "chargen" PROVE Small!CharsFlow
    OBVIOUS
  <2>1. Flows
    BY DEF SmallInv
  <2>2. \A c \in Conn : net.state[c] = "connected" => Small!Completing(c)
    <3>1. net.queue \in [Loop -> Seq(Callback)]
      BY <1>1 DEF SmallNet
    <3>2. \A c \in Conn : Waits(net.queue, c) <=> Small!Queued(net, "writeComplete", c)
      BY <3>1, Callbacks DEF Small!Queued
    <3> QED
      BY <2>1, <3>2 DEF Flows, Small!Completing
  <2>3. Small!MapThenSumSet(LAMBDA c : Len(net.output[c]) - 1, {c \in Conn : net.output[c] # <<>>})
          = Cardinality(Further(net.output))
    <3>1. \A c \in Conn : Len(net.output[c]) \in Nat /\ (Len(net.output[c]) = 0 <=> net.output[c] = <<>>)
      <4>1. \A o \in Seq(Answer) : Len(o) \in Nat /\ (Len(o) = 0 <=> o = <<>>)
        OBVIOUS
      <4> QED
        BY <1>1, <4>1 DEF SmallNet
    <3> QED
      BY <2>1, <3>1, SumIs, Zenon DEF Flows, Written
  <2>4. Cardinality(Further(net.output)) <= reported + transferred
    BY <2>1 DEF Flows
  <2>5. PICK f, i : f = Cardinality(Further(net.output)) /\ i = reported + transferred
    OBVIOUS
  <2>6. PICK S, L : /\ S = Spent(net.state, net.output, net.queue)
                    /\ L = {c \in {c \in Conn : net.output[c] # <<>>} : net.state[c] # "connected"}
    OBVIOUS
  <2>7. /\ f \in Nat /\ i \in Nat /\ f <= i /\ i <= f + Cardinality(S)
        /\ IsFiniteSet(S) /\ Cardinality(S) \in Nat
    <3>1. i <= f + Cardinality(S)
      BY <2>5, <2>6 DEF Charged
    <3>2. reported \in Nat /\ transferred \in Nat
      BY Counts
    <3> QED
      BY <2>4, <2>5, <2>6, <3>1, <3>2, Counts
  <2>8. IsFiniteSet(L) /\ Cardinality(L) \in Nat /\ Cardinality(S) <= Cardinality(L)
    <3>1. L \subseteq Written(net.output) /\ S \subseteq L
      BY <2>6 DEF Written, Spent
    <3>2. IsFiniteSet(Written(net.output))
      BY <2>1 DEF Flows
    <3>3. IsFiniteSet(L)
      BY <3>1, <3>2, FS_Subset
    <3> QED
      BY <3>1, <3>3, FS_Subset, FS_CardinalityType
  <2>9. i \in f .. f + Cardinality(L)
    BY <2>7, <2>8
  <2>10. Small!Cardinality(L) = Cardinality(L)
    BY Zenon DEF Small!Cardinality, Cardinality
  <2> QED
    BY <2>2, <2>3, <2>5, <2>6, <2>9, <2>10, ColumnsFull, Zenon DEF Small!CharsFlow
<1>4. \A c \in Conn :
        CASE program \in {"echo", "maxconnection"} -> Small!EchoExact(c)
          [] program = "finger"     -> Small!FingerExact(c)
          [] program = "discard"    -> net.output[c] = <<>> /\ net.input[c] = <<>>
          [] program = "daytime"    -> Small!GreetedOnce(c, [date |-> now])
          [] program = "time"       -> Small!GreetedOnce(c, Small!hostToNetwork32(Small!toInt(now)))
          [] program = "timeclient" -> net.received[c] # <<>> => Small!TimePrinted(c)
          [] program = "chargen"    -> Small!CharsFlow
  BY <1>1, <1>2, <1>3 DEF Small!Programs
<1> QED
  BY <1>4 DEF Small!AnsweredExactly

--------------------------------------------------------------------------------
SmallRuns ==
  /\ program \in Small!Programs => SmallInv
  /\ program = "chargen" => Charged
  /\ CountRuns

LEMMA SmallRunsNext == SmallRuns /\ [Next]_vars => SmallRuns'
<1> SUFFICES ASSUME SmallRuns, [Next]_vars, program' \in Small!Programs'
    PROVE  SmallInv' /\ (program' = "chargen" => Charged')
  BY CountRunsNext DEF SmallRuns, Small!Programs
<1>1. program \in Small!Programs /\ (Small!Next \/ UNCHANGED vars)
  <2>1. Small!Programs' = Small!Programs
    BY DEF Small!Programs
  <2>2. \/ UNCHANGED vars
        \/ program \in Small!Programs /\ Small!Next
        \/ program' = program /\ program \notin Small!Programs
    BY DEF Next, Files!Next, Sudoku!Next, Chat!Next,
           Chat!Programs, Sudoku!Programs, Files!Programs, Small!Programs
  <2> QED
    BY <2>1, <2>2 DEF vars
<1>2. SmallInv /\ (program = "chargen" => Charged)
  BY <1>1 DEF SmallRuns
<1>3. CASE Small!Next
  <2>1. program' = program
    BY <1>3 DEF Small!Next
  <2> QED
    BY <1>2, <1>3, <2>1, SmallInvStep, ChargedStep
<1>4. CASE UNCHANGED vars
  <2>1. UNCHANGED <<program, net, smallVars>>
    BY <1>4 DEF vars
  <2>2. UNCHANGED <<program, net, transferred, reported>>
    BY <2>1 DEF smallVars
  <2>3. program = "chargen" => Charged'
    BY <1>2, <2>2 DEF Charged
  <2> QED
    BY <1>2, <2>1, <2>2, <2>3, SmallInvStutter
<1> QED
  BY <1>1, <1>3, <1>4

LEMMA SmallRunsProperty == SmallRuns => AnsweredExactly
<1>1. SmallRuns => (program = "maxconnection" => Small!CounterExact)
  BY CountedProperty DEF SmallRuns, CountRuns
<1> QED
  BY <1>1, SmallInvProperty DEF SmallRuns, AnsweredExactly

LEMMA AnySmallRuns == AnySmall => SmallRuns
<1> SUFFICES ASSUME AnySmall PROVE SmallRuns
  OBVIOUS
<1>1. SmallInv
  BY SmallInitially
<1>c. Charged
  BY ChargedInitially
<1>2. Small!Init /\ Shaped(net) /\ net.state = [c \in Conn |-> "idle"]
  <2>1. \E loop, stream : net = Chat!Network(loop, stream, program = "chargen")
    BY DEF AnySmall
  <2>2. Small!Init
    BY DEF AnySmall
  <2> QED
    BY <2>1, <2>2 DEF Chat!Network, Shaped
<1>3. CountRuns
  BY <1>2, CountedInitially DEF CountRuns
<1> QED
  BY <1>1, <1>c, <1>3 DEF SmallRuns

LEMMA SmallRunsInit == Init => SmallRuns
<1> SUFFICES ASSUME Init PROVE SmallRuns
  OBVIOUS
<1>1. CASE program \in Small!Programs
  <2>1. SmallInit /\ Small!Init
    BY <1>1 DEF Init, ChatInit, SudokuInit, SolverInit, FilesInit,
           Chat!Programs, Sudoku!Programs, Files!Programs, Small!Programs
  <2>2. now \in Nat
    BY <2>1 DEF SmallInit
  <2>3. PICK stream : stream = IF program = "timeclient" THEN Streams(TimeSent, <<>>)
                               ELSE Streams(<<97, 120, 13, 10, 98, 13, 10>>, <<13, 98, 10, 13, 10>>)
    OBVIOUS
  <2>4. /\ TimeSent \in Seq(Int) /\ <<>> \in Seq(Int)
        /\ <<97, 120, 13, 10, 98, 13, 10>> \in Seq(Int) /\ <<13, 98, 10, 13, 10>> \in Seq(Int)
    BY <2>2, TimeIs
  <2>5. stream \in [Conn -> Seq(Int)]
    BY <2>3, <2>4 DEF Streams
  <2>6. program = "timeclient" => \A c \in Conn : stream[c] = IF c = oneConn THEN TimeSent ELSE <<>>
    BY <2>3 DEF Streams
  <2>7. net = Chat!Network(OneLoop, stream, program = "chargen")
    <3>1. Chat!hostToNetwork32(Small!toInt(now)) = TimeSent
      BY DEF TimeSent, Chat!hostToNetwork32, Small!hostToNetwork32
    <3> QED
      BY <2>1, <2>3, <3>1 DEF SmallInit
  <2>8. AnySmall
    BY <1>1, <2>1, <2>2, <2>5, <2>6, <2>7, LoopsTyped DEF AnySmall
  <2> QED
    BY <2>8, AnySmallRuns
<1>2. CASE program \notin Small!Programs
  BY <1>2 DEF SmallRuns, CountRuns, Small!Programs
<1> QED
  BY <1>1, <1>2

(* Whatever pieces the input comes in and however connections come and go, *)
(* each connection of the small servers is given exactly what its input    *)
(* calls for: its echo, the answer to its first line once, the time once;  *)
(* the client prints the time that was sent; chargen is never stuck and    *)
(* counts each message that it wrote after another once, and at most one   *)
(* more for a connection that went down.                                   *)
THEOREM AnswersExact == Spec => []AnsweredExactly
<1> QED
  BY SmallRunsInit, SmallRunsNext, SmallRunsProperty, PTL DEF Spec

(* The same for any input, any time and any limit, on any loops.           *)
THEOREM AnswersExactAny == AnySmall /\ [][Next]_vars => []AnsweredExactly
<1> QED
  BY AnySmallRuns, SmallRunsNext, SmallRunsProperty, PTL
=============================================================================
