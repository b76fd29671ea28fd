---------------------------- MODULE SudokuServer ----------------------------
(***************************************************************************)
(* The sudoku servers of ch06: requests are lines <id>:<puzzle> or         *)
(* <puzzle>, and the answer is <id>:<result> or <result>.  "basic" solves  *)
(* in its only loop, "multiloop" in the loop of the connection,            *)
(* "threadpool" in the workers of a ThreadPool, whose run() is the task    *)
(* itself when there are no workers ("threadless").                        *)
(*                                                                         *)
(* A puzzle is kPuzzle bytes that name a board (81 in the code, where they *)
(* are the board), and solveSudoku is the table of what SudokuSolver       *)
(* computes for them.  The pool is what ThreadPool promises: a queue from  *)
(* which each task is taken once, in order.                                *)
(***************************************************************************)
EXTENDS Net, FiniteSetsExt

CONSTANTS Worker, solveSudoku,
          kPuzzle,    \* kCells in the servers
          kTooLong    \* 100 in the code

VARIABLES tasks, working

vars == <<program, net, tasks, working>>

Programs == {"basic", "multiloop", "threadpool", "threadless"}

CR == 13  LF == 10  Colon == 58
BadRequest == [error |-> "Bad Request!"]
IdTooLong  == [error |-> "Id too long!"]
NoTask     == [conn |-> NoConn]

CRLFs(buf)   == {i \in 1 .. Len(buf) - 1 : buf[i] = CR /\ buf[i + 1] = LF}
HasCRLF(buf) == CRLFs(buf) # {}
Line(buf)    == SubSeq(buf, 1, Min(CRLFs(buf)) - 1)

AfterLine(buf) == EndOf(buf, Min(CRLFs(buf)) + 1)

\* processRequest: what stands before the first colon, if any, and after it.
Colons(line) == {i \in DOMAIN line : line[i] = Colon}
IdOf(line)     == IF Colons(line) = {} THEN <<>> ELSE SubSeq(line, 1, Min(Colons(line)) - 1)
PuzzleOf(line) == IF Colons(line) = {} THEN line ELSE EndOf(line, Min(Colons(line)))
IsRequest(line) == Len(PuzzleOf(line)) = kPuzzle

\* solve().
Answer(line) == [id |-> IdOf(line), result |-> solveSudoku[PuzzleOf(line)]]

Init ==
  /\ tasks = <<>>
  /\ working = [w \in Worker |-> NoTask]

\* onConnection only logs.
onConnection(c) ==
  /\ \/ MayConnect(c) /\ net' = connected(net, c)
     \/ MayClose(c) /\ net' = disconnected(net, c)
  /\ UNCHANGED <<tasks, working>>

\* onMessage begins, with k more bytes in the buffer.
onMessage(c, k) ==
  /\ MayRead(c, k)
  /\ net' = [arrived(net, c, k) EXCEPT !.reading[net.loop[c]] = c]
  /\ UNCHANGED <<tasks, working>>

\* One turn of its while: a line, which is good or ends the loop ...
Return(n, l) == [n EXCEPT !.reading[l] = NoConn]
Refuse(n, l, c, error) == Return(shutdown(send(n, l, c, error), c), l)

\* processRequest() of a good line, which the pool's threads or this one solve.
Submit(n, c, line) == net' = n /\ tasks' = Append(tasks, [conn |-> c, line |-> line])
SolveHere(n, l, c, line) == net' = send(n, l, c, Answer(line)) /\ tasks' = tasks

Request(l, c) ==
  LET line == Line(net.input[c])
      n    == [net EXCEPT !.input[c] = AfterLine(@)]
  IN  /\ Len(net.input[c]) >= kPuzzle + 2 /\ HasCRLF(net.input[c])
      /\ IF ~IsRequest(line)
         THEN net' = Refuse(n, l, c, BadRequest) /\ tasks' = tasks
         ELSE IF program = "threadpool"
         THEN Submit(n, c, line)
         ELSE SolveHere(n, l, c, line)

\* ... or none yet, which may go on for too long ...
TooLong(l, c) ==
  /\ Len(net.input[c]) >= kPuzzle + 2 /\ ~HasCRLF(net.input[c]) /\ Len(net.input[c]) > kTooLong
  /\ net' = Refuse(net, l, c, IdTooLong)
  /\ tasks' = tasks

\* ... or not.
TooShort(l, c) ==
  /\ ~(Len(net.input[c]) >= kPuzzle + 2 /\ (HasCRLF(net.input[c]) \/ Len(net.input[c]) > kTooLong))
  /\ net' = Return(net, l)
  /\ tasks' = tasks

TakeTask(w) ==
  /\ tasks # <<>> /\ working[w] = NoTask
  /\ working' = [working EXCEPT ![w] = Head(tasks)]
  /\ tasks' = Tail(tasks)
  /\ net' = net

\* The worker's solve(): its send() may find the connection shut down or gone.
SolveTask(w) ==
  /\ working[w] # NoTask
  /\ net' = send(net, w, working[w].conn, Answer(working[w].line))
  /\ working' = [working EXCEPT ![w] = NoTask]
  /\ tasks' = tasks

Next ==
  /\ \/ \E c \in Conn : onConnection(c)
     \/ \E c \in Conn : \E k \in DOMAIN net.arriving[c] : onMessage(c, k)
     \/ \E l \in Loop : \E c \in {net.reading[l]} \cap Conn :
          (Request(l, c) \/ TooLong(l, c) \/ TooShort(l, c)) /\ UNCHANGED working
     \/ \E w \in Worker : TakeTask(w) \/ SolveTask(w)
     \/ NetStep /\ UNCHANGED <<tasks, working>>
  /\ UNCHANGED program

----------------------------------------------------------------------------
\* The lines of a text, and what comes after the last.
Lines(text) ==
  LET from[k \in 0 .. Len(text)] ==
        LET rest == EndOf(text, k)
        IN  IF ~HasCRLF(rest) THEN <<rest>> ELSE <<Line(rest)>> \o from[k + Min(CRLFs(rest)) + 1]
  IN  from[0]

Count(seq, x) == Cardinality({i \in DOMAIN seq : seq[i] = x})

\* The replies to a connection are the answers to the lines it has sent up to
\* the first that is refused, whatever the pieces in which they come: in their
\* order, or, from a pool, each once in any order.  A line is refused when it
\* is no request, or, if it comes in pieces, when it is too long, and when one
\* is, the replies from the pool that are not yet out may be lost with the
\* rest.  As long as none is, all are answered when nothing is under way but
\* less than a request (server_basic.cpp:51-73, server_threadpool.cpp:55-122).
RepliesMatch ==
  \A c \in Conn :
    LET read    == SubSeq(net.received[c], 1, Len(net.received[c]) - Len(net.input[c]))
        pieces  == Lines(read)
        lines   == SubSeq(pieces, 1, Len(pieces) - 1)
        bad     == {i \in DOMAIN lines : ~IsRequest(lines[i])}
        good    == SubSeq(lines, 1, IF bad = {} THEN Len(lines) ELSE Min(bad) - 1)
        answers == [i \in DOMAIN good |-> Answer(good[i])]
        refused == SelectSeq(net.output[c], LAMBDA m : "error" \in DOMAIN m)
        replies == SelectSeq(net.output[c], LAMBDA m : "error" \notin DOMAIN m)
        idle    == net.state[c] = "connected" /\ net.reading[net.loop[c]] # c
        quiet   == tasks = <<>> /\ (\A w \in Worker : working[w] = NoTask) /\ ~Queued(net, "send", c)
    IN  /\ IF program = "threadpool"
           THEN \A i \in DOMAIN replies : Count(replies, replies[i]) <= Count(answers, replies[i])
           ELSE net.output[c] = replies \o refused /\ Begins(replies, answers)
        /\ idle => Len(good) = Len(lines) /\ Len(net.input[c]) <= Max({kTooLong, kPuzzle + 1})
        /\ idle /\ (program = "threadpool" => quiet) =>
             /\ refused = <<>>
             /\ \A i \in DOMAIN answers : Count(replies, answers[i]) = Count(answers, answers[i])
             /\ HasCRLF(net.input[c]) => Len(net.input[c]) < kPuzzle + 2
        /\ Len(refused) <= 1
        /\ refused = <<BadRequest>> /\ program # "threadpool" => bad # {} /\ replies = answers
        /\ refused = <<IdTooLong>> /\ program # "threadpool" =>
             Len(Lines(net.received[c])[Len(replies) + 1]) + 2 > kTooLong
=============================================================================
