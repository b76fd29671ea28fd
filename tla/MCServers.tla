----------------------------- MODULE MCServers ------------------------------
(***************************************************************************)
(* The servers of ch06 and ch07, one of them at a time.                    *)
(***************************************************************************)
EXTENDS Integers, Sequences, FiniteSets, TLC
CONSTANTS Conn, Loop, Worker, NoConn,
          kMaxLen, kTooLong, kMaxConnections,
          FileSizes    \* the blocks of the files that are served

ASSUME ServersAssumption == /\ NoConn \notin Conn /\ Loop # {} /\ IsFiniteSet(Loop)
                            /\ kMaxConnections \in Nat /\ FileSizes \subseteq Nat

VARIABLES program, net,
          connections, walk, delivered, joined,
          tasks, working,
          board, nodes, stack, at, mode,
          file, fp, context, late,
          now, numConnected, rejected, printed, transferred, reported

oneConn == CHOOSE c \in Conn : TRUE
oneLoop == CHOOSE l \in Loop : TRUE
OneLoop == [c \in Conn |-> oneLoop]
nextLoop == CHOOSE l \in Loop : l # oneLoop \/ Loop = {oneLoop}
Loops   == [c \in Conn |-> IF c = oneConn THEN oneLoop ELSE nextLoop]
Streams(of1, of2) == [c \in Conn |-> IF c = oneConn THEN of1 ELSE of2]

(***************************************************************************)
(* Chat: a client that writes two lines, and one whose second line is      *)
(* empty or too long, or whose first has a negative length.                *)
(***************************************************************************)
Chat == INSTANCE ChatServer
chatVars == <<connections, walk, delivered, joined>>

ChatInit ==
  \E of2 \in {Chat!Frame(<<21>>) \o Chat!Frame(<<>>),
              Chat!Frame(<<21>>) \o Chat!Frame(<<22, 22, 22>>),
              <<3, 3>> \o Chat!Frame(<<21>>)} :
    /\ program \in Chat!Programs
    /\ net = Chat!Network(IF program = "server" THEN OneLoop ELSE Loops,
                          Streams(Chat!Frame(<<11>>) \o Chat!Frame(<<12, 13>>), of2), FALSE)

(***************************************************************************)
(* Sudoku, with boards of four by four: one that has a solution, one that  *)
(* has none, one that is no board; the solver is tried on more.  Ids of    *)
(* none to three digits, of which three are too many for some pieces, a    *)
(* line with too short a puzzle, and an empty line.                        *)
(***************************************************************************)
BoardOf ==
  (<<65, 65>> :> <<1,0,0,0, 0,0,3,0, 0,1,0,0, 0,0,0,2>>) @@
  (<<66, 66>> :> <<1,1,0,4, 3,4,1,2, 2,1,4,3, 4,3,2,1>>) @@
  (<<67, 67>> :> <<1,9,0,4, 3,4,1,2, 2,1,4,3, 4,3,2,1>>)
ResultOf ==
  (<<65, 65>> :> <<1,3,2,4, 4,2,3,1, 2,1,4,3, 3,4,1,2>>) @@
  (<<66, 66>> :> <<>>) @@
  (<<67, 67>> :> <<>>)
Solver == INSTANCE SudokuSolver WITH Box <- 2
solverVars == <<board, nodes, stack, at, mode>>
Sudoku == INSTANCE SudokuServer WITH kPuzzle <- 2, solveSudoku <- ResultOf
sudokuVars == <<tasks, working>>

Boards ==
  {<<1,0,0,0, 0,0,3,0, 0,1,0,0, 0,0,0,2>>, <<1,0,0,0, 0,0,3,0, 0,1,0,0, 0,0,0,1>>,
   <<1,2,3,4, 3,4,1,2, 2,1,4,3, 4,3,2,1>>, <<1,1,3,4, 3,4,1,2, 2,1,4,3, 4,3,2,1>>,
   <<0,2,3,4, 3,4,1,2, 2,1,4,3, 4,3,2,0>>, <<1,2,0,0, 0,0,1,3, 0,0,0,0, 0,0,0,0>>,
   <<1,2,3,4, 0,0,0,0, 0,0,0,0, 4,3,2,1>>, <<1,2,3,4, 3,4,0,0, 0,0,0,0, 0,0,4,3>>}
  \cup {BoardOf[p] : p \in DOMAIN BoardOf}

SolverInit ==
  /\ program = "solver"
  /\ net = Chat!Network(OneLoop, Streams(<<>>, <<>>), FALSE)
  /\ board \in Boards
  /\ Solver!Init
NoSolver == board = <<>> /\ nodes = <<>> /\ stack = <<>> /\ at = Solver!root /\ mode = "none"

A == <<65, 65, 13, 10>>
SudokuInit ==
  \E of1 \in {<<49, 58>> \o A \o <<50, 58, 66, 66, 13, 10>>, <<49, 58, 65, 13, 10>> \o A},
     of2 \in {A \o <<13, 10>> \o A, <<51, 51, 51, 58, 67, 67, 13, 10>> \o A} :
    /\ program \in Sudoku!Programs
    /\ net = Chat!Network(IF program = "multiloop" THEN Loops ELSE OneLoop, Streams(of1, of2), FALSE)

(***************************************************************************)
(* Files of so many blocks, and one that cannot be opened.                 *)
(***************************************************************************)
Files == INSTANCE FileTransfer
filesVars == <<file, fp, context, late>>

FilesInit ==
  /\ program \in Files!Programs
  /\ file \in {Files!Missing} \cup {[i \in 1 .. n |-> i] : n \in FileSizes}
  /\ net = Chat!Network(OneLoop, Streams(<<>>, <<>>), program # "download")

(***************************************************************************)
(* The small servers: a user who is known and one who is not, times that   *)
(* fit and do not fit into the integer of the wire, one connection too     *)
(* many.                                                                   *)
(***************************************************************************)
Small == INSTANCE SmallServers WITH
           kChars <- 3, kWidth <- 2, kMaxSent <- 3
smallVars == <<now, numConnected, rejected, printed, transferred, reported>>

SmallInit ==
  /\ program \in Small!Programs
  /\ now \in IF program \in {"time", "timeclient"} THEN {0, 7, 8} ELSE {7}
  /\ net = Chat!Network(OneLoop,
               IF program = "timeclient" THEN Streams(Chat!hostToNetwork32(Small!toInt(now)), <<>>)
               ELSE Streams(<<97, 120, 13, 10, 98, 13, 10>>, <<13, 98, 10, 13, 10>>),
               program = "chargen")

----------------------------------------------------------------------------
Init ==
  /\ \/ (ChatInit \/ SudokuInit) /\ file = <<>> /\ now = 0 /\ NoSolver
     \/ SolverInit /\ file = <<>> /\ now = 0
     \/ FilesInit /\ now = 0 /\ NoSolver
     \/ SmallInit /\ file = <<>> /\ NoSolver
  /\ Chat!Init /\ Sudoku!Init /\ Files!Init /\ Small!Init
Next ==
  \/ program \in Chat!Programs /\ Chat!Next /\ UNCHANGED <<sudokuVars, solverVars, filesVars, smallVars>>
  \/ program \in Sudoku!Programs /\ Sudoku!Next /\ UNCHANGED <<chatVars, solverVars, filesVars, smallVars>>
  \/ program = "solver" /\ Solver!Next /\ UNCHANGED <<program, net, chatVars, sudokuVars, filesVars, smallVars>>
  \/ program \in Files!Programs /\ Files!Next /\ UNCHANGED <<chatVars, sudokuVars, solverVars, smallVars>>
  \/ program \in Small!Programs /\ Small!Next /\ UNCHANGED <<chatVars, sudokuVars, solverVars, filesVars>>
vars == <<program, net, chatVars, sudokuVars, solverVars, filesVars, smallVars>>
Spec == Init /\ [][Next]_vars

\* The solver is right, and is what the servers have for it.
BoardsSolved ==
  /\ Solver!SolvedRight
  /\ Solver!Ended => \A p \in DOMAIN BoardOf : BoardOf[p] = board => Solver!Result = ResultOf[p]

\* See the modules.
FramesDelivered   == program \in Chat!Programs => Chat!FramesDelivered
BroadcastComplete == program \in Chat!Programs => Chat!BroadcastComplete
RepliesMatch      == /\ program \in Sudoku!Programs => Sudoku!RepliesMatch
                     /\ program = "solver" => BoardsSolved
FileArrivesWhole  == program \in Files!Programs => Files!FileArrivesWhole
AnsweredExactly   == program \in Small!Programs => Small!AnsweredExactly
=============================================================================
