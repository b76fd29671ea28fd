------------------------------- MODULE LoggingProofs -------------------------------
(***************************************************************************)
(* Proofs about AsyncLogging, for any bound on the backlog (two buffers or *)
(* more) and any number of messages, and about the LogFile that its back   *)
(* end writes to, for any sizes, intervals and clock.                      *)
(***************************************************************************)
EXTENDS AsyncLogging, LogFile, Integers, SequenceTheorems, TLAPS

(***************************************************************************)
(* AsyncLogging.                                                           *)
(***************************************************************************)
Message == Nat \ {0}
Buffer == Seq(Message)

LoggerTypeOK ==
  /\ current \in Buffer /\ buffers \in Seq(Buffer) /\ toWrite \in Seq(Buffer)
  /\ file \in Seq(Buffer \cup {Notice})
  /\ written \in 0..2
  /\ backend \in BackendPlaces
  /\ appended \in Nat /\ oversized \subseteq 1..appended /\ dropped \subseteq 1..appended

(* The buffers a round of the back end gives out come back at its end.    *)
(* Before the thread exists there is nothing to write either.             *)
RecycleInv == LoggerTypeOK /\ BuffersRecycled /\ (backend = "none" => toWrite = <<>>)

(* Messages are in the order of their numbers within a buffer, within a   *)
(* sequence of buffers, and from one stage of the pipeline to the next.   *)
Increasing(b) == \A k, l \in 1..Len(b) : k < l => b[k] < b[l]
Below(A, B) == \A x \in A \ {0}, y \in B \ {0} : x < y
InOrder(bs) == /\ \A i \in 1..Len(bs) : Increasing(bs[i])
               /\ \A i, j \in 1..Len(bs) : i < j => Below(Contents(bs[i]), Contents(bs[j]))

StagesInOrder ==
  /\ InOrder(file) /\ InOrder(toWrite) /\ InOrder(buffers) /\ Increasing(current)
  /\ Below(AllContents(file), AllContents(toWrite))
  /\ Below(AllContents(file), AllContents(buffers))
  /\ Below(AllContents(file), Contents(current))
  /\ Below(AllContents(toWrite), AllContents(buffers))
  /\ Below(AllContents(toWrite), Contents(current))
  /\ Below(AllContents(buffers), Contents(current))

InPipeline == AllContents(file) \cup AllContents(toWrite) \cup AllContents(buffers) \cup Contents(current)
Accounted == InPipeline \ {0} = (1..appended) \ (oversized \cup dropped)

(* The notice of a dropped message: at most the two buffers behind it may *)
(* be older than the message, in the file or still to be written.         *)
Announces(i, m) ==
  /\ file[i] = Notice
  /\ \A j \in 1..(i - 1) : \A x \in Contents(file[j]) : x < m
  /\ \A j \in (i + 3)..Len(file) : \A x \in Contents(file[j]) \ {0} : x > m
  /\ \A k \in 1..Len(toWrite) :
       Len(file) + k >= i + 3 \/ Len(toWrite) > MaxBacklog => \A x \in Contents(toWrite[k]) : x > m
  /\ \A x \in AllContents(buffers) \cup Contents(current) : x > m
Announced == \A m \in dropped : \E i \in 1..Len(file) : Announces(i, m)

LoggerInv == RecycleInv /\ StagesInOrder /\ Accounted /\ Announced

--------------------------------------------------------------------------------
(* What Append, Tail and SubSeq do to the contents and to their order. *)
LEMMA AppendContents == ASSUME NEW S, NEW b \in Seq(S), NEW x
                        PROVE  Contents(Append(b, x)) = Contents(b) \cup {x}
  BY DEF Contents

LEMMA AppendAllContents ==
  ASSUME NEW S, NEW bs \in Seq(S), NEW b
  PROVE  AllContents(Append(bs, b)) = AllContents(bs) \cup Contents(b)
<1> DEFINE cs == Append(bs, b)
<1>1. /\ Len(bs) \in Nat /\ 1..Len(cs) = 1..Len(bs) \cup {Len(bs) + 1}
      /\ \A i \in 1..Len(bs) : cs[i] = bs[i]
      /\ cs[Len(bs) + 1] = b
  OBVIOUS
<1> HIDE DEF cs
<1>2. ASSUME NEW x \in AllContents(cs)
      PROVE  x \in AllContents(bs) \cup Contents(b)
  <2>1. PICK i \in 1..Len(cs) : x \in Contents(cs[i])
    BY DEF AllContents
  <2> QED
    BY <1>1, <2>1 DEF AllContents
<1>3. ASSUME NEW x \in AllContents(bs) \cup Contents(b)
      PROVE  x \in AllContents(cs)
  BY <1>1, <1>3 DEF AllContents
<1>4. AllContents(cs) = AllContents(bs) \cup Contents(b)
  BY <1>2, <1>3
<1> QED
  BY <1>4 DEF cs

LEMMA HeadTailContents ==
  ASSUME NEW S, NEW bs \in Seq(S), bs # <<>>
  PROVE  AllContents(bs) = Contents(Head(bs)) \cup AllContents(Tail(bs))
<1> DEFINE cs == Tail(bs)
<1>1. /\ Len(bs) \in Nat /\ Len(bs) >= 1 /\ Len(cs) = Len(bs) - 1
      /\ \A i \in 1..Len(cs) : cs[i] = bs[i + 1]
      /\ Head(bs) = bs[1]
  OBVIOUS
<1> HIDE DEF cs
<1>2. ASSUME NEW x \in AllContents(bs)
      PROVE  x \in Contents(bs[1]) \cup AllContents(cs)
  <2>1. PICK i \in 1..Len(bs) : x \in Contents(bs[i])
    BY DEF AllContents
  <2>2. CASE i # 1
    <3>1. i - 1 \in 1..Len(cs) /\ cs[i - 1] = bs[i]
      BY <1>1, <2>2
    <3> QED
      BY <2>1, <3>1 DEF AllContents
  <2> QED
    BY <2>1, <2>2
<1>3. ASSUME NEW x \in AllContents(cs)
      PROVE  x \in AllContents(bs)
  <2>1. PICK i \in 1..Len(cs) : x \in Contents(cs[i])
    BY DEF AllContents
  <2>2. i + 1 \in 1..Len(bs) /\ bs[i + 1] = cs[i]
    BY <1>1
  <2> QED
    BY <2>1, <2>2 DEF AllContents
<1>4. Contents(bs[1]) \subseteq AllContents(bs)
  <2>1. 1 \in 1..Len(bs)
    BY <1>1
  <2> QED
    BY <2>1 DEF AllContents
<1>5. AllContents(bs) = Contents(bs[1]) \cup AllContents(cs)
  BY <1>2, <1>3, <1>4
<1> QED
  BY <1>1, <1>5 DEF cs

LEMMA ContentsWithin == ASSUME NEW bs, NEW i \in 1..Len(bs)
                        PROVE  Contents(bs[i]) \subseteq AllContents(bs)
  BY DEF AllContents

LEMMA AppendIncreasing ==
  ASSUME NEW b \in Buffer, NEW x \in Message, Increasing(b), Below(Contents(b), {x})
  PROVE  Append(b, x) \in Buffer /\ Increasing(Append(b, x))
  BY DEF Increasing, Below, Contents, Buffer, Message

LEMMA AppendInOrder ==
  ASSUME NEW S, NEW bs \in Seq(S), NEW b, InOrder(bs), Increasing(b),
         Below(AllContents(bs), Contents(b))
  PROVE  InOrder(Append(bs, b))
<1> DEFINE cs == Append(bs, b)
<1>1. /\ Len(bs) \in Nat /\ Len(cs) = Len(bs) + 1
      /\ \A i \in 1..Len(bs) : cs[i] = bs[i] /\ Contents(bs[i]) \subseteq AllContents(bs)
      /\ cs[Len(bs) + 1] = b
  BY ContentsWithin
<1> HIDE DEF cs
<1>2. \A i \in 1..Len(cs) : Increasing(cs[i])
  BY <1>1 DEF InOrder
<1>3. ASSUME NEW i \in 1..Len(cs), NEW j \in 1..Len(cs), i < j
      PROVE  Below(Contents(cs[i]), Contents(cs[j]))
  <2>1. CASE j \in 1..Len(bs)
    BY <1>1, <1>3, <2>1 DEF InOrder
  <2>2. CASE j = Len(bs) + 1
    <3>1. i \in 1..Len(bs) /\ cs[i] = bs[i] /\ cs[j] = b
      BY <1>1, <1>3, <2>2
    <3> QED
      BY <1>1, <3>1 DEF Below
  <2> QED
    BY <1>1, <2>1, <2>2
<1>4. InOrder(cs)
  BY <1>2, <1>3 DEF InOrder
<1> QED
  BY <1>4 DEF cs

LEMMA TailInOrder ==
  ASSUME NEW S, NEW bs \in Seq(S), bs # <<>>, InOrder(bs)
  PROVE  /\ InOrder(Tail(bs)) /\ Increasing(Head(bs))
         /\ Below(Contents(Head(bs)), AllContents(Tail(bs)))
<1> DEFINE cs == Tail(bs)
<1>1. /\ Len(bs) \in Nat /\ Len(bs) >= 1 /\ Len(cs) = Len(bs) - 1
      /\ \A i \in 1..Len(cs) : cs[i] = bs[i + 1]
      /\ Head(bs) = bs[1]
  OBVIOUS
<1> HIDE DEF cs
<1>2. \A i \in 1..Len(cs) : i + 1 \in 1..Len(bs)
  BY <1>1
<1>3. InOrder(cs)
  BY <1>1, <1>2 DEF InOrder
<1>4. ASSUME NEW x \in Contents(bs[1]) \ {0}, NEW y \in AllContents(cs) \ {0}
      PROVE  x < y
  <2>1. PICK i \in 1..Len(cs) : y \in Contents(cs[i])
    BY DEF AllContents
  <2>2. Below(Contents(bs[1]), Contents(bs[i + 1]))
    BY <1>1, <1>2 DEF InOrder
  <2> QED
    BY <1>1, <2>1, <2>2 DEF Below
<1>5. Increasing(bs[1]) /\ Below(Contents(bs[1]), AllContents(cs))
  BY <1>1, <1>4 DEF InOrder, Below
<1> QED
  BY <1>1, <1>3, <1>5 DEF cs

LEMMA FirstTwoInOrder ==
  ASSUME NEW S, NEW bs \in Seq(S), Len(bs) >= 2, InOrder(bs)
  PROVE  /\ SubSeq(bs, 1, 2) \in Seq(S) /\ Len(SubSeq(bs, 1, 2)) = 2
         /\ InOrder(SubSeq(bs, 1, 2))
         /\ AllContents(SubSeq(bs, 1, 2)) \subseteq AllContents(bs)
<1> DEFINE cs == SubSeq(bs, 1, 2)
<1>1. /\ cs \in Seq(S) /\ Len(cs) = 2
      /\ \A i \in 1..2 : cs[i] = bs[i] /\ i \in 1..Len(bs)
  OBVIOUS
<1> HIDE DEF cs
<1>2. InOrder(cs)
  BY <1>1 DEF InOrder
<1>3. AllContents(cs) \subseteq AllContents(bs)
  BY <1>1 DEF AllContents
<1> QED
  BY <1>1, <1>2, <1>3 DEF cs

(* Every message in the pipeline is an earlier one than the next append()'s, *)
(* and the notice is the only thing in it that is no message.                *)
LEMMA PipelineBounds ==
  ASSUME LoggerInv
  PROVE  /\ AllContents(toWrite) \subseteq 1..appended
         /\ AllContents(buffers) \subseteq 1..appended
         /\ Contents(current) \subseteq 1..appended
         /\ AllContents(file) \subseteq 0..appended
<1>1. appended \in Nat /\ InPipeline \ {0} \subseteq 1..appended
  BY DEF LoggerInv, RecycleInv, LoggerTypeOK, Accounted
<1>2. \A b \in Buffer : 0 \notin Contents(b)
  BY DEF Buffer, Contents, Message
<1>3. \A bs \in Seq(Buffer) : 0 \notin AllContents(bs)
  BY <1>2 DEF AllContents
<1>4. 0 \notin AllContents(toWrite) /\ 0 \notin AllContents(buffers) /\ 0 \notin Contents(current)
  BY <1>2, <1>3 DEF LoggerInv, RecycleInv, LoggerTypeOK
<1>5. 1..appended \cup {0} \subseteq 0..appended
  BY <1>1
<1> QED
  BY <1>1, <1>4, <1>5 DEF InPipeline

LEMMA EmptyContents == Contents(<<>>) = {} /\ AllContents(<<>>) = {}
  BY DEF Contents, AllContents

LEMMA LoggerInit == Init => LoggerInv
<1> SUFFICES ASSUME Init
             PROVE  LoggerInv
  OBVIOUS
<1>1. RecycleInv
  BY DEF Init, RecycleInv, LoggerTypeOK, BuffersRecycled, BackendPlaces, Buffer
<1>2. InOrder(<<>>) /\ Increasing(<<>>)
  BY DEF InOrder, Increasing
<1>3. StagesInOrder
  BY <1>2, EmptyContents DEF Init, StagesInOrder, Below
<1>4. Accounted
  BY EmptyContents DEF Init, Accounted, InPipeline
<1> QED
  BY <1>1, <1>3, <1>4 DEF LoggerInv, Init, Announced

--------------------------------------------------------------------------------
(* A step that moves no message. *)
logged == <<current, buffers, toWrite, file, appended, oversized, dropped>>

LEMMA NothingMoves ==
  ASSUME LoggerInv, RecycleInv', UNCHANGED logged
  PROVE  LoggerInv'
<1>1. StagesInOrder' /\ Accounted'
  BY DEF LoggerInv, StagesInOrder, Accounted, InPipeline, logged
<1>2. Announced'
  BY DEF LoggerInv, Announced, Announces, logged
<1> QED
  BY <1>1, <1>2 DEF LoggerInv

LEMMA ControlKeepsInv ==
  ASSUME LoggerInv,
         \/ Start \/ StartReturns \/ StartHangs \/ Stop \/ StopNotifies \/ StopReturns
         \/ BackendStarts \/ LoopTest \/ CollectWait \/ WaitEnds \/ Recycle
         \/ UNCHANGED vars
  PROVE  LoggerInv'
<1> USE DEF LoggerInv, RecycleInv, LoggerTypeOK, BuffersRecycled, BackendPlaces, front, back, logged
<1>1. CASE Start \/ StartReturns \/ StartHangs \/ Stop \/ StopReturns
  <2>1. UNCHANGED <<front, back>> /\ backend' \in {backend, "failed"}
    BY <1>1 DEF Start, StartReturns, StartHangs, Stop, StopReturns
  <2>2. RecycleInv' /\ UNCHANGED logged
    BY <2>1
  <2> QED
    BY <2>2, NothingMoves
<1>2. CASE StopNotifies
  <2>1. RecycleInv' /\ UNCHANGED logged
    BY <1>2 DEF StopNotifies, NotifyBackend
  <2> QED
    BY <2>1, NothingMoves
<1>3. CASE BackendStarts
  <2>1. RecycleInv' /\ UNCHANGED logged
    BY <1>3 DEF BackendStarts
  <2> QED
    BY <2>1, NothingMoves
<1>4. CASE LoopTest \/ CollectWait \/ WaitEnds
  <2>1. RecycleInv' /\ UNCHANGED logged
    BY <1>4 DEF LoopTest, CollectWait, WaitEnds
  <2> QED
    BY <2>1, NothingMoves
<1>5. CASE Recycle
  <2>1. UNCHANGED logged /\ UNCHANGED next /\ backend' = "loop" /\ written' = 0
    BY <1>5 DEF Recycle
  <2>2. written >= 1 /\ (~new2 => written >= 2)
    BY <1>5 DEF Recycle
  <2>3. new1' /\ new2' /\ toWrite' = <<>>
    <3>1. /\ new1' = (new1 \/ written >= 1) /\ toWrite' = <<>>
          /\ new2' = (new2 \/ written >= IF new1 THEN 1 ELSE 2)
      BY <1>5 DEF Recycle
    <3> QED
      BY <2>2, <3>1
  <2>4. LoggerTypeOK' /\ BuffersRecycled'
    BY <2>1, <2>3
  <2>5. RecycleInv'
    BY <2>1, <2>4
  <2> QED
    BY <2>1, <2>5, NothingMoves
<1>6. CASE UNCHANGED vars
  <2>1. RecycleInv' /\ UNCHANGED logged
    BY <1>6 DEF vars
  <2> QED
    BY <2>1, NothingMoves
<1> QED
  BY <1>1, <1>2, <1>3, <1>4, <1>5, <1>6

(* append(): the new message is above all that is in the pipeline. *)
LEMMA AppendFitsKeepsInv == ASSUME LoggerInv, AppendFits
                            PROVE  LoggerInv'
<1> DEFINE n == appended + 1
<1>1. /\ appended' = n /\ current' = Append(current, n)
      /\ UNCHANGED <<next, buffers, new1, new2, toWrite, written, file, oversized, dropped, backend>>
  BY DEF AppendFits, back
<1>2. n \in Message /\ appended \in Nat
  BY DEF LoggerInv, RecycleInv, LoggerTypeOK, Message
<1>3. /\ Below(AllContents(file), {n}) /\ Below(AllContents(toWrite), {n})
      /\ Below(AllContents(buffers), {n}) /\ Below(Contents(current), {n})
  BY <1>2, PipelineBounds DEF Below
<1>4. /\ Contents(current') = Contents(current) \cup {n}
      /\ current' \in Buffer /\ Increasing(current')
  <2>1. current \in Buffer /\ Increasing(current)
    BY DEF LoggerInv, RecycleInv, LoggerTypeOK, StagesInOrder
  <2>2. Contents(Append(current, n)) = Contents(current) \cup {n}
    BY <2>1, AppendContents DEF Buffer
  <2> HIDE DEF n
  <2> QED
    BY <1>1, <1>2, <1>3, <2>1, <2>2, AppendIncreasing
<1> HIDE DEF n
<1>5. RecycleInv'
  <2>1. oversized' \subseteq 1..appended' /\ dropped' \subseteq 1..appended'
    BY <1>1, <1>2 DEF LoggerInv, RecycleInv, LoggerTypeOK, n
  <2> QED
    BY <1>1, <1>2, <1>4, <2>1
       DEF LoggerInv, RecycleInv, LoggerTypeOK, BuffersRecycled, Message
<1>6. StagesInOrder'
  BY <1>1, <1>3, <1>4 DEF LoggerInv, StagesInOrder, Below
<1>7. Accounted'
  <2>1. n \notin oversized \cup dropped /\ 1..n = 1..appended \cup {n} /\ n # 0
    BY <1>2 DEF LoggerInv, RecycleInv, LoggerTypeOK, n
  <2> QED
    BY <1>1, <1>4, <2>1 DEF LoggerInv, Accounted, InPipeline
<1>8. Announced'
  <2>1. \A m \in dropped : n > m
    BY <1>2 DEF LoggerInv, RecycleInv, LoggerTypeOK, n
  <2>2. ASSUME NEW m \in dropped, NEW i \in 1..Len(file), Announces(i, m)
        PROVE  Announces(i, m)'
    BY <1>1, <1>4, <2>1, <2>2 DEF Announces
  <2> QED
    BY <1>1, <2>2 DEF LoggerInv, Announced
<1> QED
  BY <1>5, <1>6, <1>7, <1>8 DEF LoggerInv

LEMMA AppendSwitchesKeepsInv ==
  ASSUME LoggerInv, NEW tooLong \in BOOLEAN, AppendSwitches(tooLong)
  PROVE  LoggerInv'
<1> DEFINE n == appended + 1
<1>1. /\ appended' = n /\ buffers' = Append(buffers, current)
      /\ current' = IF tooLong THEN <<>> ELSE <<n>>
      /\ oversized' = IF tooLong THEN oversized \cup {n} ELSE oversized
      /\ UNCHANGED <<new1, new2, toWrite, written, file, dropped>>
      /\ backend' = IF backend = "wait" THEN "woken" ELSE backend
  BY DEF AppendSwitches, NotifyBackend, back
<1>2. n \in Message /\ appended \in Nat
  BY DEF LoggerInv, RecycleInv, LoggerTypeOK, Message
<1>3. /\ Below(AllContents(file), {n}) /\ Below(AllContents(toWrite), {n})
      /\ Below(AllContents(buffers), {n}) /\ Below(Contents(current), {n})
  BY <1>2, PipelineBounds DEF Below
<1> USE DEF LoggerInv
<1>4. /\ buffers \in Seq(Buffer) /\ current \in Buffer
      /\ buffers' \in Seq(Buffer) /\ buffers' # <<>>
      /\ AllContents(buffers') = AllContents(buffers) \cup Contents(current)
      /\ InOrder(buffers')
  <2>1. buffers \in Seq(Buffer) /\ current \in Buffer
    BY DEF RecycleInv, LoggerTypeOK
  <2>2. InOrder(buffers) /\ Increasing(current) /\ Below(AllContents(buffers), Contents(current))
    BY DEF StagesInOrder
  <2>3. Append(buffers, current) \in Seq(Buffer) /\ Append(buffers, current) # <<>>
    BY <2>1
  <2> QED
    BY <1>1, <2>1, <2>2, <2>3, AppendAllContents, AppendInOrder
<1>5. /\ Contents(current') = IF tooLong THEN {} ELSE {n}
      /\ current' \in Buffer /\ Increasing(current')
  BY <1>1, <1>2 DEF Contents, Buffer, Increasing
<1> HIDE DEF n
<1>6. RecycleInv'
  <2>1. oversized' \subseteq 1..appended' /\ dropped' \subseteq 1..appended'
    BY <1>1, <1>2 DEF RecycleInv, LoggerTypeOK, n
  <2>2. LoggerTypeOK'
    BY <1>1, <1>2, <1>4, <1>5, <2>1 DEF RecycleInv, LoggerTypeOK, BackendPlaces, Message
  <2> QED
    BY <1>1, <1>4, <2>2 DEF RecycleInv, BuffersRecycled
<1>7. StagesInOrder'
  BY <1>1, <1>3, <1>4, <1>5 DEF StagesInOrder, Below
<1>8. Accounted'
  <2>1. n \notin oversized \cup dropped /\ 1..n = 1..appended \cup {n} /\ n # 0
    BY <1>2 DEF RecycleInv, LoggerTypeOK, n
  <2>2. n \notin InPipeline
    BY <1>2, PipelineBounds DEF InPipeline, n
  <2> QED
    BY <1>1, <1>4, <1>5, <2>1, <2>2 DEF Accounted, InPipeline
<1>9. Announced'
  <2>1. \A m \in dropped : n > m
    BY <1>2 DEF RecycleInv, LoggerTypeOK, n
  <2>2. ASSUME NEW m \in dropped, NEW i \in 1..Len(file), Announces(i, m)
        PROVE  Announces(i, m)'
    BY <1>1, <1>4, <1>5, <2>1, <2>2 DEF Announces
  <2> QED
    BY <1>1, <2>2 DEF Announced
<1> QED
  BY <1>6, <1>7, <1>8, <1>9

(* The swap: the whole front becomes what is to be written. *)
LEMMA CollectKeepsInv == ASSUME LoggerInv, Collect
                         PROVE  LoggerInv'
<1> USE DEF LoggerInv
<1>1. /\ toWrite = <<>> /\ toWrite' = Append(buffers, current)
      /\ buffers' = <<>> /\ current' = <<>> /\ backend' = "write"
      /\ UNCHANGED <<written, file, dropped, appended, oversized>>
  BY DEF Collect, RecycleInv, BuffersRecycled
<1>2. /\ buffers \in Seq(Buffer) /\ current \in Buffer
      /\ InOrder(buffers) /\ Increasing(current)
      /\ Below(AllContents(buffers), Contents(current))
  BY DEF RecycleInv, LoggerTypeOK, StagesInOrder
<1>3. /\ toWrite' \in Seq(Buffer) /\ InOrder(toWrite')
      /\ AllContents(toWrite') = AllContents(buffers) \cup Contents(current)
  BY <1>1, <1>2, AppendAllContents, AppendInOrder
<1>4. /\ AllContents(toWrite) = {} /\ AllContents(buffers') = {} /\ Contents(current') = {}
      /\ InOrder(buffers') /\ Increasing(current')
  BY <1>1, EmptyContents DEF InOrder, Increasing
<1>5. RecycleInv'
  <2>1. LoggerTypeOK'
    BY <1>1, <1>3 DEF RecycleInv, LoggerTypeOK, BackendPlaces, Buffer
  <2>2. written' + Len(toWrite') >= IF new2' THEN 1 ELSE 2
    <3>1. new2 /\ (~next => buffers # <<>>) /\ new2' = (new2 /\ next)
      BY DEF Collect, RecycleInv, BuffersRecycled
    <3>2. /\ Len(toWrite') = Len(buffers) + 1 /\ Len(buffers) \in Nat
          /\ buffers # <<>> => Len(buffers) >= 1
      BY <1>1, <1>2
    <3>3. ~new2' => Len(buffers) >= 1
      BY <3>1, <3>2
    <3>4. written' \in Nat
      BY <1>1 DEF RecycleInv, LoggerTypeOK
    <3> QED
      BY <3>2, <3>3, <3>4
  <2>3. next'
    BY DEF Collect
  <2> QED
    BY <1>1, <2>1, <2>2, <2>3 DEF RecycleInv, BuffersRecycled
<1>6. StagesInOrder'
  BY <1>1, <1>3, <1>4 DEF StagesInOrder, Below
<1>7. Accounted'
  BY <1>1, <1>3, <1>4 DEF Accounted, InPipeline
<1>8. Announced'
  <2>1. \A k \in 1..Len(toWrite') : Contents(toWrite'[k]) \subseteq AllContents(toWrite')
    BY DEF AllContents
  <2>2. ASSUME NEW m \in dropped, NEW i \in 1..Len(file), Announces(i, m)
        PROVE  Announces(i, m)'
    BY <1>1, <1>3, <1>4, <2>1, <2>2 DEF Announces
  <2> QED
    BY <1>1, <2>2 DEF Announced
<1> QED
  BY <1>5, <1>6, <1>7, <1>8

(* The backlog: what is dropped lies between the file and the front.  The *)
(* notice is ahead of the two buffers kept, and those are behind every    *)
(* earlier notice's messages.                                             *)
LEMMA DropBacklogKeepsInv == ASSUME LoggerInv, DropBacklog
                             PROVE  LoggerInv'
<1> USE DEF LoggerInv
<1> DEFINE lost == AllContents(toWrite) \ AllContents(toWrite')
<1>1. /\ backend = "write" /\ Len(toWrite) > MaxBacklog
      /\ toWrite' = SubSeq(toWrite, 1, 2) /\ dropped' = dropped \cup lost
      /\ file' = Append(file, Notice)
      /\ UNCHANGED <<current, next, buffers, new1, new2, written, appended, oversized, backend>>
  BY DEF DropBacklog, front
<1>2. /\ toWrite \in Seq(Buffer) /\ InOrder(toWrite) /\ Len(toWrite) >= 2
      /\ file \in Seq(Buffer \cup {Notice}) /\ InOrder(file)
  BY <1>1, LoggingAssumption DEF RecycleInv, LoggerTypeOK, StagesInOrder
<1>3. /\ toWrite' \in Seq(Buffer) /\ Len(toWrite') = 2 /\ InOrder(toWrite')
      /\ AllContents(toWrite') \subseteq AllContents(toWrite)
      /\ \A k \in 1..2 : toWrite'[k] = toWrite[k]
  <2>1. \A k \in 1..2 : SubSeq(toWrite, 1, 2)[k] = toWrite[k]
    BY <1>2
  <2> QED
    BY <1>1, <1>2, <2>1, FirstTwoInOrder
<1>4. /\ file' \in Seq(Buffer \cup {Notice}) /\ InOrder(file')
      /\ AllContents(file') = AllContents(file) \cup {0}
      /\ Len(file) \in Nat /\ Len(file') = Len(file) + 1 /\ file'[Len(file) + 1] = Notice
      /\ \A j \in 1..Len(file) : file'[j] = file[j]
  <2>1. Increasing(Notice) /\ Contents(Notice) = {0}
    BY DEF Increasing, Contents, Notice
  <2>2. Below(AllContents(file), Contents(Notice))
    BY <2>1 DEF Below
  <2>3. Append(file, Notice) \in Seq(Buffer \cup {Notice})
    BY <1>2
  <2>4. InOrder(Append(file, Notice)) /\ AllContents(Append(file, Notice)) = AllContents(file) \cup {0}
    BY <1>2, <2>1, <2>2, AppendAllContents, AppendInOrder
  <2> QED
    BY <1>1, <1>2, <2>3, <2>4
<1>5. lost \subseteq 1..appended
  BY PipelineBounds
<1> HIDE DEF lost
<1>6. RecycleInv'
  <2>1. dropped' \subseteq 1..appended'
    BY <1>1, <1>5 DEF RecycleInv, LoggerTypeOK
  <2>2. LoggerTypeOK'
    BY <1>1, <1>3, <1>4, <2>1 DEF RecycleInv, LoggerTypeOK
  <2>3. written' \in Nat
    BY <2>2 DEF LoggerTypeOK
  <2> QED
    BY <1>1, <1>3, <2>2, <2>3 DEF RecycleInv, BuffersRecycled
<1>7. StagesInOrder'
  BY <1>1, <1>3, <1>4 DEF StagesInOrder, Below
<1>8. Accounted'
  <2>1. /\ lost \cap AllContents(file) \subseteq {0}
        /\ lost \cap AllContents(buffers) = {} /\ lost \cap Contents(current) = {}
    <3>1. \A x \in lost : x \in AllContents(toWrite) \ {0} /\ x \in Nat
      BY <1>5, PipelineBounds DEF lost
    <3>2. \A x \in lost : ~(x < x)
      BY <3>1
    <3>3. AllContents(buffers) \subseteq AllContents(buffers) \ {0} /\ Contents(current) \subseteq Contents(current) \ {0}
      BY PipelineBounds
    <3> QED
      BY <3>1, <3>2, <3>3 DEF StagesInOrder, Below
  <2>2. InPipeline' \ {0} = (InPipeline \ {0}) \ lost
    BY <1>1, <1>3, <1>4, <2>1 DEF InPipeline, lost
  <2> QED
    BY <1>1, <2>2 DEF Accounted
<1>9. Announced'
  <2>1. ASSUME NEW m \in dropped, NEW i \in 1..Len(file), Announces(i, m)
        PROVE  Announces(i, m)'
    <3>1. Contents(file'[Len(file) + 1]) \ {0} = {}
      BY <1>4 DEF Contents, Notice
    <3>2. \A j \in (i + 3)..Len(file') : \A x \in Contents(file'[j]) \ {0} : x > m
      <4>1. \A j \in (i + 3)..Len(file') : j \in (i + 3)..Len(file) \/ j = Len(file) + 1
        BY <1>4
      <4>2. \A j \in (i + 3)..Len(file) : j \in 1..Len(file)
        OBVIOUS
      <4> QED
        BY <1>4, <2>1, <3>1, <4>1, <4>2 DEF Announces
    <3>3. file'[i] = Notice /\ \A j \in 1..(i - 1) : file'[j] = file[j]
      BY <1>4, <2>1 DEF Announces
    <3>4. \A k \in 1..Len(toWrite') : \A x \in Contents(toWrite'[k]) : x > m
      <4>1. \A k \in 1..2 : k \in 1..Len(toWrite)
        BY <1>2
      <4> QED
        BY <1>1, <1>3, <2>1, <4>1 DEF Announces
    <3> QED
      BY <1>1, <2>1, <3>2, <3>3, <3>4 DEF Announces
  <2>2. ASSUME NEW m \in lost, NEW i \in Nat, i = Len(file) + 1
        PROVE  Announces(i, m)'
    <3>1. m \in AllContents(toWrite) \ {0} /\ m \in Nat \ {0}
      BY <1>5, PipelineBounds DEF lost
    <3>2. \A x \in AllContents(file) : x < m
      BY <3>1 DEF StagesInOrder, Below
    <3>3. \A j \in 1..Len(file) : \A x \in Contents(file'[j]) : x < m
      BY <1>4, <3>2, ContentsWithin
    <3>4. \A x \in AllContents(buffers) \cup Contents(current) : x > m
      <4>1. \A x \in AllContents(buffers) \cup Contents(current) : x # 0 /\ m < x /\ x \in Nat
        BY <3>1, PipelineBounds DEF StagesInOrder, Below
      <4> QED
        BY <3>1, <4>1
    <3>5. ~(Len(toWrite') > MaxBacklog)
      BY <1>3, LoggingAssumption
    <3>6. \A k \in 1..Len(toWrite') : ~(Len(file') + k >= (Len(file) + 1) + 3)
      BY <1>3, <1>4
    <3>7. /\ file'[i] = Notice
          /\ \A j \in 1..(i - 1) : \A x \in Contents(file'[j]) : x < m
          /\ (i + 3)..Len(file') = {}
      BY <1>4, <2>2, <3>3
    <3>8. \A k \in 1..Len(toWrite') : ~(Len(file') + k >= i + 3 \/ Len(toWrite') > MaxBacklog)
      BY <2>2, <3>5, <3>6
    <3> QED
      BY <1>1, <3>4, <3>7, <3>8 DEF Announces
  <2>3. 1..Len(file') = 1..Len(file) \cup {Len(file) + 1} /\ Len(file) + 1 \in Nat
    BY <1>4
  <2> QED
    BY <1>1, <2>1, <2>2, <2>3 DEF Announced
<1> QED
  BY <1>6, <1>7, <1>8, <1>9

(* The oldest buffer goes from what is to be written to the file. *)
LEMMA WriteBufferKeepsInv == ASSUME LoggerInv, WriteBuffer
                             PROVE  LoggerInv'
<1> USE DEF LoggerInv
<1> DEFINE h == Head(toWrite)
<1>1. /\ backend = "write" /\ Len(toWrite) \in 1..MaxBacklog
      /\ toWrite' = Tail(toWrite)
      /\ file' = IF h = <<>> THEN file ELSE Append(file, h)
      /\ written' = IF written = 2 THEN 2 ELSE written + 1
      /\ UNCHANGED <<current, next, buffers, new1, new2, dropped, appended, oversized, backend>>
  BY DEF WriteBuffer, front
<1>2. /\ toWrite \in Seq(Buffer) /\ toWrite # <<>> /\ InOrder(toWrite)
      /\ file \in Seq(Buffer \cup {Notice}) /\ InOrder(file)
  <2>1. toWrite # <<>>
    BY <1>1
  <2> QED
    BY <2>1 DEF RecycleInv, LoggerTypeOK, StagesInOrder
<1>3. /\ toWrite' \in Seq(Buffer) /\ InOrder(toWrite') /\ Increasing(h)
      /\ AllContents(toWrite) = Contents(h) \cup AllContents(toWrite')
      /\ Below(Contents(h), AllContents(toWrite'))
      /\ Len(toWrite) \in Nat /\ Len(toWrite') = Len(toWrite) - 1
      /\ \A k \in 1..Len(toWrite') : toWrite'[k] = toWrite[k + 1] /\ k + 1 \in 1..Len(toWrite)
      /\ h = toWrite[1] /\ h \in Buffer
  BY <1>1, <1>2, HeadTailContents, TailInOrder
<1>4. Below(AllContents(file), Contents(h))
  BY <1>3 DEF StagesInOrder, Below
<1> HIDE DEF h
<1>5. /\ file' \in Seq(Buffer \cup {Notice}) /\ InOrder(file')
      /\ AllContents(file') = AllContents(file) \cup Contents(h)
      /\ Len(file) \in Nat /\ Len(file') \in Len(file)..(Len(file) + 1)
      /\ \A j \in 1..Len(file) : file'[j] = file[j]
      /\ \A j \in 1..Len(file') : j \notin 1..Len(file) => j = Len(file) + 1 /\ file'[j] = h
  <2>1. CASE h = <<>>
    BY <1>1, <1>2, <2>1, EmptyContents
  <2>2. CASE h # <<>>
    <3>1. InOrder(Append(file, h)) /\ AllContents(Append(file, h)) = AllContents(file) \cup Contents(h)
      BY <1>2, <1>3, <1>4, AppendAllContents, AppendInOrder
    <3> QED
      BY <1>1, <1>2, <1>3, <2>2, <3>1
  <2> QED
    BY <2>1, <2>2
<1>6. RecycleInv'
  <2>1. written \in 0..2 /\ written' \in 0..2
    BY <1>1 DEF RecycleInv, LoggerTypeOK
  <2>2. LoggerTypeOK'
    BY <1>1, <1>3, <1>5, <2>1 DEF RecycleInv, LoggerTypeOK
  <2>3. written' = 2 \/ written' = written + 1
    BY <1>1
  <2>4. written + Len(toWrite) >= IF new2 THEN 1 ELSE 2
    BY <1>1 DEF RecycleInv, BuffersRecycled
  <2>5. Len(toWrite') \in Nat
    BY <1>3
  <2>6. written' + Len(toWrite') >= IF new2' THEN 1 ELSE 2
    BY <1>1, <1>3, <2>1, <2>3, <2>4, <2>5
  <2>7. BuffersRecycled'
    BY <1>1, <2>6 DEF RecycleInv, BuffersRecycled
  <2> QED
    BY <1>1, <2>2, <2>7 DEF RecycleInv
<1>7. StagesInOrder'
  BY <1>1, <1>3, <1>4, <1>5 DEF StagesInOrder, Below
<1>8. Accounted'
  BY <1>1, <1>3, <1>5 DEF Accounted, InPipeline
<1>9. Announced'
  <2>1. ASSUME NEW m \in dropped, NEW i \in 1..Len(file), Announces(i, m)
        PROVE  Announces(i, m)'
    <3>1. ASSUME NEW j \in (i + 3)..Len(file'), NEW x \in Contents(file'[j]) \ {0}
          PROVE  x > m
      <4>1. CASE j \in 1..Len(file)
        BY <1>5, <2>1, <3>1, <4>1 DEF Announces
      <4>2. CASE j \notin 1..Len(file)
        <5>1. j \in 1..Len(file')
          BY <1>5
        <5>2. j = Len(file) + 1 /\ file'[j] = toWrite[1]
          BY <1>3, <1>5, <4>2, <5>1
        <5>3. 1 \in 1..Len(toWrite) /\ Len(file) + 1 >= i + 3
          BY <1>1, <5>2
        <5> QED
          BY <2>1, <3>1, <5>2, <5>3 DEF Announces
      <4> QED
        BY <4>1, <4>2
    <3>2. ASSUME NEW k \in 1..Len(toWrite'), NEW x \in Contents(toWrite'[k]),
                 Len(file') + k >= i + 3 \/ Len(toWrite') > MaxBacklog
          PROVE  x > m
      <4>1. ~(Len(toWrite') > MaxBacklog)
        BY <1>1, <1>3, LoggingAssumption
      <4>2. k + 1 \in 1..Len(toWrite) /\ Len(file) + (k + 1) >= i + 3
        BY <1>3, <1>5, <3>2, <4>1
      <4>3. x \in Contents(toWrite[k + 1])
        BY <1>3, <3>2
      <4> QED
        BY <2>1, <4>2, <4>3 DEF Announces
    <3>3. file'[i] = Notice /\ \A j \in 1..(i - 1) : file'[j] = file[j]
      BY <1>5, <2>1 DEF Announces
    <3> QED
      BY <1>1, <2>1, <3>1, <3>2, <3>3 DEF Announces
  <2>2. 1..Len(file) \subseteq 1..Len(file')
    BY <1>5
  <2> QED
    BY <1>1, <2>1, <2>2 DEF Announced
<1> QED
  BY <1>6, <1>7, <1>8, <1>9

LEMMA LoggerStep == LoggerInv /\ [Next]_vars => LoggerInv'
<1> SUFFICES ASSUME LoggerInv, [Next]_vars
             PROVE  LoggerInv'
  OBVIOUS
<1>1. CASE AppendFits \/ \E tooLong \in BOOLEAN : AppendSwitches(tooLong)
  BY <1>1, AppendFitsKeepsInv, AppendSwitchesKeepsInv
<1>2. CASE Collect \/ DropBacklog \/ WriteBuffer
  BY <1>2, CollectKeepsInv, DropBacklogKeepsInv, WriteBufferKeepsInv
<1>3. CASE \/ Start \/ StartReturns \/ StartHangs \/ Stop \/ StopNotifies \/ StopReturns
            \/ BackendStarts \/ LoopTest \/ CollectWait \/ WaitEnds \/ Recycle
            \/ UNCHANGED vars
  BY <1>3, ControlKeepsInv
<1> QED
  BY <1>1, <1>2, <1>3 DEF Next, BackendStep

LEMMA LoggerInvariant == Spec => []LoggerInv
  BY LoggerInit, LoggerStep, PTL DEF Spec

--------------------------------------------------------------------------------
(* The back end never takes a buffer that is not there: the asserts of    *)
(* AsyncLogging.cpp:74-76 and 136-148, which a release build drops, hold *)
(* after any backlog.                                                    *)
THEOREM LoggerBuffersRecycled == Spec => []BuffersRecycled
<1>1. LoggerInv => BuffersRecycled
  BY DEF LoggerInv, RecycleInv
<1> QED
  BY LoggerInvariant, <1>1, PTL

(* Along the pipeline the stages follow each other, so that it is in order *)
(* as a whole.                                                             *)
LEMMA ConcatIndices ==
  ASSUME NEW S, NEW ds \in Seq(S), NEW bs \in Seq(S)
  PROVE  /\ ds \o bs \in Seq(S) /\ Len(ds) \in Nat /\ Len(bs) \in Nat
         /\ \A i \in 1..Len(ds) : i \in 1..Len(ds \o bs) /\ (ds \o bs)[i] = ds[i]
         /\ \A j \in 1..Len(bs) :
              Len(ds) + j \in 1..Len(ds \o bs) /\ (ds \o bs)[Len(ds) + j] = bs[j]
         /\ \A i \in 1..Len(ds \o bs) :
              i \in 1..Len(ds) \/ \E j \in 1..Len(bs) : i = Len(ds) + j
<1> DEFINE cs == ds \o bs
<1>1. /\ cs \in Seq(S) /\ Len(ds) \in Nat /\ Len(bs) \in Nat /\ Len(cs) = Len(ds) + Len(bs)
      /\ \A i \in 1..(Len(ds) + Len(bs)) :
           cs[i] = IF i <= Len(ds) THEN ds[i] ELSE bs[i - Len(ds)]
  BY ConcatProperties, LenProperties
<1> HIDE DEF cs
<1>2. \A m, n \in Nat :
        /\ \A i \in 1..m : i \in 1..(m + n) /\ i <= m
        /\ \A j \in 1..n : m + j \in 1..(m + n) /\ ~(m + j <= m) /\ (m + j) - m = j
        /\ \A i \in 1..(m + n) : i \in 1..m \/ (i - m \in 1..n /\ i = m + (i - m))
  OBVIOUS
<1>3. \A i \in 1..Len(ds) : i \in 1..Len(cs) /\ cs[i] = ds[i]
  BY <1>1, <1>2
<1>4. ASSUME NEW j \in 1..Len(bs)
      PROVE  Len(ds) + j \in 1..Len(cs) /\ cs[Len(ds) + j] = bs[j]
  <2>1. PICK m \in Nat, n \in Nat : m = Len(ds) /\ n = Len(bs)
    BY <1>1
  <2>2. j \in 1..n /\ m + j \in 1..(m + n) /\ ~(m + j <= m) /\ (m + j) - m = j
    BY <2>1
  <2>3. cs[m + j] = bs[j]
    BY <1>1, <2>1, <2>2
  <2> QED
    BY <1>1, <2>1, <2>2, <2>3
<1>5. ASSUME NEW i \in 1..Len(cs)
      PROVE  i \in 1..Len(ds) \/ \E j \in 1..Len(bs) : i = Len(ds) + j
  BY <1>1, <1>2
<1> QED
  BY <1>1, <1>3, <1>4, <1>5 DEF cs

LEMMA ConcatContents ==
  ASSUME NEW S, NEW ds \in Seq(S), NEW bs \in Seq(S)
  PROVE  AllContents(ds \o bs) = AllContents(ds) \cup AllContents(bs)
<1> DEFINE cs == ds \o bs
<1>1. /\ \A i \in 1..Len(ds) : i \in 1..Len(cs) /\ cs[i] = ds[i]
      /\ \A j \in 1..Len(bs) : Len(ds) + j \in 1..Len(cs) /\ cs[Len(ds) + j] = bs[j]
      /\ \A i \in 1..Len(cs) : i \in 1..Len(ds) \/ \E j \in 1..Len(bs) : i = Len(ds) + j
  BY ConcatIndices
<1> HIDE DEF cs
<1>2. ASSUME NEW x \in AllContents(cs)
      PROVE  x \in AllContents(ds) \cup AllContents(bs)
  <2>1. PICK i \in 1..Len(cs) : x \in Contents(cs[i])
    BY DEF AllContents
  <2> QED
    BY <1>1, <2>1 DEF AllContents
<1>3. AllContents(ds) \subseteq AllContents(cs)
  BY <1>1 DEF AllContents
<1>4. AllContents(bs) \subseteq AllContents(cs)
  BY <1>1 DEF AllContents
<1>5. AllContents(cs) = AllContents(ds) \cup AllContents(bs)
  BY <1>2, <1>3, <1>4
<1> QED
  BY <1>5 DEF cs

LEMMA ConcatInOrder ==
  ASSUME NEW S, NEW ds \in Seq(S), NEW bs \in Seq(S), InOrder(ds), InOrder(bs),
         Below(AllContents(ds), AllContents(bs))
  PROVE  InOrder(ds \o bs)
<1> DEFINE cs == ds \o bs
<1>1. /\ Len(ds) \in Nat /\ Len(bs) \in Nat
      /\ \A i \in 1..Len(ds) : i \in 1..Len(cs) /\ cs[i] = ds[i]
      /\ \A j \in 1..Len(bs) : Len(ds) + j \in 1..Len(cs) /\ cs[Len(ds) + j] = bs[j]
      /\ \A i \in 1..Len(cs) : i \in 1..Len(ds) \/ \E j \in 1..Len(bs) : i = Len(ds) + j
  BY ConcatIndices
<1> HIDE DEF cs
<1>2. \A i \in 1..Len(cs) : Increasing(cs[i])
  BY <1>1 DEF InOrder
<1>3. ASSUME NEW i \in 1..Len(cs), NEW j \in 1..Len(cs), i < j
      PROVE  Below(Contents(cs[i]), Contents(cs[j]))
  <2>1. CASE j \in 1..Len(ds)
    <3>1. i \in 1..Len(ds)
      BY <1>1, <1>3, <2>1
    <3> QED
      BY <1>1, <1>3, <2>1, <3>1 DEF InOrder
  <2>2. CASE i \in 1..Len(ds) /\ \E l \in 1..Len(bs) : j = Len(ds) + l
    <3>1. PICK l \in 1..Len(bs) : j = Len(ds) + l
      BY <2>2
    <3>2. cs[i] = ds[i] /\ cs[j] = bs[l]
      BY <1>1, <2>2, <3>1
    <3>3. Contents(ds[i]) \subseteq AllContents(ds) /\ Contents(bs[l]) \subseteq AllContents(bs)
      BY <2>2, ContentsWithin
    <3> QED
      BY <3>2, <3>3 DEF Below
  <2>3. ASSUME NEW k \in 1..Len(bs), NEW l \in 1..Len(bs), i = Len(ds) + k, j = Len(ds) + l
        PROVE  Below(Contents(cs[i]), Contents(cs[j]))
    <3>1. k < l
      BY <1>1, <1>3, <2>3
    <3> QED
      BY <1>1, <2>3, <3>1 DEF InOrder
  <2> QED
    BY <1>1, <2>1, <2>2, <2>3
<1>4. InOrder(cs)
  BY <1>2, <1>3 DEF InOrder
<1> QED
  BY <1>4 DEF cs

LEMMA PipelineInOrder ==
  ASSUME LoggerInv
  PROVE  /\ Pipeline \in Seq(Buffer \cup {Notice})
         /\ InOrder(Pipeline) /\ AllContents(Pipeline) = InPipeline
<1> DEFINE S == Buffer \cup {Notice}
<1>1. PICK c : c = <<current>>
  OBVIOUS
<1>2. /\ file \in Seq(S) /\ toWrite \in Seq(S) /\ buffers \in Seq(S) /\ c \in Seq(S)
  <2>1. current \in S
    BY DEF LoggerInv, RecycleInv, LoggerTypeOK
  <2> QED
    BY <1>1, <2>1 DEF LoggerInv, RecycleInv, LoggerTypeOK
<1>3. InOrder(c) /\ AllContents(c) = Contents(current)
  BY <1>1 DEF LoggerInv, StagesInOrder, InOrder, AllContents
<1> HIDE DEF S
<1>4. /\ InOrder(file) /\ InOrder(toWrite) /\ InOrder(buffers)
      /\ Below(AllContents(file), AllContents(toWrite))
  BY DEF LoggerInv, StagesInOrder
<1>5. PICK p1 : p1 = file \o toWrite
  OBVIOUS
<1>6. p1 \in Seq(S) /\ InOrder(p1) /\ AllContents(p1) = AllContents(file) \cup AllContents(toWrite)
  <2>1. p1 \in Seq(S)
    BY <1>2, <1>4, <1>5, ConcatIndices
  <2>2. InOrder(p1)
    BY <1>2, <1>4, <1>5, ConcatInOrder
  <2>3. AllContents(p1) = AllContents(file) \cup AllContents(toWrite)
    BY <1>2, <1>4, <1>5, ConcatContents
  <2> QED
    BY <2>1, <2>2, <2>3
<1>7. Below(AllContents(p1), AllContents(buffers))
  BY <1>6 DEF LoggerInv, StagesInOrder, Below
<1>8. PICK p2 : p2 = p1 \o buffers
  OBVIOUS
<1>9. p2 \in Seq(S) /\ InOrder(p2) /\ AllContents(p2) = AllContents(p1) \cup AllContents(buffers)
  <2>1. p2 \in Seq(S)
    BY <1>2, <1>4, <1>6, <1>7, <1>8, ConcatIndices
  <2>2. InOrder(p2)
    BY <1>2, <1>4, <1>6, <1>7, <1>8, ConcatInOrder
  <2>3. AllContents(p2) = AllContents(p1) \cup AllContents(buffers)
    BY <1>2, <1>4, <1>6, <1>7, <1>8, ConcatContents
  <2> QED
    BY <2>1, <2>2, <2>3
<1>10. Below(AllContents(p2), AllContents(c))
  BY <1>3, <1>6, <1>9 DEF LoggerInv, StagesInOrder, Below
<1>11. PICK p3 : p3 = p2 \o c
  OBVIOUS
<1>12. p3 \in Seq(S) /\ InOrder(p3) /\ AllContents(p3) = AllContents(p2) \cup AllContents(c)
  <2>1. p3 \in Seq(S)
    BY <1>2, <1>3, <1>9, <1>10, <1>11, ConcatIndices
  <2>2. InOrder(p3)
    BY <1>2, <1>3, <1>9, <1>10, <1>11, ConcatInOrder
  <2>3. AllContents(p3) = AllContents(p2) \cup AllContents(c)
    BY <1>2, <1>3, <1>9, <1>10, <1>11, ConcatContents
  <2> QED
    BY <2>1, <2>2, <2>3
<1>13. Pipeline = p3
  BY <1>1, <1>5, <1>8, <1>11 DEF Pipeline
<1> QED
  BY <1>3, <1>6, <1>9, <1>12, <1>13 DEF InPipeline, S

(* Every message is once, and in its place, between the front and the     *)
(* file, unless it was too long or dropped with a backlog: any number of  *)
(* appending threads, swaps, backlogs and time-outs in between.           *)
THEOREM LoggerOrderKept == Spec => []OrderKept
<1>1. ASSUME LoggerInv
      PROVE  OrderKept
  <2> DEFINE P == Pipeline
  <2>1. P \in Seq(Buffer \cup {Notice}) /\ InOrder(P) /\ AllContents(P) = InPipeline
    BY <1>1, PipelineInOrder
  <2> HIDE DEF P
  <2>2. ASSUME NEW i \in 1..Len(P), P[i] # Notice
        PROVE  \A k \in 1..Len(P[i]) : P[i][k] \in Contents(P[i]) \ {0}
    <3>1. P[i] \in Buffer
      BY <2>1, <2>2
    <3> QED
      BY <3>1 DEF Buffer, Message, Contents
  <2>3. ASSUME NEW i \in 1..Len(P), NEW j \in 1..Len(P),
               NEW k \in 1..Len(P[i]), NEW l \in 1..Len(P[j]),
               i < j \/ (i = j /\ k < l), P[i] # Notice, P[j] # Notice
        PROVE  P[i][k] < P[j][l]
    <3>1. CASE i < j
      <4>1. Below(Contents(P[i]), Contents(P[j]))
        BY <2>1, <3>1 DEF InOrder
      <4> QED
        BY <2>2, <2>3, <4>1 DEF Below
    <3>2. CASE i = j /\ k < l
      BY <2>1, <3>2 DEF InOrder, Increasing
    <3> QED
      BY <2>3, <3>1, <3>2
  <2>4. AllContents(P) \ {0} = (1..appended) \ (oversized \cup dropped)
    BY <1>1, <2>1 DEF LoggerInv, Accounted
  <2> QED
    BY <2>3, <2>4 DEF OrderKept, P
<1> QED
  BY LoggerInvariant, <1>1, PTL

(* No message is dropped in silence: the file has a notice where it would *)
(* have been, with nothing newer before it and at most the two buffers    *)
(* kept of its backlog older behind it.                                   *)
THEOREM LoggerDropsAnnounced == Spec => []DropsAnnounced
<1>1. LoggerInv => DropsAnnounced
  BY DEF LoggerInv, Announced, Announces, DropsAnnounced
<1> QED
  BY LoggerInvariant, <1>1, PTL

--------------------------------------------------------------------------------
(***************************************************************************)
(* LogFile.                                                                *)
(***************************************************************************)
(* A roll-over is never refused when a line is overdue, or of a later    *)
(* day: both take a clock that is ahead of the last roll-over.           *)
TimeInv == /\ now \in Nat /\ setbacks \in Nat
           /\ lastRoll \in Nat /\ lastFlush \in Nat /\ lastRoll <= lastFlush
           /\ startOfPeriod = period(lastRoll)
           /\ count \in 0..(checkEveryN - 1)
           /\ late \in Nat /\ overdue \in Nat

NamesInv == /\ opened \in Seq(Nat)
            /\ \A i \in 1..Len(opened) : opened[i] <= lastRoll
            /\ \A i, j \in 1..Len(opened) : i < j => opened[i] < opened[j]

LEMMA PeriodGrows == ASSUME NEW a \in Nat, NEW b \in Nat, a <= b
                     PROVE  /\ period(a) \in Int /\ period(b) \in Int
                            /\ period(a) <= period(b)
<1> DEFINE qa == a \div Period
           qb == b \div Period
<1>0. Period \in Nat /\ Period > 0
  BY LogFileAssumption
<1>1. /\ qa \in Int /\ a % Period \in 0..(Period - 1) /\ a = Period * qa + (a % Period)
  BY <1>0, SMT
<1>2. /\ qb \in Int /\ b % Period \in 0..(Period - 1) /\ b = Period * qb + (b % Period)
  BY <1>0, SMT
<1> HIDE DEF qa, qb
<1>3. ASSUME qa > qb PROVE FALSE
  <2>1. Period * qa >= Period * (qb + 1)
    BY <1>0, <1>1, <1>2, <1>3
  <2>2. Period * (qb + 1) = Period * qb + Period
    BY <1>0, <1>2
  <2>3. Period * qa \in Int /\ Period * qb \in Int /\ Period * (qb + 1) \in Int
    BY <1>0, <1>1, <1>2
  <2> QED
    BY <1>0, <1>1, <1>2, <2>1, <2>2, <2>3
<1>4. Period * qa <= Period * qb
  BY <1>0, <1>1, <1>2, <1>3
<1>5. /\ Period * qa \in Int /\ Period * qb \in Int
      /\ period(a) = Period * qa /\ period(b) = Period * qb
  BY <1>0, <1>1, <1>2 DEF period
<1> QED
  BY <1>4, <1>5
(* What every time the clock was set back may cost. *)
Grace == (checkEveryN - 1) * setbacks

(* Lines of a later day, and overdue lines, have been counted since the  *)
(* last check, but for those of the times when the clock was set back.   *)
LateInv == late <= Grace + (IF isLate THEN count ELSE 0)
OverdueInv == overdue <= Grace + (IF isOverdue THEN count ELSE 0)

FileInv == TimeInv /\ NamesInv /\ LateInv /\ OverdueInv

LEMMA GraceType == ASSUME setbacks \in Nat
                   PROVE  /\ Grace \in Nat
                          /\ (checkEveryN - 1) * (setbacks + 1) = Grace + (checkEveryN - 1)
<1>1. checkEveryN - 1 \in Nat
  BY LogFileAssumption
<1> DEFINE m == checkEveryN - 1
<1> HIDE DEF m
<1>2. ASSUME NEW k \in Nat, NEW l \in Nat
      PROVE  k * l \in Nat /\ k * (l + 1) = k * l + k
  BY <1>2
<1> QED
  BY <1>1, <1>2 DEF Grace

LEMMA FileInvInit == FileInit => FileInv
<1> SUFFICES ASSUME FileInit PROVE FileInv
  OBVIOUS
<1> USE LogFileAssumption
<1>1. TimeInv
  BY DEF FileInit, TimeInv
<1>2. NamesInv
  BY DEF FileInit, NamesInv
<1>3. LateInv /\ OverdueInv
  BY <1>1, GraceType DEF FileInit, TimeInv, LateInv, OverdueInv
<1> QED
  BY <1>1, <1>2, <1>3 DEF FileInv

LEMMA OpenKeepsInv == ASSUME FileInv, OpenFile, UNCHANGED clock, count' \in {0, count}
                      PROVE  FileInv'
<1> USE LogFileAssumption
<1>1. TimeInv'
  BY DEF FileInv, TimeInv, OpenFile, clock
<1>2. NamesInv'
  <2>1. opened \in Seq(Nat) /\ opened' = Append(opened, now) /\ now \in Nat
        /\ lastRoll \in Nat /\ lastRoll' = now /\ lastRoll < now
    BY DEF FileInv, NamesInv, TimeInv, OpenFile
  <2>2. \A i \in 1..Len(opened) : opened[i] \in Nat /\ opened[i] < now
    BY <2>1 DEF FileInv, NamesInv
  <2>3. /\ opened' \in Seq(Nat) /\ Len(opened') = Len(opened) + 1
        /\ \A i \in 1..Len(opened) : opened'[i] = opened[i]
        /\ opened'[Len(opened) + 1] = now
    BY <2>1
  <2> QED
    BY <2>1, <2>2, <2>3 DEF FileInv, NamesInv
<1>3. Grace' = Grace /\ Grace \in Nat
  BY GraceType DEF FileInv, TimeInv, Grace, clock
<1>6. late' = 0 /\ overdue' = 0 /\ count' \in Nat
  BY <1>1 DEF OpenFile, TimeInv
<1>7. ASSUME NEW c \in {0, count'}
      PROVE  0 <= Grace' + c
  BY <1>3, <1>6, <1>7
<1>4. LateInv'
  BY <1>6, <1>7 DEF LateInv
<1>5. OverdueInv'
  BY <1>6, <1>7 DEF OverdueInv
<1> QED
  BY <1>1, <1>2, <1>4, <1>5 DEF FileInv

(* A line that goes into the current file keeps the invariant if it is   *)
(* counted, or if no line can be late or overdue.                        *)
LEMMA LineKeepsInv ==
  ASSUME FileInv, NEW n \in Nat, LineAdded(n), UNCHANGED clock,
         \/ count' = count + 1 /\ count' \in 0..(checkEveryN - 1)
         \/ count' \in {0, count} /\ now <= lastRoll
  PROVE  FileInv'
<1> USE LogFileAssumption
<1>1. now <= lastRoll => ~isLate /\ ~isOverdue
  <2> SUFFICES ASSUME now <= lastRoll PROVE ~isLate /\ ~isOverdue
    OBVIOUS
  <2>1. ~isOverdue
    BY DEF FileInv, TimeInv, isOverdue
  <2>2. ~isLate
    BY PeriodGrows DEF FileInv, TimeInv, isLate
  <2> QED
    BY <2>1, <2>2
<1>3. /\ UNCHANGED <<now, setbacks, lastRoll, lastFlush, startOfPeriod, opened>>
      /\ late' = IF isLate THEN late + 1 ELSE late
      /\ overdue' = IF isOverdue THEN overdue + 1 ELSE overdue
  BY DEF LineAdded, rolling, clock
<1>4. TimeInv' /\ NamesInv'
  BY <1>3 DEF FileInv, TimeInv, NamesInv
<1>5. /\ Grace' = Grace /\ Grace \in Nat
      /\ (isOverdue' <=> isOverdue) /\ (isLate' <=> isLate)
  BY <1>3, GraceType DEF FileInv, TimeInv, Grace, isOverdue, isLate
<1>6. LateInv'
  BY <1>1, <1>3, <1>5 DEF FileInv, LateInv, TimeInv
<1>7. OverdueInv'
  BY <1>1, <1>3, <1>5 DEF FileInv, OverdueInv, TimeInv
<1> QED
  BY <1>4, <1>6, <1>7 DEF FileInv

LEMMA FileInvStep == FileInv /\ [FileNext]_fileVars => FileInv'
<1> SUFFICES ASSUME FileInv, [FileNext]_fileVars
             PROVE  FileInv'
  OBVIOUS
<1> USE LogFileAssumption
<1>t. TimeInv /\ Grace \in Nat
  BY GraceType DEF FileInv, TimeInv
<1>1. ASSUME NEW n \in 0..MaxLine, RollFile(n), UNCHANGED clock, count' \in {0, count}
      PROVE  FileInv'
  BY <1>1, OpenKeepsInv, LineKeepsInv DEF RollFile
<1>2. ASSUME NEW n \in 0..MaxLine, AppendRollsBySize(n) \/ AppendNewDay(n)
      PROVE  FileInv'
  BY <1>1, <1>2 DEF AppendRollsBySize, AppendNewDay
<1>3. ASSUME NEW n \in 0..MaxLine, AppendCounts(n)
      PROVE  FileInv'
  <2>1. count' = count + 1 /\ count' \in 0..(checkEveryN - 1)
    BY <1>3, <1>t DEF AppendCounts, CheckDue, TimeInv
  <2> QED
    BY <1>3, <2>1, LineKeepsInv DEF AppendCounts
<1>4. ASSUME NEW n \in 0..MaxLine, AppendFlushes(n)
      PROVE  FileInv'
  <2>1. /\ UNCHANGED <<now, setbacks, lastRoll, startOfPeriod, opened, late>>
        /\ count' = 0 /\ period(now) = startOfPeriod
        /\ IF isOverdue THEN lastFlush' = now /\ overdue' = 0
           ELSE UNCHANGED <<lastFlush, overdue>>
    BY <1>4 DEF AppendFlushes, clock, rolling
  <2>2. TimeInv' /\ NamesInv'
    BY <1>t, <2>1 DEF FileInv, TimeInv, NamesInv, isOverdue
  <2>3. Grace' = Grace
    BY <2>1 DEF Grace
  <2>4. OverdueInv'
    BY <1>t, <2>1, <2>2, <2>3 DEF FileInv, OverdueInv, TimeInv, isOverdue
  <2>5. LateInv'
    <3>1. ~isLate /\ ~isLate'
      BY <1>t, <2>1, PeriodGrows DEF TimeInv, isLate
    <3> QED
      BY <1>t, <2>1, <2>3, <3>1 DEF FileInv, LateInv, TimeInv
  <2> QED
    BY <2>2, <2>4, <2>5 DEF FileInv
<1>5. CASE Flush
  <2>1. /\ UNCHANGED <<now, setbacks, lastRoll, lastFlush, startOfPeriod, opened, late, count>>
        /\ overdue' = 0
    BY <1>5 DEF Flush, clock, rolling
  <2>2. TimeInv' /\ NamesInv' /\ LateInv'
    BY <2>1 DEF FileInv, TimeInv, NamesInv, LateInv, Grace, isLate
  <2>3. OverdueInv'
    BY <1>t, <2>1 DEF OverdueInv, TimeInv, Grace
  <2> QED
    BY <2>2, <2>3 DEF FileInv
<1>6. CASE Tick
  <2>1. /\ UNCHANGED <<setbacks, lastRoll, lastFlush, startOfPeriod, opened, late, count, overdue>>
        /\ now' = now + 1
    BY <1>6 DEF Tick, rolling
  <2>2. TimeInv' /\ NamesInv'
    BY <2>1 DEF FileInv, TimeInv, NamesInv
  <2>3. LateInv' /\ OverdueInv'
    <3>1. /\ Grace' = Grace
          /\ isOverdue => isOverdue'
      BY <1>t, <2>1 DEF TimeInv, Grace, isOverdue
    <3>2. isLate => isLate'
      BY <1>t, <2>1, PeriodGrows DEF TimeInv, isLate
    <3> QED
      BY <1>t, <2>1, <3>1, <3>2 DEF FileInv, LateInv, OverdueInv, TimeInv
  <2> QED
    BY <2>2, <2>3 DEF FileInv
<1>7. CASE SetBack
  <2>1. /\ UNCHANGED <<lastRoll, lastFlush, startOfPeriod, opened, late, count, overdue>>
        /\ now' \in 1..(now - 1) /\ setbacks' = setbacks + 1
    BY <1>7 DEF SetBack, rolling
  <2>2. TimeInv' /\ NamesInv'
    BY <2>1 DEF FileInv, TimeInv, NamesInv
  <2>3. Grace' = Grace + (checkEveryN - 1)
    BY <1>t, <2>1, GraceType DEF TimeInv, Grace
  <2>4. LateInv' /\ OverdueInv'
    BY <1>t, <2>1, <2>3 DEF FileInv, LateInv, OverdueInv, TimeInv
  <2> QED
    BY <2>2, <2>4 DEF FileInv
<1>8. CASE UNCHANGED fileVars
  <2>1. UNCHANGED <<now, setbacks, lastRoll, lastFlush, startOfPeriod, opened, late, count, overdue>>
    BY <1>8 DEF fileVars, clock, rolling
  <2> QED
    BY <2>1 DEF FileInv, TimeInv, NamesInv, LateInv, OverdueInv, Grace, isOverdue, isLate
<1> QED
  BY <1>2, <1>3, <1>4, <1>5, <1>6, <1>7, <1>8 DEF FileNext, append

LEMMA FileInvariance == FileSpec => []FileInv
  BY FileInvInit, FileInvStep, PTL DEF FileSpec

(* No file name is ever used twice, whatever the clock does              *)
(* (LogFile.cpp:76-82).                                                  *)
THEOREM LogFileNamesDistinct == FileSpec => []NamesDistinct
<1>1. FileInv => NamesDistinct
  <2> SUFFICES ASSUME FileInv, NEW i \in 1..Len(opened), NEW j \in 1..Len(opened), i # j
               PROVE  opened[i] # opened[j]
    BY DEF NamesDistinct
  <2>1. opened[i] \in Nat /\ opened[j] \in Nat /\ Len(opened) \in Nat
    BY DEF FileInv, NamesInv
  <2>2. i < j \/ j < i
    BY <2>1
  <2> QED
    BY <2>1, <2>2 DEF FileInv, NamesInv
<1> QED
  BY <1>1, FileInvariance, PTL

(* The lines of a new day that still go into the old file, and the lines *)
(* that wait although a flush is due, are bounded by checkEveryN_ and by *)
(* how often the clock is set back (LogFile.cpp:51-66).                  *)
THEOREM LogFileLinesBounded == FileSpec => []LinesBounded
<1>1. FileInv => LinesBounded
  <2> SUFFICES ASSUME FileInv PROVE LinesBounded
    OBVIOUS
  <2>1. /\ Grace \in Nat /\ setbacks \in Nat
        /\ (checkEveryN - 1) * (1 + setbacks) = Grace + (checkEveryN - 1)
    BY GraceType DEF FileInv, TimeInv
  <2> QED
    BY <2>1, LogFileAssumption
       DEF FileInv, TimeInv, LateInv, OverdueInv, LinesBounded
<1> QED
  BY <1>1, FileInvariance, PTL
================================================================================
