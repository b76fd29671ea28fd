-------------------------- MODULE SharedObjectsProofs --------------------------
(***************************************************************************)
(* Proofs about StockFactory, CustomerData and Observer, for any sets of   *)
(* threads, keys, customers, observers and objects.                        *)
(***************************************************************************)
EXTENDS MCSharedObjects, SequenceTheorems, TLAPS

StockTypeOK ==
  /\ version \in 1..5
  /\ stocks \in [Key -> Stock \cup {None}]
  /\ keyOf \in [Stock -> Key \cup {None}]
  /\ held \in [Threads -> Stock \cup {None}]
  /\ owners \subseteq Threads /\ keepers \subseteq Threads
  /\ pc \in [Threads -> Places]
  /\ victim \in [Threads -> Stock \cup {None}]
  /\ clobbered \in BOOLEAN /\ dangling \in BOOLEAN

(* Every stock that somebody has or that is on its way out was created    *)
(* with a key, and the entry of a key is a stock of that key.             *)
KeysKnown ==
  /\ \A k \in Key : stocks[k] # None => keyOf[stocks[k]] = k
  /\ \A t \in Threads : held[t] # None => keyOf[held[t]] \in Key
  /\ \A t \in Threads : pc[t] # "idle" => victim[t] # None /\ keyOf[victim[t]] \in Key

(* As long as get() can be called, what is in use is in the map, unless a *)
(* deleter has erased it: get() makes a second stock of no key.           *)
InMap ==
  owners # {} /\ ~clobbered =>
    \A t \in Threads : held[t] # None => stocks[keyOf[held[t]]] = held[t]

(* A deleter that knows that the factory lives keeps it so. *)
FactoryKept ==
  version \in {4, 5} => \A t \in Threads : pc[t] \in {"remove", "removed"} => t \in keepers

SameStock == \A t, u \in Threads :
  held[t] # None /\ held[u] # None /\ keyOf[held[t]] = keyOf[held[u]] => held[t] = held[u]

StockInv ==
  /\ StockTypeOK
  /\ KeysKnown
  /\ InMap
  /\ FactoryKept
  /\ ~clobbered => SameStock
  /\ clobbered => version \in {3, 4}
  /\ ~Alive => stocks = Empty
  /\ DeletersInTime

LEMMA StockInvInit == Init => StockInv
<1> SUFFICES ASSUME Init PROVE StockInv
  OBVIOUS
<1>1. /\ \A t \in Threads : held[t] = None /\ pc[t] = "idle"
      /\ \A k \in Key : stocks[k] = None
      /\ owners = Threads /\ ~clobbered /\ ~dangling
  BY DEF Init, Empty
<1>2. StockTypeOK
  BY StockAssumption DEF Init, StockTypeOK, Empty, Places, Stock
<1>3. KeysKnown /\ InMap /\ FactoryKept /\ SameStock
  BY <1>1 DEF KeysKnown, InMap, FactoryKept, SameStock
<1>4. ~Alive => stocks = Empty
  BY DEF Init
<1>5. DeletersInTime
  BY <1>1, <1>4 DEF DeletersInTime, Empty
<1> QED
  BY <1>1, <1>2, <1>3, <1>4, <1>5 DEF StockInv

LEMMA GetLiveKeepsInv == ASSUME StockInv, NEW t \in Threads, NEW k \in Key, GetLive(t, k)
                         PROVE  StockInv'
<1> USE StockAssumption DEF GetLive, StockInv, StockTypeOK, history
<1>1. StockTypeOK' /\ KeysKnown'
  BY DEF KeysKnown
<1>2. InMap' /\ FactoryKept' /\ (~clobbered' => SameStock')
  BY DEF KeysKnown, InMap, FactoryKept, SameStock
<1>3. ~Alive' => stocks' = Empty
  BY DEF Alive
<1>4. DeletersInTime'
  BY DEF DeletersInTime, expired, Held
<1> QED
  BY <1>1, <1>2, <1>3, <1>4

LEMMA GetNewKeepsInv == ASSUME StockInv, NEW t \in Threads, NEW k \in Key, GetNew(t, k)
                        PROVE  StockInv'
<1> PICK s \in Stock : /\ keyOf[s] = None
                       /\ stocks' = [stocks EXCEPT ![k] = s]
                       /\ keyOf' = [keyOf EXCEPT ![s] = k]
                       /\ held' = [held EXCEPT ![t] = s]
  BY DEF GetNew
<1> USE StockAssumption DEF StockInv, StockTypeOK, history
<1>g. /\ owners # {} /\ held[t] = None
      /\ stocks[k] = None \/ expired(stocks[k])
      /\ UNCHANGED <<version, clobbered, dangling, owners, keepers, pc, victim>>
  BY DEF GetNew
<1>1. StockTypeOK'
  BY <1>g
<1>2. /\ \A u \in Threads : held[u] # s
      /\ \A u \in Threads : pc[u] # "idle" => victim[u] # s
      /\ \A l \in Key : stocks[l] # s
  BY DEF KeysKnown
<1>3. KeysKnown'
  BY <1>g, <1>2 DEF KeysKnown
<1>4. ~clobbered => \A u \in Threads : held[u] # None => keyOf[held[u]] # k
  BY <1>g DEF InMap, expired, Held
<1>5. InMap' /\ FactoryKept' /\ (~clobbered' => SameStock')
  BY <1>g, <1>2, <1>4 DEF KeysKnown, InMap, FactoryKept, SameStock
<1>6. ~Alive' => stocks' = Empty
  BY <1>g DEF Alive
<1>7. DeletersInTime'
  BY <1>g, <1>2 DEF DeletersInTime, expired, Held, KeysKnown
<1> QED
  BY <1>1, <1>3, <1>5, <1>6, <1>7, <1>g

LEMMA DropKeepsInv == ASSUME StockInv, NEW t \in Threads, Drop(t)
                      PROVE  StockInv'
<1> DEFINE last == version >= 3 /\ \A u \in Threads \ {t} : held[u] # held[t]
<1> USE StockAssumption DEF StockInv, StockTypeOK, history
<1>d. /\ held[t] # None /\ held' = [held EXCEPT ![t] = None] /\ pc[t] = "idle"
      /\ UNCHANGED <<version, clobbered, dangling, stocks, keyOf, owners>>
      /\ pc' = IF last THEN [pc EXCEPT ![t] = IF version = 5 THEN "promote" ELSE "remove"] ELSE pc
      /\ victim' = IF last THEN [victim EXCEPT ![t] = held[t]] ELSE victim
      /\ keepers' = IF last /\ version = 4 THEN keepers \cup {t} ELSE keepers
  BY DEF Drop
<1>1. StockTypeOK'
  BY <1>d DEF Places
<1>2. KeysKnown' /\ FactoryKept'
  BY <1>d DEF KeysKnown, FactoryKept
<1>3. InMap' /\ (~clobbered' => SameStock')
  BY <1>d DEF InMap, SameStock
<1>4. Alive => Alive'
  BY <1>d DEF Alive, Held
<1>5. DeletersInTime'
  BY <1>d DEF DeletersInTime, expired, Held, KeysKnown
<1> QED
  BY <1>1, <1>2, <1>3, <1>4, <1>5, <1>d

LEMMA FactoryKeepsInv == ASSUME StockInv, NEW t \in Threads, DropFactory(t) \/ Delete(t)
                         PROVE  StockInv'
<1> USE StockAssumption DEF StockInv, StockTypeOK, history
<1>d. /\ UNCHANGED <<version, clobbered, dangling, keyOf, held>>
      /\ owners' \subseteq owners
      /\ stocks' = IF Alive' THEN stocks ELSE Empty
      /\ \/ UNCHANGED <<keepers, pc, victim>>
         \/ /\ pc[t] \in {"removed", "orphaned"} /\ keepers' = keepers \ {t}
            /\ pc' = [pc EXCEPT ![t] = "idle"] /\ victim' = [victim EXCEPT ![t] = None]
  BY DEF DropFactory, Delete
<1>1. StockTypeOK'
  BY <1>d DEF Empty, Places
<1>2. KeysKnown' /\ FactoryKept'
  BY <1>d DEF KeysKnown, FactoryKept, Empty
<1>3. InMap' /\ (~clobbered' => SameStock')
  BY <1>d DEF InMap, SameStock, Alive
<1>4. DeletersInTime'
  BY <1>d DEF DeletersInTime, expired, Held, Empty
<1> QED
  BY <1>1, <1>2, <1>3, <1>4, <1>d

LEMMA PromoteKeepsInv == ASSUME StockInv, NEW t \in Threads, Promote(t)
                         PROVE  StockInv'
<1> USE StockAssumption DEF StockInv, StockTypeOK, history
<1>d. /\ pc[t] = "promote"
      /\ pc' = [pc EXCEPT ![t] = IF Alive THEN "remove" ELSE "orphaned"]
      /\ keepers' = IF Alive THEN keepers \cup {t} ELSE keepers
      /\ UNCHANGED <<version, clobbered, dangling, stocks, keyOf, held, owners, victim>>
  BY DEF Promote
<1>1. StockTypeOK' /\ KeysKnown' /\ FactoryKept'
  BY <1>d DEF Places, KeysKnown, FactoryKept
<1>2. InMap' /\ (~clobbered' => SameStock')
  BY <1>d DEF InMap, SameStock
<1>3. Alive => Alive'
  BY <1>d DEF Alive, Held
<1>4. DeletersInTime'
  BY <1>d DEF DeletersInTime, expired, Held, Empty
<1> QED
  BY <1>1, <1>2, <1>3, <1>4, <1>d

LEMMA DeleterKeepsInv == ASSUME StockInv, NEW t \in Threads, DeleteStock(t) \/ RemoveStock(t)
                         PROVE  StockInv'
<1> USE StockAssumption DEF StockInv, StockTypeOK, history
<1> DEFINE k == keyOf[victim[t]]
<1>d. /\ pc[t] = "remove" /\ pc' = [pc EXCEPT ![t] = "removed"]
      /\ version \in {3, 4, 5}
      /\ stocks' \in {stocks, [stocks EXCEPT ![k] = None]}
      /\ UNCHANGED <<version, keyOf, held, owners, keepers, victim>>
  BY DEF DeleteStock, RemoveStock, Erase
<1>k. k \in Key
  BY <1>d DEF KeysKnown
<1>a. version \in {4, 5} => Alive
  BY <1>d DEF Alive, FactoryKept
<1>1. StockTypeOK'
  BY <1>d DEF Places, DeleteStock, RemoveStock
<1>2. KeysKnown' /\ FactoryKept'
  BY <1>d DEF KeysKnown, FactoryKept
<1>3. (clobbered' => version' \in {3, 4}) /\ (dangling' => version' = 3)
  BY <1>a DEF DeleteStock, RemoveStock, DeletersInTime
<1>4. ~clobbered' => ~clobbered /\ (stocks' = stocks \/ stocks[k] = None \/ expired(stocks[k]))
  BY DEF DeleteStock, RemoveStock, Entry, Erase
<1>5. InMap' /\ (~clobbered' => SameStock')
  BY <1>4, <1>d, <1>k DEF InMap, SameStock, KeysKnown, expired, Held
<1>6. (Alive' <=> Alive) /\ (~Alive => stocks' = Empty)
  BY <1>d, <1>k DEF Alive, Held, Empty
<1>7. stocks'[k] = None \/ ~expired(stocks'[k])
  BY <1>d, <1>k DEF DeleteStock, RemoveStock, Entry, Erase, Empty
<1>8. DeletersInTime'
  BY <1>3, <1>7, <1>d, <1>k DEF DeletersInTime, expired, Held
<1> QED
  BY <1>1, <1>2, <1>3, <1>5, <1>6, <1>8

LEMMA StockInvStep == StockInv /\ [Next]_vars => StockInv'
<1> SUFFICES ASSUME StockInv, [Next]_vars
             PROVE  StockInv'
  OBVIOUS
<1>1. CASE UNCHANGED vars
  BY <1>1 DEF vars, history, StockInv, StockTypeOK, KeysKnown, InMap, FactoryKept, SameStock, Alive, Held,
              DeletersInTime, expired
<1> QED
  BY <1>1, GetLiveKeepsInv, GetNewKeepsInv, DropKeepsInv, FactoryKeepsInv, PromoteKeepsInv,
     DeleterKeepsInv DEF Next

(* Whoever has the stock of a key has the same object, in every version   *)
(* until a deleter of version 3 or 4 erases the entry of a stock in use   *)
(* (StockFactory.cpp:118, 161, 209-220).                                  *)
THEOREM StocksAreOne == Spec => []OneStockPerKey
<1>1. StockInv => OneStockPerKey
  BY DEF StockInv, SameStock, OneStockPerKey
<1> QED
  BY StockInvInit, StockInvStep, <1>1, PTL DEF Spec

(* No entry of an expired stock is left behind without a deleter, and     *)
(* only version 3 uses a factory that is gone (StockFactory.cpp:112-121,  *)
(* 145-148, 193-220).                                                     *)
THEOREM StockDeletersInTime == Spec => []DeletersInTime
<1>1. StockInv => DeletersInTime
  BY DEF StockInv
<1> QED
  BY StockInvInit, StockInvStep, <1>1, PTL DEF Spec

--------------------------------------------------------------------------------
(* CustomerData: what is about to be modified in place is shared with     *)
(* nobody, from the test of unique() to the end of the writer's section.  *)
CustomerTypeOK ==
  /\ lists \in [Lists -> SUBSET (Customer \X Entries)]
  /\ current \in Lists
  /\ reads \in [Threads -> Lists \cup {None}]
  /\ mutex \in Threads \cup {None}
  /\ step \in [Threads -> Customers!Steps]
  /\ newData \in [Threads -> BOOLEAN]
  /\ seen \in [Threads -> SUBSET (Customer \X Entries)]
  /\ intent \in [Threads -> (Customer \X Entries) \cup {None}]

WritersAlone ==
  /\ \A t \in Threads : step[t] # "out" <=> mutex = t
  /\ \A t \in Threads : step[t] # "out" => intent[t] \in Customer \X Entries
  /\ \A t \in Threads : step[t] = "modify" => Customers!unique
  /\ \A t \in Threads : newData[t] => reads[t] # None

CustomerInv == CustomerTypeOK /\ WritersAlone /\ Customers!SnapshotsKept

LEMMA FreeList == Customers!Free # {} =>
                    /\ (CHOOSE l \in Customers!Free : TRUE) \in Lists
                    /\ (CHOOSE l \in Customers!Free : TRUE) # current
                    /\ \A t \in Threads : reads[t] # (CHOOSE l \in Customers!Free : TRUE)
  BY DEF Customers!Free

LEMMA CustomerInit == Customers!Init => CustomerInv
<1> SUFFICES ASSUME Customers!Init
             PROVE  CustomerInv
  OBVIOUS
<1>1. current \in Lists
  BY SharedAssumption DEF Customers!Init, Customers!CowInit
<1> QED
  BY <1>1, SharedAssumption
     DEF Customers!Init, Customers!CowInit, CustomerInv, CustomerTypeOK, WritersAlone,
         Customers!Steps, Customers!SnapshotsKept

LEMMA CustomerStep == ASSUME CustomerInv, Customers!Next
                      PROVE  CustomerInv'
<1> USE SharedAssumption
    DEF CustomerInv, CustomerTypeOK, WritersAlone, Customers!Steps, Customers!SnapshotsKept,
        Customers!unique
<1>1. ASSUME NEW t \in Threads, Customers!Read(t) \/ Customers!ReadEnds(t)
      PROVE  CustomerInv'
  <2>v. value \in SUBSET (Customer \X Entries)
    OBVIOUS
  <2>1. CustomerTypeOK'
    <3>1. PICK r \in Lists \cup {None}, v \in SUBSET (Customer \X Entries) :
            /\ reads' = [reads EXCEPT ![t] = r] /\ seen' = [seen EXCEPT ![t] = v]
            /\ newData' = [newData EXCEPT ![t] = FALSE] \/ newData' = newData
            /\ UNCHANGED <<lists, current, mutex, step, intent>>
      BY <1>1, <2>v DEF Customers!Read, Customers!ReadEnds, Customers!getData, Customers!Release
    <3>2. reads' \in [Threads -> Lists \cup {None}] /\ seen' \in [Threads -> SUBSET (Customer \X Entries)]
      BY <3>1
    <3>3. newData' \in [Threads -> BOOLEAN]
      BY <3>1
    <3> QED
      BY <3>1, <3>2, <3>3
  <2>2. WritersAlone'
    BY <1>1 DEF Customers!Read, Customers!ReadEnds, Customers!getData, Customers!Release
  <2>3. Customers!SnapshotsKept'
    BY <1>1 DEF Customers!Read, Customers!ReadEnds, Customers!getData, Customers!Release
  <2> QED
    BY <2>1, <2>2, <2>3
<1>2. ASSUME NEW t \in Threads, NEW p \in Customers!Pairs, Customers!Call(t, p)
      PROVE  CustomerInv'
  <2>1. /\ mutex = None /\ mutex' = t /\ step[t] = "out" /\ step' = [step EXCEPT ![t] = "test"]
        /\ intent' = [intent EXCEPT ![t] = p]
        /\ UNCHANGED <<lists, current, reads, newData, value, seen>>
    BY <1>2 DEF Customers!Call, Customers!WriterLocks, Customers!GoTo
  <2>2. CustomerTypeOK' /\ Customers!SnapshotsKept'
    BY <1>2, <2>1 DEF Customers!Pairs
  <2>3. WritersAlone'
    BY <1>2, <2>1 DEF Customers!Pairs
  <2> QED
    BY <2>2, <2>3
<1>3. ASSUME NEW t \in Threads, Customers!Prepare(t)
      PROVE  CustomerInv'
  <2>1. CASE Customers!TestUnique(t)
    BY <1>3, <2>1 DEF Customers!Prepare, Customers!TestUnique, Customers!GoTo
  <2>2. CASE Customers!Copy(t)
    BY <1>3, <2>2, FreeList DEF Customers!Prepare, Customers!Copy, Customers!GoTo
  <2> QED
    BY <1>3, <2>1, <2>2 DEF Customers!Prepare
<1>4. ASSUME NEW t \in Threads, Customers!Write(t)
      PROVE  CustomerInv'
  <2> DEFINE new == Customers!Put(lists[current], intent[t])
  <2>1. /\ step[t] = "modify" /\ step' = [step EXCEPT ![t] = "out"] /\ mutex' = None
        /\ lists' = [lists EXCEPT ![current] = new] /\ value' = Customers!Put(value, intent[t])
        /\ intent' = [intent EXCEPT ![t] = None]
        /\ UNCHANGED <<current, reads, newData, seen>>
    BY <1>4 DEF Customers!Write, Customers!Modify, Customers!GoTo
  <2>2. new \subseteq Customer \X Entries
    <3>1. lists[current] \subseteq Customer \X Entries /\ intent[t] \in Customer \X Entries
      BY <2>1
    <3> QED
      BY <3>1 DEF Customers!Put
  <2>3. value' = new
    BY <2>1
  <2> HIDE DEF new
  <2>4. \A u \in Threads : reads[u] # current
    BY <2>1
  <2>5. CustomerTypeOK' /\ WritersAlone'
    BY <2>1, <2>2
  <2>6. Customers!SnapshotsKept'
    BY <2>1, <2>3, <2>4
  <2> QED
    BY <2>5, <2>6
<1>5. ASSUME NEW t \in Threads, NEW m \in Customers!Maps, Customers!parseData(t, m)
      PROVE  CustomerInv'
  <2>1. CustomerTypeOK'
    BY <1>5, FreeList DEF Customers!parseData, Customers!Maps, Customers!Pairs
  <2>2. WritersAlone'
    BY <1>5, FreeList DEF Customers!parseData, Customers!Maps, Customers!Pairs
  <2>3. Customers!SnapshotsKept'
    <3>1. PICK l \in Lists : /\ l # current /\ \A u \in Threads : reads[u] # l
                             /\ reads' = [reads EXCEPT ![t] = l] /\ lists' = [lists EXCEPT ![l] = m]
                             /\ seen' = [seen EXCEPT ![t] = m]
                             /\ UNCHANGED <<current, value>>
      BY <1>5, FreeList DEF Customers!parseData
    <3> QED
      BY <3>1
  <2> QED
    BY <2>1, <2>2, <2>3
<1>6. ASSUME NEW t \in Threads, Customers!Swap(t)
      PROVE  CustomerInv'
  <2>1. CustomerTypeOK'
    BY <1>6 DEF Customers!Swap
  <2>2. WritersAlone'
    BY <1>6 DEF Customers!Swap
  <2>3. Customers!SnapshotsKept'
    BY <1>6 DEF Customers!Swap
  <2> QED
    BY <2>1, <2>2, <2>3
<1> QED
  BY <1>1, <1>2, <1>3, <1>4, <1>5, <1>6 DEF Customers!Next

--------------------------------------------------------------------------------
(* Observer: what the walk of notifyObservers() knows of the vector. *)
Notifying == it > 0
Safe == program = "Observer_safe"
Busy(o) == life[o] \in {"joining", "dying"}

ObserverTypeOK ==
  /\ observers \in Seq(Observer) /\ updated \in Seq(Observer)
  /\ subject \in BOOLEAN /\ unsafe \in BOOLEAN /\ wild \in BOOLEAN
  /\ life \in [Observer -> {"new", "joining", "alive", "locked", "dying", "dead"}]
  /\ it \in Nat /\ obj \in Observer \cup {None}
  /\ due \subseteq there /\ there \subseteq Observer

(* Nobody is in the vector twice, or before it has been registered. *)
Joined(o) == life[o] \notin {"new", "joining"}
Once(seq) == \A i, j \in 1..Len(seq) : seq[i] = seq[j] => i = j
Registered ==
  /\ Once(observers)
  /\ \A i \in 1..Len(observers) : Joined(observers[i])
  /\ \A o \in there : Joined(o)

(* Who is locked is being updated, and who is registered or destroyed     *)
(* while the subject notifies, or after it is gone, has made the program  *)
(* unsafe.                                                                *)
Locked ==
  /\ Notifying => subject
  /\ obj # None => Notifying
  /\ Safe /\ obj # None => life[obj] \in {"alive", "locked"}
  /\ ~Safe => \A o \in Observer : life[o] # "locked"

Dying ==
  /\ Safe => \A o \in Observer : life[o] # "dying"
  /\ ~Safe /\ subject => \A i \in 1..Len(observers) : life[observers[i]] \in {"alive", "dying"}
  /\ (~subject \/ Notifying) /\ (\E o \in Observer : Busy(o)) => unsafe
  /\ wild => unsafe

(* The walk is at `it'; whom it has passed it has updated, and whom it     *)
(* will not reach it need not update.                                     *)
Walk == Notifying /\ ~unsafe =>
  /\ it <= Len(observers) + 1 /\ Len(updated) = it - 1
  /\ \A i \in 1..(it - 1) : updated[i] = observers[i] /\ observers[i] \in due
  /\ obj # None => it <= Len(observers) /\ obj = observers[it] /\ obj \in due
  /\ \A i \in 1..Len(observers) : observers[i] \in there
  /\ \A o \in due : life[o] = "alive" => \E i \in 1..Len(observers) : observers[i] = o
  /\ \A o \in there : life[o] = "alive" => o \in due

Walked == ~Notifying /\ ~unsafe =>
  /\ Once(updated)
  /\ \A i \in 1..Len(updated) : updated[i] \in due
  /\ \A o \in due : life[o] = "alive" => \E i \in 1..Len(updated) : updated[i] = o
  /\ Safe => \A i \in 1..Len(observers) : observers[i] \in there => observers[i] \in due

ObserverInv == ObserverTypeOK /\ Registered /\ Locked /\ Dying /\ Walk /\ Walked

--------------------------------------------------------------------------------
(* How the vector changes. *)
LEMMA PushedBack ==
  ASSUME NEW S, NEW s \in Seq(S), NEW o \in S, Once(s), \A i \in 1..Len(s) : s[i] # o
  PROVE  /\ Append(s, o) \in Seq(S) /\ Once(Append(s, o))
         /\ \A i \in 1..Len(Append(s, o)) :
              Append(s, o)[i] = o \/ \E j \in 1..Len(s) : Append(s, o)[i] = s[j]
  BY DEF Once

LEMMA SwapPopped ==
  ASSUME NEW S, NEW s \in Seq(S), NEW i \in 1..Len(s), Once(s)
  PROVE  LET t == Observers!SwapPop(s, i)
         IN  /\ t \in Seq(S) /\ Once(t)
             /\ \A k \in 1..Len(t) : \E j \in 1..Len(s) : j # i /\ t[k] = s[j]
<1> DEFINE u == [s EXCEPT ![i] = s[Len(s)]]
<1> DEFINE t == SubSeq(u, 1, Len(u) - 1)
<1>1. Len(s) \in Nat /\ s[Len(s)] \in S
  OBVIOUS
<1>2. u \in Seq(S) /\ Len(u) = Len(s) /\ \A k \in 1..Len(s) : u[k] = IF k = i THEN s[Len(s)] ELSE s[k]
  BY <1>1, ExceptSeq
<1> HIDE DEF u
<1>3. /\ t \in Seq(S) /\ Len(t) = Len(s) - 1
      /\ \A k \in 1..Len(t) : t[k] = u[k]
  BY <1>1, <1>2, SubSeqProperties
<1>4. Observers!SwapPop(s, i) = t
  BY DEF Observers!SwapPop, Observers!Front, Observers!Last, u
<1> HIDE DEF t
<1>5. \A k \in 1..Len(t) : k \in 1..Len(s) /\ k # Len(s) /\ t[k] = IF k = i THEN s[Len(s)] ELSE s[k]
  BY <1>1, <1>2, <1>3
<1>6. Once(t)
  BY <1>1, <1>5 DEF Once
<1>7. ASSUME NEW k \in 1..Len(t)
      PROVE  \E j \in 1..Len(s) : j # i /\ t[k] = s[j]
  <2>1. CASE k = i
    BY <1>1, <1>5, <2>1
  <2>2. CASE k # i
    BY <1>5, <2>2
  <2> QED
    BY <2>1, <2>2
<1> QED
  BY <1>3, <1>4, <1>6, <1>7

LEMMA Removed ==
  ASSUME NEW S, NEW s \in Seq(S), NEW i \in 1..Len(s)
  PROVE  LET t == Observers!RemoveAt(s, i)
         IN  /\ t \in Seq(S) /\ Len(t) = Len(s) - 1
             /\ \A k \in 1..(i - 1) : t[k] = s[k]
             /\ \A k \in i..Len(t) : t[k] = s[k + 1]
<1> DEFINE a == SubSeq(s, 1, i - 1)
<1> DEFINE b == SubSeq(s, i + 1, Len(s))
<1> DEFINE t == a \o b
<1>1. Len(s) \in Nat
  OBVIOUS
<1>2. a \in Seq(S) /\ Len(a) = i - 1 /\ \A k \in 1..(i - 1) : a[k] = s[k]
  BY <1>1, SubSeqProperties
<1>3. b \in Seq(S) /\ Len(b) = Len(s) - i /\ \A k \in 1..(Len(s) - i) : b[k] = s[i + k]
  BY <1>1, SubSeqProperties
<1>4. Observers!RemoveAt(s, i) = t
  BY DEF Observers!RemoveAt
<1> HIDE DEF a, b
<1>5. /\ t \in Seq(S) /\ Len(t) = Len(a) + Len(b)
      /\ \A k \in 1..(Len(a) + Len(b)) : t[k] = IF k <= Len(a) THEN a[k] ELSE b[k - Len(a)]
  BY <1>2, <1>3, ConcatProperties
<1> HIDE DEF t
<1>6. Len(t) = Len(s) - 1
  BY <1>1, <1>2, <1>3, <1>5
<1>7. \A k \in 1..(i - 1) : t[k] = s[k]
  <2>1. \A k \in 1..(i - 1) : k \in 1..(Len(a) + Len(b)) /\ k <= Len(a)
    BY <1>1, <1>2, <1>3
  <2> QED
    BY <1>2, <1>5, <2>1
<1>8. \A k \in i..Len(t) : t[k] = s[k + 1]
  <2>1. \A k \in i..Len(t) : /\ k \in 1..(Len(a) + Len(b)) /\ ~(k <= Len(a))
                             /\ k - Len(a) \in 1..(Len(s) - i) /\ i + (k - Len(a)) = k + 1
    BY <1>1, <1>2, <1>3, <1>6
  <2> QED
    BY <1>3, <1>5, <2>1
<1> QED
  BY <1>4, <1>5, <1>6, <1>7, <1>8

LEMMA LeastOfOne == \A i \in Nat : Observers!Min({i}) = i
  BY DEF Observers!Min

LEMMA ObserverInit == Observers!Init => ObserverInv
<1> SUFFICES ASSUME Observers!Init
             PROVE  ObserverInv
  OBVIOUS
<1> USE DEF Observers!Init, Notifying, Safe
<1>1. ObserverTypeOK
  <2>1. <<>> \in Seq(Observer) /\ [o \in Observer |-> "new"] \in [Observer -> {"new"}]
    OBVIOUS
  <2> QED
    BY <2>1 DEF ObserverTypeOK
<1>2. Registered /\ Locked /\ Dying
  BY DEF Registered, Locked, Dying, Once
<1>3. Walk /\ Walked
  BY DEF Walk, Walked, Once
<1> QED
  BY <1>1, <1>2, <1>3 DEF ObserverInv

LEMMA ObserveKeepsInv == ASSUME ObserverInv, NEW o \in Observer, Observers!observe(o), program' = program
                         PROVE  ObserverInv'
<1> USE DEF ObserverInv
<1>1. /\ life[o] = "new" /\ subject
      /\ life' = [life EXCEPT ![o] = "joining"] /\ (unsafe \/ Notifying => unsafe')
      /\ unsafe' \in BOOLEAN
      /\ UNCHANGED <<observers, subject, it, obj, there, due, updated, wild>>
  BY DEF Observers!observe, Observers!notify, Observers!Notifying, Notifying
<1>e. /\ \A u \in Observer : life'[u] = IF u = o THEN "joining" ELSE life[u]
      /\ \A i \in 1..Len(observers) : observers[i] \in Observer
  BY <1>1 DEF ObserverTypeOK
<1>2. \A u \in Observer : Joined(u) => u # o
  BY <1>1 DEF Joined
<1>3. ObserverTypeOK'
  BY <1>1 DEF ObserverTypeOK
<1>4. Registered'
  BY <1>1, <1>e DEF Registered, Joined, ObserverTypeOK
<1>5. Locked'
  BY <1>1, <1>e, SharedAssumption DEF Locked, ObserverTypeOK, Notifying, Safe
<1>6. Dying'
  <2>1. Safe => \A u \in Observer : life'[u] # "dying"
    BY <1>e DEF Dying
  <2>2. ~Safe /\ subject => \A i \in 1..Len(observers) : life'[observers[i]] \in {"alive", "dying"}
    BY <1>1, <1>e DEF Dying
  <2>3. ~subject' \/ Notifying' => unsafe'
    BY <1>1 DEF Notifying
  <2> QED
    BY <1>1, <2>1, <2>2, <2>3 DEF Dying, Safe
<1>7. Walk'
  BY <1>1 DEF Walk, Notifying
<1>8. Walked'
  BY <1>1, <1>e DEF Walked, ObserverTypeOK, Notifying, Safe
<1> QED
  BY <1>3, <1>4, <1>5, <1>6, <1>7, <1>8

LEMMA RegisterKeepsInv == ASSUME ObserverInv, NEW o \in Observer, Observers!register_(o), program' = program
                          PROVE  ObserverInv'
<1> USE DEF ObserverInv
<1>1. /\ life[o] = "joining" /\ observers' = IF subject THEN Append(observers, o) ELSE observers
      /\ life' = [life EXCEPT ![o] = "alive"] /\ wild' = (wild \/ ~subject)
      /\ UNCHANGED <<subject, it, obj, there, due, updated, unsafe>>
  BY DEF Observers!register_, Observers!notify
<1>e. /\ \A u \in Observer : life'[u] = IF u = o THEN "alive" ELSE life[u]
      /\ \A i \in 1..Len(observers) : observers[i] \in Observer
  BY <1>1 DEF ObserverTypeOK
<1>2. /\ observers' \in Seq(Observer) /\ Once(observers')
      /\ \A i \in 1..Len(observers') :
           observers'[i] = o \/ \E j \in 1..Len(observers) : observers'[i] = observers[j]
  <2>1. \A i \in 1..Len(observers) : observers[i] # o
    BY <1>1 DEF Registered, Joined
  <2> QED
    BY <1>1, <2>1, PushedBack DEF ObserverTypeOK, Registered
<1>3. ObserverTypeOK'
  BY <1>1, <1>2 DEF ObserverTypeOK
<1>4. Registered'
  <2>1. \A u \in Observer : Joined(u) => Joined(u)'
    BY <1>1, <1>e DEF Joined
  <2>2. Joined(o)'
    BY <1>1, <1>e DEF Joined
  <2>3. \A i \in 1..Len(observers') : life'[observers'[i]] \notin {"new", "joining"}
    BY <1>2, <1>e, <2>1, <2>2 DEF Registered, Joined
  <2>4. \A u \in there' : Joined(u)'
    BY <1>1, <2>1 DEF Registered, ObserverTypeOK
  <2> QED
    BY <1>2, <2>3, <2>4 DEF Registered, Joined
<1>5. Locked'
  BY <1>1, <1>e, SharedAssumption DEF Locked, ObserverTypeOK, Notifying, Safe
<1>b. ~subject \/ Notifying => unsafe
  BY <1>1 DEF Dying, Busy
<1>6. Dying'
  <2>1. Safe => \A u \in Observer : life'[u] # "dying"
    BY <1>e DEF Dying
  <2>2. ~Safe /\ subject => \A i \in 1..Len(observers') : life'[observers'[i]] \in {"alive", "dying"}
    BY <1>2, <1>e DEF Dying
  <2>3. (~subject' \/ Notifying' => unsafe') /\ (wild' => unsafe')
    BY <1>1, <1>b DEF Dying, Notifying
  <2> QED
    BY <1>1, <2>1, <2>2, <2>3 DEF Dying, Safe
<1>7. Walk'
  BY <1>1, <1>b DEF Walk, Notifying
<1>8. Walked'
  <2>1. o \notin there
    BY <1>1 DEF Registered, Joined
  <2> QED
    BY <1>1, <1>2, <1>e, <2>1 DEF Walked, ObserverTypeOK, Notifying, Safe
<1> QED
  BY <1>3, <1>4, <1>5, <1>6, <1>7, <1>8

LEMMA DestroyKeepsInv == ASSUME ObserverInv, NEW o \in Observer, Observers!Destroy(o), program' = program
                         PROVE  ObserverInv'
<1> USE DEF ObserverInv
<1>1. /\ ~Safe /\ life[o] = "alive" /\ (\A u \in Observer : life'[u] = IF u = o THEN "dying" ELSE life[u])
      /\ life' = [life EXCEPT ![o] = "dying"]
      /\ (unsafe \/ Notifying \/ ~subject => unsafe') /\ unsafe' \in BOOLEAN
      /\ UNCHANGED <<observers, subject, it, obj, there, due, updated, wild>>
  BY DEF ObserverTypeOK, Observers!Destroy, Observers!notify, Observers!Safe, Safe, Observers!Notifying, Notifying
<1>e. \A i \in 1..Len(observers) : observers[i] \in Observer
  BY DEF ObserverTypeOK
<1>2. ObserverTypeOK'
  BY <1>1 DEF ObserverTypeOK
<1>3. Registered'
  BY <1>1 DEF Registered, Joined, ObserverTypeOK
<1>4l. Locked'
  BY <1>1, SharedAssumption DEF Locked, ObserverTypeOK, Notifying, Safe
<1>4. Dying'
  <2>1. Notifying' \/ ~subject' => unsafe'
    BY <1>1 DEF Notifying
  <2>2. wild' => unsafe'
    BY <1>1 DEF Dying
  <2>3. \A i \in 1..Len(observers') : subject => life'[observers'[i]] \in {"alive", "dying"}
    BY <1>1, <1>e DEF Dying
  <2> QED
    BY <1>1, <2>1, <2>2, <2>3 DEF Dying, Safe
<1>5. Walk'
  BY <1>1, SharedAssumption DEF Walk, Locked, Dying, Registered, ObserverTypeOK, Notifying, Safe
<1>6. Walked'
  BY <1>1 DEF Walked, Walk, Locked, Dying, Registered, ObserverTypeOK, Notifying, Safe
<1> QED
  BY <1>2, <1>3, <1>4l, <1>4, <1>5, <1>6

LEMMA UnregisterKeepsInv == ASSUME ObserverInv, NEW o \in Observer, Observers!unregister(o), program' = program
                            PROVE  ObserverInv'
<1> USE DEF ObserverInv
<1>1. /\ life[o] = "dying" /\ life' = [life EXCEPT ![o] = "dead"]
      /\ observers' = IF subject /\ o \in Observers!ToSet(observers)
                      THEN Observers!SwapPop(observers, Observers!SelectInSeq(observers, LAMBDA x : x = o))
                      ELSE observers
      /\ wild' = (wild \/ ~subject)
      /\ UNCHANGED <<subject, it, obj, there, due, updated, unsafe>>
  BY DEF Observers!unregister, Observers!notify
<1>2. /\ observers' \in Seq(Observer) /\ Once(observers')
      /\ \A k \in 1..Len(observers') : \E j \in 1..Len(observers) :
           observers'[k] = observers[j] /\ (subject => observers[j] # o)
  <2>1. CASE subject /\ \E i \in 1..Len(observers) : observers[i] = o
    <3>1. PICK i \in 1..Len(observers) : observers[i] = o
      BY <2>1
    <3>2. observers \in Seq(Observer) /\ Once(observers)
      BY DEF ObserverTypeOK, Registered
    <3>3. o \in Observers!ToSet(observers)
      BY <3>1, <3>2 DEF Observers!ToSet
    <3>4. Observers!SelectInSeq(observers, LAMBDA x : x = o) = i
      <4>1. {k \in 1..Len(observers) : observers[k] = o} = {i}
        BY <3>1, <3>2 DEF Once
      <4> QED
        BY <4>1, LeastOfOne DEF Observers!SelectInSeq
    <3>5. observers' = Observers!SwapPop(observers, i)
      BY <1>1, <2>1, <3>3, <3>4
    <3>6. /\ observers' \in Seq(Observer) /\ Once(observers')
          /\ \A k \in 1..Len(observers') : \E j \in 1..Len(observers) : j # i /\ observers'[k] = observers[j]
      BY <3>2, <3>5, SwapPopped
    <3> QED
      BY <3>1, <3>2, <3>6 DEF Once
  <2>2. CASE ~(subject /\ \E i \in 1..Len(observers) : observers[i] = o)
    <3>1. subject => o \notin Observers!ToSet(observers)
      BY <2>2 DEF Observers!ToSet, ObserverTypeOK
    <3>2. observers' = observers
      BY <1>1, <3>1
    <3> QED
      BY <2>2, <3>2 DEF ObserverTypeOK, Registered
  <2> QED
    BY <2>1, <2>2
<1>3. ObserverTypeOK'
  BY <1>1, <1>2 DEF ObserverTypeOK
<1>e. /\ \A u \in Observer : life'[u] = IF u = o THEN "dead" ELSE life[u]
      /\ \A i \in 1..Len(observers) : observers[i] \in Observer
  BY <1>1 DEF ObserverTypeOK
<1>4. Registered'
  <2>1. \A u \in Observer : Joined(u) => Joined(u)'
    BY <1>e DEF Joined
  <2>2. \A k \in 1..Len(observers') : life'[observers'[k]] \notin {"new", "joining"}
    BY <1>2, <1>e, <2>1 DEF Registered, Joined
  <2> QED
    BY <1>1, <1>2, <2>1, <2>2 DEF Registered, Joined, ObserverTypeOK
<1>5l. Locked'
  BY <1>1, <1>2, SharedAssumption DEF Locked, ObserverTypeOK, Notifying, Safe
<1>5. Dying'
  <2>1. ~Safe /\ (~subject \/ Notifying => unsafe)
    BY <1>1 DEF Dying, Busy
  <2>2. wild' => unsafe'
    BY <1>1, <2>1 DEF Dying
  <2>3. \A k \in 1..Len(observers') : subject => life'[observers'[k]] \in {"alive", "dying"}
    BY <1>2, <1>e, <2>1 DEF Dying
  <2>4. ~Safe' /\ (~subject' \/ Notifying' => unsafe')
    BY <1>1, <2>1 DEF Safe, Notifying
  <2> QED
    BY <1>1, <2>2, <2>3, <2>4 DEF Dying
<1>6. Walk'
  BY <1>1 DEF Walk, Dying, Busy, Notifying
<1>7. Walked'
  BY <1>1, <1>2 DEF Walked, Walk, Locked, Dying, Registered, ObserverTypeOK, Notifying, Safe
<1> QED
  BY <1>3, <1>4, <1>5l, <1>5, <1>6, <1>7

LEMMA DropsKeepInv == ASSUME ObserverInv, NEW o \in Observer, Observers!Drop(o), program' = program
                      PROVE  ObserverInv'
<1> USE DEF ObserverInv
<1>1. /\ Safe /\ life[o] = "alive"
      /\ life' \in [Observer -> {"new", "joining", "alive", "locked", "dying", "dead"}]
      /\ \A u \in Observer : u # o => life'[u] = life[u]
      /\ life'[o] = IF obj = o THEN "locked" ELSE "dead"
      /\ UNCHANGED <<observers, subject, it, obj, there, due, updated, unsafe, wild>>
  BY DEF ObserverTypeOK, Observers!Drop, Observers!notify, Observers!Safe, Safe
<1>e. \A i \in 1..Len(observers) : observers[i] \in Observer
  BY DEF ObserverTypeOK
<1>2. ObserverTypeOK'
  BY <1>1 DEF ObserverTypeOK
<1>3. Registered'
  <2>1. \A u \in Observer : Joined(u) => Joined(u)'
    BY <1>1 DEF Joined
  <2> QED
    BY <1>1, <1>e, <2>1 DEF Registered, Joined, ObserverTypeOK
<1>4l. Locked'
  BY <1>1, SharedAssumption DEF Locked, ObserverTypeOK, Notifying, Safe
<1>4. Dying'
  <2>1. \A u \in Observer : life'[u] # "dying"
    BY <1>1 DEF Dying
  <2>2. \A u \in Observer : Busy(u)' => Busy(u)
    BY <1>1 DEF Busy
  <2> QED
    BY <1>1, <2>1, <2>2 DEF Dying, Notifying, Safe
<1>5. Walk'
  BY <1>1, SharedAssumption DEF Walk, Locked, Dying, Registered, ObserverTypeOK, Notifying, Safe
<1>6. Walked'
  BY <1>1 DEF Walked, Walk, Locked, Dying, Registered, ObserverTypeOK, Notifying, Safe
<1> QED
  BY <1>2, <1>3, <1>4l, <1>4, <1>5, <1>6

LEMMA DestroySubjectKeepsInv == ASSUME ObserverInv, Observers!DestroySubject, program' = program
                                PROVE  ObserverInv'
<1> USE DEF ObserverInv
<1>1. /\ subject /\ ~Notifying /\ subject' = FALSE
      /\ unsafe' = (unsafe \/ \E o \in Observer : Busy(o))
      /\ UNCHANGED <<observers, life, it, obj, there, due, updated, wild>>
  BY DEF Observers!DestroySubject, Observers!Changing, Observers!notify, Observers!Notifying, Notifying, Busy
<1>2. ObserverTypeOK'
  BY <1>1 DEF ObserverTypeOK
<1>3. Registered'
  BY <1>1 DEF Registered, Joined, ObserverTypeOK
<1>4l. Locked'
  BY <1>1, SharedAssumption DEF Locked, ObserverTypeOK, Notifying, Safe
<1>4. Dying'
  BY <1>1 DEF Dying, Busy, Safe
<1>5. Walk'
  BY <1>1, SharedAssumption DEF Walk, Locked, Dying, Registered, ObserverTypeOK, Notifying, Safe
<1>6. Walked'
  BY <1>1 DEF Walked, Walk, Locked, Dying, Registered, ObserverTypeOK, Notifying, Safe
<1> QED
  BY <1>2, <1>3, <1>4l, <1>4, <1>5, <1>6

LEMMA NotifyKeepsInv == ASSUME ObserverInv, Observers!notifyObservers, program' = program
                        PROVE  ObserverInv'
<1> USE DEF ObserverInv
<1>1. /\ subject /\ ~Notifying /\ it' = 1 /\ updated' = <<>>
      /\ there' = {observers[i] : i \in 1..Len(observers)}
      /\ due' = {o \in there' : life[o] = "alive"}
      /\ (\E o \in Observer : Busy(o)) => unsafe'
      /\ unsafe => unsafe'
      /\ unsafe' \in BOOLEAN
      /\ UNCHANGED <<observers, subject, life, obj, wild>>
  <2>1. Observers!ToSet(observers) = {observers[i] : i \in 1..Len(observers)}
    BY DEF Observers!ToSet, ObserverTypeOK
  <2>2. there' = Observers!ToSet(observers) /\ due' = {o \in Observers!ToSet(observers) : life[o] = "alive"}
    BY DEF Observers!notifyObservers
  <2>3. unsafe' = (unsafe \/ \E o \in Observer : Busy(o))
    BY DEF Observers!notifyObservers, Observers!Changing, Busy
  <2>4. /\ subject /\ ~Notifying /\ it' = 1 /\ updated' = <<>>
        /\ UNCHANGED <<observers, subject, life, obj, wild>>
    BY DEF Observers!notifyObservers, Observers!Notifying, Notifying
  <2>5. due' = {o \in there' : life[o] = "alive"}
    BY <2>2
  <2>6. unsafe' \in BOOLEAN
    BY <2>3
  <2> QED
    BY <2>1, <2>2, <2>3, <2>4, <2>5, <2>6
<1>e. \A i \in 1..Len(observers) : observers[i] \in Observer
  BY DEF ObserverTypeOK
<1>2. obj = None
  BY <1>1 DEF Locked
<1>4. ObserverTypeOK'
  BY <1>1, <1>2, <1>e DEF ObserverTypeOK
<1>5. Registered'
  BY <1>1, <1>2, <1>e DEF Registered, Joined, ObserverTypeOK
<1>6. Locked'
  BY <1>1, <1>2, <1>e, SharedAssumption DEF Locked, ObserverTypeOK, Notifying, Safe
<1>7. Dying'
  BY <1>1, <1>2, <1>e DEF Dying, Busy, ObserverTypeOK, Notifying, Safe
<1>8. Walk'
  BY <1>1, <1>2, <1>e, SharedAssumption DEF Walk, Locked, Dying, Registered, ObserverTypeOK, Notifying, Safe
<1>9. Walked'
  BY <1>1, <1>2, <1>e DEF Walked, Walk, Registered, ObserverTypeOK, Notifying, Safe
<1> QED
  BY <1>4, <1>5, <1>6, <1>7, <1>8, <1>9

LEMMA TakeKeepsInv == ASSUME ObserverInv, Observers!Take, program' = program
                      PROVE  ObserverInv'
<1> USE DEF ObserverInv
<1>1. /\ Notifying /\ obj = None /\ it <= Len(observers)
      /\ Safe => life[observers[it]] = "alive"
      /\ obj' = observers[it]
      /\ UNCHANGED <<observers, subject, life, it, there, due, updated, unsafe, wild>>
  BY DEF Observers!Take, Observers!AtElement, Observers!Notifying, Notifying, Observers!Safe, Safe
<1>2. it \in 1..Len(observers) /\ observers[it] \in Observer
  BY <1>1 DEF ObserverTypeOK, Notifying
<1>3. ~unsafe => observers[it] \in due
  <2>1. ~unsafe /\ ~Safe => life[observers[it]] = "alive"
    BY <1>1, <1>2 DEF Dying, Busy, Locked
  <2> QED
    BY <1>1, <1>2, <2>1 DEF Walk
<1>4. ObserverTypeOK'
  BY <1>1, <1>2, <1>3 DEF ObserverTypeOK
<1>5. Registered'
  BY <1>1, <1>2, <1>3 DEF Registered, Joined, ObserverTypeOK
<1>6. Locked'
  BY <1>1, <1>2, <1>3, SharedAssumption DEF Locked, ObserverTypeOK, Notifying, Safe
<1>7. Dying'
  BY <1>1, <1>2, <1>3 DEF Dying, Busy, ObserverTypeOK, Notifying, Safe
<1>8. Walk'
  BY <1>1, <1>2, <1>3, SharedAssumption DEF Walk, Locked, Dying, Registered, ObserverTypeOK, Notifying, Safe
<1>9. Walked'
  BY <1>1, <1>2, <1>3 DEF Walked, Walk, Registered, ObserverTypeOK, Notifying, Safe
<1> QED
  BY <1>4, <1>5, <1>6, <1>7, <1>8, <1>9

LEMMA EraseKeepsInv == ASSUME ObserverInv, Observers!EraseExpired, program' = program
                       PROVE  ObserverInv'
<1> USE DEF ObserverInv
<1>1. /\ Notifying /\ obj = None /\ it <= Len(observers) /\ Safe
      /\ life[observers[it]] # "alive"
      /\ observers' = Observers!RemoveAt(observers, it)
      /\ UNCHANGED <<subject, life, it, obj, there, due, updated, unsafe, wild>>
  BY DEF Observers!EraseExpired, Observers!AtElement, Observers!Notifying, Notifying, Observers!Safe, Safe,
         Observers!notify
<1>2. it \in 1..Len(observers) /\ Len(observers) \in Nat
  BY <1>1 DEF ObserverTypeOK, Notifying
<1>3. /\ observers' \in Seq(Observer) /\ Len(observers') = Len(observers) - 1
      /\ \A k \in 1..(it - 1) : observers'[k] = observers[k]
      /\ \A k \in it..Len(observers') : observers'[k] = observers[k + 1]
  BY <1>1, <1>2, Removed DEF ObserverTypeOK
<1>k. \A k \in 1..Len(observers') :
        \/ k \in 1..(it - 1) /\ k \in 1..Len(observers) /\ observers'[k] = observers[k]
        \/ k \in it..Len(observers') /\ k + 1 \in 1..Len(observers) /\ observers'[k] = observers[k + 1]
  BY <1>2, <1>3
<1>o. /\ Once(observers')
      /\ \A k \in 1..Len(observers') : \E j \in 1..Len(observers) : observers'[k] = observers[j]
  <2>1. ASSUME NEW i \in 1..Len(observers'), NEW j \in 1..Len(observers'), observers'[i] = observers'[j]
        PROVE  i = j
    <3>1. PICK m \in 1..Len(observers) : m = (IF i < it THEN i ELSE i + 1) /\ observers'[i] = observers[m]
      BY <1>2, <1>k
    <3>2. PICK n \in 1..Len(observers) : n = (IF j < it THEN j ELSE j + 1) /\ observers'[j] = observers[n]
      BY <1>2, <1>k
    <3>3. m = n
      BY <2>1, <3>1, <3>2 DEF Once, Registered
    <3> QED
      BY <1>2, <3>1, <3>2, <3>3
  <2>2. \A k \in 1..Len(observers') : \E j \in 1..Len(observers) : observers'[k] = observers[j]
    BY <1>k
  <2> QED
    BY <2>1, <2>2 DEF Once
<1>s. \A i \in 1..Len(observers) : i # it => \E k \in 1..Len(observers') : observers'[k] = observers[i]
  <2>1. ASSUME NEW i \in 1..Len(observers), i # it
        PROVE  \E k \in 1..Len(observers') : observers'[k] = observers[i]
    <3>1. CASE i < it
      BY <1>2, <1>3, <2>1, <3>1
    <3>2. CASE i > it
      <4>1. i - 1 \in it..Len(observers') /\ i - 1 \in 1..Len(observers') /\ (i - 1) + 1 = i
        BY <1>2, <1>3, <3>2
      <4> QED
        BY <1>3, <4>1
    <3> QED
      BY <1>2, <2>1, <3>1, <3>2
  <2> QED
    BY <2>1
<1>4. ObserverTypeOK'
  BY <1>1, <1>2, <1>3, <1>o, <1>s DEF ObserverTypeOK
<1>5. Registered'
  BY <1>1, <1>o DEF Registered, Joined
<1>6. Locked'
  BY <1>1, <1>2, <1>3, <1>o, <1>s, SharedAssumption DEF Locked, ObserverTypeOK, Notifying, Safe
<1>7. Dying'
  BY <1>1, <1>2, <1>3, <1>o, <1>s DEF Dying, Busy, ObserverTypeOK, Notifying, Safe
<1>8. Walk'
  <2> SUFFICES ASSUME ~unsafe
               PROVE  Walk'
    BY <1>1 DEF Walk
  <2>1. it <= Len(observers') + 1 /\ Len(updated') = it' - 1
    BY <1>1, <1>2, <1>3 DEF Walk
  <2>2. \A i \in 1..(it' - 1) : updated'[i] = observers'[i] /\ observers'[i] \in due'
    BY <1>1, <1>3 DEF Walk
  <2>3. \A k \in 1..Len(observers') : observers'[k] \in there'
    BY <1>1, <1>o DEF Walk
  <2>4. ASSUME NEW o \in due, life[o] = "alive"
        PROVE  \E k \in 1..Len(observers') : observers'[k] = o
    <3>1. PICK i \in 1..Len(observers) : observers[i] = o
      BY <1>1, <2>4 DEF Walk
    <3>2. i # it
      BY <1>1, <2>4, <3>1
    <3> QED
      BY <1>s, <3>1, <3>2
  <2>5. \A o \in there' : life'[o] = "alive" => o \in due'
    BY <1>1 DEF Walk
  <2> QED
    BY <1>1, <2>1, <2>2, <2>3, <2>4, <2>5 DEF Walk
<1>9. Walked'
  BY <1>1, <1>2, <1>3, <1>o, <1>s DEF Walked, Walk, Registered, ObserverTypeOK, Notifying, Safe
<1> QED
  BY <1>4, <1>5, <1>6, <1>7, <1>8, <1>9

LEMMA UpdateKeepsInv == ASSUME ObserverInv, Observers!Update, program' = program
                        PROVE  ObserverInv'
<1> USE DEF ObserverInv
<1>1. /\ Notifying /\ obj # None
      /\ updated' = Append(updated, obj)
      /\ wild' = (wild \/ life[obj] \in {"dying", "dead"})
      /\ life' = IF life[obj] = "locked" THEN [life EXCEPT ![obj] = "dead"] ELSE life
      /\ obj' = None /\ it' = it + 1
      /\ UNCHANGED <<observers, subject, there, due, unsafe>>
  BY DEF Observers!Update, Observers!Notifying, Notifying
<1>e. /\ \A i \in 1..Len(observers) : observers[i] \in Observer
      /\ obj \in Observer
      /\ \A u \in Observer : life'[u] # life[u] => life'[u] = "dead" /\ life[u] = "locked"
      /\ life' \in [Observer -> {"new", "joining", "alive", "locked", "dying", "dead"}]
  BY <1>1 DEF ObserverTypeOK
<1>2. /\ updated' \in Seq(Observer) /\ Len(updated') = Len(updated) + 1
      /\ updated'[Len(updated) + 1] = obj
      /\ \A i \in 1..Len(updated) : updated'[i] = updated[i]
      /\ Len(updated) \in Nat
  BY <1>1, <1>e DEF ObserverTypeOK
<1>4. ObserverTypeOK'
  BY <1>1, <1>2, <1>e DEF ObserverTypeOK
<1>5. Registered'
  BY <1>1, <1>2, <1>e DEF Registered, Joined, ObserverTypeOK
<1>6. Locked'
  BY <1>1, <1>2, <1>e, SharedAssumption DEF Locked, ObserverTypeOK, Notifying, Safe
<1>7. Dying'
  <2>1. life[obj] \in {"dying", "dead"} => unsafe
    <3>1. ~Safe
          => (~unsafe => obj \in {observers[i] : i \in 1..Len(observers)})
      BY <1>1 DEF Walk, ObserverTypeOK, Notifying
    <3>2. Safe => life[obj] \in {"alive", "locked"}
      BY <1>1 DEF Locked
    <3>3. ~Safe /\ ~unsafe => life[obj] = "alive"
      BY <1>1, <1>e, <3>1 DEF Dying, Busy, Locked
    <3> QED
      BY <3>2, <3>3
  <2>2. wild' => unsafe'
    BY <1>1, <2>1 DEF Dying
  <2>3. \A u \in Observer : (life'[u] = "dying" => life[u] = "dying") /\ (Busy(u)' => Busy(u))
    BY <1>e DEF Busy
  <2>4. ~Safe => \A u \in Observer : life'[u] = life[u]
    BY <1>1, <1>e DEF Locked
  <2>5. (~subject' \/ Notifying') /\ (\E o \in Observer : Busy(o)') => unsafe'
    BY <1>1, <2>3 DEF Dying
  <2>6. ~Safe' /\ subject' => \A i \in 1..Len(observers') : life'[observers'[i]] \in {"alive", "dying"}
    BY <1>1, <1>e, <2>4 DEF Dying, Safe
  <2>7. Safe' => \A o \in Observer : life'[o] # "dying"
    BY <2>3 DEF Dying, Safe
  <2> QED
    BY <2>2, <2>5, <2>6, <2>7 DEF Dying
<1>8. Walk'
  BY <1>1, <1>2, <1>e, SharedAssumption DEF Walk, Locked, Dying, Registered, ObserverTypeOK, Notifying, Safe
<1>9. Walked'
  BY <1>1, <1>2, <1>e DEF Walked, Walk, Registered, ObserverTypeOK, Notifying, Safe
<1> QED
  BY <1>4, <1>5, <1>6, <1>7, <1>8, <1>9

LEMMA ReturnKeepsInv == ASSUME ObserverInv, Observers!NotifyReturns, program' = program
                        PROVE  ObserverInv'
<1> USE DEF ObserverInv
<1>1. /\ Notifying /\ obj = None /\ it > Len(observers) /\ it' = 0
      /\ UNCHANGED <<observers, subject, life, obj, there, due, updated, unsafe, wild>>
  BY DEF Observers!NotifyReturns, Observers!Notifying, Notifying
<1>4. ObserverTypeOK'
  BY <1>1 DEF ObserverTypeOK
<1>5. Registered'
  BY <1>1 DEF Registered, Joined, ObserverTypeOK
<1>6. Locked'
  BY <1>1, SharedAssumption DEF Locked, ObserverTypeOK, Notifying, Safe
<1>7. Dying'
  BY <1>1 DEF Dying, Busy, ObserverTypeOK, Notifying, Safe
<1>8. Walk'
  BY <1>1, SharedAssumption DEF Walk, Locked, Dying, Registered, ObserverTypeOK, Notifying, Safe
<1>9. Walked'
  BY <1>1 DEF Walked, Walk, Registered, ObserverTypeOK, Notifying, Safe
<1> QED
  BY <1>4, <1>5, <1>6, <1>7, <1>8, <1>9

LEMMA StrayKeepsInv == ASSUME ObserverInv, Observers!Stray, program' = program
                       PROVE  ObserverInv'
<1>1. /\ unsafe /\ wild' = TRUE
      /\ UNCHANGED <<observers, subject, life, it, obj, there, due, updated, unsafe>>
  BY DEF Observers!Stray, Observers!notify
<1> QED
  BY <1>1 DEF ObserverInv, ObserverTypeOK, Registered, Joined, Locked, Dying, Busy, Walk, Walked, Notifying, Safe

LEMMA ObserverStep == ASSUME ObserverInv, Observers!Next
                      PROVE  ObserverInv'
<1>1. program' = program
  BY DEF Observers!Next
<1> QED
  BY <1>1, ObserveKeepsInv, RegisterKeepsInv, DestroyKeepsInv, UnregisterKeepsInv, DropsKeepInv, DestroySubjectKeepsInv,
     NotifyKeepsInv, TakeKeepsInv, EraseKeepsInv, UpdateKeepsInv, StrayKeepsInv, ReturnKeepsInv DEF Observers!Next

--------------------------------------------------------------------------------
(* The programs of the composition. *)
ProgramsInv ==
  /\ program \in Customers!Programs => CustomerInv
  /\ program \in Observers!Programs => ObserverInv

LEMMA ProgramsInitially == MCInit => ProgramsInv
  BY CustomerInit, ObserverInit DEF MCInit, ProgramsInv

LEMMA ProgramsStep == ProgramsInv /\ [MCNext]_<<program, vars, observerVars, customerVars>> => ProgramsInv'
<1> SUFFICES ASSUME ProgramsInv, [MCNext]_<<program, vars, observerVars, customerVars>>
             PROVE  ProgramsInv'
  OBVIOUS
<1> USE DEF Customers!Programs, Observers!Programs
<1>1. CASE program \in Customers!Programs /\ Customers!Next
  <2>1. program' = program
    BY <1>1 DEF Customers!Next
  <2>2. CustomerInv'
    BY <1>1, CustomerStep DEF ProgramsInv
  <2> QED
    BY <1>1, <2>1, <2>2 DEF ProgramsInv
<1>2. CASE program \in Observers!Programs /\ Observers!Next
  <2>1. program' = program
    BY <1>2 DEF Observers!Next
  <2>2. ObserverInv'
    BY <1>2, ObserverStep DEF ProgramsInv
  <2> QED
    BY <1>2, <2>1, <2>2 DEF ProgramsInv
<1>3. CASE program = "StockFactory" /\ UNCHANGED program
  BY <1>3 DEF ProgramsInv
<1>4. CASE UNCHANGED <<program, vars, observerVars, customerVars>>
  <2>1. UNCHANGED program /\ UNCHANGED observerVars /\ UNCHANGED customerVars
    BY <1>4
  <2>2. CustomerInv => CustomerInv'
    BY <2>1 DEF CustomerInv, CustomerTypeOK, WritersAlone, Customers!SnapshotsKept, Customers!unique,
                customerVars
  <2>3. ObserverInv => ObserverInv'
    BY <2>1 DEF ObserverInv, ObserverTypeOK, Registered, Joined, Locked, Dying, Busy, Walk, Walked, Notifying, Safe,
                observerVars
  <2> QED
    BY <2>1, <2>2, <2>3 DEF ProgramsInv
<1> QED
  BY <1>1, <1>2, <1>3, <1>4 DEF MCNext

(* No query and no walk sees its data change, whoever updates, posts or   *)
(* swaps a parsed map in (Customer.cpp:42-80, CopyOnWrite_test.cpp:20-49).  *)
THEOREM CustomerSnapshotsKept == MCSpec => []SnapshotsKept
<1>1. ProgramsInv => SnapshotsKept
  BY DEF ProgramsInv, SnapshotsKept, CustomerInv
<1> QED
  BY ProgramsInitially, ProgramsStep, <1>1, PTL DEF MCSpec

(* Neither subject calls anybody who is gone before two threads have been *)
(* at its vector at once: in the safe one, before register_() has run     *)
(* into a walk, into another register_() or into the subject's end, and   *)
(* never because an owner drops an observer.  Up to there notifyObservers() *)
(* updates everybody who stays, once (Observer.cpp:26-65,                 *)
(* Observer_safe.cpp:29-49, 68-71).                                       *)
THEOREM ObserversNotifiedAlive == MCSpec => []ObserversAlive
<1>1. ObserverInv => Observers!ObserversAlive
  <2> SUFFICES ASSUME ObserverInv
               PROVE  Observers!ObserversAlive
    OBVIOUS
  <2>1. wild => unsafe
    BY DEF ObserverInv, Dying
  <2>2. ASSUME ~unsafe, ~Observers!Notifying
        PROVE  /\ Observers!IsInjective(updated)
               /\ Observers!ToSet(updated) \subseteq due
               /\ \A o \in due : life[o] = "alive" => o \in Observers!ToSet(updated)
               /\ Observers!Safe => (there \ due) \cap Observers!ToSet(observers) = {}
    <3>1. DOMAIN updated = 1..Len(updated) /\ DOMAIN observers = 1..Len(observers)
      BY DEF ObserverInv, ObserverTypeOK
    <3>2. /\ Once(updated)
          /\ \A i \in 1..Len(updated) : updated[i] \in due
          /\ \A o \in due : life[o] = "alive" => \E i \in 1..Len(updated) : updated[i] = o
          /\ Safe => \A i \in 1..Len(observers) : observers[i] \in there => observers[i] \in due
      BY <2>2 DEF ObserverInv, Walked, Notifying, Observers!Notifying
    <3>3. Observers!IsInjective(updated)
      BY <3>1, <3>2 DEF Once, Observers!IsInjective
    <3> QED
      BY <3>1, <3>2, <3>3 DEF Observers!ToSet, Safe, Observers!Safe
  <2> QED
    BY <2>1, <2>2 DEF Observers!ObserversAlive
<1>2. ProgramsInv => ObserversAlive
  BY <1>1 DEF ProgramsInv, ObserversAlive
<1> QED
  BY ProgramsInitially, ProgramsStep, <1>2, PTL DEF MCSpec
================================================================================
