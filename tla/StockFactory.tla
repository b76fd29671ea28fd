------------------------------ MODULE StockFactory ------------------------------
(***************************************************************************)
(* The five StockFactories of source/ch01/StockFactory.cpp, of which the   *)
(* last is a cache of shared objects that does not keep them alive, and    *)
(* the others show what may go wrong on the way to it:                     *)
(*   1  the map holds shared pointers, and so every stock for ever;        *)
(*   2  the map holds weak pointers, and so the entries for ever;          *)
(*   3  the deleter of a stock erases its entry, through a pointer to a    *)
(*      factory that may be gone, ...                                      *)
(*   4  ... or that the stock keeps alive,                                 *)
(*      although the entry may be that of a new stock meanwhile;           *)
(*   5  the deleter erases the entry of a stock that has expired, if the   *)
(*      factory still lives.                                               *)
(* Between the moment the last shared_ptr goes (the stock is "expired")    *)
(* and the moment the deleter has mutex_, other threads may get() the key. *)
(*                                                                         *)
(* A critical section of mutex_ is one step: the only thing that changes   *)
(* underneath it is that stocks expire, which a section looks at once.     *)
(***************************************************************************)
EXTENDS Naturals

CONSTANTS Threads,
          Key,
          MaxStocks,  \* bound of the model: the stocks ever created
          None

Stock == 1..MaxStocks

ASSUME StockAssumption == MaxStocks \in Nat /\ None \notin Stock \cup Key

VARIABLES version,    \* of the five classes
          stocks,     \* stocks_: for each key its entry, a stock or None
          keyOf,      \* the key of each stock, None before its creation
          held,       \* the stock that each thread has a shared_ptr to
          owners,     \* the threads that keep a shared_ptr to the factory
          keepers,    \* the threads whose deleter has one
          pc,         \* what each thread does
          victim,     \* the stock whose deleter each thread runs
          clobbered,  \* history: the entry of a stock in use was erased
          dangling    \* history: a deleter has used a factory that is gone

history == <<version, clobbered, dangling>>
vars == <<history, stocks, keyOf, held, owners, keepers, pc, victim>>

(* The deleter of version 5 first promotes its weak_ptr to the factory.  *)
(* If that works it removes the entry and is "removed", otherwise it is  *)
(* "orphaned"; then it deletes the stock.                                *)
Places == {"idle", "promote", "remove", "removed", "orphaned"}

Held(s)    == \E t \in Threads : held[t] = s
expired(s) == ~Held(s) /\ ~(version = 1 /\ \E k \in Key : stocks[k] = s)

(* The factory lives as long as somebody has a shared_ptr to it: in      *)
(* version 4 each stock, up to the end of its deleter, in version 5 a    *)
(* deleter that has promoted its weak_ptr.  stocks_ dies with it.        *)
Alive == \/ owners # {}
         \/ keepers # {}
         \/ version = 4 /\ \E s \in Stock : Held(s)
Empty == [k \in Key |-> None]

Init == /\ version \in 1..5
        /\ stocks = Empty
        /\ keyOf = [s \in Stock |-> None]
        /\ held = [t \in Threads |-> None]
        /\ owners = Threads
        /\ keepers = {}
        /\ pc = [t \in Threads |-> "idle"]
        /\ victim = [t \in Threads |-> None]
        /\ clobbered = FALSE
        /\ dangling = FALSE

(* get(): the stock in the map is promoted, or a new one is made.        *)
GetLive(t, k) == /\ pc[t] = "idle" /\ held[t] = None /\ t \in owners
                 /\ stocks[k] # None /\ ~expired(stocks[k])
                 /\ held' = [held EXCEPT ![t] = stocks[k]]
                 /\ UNCHANGED <<history, stocks, keyOf, owners, keepers, pc, victim>>

GetNew(t, k) == /\ pc[t] = "idle" /\ held[t] = None /\ t \in owners
                /\ stocks[k] = None \/ expired(stocks[k])
                /\ \E s \in Stock :
                     /\ keyOf[s] = None
                     /\ \A r \in 1..(s - 1) : keyOf[r] # None
                     /\ stocks' = [stocks EXCEPT ![k] = s]
                     /\ keyOf' = [keyOf EXCEPT ![s] = k]
                     /\ held' = [held EXCEPT ![t] = s]
                /\ UNCHANGED <<history, owners, keepers, pc, victim>>

(* A shared_ptr to a stock goes; who drops the last one runs the deleter, *)
(* if there is one besides that of a Stock.                               *)
Drop(t) == /\ pc[t] = "idle" /\ held[t] # None
           /\ held' = [held EXCEPT ![t] = None]
           /\ IF version >= 3 /\ \A u \in Threads \ {t} : held[u] # held[t]
              THEN /\ pc' = [pc EXCEPT ![t] = IF version = 5 THEN "promote" ELSE "remove"]
                   /\ victim' = [victim EXCEPT ![t] = held[t]]
                   /\ keepers' = IF version = 4 THEN keepers \cup {t} ELSE keepers
              ELSE UNCHANGED <<keepers, pc, victim>>
           /\ UNCHANGED <<history, stocks, keyOf, owners>>

(* A shared_ptr to the factory goes. *)
DropFactory(t) == /\ pc[t] = "idle" /\ t \in owners
                  /\ owners' = owners \ {t}
                  /\ UNCHANGED <<history, keyOf, held, keepers, pc, victim>>
                  /\ stocks' = IF Alive' THEN stocks ELSE Empty

(* weakDeleteCallback(), up to the promotion.  A defect, that of          *)
(* version2: the entry is left to itself.                                 *)
PromoteNever(t) == /\ pc[t] = "promote"
                   /\ pc' = [pc EXCEPT ![t] = "orphaned"]
                   /\ UNCHANGED <<history, stocks, keyOf, held, owners, keepers, victim>>

Promote(t) == /\ pc[t] = "promote"
              /\ pc' = [pc EXCEPT ![t] = IF Alive THEN "remove" ELSE "orphaned"]
              /\ keepers' = IF Alive THEN keepers \cup {t} ELSE keepers
              /\ UNCHANGED <<history, stocks, keyOf, held, owners, victim>>

Entry(t) == stocks[keyOf[victim[t]]]
Erase(t) == stocks' = [stocks EXCEPT ![keyOf[victim[t]]] = None]

(* deleteStock() of versions 3 and 4: the entry is erased although another *)
(* thread may have put a new stock there.  The factory of version 3 may be *)
(* gone, after which anything may happen: here, nothing.                   *)
DeleteStock(t) ==
  /\ pc[t] = "remove" /\ version \in {3, 4}
  /\ IF Alive THEN Erase(t) ELSE UNCHANGED stocks
  /\ dangling' = (dangling \/ ~Alive)
  /\ clobbered' = (clobbered \/ (Alive /\ Entry(t) # None /\ ~expired(Entry(t))))
  /\ pc' = [pc EXCEPT ![t] = "removed"]
  /\ UNCHANGED <<version, keyOf, held, owners, keepers, victim>>

(* removeStock() of version 5.  A defect, that of the versions before it:  *)
(* it does not look at what is there now.                                  *)
RemoveAnyway(t) ==
  /\ pc[t] = "remove" /\ version = 5
  /\ Erase(t)
  /\ pc' = [pc EXCEPT ![t] = "removed"]
  /\ UNCHANGED <<history, keyOf, held, owners, keepers, victim>>

RemoveStock(t) ==
  /\ pc[t] = "remove" /\ version = 5
  /\ IF Entry(t) # None /\ expired(Entry(t)) THEN Erase(t) ELSE UNCHANGED stocks
  /\ dangling' = (dangling \/ ~Alive)
  /\ pc' = [pc EXCEPT ![t] = "removed"]
  /\ UNCHANGED <<version, clobbered, keyOf, held, owners, keepers, victim>>

(* The stock is deleted, and the promoted pointer to the factory goes.   *)
Delete(t) == /\ pc[t] \in {"removed", "orphaned"}
             /\ pc' = [pc EXCEPT ![t] = "idle"]
             /\ victim' = [victim EXCEPT ![t] = None]
             /\ keepers' = keepers \ {t}
             /\ UNCHANGED <<history, keyOf, held, owners>>
             /\ stocks' = IF Alive' THEN stocks ELSE Empty

Next == \E t \in Threads : \/ \E k \in Key : GetLive(t, k) \/ GetNew(t, k)
                           \/ Drop(t) \/ DropFactory(t)
                           \/ Promote(t) \/ DeleteStock(t) \/ RemoveStock(t) \/ Delete(t)

Spec == Init /\ [][Next]_vars

--------------------------------------------------------------------------------
(* All who have the stock of a key have the same object, however deleters *)
(* and new calls of get() overlap, unless a deleter of version 3 or 4 has *)
(* erased the entry of a stock in use (StockFactory.cpp:118, 161, 209-220, *)
(* and the asserts of 233 and 246).                                       *)
OneStockPerKey ==
  \/ \A t, u \in Threads :
        held[t] # None /\ held[u] # None /\ keyOf[held[t]] = keyOf[held[u]]
          => held[t] = held[u]
  \/ clobbered /\ version \in {3, 4}

(* The map does not grow with the stocks that are gone: with a deleter,   *)
(* an entry whose stock has expired has one on its way to it; and only    *)
(* that of version 3 may be too late for the factory                      *)
(* (StockFactory.cpp:104, 112-121, 145-148, 193-220).                     *)
DeletersInTime ==
  /\ version >= 3 =>
       \A k \in Key :
         stocks[k] # None /\ expired(stocks[k])
           => \E t \in Threads : pc[t] \in {"promote", "remove"} /\ keyOf[victim[t]] = k
  /\ dangling => version = 3
================================================================================
