---------------------------- MODULE WriteBehind ----------------------------
(***************************************************************************)
(* Write-behind persistence.  OrderManager and MatchingEngine change       *)
(* orders in memory and hand them to an OrderRepository: each of the two   *)
(* has one of its own, with its own queue and its own writer thread, over  *)
(* the same column family.  A writer takes a batch of references and       *)
(* serialises each order as it is by then.  Trades go through a third      *)
(* queue.  A caller that finds a queue full writes by itself, in the       *)
(* middle of its match, and a write that the store then refuses ends the   *)
(* match with an exception.  The server may crash at any step, or shut     *)
(* down.                                                                   *)
(*                                                                         *)
(* Which orders cross, at what price and for whom is the subject of        *)
(* OrderFlow; here any resting order may be hit.                           *)
(***************************************************************************)
EXTENDS Integers, Sequences, FiniteSets, SequencesExt, FiniteSetsExt

CONSTANTS
  Threads,      \* threads that serve requests
  Keys,         \* client order identifiers, the keys of the orders' records
  None,
  MaxOrders,    \* bound: how many orders are placed
  Qty,          \* the quantity of each
  MaxTrades,    \* bound: how many trades are executed
  MaxRevs,      \* bound: how many changes each order sees, its placement the first
  MaxFailures,  \* bound: how many writes the store refuses
  OrderCap,     \* capacity of an order queue (1000000 in the code)
  TradeCap,     \* capacity of the trade queue (500000)
  MaxOthers,    \* bound: how many orders, or trades, that are not followed here each queue holds
  BatchMax      \* the largest batch of a writer (256)

Orders == 1..MaxOrders
Trades == 1..MaxTrades
MaxRev == Max({0} \union Range(MaxRevs))
Repositories == {"manager", "engine"}
Writers      == Repositories \union Threads
TradeWriters == {"trades"} \union Threads

Active == {"LIVE", "PARTIALLY_FILLED"}

\* A record, the key it is stored under ("at") first: PersistedOrder.fromOrder
\* reads identifier and quantities before the state, without a lock.
Record == [order: Orders, at: Keys, key: Keys, leaves: 0..Max(Range(Qty)), rev: 0..MaxRev,
           state: Active \union {"FILLED", "CANCELLED", None}]

ASSUME WriteBehindAssumption ==
  /\ MaxOrders \in Nat /\ MaxTrades \in Nat /\ MaxFailures \in Nat
  /\ MaxOthers \in [Repositories \union {"trades"} -> Nat]
  /\ \A n \in {OrderCap, TradeCap, BatchMax} : n \in Nat \ {0}
  /\ Qty \in [Orders -> Nat \ {0}] /\ MaxRevs \in [Orders -> Nat \ {0}]
  /\ Threads \intersect {"manager", "engine", "trades"} = {}
  /\ None \notin Threads /\ None \notin Nat /\ None \notin Keys
  /\ None \notin Active /\ None \notin Record

VARIABLES
  phase,       \* "up", "closing" (orderly shutdown), "closed" or "crashed"
  nextId,      \* orderIDGenerator
  key, leaves, state,  \* the orders in memory: getClOrdID, leavesQty, state
  booked,      \* the orders resting in a book
  monitor,     \* the thread in MatchingEngine.processOrder or modifyOrder
  incoming,    \* the order that thread is matching
  hit,         \* the resting order it is filling
  owed,        \* what a thread still has to do of a round of matching or of its
               \* call: the saveAsync calls, and taking a filled order off the book
  queue,       \* OrderRepository.writeQueue, of the manager's and of the engine's
  job,         \* the orders a thread is writing: runAsyncWriter's batch, or the
               \* one order of a synchronous save
  mode,        \* "batch": written together; "each": one by one
  dbKey,       \* the key a thread has built for the record it is about to serialise
  shots,       \* the records serialised so far
  store,       \* the orders column family
  failures,
  nextTrade,   \* tradeIdGenerator
  tradeQueue,  \* TradeRepositoryService.writeQueue
  tradeJob,    \* the trade a thread is saving
  tradeStore, tradeIndex,  \* the stored trades, and those the indexes name
  \* what the properties speak about, and no step reads:
  rev,         \* completed changes of each order
  written,     \* the newest of them stored under the identifier the order had then
  writtenBy,   \* the threads that have written an order
  refused,     \* the changes of orders that were in a write the store refused
  skipped,     \* those whose save was skipped as an exception ended their match
  lostTrades   \* the trades of which either is true

memVars   == <<nextId, key, leaves, state, booked, rev>>
callVars  == <<monitor, incoming, hit>>
pipeVars  == <<queue, job, mode, dbKey, shots>>
storeVars == <<store, written, writtenBy>>
tradeVars == <<tradeQueue, tradeJob, tradeStore, tradeIndex>>
lossVars  == <<refused, skipped, lostTrades>>
vars == <<phase, memVars, callVars, owed, pipeVars, storeVars, failures, lossVars,
          nextTrade, tradeVars>>

IsLive(o) == state[o] \in Active

Up   == phase = "up"
Open == phase \in {"up", "closing"}  \* the database is open
Idle(t) == /\ incoming[t] = None /\ owed[t] = <<>>
           /\ job[t] = <<>> /\ tradeJob[t] = None

-----------------------------------------------------------------------------
(* Changes of the orders in memory. *)

Changing(o) == \E t \in Threads : hit[t] # None /\ o \in {hit[t], incoming[t]}
MayChange(o) == rev[o] + (IF Changing(o) THEN 1 ELSE 0) < MaxRevs[o]

\* OrderManager.processNewOrderInternal up to executeMatching.  The duplicate
\* check of the cache is stated of the live orders.
Place(t, k) ==
  /\ Up /\ Idle(t) /\ monitor = None
  /\ nextId \in Orders
  /\ \A o \in 1..(nextId - 1) : IsLive(o) => key[o] # k
  /\ nextId' = nextId + 1
  /\ key' = [key EXCEPT ![nextId] = k]
  /\ leaves' = [leaves EXCEPT ![nextId] = Qty[nextId]]
  /\ state' = [state EXCEPT ![nextId] = "LIVE"]
  /\ rev' = [rev EXCEPT ![nextId] = 1]
  /\ monitor' = t
  /\ incoming' = [incoming EXCEPT ![t] = nextId]
  /\ UNCHANGED <<phase, booked, hit, owed, pipeVars, storeVars, failures, lossVars,
                 nextTrade, tradeVars>>

FillQty(a, p) == Min({leaves[a], leaves[p]})

Matching(t) == incoming[t] # None /\ owed[t] = <<>> /\ job[t] = <<>> /\ tradeJob[t] = None

\* Order.fill of the incoming and of the resting order: first the quantities ...
Fill(t, p) ==
  /\ Open /\ Matching(t) /\ hit[t] = None
  /\ nextTrade \in Trades
  /\ LET a == incoming[t]
         q == FillQty(a, p) IN
       /\ p \in booked \ {a} /\ IsLive(p)
       /\ leaves[a] > 0 /\ MayChange(a) /\ MayChange(p)
       /\ leaves' = [leaves EXCEPT ![a] = @ - q, ![p] = @ - q]
  /\ hit' = [hit EXCEPT ![t] = p]
  /\ UNCHANGED <<phase, nextId, key, state, booked, rev, monitor, incoming, owed, pipeVars,
                 storeVars, failures, lossVars, nextTrade, tradeVars>>

\* ... then the states; the engine's repository is to save the resting order
\* and the trade, and then an order that is filled leaves the book.
Settle(t) ==
  /\ Open /\ hit[t] # None
  /\ LET a == incoming[t]
         p == hit[t]
         Settled(o) == IF leaves[o] = 0 THEN "FILLED" ELSE "PARTIALLY_FILLED" IN
       /\ state' = [state EXCEPT ![a] = Settled(a), ![p] = Settled(p)]
       /\ rev' = [rev EXCEPT ![a] = @ + 1, ![p] = @ + 1]
       /\ owed' = [owed EXCEPT ![t] =
            <<[to |-> "engine", what |-> p], [to |-> "trades", what |-> nextTrade]>>
              \o IF leaves[p] = 0 THEN <<[to |-> "book", what |-> p]>> ELSE <<>>]
  /\ nextTrade' = nextTrade + 1
  /\ hit' = [hit EXCEPT ![t] = None]
  /\ UNCHANGED <<phase, nextId, key, leaves, booked, monitor, incoming, pipeVars, storeVars,
                 failures, lossVars, tradeVars>>

\* OrderBook.removeOrder of the filled order, after the saves.
Unbook(t) ==
  /\ Open /\ owed[t] # <<>> /\ job[t] = <<>> /\ tradeJob[t] = None
  /\ Head(owed[t]).to = "book"
  /\ booked' = booked \ {Head(owed[t]).what}
  /\ owed' = [owed EXCEPT ![t] = Tail(@)]
  /\ UNCHANGED <<phase, nextId, key, leaves, state, rev, callVars, pipeVars, storeVars,
                 failures, lossVars, nextTrade, tradeVars>>

\* Mutant: the cancelled order is not saved.
OwedAfterSelfTrade_Nothing(p) == <<>>
OwedAfterSelfTrade(p) == <<[to |-> "engine", what |-> p]>>

\* executeMatching takes an order off the book without a fill: one that is open no
\* more, or one of the same user, which it also cancels.
TakeOff(t, p) ==
  /\ Open /\ Matching(t) /\ hit[t] = None
  /\ p \in booked \ {incoming[t]} /\ leaves[incoming[t]] > 0
  /\ booked' = booked \ {p}
  /\ IF IsLive(p)
       THEN /\ MayChange(p)
            /\ state' = [state EXCEPT ![p] = "CANCELLED"]
            /\ rev' = [rev EXCEPT ![p] = @ + 1]
            /\ owed' = [owed EXCEPT ![t] = OwedAfterSelfTrade(p)]
       ELSE UNCHANGED <<state, rev, owed>>
  /\ UNCHANGED <<phase, nextId, key, leaves, callVars, pipeVars, storeVars, failures, lossVars,
                 nextTrade, tradeVars>>

\* The end of processOrder or modifyOrder: what is left rests in the book, and
\* the caller saves the order.
Rest(t) ==
  /\ Open /\ Matching(t) /\ hit[t] = None
  /\ LET a == incoming[t] IN
       /\ booked' = IF leaves[a] > 0 /\ IsLive(a) THEN booked \union {a} ELSE booked
       /\ owed' = [owed EXCEPT ![t] = <<[to |-> "manager", what |-> a]>>]
  /\ monitor' = None
  /\ incoming' = [incoming EXCEPT ![t] = None]
  /\ UNCHANGED <<phase, nextId, key, leaves, state, rev, hit, pipeVars, storeVars, failures,
                 lossVars, nextTrade, tradeVars>>

\* processSingleCancel, one round of processMassCancel, and a modification that
\* would leave nothing of the order.
Cancel(t, o) ==
  /\ Up /\ Idle(t)
  /\ IsLive(o) /\ MayChange(o)
  /\ state' = [state EXCEPT ![o] = "CANCELLED"]
  /\ rev' = [rev EXCEPT ![o] = @ + 1]
  /\ booked' = booked \ {o}
  /\ owed' = [owed EXCEPT ![t] = <<[to |-> "manager", what |-> o]>>]
  /\ UNCHANGED <<phase, nextId, key, leaves, callVars, pipeVars, storeVars, failures, lossVars,
                 nextTrade, tradeVars>>

\* processModifyOrder: the order leaves the book, takes its new identifier and
\* is matched again.
Modify(t, o, k) ==
  /\ Up /\ Idle(t) /\ monitor = None
  /\ IsLive(o) /\ MayChange(o)
  /\ key' = [key EXCEPT ![o] = k]
  /\ rev' = [rev EXCEPT ![o] = @ + 1]
  /\ booked' = booked \ {o}
  /\ monitor' = t
  /\ incoming' = [incoming EXCEPT ![t] = o]
  /\ UNCHANGED <<phase, nextId, leaves, state, hit, owed, pipeVars, storeVars, failures,
                 lossVars, nextTrade, tradeVars>>

-----------------------------------------------------------------------------
(* OrderRepository. *)

\* Mutants: the capacity is ignored; an order that finds the queue full is dropped.
SaveAsync_Unbounded(t, r, o) ==
  /\ queue' = [queue EXCEPT ![r] = Append(@, o)]
  /\ UNCHANGED <<job, mode>>
SaveAsync_Offer(t, r, o) ==
  /\ queue' = IF Len(queue[r]) < OrderCap
                THEN [queue EXCEPT ![r] = Append(@, o)] ELSE queue
  /\ UNCHANGED <<job, mode>>
\* saveAsync: the caller itself saves the order when the queue is full, of these
\* orders or of others.
SaveAsync(t, r, o) ==
  \E others \in 0..MaxOthers[r] :
    IF Len(queue[r]) + others < OrderCap
      THEN /\ queue' = [queue EXCEPT ![r] = Append(@, o)]
           /\ UNCHANGED <<job, mode>>
      ELSE /\ job' = [job EXCEPT ![t] = <<o>>]
           /\ mode' = [mode EXCEPT ![t] = "each"]
           /\ UNCHANGED queue

SaveOrder(t) ==
  /\ Open /\ owed[t] # <<>> /\ job[t] = <<>> /\ tradeJob[t] = None
  /\ Head(owed[t]).to \in Repositories
  /\ SaveAsync(t, Head(owed[t]).to, Head(owed[t]).what)
  /\ owed' = [owed EXCEPT ![t] = Tail(@)]
  /\ UNCHANGED <<phase, memVars, callVars, dbKey, shots, storeVars, failures, lossVars,
                 nextTrade, tradeVars>>

\* runAsyncWriter: poll, then drainTo.  stopAsyncPersistence ends it, and
\* flushRemaining takes all that is left.
Taken(r) ==
  IF r = "manager" /\ phase = "closing"
    THEN Len(queue[r]) ELSE Min({BatchMax, Len(queue[r])})

Take(r) ==
  /\ Open /\ job[r] = <<>> /\ queue[r] # <<>>
  /\ job' = [job EXCEPT ![r] = SubSeq(queue[r], 1, Taken(r))]
  /\ queue' = [queue EXCEPT ![r] = SubSeq(@, Taken(r) + 1, Len(@))]
  /\ mode' = [mode EXCEPT ![r] = IF Taken(r) = 1 THEN "each" ELSE "batch"]
  /\ UNCHANGED <<phase, memVars, callVars, owed, dbKey, shots, storeVars, failures, lossVars,
                 nextTrade, tradeVars>>

\* How many records go into the next write.
Together(w) == IF mode[w] = "batch" THEN Len(job[w]) ELSE Min({1, Len(job[w])})
Torn(w) == shots[w] # <<>> /\ Last(shots[w]).state = None

NextOf(w) == job[w][Len(shots[w]) + 1]

\* buildKey of the next order.
BuildKey(w) ==
  /\ Open /\ ~Torn(w) /\ Len(shots[w]) < Together(w) /\ dbKey[w] = None
  /\ dbKey' = [dbKey EXCEPT ![w] = key[NextOf(w)]]
  /\ UNCHANGED <<phase, memVars, callVars, owed, queue, job, mode, shots, storeVars, failures,
                 lossVars, nextTrade, tradeVars>>

\* PersistedOrder.fromOrder: its identifier, by now perhaps another, its quantities ...
Serialise(w) ==
  /\ Open /\ dbKey[w] # None
  /\ LET o == NextOf(w) IN
       shots' = [shots EXCEPT ![w] = Append(@,
         [order |-> o, at |-> dbKey[w], key |-> key[o], leaves |-> leaves[o], rev |-> rev[o],
          state |-> None])]
  /\ dbKey' = [dbKey EXCEPT ![w] = None]
  /\ UNCHANGED <<phase, memVars, callVars, owed, queue, job, mode, storeVars, failures, lossVars,
                 nextTrade, tradeVars>>

\* ... and its state.
SerialiseState(w) ==
  /\ Open /\ Torn(w)
  /\ shots' = [shots EXCEPT ![w][Len(shots[w])].state = state[Last(shots[w]).order]]
  /\ UNCHANGED <<phase, memVars, callVars, owed, queue, job, mode, dbKey, storeVars, failures, lossVars,
                 nextTrade, tradeVars>>

Serialised(w) == Len(shots[w]) > 0 /\ Len(shots[w]) = Together(w) /\ ~Torn(w)

\* dbManager.put or writeBatch: the records of a batch are stored together, a
\* later one over an earlier one of the same key.
Stored(w, k) ==
  LET mine == {i \in DOMAIN shots[w] : shots[w][i].at = k} IN
  IF mine = {} THEN store[k] ELSE shots[w][Max(mine)]

Write(w) ==
  /\ Open /\ Serialised(w)
  /\ store' = [k \in Keys |-> Stored(w, k)]
  /\ written' = [o \in Orders |->
       Max({written[o]} \union
             {r.rev : r \in {x \in Range(shots[w]) : x.order = o /\ x.at = x.key}})]
  /\ writtenBy' = [o \in Orders |->
       IF \E r \in Range(shots[w]) : r.order = o THEN writtenBy[o] \union {w} ELSE writtenBy[o]]
  /\ job' = [job EXCEPT ![w] = SubSeq(@, Len(shots[w]) + 1, Len(@))]
  /\ shots' = [shots EXCEPT ![w] = <<>>]
  /\ UNCHANGED <<phase, memVars, callVars, owed, queue, mode, dbKey, failures, lossVars,
                 nextTrade, tradeVars>>

\* Mutant: a batch that cannot be written is dropped.
AfterFailure_DropBatch(r) ==
  /\ job' = [job EXCEPT ![r] = <<>>]
  /\ UNCHANGED <<mode, refused>>
\* A RocksDBException in a writer's thread: flushBatch falls back to saving one
\* by one, and a single save that fails is logged and given up.
AfterFailure(r) ==
  IF mode[r] = "batch"
    THEN /\ mode' = [mode EXCEPT ![r] = "each"]
         /\ UNCHANGED <<job, refused>>
    ELSE /\ job' = [job EXCEPT ![r] = Tail(@)]
         /\ refused' = refused \union {<<Head(job[r]), shots[r][1].rev>>}
         /\ UNCHANGED mode

WriteFails(r) ==
  /\ Open /\ Serialised(r) /\ failures < MaxFailures
  /\ failures' = failures + 1
  /\ shots' = [shots EXCEPT ![r] = <<>>]
  /\ AfterFailure(r)
  /\ UNCHANGED <<phase, memVars, callVars, owed, queue, dbKey, storeVars, skipped, lostTrades,
                 nextTrade, tradeVars>>

OwedTrades(t) ==
  {owed[t][i].what : i \in {j \in DOMAIN owed[t] : owed[t][j].to = "trades"}}

\* The exception of a save leaves executeMatching and reaches the handler's catch
\* clause: the rest of the round, the resting of the incoming order and its own
\* save are skipped.
Unwind(t) ==
  /\ owed' = [owed EXCEPT ![t] = <<>>]
  /\ incoming' = [incoming EXCEPT ![t] = None]
  /\ monitor' = IF incoming[t] = None THEN monitor ELSE None
  /\ skipped' = IF incoming[t] = None THEN skipped
                  ELSE skipped \union {<<incoming[t], rev[incoming[t]]>>}
  /\ lostTrades' = lostTrades \union OwedTrades(t) \union ({tradeJob[t]} \ {None})

\* save by a caller that met a full queue: the exception is thrown on.
SaveThrows(t) ==
  /\ Open /\ Serialised(t) /\ failures < MaxFailures
  /\ failures' = failures + 1
  /\ job' = [job EXCEPT ![t] = <<>>]
  /\ shots' = [shots EXCEPT ![t] = <<>>]
  /\ refused' = refused \union {<<Head(job[t]), shots[t][1].rev>>}
  /\ Unwind(t)
  /\ UNCHANGED <<phase, memVars, hit, queue, mode, dbKey, storeVars, nextTrade, tradeVars>>

-----------------------------------------------------------------------------
(* TradeRepositoryService. *)

SaveTrade(t) ==
  /\ Open /\ owed[t] # <<>> /\ job[t] = <<>> /\ tradeJob[t] = None
  /\ Head(owed[t]).to = "trades"
  /\ \E others \in 0..MaxOthers["trades"] :
       IF Len(tradeQueue) + others < TradeCap
         THEN /\ tradeQueue' = Append(tradeQueue, Head(owed[t]).what)
              /\ UNCHANGED tradeJob
         ELSE /\ tradeJob' = [tradeJob EXCEPT ![t] = Head(owed[t]).what]
              /\ UNCHANGED tradeQueue
  /\ owed' = [owed EXCEPT ![t] = Tail(@)]
  /\ UNCHANGED <<phase, memVars, callVars, pipeVars, storeVars, failures, lossVars, nextTrade,
                 tradeStore, tradeIndex>>

TakeTrade ==
  /\ Open /\ tradeJob["trades"] = None /\ tradeQueue # <<>>
  /\ tradeJob' = [tradeJob EXCEPT !["trades"] = Head(tradeQueue)]
  /\ tradeQueue' = Tail(tradeQueue)
  /\ UNCHANGED <<phase, memVars, callVars, owed, pipeVars, storeVars, failures, lossVars,
                 nextTrade, tradeStore, tradeIndex>>

\* Mutant: the indexes are written before the record.
PutTrade_Indexed(w) ==
  /\ tradeJob[w] # None /\ tradeJob[w] \notin tradeIndex
  /\ tradeIndex' = tradeIndex \union {tradeJob[w]}
  /\ UNCHANGED <<tradeStore, tradeJob>>
\* save: the record by its id ...
PutTrade(w) ==
  /\ tradeJob[w] # None /\ tradeJob[w] \notin tradeStore
  /\ tradeStore' = tradeStore \union {tradeJob[w]}
  /\ UNCHANGED <<tradeIndex, tradeJob>>

\* ... then the index entries of symbol, users and date.
IndexTrade(w) ==
  /\ tradeJob[w] \in tradeStore
  /\ tradeIndex' = tradeIndex \union {tradeJob[w]}
  /\ tradeJob' = [tradeJob EXCEPT ![w] = None]
  /\ UNCHANGED tradeStore

WriteTrade(w) ==
  /\ Open
  /\ PutTrade(w) \/ IndexTrade(w)
  /\ UNCHANGED <<phase, memVars, callVars, owed, pipeVars, storeVars, failures, lossVars,
                 nextTrade, tradeQueue>>

\* One of the puts is refused: the writer logs it and takes the next trade ...
TradeFails ==
  /\ Open /\ tradeJob["trades"] # None /\ failures < MaxFailures
  /\ failures' = failures + 1
  /\ lostTrades' = lostTrades \union {tradeJob["trades"]}
  /\ tradeJob' = [tradeJob EXCEPT !["trades"] = None]
  /\ UNCHANGED <<phase, memVars, callVars, owed, pipeVars, storeVars, refused, skipped,
                 nextTrade, tradeQueue, tradeStore, tradeIndex>>

\* ... and a caller that met a full queue leaves its match.
TradeSaveThrows(t) ==
  /\ Open /\ tradeJob[t] # None /\ failures < MaxFailures
  /\ failures' = failures + 1
  /\ Unwind(t)
  /\ tradeJob' = [tradeJob EXCEPT ![t] = None]
  /\ UNCHANGED <<phase, memVars, hit, pipeVars, storeVars, refused, nextTrade, tradeQueue,
                 tradeStore, tradeIndex>>

-----------------------------------------------------------------------------
(* The end of a server run. *)

Ends(how) ==
  /\ phase' = how
  /\ UNCHANGED <<memVars, callVars, owed, pipeVars, storeVars, failures, lossVars, nextTrade,
                 tradeVars>>

\* CboeServer.shutdown, with every handler finished before the executor's limit:
\* only the manager's queue is flushed before the database is closed.
Shutdown ==
  /\ Up /\ \A t \in Threads : Idle(t)
  /\ Ends("closing")

Close ==
  /\ phase = "closing"
  /\ queue["manager"] = <<>> /\ job["manager"] = <<>>
  /\ Ends("closed")

\* Memory, queues and half-written batches are gone, the database is as it was.
Crash ==
  /\ Open
  /\ phase' = "crashed"
  /\ nextId' = 1
  /\ key' = [o \in Orders |-> None]
  /\ leaves' = [o \in Orders |-> 0]
  /\ state' = [o \in Orders |-> None]
  /\ booked' = {}
  /\ monitor' = None
  /\ incoming' = [t \in Threads |-> None]
  /\ hit' = [t \in Threads |-> None]
  /\ owed' = [t \in Threads |-> <<>>]
  /\ queue' = [r \in Repositories |-> <<>>]
  /\ job' = [w \in Writers |-> <<>>]
  /\ mode' = [w \in Writers |-> "each"]
  /\ dbKey' = [w \in Writers |-> None]
  /\ shots' = [w \in Writers |-> <<>>]
  /\ nextTrade' = 1
  /\ tradeQueue' = <<>>
  /\ tradeJob' = [w \in TradeWriters |-> None]
  /\ UNCHANGED <<storeVars, tradeStore, tradeIndex, failures, rev, lossVars>>

-----------------------------------------------------------------------------
Init ==
  /\ phase = "up"
  /\ nextId = 1
  /\ key = [o \in Orders |-> None]
  /\ leaves = [o \in Orders |-> 0]
  /\ state = [o \in Orders |-> None]
  /\ booked = {}
  /\ monitor = None
  /\ incoming = [t \in Threads |-> None]
  /\ hit = [t \in Threads |-> None]
  /\ owed = [t \in Threads |-> <<>>]
  /\ queue = [r \in Repositories |-> <<>>]
  /\ job = [w \in Writers |-> <<>>]
  /\ mode = [w \in Writers |-> "each"]
  /\ dbKey = [w \in Writers |-> None]
  /\ shots = [w \in Writers |-> <<>>]
  /\ nextTrade = 1
  /\ tradeQueue = <<>>
  /\ tradeJob = [w \in TradeWriters |-> None]
  /\ store = [k \in Keys |-> None]
  /\ tradeStore = {} /\ tradeIndex = {}
  /\ failures = 0
  /\ rev = [o \in Orders |-> 0]
  /\ written = [o \in Orders |-> 0]
  /\ writtenBy = [o \in Orders |-> {}]
  /\ refused = {} /\ skipped = {} /\ lostTrades = {}

Request(t) ==
  \/ \E k \in Keys : Place(t, k)
  \/ \E o \in Orders : Cancel(t, o)
  \/ \E o \in Orders, k \in Keys : Modify(t, o, k)

Match(t) == \E p \in Orders : Fill(t, p) \/ TakeOff(t, p)

Serve(t) == Settle(t) \/ Unbook(t) \/ Rest(t) \/ SaveOrder(t) \/ SaveTrade(t)

Persist(w) == BuildKey(w) \/ Serialise(w) \/ SerialiseState(w) \/ Write(w)

Next ==
  \/ \E t \in Threads : Request(t) \/ Match(t) \/ Serve(t)
  \/ \E w \in Writers : Persist(w)
  \/ \E r \in Repositories : Take(r) \/ WriteFails(r)
  \/ \E t \in Threads : SaveThrows(t) \/ TradeSaveThrows(t)
  \/ TradeFails
  \/ TakeTrade
  \/ \E w \in TradeWriters : WriteTrade(w)
  \/ Shutdown \/ Close \/ Crash

\* Every thread that has work keeps going: a server thread in a call, the
\* writers, which poll for ever, and the thread that shuts the server down.
Fairness ==
  /\ \A t \in Threads : WF_vars(Serve(t))
  /\ \A w \in Writers : WF_vars(Persist(w))
  /\ \A r \in Repositories : WF_vars(Take(r))
  /\ WF_vars(TakeTrade)
  /\ \A w \in TradeWriters : WF_vars(WriteTrade(w))
  /\ WF_vars(Close)

Spec == Init /\ [][Next]_vars /\ Fairness

-----------------------------------------------------------------------------
(* Properties. *)

TypeOK ==
  /\ phase \in {"up", "closing", "closed", "crashed"}
  /\ nextId \in 1..(MaxOrders + 1) /\ nextTrade \in 1..(MaxTrades + 1)
  /\ key \in [Orders -> Keys \union {None}]
  /\ leaves \in [Orders -> Nat]
  /\ \A o \in Orders : leaves[o] <= Qty[o]
  /\ state \in [Orders -> Active \union {"FILLED", "CANCELLED", None}]
  /\ booked \subseteq Orders
  /\ monitor \in Threads \union {None}
  /\ {incoming, hit} \subseteq [Threads -> Orders \union {None}]
  /\ \A t \in Threads : owed[t] \in Seq(
       [to: Repositories \union {"book"}, what: Orders] \union [to: {"trades"}, what: Trades])
  /\ \A r \in Repositories : queue[r] \in Seq(Orders) /\ Len(queue[r]) <= OrderCap
  /\ \A w \in Writers : job[w] \in Seq(Orders) /\ shots[w] \in Seq(Record)
  /\ mode \in [Writers -> {"batch", "each"}] /\ dbKey \in [Writers -> Keys \union {None}]
  /\ store \in [Keys -> Record \union {None}]
  /\ failures \in 0..MaxFailures
  /\ tradeQueue \in Seq(Trades) /\ Len(tradeQueue) <= TradeCap
  /\ tradeJob \in [TradeWriters -> Trades \union {None}]
  /\ tradeStore \subseteq Trades /\ tradeIndex \subseteq Trades
  /\ rev \in [Orders -> 0..MaxRev] /\ written \in [Orders -> 0..MaxRev]
  /\ writtenBy \in [Orders -> SUBSET Writers]
  /\ refused \subseteq Orders \X (0..MaxRev) /\ skipped \subseteq Orders \X (0..MaxRev)
  /\ lostTrades \subseteq Trades

Owes(t, r, x) == \E i \in DOMAIN owed[t] : owed[t][i] = [to |-> r, what |-> x]

\* A save that will show the order as it is now, under its present identifier:
\* still to be asked for, queued, in a batch but not serialised yet, or serialised
\* since the last change.
WillShow(w, i, o) ==
  \/ i > Len(shots[w]) + 1
  \/ i = Len(shots[w]) + 1 /\ dbKey[w] \in {None, key[o]}
  \/ i <= Len(shots[w]) /\ shots[w][i].rev = rev[o] /\ shots[w][i].at = key[o]

Scheduled(o) ==
  \/ \E t \in Threads : incoming[t] = o \/ \E r \in Repositories : Owes(t, r, o)
  \/ \E r \in Repositories : o \in Range(queue[r])
  \/ \E w \in Writers : \E i \in DOMAIN job[w] : job[w][i] = o /\ WillShow(w, i, o)

TradeScheduled(n) ==
  \/ \E t \in Threads : Owes(t, "trades", n)
  \/ n \in Range(tradeQueue)
  \/ n \in Range(tradeJob)

Saved(o) == written[o] = rev[o] \/ Scheduled(o)

\* While the server runs, no change of an order and no trade falls out of the
\* pipeline between the thread that makes it and the disk, whichever of the two
\* repositories it goes through, with the queue full or not, unless the store refuses
\* a write.  What that costs is bounded: the change that was being written by itself
\* and, if a thread was writing in the middle of its match, what the incoming order
\* has gone through and the trade just made.  The rest of the batch, earlier rounds of
\* the match and every later change of these orders are saved.
NothingForgotten ==
  Up =>
    /\ \A o \in Orders : Saved(o) \/ <<o, rev[o]>> \in refused \union skipped
    /\ \A n \in 1..(nextTrade - 1) : n \in tradeStore \union lostTrades \/ TradeScheduled(n)
    /\ Cardinality(refused) <= failures /\ Cardinality(skipped) <= failures
    /\ Cardinality(lostTrades) <= failures

\* docs/ARCHITECTURE.md, lines 545-548, of the write-behind queue: only an abrupt crash
\* loses writes, those still in the queue.  While the server runs every change of an
\* order is stored or on its way, but for one that was in a refused write itself.
EveryChangeIsSaved == Up => \A o \in Orders : Saved(o) \/ <<o, rev[o]>> \in refused

BeingWritten(o) == \E w \in Writers : o \in Range(job[w])

\* An order that only one thread has ever written (one of the two writers, or one
\* caller that met a full queue) ends up stored exactly as it is in memory once
\* nothing of it is pending.  With two of them the older record may stay.
SingleWriterIsExact ==
  \A o \in Orders :
    (/\ Up /\ Cardinality(writtenBy[o]) = 1 /\ <<o, rev[o]>> \notin refused \union skipped
     /\ ~Scheduled(o) /\ ~BeingWritten(o) /\ ~Changing(o)
     /\ store[key[o]].order = o)
    => /\ store[key[o]].leaves = leaves[o]
       /\ store[key[o]].state = state[o]

\* Whenever the server stops, an index entry leads to a stored trade.
IndexedTradesAreStored == tradeIndex \subseteq tradeStore

\* The pipeline keeps the promise of DurableStore: nothing is stored that has
\* not happened, stored changes are never forgotten, and while the database is
\* open the store catches up with every order whose writes succeed.
Durable == INSTANCE DurableStore WITH running <- Open, lost <- refused \union skipped
ImplementsDurableStore == Durable!Spec

\* What findActiveOrders hands to a restarted server, and what was open.
Reloaded == {[key |-> store[k].key, leaves |-> store[k].leaves, state |-> store[k].state] :
               k \in {x \in Keys : store[x] # None /\ store[x].state \in Active}}
OpenOrders == {[key |-> key[o], leaves |-> leaves[o], state |-> state[o]] :
                 o \in {x \in Orders : IsLive(x)}}

\* README.md, line 37: "All data persisted and recoverable".  After an orderly
\* shutdown in which no write failed, the open orders are those a restart reloads.
Recoverable == (phase = "closed" /\ failures = 0) => Reloaded = OpenOrders
=============================================================================
