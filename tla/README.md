# TitaniumBOE-Sim: TLA+ models, model checking and proofs

A verification development kept beside TitaniumBOE-Sim, a Java simulator of an
options exchange that speaks the Cboe BOE protocol. Paths below are relative to
`src/src/main/java/com/boe/simulator/` unless they name a doc or a test.

Run everything from this directory:

    tlc -workers 2 -config MCSessions.cfg MCSessions
    tlc -workers 2 -config Recoverable.cfg MCWriteBehind    # a violation is expected
    tlapm OrderFlow_proofs.tla
    tlapm Book_proofs.tla
    tlapm Life_proofs.tla
    tlapm Trades_proofs.tla
    tlapm Progress_proofs.tla
    tlapm WriteBehind_proofs.tla
    tlapm Sessions_proofs.tla
    tlapm Link_proofs.tla

`PROJECT.json` says which lines every definition models, which mutation of the
model each property catches, and which hazards of the code each property is for.

## 1. The system

| Part | State | Operations | Properties that make it correct |
|---|---|---|---|
| **OrderManager** `server/order/OrderManager.java` | two concurrent maps of orders, by ClOrdID and by OrderID; id generator; counters | new, modify, cancel, mass cancel; trade callback; reload; reset | every request answered, caches and orders agree, unique open ClOrdIDs |
| **MatchingEngine** `server/matching/MatchingEngine.java` | one `OrderBook` and one monitor per symbol; trade id generator | `processOrder`, `modifyOrder`, `cancelOrder`, `executeMatching` | limits, self-trade prevention, nothing created or lost by a trade, monitor always given back |
| **OrderBook** `server/matching/OrderBook.java` | bid and ask levels (FIFO), index by OrderID, totals | `addOrder`, `removeOrder`, best prices, top of book | levels and index agree, sorted, price-time priority |
| **Order** `server/order/Order.java`, `OrderState.java` | terms and modified terms, open and executed quantity, state | `acknowledge`, `fill`, `modify`, `cancel` | terminal states are final, open + executed = ordered |
| **OrderRepository, TradeRepositoryService, RocksDBManager** | write-behind queues, column families | `saveAsync`, batch flush, reload, indexes | what was acknowledged survives a shutdown, newest state wins, ids unique over restarts |
| **CboeServer** | server socket, thread pool, connection ids | accept, shutdown, daily reset | ids unique, ordered shutdown |
| **ClientSessionManager, ClientSession, AuthenticationService** | sessions by connection and by user, active users, sequence numbers | register, login, logout, unregister, disconnect | one live session per user, none left behind, messages in sequence |
| **ClientConnectionHandler, MessageValidator, ErrorHandler, HeartbeatMonitor, RateLimiter** | per connection: socket, running flag, last heartbeats, error count, message window | read, validate, dispatch, answer, heartbeat, time out, clean up | a dead peer is disconnected, a live one is not, cleanup happens once |
| **BOE protocol** `protocol/` | none | framing, parsing and writing messages, bitfields, binary prices | parsing inverts writing |
| **REST API, WebSocket feed** `api/` | subscribers | order entry for any user, queries, positions, broadcasts | positions match trades |
| **Bots** `bot/` | bots, scheduled tasks, their open orders | start, stop, trade at random | a stopped bot places nothing |

How they interact. Each TCP connection has a thread of its own (a
`ClientConnectionHandler`), the REST API has a pool; all call the one
`OrderManager`, which calls the one `MatchingEngine`. The engine matches inside
`synchronized (symbolLock)` and, from inside the match, calls back the
`OrderManager` (`handleTradeExecution`), which drops filled orders from its
caches and sends executions to the counterparties' sessions. Orders and trades
are handed to write-behind queues that threads of their own empty into RocksDB.

What is hard. **Cancelling takes no symbol monitor** (`MatchingEngine:131`), so
each of its steps can fall between any two steps of a match of the same order;
the fields it writes are the ones the match reads and writes. The caches are
updated by several threads with separate map calls (check-then-put of the
ClOrdID, two puts, two removes). A modification tests the order before it takes
the monitor. Best-price reads are optimistic and can throw out of a match, and so can a save:
the caller that meets a full queue writes by itself and passes on the exception of a write that fails.
Around the engine: two repositories with a write-behind queue each write the same
records, and only one is flushed at shutdown; a record is serialised by another
thread while the order changes, under a key that changes; registries of sessions
are updated by separate map calls under connection numbers that are reused while
in use, and under a user name that a login request replaces before it is
verified; heartbeat checks run beside late heartbeats, slow messages, limits and
error counts. `PROJECT.json`, "hazards", lists these by line.

## 2. The modules

| Module | What it is |
|---|---|
| `TradeLedger` | what participants are promised: place, amend, close, deal. Abstract; no books, threads, caches |
| `OrderFlow` | OrderManager, MatchingEngine, OrderBook and Order, driven by any number of threads; all its properties; the refinement mapping to `TradeLedger` |
| `FailingSaves` | `OrderFlow` with saves that throw: one action for each place in a call from which they do |
| `OrderFlow_proofs` | theorems about `OrderFlow` and `FailingSaves` for all values of its constants: types, monitors, quantities. EXTENDS `FailingSaves` |
| `Book_proofs` | theorems about the book: its shape, its order, what is filled first. EXTENDS `OrderFlow_proofs` |
| `Life_proofs` | theorems about the life of an order, its keys, and the refinement of `TradeLedger`. EXTENDS `Book_proofs` |
| `Trades_proofs` | theorems about the record of trades and what was executed. EXTENDS `OrderFlow_proofs` |
| `Progress_proofs` | why every match ends. EXTENDS `Book_proofs` |
| `DurableStore` | what write-behind persistence promises. Abstract; no queues, writers, batches |
| `WriteBehind` | both `OrderRepository` instances and the trade repository behind the order threads: queues, writers, batches, failing writes and what they cost a match, shutdown and crash; the refinement mapping to `DurableStore` |
| `WriteBehind_proofs` | theorems about `WriteBehind`, and the safety part of its refinement of `DurableStore` |
| `Sessions` | `CboeServer`'s acceptor, the life of every connection's handler, both session registries, authentication |
| `Sessions_proofs` | theorems about `Sessions` for all values of its constants |
| `Link` | one connection over time: the reading of its messages, heartbeat monitor, rate limiter, error count |
| `Link_proofs` | theorems about `Link`, for all periods and limits |
| `MCSessions`, `MCCancels`, `MCDesk` | instances of `OrderFlow` (`MCCancels` of `FailingSaves`) for TLC: who asks for what |
| `MCWriteBehind`, `MCConnections`, `MCLink` | instances of `WriteBehind`, `Sessions` and `Link` |

How the modules share the system. `OrderFlow` takes the user of a request as given;
`Sessions` says when a connection may speak for a user (`OrdersAreSignedIn`).
`Sessions` lets the heartbeat monitor stop a connection at any time; `Link` says
when it does. A `saveAsync` that returns changes nothing in the engine and is no step of
`OrderFlow`; one that throws is an action of `FailingSaves`. When it throws, and what becomes of the
records, is `WriteBehind`'s: it repeats of the engine only which order changes when and which thread then
asks for a save, with any resting order as the one that is hit.

### OrderFlow and the code

| Variable | Code |
|---|---|
| `order[o]` | `Order`'s terms as its getters return them: `modifiedX` if set, else `X` (`Order:151-162`); `orig` is the ClOrdID it was entered with |
| `state`, `leaves`, `cum` | `Order.state`, `leavesQty`, `cumQty` |
| `nextId` | `orderIDGenerator`; order 1 stands for OrderID 1000000 |
| `byClOrd`, `byId` | `activeOrdersByClOrdID`, `activeOrdersByOrderID` |
| `level`, `index` | `OrderBook.bids`/`asks` of every symbol, and `orderIndex` |
| `monitor` | the owner of `symbolLocks.get(symbol)` |
| `trades` | the trades of `createTrade`, oldest first |
| `pc`, `req`, `cur`, `passive`, `todo` | a thread's place in its call, its message, the order it works on, `passiveOrder`, the rest of a mass cancel |
| `answer` | the last `OrderResponse`, `ModifyResponse` or `CancelResponse` |
| `served` | how many requests a thread took up (a bound, not in the code) |

| Call | Steps |
|---|---|
| `processNewOrder` | `CheckNew` (validation, duplicate check) - `Register` (id, acknowledge, put by ClOrdID) - `Enrol` (put by OrderID) - `EnterNew` (monitor) - matching - `Rest` (book, release, answer) |
| `processModifyOrder` | `CheckModify` - `DropKey` (original ClOrdID) - `EnterModify` / `ModifyToNothing` / `ModifyTooLate` under the monitor - matching - `Rest` - `CheckModified` - `PutModified`; after an exception `Restore` |
| `executeMatching` | `Test` and `Best` (loop condition, `canMatch`) - `NothingToPick` / `DropStale` / `PreventSelfTrade`, `CheckOwnPassive`, `CancelOwnPassive` or `OwnPassiveGone` / `Pick` - `Fill` - `Settle` (callback: the caches drop filled orders) - `Clear` (a filled passive order leaves the book) |
| `processCancelOrder` | `CheckCancel` or `MassCancel` - for each order `Unbook` - `CheckStillOpen` - `MarkCancelled` - `Uncache` - `Forget` |

| A save that throws (`FailingSaves`) | Action, and what the exception skips |
|---|---|
| of the passive order or of the trade, `MatchingEngine:209-210` | `FillUnsaved`: the callback, the removal of a filled order, the rest of the match, the resting of the incoming order |
| of the user's own order, taken out by self-trade prevention (186) | `OwnPassiveUnsaved`: the rest of the match, the resting |
| of a new order, `OrderManager:206` | `NewUnsaved`: the order has been matched and rests, and is answered as rejected |
| of a modified order (298), or of one that was auto-cancelled | `ModifiedUnsaved`: the catch clause also puts it back under its original ClOrdID |
| of a cancelled order, before the caches forget it | `CancelUnsaved`: it stays in both; a mass cancel goes on |

`FailingSpec` adds these to `Next`. Types, monitors, quantities, fills, trades, the book's structure, the end of
every match and an answer to every request survive them; `OpenOrdersRest`, `RestingIsOpen` (a filled
order stays at the head of its level until a match drops it as stale) and `NoInternalError` do not, and
are claimed of saves that return.

Grain of atomicity. One call on a concurrent map, one `OrderBook` method (it holds
the book's lock) or one test or write of a plain field is a step. Steps are
grouped only where no other thread sees the point in between: under the monitor
the only other threads that touch the same order are cancels, and what they do
commutes with the grouped writes. In `Settle` these are two removals from the caches, by ClOrdID and by OrderID, for
each filled order; the removal from the book (215) is a step of its own, and cancels fall between. The test and the write of `Order.cancel` are
two steps, because a fill can come between. The two evaluations of `canMatch`
before the first round of the loop are one, the later.

What is abstracted. Prices and quantities are small numbers. Statistics
counters, logging, response texts and WebSocket notifications are left out. `VALID_SYMBOLS` and field
formats are assumed passed; the one validation rule kept relates two fields (a
limit order has a price). A mass cancel by clearing firm is not distinguished
from one of all orders, and a mass cancel's selection is read at one instant. Runs interleave steps as under
sequential consistency, although `Order.state` and `leavesQty` are plain fields
that cancels read outside the monitor: a stale read of theirs is not modelled.
The daily reset and reload are not part of this module.

### WriteBehind and the code

| Variable | Code |
|---|---|
| `key`, `leaves`, `state` | the orders in memory: `getClOrdID()`, `leavesQty`, `state` |
| `booked`, `monitor`, `incoming`, `hit` | the books, the thread that matches, its order and the resting order it is filling |
| `owed` | what a thread has still to do in its round of matching or its call: the `saveAsync` calls, and taking a filled order off the book |
| `queue["manager"]`, `queue["engine"]` | `OrderRepository.writeQueue` of OrderManager's and of MatchingEngine's repository (`OrderManager:59`: two instances) |
| `job`, `mode`, `shots` | the batch a thread is writing (a writer's, or a caller's single order when its queue was full), whether it is written together or one by one, and the records serialised so far |
| `dbKey` | the key a thread has built for its next record (`buildKey`), apart from the record |
| `store` | the column family of orders, by ClOrdID |
| `tradeQueue`, `tradeJob`, `tradeStore`, `tradeIndex` | `TradeRepositoryService` |
| `phase` | running, closing (orderly shutdown), database closed, crashed |
| `rev`, `written`, `writtenBy` | not in the code: changes of each order, the newest stored one, who wrote |
| `refused`, `skipped`, `lostTrades` | not in the code: changes whose write the store refused, changes whose save an exception skipped, trades of which either is true |

| Code | Actions |
|---|---|
| a request up to matching | `Place`, `Modify`, `Cancel` |
| `executeMatching` | `Fill` (quantities), `Settle` (states, saves owed), `Unbook` (215), `TakeOff` (stale heads, self-trade prevention), `Rest` |
| `OrderRepository.saveAsync` | `SaveOrder`: queued, or saved by the caller if the queue is full of these orders and others (`MaxOthers`) |
| `runAsyncWriter`, `flushBatch`, `flushRemaining` | `Take`, `BuildKey`, `Serialise` and `SerialiseState` (`PersistedOrder.fromOrder` reads quantities before the state, without a lock), `Write`; in a writer `WriteFails`: a batch is saved one by one, a single order given up |
| a caller's own save that fails (59-62, 66-69) | `SaveThrows`: `Unwind` drops all that the thread still owes and its incoming order, and releases the monitor |
| `TradeRepositoryService` | `SaveTrade`, `TakeTrade`, `PutTrade`, `IndexTrade`; `TradeFails` in the writer, `TradeSaveThrows` in a caller |
| `CboeServer.shutdown` | `Shutdown`, `Take` of all that is left in the manager's queue, `Close` |
| a crash | `Crash`: memory is gone, the database is as it was |

The database takes a write as a whole or not at all: that is RocksDB's promise, on
which the code relies. The matching is one monitor here, for one symbol. A cancel
is one step (its races with a match are `OrderFlow`'s).

### Sessions and the code

| Variable | Code |
|---|---|
| `accepting`, `count` | `CboeServer.running`, `activeConnections` |
| `stage[c]` | where the connection's thread is, from the acceptor to the end of `handleClient` |
| `id[c]` | the connection's number: the count of connections when it was accepted (`CboeServer:185`), hence not unique |
| `running`, `session`, `user`, `monitored` | `ClientConnectionHandler.running`, `ClientSession.state` and `username`, `HeartbeatMonitor.active` |
| `active` | `AuthenticationService.activeSessions` |
| `handlers`, `byUser` | `ClientSessionManager.handlers` (by number) and `handlersByUsername` |
| `admitted` | not in the code: the users each connection has signed in |

One action per operation: `Accept`, `Refuse`, `Register`, `Initialize`, `Loop`, `Login`,
`SignIn`, `Welcome`, `Reject`, `OtherMessage`, `Logout`, `ReadFails`, `Cleanup`,
`Unregister`, `ForgetUser`, `Release` on the connection's own thread, in the order of
the code; `HeartbeatTimeout` on the scheduler's; `StopAccepting` and `Disconnect` on
the one that shuts the server down. A step is one call on a shared map or counter
with the writes to the connection's own fields around it. The check for a session
in use and its registration are two steps, as in the code.

### Link and the code

Time is counted in ticks, `Second` of them to a second, because `HeartbeatMonitor`
compares whole seconds (`Duration.getSeconds`) and the limiter does not. `Tick` is
disabled while a check of the monitor or the read timeout is due, so both happen in
the tick they are due: the scheduler is punctual. `Piece`, `BadFrame` and the last
bytes of a message (`Whole`) are `BoeMessageSerializer.deserialize`; `Invalid`, `Process`
and `Drop` are the three ways through `messageLoop`, and `Leave` is a logout or a login that is refused, which end it;
a login that is accepted starts the monitor, also again after a heartbeat that could not be sent
stopped it (`StartMonitor`), and leaves an active one alone. `ReadTimesOut` is the socket's time
limit, which is one for each read; `CheckTimeout` and `SendFails` are the monitor's
tasks. `beat`, `faulty`, `refused` and `recent` are not in the code: they record what the
client did (it is `faulty` once it has let a time limit pass, sent what is no message, or left); `recent` is the set of messages accepted within a window's length, each with
its tick and its number in that tick. Messages that `processMessage` cannot parse are caught there and count
as other messages.

## 3. The runs

Bounds of the `OrderFlow` runs: `MaxRequests` per thread, `MaxOrders` (never reached before it),
`MaxQty`, and the `Requests` each thread may receive. Two prices suffice for a
better and a worse level, and for a limit to be respected or not; two
quantities for a partial fill; two users for self-trades; two threads for every
pair of steps to interleave, and the monitor serialises matches of more.

| Run | Instance | What it shows |
|---|---|---|
| `sessions` | two TCP threads of different users, 3 + 2 requests, limit and market orders and modifications (that change ClOrdID, price, type and size, or come too late) | `EngineInvariant` (the inductive invariant of the proofs), `MonitorDiscipline`, `BookWellFormed`, `RestingIsOpen`, `LimitRespected`, `ImplementsLedger`, `EveryRequestAnswered` |
| `cancels` | one user on TCP and REST at once, whose REST thread serves another user too, 3 + 2 requests: new orders, cancels, mass cancels and a modification that reduces, while others match; saves may throw (`FailingFairSpec`) | `QuantitiesAgree`, `FillIsSafe`, `TradesAddUp`, `BookWellFormed`, `Uncrossed`, `MatchIsFinite`, `EveryRequestAnswered` |
| `desk` | one thread, two users, two symbols, 5 requests of every kind, chains of modifications over three ClOrdIDs among them | `TypeOK`, `Uncrossed`, `OpenOrdersRest`, `OpenOrdersAreFound`, `NoInternalError`, `PriorityRespected`, `TerminalIsFinal` |
| `cancel_race` | as `cancels`, one ask at the price of the better bid, saves return | `TerminalIsFinal` is violated (finding 1) |
| `limit_race` | as `cancel_race` | `LimitRespected` is violated (finding 2) |
| `write_behind` | two threads, two orders of 2 and 1, two ClOrdIDs, two changes of each order, one trade, order queues of 2 and a trade queue of 1, the engine's and the trades' also full of others' entries, batches of 2, one write that fails, shutdown and crash at any step | `TypeOK`, `NothingForgotten`, `SingleWriterIsExact`, `IndexedTradesAreStored`, `ImplementsDurableStore` |
| `lost_saves` | as `write_behind` | `EveryChangeIsSaved` is violated (finding 3) |
| `recoverable` | as `write_behind`, no write fails, queues of their own | `Recoverable` is violated (finding 4) |
| `connections` | three clients for two slots, two users; one client may log in twice, one once, one only connects | `TypeOK`, `OrdersAreSignedIn`, `NamesAreReleased`, `ExecutionsReachTheUser`, `RegistryIsLive`, `ConnectionsEnd` |
| `one_session` | as `connections` | `OneSessionPerUser` is violated (finding 5) |
| `link` | 8 seconds of 2 ticks; a limit of 1 second for heartbeats, checks every second, a heartbeat of the server every 4, a read timeout of 3, messages in up to 2 pieces, windows of 1 second with 2 messages, more than 1 error ends the connection | `TypeOK`, `GoodClientSurvives`, `SilenceIsNoticed`, `AtMostTwoWindows` |
| `silence` | as `link` | `DataIsASignOfLife` is violated (finding 6) |

Which property is checked where is part of what the runs say. With cancels
beside a match the code does **not** keep `TerminalIsFinal`, `ImplementsLedger`
(a closed order is executed), `LimitRespected` (the level whose price was tested
is gone when the top is read), `RestingIsOpen`, `OpenOrdersRest` or
`NoInternalError` (`firstKey` of an emptied side); it keeps the quantities, the
trades and the book's structure. Without cancels, sessions of different users
keep all of these but `NoInternalError` (a modification that comes too late
throws); one thread alone keeps that, too.
An order that one thread modifies while another enters or modifies it can be booked twice: by a
modification on the TCP session of an order that the REST API has cached and not matched yet, or by two TCP
sessions of one user (finding 5); the REST API itself cannot modify. In no run does a thread modify an order
that another one enters or modifies (see section 5).

Why the other bounds are enough. `write_behind`: two orders are what a batch, a
trade and a shared key need; a change after the first save is what makes a record stale;
queues of two are full while a third save is asked for; one failing write takes a
batch apart, or throws out of a match. That others' entries fill a queue stands for a third and fourth order. The branch
of `TakeOff` that drops a stale head needs a match after one that an exception ended, so a third order: it is not
reached within the bound, and is covered by the proofs. `connections`: three clients on two slots reuse a number while it is in
use; a second login by the same client under the other name, refused or granted, is
the shortest that separates session, name and registration (the safety properties
also held with logins 2, 1, 1: 2.8 million states). `link`: the two bounds of
`SilenceIsNoticed` are tight, one tick less is violated, so the cases at the limit do
happen within the 8 seconds; the quotient of time limits to ticks matters, their size
does not. The read timeout is longer than the monitor's bound, since otherwise it ends a silent client
first: so it is by default, where both limits are 30 seconds, and the monitor's bound matters where
`connectionTimeout` is configured longer.

Every property is broken by a mutation of the model that a plausible slip in
the code would make (`PROJECT.json`, "mutants"); each mutated operator stands
next to the one it replaces, under a comment "Mutant".

### Fairness

`OrderFlow`: `FairSpec` assumes `WF_vars(Step(t))` for each thread: a call in progress
that can take a step takes one eventually (`FailingFairSpec` says the same of saves that may throw). The JVM schedules runnable threads, and a
step is disabled only while another thread owns the symbol's monitor. Weak
fairness suffices for `EveryRequestAnswered` in the runs because the requests are bounded:
a monitor is contended finitely often. Nothing is assumed about the arrival of
requests (`Receive`), and when every thread has served its bound, `Quiet` stutters: the
deadlock check is on.

`WriteBehind`: weak fairness of a thread's steps in a call (`Serve`, and its own
synchronous saves, as long as the store does not refuse them), of the writers, which poll in a loop for as long as the server
runs, and of the thread that closes the database. None of requests, matches,
failures, shutdown or crash. It is what `DurableStore`'s `[]<>CaughtUp` needs.

`Sessions`: weak fairness, for each connection, of its handler's own steps together
with the end of a read: a read ends with a message or with the socket's time limit
(`CboeServer:182` sets it to `connectionTimeout`, 30 seconds by default and never less than
one). Nothing is assumed of clients, of the monitor or of the shutdown.

`Link` has no liveness property: it has a clock, and states its promises as bounds.

Deadlock is checked in the `OrderFlow` runs. The other systems really may stop: a server
that has crashed or closed its database, connections that are all done, a clock that
has run to `MaxTime` or a connection that has ended; their runs switch the check off.

### Findings

1. **A cancelled order is filled.** `docs/ARCHITECTURE.md:399-400` gives FILLED and
   CANCELLED as neither active nor cancellable nor live. `cancelOrder` takes no
   monitor and `Order.fill` does not look at the state: a cancel that overtakes
   the (first) matching of an order leaves it CANCELLED, and the match then
   makes it PARTIALLY_FILLED or FILLED.
2. **A limit order trades beyond its limit.** `docs/ARCHITECTURE.md:276-277`: a limit
   order matches while its price reaches the best opposite price. The loop tests
   that price (`MatchingEngine:162`) and reads the top level afterwards (163); a cancel
   that empties the tested level in between leaves the next one on top, and the
   order is filled there.
3. **A change is saved by nobody.** `docs/ARCHITECTURE.md:545-548` names the price of write-behind: in an abrupt
   crash the last queued writes may be lost, and the hot path never waits for the disk. When a queue
   is full, the matching thread writes by itself (`OrderRepository:68`, `TradeRepositoryService:38`), and if that write fails,
   the exception leaves `executeMatching` after the fills (209-210): not only the record that was refused is
   missing, the incoming order, filled by then, neither rests nor is saved, and its client is told it was
   rejected. Its change is in no queue and no store of a server that runs on, until the
   order changes again. `NothingForgotten` says how much a refused write can cost at most.
4. **A restart reloads what is not open.** `README.md:37` of the repository: "All data
   persisted and recoverable". A record's key is the ClOrdID at the time of writing,
   and no record is deleted: after a modification and an orderly shutdown the
   record under the former ClOrdID is still live, and `findActiveOrders` returns the order
   twice. Variants of the run (other request mixes) reach the same end by other ways:
   the engine's queue is not flushed at the shutdown, so that an order which self-trade
   prevention has cancelled reloads as live; one writer stores an older state over the
   other's newer one; a late record of a cancelled order replaces that of a new order with
   its ClOrdID. (`SingleWriterIsExact` says what does hold.)
5. **Two sessions of one user.** `AuthenticationServiceTest:112`,
   `authenticate_whenUserAlreadyHasActiveSession_returnsSessionInUse`: the check
   (`AuthenticationService:85`) and the put (92) are separate map calls; two logins
   pass the check together. There is a second way: a login request puts the name it
   asks for into the session before it is verified (`ClientConnectionHandler:195`); when it is refused,
   the cleanup ends the session of that name, which another connection holds, and a third
   one can sign in. Therefore `NamesAreReleased` and `ExecutionsReachTheUser` except
   connections that, once signed in, ask for another name.
6. **Orders are no sign of life.** `docs/BOE Protocol Specification - Quick Reference.md:149` and
   `docs/ARCHITECTURE.md:250-251` let a connection time out when *nothing* arrives, data or heartbeats.
   `HeartbeatMonitor.checkTimeout` (96) looks at the last client heartbeat alone: a client whose orders keep coming
   is stopped when its last heartbeat is old. `SilenceIsNoticed` states only what code and documents
   agree on: a client that sends nothing is noticed.

Seen on the way, without a run of their own:

- **A filled order is reported as cancelled.** `OrderManager:303-311`: a modification after which the order is not
  active is answered `autoCancelled`, "because newLeavesQty <= 0" (line 304), also when the new price was
  filled completely.
- **Two open orders with one ClOrdID.** `docs/ARCHITECTURE.md:352` and `OrderManagerTest:203-228` promise that a
  duplicate is rejected; check (158) and put (199) are separate calls, and two threads pass both. The second
  put hides the first order, which can then be neither modified nor cancelled. `UniqueOpenClOrdID` is violated in the
  instance of `cancels`; `ClOrdIDsStayUnique` proves it of threads that do not share ClOrdIDs.
- A second modification of an order drops the key of its *original* ClOrdID
  (`OrderManager:287`). If a newer order was entered under that ClOrdID meanwhile, it can no
  longer be cancelled or modified: `OpenOrdersAreFound` without its exception of orders entered
  under the same ClOrdID is violated in `desk`.
- A client that never sends a heartbeat is never checked (`HeartbeatMonitor:91`); a heartbeat of the server that
  cannot be sent stops the checks as well, and leaves the handler running.
- `ErrorHandler:76` says "in last minute"; the count has no window and only grows.
- `SECURITY.md:53` limits a connection to 100 messages a minute; within a minute
  that straddles two windows it is up to twice that (`AtMostTwoWindows`), and two
  connections with one number share a window.
- A message of 32768 bytes or more is framed correctly and then refused, because
  `BoeMessage.getLengthField` is a signed short (`BoeMessage:35`).
- `CboeServer.performDailyReset` logs that orders and trades were cleared (356); it
  clears the caches and books, not the column families of orders and trades, so that the
  orders are reloaded at the next start.

## 4. The proofs

### OrderFlow

`OrderFlow_proofs` proves, for every set of threads, users, symbols, prices and
identifiers, every request mix and all bounds, under `FlowAssumption` alone
(prices are naturals, the bounds are naturals, `None` is none of the values it
stands beside, `Requests` are well-formed):

| Theorem | States |
|---|---|
| `EngineInvariantHolds` | `Spec => []EngineInvariant` |
| `TypeCorrect` | `Spec => []TypeOK` |
| `OneMatcherPerBook` | `Spec => []MonitorDiscipline` |
| `QuantitiesConserved` | `Spec => []QuantitiesAgree` |
| `FillsAreSafe` | `Spec => []FillIsSafe` |
| `FailuresAreContained` | `FailingSpec => []EngineInvariant`: the same invariant with saves that throw |

The argument. None of the properties is inductive alone. A fill is safe because
the passive order was open when it was picked and nobody reduced it since: open
quantities change only in `Fill`, `EnterModify` and `Register`, and the first
two run under the symbol's monitor, which the thread owns from before the pick
until after the fill (`MonitorDiscipline`). A cancel may change the *state* in between, but not the
quantity. So the invariant joins the types, what each call in progress holds
(`CallsInProgress`), that queues hold orders of their own symbol and side
(`QueuesMatch`, so that the picked order is on the other side of the same
symbol), `NothingBefore`, the monitor, the quantities and the fills.
`LeavesKept` is the lemma at the centre: another thread's step leaves the open
quantity of an order alone whenever this thread owns the monitor of its symbol. Each
conjunct has a lemma with one case per action; `MonitorDiscipline` is reduced
to the three ways a step can change a thread's hold (kept, taken, left).
Facts about the book's sequences (append, `RemoveFirst`, `Last`) come first.
An exception out of a save (`UnsavedStep`) ends a match at a point where the quantities are settled, and gives
the monitor back. `sessions` checks the same invariant with TLC.

### The book

`Book_proofs` proves the book's shape and order under `FlowAssumption` and one hypothesis,
`OneModifier`: whoever modifies orders of a user is the only thread that enters or modifies
orders of that user. Any number of threads may enter orders for one user as long as none
modifies them, and **any thread may cancel anything at any time**. The hypothesis is
needed: where a TCP session modifies an order that a REST worker has cached and not yet matched, or two TCP sessions
of one user modify at once, an order can be booked twice (section 5).

| Theorem | States, given `OneModifier` |
|---|---|
| `BookInvariantHolds` | `Spec => []BookInvariant` |
| `BookStaysWellFormed` | `Spec => []BookWellFormed` |
| `BookStaysUncrossed` | `Spec => []Uncrossed` |
| `PriorityIsKept` | `Spec => PriorityRespected` |

The argument. An order is queued once because it is not in the book when it is
put there (`NotInBook`); that stays so because no other call enters or
modifies the same order (`Exclusive`, which follows from `OwnRequests`, the hypothesis and the user in
the order). `RemovalKeeps` and `AdditionKeeps` say of any levels and index that `removeOrder` and
`addOrder` keep them in agreement, on top of lemmas about `RemoveFirst` in a queue without repeats.
`Uncrossed` speaks of a free monitor; the inductive form `NeverCrossed` holds always,
because an incoming order stays out of the book until what is left of it reaches nothing on the
other side (`RestsBehind`). A cancel only removes orders, so it disturbs neither. For the priority,
`FillsInFront` carries from the pick to the fill that the picked order is ahead of all that rest: between
the two only cancels touch the symbol's book, and no removal puts anything in front.

### The trades

`Trades_proofs` proves, under `FlowAssumption` alone, so with any number of threads and cancels and modifications at any time:

| Theorem | States |
|---|---|
| `TradesStayFair` | `Spec => []TradesAreFair`: no trade in the history joins a user with himself, two symbols or two orders of one side, or executes nothing |
| `TradesStayAddedUp` | `Spec => []TradesAddUp` |
| `ExecutionsAreFinal` | `Spec => ExecutedStays`: executed quantities never decrease, an order keeps its user, symbol and side, and the list of trades only grows at its end |
| `NothingIsOversold` | `Spec => []NothingOversold`: the trades of an order come to what was ordered less what is open |

The argument. `FillIsSafe` says of a fill what `TradesAreFair` says of the trade it appends; nothing else writes the
list. The sum over the list (`Executed`) is a recursive function on the numbers up to its length. That such a function exists
(`SumsExist`) and that sums of a list and of the list with one trade more agree on what they share (`SumsAgree`)
are inductions; they are done by hand, from a least counterexample among the naturals, as the library's
induction theorem cannot be used here.

### Progress

`Progress_proofs` proves that no match goes on for ever, the part of "every request is answered" that is not about scheduling, given `OneModifier`:

| Theorem | States, given `OneModifier` |
|---|---|
| `MatchesAreFinite` | `Spec => MatchIsFinite` |

The argument. `StepsLeft` counts what is open of the incoming order and the orders of its symbol's book, six for each, and the
place in the round. A step back to the loop's head has filled something or taken an order out of the book
(`OwnMatchStep`: a case for each of what it may use up), every other step goes on within the round, and another
thread's step adds nothing: it owns no monitor of the symbol, so it puts nothing into the book and cannot raise what is open
(`OtherMatchKept`). A head is taken out of the *index* as well as its level, by `BookWellFormed`: this is where the
hypothesis is used. An order booked twice could be met again after its removal, and `removeOrder` returns early for an
order the index does not hold, so that the loop would drop it as stale for ever, under the monitor.
What is left of `EveryRequestAnswered` to TLC is that a thread which can go on does (fairness), and that
one which waits for a monitor gets it.

### The life of an order

`Life_proofs` needs one hypothesis more, `CancelsApart`: whoever cancels orders of a symbol is the only one to
enter, modify or cancel orders of it. Other symbols may be traded beside the cancel, and without cancels any number of threads
trade one symbol. It is a condition on the requests: `Reach` says which symbols a request may touch (a cancel names a
ClOrdID, so any symbol its user trades). Findings 1 and 2 show what a cancel on a
second thread does to these properties while a match of the symbol is on. Instances are `sessions` (two threads, no
cancels) and `desk` (one thread, every request).

| Theorem | States |
|---|---|
| `LifeInvariantHolds` | `Spec => []LifeInvariant` |
| `RestingStaysOpen` | `Spec => []RestingIsOpen` |
| `OpenOrdersStay` | `Spec => []OpenOrdersRest` |
| `OpenOrdersStayFound` | `Spec => []OpenOrdersAreFound` |
| `LimitsHold` | `Spec => LimitRespected` |
| `TerminalStays` | `Spec => TerminalIsFinal` |
| `KeepsTheLedger` | `Spec => ImplementsLedger`, the refinement of `TradeLedger` |
| `CallsNeverFail` | `Spec => []NoInternalError`, given that modifications are apart in the same sense as cancels (one thread alone is a case) |
| `ClOrdIDsStayUnique` | `Spec => []UniqueOpenClOrdID`, given that each thread enters orders under ClOrdIDs of its own and nobody modifies |

The argument. What a thread works on is within its request's reach (`WithinReach`, kept because an order is of a symbol its user
trades), so that of two threads on one symbol none cancels (`CancelApart`).
Without a cancel beside it a thread in a match has its symbol's book and
the orders in it to itself: `BookFrozen` says that no step of another thread changes them,
because a step moves at most one order (`BookMoves`) and only under a monitor that is
not taken. So what a thread has read stays true until it acts on it: the passive order is
open and in the book until it is filled (`InHandIsOpen`, `TakenOut`), it is nobody's incoming
order (`PassiveMatches`), and the price that was tested is still the best when the top level is read
(`LimitHolds`). From these, a state changes only from an open one (`TerminalStays`), what rests is open
but for the order of a trade about to be settled (`RestingOpen`), and an open order is in the book
or with a thread on its way there or out (`OpenIsSomewhere`). `OpenOrdersStayFound` adds an
invariant of its own, `FoundOrHidden`, which says exactly how one order hides another: by its
original ClOrdID, which its next modification drops, or by a ClOrdID it carried when it was closed. Where modifications
are apart nothing changes between the test of a modification and the monitor (`NeverFails`).

`ClOrdIDsStayUnique` is the other side of the duplicate ClOrdIDs of section 3, which need two threads that share one. Its
invariant, `KeysLead`, is stronger than uniqueness: an open order is what its ClOrdID leads to, a filled or
cancelled one still is when its key is taken away, and the ClOrdID of an order about to be
registered is free. Each hypothesis is needed: `OwnClOrdIDs` by those duplicates; `CancelsApart` because a fill after a cancel
(finding 1) reopens an order whose key is gone; `NoModifies` because a modification may take any ClOrdID, and drops the key of the original one.

The refinement maps steps one by one: `Register` places an order; `EnterModify` amends it;
`ModifyToNothing`, `MarkCancelled` and `CancelOwnPassive` close it; `Fill` is a deal, and every other step
stutters. The ledger's guards are the properties above: an order is amended, closed or executed only while it is
open, and executed only at a price its limit accepts.

### WriteBehind

`WriteBehind_proofs` proves, for any sets of threads, writers and keys, any number of orders and trades,
any capacities, batch sizes and numbers of failures, under `WriteBehindAssumption`
alone (bounds are naturals, capacities and quantities positive, names distinct):

| Theorem | States |
|---|---|
| `TypeOKAlways` | `Spec => []TypeOK` |
| `NothingForgottenAlways` | `Spec => []NothingForgotten` |
| `SingleWriterIsExactAlways` | `Spec => []SingleWriterIsExact` |
| `IndexedTradesAreStoredAlways` | `Spec => []IndexedTradesAreStored` |
| `ImplementsDurableStoreSafety` | `Spec` implies the initial condition and the steps of `DurableStore` under the refinement mapping |

The argument. A record is taken in two reads while the order changes, so it need not show any state
the order was ever in. `Faithful` says what does hold of it: if it carries the newest change it shows the
state, and the open quantity too unless a fill is between its two halves. `ShotsFollowJob` says that what a writer
has serialised is the beginning of its batch and does not go back in time; with `StoreIsPast` and
`LoneWriterIsNewest` it follows that what one thread alone has stored is never older than what it stored
before. That is false of two writers, as finding 4 tells. For `NothingForgotten`, a step in memory
either leaves an order alone or counts a change and makes its thread owe a save (`MemoryStep`),
every step of the pipeline moves a save on, and a step that ends a match by an exception adds to `skipped` or `lostTrades` what it
drops. How much that is follows from `OneAtATime`: a thread that owes a trade has not stored it
and no other thread owes one, so an exception drops one trade at most. `OneMatcher` and `ChangesBounded` keep a fill from losing the
save it is about to owe. `FewWriters` is there because cardinalities are of finite sets only.

### Sessions

`Sessions_proofs` proves, for every finite set of clients, every set of users, number
of slots and logins per client, under `SessionsAssumption` alone (`Clients` is finite, `MaxConnections`
is positive, `None` is none of the values it stands beside):

| Theorem | States |
|---|---|
| `TypeOKAlways` | `Spec => []TypeOK`; in particular `count <= MaxConnections` |
| `RegistryIsLiveAlways` | `Spec => []RegistryIsLive` |
| `OrdersAreSignedInAlways` | `Spec => []OrdersAreSignedIn` |
| `NamesAreReleasedAlways` | `Spec => []NamesAreReleased` |
| `ExecutionsReachTheUserAlways` | `Spec => []ExecutionsReachTheUser` |

The argument. That the count stays a natural number when a connection releases its slot
needs that it counts exactly the connections which hold one (`SlotsAreCounted`, by
cardinality: hence the finite `Clients`). `RegistryIsLive` does not follow from numbers being unique, which they
are not: it holds because a connection found under a number is there under its *own*
number (`RegisteredByNumber`) and removes whatever is found there before it goes. For the
names, `SignedIn` and `Named` say what a session's state and its stage tell of the
users it has signed in, `InUse` that whoever made a name active is still present or has
abandoned it, and `RegisteredByName` the same of the registry by name; the exception for `Abandoned`
users is inductive because `admitted` only grows.

### Link

`Link_proofs` proves, for every length of a second in ticks, every period, time limit, window and limit,
under `LinkAssumption` alone (periods, time limits and the window's limit are positive naturals, `None` is no number
or window):

| Theorem | States |
|---|---|
| `TypeOKAlways` | `Spec => []TypeOK` |
| `GoodClientSurvivesAlways` | `Spec => []GoodClientSurvives` |
| `SilenceIsNoticedAlways` | `Spec => []SilenceIsNoticed` |
| `AtMostTwoWindowsAlways` | `Spec => []AtMostTwoWindows` |

The argument. Checks happen at multiples of the period after the sign-in, and the clock does not pass
one that is due: at each moment the last check is less than a period ago, or exactly one with the next due
(`ChecksAreTimely`); a heartbeat it did not complain of was at most the time limit, in whole seconds, old. A
silence is therefore seen within the limit, the second lost in rounding, and a period: a heartbeat was
read when it came, so the last one is not later than the last read. A stopped handler looks up
when its message is complete: `StoppedLooksUp` counts, from the check that stopped it, one read timeout for each piece still to come. A connection
ends or is stopped only with a fault of the client, a refused message or too many errors on record (`NoFaultNoEnd`). The messages of the last window's length were accepted in the
current window or the one before it, no more of each than it counted (`CountedByWindows`).

### What is only model-checked

- Liveness, which is out of the prover's reach: `EveryRequestAnswered`, `ConnectionsEnd`, and the fairness part of
  `ImplementsDurableStore`. All other properties of the passing runs are stated by a theorem.
- What holds beyond the hypotheses above: nothing is proved of the book when two threads modify one user's orders,
  or of an order's life when another thread cancels orders of the same symbol. The quantities, monitors and fills of
  `OrderFlow_proofs` and the trades of `Trades_proofs` are proved without either.
- The properties of the runs that expect a violation.

## 5. Not modelled (yet)

- **A restarted server.** `WriteBehind` ends with what a restart would reload. That reloaded
  orders are in the caches and in no book (`OrderManager:525`), and that ids
  begin anew, needs `OrderFlow` to start from a reloaded state.
- **Two entries of one order into the book at once**, by two TCP sessions of one user that both modify, or by a TCP modification
  of an order that a REST worker has cached and not yet matched: the model has every step of it, and `OrderFlow_proofs` covers it; the book's properties fail there
  (`Book_proofs` excludes it by `OneModifier`).
- **The daily reset.** It replaces the books while a match holds the old one, so each
  call would have a book of its own; the engine's model has one per symbol.
- **Forced shutdown** after ten seconds (`shutdownNow`), the queries of the repositories.
- **What the server sends**: sequence numbers are taken and messages written in two steps
  by several threads. Session records, statistics and user accounts.
- **Connections that share a number** share limiter windows and error counts: `Link` has
  one connection, `Sessions` no limits.
- **The wire format** beyond the reading of frames: fields, bitfields, binary prices (rounded to four decimals,
  `BinaryPrice:11`).
- **Bots, feeds, positions, the displayed totals of a book.** Random strategies of bots are covered
  by the arbitrary requests of `OrderFlow`.
- Configuration, metrics, DTOs, controllers, OpenAPI and the CLI hold no behaviour
  worth a model. The vendored scripts under `resources/static` and the style
  configuration of `frontend` are not part of the simulator.

## 6. The plan

Done: A (`OrderFlow`, `TradeLedger`, their first proofs), B (`WriteBehind`, `DurableStore`), C (`Sessions` and
its proofs), D (`Link`), E (proofs for `WriteBehind`), F (proofs for `Link`), G (proofs for
the book, the life of an order, and the refinement of `TradeLedger`), H (the record of trades, the end of
every match, the life of an order with cancels on other symbols, unique ClOrdIDs). Left, in order of importance:

| | What | Properties |
|---|---|---|
| I | a restarted server and the daily reset, composed with `OrderFlow` | reloaded orders match; a reset loses no fill |
| J | fields and binary prices as operators; positions against a reference; the bots' life cycle | parse inverts write; position = signed sum of trades; nothing placed after stop |
