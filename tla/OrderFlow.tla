----------------------------- MODULE OrderFlow -----------------------------
(***************************************************************************)
(* The order engine of the simulator: OrderManager (entry points and       *)
(* caches), MatchingEngine (matching under one monitor per symbol),        *)
(* OrderBook (price levels plus index) and Order (state machine), driven   *)
(* by several server threads at once.  A TCP connection has its own        *)
(* thread, the REST API has a pool of them, and all of them call the same  *)
(* OrderManager.                                                           *)
(*                                                                         *)
(* The grain of atomicity follows the code: what a ConcurrentHashMap call, *)
(* an OrderBook method (under its StampedLock) or a plain field write does *)
(* is one step; a step groups several of them only when no other thread    *)
(* can observe or disturb the point in between.  Cancelling an order takes *)
(* no symbol monitor, so its steps interleave with a match in progress.    *)
(***************************************************************************)
EXTENDS Integers, Sequences, FiniteSets, SequencesExt

CONSTANTS
  Threads,      \* server threads that call OrderManager
  Users,        \* authenticated user names
  Symbols,      \* traded symbols (VALID_SYMBOLS)
  ClOrdIDs,     \* client order identifiers
  Prices,       \* limit prices, as integers
  MaxQty,       \* bound: the largest order quantity (999999 in the code)
  MaxOrders,    \* bound: how many orders a behaviour may create
  MaxRequests,  \* bound: how many requests each thread serves
  Requests,     \* the requests that reach each thread: those of one user for a
                \* TCP handler's thread, of any user, and no modification,
                \* for a REST worker's
  None          \* Java's null

OrderIds == 1..MaxOrders
Sides    == {"BUY", "SELL"}
OrdTypes == {"MARKET", "LIMIT"}

NewRequest ==
  [op: {"new"}, user: Users, symbol: Symbols, side: Sides, ordType: OrdTypes,
   clOrdID: ClOrdIDs, price: Prices \union {None}, qty: 1..MaxQty]

ModifyRequest ==
  [op: {"modify"}, user: Users, orig: ClOrdIDs, clOrdID: ClOrdIDs,
   price: Prices \union {None}, ordType: OrdTypes \union {None}, qty: 0..MaxQty]

CancelRequest == [op: {"cancel"}, user: Users, orig: ClOrdIDs]

\* A mass cancel selects by symbol, or every order of the user.
MassCancelRequest == [op: {"massCancel"}, user: Users, symbols: SUBSET Symbols]

Request == NewRequest \union ModifyRequest \union CancelRequest
             \union MassCancelRequest

\* What an order holds: the fields of Order that a modification leaves alone
\* and, as getClOrdID, getPrice, getOrdType and getEffectiveOrderQty return
\* them, those it replaces.
Order ==
  [user: Users, symbol: Symbols, side: Sides, orig: ClOrdIDs, clOrdID: ClOrdIDs,
   price: Prices \union {None}, ordType: OrdTypes, qty: 1..MaxQty]

ASSUME FlowAssumption ==
  /\ Threads # {}
  /\ Prices \subseteq Nat
  /\ MaxQty \in Nat \ {0}
  /\ MaxOrders \in Nat
  /\ MaxRequests \in [Threads -> Nat]
  /\ Requests \in [Threads -> SUBSET Request]
  /\ None \notin Threads /\ None \notin Nat /\ None \notin OrdTypes
  /\ None \notin Request /\ None \notin Order

-----------------------------------------------------------------------------
VARIABLES
  nextId,    \* the next order to create (orderIDGenerator)
  order,     \* what was ordered, with the last modification applied
  state,     \* OrderState of each order
  leaves,    \* leavesQty: what is still open
  cum,       \* cumQty: what was executed
  byClOrd,   \* activeOrdersByClOrdID
  byId,      \* activeOrdersByOrderID
  level,     \* the FIFO queue of every (symbol, side, price)
  index,     \* OrderBook.orderIndex
  monitor,   \* the owner of each symbol's monitor (symbolLocks)
  trades,    \* executed trades, oldest first
  pc, req, cur, passive, todo,  \* each thread's call in progress
  served,    \* how many requests each thread has taken up
  answer     \* each thread's last response

orderVars  == <<nextId, order, state, leaves, cum>>
cacheVars  == <<byClOrd, byId>>
bookVars   == <<level, index>>
sharedVars == <<orderVars, cacheVars, bookVars, monitor, trades>>
callVars   == <<req, cur, todo, served, answer>>
vars == <<sharedVars, pc, passive, callVars>>

States == {"NONE", "LIVE", "PARTIALLY_FILLED", "FILLED", "CANCELLED"}
Active == {"LIVE", "PARTIALLY_FILLED"}
Cancellable(o) == state[o] \in Active

\* Mutant: open means that something is left.
IsActive_Leaves(o) == leaves[o] > 0
IsActive(o) == state[o] \in Active

Placed == 1..(nextId - 1)

Matching ==
  {"test", "best", "pick", "selfTrade", "cancelOwn", "fill", "settle", "clear", "rest"}
Labels   == Matching \union
  {"idle", "register", "enrol", "enterNew", "enterModify",
   "dropKey", "checkModified", "putModified", "restore",
   "unbook", "checkCancel", "markCancelled", "uncache", "forget"}

Answers ==
  {"none", "acknowledged", "rejected", "internalError", "modified", "autoCancelled",
   "cancelled", "massCancelled"}

-----------------------------------------------------------------------------
(* The order book. *)

Levels == Symbols \X Sides \X Prices
LevelOf(o) == <<order[o].symbol, order[o].side, order[o].price>>
Opposite(side) == IF side = "BUY" THEN "SELL" ELSE "BUY"

Occupied(s, side) == {p \in Prices : level[<<s, side, p>>] # <<>>}
Ahead(side, p, q) == IF side = "BUY" THEN p > q ELSE p < q

\* Mutant: levels are not sorted by price.
IsBest_Unsorted(s, side, p) == p \in Occupied(s, side)
IsBest(s, side, p) ==
  /\ p \in Occupied(s, side)
  /\ \A q \in Occupied(s, side) : q = p \/ Ahead(side, p, q)

\* OrderBook.addOrder: an order without a price is dropped with a warning.
AddOrder(o) ==
  IF order[o].price = None
    THEN UNCHANGED bookVars
    ELSE /\ level' = [level EXCEPT ![LevelOf(o)] = Append(@, o)]
         /\ index' = index \union {o}

\* Mutants: the level, or the index, is not updated.
RemoveOrder_IndexOnly(o) == index' = index \ {o} /\ UNCHANGED level
RemoveOrder_LevelOnly(o) ==
  /\ level' = [level EXCEPT ![LevelOf(o)] = RemoveFirst(@, o)]
  /\ UNCHANGED index
\* OrderBook.removeOrder: nothing happens to an order that is not in the index.
RemoveOrder(o) ==
  IF o \notin index
    THEN UNCHANGED bookVars
    ELSE /\ level' = [level EXCEPT ![LevelOf(o)] = RemoveFirst(@, o)]
         /\ index' = index \ {o}

\* Mutant: equal prices do not match.
Accepts_Strict(o, p) ==
  order[o].price # None /\ p # order[o].price /\ Ahead(order[o].side, order[o].price, p)
\* The price test of canMatch.
Accepts(o, p) ==
  /\ order[o].price # None
  /\ IF order[o].side = "BUY" THEN order[o].price >= p ELSE order[o].price <= p

-----------------------------------------------------------------------------
Init ==
  /\ nextId = 1
  /\ order  = [o \in OrderIds |-> None]
  /\ state  = [o \in OrderIds |-> "NONE"]
  /\ leaves = [o \in OrderIds |-> 0]
  /\ cum    = [o \in OrderIds |-> 0]
  /\ byClOrd = [c \in ClOrdIDs |-> None]
  /\ byId = {}
  /\ level = [l \in Levels |-> <<>>]
  /\ index = {}
  /\ monitor = [s \in Symbols |-> None]
  /\ trades = <<>>
  /\ pc = [t \in Threads |-> "idle"]
  /\ req = [t \in Threads |-> None]
  /\ cur = [t \in Threads |-> None]
  /\ passive = [t \in Threads |-> None]
  /\ todo = [t \in Threads |-> {}]
  /\ served = [t \in Threads |-> 0]
  /\ answer = [t \in Threads |-> "none"]

Goto(t, from, to) ==
  /\ pc[t] = from
  /\ pc' = [pc EXCEPT ![t] = to]

\* The call returns its response, and the thread waits for the next request.
Return(t, a) ==
  /\ pc' = [pc EXCEPT ![t] = "idle"]
  /\ answer' = [answer EXCEPT ![t] = a]
  /\ req' = [req EXCEPT ![t] = None]
  /\ cur' = [cur EXCEPT ![t] = None]
  /\ passive' = [passive EXCEPT ![t] = None]
  /\ todo' = [todo EXCEPT ![t] = {}]

Serve(t) ==
  /\ pc[t] = "idle"
  /\ served[t] < MaxRequests[t]
  /\ served' = [served EXCEPT ![t] = @ + 1]

\* Mutant: the monitor is never given back.
Release_Never(t) == UNCHANGED monitor
Release(t) == monitor' = [monitor EXCEPT ![order[cur[t]].symbol] = None]

-----------------------------------------------------------------------------
(* OrderManager.processNewOrder *)

NewInvalid(r)   == r.ordType = "LIMIT" /\ r.price = None
NewDuplicate(r) == byClOrd[r.clOrdID] # None

\* Validation and the duplicate check on the ClOrdID cache.
CheckNew(t, r) ==
  /\ Serve(t)
  /\ r.op = "new"
  /\ IF NewInvalid(r) \/ NewDuplicate(r)
       THEN Return(t, "rejected")
       ELSE /\ pc' = [pc EXCEPT ![t] = "register"]
            /\ req' = [req EXCEPT ![t] = r]
            /\ UNCHANGED <<cur, todo, passive, answer>>
  /\ UNCHANGED <<sharedVars>>

\* The order is built, acknowledged (LIVE) and put under its ClOrdID.
Register(t) ==
  LET r == req[t] IN
  /\ Goto(t, "register", "enrol")
  /\ nextId \in OrderIds
  /\ order' = [order EXCEPT ![nextId] =
       [user |-> r.user, symbol |-> r.symbol, side |-> r.side, orig |-> r.clOrdID,
        clOrdID |-> r.clOrdID, price |-> r.price, ordType |-> r.ordType, qty |-> r.qty]]
  /\ state' = [state EXCEPT ![nextId] = "LIVE"]
  /\ leaves' = [leaves EXCEPT ![nextId] = r.qty]
  /\ byClOrd' = [byClOrd EXCEPT ![r.clOrdID] = nextId]
  /\ cur' = [cur EXCEPT ![t] = nextId]
  /\ nextId' = nextId + 1
  /\ UNCHANGED <<cum, byId, bookVars, monitor, trades, passive, req, todo,
                 served, answer>>

\* ... and under its OrderID.
Enrol(t) ==
  /\ Goto(t, "enrol", "enterNew")
  /\ byId' = byId \union {cur[t]}
  /\ UNCHANGED <<orderVars, byClOrd, bookVars, monitor, trades, passive, callVars>>

\* Mutant: the thread does not wait for the monitor.
Enter_Unlocked(t) == monitor' = [monitor EXCEPT ![order[cur[t]].symbol] = t]
Enter(t) ==
  LET s == order[cur[t]].symbol IN
  /\ monitor[s] = None
  /\ monitor' = [monitor EXCEPT ![s] = t]

\* MatchingEngine.processOrder begins: the thread gets the symbol's monitor.
EnterNew(t) ==
  /\ Goto(t, "enterNew", "test")
  /\ Enter(t)
  /\ UNCHANGED <<orderVars, cacheVars, bookVars, trades, passive, callVars>>

-----------------------------------------------------------------------------
(* OrderManager.processModifyOrder *)

\* Mutant: the state of the order is not checked.
Modifiable_AnyState(r) ==
  /\ r.qty > 0 /\ r.price # None
  /\ byClOrd[r.orig] # None /\ order[byClOrd[r.orig]].user = r.user
\* The checks that precede the modification.
Modifiable(r) ==
  LET o == byClOrd[r.orig] IN
  /\ r.qty > 0
  /\ o # None
  /\ order[o].user = r.user
  /\ IsActive(o)
  /\ \/ r.price # None
     \/ r.ordType = "MARKET"
     \/ r.ordType = None /\ order[o].ordType = "MARKET"

CheckModify(t, r) ==
  /\ Serve(t)
  /\ r.op = "modify"
  /\ IF ~Modifiable(r)
       THEN Return(t, "rejected")
       ELSE /\ pc' = [pc EXCEPT ![t] = "dropKey"]
            /\ req' = [req EXCEPT ![t] = r]
            /\ cur' = [cur EXCEPT ![t] = byClOrd[r.orig]]
            /\ UNCHANGED <<todo, passive, answer>>
  /\ UNCHANGED <<sharedVars>>

\* The key of the order's ORIGINAL ClOrdID leaves the cache.
DropKey(t) ==
  /\ Goto(t, "dropKey", "enterModify")
  /\ byClOrd' = [byClOrd EXCEPT ![order[cur[t]].orig] = None]
  /\ UNCHANGED <<orderVars, byId, bookVars, monitor, trades, passive, callVars>>

\* Mutant: the executed quantity is forgotten.
NewLeaves_Whole(o, r) == r.qty
\* What is open after the modification (the delta rule of modifyOrder).
NewLeaves(o, r) == leaves[o] + r.qty - order[o].qty

\* The order with the terms the request gives; what it does not give stays.
WithTerms(o, r) ==
  [order[o] EXCEPT
     !.clOrdID = r.clOrdID,
     !.price   = IF r.price = None THEN @ ELSE r.price,
     !.ordType = IF r.ordType = None THEN @ ELSE r.ordType,
     !.qty     = IF r.qty = 0 THEN @ ELSE r.qty]

\* MatchingEngine.modifyOrder up to the matching loop: the order leaves the
\* book, then takes its new terms.
EnterModify(t) ==
  LET o == cur[t] IN
  /\ Goto(t, "enterModify", "test")
  /\ NewLeaves(o, req[t]) > 0
  /\ IsActive(o)
  /\ Enter(t)
  /\ RemoveOrder(o)
  /\ order' = [order EXCEPT ![o] = WithTerms(o, req[t])]
  /\ leaves' = [leaves EXCEPT ![o] = NewLeaves(o, req[t])]
  /\ UNCHANGED <<nextId, state, cum, cacheVars, trades, passive, callVars>>

\* The reduction leaves nothing open: the order is cancelled instead.
ModifyToNothing(t) ==
  LET o == cur[t] IN
  /\ Goto(t, "enterModify", "checkModified")
  /\ monitor[order[o].symbol] = None
  /\ NewLeaves(o, req[t]) <= 0
  /\ Cancellable(o)
  /\ RemoveOrder(o)
  /\ state' = [state EXCEPT ![o] = "CANCELLED"]
  /\ UNCHANGED <<nextId, order, leaves, cum, cacheVars, monitor, trades, passive, callVars>>

\* The order was filled or cancelled since it was checked: cancel() or
\* modify() throws.
ModifyTooLate(t) ==
  LET o == cur[t] IN
  /\ Goto(t, "enterModify", "restore")
  /\ monitor[order[o].symbol] = None
  /\ ~IsActive(o)
  /\ RemoveOrder(o)
  /\ UNCHANGED <<orderVars, cacheVars, monitor, trades, passive, callVars>>

\* The catch clause puts the original ClOrdID back.
Restore(t) ==
  /\ pc[t] = "restore"
  /\ byClOrd' = [byClOrd EXCEPT ![order[cur[t]].orig] = cur[t]]
  /\ Return(t, "internalError")
  /\ UNCHANGED <<orderVars, byId, bookVars, monitor, trades, served>>

\* After the monitor is released: is the order still active?
CheckModified(t) ==
  LET o == cur[t] IN
  \/ /\ Goto(t, "checkModified", "putModified")
     /\ IsActive(o)
     /\ UNCHANGED <<sharedVars, passive, callVars>>
  \/ /\ pc[t] = "checkModified"
     /\ ~IsActive(o)
     /\ byId' = byId \ {o}
     /\ Return(t, "autoCancelled")
     /\ UNCHANGED <<orderVars, byClOrd, bookVars, monitor, trades, served>>

\* Mutant: the order is put back under its original ClOrdID.
PutModified_Original(t) ==
  /\ pc[t] = "putModified"
  /\ byClOrd' = [byClOrd EXCEPT ![order[cur[t]].orig] = cur[t]]
  /\ Return(t, "modified")
  /\ UNCHANGED <<orderVars, byId, bookVars, monitor, trades, served>>
\* The cache learns the order's new ClOrdID.
PutModified(t) ==
  /\ pc[t] = "putModified"
  /\ byClOrd' = [byClOrd EXCEPT ![order[cur[t]].clOrdID] = cur[t]]
  /\ Return(t, "modified")
  /\ UNCHANGED <<orderVars, byId, bookVars, monitor, trades, served>>

-----------------------------------------------------------------------------
(* MatchingEngine.executeMatching, under the symbol's monitor *)

IsModify(t) == req[t].op = "modify"

\* An exception leaves the monitor and reaches the handler's catch clause.
Unwind(t) ==
  /\ Release(t)
  /\ IF IsModify(t)
       THEN /\ pc' = [pc EXCEPT ![t] = "restore"]
            /\ passive' = [passive EXCEPT ![t] = None]
            /\ UNCHANGED callVars
       ELSE Return(t, "internalError") /\ UNCHANGED served
Throw(t) == Unwind(t) /\ UNCHANGED <<orderVars, cacheVars, trades>>

\* Is there a quantity left, and a side to match it against?  A market order
\* does not look at the book here.
Test(t) ==
  LET o == cur[t]
      against == Occupied(order[o].symbol, Opposite(order[o].side)) IN
  /\ pc[t] = "test"
  /\ pc' = [pc EXCEPT ![t] =
       IF leaves[o] = 0 THEN "rest"
       ELSE IF order[o].ordType = "MARKET" THEN "pick"
       ELSE IF order[o].price = None \/ against = {} THEN "rest"
       ELSE "best"]
  /\ UNCHANGED <<sharedVars, passive, callVars>>

\* The best opposite price is read and compared.  Best-price reads are
\* optimistic: if a cancel empties the side between the emptiness test and
\* this read, TreeMap.firstKey throws.
Best(t) ==
  LET o == cur[t]
      s == order[o].symbol
      against == Opposite(order[o].side) IN
  /\ pc[t] = "best"
  /\ \/ \E p \in Prices :
          /\ IsBest(s, against, p)
          /\ pc' = [pc EXCEPT ![t] = IF Accepts(o, p) THEN "pick" ELSE "rest"]
          /\ UNCHANGED <<sharedVars, passive, callVars>>
     \/ /\ Occupied(s, against) = {}
        /\ Throw(t)
        /\ UNCHANGED bookVars

\* Mutant: the last order of the level comes first.
IsHead_Lifo(o, p) ==
  LET s == order[o].symbol  against == Opposite(order[o].side) IN
  \E price \in Prices : IsBest(s, against, price) /\ p = Last(level[<<s, against, price>>])
\* The head of the best opposite level, if there is one.
IsHead(o, p) ==
  LET s == order[o].symbol  against == Opposite(order[o].side) IN
  \E price \in Prices : IsBest(s, against, price) /\ p = Head(level[<<s, against, price>>])

NothingToPick(t) ==
  /\ Goto(t, "pick", "rest")
  /\ Occupied(order[cur[t]].symbol, Opposite(order[cur[t]].side)) = {}
  /\ UNCHANGED <<sharedVars, passive, callVars>>

\* A head that is no longer active is dropped from the book.
DropStale(t) ==
  /\ Goto(t, "pick", "test")
  /\ \E p \in OrderIds : IsHead(cur[t], p) /\ ~IsActive(p) /\ RemoveOrder(p)
  /\ UNCHANGED <<orderVars, cacheVars, monitor, trades, passive, callVars>>

\* Mutant: self-trades are allowed.
SelfTrade_Allowed(a, p) == FALSE
SelfTrade(a, p) == order[p].user = order[a].user

\* Self-trade prevention: the user's own resting order leaves the book.
PreventSelfTrade(t) ==
  /\ Goto(t, "pick", "selfTrade")
  /\ \E p \in OrderIds :
       /\ IsHead(cur[t], p)
       /\ IsActive(p)
       /\ SelfTrade(cur[t], p)
       /\ RemoveOrder(p)
       /\ passive' = [passive EXCEPT ![t] = p]
  /\ UNCHANGED <<orderVars, cacheVars, monitor, trades, callVars>>

\* ... and, unless a cancel request got there first, it is to be cancelled.
CheckOwnPassive(t) ==
  /\ pc[t] = "selfTrade"
  /\ IF Cancellable(passive[t])
       THEN /\ pc' = [pc EXCEPT ![t] = "cancelOwn"]
            /\ UNCHANGED passive
       ELSE /\ pc' = [pc EXCEPT ![t] = "test"]
            /\ passive' = [passive EXCEPT ![t] = None]
  /\ UNCHANGED <<sharedVars, callVars>>

\* OrderManager's caches are not told.
CancelOwnPassive(t) ==
  /\ Goto(t, "cancelOwn", "test")
  /\ Cancellable(passive[t])
  /\ state' = [state EXCEPT ![passive[t]] = "CANCELLED"]
  /\ passive' = [passive EXCEPT ![t] = None]
  /\ UNCHANGED <<nextId, order, leaves, cum, cacheVars, bookVars, monitor, trades, callVars>>

\* A cancel request came in between: cancel() throws.
OwnPassiveGone(t) ==
  /\ pc[t] = "cancelOwn"
  /\ ~Cancellable(passive[t])
  /\ Throw(t)
  /\ UNCHANGED bookVars

Pick(t) ==
  /\ Goto(t, "pick", "fill")
  /\ \E p \in OrderIds :
       /\ IsHead(cur[t], p)
       /\ IsActive(p)
       /\ ~SelfTrade(cur[t], p)
       /\ passive' = [passive EXCEPT ![t] = p]
  /\ UNCHANGED <<sharedVars, callVars>>

\* Mutant: the larger quantity is filled.
MinQty_Larger(a, b) == IF a <= b THEN b ELSE a
MinQty(a, b) == IF a <= b THEN a ELSE b
FillQty(t) == MinQty(leaves[cur[t]], leaves[passive[t]])

\* Mutant: the trade reports what the aggressor ordered.
TradeOf_Ordered(a, p, q) ==
  [buy |-> IF order[a].side = "BUY" THEN a ELSE p, sell |-> IF order[a].side = "BUY" THEN p ELSE a,
   price |-> order[p].price, qty |-> order[a].qty]
TradeOf(a, p, q) ==
  [buy   |-> IF order[a].side = "BUY" THEN a ELSE p,
   sell  |-> IF order[a].side = "BUY" THEN p ELSE a,
   price |-> order[p].price,
   qty   |-> q]

\* Mutant: an order is never completed.
StateAfterFill_Partial(o, q) == "PARTIALLY_FILLED"
StateAfterFill(o, q) == IF leaves[o] = q THEN "FILLED" ELSE "PARTIALLY_FILLED"

\* A trade at the passive price; both orders are filled.  Neither fill looks
\* at the state it overwrites.
Fill(t) ==
  LET a == cur[t]  p == passive[t]  q == FillQty(t) IN
  /\ Goto(t, "fill", "settle")
  /\ trades' = Append(trades, TradeOf(a, p, q))
  /\ leaves' = [leaves EXCEPT ![a] = @ - q, ![p] = @ - q]
  /\ cum' = [cum EXCEPT ![a] = @ + q, ![p] = @ + q]
  /\ state' = [state EXCEPT ![a] = StateAfterFill(a, q), ![p] = StateAfterFill(p, q)]
  /\ UNCHANGED <<nextId, order, cacheVars, bookVars, monitor, passive, callVars>>

\* OrderManager.handleTradeExecution drops filled orders from its caches ...
Settle(t) ==
  LET filled == {o \in {cur[t], passive[t]} : o \in byId /\ state[o] = "FILLED"} IN
  /\ Goto(t, "settle", "clear")
  /\ byId' = byId \ filled
  /\ byClOrd' = [c \in ClOrdIDs |->
                   IF \E o \in filled : order[o].clOrdID = c THEN None ELSE byClOrd[c]]
  /\ UNCHANGED <<orderVars, bookVars, monitor, trades, passive, callVars>>

\* ... and a passive order with nothing left leaves the book.
Clear(t) ==
  /\ Goto(t, "clear", "test")
  /\ IF leaves[passive[t]] = 0 THEN RemoveOrder(passive[t]) ELSE UNCHANGED bookVars
  /\ passive' = [passive EXCEPT ![t] = None]
  /\ UNCHANGED <<orderVars, cacheVars, monitor, trades, callVars>>

\* Mutant: a partially filled order is forgotten.
Rests_Untouched(o) == leaves[o] > 0 /\ state[o] = "LIVE"
Rests(o) == leaves[o] > 0 /\ IsActive(o)

\* What is left of a live order rests in the book, and the monitor is
\* released.  A new order is then acknowledged.
Rest(t) ==
  LET o == cur[t] IN
  /\ pc[t] = "rest"
  /\ IF Rests(o) THEN AddOrder(o) ELSE UNCHANGED bookVars
  /\ Release(t)
  /\ IF IsModify(t)
       THEN /\ pc' = [pc EXCEPT ![t] = "checkModified"]
            /\ UNCHANGED <<passive, callVars>>
       ELSE Return(t, "acknowledged") /\ UNCHANGED served
  /\ UNCHANGED <<orderVars, cacheVars, trades>>

-----------------------------------------------------------------------------
(* OrderManager.processCancelOrder: no step of it takes a symbol's monitor *)

CheckCancel(t, r) ==
  /\ Serve(t)
  /\ r.op = "cancel"
  /\ LET o == byClOrd[r.orig] IN
     IF o # None /\ order[o].user = r.user /\ Cancellable(o)
       THEN /\ pc' = [pc EXCEPT ![t] = "unbook"]
            /\ req' = [req EXCEPT ![t] = r]
            /\ cur' = [cur EXCEPT ![t] = o]
            /\ UNCHANGED <<todo, passive, answer>>
       ELSE Return(t, "rejected")
  /\ UNCHANGED <<sharedVars>>

\* The orders a mass cancel selects: the user's own cancellable ones.
Selected(r) ==
  {o \in Placed : /\ \E c \in ClOrdIDs : byClOrd[c] = o
                  /\ order[o].user = r.user
                  /\ order[o].symbol \in r.symbols
                  /\ Cancellable(o)}

MassCancel(t, r) ==
  /\ Serve(t)
  /\ r.op = "massCancel"
  /\ IF Selected(r) = {}
       THEN Return(t, "massCancelled")
       ELSE \E o \in Selected(r) :
            /\ pc' = [pc EXCEPT ![t] = "unbook"]
            /\ req' = [req EXCEPT ![t] = r]
            /\ cur' = [cur EXCEPT ![t] = o]
            /\ todo' = [todo EXCEPT ![t] = Selected(r) \ {o}]
            /\ UNCHANGED <<passive, answer>>
  /\ UNCHANGED <<sharedVars>>

\* MatchingEngine.cancelOrder
Unbook(t) ==
  /\ Goto(t, "unbook", "checkCancel")
  /\ RemoveOrder(cur[t])
  /\ UNCHANGED <<orderVars, cacheVars, monitor, trades, passive, callVars>>

\* A mass cancel goes on to its next order; a cancel answers.
Proceed(t, a) ==
  IF todo[t] = {}
    THEN Return(t, IF req[t].op = "massCancel" THEN "massCancelled" ELSE a)
    ELSE \E o \in todo[t] :
         /\ pc' = [pc EXCEPT ![t] = "unbook"]
         /\ cur' = [cur EXCEPT ![t] = o]
         /\ todo' = [todo EXCEPT ![t] = @ \ {o}]
         /\ UNCHANGED <<req, passive, answer>>

\* Order.cancel tests the state ...
CheckStillOpen(t) ==
  \/ /\ Goto(t, "checkCancel", "markCancelled")
     /\ Cancellable(cur[t])
     /\ UNCHANGED <<sharedVars, passive, callVars>>
  \/ /\ pc[t] = "checkCancel"
     /\ ~Cancellable(cur[t])
     /\ Proceed(t, "internalError")
     /\ UNCHANGED <<sharedVars, served>>

\* ... and then overwrites it.
MarkCancelled(t) ==
  /\ Goto(t, "markCancelled", "uncache")
  /\ state' = [state EXCEPT ![cur[t]] = "CANCELLED"]
  /\ UNCHANGED <<nextId, order, leaves, cum, cacheVars, bookVars, monitor, trades, passive,
                 callVars>>

\* The key goes, whatever order it leads to by now, and then the OrderID.
Uncache(t) ==
  /\ Goto(t, "uncache", "forget")
  /\ byClOrd' = [byClOrd EXCEPT ![order[cur[t]].clOrdID] = None]
  /\ UNCHANGED <<orderVars, byId, bookVars, monitor, trades, passive, callVars>>

Forget(t) ==
  /\ pc[t] = "forget"
  /\ byId' = byId \ {cur[t]}
  /\ Proceed(t, "cancelled")
  /\ UNCHANGED <<orderVars, byClOrd, bookVars, monitor, trades, served>>

-----------------------------------------------------------------------------
Receive(t) ==
  \E r \in Requests[t] :
    CheckNew(t, r) \/ CheckModify(t, r) \/ CheckCancel(t, r) \/ MassCancel(t, r)

Match(t) ==
  \/ Test(t) \/ Best(t) \/ NothingToPick(t) \/ DropStale(t)
  \/ PreventSelfTrade(t) \/ CheckOwnPassive(t) \/ CancelOwnPassive(t) \/ OwnPassiveGone(t)
  \/ Pick(t) \/ Fill(t) \/ Settle(t) \/ Clear(t) \/ Rest(t)

Step(t) ==
  \/ Register(t) \/ Enrol(t) \/ EnterNew(t)
  \/ DropKey(t) \/ EnterModify(t) \/ ModifyToNothing(t) \/ ModifyTooLate(t)
  \/ CheckModified(t) \/ PutModified(t) \/ Restore(t)
  \/ Match(t)
  \/ Unbook(t) \/ CheckStillOpen(t) \/ MarkCancelled(t) \/ Uncache(t) \/ Forget(t)

\* Every thread has served its bound of requests.
Quiet ==
  /\ \A t \in Threads : pc[t] = "idle" /\ served[t] = MaxRequests[t]
  /\ UNCHANGED vars

Next == Quiet \/ \E t \in Threads : Receive(t) \/ Step(t)

Spec == Init /\ [][Next]_vars

\* Threads are scheduled: a call in progress that can go on does go on.
FairSpec == Spec /\ \A t \in Threads : WF_vars(Step(t))
-----------------------------------------------------------------------------
(* Properties *)

\* Type invariant.
TypeOK ==
  /\ nextId \in 1..(MaxOrders + 1)
  /\ order \in [OrderIds -> Order \union {None}]
  /\ state \in [OrderIds -> States]
  /\ leaves \in [OrderIds -> Nat]
  /\ cum \in [OrderIds -> Nat]
  /\ \A o \in OrderIds : o \in Placed <=> order[o] # None
  /\ byClOrd \in [ClOrdIDs -> Placed \union {None}]
  /\ byId \subseteq Placed
  /\ level \in [Levels -> Seq(Placed)]
  /\ index \subseteq Placed
  /\ monitor \in [Symbols -> Threads \union {None}]
  /\ pc \in [Threads -> Labels]
  /\ req \in [Threads -> Request \union {None}]
  /\ cur \in [Threads -> Placed \union {None}]
  /\ passive \in [Threads -> Placed \union {None}]
  /\ todo \in [Threads -> SUBSET Placed]
  /\ served \in [Threads -> Nat]
  /\ \A t \in Threads : served[t] <= MaxRequests[t]
  /\ answer \in [Threads -> Answers]

\* A symbol's monitor is owned by exactly the thread that is matching an order
\* of that symbol (synchronized blocks of MatchingEngine, exits by exception
\* included).
MonitorDiscipline ==
  \A t \in Threads, s \in Symbols :
    monitor[s] = t <=> pc[t] \in Matching /\ order[cur[t]].symbol = s

\* A quantity is open, executed, or it was never ordered; an order that may
\* trade has something open and a filled one has nothing.
QuantitiesAgree ==
  \A o \in Placed :
    /\ leaves[o] + cum[o] = order[o].qty
    /\ IsActive(o) => leaves[o] > 0
    /\ state[o] = "FILLED" => leaves[o] = 0

\* Order.fill never rejects the quantity executeMatching computed, and a trade
\* joins two sides of one symbol and two users, whatever happened since the
\* passive order was picked.
FillIsSafe ==
  \A t \in Threads : pc[t] = "fill" =>
    LET a == cur[t]  p == passive[t] IN
    /\ leaves[a] > 0 /\ leaves[p] > 0
    /\ order[p].symbol = order[a].symbol
    /\ order[p].side = Opposite(order[a].side)
    /\ order[p].user # order[a].user

\* What a call in progress may rely on: its request and its orders are there,
\* and an order on its way to a fill has something open.
CallsInProgress ==
  \A t \in Threads :
    /\ pc[t] = "register" => req[t] \in NewRequest
    /\ pc[t] \in {"dropKey", "enterModify"} => req[t] \in ModifyRequest
    /\ pc[t] \notin {"idle", "register"} => cur[t] \in Placed
    /\ pc[t] \in {"selfTrade", "cancelOwn", "fill", "settle", "clear"} => passive[t] \in Placed
    /\ pc[t] \in {"best", "pick"} => leaves[cur[t]] > 0

\* A queue holds orders of its symbol and its side.
QueuesMatch ==
  \A l \in Levels : \A i \in 1..Len(level[l]) :
    order[level[l][i]].symbol = l[1] /\ order[level[l][i]].side = l[2]

\* Nothing was executed of an order that does not exist yet.
NothingBefore == \A o \in OrderIds \ Placed : cum[o] = 0

\* What every step preserves, and the safety of fills and monitors follows from.
EngineInvariant ==
  /\ TypeOK /\ CallsInProgress /\ QueuesMatch /\ NothingBefore
  /\ MonitorDiscipline /\ QuantitiesAgree /\ FillIsSafe

\* What the trades add up to is what the orders say was executed.
QtyFor(o, tr) == IF o \in {tr.buy, tr.sell} THEN tr.qty ELSE 0
Executed(o) ==
  LET first[n \in 0..Len(trades)] ==   \* in the first n trades
        IF n = 0 THEN 0 ELSE first[n - 1] + QtyFor(o, trades[n])
  IN  first[Len(trades)]
TradesAddUp == \A o \in OrderIds : cum[o] = Executed(o)

\* The index and the price levels describe the same book: an indexed order is
\* queued exactly once, at its current price, and nothing else is queued.
BookWellFormed ==
  /\ \A l \in Levels : \A i \in DOMAIN level[l] :
       /\ level[l][i] \in index
       /\ LevelOf(level[l][i]) = l
       /\ \A j \in DOMAIN level[l] : level[l][i] = level[l][j] => i = j
  /\ \A o \in index : Contains(level[LevelOf(o)], o)

\* Between matches no bid reaches an ask: the best bid is below the best ask.
Uncrossed ==
  \A s \in Symbols : monitor[s] = None =>
    \A bid \in Occupied(s, "BUY"), ask \in Occupied(s, "SELL") : bid < ask

\* Some call in progress has the order in hand.
InHand(o) == \E t \in Threads : o \in {cur[t], passive[t]} \union todo[t]

\* An open order nobody is working on rests in the book, unless it is a market
\* order without a price, and OrderManager still tracks it.
OpenOrdersRest ==
  \A o \in Placed : IsActive(o) /\ ~InHand(o) =>
    (o \in index <=> order[o].price # None) /\ o \in byId

\* An open order nobody is working on is found under its ClOrdID after any chain of
\* modifications, so that its user can cancel it.  Only another order may hide it: one
\* that a modification gave the same ClOrdID, or one that was entered under it, whose
\* next modification drops the key of its ORIGINAL ClOrdID, not of the one in use.
OpenOrdersAreFound ==
  \A o \in Placed : IsActive(o) /\ ~InHand(o) =>
    \/ byClOrd[order[o].clOrdID] # None
    \/ \E p \in Placed \ {o} : order[o].clOrdID \in {order[p].orig, order[p].clOrdID}

\* What rests is open: the matching loop meets no stale head.
RestingIsOpen == \A o \in index : ~InHand(o) => IsActive(o)

\* No two open orders carry the same ClOrdID.
UniqueOpenClOrdID ==
  \A o, p \in Placed :
    IsActive(o) /\ IsActive(p) /\ order[o].clOrdID = order[p].clOrdID => o = p

Trading(t) == pc[t] = "fill" /\ pc'[t] = "settle"

\* A limit order never trades beyond its limit.
LimitRespected ==
  [][\A t \in Threads : Trading(t) /\ order[cur[t]].ordType = "LIMIT" =>
       Accepts(cur[t], order[passive[t]].price)]_vars

\* Price-time priority: when an order trades, nothing on its side of the book
\* has a better price, and it is first in its own queue if it is still there.
PriorityRespected ==
  [][\A t \in Threads : Trading(t) =>
       LET p == passive[t] IN
       /\ \A q \in index : order[q].symbol = order[p].symbol /\ order[q].side = order[p].side
            => ~Ahead(order[p].side, order[q].price, order[p].price)
       /\ p \in index => Head(level[LevelOf(p)]) = p]_vars

\* An upper bound of the steps a match has left: what is open of its order and each order
\* of the book cost a round, and a round has six steps at most.
Rank == [rest |-> 0, fill |-> 1, pick |-> 2, best |-> 3, test |-> 4, clear |-> 5,
         settle |-> 6, cancelOwn |-> 5, selfTrade |-> 6]
StepsLeft(t) ==
  6 * (leaves[cur[t]] + Cardinality({o \in index : order[o].symbol = order[cur[t]].symbol}))
    + Rank[pc[t]]

\* The matching loop ends, whatever is cancelled or entered meanwhile: each of its steps
\* uses up some of StepsLeft, and no other thread's step adds to it.
MatchIsFinite ==
  [][\A t \in Threads : pc[t] \in Matching /\ pc'[t] \in Matching =>
       /\ StepsLeft(t)' <= StepsLeft(t)
       /\ pc'[t] # pc[t] => StepsLeft(t)' < StepsLeft(t)]_vars

\* A filled or cancelled order never changes state again.
TerminalIsFinal ==
  [][\A o \in OrderIds : state[o] \in {"FILLED", "CANCELLED"} => state'[o] = state[o]]_vars

\* No call ends in an unexpected exception.
NoInternalError == \A t \in Threads : answer[t] # "internalError"

\* Every request is answered.
EveryRequestAnswered == \A t \in Threads : pc[t] # "idle" ~> pc[t] = "idle"

\* The engine implements the ledger: an order's limit is its price while it is
\* a limit order, or while it rests at a price.
Ledger == INSTANCE TradeLedger WITH
  commitment <- [o \in OrderIds |->
    IF o \notin Placed THEN None
    ELSE [user |-> order[o].user, symbol |-> order[o].symbol, side |-> order[o].side,
          limit |-> IF order[o].ordType = "LIMIT" THEN order[o].price ELSE None,
          qty |-> order[o].qty]],
  open <- {o \in Placed : IsActive(o)},
  executed <- cum,
  deals <- trades

ImplementsLedger == Ledger!LedgerSpec
=============================================================================
