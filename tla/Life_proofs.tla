---------------------------- MODULE Life_proofs ----------------------------
EXTENDS Book_proofs

\* The symbols a user enters orders for, and those that a request may touch: a request to
\* modify or to cancel finds any order of its user.
TradedBy(user) ==
  {s \in Symbols : \E t \in Threads : \E r \in Requests[t] :
     r.op = "new" /\ r.user = user /\ r.symbol = s}
Reach(r) ==
  {s \in TradedBy(r.user) :
     /\ r.op = "new" => s = r.symbol
     /\ r.op = "massCancel" => s \in r.symbols}

\* No other thread touches the symbols that the thread touches with some of its requests.
Apart(t, ops) ==
  \A u \in Threads \ {t} : \A r \in Requests[t], q \in Requests[u] :
    r.op \in ops => Reach(r) \intersect Reach(q) = {}

\* A cancel, which takes no monitor, runs concurrently only with requests on other symbols:
\* who cancels orders of a symbol is the only one to enter, modify or cancel orders of it.
\* Where nobody cancels, any number of threads may trade one symbol.
CancelsApart == \A t \in Threads : Apart(t, {"cancel", "massCancel"})

Cancelling  == {"unbook", "checkCancel", "markCancelled", "uncache", "forget"}
WithPassive == {"selfTrade", "cancelOwn", "fill", "settle", "clear"}

\* The orders that a call enters, matches, modifies or cancels.
Works(t) ==
  {o \in Placed : pc[t] \in Holding \union Cancelling /\ o \in {cur[t]} \union todo[t]}

\* They are of symbols that the thread's request may touch.
WithinReach ==
  /\ \A o \in Placed : order[o].symbol \in TradedBy(order[o].user)
  /\ \A t \in Threads :
       /\ pc[t] \in Holding \union Cancelling => req[t] \in Requests[t]
       /\ pc[t] \in Cancelling => req[t].op \in {"cancel", "massCancel"}
       /\ \A o \in Works(t) : order[o].symbol \in Reach(req[t])

\* While a thread cancels, the others work on other symbols.
CancelApart ==
  \A t, u \in Threads : t # u /\ pc[t] \in Cancelling =>
    \A o \in Works(t), p \in Works(u) : order[o].symbol # order[p].symbol

\* A passive order rests, or rested, on the other side of the book in which it is met,
\* and nobody enters or matches it.
PassiveMatches ==
  \A t \in Threads : pc[t] \in WithPassive =>
    /\ order[passive[t]].symbol = order[cur[t]].symbol
    /\ \A u \in Threads : pc[u] \in Entering \union Matching => passive[t] # cur[u]

\* An order on its way into the book is open as long as something is left of it, and so
\* is an order about to be filled or cancelled.
InHandIsOpen ==
  \A t \in Threads :
    /\ pc[t] \in Entering => IsActive(cur[t])
    /\ pc[t] \in Matching /\ leaves[cur[t]] > 0 => IsActive(cur[t])
    /\ pc[t] \in {"fill", "cancelOwn"} => IsActive(passive[t])
    /\ pc[t] \in {"unbook", "checkCancel", "markCancelled"} => IsActive(cur[t])
    /\ pc[t] \in {"uncache", "forget"} => ~IsActive(cur[t])
    /\ pc[t] \in Cancelling => \A o \in todo[t] : IsActive(o) /\ o # cur[t]

\* What is about to be filled rests, and what is to be cancelled no longer does.
TakenOut ==
  \A t \in Threads :
    /\ pc[t] = "fill" => passive[t] \in index
    /\ pc[t] \in {"selfTrade", "cancelOwn"} => passive[t] \notin index
    /\ pc[t] \in {"checkCancel", "markCancelled"} => cur[t] \notin index

\* The state of an order that does not exist yet.
NotYetPlaced == \A o \in OrderIds \ Placed : state[o] = "NONE"

\* What rests is open, but for the passive order of a trade that is not settled.
RestingOpen ==
  \A o \in index :
    \/ IsActive(o)
    \/ \E t \in Threads : pc[t] \in {"settle", "clear"} /\ passive[t] = o /\ leaves[o] = 0

\* Between its price test and its fill a limit order goes on accepting the best price.
LimitHolds ==
  \A t \in Threads :
    /\ pc[t] = "best" =>
         Occupied(order[cur[t]].symbol, Opposite(order[cur[t]].side)) # {}
    /\ pc[t] = "pick" /\ order[cur[t]].ordType = "LIMIT" =>
         \A p \in Prices :
           IsBest(order[cur[t]].symbol, Opposite(order[cur[t]].side), p) => Accepts(cur[t], p)
    /\ pc[t] = "fill" /\ order[cur[t]].ordType = "LIMIT" =>
         Accepts(cur[t], order[passive[t]].price)

\* Where an open order is: in the book, or with the thread that brings it there or takes
\* it out.
OnItsWay(o) ==
  \E t \in Threads :
    \/ pc[t] \in Entering \union Matching /\ cur[t] = o
    \/ pc[t] \in {"selfTrade", "cancelOwn"} /\ passive[t] = o
    \/ pc[t] \in {"checkCancel", "markCancelled"} /\ cur[t] = o
OpenIsSomewhere ==
  \A o \in Placed : IsActive(o) =>
    /\ order[o].price = None \/ o \in index \/ OnItsWay(o)
    /\ o \in byId \/ \E t \in Threads : pc[t] = "enrol" /\ cur[t] = o

\* A thread whose modifications nobody disturbs never finds an order changed that it has
\* just checked.
NeverFails ==
  \A t \in Threads : Apart(t, {"modify"}) =>
    /\ answer[t] # "internalError" /\ pc[t] # "restore"
    /\ pc[t] \in Modifying => IsActive(cur[t])

\* A thread has orders left to cancel only while it cancels.
NothingLeftToDo == \A t \in Threads : pc[t] \notin Cancelling => todo[t] = {}

LifeInvariant ==
  /\ WithinReach /\ NothingLeftToDo /\ PassiveMatches /\ InHandIsOpen /\ TakenOut /\ NotYetPlaced
  /\ RestingOpen /\ LimitHolds /\ OpenIsSomewhere /\ NeverFails

-----------------------------------------------------------------------------
(* What a step does to states, to the book and to a thread's passive order. *)

\* A step changes the state of no order but the one it registers, fills or cancels.
StateChanges(t, o) ==
  \/ Register(t) /\ o = nextId
  \/ Fill(t) /\ o \in {cur[t], passive[t]}
  \/ CancelOwnPassive(t) /\ o = passive[t]
  \/ ModifyToNothing(t) /\ o = cur[t]
  \/ MarkCancelled(t) /\ o = cur[t]

\* Register, Fill and the cancels are the only writers of an order's state.
LEMMA StateChange ==
  ASSUME TypeOK, NEW t \in Threads, Receive(t) \/ Step(t), NEW o \in OrderIds,
         state'[o] # state[o]
  PROVE  StateChanges(t, o)
<1>1. ~UNCHANGED state
  OBVIOUS
<1>2. CASE Register(t)
  BY <1>2 DEF TypeOK, Register, StateChanges
<1>3. CASE Fill(t)
  BY <1>3 DEF TypeOK, Fill, StateChanges
<1>4. CASE CancelOwnPassive(t)
  BY <1>4 DEF TypeOK, CancelOwnPassive, StateChanges
<1>5. CASE ModifyToNothing(t)
  BY <1>5 DEF TypeOK, ModifyToNothing, StateChanges
<1>6. CASE MarkCancelled(t)
  BY <1>6 DEF TypeOK, MarkCancelled, StateChanges
<1>7. CASE Receive(t)
  BY <1>1, <1>7 DEF Receive, CheckNew, CheckModify, CheckCancel, MassCancel, sharedVars, orderVars
<1>8. CASE \/ Enrol(t) \/ EnterNew(t) \/ DropKey(t) \/ EnterModify(t) \/ ModifyTooLate(t)
           \/ CheckModified(t) \/ PutModified(t) \/ Restore(t)
           \/ Unbook(t) \/ CheckStillOpen(t) \/ Uncache(t) \/ Forget(t)
  BY <1>1, <1>8
     DEF Enrol, EnterNew, DropKey, EnterModify, ModifyTooLate, CheckModified, PutModified,
         Restore, Unbook, CheckStillOpen, Uncache, Forget, sharedVars, orderVars
<1>9. CASE \/ Test(t) \/ Best(t) \/ NothingToPick(t) \/ DropStale(t) \/ PreventSelfTrade(t)
           \/ CheckOwnPassive(t) \/ OwnPassiveGone(t) \/ Pick(t) \/ Settle(t) \/ Clear(t) \/ Rest(t)
  BY <1>1, <1>9
     DEF Test, Best, NothingToPick, DropStale, PreventSelfTrade, CheckOwnPassive,
         OwnPassiveGone, Pick, Settle, Clear, Rest, Throw, Unwind, sharedVars, orderVars
<1> QED BY <1>2, <1>3, <1>4, <1>5, <1>6, <1>7, <1>8, <1>9 DEF Step, Match

\* Where a thread is when it takes a step.
LEMMA AtLabel ==
  ASSUME NEW t \in Threads
  PROVE  /\ Receive(t) => pc[t] = "idle"
         /\ Register(t) => pc[t] = "register"
         /\ Enrol(t) => pc[t] = "enrol"
         /\ EnterNew(t) => pc[t] = "enterNew"
         /\ DropKey(t) => pc[t] = "dropKey"
         /\ EnterModify(t) \/ ModifyToNothing(t) \/ ModifyTooLate(t) => pc[t] = "enterModify"
         /\ CheckModified(t) => pc[t] = "checkModified"
         /\ PutModified(t) => pc[t] = "putModified"
         /\ Restore(t) => pc[t] = "restore"
         /\ Test(t) => pc[t] = "test"
         /\ Best(t) => pc[t] = "best"
         /\ NothingToPick(t) \/ DropStale(t) \/ PreventSelfTrade(t) \/ Pick(t) => pc[t] = "pick"
         /\ CheckOwnPassive(t) => pc[t] = "selfTrade"
         /\ CancelOwnPassive(t) \/ OwnPassiveGone(t) => pc[t] = "cancelOwn"
         /\ Fill(t) => pc[t] = "fill"
         /\ Settle(t) => pc[t] = "settle"
         /\ Clear(t) => pc[t] = "clear"
         /\ Rest(t) => pc[t] = "rest"
         /\ Unbook(t) => pc[t] = "unbook"
         /\ CheckStillOpen(t) => pc[t] = "checkCancel"
         /\ MarkCancelled(t) => pc[t] = "markCancelled"
         /\ Uncache(t) => pc[t] = "uncache"
         /\ Forget(t) => pc[t] = "forget"
<1>1. /\ Receive(t) => pc[t] = "idle"
      /\ Register(t) => pc[t] = "register"
      /\ Enrol(t) => pc[t] = "enrol"
      /\ EnterNew(t) => pc[t] = "enterNew"
  BY DEF Receive, CheckNew, CheckModify, CheckCancel, MassCancel, Serve, Register, Enrol,
         EnterNew, Goto
<1>2. /\ DropKey(t) => pc[t] = "dropKey"
      /\ EnterModify(t) \/ ModifyToNothing(t) \/ ModifyTooLate(t) => pc[t] = "enterModify"
      /\ CheckModified(t) => pc[t] = "checkModified"
      /\ PutModified(t) => pc[t] = "putModified"
      /\ Restore(t) => pc[t] = "restore"
  BY DEF DropKey, EnterModify, ModifyToNothing, ModifyTooLate, CheckModified, PutModified,
         Restore, Goto
<1>3. /\ Test(t) => pc[t] = "test"
      /\ Best(t) => pc[t] = "best"
      /\ NothingToPick(t) \/ DropStale(t) \/ PreventSelfTrade(t) \/ Pick(t) => pc[t] = "pick"
      /\ CheckOwnPassive(t) => pc[t] = "selfTrade"
      /\ CancelOwnPassive(t) \/ OwnPassiveGone(t) => pc[t] = "cancelOwn"
      /\ Fill(t) => pc[t] = "fill"
      /\ Settle(t) => pc[t] = "settle"
      /\ Clear(t) => pc[t] = "clear"
      /\ Rest(t) => pc[t] = "rest"
  BY DEF Test, Best, NothingToPick, DropStale, PreventSelfTrade, Pick, CheckOwnPassive,
         CancelOwnPassive, OwnPassiveGone, Fill, Settle, Clear, Rest, Goto
<1>4. /\ Unbook(t) => pc[t] = "unbook"
      /\ CheckStillOpen(t) => pc[t] = "checkCancel"
      /\ MarkCancelled(t) => pc[t] = "markCancelled"
      /\ Uncache(t) => pc[t] = "uncache"
      /\ Forget(t) => pc[t] = "forget"
  BY DEF Unbook, CheckStillOpen, MarkCancelled, Uncache, Forget, Goto
<1> QED BY <1>1, <1>2, <1>3, <1>4

\* Which steps write what.
LEMMA Writers ==
  ASSUME NEW t \in Threads, Receive(t) \/ Step(t)
  PROVE  /\ nextId' # nextId => Register(t)
         /\ order' # order => Register(t) \/ EnterModify(t)
         /\ leaves' # leaves => Register(t) \/ EnterModify(t) \/ Fill(t)
         /\ <<cum, trades>>' # <<cum, trades>> => Fill(t)
         /\ byId' # byId => Enrol(t) \/ CheckModified(t) \/ Settle(t) \/ Forget(t)
<1>1. CASE Register(t) \/ Enrol(t) \/ EnterModify(t)
  BY <1>1 DEF Register, Enrol, EnterModify, orderVars, cacheVars
<1>2. CASE CheckModified(t) \/ Settle(t) \/ Clear(t) \/ Forget(t) \/ Fill(t)
  BY <1>2 DEF CheckModified, Settle, Clear, Forget, Fill, orderVars, cacheVars, sharedVars
<1>3. CASE Receive(t)
  BY <1>3 DEF Receive, CheckNew, CheckModify, CheckCancel, MassCancel, sharedVars, orderVars, cacheVars
<1>4. CASE \/ EnterNew(t) \/ DropKey(t) \/ ModifyToNothing(t) \/ ModifyTooLate(t) \/ PutModified(t)
           \/ Restore(t) \/ Unbook(t) \/ CheckStillOpen(t) \/ MarkCancelled(t) \/ Uncache(t)
  BY <1>4
     DEF EnterNew, DropKey, ModifyToNothing, ModifyTooLate, PutModified, Restore, Unbook,
         CheckStillOpen, MarkCancelled, Uncache, sharedVars, orderVars, cacheVars
<1>5. CASE \/ Test(t) \/ Best(t) \/ NothingToPick(t) \/ DropStale(t) \/ PreventSelfTrade(t)
           \/ CheckOwnPassive(t) \/ CancelOwnPassive(t) \/ OwnPassiveGone(t) \/ Pick(t) \/ Rest(t)
  BY <1>5
     DEF Test, Best, NothingToPick, DropStale, PreventSelfTrade, CheckOwnPassive,
         CancelOwnPassive, OwnPassiveGone, Pick, Rest, Throw, Unwind, sharedVars, orderVars, cacheVars
<1> QED BY <1>1, <1>2, <1>3, <1>4, <1>5 DEF Step, Match

\* Only its modification changes the terms of an order.
LEMMA TermsKept ==
  ASSUME TypeOK, NEW t \in Threads, Receive(t) \/ Step(t),
         NEW o \in Placed, ~(EnterModify(t) /\ o = cur[t])
  PROVE  order'[o] = order[o]
<1>1. o \in OrderIds
  BY PlacedOrder
<1>2. CASE Register(t)
  BY <1>1, <1>2 DEF TypeOK, Register, Placed, OrderIds
<1>3. CASE EnterModify(t)
  BY <1>1, <1>3 DEF TypeOK, EnterModify
<1> QED BY <1>2, <1>3, Writers

\* What a call works on, wherever it is.
LEMMA WorksOnCur ==
  ASSUME TypeOK, CallsInProgress, NEW t \in Threads, pc[t] \in Holding \union Cancelling
  PROVE  /\ cur[t] \in Placed /\ cur[t] \in OrderIds /\ cur[t] \in Works(t)
         /\ todo[t] \subseteq Works(t)
<1>1. cur[t] \in Placed
  BY DEF CallsInProgress, Holding, Entering, Modifying, Matching, Cancelling
<1> QED BY <1>1, PlacedOrder DEF Works, TypeOK

\* Requests that touch different symbols work on orders of different symbols.
LEMMA WorksApart ==
  ASSUME WithinReach, NEW t \in Threads, NEW u \in Threads, u # t, NEW ops, Apart(t, ops),
         pc[t] \in Holding \union Cancelling, req[t].op \in ops,
         NEW o \in Works(t), NEW p \in Works(u)
  PROVE  order[o].symbol # order[p].symbol
<1>1. req[t] \in Requests[t] /\ req[u] \in Requests[u]
  BY DEF WithinReach, Works
<1>2. order[o].symbol \in Reach(req[t]) /\ order[p].symbol \in Reach(req[u])
  BY DEF WithinReach
<1>3. Reach(req[t]) \intersect Reach(req[u]) = {}
  BY <1>1 DEF Apart
<1> QED BY <1>2, <1>3

\* Cancels apart by their requests are apart in their steps.
LEMMA CancelsStayApart ==
  ASSUME CancelsApart, WithinReach
  PROVE  CancelApart
<1> SUFFICES ASSUME NEW t \in Threads, NEW u \in Threads, u # t, pc[t] \in Cancelling,
                    NEW o \in Works(t), NEW p \in Works(u)
             PROVE  order[o].symbol # order[p].symbol
  BY DEF CancelApart
<1>1. req[t].op \in {"cancel", "massCancel"}
  BY DEF WithinReach
<1> QED BY <1>1, WorksApart DEF CancelsApart

\* The cancel of one thread is of no order that another works on, nor of one of its symbol.
LEMMA NoCancelMeanwhile ==
  ASSUME TypeOK, CallsInProgress, CancelApart, NEW t \in Threads, NEW u \in Threads, u # t,
         pc[t] \in Cancelling, pc[u] \in Holding \union Cancelling
  PROVE  /\ order[cur[t]].symbol # order[cur[u]].symbol
         /\ \A o \in Works(u) : order[o].symbol # order[cur[t]].symbol
BY WorksOnCur DEF CancelApart

\* Under a symbol's monitor the states of its orders are kept by the other threads.
LEMMA StateGuarded ==
  ASSUME TypeOK, CallsInProgress, MonitorDiscipline, CancelApart, PassiveMatches,
         NEW t \in Threads, Receive(t) \/ Step(t), NEW u \in Threads, u # t, pc[u] \in Matching,
         NEW o \in Placed, order[o].symbol = order[cur[u]].symbol
  PROVE  state'[o] = state[o]
<1> SUFFICES ASSUME StateChanges(t, o)
             PROVE  FALSE
  BY StateChange, PlacedOrder
<1>1. monitor[order[o].symbol] = u /\ u \notin {None, t}
  BY PlacedOrder, FlowAssumption DEF MonitorDiscipline
<1>2. pc[t] \in Matching => monitor[order[cur[t]].symbol] = t
  <2>1. pc[t] \in Matching => cur[t] \in Placed
    BY DEF CallsInProgress, Matching
  <2> QED BY <2>1, PlacedOrder DEF MonitorDiscipline
<1>3. CASE Register(t) /\ o = nextId
  BY <1>3 DEF Register, Placed, OrderIds
<1>4. CASE (Fill(t) \/ CancelOwnPassive(t)) /\ o \in {cur[t], passive[t]}
  <2>1. pc[t] \in Matching /\ pc[t] \in WithPassive
    BY <1>4 DEF Fill, CancelOwnPassive, Goto, Matching, WithPassive
  <2>2. order[o].symbol = order[cur[t]].symbol
    BY <1>4, <2>1 DEF PassiveMatches
  <2> QED BY <1>1, <1>2, <2>1, <2>2
<1>5. CASE ModifyToNothing(t) /\ o = cur[t]
  BY <1>1, <1>5 DEF ModifyToNothing
<1>6. CASE MarkCancelled(t) /\ o = cur[t]
  BY <1>6, NoCancelMeanwhile DEF MarkCancelled, Goto, Cancelling, Holding
<1> QED BY <1>3, <1>4, <1>5, <1>6 DEF StateChanges

\* Nobody else changes the state of an order that a thread enters or matches.
LEMMA EnteringGuarded ==
  ASSUME TypeOK, CallsInProgress, Exclusive, CancelApart, PassiveMatches,
         NEW t \in Threads, Receive(t) \/ Step(t),
         NEW u \in Threads, u # t, pc[u] \in Entering \union Matching
  PROVE  state'[cur[u]] = state[cur[u]]
<1>1. cur[u] \in Placed /\ pc[u] \in Holding
  BY DEF CallsInProgress, Entering, Matching, Holding
<1> SUFFICES ASSUME StateChanges(t, cur[u])
             PROVE  FALSE
  BY <1>1, StateChange, PlacedOrder
<1>2. CASE Register(t) /\ cur[u] = nextId
  BY <1>1, <1>2 DEF Register, Placed, OrderIds
<1>3. CASE (Fill(t) \/ CancelOwnPassive(t)) /\ cur[u] = passive[t]
  BY <1>3 DEF Fill, CancelOwnPassive, Goto, PassiveMatches, WithPassive
<1>4. CASE (Fill(t) \/ ModifyToNothing(t)) /\ cur[u] = cur[t]
  <2>1. pc[t] \in Holding
    BY <1>4 DEF Fill, ModifyToNothing, Goto, Holding, Modifying, Matching
  <2> QED BY <1>1, <1>4, <2>1 DEF Exclusive
<1>5. CASE MarkCancelled(t) /\ cur[u] = cur[t]
  BY <1>5, NoCancelMeanwhile DEF MarkCancelled, Goto, Cancelling, Holding
<1> QED BY <1>2, <1>3, <1>4, <1>5 DEF StateChanges

\* A step changes the state of no order of a symbol that its thread does not work on.
LEMMA WorkGuarded ==
  ASSUME TypeOK, CallsInProgress, PassiveMatches, NEW t \in Threads, Receive(t) \/ Step(t),
         NEW o \in Placed, \A p \in Works(t) : order[p].symbol # order[o].symbol
  PROVE  state'[o] = state[o]
<1> SUFFICES ASSUME StateChanges(t, o)
             PROVE  FALSE
  BY StateChange, PlacedOrder
<1>1. CASE Register(t) /\ o = nextId
  BY <1>1 DEF Register, Placed, OrderIds
<1>2. CASE (Fill(t) \/ CancelOwnPassive(t)) /\ o \in {cur[t], passive[t]}
  <2>1. pc[t] \in Holding /\ pc[t] \in WithPassive
    BY <1>2, AtLabel DEF Holding, Matching, WithPassive
  <2>2. order[o].symbol = order[cur[t]].symbol
    BY <1>2, <2>1 DEF PassiveMatches
  <2> QED BY <2>1, <2>2, WorksOnCur
<1>3. CASE (ModifyToNothing(t) \/ MarkCancelled(t)) /\ o = cur[t]
  <2>1. pc[t] \in Holding \union Cancelling
    BY <1>3, AtLabel DEF Holding, Modifying, Cancelling
  <2> QED BY <1>3, <2>1, WorksOnCur
<1> QED BY <1>1, <1>2, <1>3 DEF StateChanges

\* Nobody else changes the state of what a thread is to cancel.
LEMMA CancelGuarded ==
  ASSUME TypeOK, CallsInProgress, CancelApart, PassiveMatches,
         NEW t \in Threads, Receive(t) \/ Step(t), NEW u \in Threads, u # t,
         pc[u] \in Cancelling, NEW o \in Works(u)
  PROVE  state'[o] = state[o]
<1>1. o \in Placed /\ \A p \in Works(t) : order[p].symbol # order[o].symbol
  BY DEF CancelApart, Works
<1> QED BY <1>1, WorkGuarded

\* The change of one order's place in the book, under its symbol's monitor or by a thread
\* that waited for it to be free.
Moves(t, o) ==
  /\ monitor[order[o].symbol] \in {None, t}
  /\ \A p : p # o => (p \in index' <=> p \in index)
  /\ \A l \in Levels : l[1] # order[o].symbol => level'[l] = level[l]

\* OrderBook's two updates move one order, and touch the levels of its symbol only.
LEMMA MoveOne ==
  ASSUME TypeOK, NEW t \in Threads, NEW o \in Placed, RemoveOrder(o) \/ AddOrder(o),
         monitor[order[o].symbol] \in {None, t}
  PROVE  Moves(t, o)
<1>1. \A p : p # o => (p \in index' <=> p \in index)
  BY DEF RemoveOrder, AddOrder, bookVars
<1>2. ASSUME NEW l \in Levels, l[1] # order[o].symbol
      PROVE  level'[l] = level[l]
  <2>1. l # LevelOf(o)
    BY <1>2 DEF LevelOf
  <2> QED BY <2>1 DEF TypeOK, RemoveOrder, AddOrder, bookVars
<1> QED BY <1>1, <1>2 DEF Moves

\* Every step but a cancel's removal moves one order at most, and no monitor of another
\* thread is held for its symbol.
LEMMA BookMoves ==
  ASSUME TypeOK, CallsInProgress, QueuesMatch, MonitorDiscipline, PassiveMatches,
         NEW t \in Threads, Receive(t) \/ Step(t), pc[t] # "unbook"
  PROVE  UNCHANGED bookVars \/ \E o \in Placed : Moves(t, o)
<1>1. pc[t] \in Matching => cur[t] \in Placed /\ monitor[order[cur[t]].symbol] = t
  <2>1. pc[t] \in Matching => cur[t] \in Placed
    BY DEF CallsInProgress, Matching
  <2> QED BY <2>1, PlacedOrder DEF MonitorDiscipline
<1>2. CASE EnterModify(t) \/ ModifyToNothing(t) \/ ModifyTooLate(t)
  <2>1. cur[t] \in Placed /\ monitor[order[cur[t]].symbol] = None /\ RemoveOrder(cur[t])
    BY <1>2 DEF CallsInProgress, EnterModify, ModifyToNothing, ModifyTooLate, Enter, Goto
  <2> QED BY <2>1, MoveOne
<1>3. CASE DropStale(t) \/ PreventSelfTrade(t)
  <2>1. pc[t] \in Matching
    BY <1>3 DEF DropStale, PreventSelfTrade, Goto, Matching
  <2>2. PICK p \in OrderIds : IsHead(cur[t], p) /\ RemoveOrder(p)
    BY <1>3 DEF DropStale, PreventSelfTrade
  <2>3. p \in Placed /\ order[p].symbol = order[cur[t]].symbol
    BY <1>1, <2>1, <2>2, HeadIsQueued
  <2> QED BY <1>1, <2>1, <2>2, <2>3, MoveOne
<1>4. CASE Settle(t) \/ Clear(t)
  <2>1. pc[t] \in Matching /\ passive[t] \in Placed /\ order[passive[t]].symbol = order[cur[t]].symbol
    BY <1>4 DEF CallsInProgress, PassiveMatches, WithPassive, Settle, Clear, Goto, Matching
  <2>2. CASE RemoveOrder(passive[t])
    BY <1>1, <2>1, <2>2, MoveOne
  <2>3. CASE UNCHANGED bookVars
    BY <2>3
  <2> QED BY <1>4, <2>2, <2>3 DEF Settle, Clear
<1>5. CASE Rest(t)
  <2>1. pc[t] \in Matching
    BY <1>5 DEF Rest, Matching
  <2>2. CASE AddOrder(cur[t])
    BY <1>1, <2>1, <2>2, MoveOne
  <2>3. CASE UNCHANGED bookVars
    BY <2>3
  <2> QED BY <1>5, <2>2, <2>3 DEF Rest
<1>6. CASE Receive(t)
  BY <1>6 DEF Receive, CheckNew, CheckModify, CheckCancel, MassCancel, sharedVars
<1>7. CASE \/ Register(t) \/ Enrol(t) \/ EnterNew(t)
           \/ DropKey(t) \/ CheckModified(t) \/ PutModified(t) \/ Restore(t)
           \/ CheckStillOpen(t) \/ MarkCancelled(t) \/ Uncache(t) \/ Forget(t)
  BY <1>7 DEF Register, Enrol, EnterNew, DropKey, CheckModified, PutModified, Restore,
              CheckStillOpen, MarkCancelled, Uncache, Forget, sharedVars
<1>8. CASE \/ Test(t) \/ Best(t) \/ NothingToPick(t) \/ CheckOwnPassive(t)
           \/ CancelOwnPassive(t) \/ OwnPassiveGone(t) \/ Pick(t) \/ Fill(t)
  BY <1>8 DEF Test, Best, NothingToPick, CheckOwnPassive, CancelOwnPassive, OwnPassiveGone,
              Pick, Fill, sharedVars
<1> QED BY <1>2, <1>3, <1>4, <1>5, <1>6, <1>7, <1>8 DEF Step, Match, Unbook, Goto

\* Under its monitor a symbol's book is frozen for all other threads.
Frozen(u) ==
  /\ \A o \in Placed : order[o].symbol = order[cur[u]].symbol =>
       /\ o \in index' <=> o \in index
       /\ order'[o] = order[o] /\ state'[o] = state[o] /\ leaves'[o] = leaves[o]
  /\ \A l \in Levels : l[1] = order[cur[u]].symbol => level'[l] = level[l]

\* The change of the place in the book of one order, of another symbol.
Elsewhere(o, s) ==
  /\ order[o].symbol # s
  /\ \A p : p # o => (p \in index' <=> p \in index)
  /\ \A l \in Levels : l[1] = s => level'[l] = level[l]

\* The removal of an order does not touch the book of another symbol.
LEMMA RemoveOrderElsewhere ==
  ASSUME TypeOK, NEW o \in Placed, NEW s, order[o].symbol # s, RemoveOrder(o)
  PROVE  Elsewhere(o, s)
<1>1. \A p : p # o => (p \in index' <=> p \in index)
  BY DEF RemoveOrder, bookVars
<1>2. ASSUME NEW l \in Levels, l[1] = s
      PROVE  level'[l] = level[l]
  <2>1. l # LevelOf(o)
    BY <1>2 DEF LevelOf
  <2> QED BY <2>1 DEF TypeOK, RemoveOrder, bookVars
<1> QED BY <1>1, <1>2 DEF Elsewhere

\* While a thread matches, nobody else changes its symbol's book or the orders in it.
LEMMA BookFrozen ==
  ASSUME TypeOK, CallsInProgress, QueuesMatch, MonitorDiscipline, FillIsSafe,
         CancelApart, PassiveMatches,
         NEW t \in Threads, Receive(t) \/ Step(t), NEW u \in Threads, u # t, pc[u] \in Matching
  PROVE  Frozen(u)
<1>1. cur[u] \in Placed
  BY DEF CallsInProgress, Matching
<1>2. monitor[order[cur[u]].symbol] = u /\ u \notin {None, t}
  BY <1>1, PlacedOrder, FlowAssumption DEF MonitorDiscipline
<1>3. UNCHANGED bookVars \/ \E o \in Placed : Elsewhere(o, order[cur[u]].symbol)
  <2>1. CASE pc[t] = "unbook"
    <3>1. Unbook(t)
      BY <2>1, AtLabel DEF Step, Match
    <3>2. cur[t] \in Placed /\ order[cur[t]].symbol # order[cur[u]].symbol
      BY <2>1, WorksOnCur, NoCancelMeanwhile DEF Cancelling, Holding
    <3>3. Elsewhere(cur[t], order[cur[u]].symbol)
      BY <3>1, <3>2, RemoveOrderElsewhere DEF Unbook
    <3> QED BY <3>2, <3>3
  <2>2. CASE pc[t] # "unbook"
    <3>1. ASSUME NEW o \in Placed, Moves(t, o)
          PROVE  Elsewhere(o, order[cur[u]].symbol)
      BY <1>2, <3>1 DEF Moves, Elsewhere
    <3> QED BY <2>2, <3>1, BookMoves
  <2> QED BY <2>1, <2>2
<1>4. ASSUME NEW o \in Placed, order[o].symbol = order[cur[u]].symbol
      PROVE  order'[o] = order[o] /\ state'[o] = state[o] /\ leaves'[o] = leaves[o]
  BY <1>4, BookGuarded, StateGuarded, LeavesGuarded
<1>5. ASSUME NEW o \in Placed, order[o].symbol = order[cur[u]].symbol
      PROVE  o \in index' <=> o \in index
  BY <1>3, <1>5 DEF Elsewhere, bookVars
<1>6. ASSUME NEW l \in Levels, l[1] = order[cur[u]].symbol
      PROVE  level'[l] = level[l]
  BY <1>3, <1>6 DEF Elsewhere, bookVars
<1> QED BY <1>4, <1>5, <1>6 DEF Frozen

\* How a thread comes to hold a passive order: it picks the head of the best level on the
\* other side, or it goes on with the one it holds.
KeepsPassive(t) ==
  /\ pc[t] \in WithPassive /\ passive'[t] = passive[t] /\ cur'[t] = cur[t]
  /\ pc'[t] = "cancelOwn" => CheckOwnPassive(t) /\ Cancellable(passive[t])
  /\ pc'[t] = "settle" => Fill(t)
  /\ pc'[t] = "clear" => Settle(t)
  /\ pc'[t] \in {"cancelOwn", "settle", "clear"}
PicksHead(t) ==
  /\ pc[t] = "pick" /\ cur'[t] = cur[t] /\ passive'[t] \in Placed
  /\ IsHead(cur[t], passive'[t]) /\ IsActive(passive'[t])
  /\ UNCHANGED <<order, state, leaves>>
  /\ \/ pc'[t] = "fill" /\ UNCHANGED bookVars
     \/ pc'[t] = "selfTrade" /\ RemoveOrder(passive'[t])

\* A passive order is the one a thread had before, or the head of the best level.
LEMMA PassiveChange ==
  ASSUME TypeOK, CallsInProgress, QueuesMatch, NEW t \in Threads, Receive(t) \/ Step(t),
         pc'[t] \in WithPassive
  PROVE  KeepsPassive(t) \/ PicksHead(t)
<1> USE DEF TypeOK
<1>1. CASE PreventSelfTrade(t) \/ Pick(t)
  <2>1. cur[t] \in Placed /\ pc[t] = "pick"
    BY <1>1 DEF CallsInProgress, PreventSelfTrade, Pick, Goto
  <2>2. PICK p \in OrderIds : /\ IsHead(cur[t], p) /\ IsActive(p)
                              /\ passive' = [passive EXCEPT ![t] = p]
                              /\ PreventSelfTrade(t) => RemoveOrder(p)
    BY <1>1 DEF PreventSelfTrade, Pick, Goto
  <2>3. p \in Placed /\ passive'[t] = p
    BY <2>1, <2>2, HeadIsQueued
  <2>4. cur'[t] = cur[t] /\ UNCHANGED <<order, state, leaves>>
    BY <1>1 DEF PreventSelfTrade, Pick, sharedVars, orderVars, callVars
  <2>5. \/ pc'[t] = "fill" /\ UNCHANGED bookVars
        \/ pc'[t] = "selfTrade" /\ RemoveOrder(p)
    BY <1>1, <2>2 DEF PreventSelfTrade, Pick, Goto, sharedVars
  <2>6. IsHead(cur[t], passive'[t]) /\ IsActive(passive'[t])
    BY <2>2, <2>3
  <2> QED BY <2>1, <2>3, <2>4, <2>5, <2>6 DEF PicksHead
<1>2. CASE CheckOwnPassive(t)
  <2>1. Cancellable(passive[t]) /\ pc'[t] = "cancelOwn"
    BY <1>2 DEF CheckOwnPassive, WithPassive
  <2> QED BY <1>2, <2>1 DEF CheckOwnPassive, KeepsPassive, WithPassive, callVars
<1>3. CASE Fill(t) \/ Settle(t)
  BY <1>3 DEF Fill, Settle, Goto, KeepsPassive, WithPassive, callVars
<1>4. CASE Receive(t)
  BY <1>4 DEF Receive, CheckNew, CheckModify, CheckCancel, MassCancel, Return, WithPassive
<1>5. CASE \/ Register(t) \/ Enrol(t) \/ EnterNew(t)
           \/ DropKey(t) \/ EnterModify(t) \/ ModifyToNothing(t) \/ ModifyTooLate(t)
           \/ CheckModified(t) \/ PutModified(t) \/ Restore(t)
           \/ Test(t) \/ Best(t) \/ NothingToPick(t) \/ DropStale(t)
           \/ CancelOwnPassive(t) \/ OwnPassiveGone(t) \/ Clear(t) \/ Rest(t)
           \/ Unbook(t) \/ CheckStillOpen(t) \/ MarkCancelled(t) \/ Uncache(t) \/ Forget(t)
  BY <1>5 DEF Register, Enrol, EnterNew, DropKey, EnterModify, ModifyToNothing, ModifyTooLate,
     CheckModified, PutModified, Restore, Test, Best, NothingToPick, DropStale,
     CancelOwnPassive, OwnPassiveGone, Clear, Rest, Throw, Unwind, Unbook, CheckStillOpen,
     MarkCancelled, Uncache, Forget, Proceed, Goto, Return, WithPassive
<1> QED BY <1>1, <1>2, <1>3, <1>4, <1>5 DEF Step, Match

\* The head of the best level rests, at that level's price.
LEMMA HeadRests ==
  ASSUME TypeOK, BookWellFormed, NEW a \in Placed, NEW p, IsHead(a, p)
  PROVE  /\ p \in index
         /\ order[p].price \in Prices
         /\ order[p].side = Opposite(order[a].side)
         /\ IsBest(order[a].symbol, Opposite(order[a].side), order[p].price)
<1>1. PICK price \in Prices :
        /\ IsBest(order[a].symbol, Opposite(order[a].side), price)
        /\ p = Head(level[<<order[a].symbol, Opposite(order[a].side), price>>])
  BY DEF IsHead
<1> DEFINE l == <<order[a].symbol, Opposite(order[a].side), price>>
<1>2. l \in Levels
  BY PlacedOrder DEF Levels, Opposite, Sides
<1>3. level[l] # << >>
  BY <1>1 DEF IsBest, Occupied
<1>4. p = Head(level[l])
  BY <1>1
<1> HIDE DEF l
<1>5. 1 \in DOMAIN level[l] /\ p = level[l][1]
  <2>1. level[l] \in Seq(Placed)
    BY <1>2 DEF TypeOK
  <2> QED BY <1>3, <1>4, <2>1
<1>6. p \in index /\ LevelOf(p) = l
  BY <1>2, <1>5 DEF BookWellFormed
<1>7. order[p].price = price /\ order[p].side = Opposite(order[a].side)
  BY <1>6 DEF LevelOf, l
<1> QED BY <1>1, <1>6, <1>7

-----------------------------------------------------------------------------
(* The parts of the invariant, one by one. *)

\* A step changes what is left to cancel of no other thread.
LEMMA TodoChange ==
  ASSUME TypeOK, NEW t \in Threads, Receive(t) \/ Step(t)
  PROVE  UNCHANGED todo \/ \E x : todo' = [todo EXCEPT ![t] = x]
<1>1. ASSUME NEW a, Return(t, a)
      PROVE  \E x : todo' = [todo EXCEPT ![t] = x]
  BY <1>1 DEF Return
<1>2. CASE Throw(t)
  BY <1>1, <1>2 DEF Throw, Unwind, callVars
<1>3. CASE Receive(t)
  BY <1>1, <1>3 DEF Receive, CheckNew, CheckModify, CheckCancel, MassCancel
<1>4. ASSUME NEW a, Proceed(t, a)
      PROVE  \E x : todo' = [todo EXCEPT ![t] = x]
  <2>1. CASE todo[t] = {}
    BY <1>1, <1>4, <2>1 DEF Proceed
  <2>2. CASE todo[t] # {}
    BY <1>4, <2>2 DEF Proceed
  <2> QED BY <2>1, <2>2
<1>5. CASE \/ Best(t) \/ OwnPassiveGone(t) \/ Rest(t) \/ CheckModified(t) \/ PutModified(t)
           \/ Restore(t) \/ CheckStillOpen(t) \/ Forget(t)
  BY <1>1, <1>2, <1>4, <1>5
     DEF Best, OwnPassiveGone, Rest, CheckModified, PutModified, Restore, CheckStillOpen,
         Forget, callVars
<1>6. CASE \/ Register(t) \/ Enrol(t) \/ EnterNew(t) \/ DropKey(t) \/ EnterModify(t)
           \/ ModifyToNothing(t) \/ ModifyTooLate(t) \/ Test(t) \/ NothingToPick(t)
           \/ DropStale(t) \/ PreventSelfTrade(t) \/ CheckOwnPassive(t)
           \/ CancelOwnPassive(t) \/ Pick(t) \/ Fill(t) \/ Settle(t) \/ Clear(t)
           \/ Unbook(t) \/ MarkCancelled(t) \/ Uncache(t)
  BY <1>6
     DEF Register, Enrol, EnterNew, DropKey, EnterModify, ModifyToNothing, ModifyTooLate, Test,
         NothingToPick, DropStale, PreventSelfTrade, CheckOwnPassive, CancelOwnPassive, Pick,
         Fill, Settle, Clear, Unbook, MarkCancelled, Uncache, callVars
<1> QED BY <1>3, <1>5, <1>6 DEF Step, Match

\* A step changes what is left to cancel of its own thread only.
LEMMA OtherTodoKept ==
  ASSUME TypeOK, NEW t \in Threads, Receive(t) \/ Step(t), NEW u \in Threads, u # t
  PROVE  todo'[u] = todo[u]
BY TodoChange DEF TypeOK

\* A thread has orders left to cancel only while it cancels.
LEMMA NothingLeftToDoStep ==
  ASSUME TypeOK, NothingLeftToDo, NEW t \in Threads, Receive(t) \/ Step(t)
  PROVE  NothingLeftToDo'
<1> USE DEF TypeOK
<1>1. ASSUME NEW u \in Threads, u # t
      PROVE  pc'[u] = pc[u] /\ todo'[u] = todo[u]
  BY <1>1, OtherThreadsKept, OtherTodoKept
<1>2. pc'[t] \in Cancelling \/ todo'[t] = {}
  <2>1. CASE pc[t] \in Cancelling
    <3>1. CASE Unbook(t) \/ MarkCancelled(t) \/ Uncache(t)
      BY <3>1 DEF Unbook, MarkCancelled, Uncache, Goto, Cancelling
    <3>2. CASE CheckStillOpen(t) \/ Forget(t)
      <4>1. CASE \E a \in Answers : Proceed(t, a)
        BY <4>1 DEF Proceed, Return, Cancelling
      <4> QED BY <3>2, <4>1 DEF CheckStillOpen, Forget, Goto, Cancelling, Answers
    <3> QED BY <2>1, <3>1, <3>2, AtLabel DEF Step, Match, Cancelling
  <2>2. CASE pc[t] \notin Cancelling
    <3>1. todo[t] = {}
      BY <2>2 DEF NothingLeftToDo
    <3>2. CASE UNCHANGED todo \/ todo' = [todo EXCEPT ![t] = {}]
      BY <3>1, <3>2
    <3>3. CASE \E r \in Requests[t] : MassCancel(t, r)
      BY <3>3 DEF MassCancel, Return, Cancelling
    <3>4. CASE \E r \in Requests[t] : CheckCancel(t, r) \/ CheckNew(t, r) \/ CheckModify(t, r)
      BY <3>2, <3>4 DEF CheckCancel, CheckNew, CheckModify, Return
    <3>5. CASE Match(t)
      BY <3>2, <3>5
         DEF Match, Test, Best, NothingToPick, DropStale, PreventSelfTrade, CheckOwnPassive,
             CancelOwnPassive, OwnPassiveGone, Pick, Fill, Settle, Clear, Rest, Throw, Unwind, Return, callVars
    <3>6. CASE Step(t) /\ ~Match(t)
      BY <2>2, <3>2, <3>6
         DEF Step, Register, Enrol, EnterNew, DropKey, EnterModify, ModifyToNothing,
             ModifyTooLate, CheckModified, PutModified, Restore, Unbook, CheckStillOpen,
             MarkCancelled, Uncache, Forget, Return, Goto, callVars, Cancelling
    <3> QED BY <3>3, <3>4, <3>5, <3>6 DEF Receive
  <2> QED BY <2>1, <2>2
<1> QED BY <1>1, <1>2 DEF NothingLeftToDo

\* What a cancel works on: orders of its request's user, and symbols, or some of those it
\* has worked on before.
Selects(t) ==
  \E r \in Requests[t] :
    /\ r.op \in {"cancel", "massCancel"} /\ req'[t] = r
    /\ \A o \in {cur'[t]} \union todo'[t] :
         /\ o \in Placed /\ order[o].user = r.user
         /\ r.op = "massCancel" => order[o].symbol \in r.symbols
WorksOff(t) ==
  /\ pc[t] \in Cancelling /\ req'[t] = req[t]
  /\ {cur'[t]} \union todo'[t] \subseteq {cur[t]} \union todo[t]

\* A cancel selects its orders when it begins, and works them off.
LEMMA CancelSelects ==
  ASSUME TypeOK, NEW t \in Threads, todo[t] # {} => pc[t] \in Cancelling,
         Receive(t) \/ Step(t), pc'[t] \in Cancelling
  PROVE  Selects(t) \/ WorksOff(t)
<1> USE DEF TypeOK
<1>1. CASE Receive(t)
  <2>1. PICK r \in Requests[t] :
          CheckNew(t, r) \/ CheckModify(t, r) \/ CheckCancel(t, r) \/ MassCancel(t, r)
    BY <1>1 DEF Receive
  <2>2. todo[t] = {}
    BY <1>1, AtLabel DEF Cancelling
  <2>3. ~CheckNew(t, r) /\ ~CheckModify(t, r)
    BY DEF CheckNew, CheckModify, Return, Cancelling
  <2>4. CASE CheckCancel(t, r)
    <3>1. r \in CancelRequest /\ r.op = "cancel"
      <4>1. r \in Request /\ r.op = "cancel"
        BY <2>4, FlowAssumption DEF CheckCancel
      <4> QED BY <4>1 DEF Request, NewRequest, ModifyRequest, CancelRequest, MassCancelRequest
    <3>2. byClOrd[r.orig] \in Placed \union {None}
      BY <3>1 DEF CancelRequest
    <3>3. cur'[t] \in Placed /\ order[cur'[t]].user = r.user /\ todo'[t] = {} /\ req'[t] = r
      BY <2>2, <2>4, <3>2 DEF CheckCancel, Return, Cancelling
    <3> QED BY <3>1, <3>3 DEF Selects
  <2>5. CASE MassCancel(t, r)
    <3>1. PICK o \in Selected(r) : /\ cur' = [cur EXCEPT ![t] = o]
                                   /\ todo' = [todo EXCEPT ![t] = Selected(r) \ {o}]
                                   /\ req' = [req EXCEPT ![t] = r]
      BY <2>5 DEF MassCancel, Return, Cancelling
    <3>2. \A p \in {cur'[t]} \union todo'[t] : p \in Selected(r)
      BY <3>1
    <3>3. r.op = "massCancel" /\ req'[t] = r
      BY <2>5, <3>1 DEF MassCancel
    <3> QED BY <3>2, <3>3 DEF Selects, Selected
  <2> QED BY <2>1, <2>3, <2>4, <2>5
<1>2. ASSUME NEW a, Proceed(t, a), pc[t] \in Cancelling
      PROVE  WorksOff(t)
  <2>1. todo[t] # {}
    BY <1>2 DEF Proceed, Return, Cancelling
  <2> QED BY <1>2, <2>1 DEF Proceed, WorksOff
<1>3. CASE Unbook(t) \/ MarkCancelled(t) \/ Uncache(t)
  BY <1>3 DEF Unbook, MarkCancelled, Uncache, Goto, callVars, WorksOff, Cancelling
<1>4. CASE CheckStillOpen(t)
  <2>1. CASE Proceed(t, "internalError")
    BY <1>2, <1>4, <2>1, AtLabel DEF Cancelling
  <2>2. CASE Goto(t, "checkCancel", "markCancelled") /\ UNCHANGED <<sharedVars, passive, callVars>>
    BY <2>2 DEF Goto, callVars, WorksOff, Cancelling
  <2> QED BY <1>4, <2>1, <2>2 DEF CheckStillOpen
<1>5. CASE Forget(t)
  BY <1>2, <1>5 DEF Forget, Cancelling
<1>6. CASE \/ Register(t) \/ Enrol(t) \/ EnterNew(t)
           \/ DropKey(t) \/ EnterModify(t) \/ ModifyToNothing(t) \/ ModifyTooLate(t)
           \/ CheckModified(t) \/ PutModified(t) \/ Restore(t)
  BY <1>6 DEF Register, Enrol, EnterNew, DropKey, EnterModify, ModifyToNothing, ModifyTooLate,
     CheckModified, PutModified, Restore, Goto, Return, Cancelling
<1>7. CASE Match(t)
  BY <1>7
     DEF Match, Test, Best, NothingToPick, DropStale, PreventSelfTrade, CheckOwnPassive,
         CancelOwnPassive, OwnPassiveGone, Pick, Fill, Settle, Clear, Rest, Throw, Unwind, Return, Goto, Cancelling
<1> QED BY <1>1, <1>3, <1>4, <1>5, <1>6, <1>7 DEF Step

\* An order is of a symbol its user trades, for ever.
LEMMA TradedStep ==
  ASSUME TypeOK, CallsInProgress, OwnRequests, WithinReach,
         NEW t \in Threads, Receive(t) \/ Step(t)
  PROVE  /\ Register(t) => order'[nextId].symbol \in Reach(req[t])
         /\ \A o \in Placed' : order'[o].symbol \in TradedBy(order'[o].user)
<1>1. ASSUME Register(t)
      PROVE  /\ order'[nextId].symbol \in Reach(req[t])
             /\ order'[nextId].symbol \in TradedBy(order'[nextId].user)
             /\ nextId' = nextId + 1
  <2>1. req[t] \in Requests[t] /\ req[t].op = "new" /\ req[t] \in NewRequest
    BY <1>1, AtLabel DEF OwnRequests, CallsInProgress
  <2>2. order'[nextId].symbol = req[t].symbol /\ order'[nextId].user = req[t].user
    BY <1>1 DEF TypeOK, Register
  <2>3. req[t].symbol \in TradedBy(req[t].user)
    BY <2>1 DEF TradedBy, NewRequest
  <2> QED BY <1>1, <2>1, <2>2, <2>3 DEF Reach, Register
<1>2. ASSUME NEW o \in Placed'
      PROVE  order'[o].symbol \in TradedBy(order'[o].user)
  <2>1. CASE o \in Placed
    BY <2>1, OrdersKept DEF WithinReach
  <2>2. CASE o \notin Placed
    <3>1. Register(t)
      BY <1>2, <2>2, Writers DEF Placed
    <3>2. o = nextId
      BY <1>1, <1>2, <2>2, <3>1 DEF TypeOK, Placed
    <3> QED BY <1>1, <3>1, <3>2
  <2> QED BY <2>1, <2>2
<1> QED BY <1>1, <1>2

\* A request touches every symbol its user trades, or those it names.
LEMMA ReachOfUser ==
  ASSUME WithinReach, NEW r, r.op \in {"modify", "cancel", "massCancel"},
         NEW o \in Placed, order[o].user = r.user,
         r.op = "massCancel" => order[o].symbol \in r.symbols
  PROVE  order[o].symbol \in Reach(r)
BY DEF WithinReach, Reach

\* Calls go on working on orders of symbols that their requests may touch.
LEMMA WithinReachStep ==
  ASSUME TypeOK, CallsInProgress, OwnRequests, WithinReach, NothingLeftToDo,
         NEW t \in Threads, Receive(t) \/ Step(t)
  PROVE  WithinReach'
<1>1. \A o \in Placed' : order'[o].symbol \in TradedBy(order'[o].user)
  BY TradedStep
<1>2. \A o \in Placed : o \in Placed' /\ order'[o].symbol = order[o].symbol
  BY OrdersKept
<1> DEFINE Fine(u) ==
      /\ pc'[u] \in Holding \union Cancelling => req'[u] \in Requests[u]
      /\ pc'[u] \in Cancelling => req'[u].op \in {"cancel", "massCancel"}
      /\ \A o \in Works(u)' : order'[o].symbol \in Reach(req'[u])
<1>3. ASSUME NEW u \in Threads, u # t
      PROVE  Fine(u)
  <2>1. pc'[u] = pc[u] /\ req'[u] = req[u] /\ cur'[u] = cur[u] /\ todo'[u] = todo[u]
    BY <1>3, OtherThreadsKept, OtherTodoKept
  <2>2. ASSUME pc[u] \in Holding \union Cancelling
        PROVE  cur[u] \in Placed /\ todo[u] \subseteq Placed
    BY <2>2, WorksOnCur DEF TypeOK
  <2>3. Works(u)' \subseteq Works(u)
    BY <2>1, <2>2 DEF Works
  <2>4. ASSUME NEW o \in Works(u)'
        PROVE  order'[o].symbol \in Reach(req'[u])
    BY <1>2, <2>1, <2>3, <2>4 DEF WithinReach, Works
  <2> QED BY <2>1, <2>4 DEF WithinReach
<1>4. ASSUME pc'[t] \in Holding
      PROVE  Fine(t)
  <2>1. pc'[t] \notin Cancelling /\ Works(t)' \subseteq {cur'[t]}
    <3>1. pc'[t] \notin Cancelling
      BY <1>4 DEF Holding, Entering, Modifying, Matching, Cancelling
    <3> QED BY <3>1, NothingLeftToDoStep DEF NothingLeftToDo, Works
  <2>2. req'[t] \in Requests[t] /\ order'[cur'[t]].symbol \in Reach(req'[t])
    <3>1. CASE HoldsOn(t)
      <4>1. cur[t] \in Works(t) /\ cur[t] \in Placed
        BY <3>1, WorksOnCur DEF HoldsOn
      <4> QED BY <1>2, <3>1, <4>1 DEF HoldsOn, WithinReach
    <3>2. CASE Registers(t)
      BY <3>2, TradedStep DEF Registers, OwnRequests
    <3>3. CASE FindsToModify(t)
      <4>1. PICK r \in Requests[t] : /\ r.op = "modify" /\ req'[t] = r
                                     /\ cur'[t] \in Placed /\ order[cur'[t]].user = r.user
        BY <3>3 DEF FindsToModify
      <4> QED BY <1>2, <4>1, ReachOfUser
    <3> QED BY <1>4, <3>1, <3>2, <3>3, HoldingChange
  <2>3. ASSUME NEW o \in Works(t)'
        PROVE  order'[o].symbol \in Reach(req'[t])
    <3>1. o = cur'[t]
      BY <2>1, <2>3
    <3> QED BY <2>2, <3>1
  <2> QED BY <2>1, <2>2, <2>3, Zenon
<1>5. ASSUME pc'[t] \in Cancelling
      PROVE  Fine(t)
  <2>1. Works(t)' \subseteq {cur'[t]} \union todo'[t]
    BY DEF Works
  <2>2. CASE Selects(t)
    <3>1. PICK r \in Requests[t] :
            /\ r.op \in {"cancel", "massCancel"} /\ req'[t] = r
            /\ \A o \in {cur'[t]} \union todo'[t] :
                 /\ o \in Placed /\ order[o].user = r.user
                 /\ r.op = "massCancel" => order[o].symbol \in r.symbols
      BY <2>2 DEF Selects
    <3>2. ASSUME NEW o \in {cur'[t]} \union todo'[t]
          PROVE  order'[o].symbol \in Reach(r)
      <4>1. o \in Placed /\ order[o].user = r.user
            /\ (r.op = "massCancel" => order[o].symbol \in r.symbols)
        BY <3>1, <3>2, Zenon
      <4>2. order[o].symbol \in Reach(r)
        BY <3>1, <4>1, ReachOfUser
      <4> QED BY <1>2, <4>1, <4>2
    <3>3. req'[t] \in Requests[t] /\ req'[t].op \in {"cancel", "massCancel"}
      BY <3>1, Zenon
    <3>4. ASSUME NEW o \in Works(t)'
          PROVE  order'[o].symbol \in Reach(req'[t])
      <4>1. order'[o].symbol \in Reach(r)
        BY <2>1, <3>2, <3>4, Zenon
      <4> QED BY <3>1, <4>1, Zenon
    <3> QED BY <3>3, <3>4, Zenon
  <2>3. CASE WorksOff(t)
    <3>1. \A o \in {cur[t]} \union todo[t] : o \in Placed /\ o \in Works(t)
      <4>1. pc[t] \in Holding \union Cancelling
        BY <2>3 DEF WorksOff
      <4> QED BY <4>1, WorksOnCur DEF TypeOK
    <3>2. req[t] \in Requests[t] /\ req[t].op \in {"cancel", "massCancel"} /\ req'[t] = req[t]
      BY <2>3, Zenon DEF WorksOff, WithinReach
    <3>3. ASSUME NEW o \in Works(t)'
          PROVE  order'[o].symbol \in Reach(req'[t])
      <4>1. o \in {cur[t]} \union todo[t]
        BY <2>1, <2>3, <3>3, Zenon DEF WorksOff
      <4>2. o \in Placed /\ o \in Works(t)
        BY <3>1, <4>1, Zenon
      <4>3. order[o].symbol \in Reach(req[t])
        BY <4>2, Zenon DEF WithinReach
      <4>4. order'[o].symbol = order[o].symbol
        BY <1>2, <4>2, Zenon
      <4> QED BY <3>2, <4>3, <4>4
    <3> QED BY <3>2, <3>3, Zenon
  <2> QED BY <1>5, <2>2, <2>3, CancelSelects DEF NothingLeftToDo
<1>6. ASSUME pc'[t] \notin Holding \union Cancelling
      PROVE  Fine(t)
  BY <1>6 DEF Works
<1>7. Fine(t)
  BY <1>4, <1>5, <1>6
<1>8. \A u \in Threads : Fine(u)
  BY <1>3, <1>7
<1> QED BY <1>1, <1>8 DEF WithinReach

\* A passive order goes on being one of its book's that nobody enters or matches.
LEMMA PassiveMatchesStep ==
  ASSUME TypeOK, CallsInProgress, QueuesMatch, MonitorDiscipline, NotInBook, BookWellFormed,
         PassiveMatches, NEW t \in Threads, Receive(t) \/ Step(t)
  PROVE  PassiveMatches'
<1>1. ASSUME NEW u \in Threads, pc[u] \in WithPassive
      PROVE  /\ pc[u] \in Matching /\ cur[u] \in Placed /\ passive[u] \in Placed
             /\ order[passive[u]].symbol = order[cur[u]].symbol
             /\ order'[cur[u]].symbol = order[cur[u]].symbol
             /\ order'[passive[u]].symbol = order[passive[u]].symbol
  <2>1. pc[u] \in Matching /\ cur[u] \in Placed /\ passive[u] \in Placed
    BY <1>1 DEF CallsInProgress, WithPassive, Matching
  <2> QED BY <1>1, <2>1, OrdersKept DEF PassiveMatches
<1>2. ASSUME NEW u \in Threads, u # t
      PROVE  pc'[u] = pc[u] /\ cur'[u] = cur[u] /\ passive'[u] = passive[u]
  BY <1>2, OtherThreadsKept
<1>3. ASSUME PicksHead(t)
      PROVE  /\ pc[t] \in Matching /\ cur'[t] = cur[t] /\ cur[t] \in Placed
             /\ passive'[t] \in index
             /\ order'[passive'[t]].symbol = order'[cur'[t]].symbol
  <2>1. pc[t] \in Matching /\ cur[t] \in Placed /\ IsHead(cur[t], passive'[t])
    BY <1>3 DEF CallsInProgress, PicksHead, Matching
  <2>2. passive'[t] \in index /\ order[passive'[t]].symbol = order[cur[t]].symbol
    BY <2>1, HeadRests, HeadIsQueued
  <2> QED BY <1>3, <2>1, <2>2 DEF PicksHead
<1>4. ASSUME NEW u \in Threads, pc'[u] \in WithPassive
      PROVE  order'[passive'[u]].symbol = order'[cur'[u]].symbol
  <2>1. CASE u # t
    BY <1>1, <1>2, <1>4, <2>1
  <2>2. CASE u = t /\ KeepsPassive(t)
    BY <1>1, <2>2 DEF KeepsPassive
  <2>3. CASE u = t /\ PicksHead(t)
    BY <1>3, <2>3
  <2> QED BY <1>4, <2>1, <2>2, <2>3, PassiveChange
<1>5. ASSUME NEW u \in Threads, pc'[u] \in WithPassive,
             NEW v \in Threads, pc'[v] \in Entering \union Matching
      PROVE  passive'[u] # cur'[v]
  <2>1. CASE u = t /\ PicksHead(t)
    <3>1. pc[v] \in Entering \union Matching /\ cur'[v] = cur[v]
      BY <1>2, <1>3, <1>5, <2>1
    <3> QED BY <1>3, <2>1, <3>1 DEF NotInBook
  <2>2. CASE pc[u] \in WithPassive /\ passive'[u] = passive[u]
    <3>1. CASE v # t
      BY <1>2, <1>5, <2>2, <3>1 DEF PassiveMatches
    <3>2. CASE v = t /\ pc[t] \in Entering \union Matching /\ cur'[t] = cur[t]
      BY <1>5, <2>2, <3>2 DEF PassiveMatches
    <3>3. CASE v = t /\ Registers(t)
      BY <1>1, <2>2, <3>3 DEF Registers
    <3>4. CASE v = t /\ pc[t] \in Modifying
      <4>1. EnterModify(t)
        BY <1>5, <3>4, EntersBook
      <4>2. cur'[t] = cur[t] /\ monitor[order[cur[t]].symbol] = None
        BY <4>1 DEF EnterModify, Enter, callVars
      <4>3. monitor[order[cur[u]].symbol] = u /\ u # None
        BY <1>1, <2>2, PlacedOrder, FlowAssumption DEF MonitorDiscipline
      <4> QED BY <1>1, <2>2, <3>4, <4>2, <4>3
    <3>5. v = t => ~FindsToModify(t)
      BY <1>5 DEF FindsToModify, Entering, Matching
    <3> QED BY <1>5, <3>1, <3>2, <3>3, <3>4, <3>5, HoldingChange DEF HoldsOn, Holding
  <2>3. u = t => PicksHead(t) \/ KeepsPassive(t)
    BY <1>5, PassiveChange
  <2> QED BY <1>2, <1>5, <2>1, <2>2, <2>3 DEF KeepsPassive
<1> QED BY <1>4, <1>5 DEF PassiveMatches

\* How a thread comes to cancel an order: it finds it open, takes it from those that are
\* left, or goes on with the one it has.
FindsToCancel(t) ==
  /\ pc'[t] = "unbook" /\ UNCHANGED <<state, index>>
  /\ \/ pc[t] = "idle" /\ IsActive(cur'[t])
        /\ \A o \in todo'[t] : IsActive(o) /\ o # cur'[t]
     \/ pc[t] \in Cancelling /\ cur'[t] \in todo[t] /\ todo'[t] = todo[t] \ {cur'[t]}
GoesOnCancelling(t) ==
  /\ pc[t] \in Cancelling /\ cur'[t] = cur[t] /\ todo'[t] = todo[t]
  /\ \/ Unbook(t) /\ pc'[t] = "checkCancel"
     \/ CheckStillOpen(t) /\ pc'[t] = "markCancelled" /\ IsActive(cur[t]) /\ UNCHANGED <<state, index>>
     \/ MarkCancelled(t) /\ pc'[t] = "uncache"
     \/ Uncache(t) /\ pc'[t] = "forget"

\* A cancel works on orders it has found open, and goes on from step to step.
LEMMA CancelChange ==
  ASSUME TypeOK, NothingLeftToDo, NEW t \in Threads, Receive(t) \/ Step(t), pc'[t] \in Cancelling
  PROVE  FindsToCancel(t) \/ GoesOnCancelling(t)
<1> USE DEF TypeOK
<1>1. CASE Receive(t)
  <2>1. PICK r \in Requests[t] :
          CheckNew(t, r) \/ CheckModify(t, r) \/ CheckCancel(t, r) \/ MassCancel(t, r)
    BY <1>1 DEF Receive
  <2>2. pc[t] = "idle" /\ todo[t] = {}
    BY <1>1, AtLabel DEF NothingLeftToDo, Cancelling
  <2>3. ~CheckNew(t, r) /\ ~CheckModify(t, r)
    BY DEF CheckNew, CheckModify, Return, Cancelling
  <2>4. CASE CheckCancel(t, r)
    <3>1. pc'[t] = "unbook" /\ IsActive(cur'[t]) /\ todo'[t] = {} /\ UNCHANGED <<state, index>>
      BY <2>2, <2>4
         DEF CheckCancel, Return, Cancelling, Cancellable, IsActive, sharedVars, orderVars, bookVars
    <3> QED BY <2>2, <3>1 DEF FindsToCancel
  <2>5. CASE MassCancel(t, r)
    <3>1. PICK o \in Selected(r) : pc' = [pc EXCEPT ![t] = "unbook"]
                                   /\ cur' = [cur EXCEPT ![t] = o]
                                   /\ todo' = [todo EXCEPT ![t] = Selected(r) \ {o}]
      BY <2>5 DEF MassCancel, Return, Cancelling
    <3>2. UNCHANGED <<state, index>>
      BY <2>5 DEF MassCancel, sharedVars, orderVars, bookVars
    <3>3. \A p \in Selected(r) : IsActive(p)
      BY DEF Selected, Cancellable, IsActive
    <3> QED BY <2>2, <3>1, <3>2, <3>3 DEF FindsToCancel
  <2> QED BY <2>1, <2>3, <2>4, <2>5
<1>2. ASSUME NEW a, Proceed(t, a), pc[t] \in Cancelling, UNCHANGED <<state, index>>
      PROVE  FindsToCancel(t)
  <2>1. todo[t] # {}
    BY <1>2 DEF Proceed, Return, Cancelling
  <2> QED BY <1>2, <2>1 DEF Proceed, FindsToCancel
<1>3. CASE Unbook(t) \/ MarkCancelled(t) \/ Uncache(t)
  BY <1>3 DEF Unbook, MarkCancelled, Uncache, Goto, callVars, GoesOnCancelling, Cancelling
<1>4. CASE CheckStillOpen(t)
  <2>1. pc[t] \in Cancelling /\ UNCHANGED <<state, index>>
    BY <1>4 DEF CheckStillOpen, Goto, Cancelling, sharedVars, orderVars, bookVars
  <2>2. CASE Proceed(t, "internalError")
    BY <1>2, <2>1, <2>2
  <2>3. CASE /\ Goto(t, "checkCancel", "markCancelled") /\ Cancellable(cur[t])
             /\ UNCHANGED <<sharedVars, passive, callVars>>
    BY <1>4, <2>1, <2>3 DEF Goto, callVars, GoesOnCancelling, Cancellable, IsActive
  <2> QED BY <1>4, <2>2, <2>3 DEF CheckStillOpen
<1>5. CASE Forget(t)
  BY <1>2, <1>5 DEF Forget, Cancelling, orderVars, bookVars
<1>6. CASE \/ Register(t) \/ Enrol(t) \/ EnterNew(t)
           \/ DropKey(t) \/ EnterModify(t) \/ ModifyToNothing(t) \/ ModifyTooLate(t)
           \/ CheckModified(t) \/ PutModified(t) \/ Restore(t)
  BY <1>6 DEF Register, Enrol, EnterNew, DropKey, EnterModify, ModifyToNothing, ModifyTooLate,
     CheckModified, PutModified, Restore, Goto, Return, Cancelling
<1>7. CASE Match(t)
  BY <1>7
     DEF Match, Test, Best, NothingToPick, DropStale, PreventSelfTrade, CheckOwnPassive,
         CancelOwnPassive, OwnPassiveGone, Pick, Fill, Settle, Clear, Rest, Throw, Unwind, Return, Goto, Cancelling
<1> QED BY <1>1, <1>3, <1>4, <1>5, <1>6, <1>7 DEF Step

\* An order has no state before it exists.
LEMMA NotYetPlacedStep ==
  ASSUME TypeOK, CallsInProgress, NotYetPlaced, NEW t \in Threads, Receive(t) \/ Step(t)
  PROVE  NotYetPlaced'
<1> SUFFICES ASSUME NEW o \in OrderIds, o \notin Placed'
             PROVE  state'[o] = "NONE"
  BY DEF NotYetPlaced, OrderIds
<1>1. o \notin Placed /\ state[o] = "NONE"
  BY OrdersKept DEF NotYetPlaced
<1>2. ~StateChanges(t, o)
  <2>1. ~(Register(t) /\ o = nextId)
    BY DEF Register, Placed, OrderIds
  <2>2. pc[t] \in {"fill", "cancelOwn"} => cur[t] \in Placed /\ passive[t] \in Placed
    BY DEF CallsInProgress
  <2>3. pc[t] \in {"enterModify", "markCancelled"} => cur[t] \in Placed
    BY DEF CallsInProgress
  <2> QED BY <1>1, <2>1, <2>2, <2>3, AtLabel DEF StateChanges
<1> QED BY <1>1, <1>2, StateChange

\* What is picked to be filled goes on resting until it is, what is to be cancelled does
\* not come back.
LEMMA TakenOutStep ==
  ASSUME TypeOK, CallsInProgress, QueuesMatch, MonitorDiscipline, FillIsSafe, BookWellFormed,
         CancelApart, NothingLeftToDo, PassiveMatches, TakenOut,
         NEW t \in Threads, Receive(t) \/ Step(t)
  PROVE  TakenOut'
<1>1. ASSUME NEW u \in Threads, u # t
      PROVE  /\ pc'[u] = "fill" => passive'[u] \in index'
             /\ pc'[u] \in {"selfTrade", "cancelOwn"} => passive'[u] \notin index'
             /\ pc'[u] \in {"checkCancel", "markCancelled"} => cur'[u] \notin index'
  <2>1. pc'[u] = pc[u] /\ passive'[u] = passive[u] /\ cur'[u] = cur[u]
    BY <1>1, OtherThreadsKept
  <2>2. ASSUME pc[u] \in WithPassive
        PROVE  passive[u] \in index' <=> passive[u] \in index
    <3>1. pc[u] \in Matching /\ passive[u] \in Placed
      BY <2>2 DEF CallsInProgress, WithPassive, Matching
    <3>2. Frozen(u) /\ order[passive[u]].symbol = order[cur[u]].symbol
      BY <1>1, <2>2, <3>1, BookFrozen DEF PassiveMatches
    <3> QED BY <3>1, <3>2 DEF Frozen
  <2>3. ASSUME pc[u] \in {"checkCancel", "markCancelled"}
        PROVE  cur[u] \notin index'
    <3>1. cur[u] \notin index
      BY <2>3 DEF TakenOut
    <3>2. ASSUME cur[u] \in index'
          PROVE  BookGains(t) /\ cur[u] = cur[t]
      <4>1. ~BookKept /\ ~(\E p : BookLoses(p))
        BY <3>1, <3>2 DEF BookKept, BookLoses, RemoveOrder, bookVars
      <4> QED BY <3>1, <3>2, <4>1, BookChange DEF BookGains, AddOrder, bookVars
    <3>3. pc[t] \in Matching => cur[u] # cur[t]
      BY <1>1, <2>3, NoCancelMeanwhile DEF Cancelling, Holding
    <3> QED BY <3>2, <3>3 DEF BookGains, Matching
  <2> QED BY <2>1, <2>2, <2>3 DEF TakenOut, WithPassive
<1>2. /\ pc'[t] = "fill" => passive'[t] \in index'
      /\ pc'[t] \in {"selfTrade", "cancelOwn"} => passive'[t] \notin index'
  <2>1. CASE PicksHead(t)
    <3>1. cur[t] \in Placed
      BY <2>1 DEF PicksHead, CallsInProgress
    <3>2. passive'[t] \in index
      BY <2>1, <3>1, HeadRests DEF PicksHead
    <3> QED BY <2>1, <3>2 DEF PicksHead, RemoveOrder, bookVars
  <2>2. CASE KeepsPassive(t)
    <3>1. CASE CheckOwnPassive(t)
      BY <2>2, <3>1, AtLabel DEF KeepsPassive, CheckOwnPassive, TakenOut, sharedVars, bookVars
    <3>2. CASE pc'[t] \in {"settle", "clear"}
      BY <3>2
    <3> QED BY <2>2, <3>1, <3>2 DEF KeepsPassive
  <2> QED BY <2>1, <2>2, PassiveChange DEF WithPassive
<1>3. pc'[t] \in {"checkCancel", "markCancelled"} => cur'[t] \notin index'
  <2>1. CASE Unbook(t) /\ cur'[t] = cur[t]
    BY <2>1 DEF Unbook, RemoveOrder, bookVars
  <2>2. CASE CheckStillOpen(t) /\ cur'[t] = cur[t] /\ UNCHANGED <<state, index>>
    BY <2>2, AtLabel DEF TakenOut
  <2>3. pc'[t] \in {"checkCancel", "markCancelled"} => GoesOnCancelling(t)
    BY CancelChange DEF FindsToCancel, Cancelling
  <2> QED BY <2>1, <2>2, <2>3 DEF GoesOnCancelling
<1> QED BY <1>1, <1>2, <1>3 DEF TakenOut

\* A step of a match, of an entry or of a cancel changes the state of the order its thread
\* has in hand only as follows.
LEMMA OwnStateKept ==
  ASSUME TypeOK, CallsInProgress, PassiveMatches, NEW t \in Threads, Receive(t) \/ Step(t),
         pc[t] \in Holding, ~Fill(t), ~ModifyToNothing(t)
  PROVE  state'[cur[t]] = state[cur[t]]
<1>1. cur[t] \in Placed /\ cur[t] \in OrderIds
  <2>1. cur[t] \in Placed
    BY DEF CallsInProgress, Holding, Entering, Modifying, Matching
  <2> QED BY <2>1, PlacedOrder
<1> SUFFICES ASSUME StateChanges(t, cur[t])
             PROVE  FALSE
  BY <1>1, StateChange
<1>2. CASE Register(t) \/ MarkCancelled(t)
  BY <1>2, AtLabel DEF Holding, Entering, Modifying, Matching
<1>3. CASE CancelOwnPassive(t) /\ cur[t] = passive[t]
  BY <1>3, AtLabel DEF PassiveMatches, WithPassive, Matching
<1> QED BY <1>2, <1>3 DEF StateChanges

\* What a thread has in hand stays open while it is needed open: no other thread can fill
\* or cancel it, and its own fills leave it open as long as something is left.
LEMMA HeldIsOpenStep ==
  ASSUME TypeOK, CallsInProgress, QuantitiesAgree, FillIsSafe, PassiveMatches, InHandIsOpen,
         NEW t \in Threads, Receive(t) \/ Step(t)
  PROVE  /\ pc'[t] \in Entering => IsActive(cur[t])'
         /\ pc'[t] \in Matching /\ leaves'[cur'[t]] > 0 => IsActive(cur[t])'
<1>1. CASE pc'[t] \in Entering
  <2>1. CASE HoldsOn(t)
    <3>1. pc[t] \in Entering /\ cur'[t] = cur[t]
      BY <1>1, <2>1 DEF HoldsOn
    <3>2. state'[cur[t]] = state[cur[t]]
      BY <3>1, AtLabel, OwnStateKept DEF Entering, Holding
    <3> QED BY <1>1, <3>1, <3>2 DEF InHandIsOpen, IsActive, Entering, Matching
  <2>2. CASE Registers(t)
    <3>1. state'[cur'[t]] = "LIVE"
      BY <2>2 DEF TypeOK, Registers, Register
    <3> QED BY <1>1, <3>1 DEF IsActive, Active, Entering, Matching
  <2> QED BY <1>1, <2>1, <2>2, HoldingChange DEF Holding, FindsToModify, Entering
<1>2. CASE pc'[t] \in Matching /\ leaves'[cur'[t]] > 0
  <2>1. pc[t] \in Holding /\ cur'[t] = cur[t]
    BY <1>2, HoldingChange DEF Holding, HoldsOn, Registers, FindsToModify, Matching
  <2>2. cur[t] \in Placed /\ cur[t] \in OrderIds
    <3>1. cur[t] \in Placed
      BY <2>1 DEF CallsInProgress, Holding, Entering, Modifying, Matching
    <3> QED BY <3>1, PlacedOrder
  <2>3. CASE Fill(t)
    <3>1. /\ passive[t] \in OrderIds /\ cur[t] # passive[t]
          /\ leaves'[cur[t]] = leaves[cur[t]] - FillQty(t)
      BY <2>2, <2>3, FillQuantities, PlacedOrder DEF TypeOK
    <3>2. leaves[cur[t]] # FillQty(t)
      BY <1>2, <2>1, <2>2, <2>3, <3>1, FillQuantities DEF TypeOK
    <3>3. state'[cur[t]] = StateAfterFill(cur[t], FillQty(t))
      BY <2>2, <2>3, <3>1 DEF TypeOK, Fill
    <3> QED BY <1>2, <2>1, <3>2, <3>3 DEF StateAfterFill, IsActive, Active, Entering, Matching
  <2>4. CASE ~Fill(t)
    <3>1. ~ModifyToNothing(t)
      BY <1>2 DEF TypeOK, ModifyToNothing, Goto, Matching
    <3>2. state'[cur[t]] = state[cur[t]]
      BY <2>1, <2>4, <3>1, OwnStateKept
    <3>3. IsActive(cur[t])
      <4>1. CASE pc[t] \in Entering
        BY <4>1 DEF InHandIsOpen
      <4>2. CASE pc[t] \in Modifying
        <5>1. EnterModify(t)
          BY <1>2, <4>2, EntersBook
        <5> QED BY <5>1 DEF EnterModify
      <4>3. CASE pc[t] \in Matching
        <5>1. leaves' = leaves
          BY <2>4, <4>3, Writers, AtLabel DEF Matching
        <5> QED BY <1>2, <2>1, <4>3, <5>1 DEF InHandIsOpen
      <4> QED BY <2>1, <4>1, <4>2, <4>3 DEF Holding
    <3> QED BY <1>2, <2>1, <3>2, <3>3 DEF IsActive, Entering, Matching
  <2> QED BY <2>3, <2>4
<1> QED BY <1>1, <1>2

\* A passive order is open when it is filled or cancelled.
LEMMA PassiveIsOpenStep ==
  ASSUME TypeOK, CallsInProgress, QueuesMatch, NEW t \in Threads, Receive(t) \/ Step(t),
         pc'[t] \in {"fill", "cancelOwn"}
  PROVE  IsActive(passive[t])'
<1>1. CASE PicksHead(t)
  BY <1>1 DEF PicksHead, IsActive
<1>2. CASE KeepsPassive(t)
  <2>1. CheckOwnPassive(t) /\ Cancellable(passive[t]) /\ passive'[t] = passive[t]
    BY <1>2 DEF KeepsPassive
  <2> QED BY <2>1 DEF CheckOwnPassive, Cancellable, IsActive, sharedVars, orderVars
<1> QED BY <1>1, <1>2, PassiveChange DEF WithPassive

\* An order is open until it is cancelled, and so are those left to cancel.
LEMMA CancelsOpenStep ==
  ASSUME TypeOK, CallsInProgress, NothingLeftToDo, InHandIsOpen,
         NEW t \in Threads, Receive(t) \/ Step(t)
  PROVE  /\ pc'[t] \in {"unbook", "checkCancel", "markCancelled"} => IsActive(cur[t])'
         /\ pc'[t] \in {"uncache", "forget"} => ~IsActive(cur[t])'
         /\ pc'[t] \in Cancelling => \A o \in todo'[t] : IsActive(o)' /\ o # cur'[t]
<1>1. CASE FindsToCancel(t)
  BY <1>1 DEF FindsToCancel, InHandIsOpen, IsActive
<1>2. CASE GoesOnCancelling(t) /\ ~MarkCancelled(t)
  <2>1. UNCHANGED state
    BY <1>2 DEF GoesOnCancelling, Unbook, Uncache, orderVars
  <2>2. /\ pc[t] \in {"unbook", "checkCancel", "markCancelled"} => state'[cur[t]] \in Active
        /\ pc[t] \in {"uncache", "forget"} => state'[cur[t]] \notin Active
        /\ pc[t] \in Cancelling => \A o \in todo[t] : IsActive(o)' /\ o # cur[t]
    BY <2>1 DEF InHandIsOpen, IsActive
  <2> QED BY <1>2, <2>2, AtLabel DEF GoesOnCancelling, IsActive
<1>3. CASE GoesOnCancelling(t) /\ MarkCancelled(t)
  <2>1. /\ pc[t] = "markCancelled" /\ pc'[t] = "uncache" /\ cur'[t] = cur[t] /\ todo'[t] = todo[t]
        /\ cur[t] \in OrderIds /\ pc[t] \in Cancelling
    <3>1. pc[t] = "markCancelled" /\ cur[t] \in Placed
      BY <1>3, AtLabel DEF CallsInProgress
    <3> QED BY <1>3, <3>1, AtLabel, PlacedOrder DEF TypeOK, GoesOnCancelling, MarkCancelled, Goto, Cancelling
  <2>2. state'[cur[t]] = "CANCELLED" /\ \A o \in OrderIds : o # cur[t] => state'[o] = state[o]
    BY <1>3, <2>1 DEF TypeOK, MarkCancelled
  <2>3. \A o \in todo[t] : o \in OrderIds /\ o # cur[t] /\ IsActive(o)
    BY <2>1, PlacedOrder DEF TypeOK, InHandIsOpen
  <2>4. state'[cur[t]] \notin Active
    BY <2>1, <2>2 DEF Active
  <2> QED BY <2>1, <2>2, <2>3, <2>4 DEF IsActive
<1> QED BY <1>1, <1>2, <1>3, CancelChange DEF Cancelling

\* The four together, and what other threads have in hand.
LEMMA InHandIsOpenStep ==
  ASSUME TypeOK, CallsInProgress, QueuesMatch, MonitorDiscipline, QuantitiesAgree, FillIsSafe,
         Exclusive, CancelApart, NothingLeftToDo, PassiveMatches, InHandIsOpen,
         NEW t \in Threads, Receive(t) \/ Step(t)
  PROVE  InHandIsOpen'
<1>1. ASSUME NEW u \in Threads, u # t
      PROVE  /\ pc'[u] \in Entering => IsActive(cur[u])'
             /\ pc'[u] \in Matching /\ leaves'[cur'[u]] > 0 => IsActive(cur[u])'
             /\ pc'[u] \in {"fill", "cancelOwn"} => IsActive(passive[u])'
             /\ pc'[u] \in {"unbook", "checkCancel", "markCancelled"} => IsActive(cur[u])'
             /\ pc'[u] \in {"uncache", "forget"} => ~IsActive(cur[u])'
             /\ pc'[u] \in Cancelling => \A o \in todo'[u] : IsActive(o)' /\ o # cur'[u]
  <2>1. pc'[u] = pc[u] /\ cur'[u] = cur[u] /\ passive'[u] = passive[u] /\ todo'[u] = todo[u]
    BY <1>1, OtherThreadsKept, OtherTodoKept
  <2>2. pc[u] \in Entering \union Matching => state'[cur[u]] = state[cur[u]]
    BY <1>1, EnteringGuarded
  <2>3. ASSUME pc[u] \in Matching
        PROVE  leaves'[cur[u]] = leaves[cur[u]]
    <3>1. cur[u] \in Placed
      BY <2>3 DEF CallsInProgress, Matching
    <3> QED BY <1>1, <2>3, <3>1, BookFrozen DEF Frozen
  <2>4. ASSUME pc[u] \in {"fill", "cancelOwn"}
        PROVE  state'[passive[u]] = state[passive[u]]
    <3>1. pc[u] \in Matching /\ passive[u] \in Placed
      BY <2>4 DEF CallsInProgress, Matching
    <3>2. Frozen(u) /\ order[passive[u]].symbol = order[cur[u]].symbol
      BY <1>1, <2>4, <3>1, BookFrozen DEF PassiveMatches, WithPassive
    <3> QED BY <3>1, <3>2 DEF Frozen
  <2>5. ASSUME pc[u] \in Cancelling
        PROVE  /\ state'[cur[u]] = state[cur[u]]
               /\ \A o \in todo[u] : state'[o] = state[o]
    BY <1>1, <2>5, WorksOnCur, CancelGuarded
  <2>6. /\ pc[u] \in {"unbook", "checkCancel", "markCancelled"} => IsActive(cur[u])'
        /\ pc[u] \in {"uncache", "forget"} => ~IsActive(cur[u])'
        /\ pc[u] \in Cancelling => \A o \in todo[u] : IsActive(o)' /\ o # cur[u]
    BY <2>1, <2>5 DEF InHandIsOpen, IsActive, Cancelling
  <2> QED BY <2>1, <2>2, <2>3, <2>4, <2>6 DEF InHandIsOpen, IsActive
<1>2. /\ pc'[t] \in Entering => IsActive(cur[t])'
      /\ pc'[t] \in Matching /\ leaves'[cur'[t]] > 0 => IsActive(cur[t])'
  BY HeldIsOpenStep
<1>3. pc'[t] \in {"fill", "cancelOwn"} => IsActive(passive[t])'
  BY PassiveIsOpenStep
<1>4. /\ pc'[t] \in {"unbook", "checkCancel", "markCancelled"} => IsActive(cur[t])'
      /\ pc'[t] \in {"uncache", "forget"} => ~IsActive(cur[t])'
      /\ pc'[t] \in Cancelling => \A o \in todo'[t] : IsActive(o)' /\ o # cur'[t]
  BY CancelsOpenStep
<1> QED BY <1>1, <1>2, <1>3, <1>4 DEF InHandIsOpen, IsActive

\* Only an open order changes state.
LEMMA OpenChanges ==
  ASSUME TypeOK, FillIsSafe, InHandIsOpen, NEW t \in Threads, NEW o \in Placed, StateChanges(t, o)
  PROVE  IsActive(o)
<1>1. CASE Register(t) /\ o = nextId
  BY <1>1 DEF Register, Placed, OrderIds
<1>2. CASE Fill(t) /\ o \in {cur[t], passive[t]}
  <2>1. pc[t] = "fill" /\ leaves[cur[t]] > 0
    BY <1>2, AtLabel DEF FillIsSafe
  <2> QED BY <1>2, <2>1 DEF InHandIsOpen, Matching
<1>3. CASE CancelOwnPassive(t) /\ o = passive[t]
  BY <1>3 DEF CancelOwnPassive, Cancellable, IsActive
<1>4. CASE ModifyToNothing(t) /\ o = cur[t]
  BY <1>4 DEF ModifyToNothing, Cancellable, IsActive
<1>5. CASE MarkCancelled(t) /\ o = cur[t]
  BY <1>5, AtLabel DEF InHandIsOpen
<1> QED BY <1>1, <1>2, <1>3, <1>4, <1>5 DEF StateChanges

\* How a fill leaves the passive order.
LEMMA PassiveFilled ==
  ASSUME TypeOK, CallsInProgress, FillIsSafe, NEW t \in Threads, Fill(t)
  PROVE  /\ pc'[t] = "settle" /\ passive'[t] = passive[t] /\ leaves'[passive[t]] \in Nat
         /\ leaves'[passive[t]] > 0 => state'[passive[t]] \in Active
         /\ leaves'[passive[t]] = 0 => state'[passive[t]] = "FILLED"
<1>1. /\ cur[t] \in OrderIds /\ passive[t] \in OrderIds /\ cur[t] # passive[t]
      /\ leaves' = [leaves EXCEPT ![cur[t]] = leaves[cur[t]] - FillQty(t),
                                  ![passive[t]] = leaves[passive[t]] - FillQty(t)]
      /\ FillQty(t) \in Nat /\ FillQty(t) <= leaves[passive[t]]
  BY FillQuantities, PlacedOrder
<1>2. leaves'[passive[t]] = leaves[passive[t]] - FillQty(t) /\ leaves[passive[t]] \in Nat
  BY <1>1 DEF TypeOK
<1>3. state'[passive[t]] = StateAfterFill(passive[t], FillQty(t))
  BY <1>1 DEF TypeOK, Fill
<1>4. pc'[t] = "settle" /\ passive'[t] = passive[t]
  BY DEF TypeOK, Fill, Goto
<1> QED BY <1>1, <1>2, <1>3, <1>4 DEF StateAfterFill, Active

\* An order leaves the book with the step that fills or cancels it, or before.
LEMMA RestingOpenStep ==
  ASSUME TypeOK, CallsInProgress, QueuesMatch, MonitorDiscipline, FillIsSafe, NotInBook,
         CancelApart, PassiveMatches, InHandIsOpen, TakenOut, RestingOpen,
         NEW t \in Threads, Receive(t) \/ Step(t)
  PROVE  RestingOpen'
<1> SUFFICES ASSUME NEW o \in index'
             PROVE  \/ IsActive(o)'
                    \/ \E v \in Threads : /\ pc'[v] \in {"settle", "clear"}
                                          /\ passive'[v] = o /\ leaves'[o] = 0
  BY DEF RestingOpen
<1>1. CASE o \notin index
  <2>1. BookGains(t) /\ o = cur[t]
    <3>1. ~BookKept /\ ~(\E p : BookLoses(p))
      BY <1>1 DEF BookKept, BookLoses, RemoveOrder, bookVars
    <3> QED BY <1>1, <3>1, BookChange DEF BookGains, AddOrder, bookVars
  <2>2. IsActive(o) /\ o \in Placed /\ pc[t] = "rest"
    BY <2>1 DEF BookGains, InHandIsOpen, Matching
  <2>3. state'[o] = state[o]
    <3>1. ~Fill(t) /\ ~ModifyToNothing(t)
      BY <2>2, AtLabel
    <3> QED BY <2>1, <2>2, <3>1, OwnStateKept DEF Holding, Matching
  <2> QED BY <2>2, <2>3 DEF IsActive
<1>2. CASE o \in index /\ IsActive(o)
  <2>1. o \in Placed /\ o \in OrderIds
    BY <1>2, PlacedOrder DEF TypeOK
  <2>2. CASE state'[o] = state[o]
    BY <1>2, <2>2 DEF IsActive
  <2>3. CASE Fill(t) /\ o = passive[t]
    BY <2>3, PassiveFilled DEF IsActive
  <2>4. ~(Register(t) /\ o = nextId)
    BY <2>1 DEF Register, Placed, OrderIds
  <2>5. ~((Fill(t) \/ ModifyToNothing(t) \/ MarkCancelled(t)) /\ o = cur[t])
    <3>1. pc[t] = "fill" => o # cur[t]
      BY <1>2 DEF NotInBook, Matching
    <3>2. ModifyToNothing(t) => o # cur[t]
      BY DEF ModifyToNothing, RemoveOrder, bookVars
    <3>3. pc[t] = "markCancelled" => o # cur[t]
      BY <1>2 DEF TakenOut
    <3> QED BY <3>1, <3>2, <3>3, AtLabel
  <2>6. ~(CancelOwnPassive(t) /\ o = passive[t])
    BY <1>2, AtLabel DEF TakenOut
  <2> QED BY <2>1, <2>2, <2>3, <2>4, <2>5, <2>6, StateChange DEF StateChanges
<1>3. CASE \E v \in Threads : pc[v] \in {"settle", "clear"} /\ passive[v] = o /\ leaves[o] = 0
  <2>1. PICK v \in Threads : pc[v] \in {"settle", "clear"} /\ passive[v] = o /\ leaves[o] = 0
    BY <1>3
  <2>2. CASE v = t
    <3>1. Settle(t) \/ Clear(t)
      BY <2>1, <2>2, AtLabel DEF Step, Match
    <3>2. CASE Settle(t)
      BY <2>1, <2>2, <3>2 DEF TypeOK, Settle, Goto, orderVars
    <3>3. CASE Clear(t)
      <4>1. RemoveOrder(o)
        BY <2>1, <2>2, <3>3 DEF Clear
      <4> QED BY <4>1 DEF RemoveOrder, bookVars
    <3> QED BY <3>1, <3>2, <3>3
  <2>3. CASE v # t
    <3>1. pc'[v] \in {"settle", "clear"} /\ passive'[v] = o
      BY <2>1, <2>3, OtherThreadsKept
    <3>2. pc[v] \in Matching /\ o \in Placed /\ order[o].symbol = order[cur[v]].symbol
      BY <2>1 DEF CallsInProgress, PassiveMatches, WithPassive, Matching
    <3>3. leaves'[o] = 0
      BY <2>1, <2>3, <3>2, BookFrozen DEF Frozen
    <3> QED BY <3>1, <3>3
  <2> QED BY <2>2, <2>3
<1> QED BY <1>1, <1>2, <1>3 DEF RestingOpen

\* What a thread sees of the other side is frozen for the others.
LEMMA OtherSideFrozen ==
  ASSUME TypeOK, CallsInProgress, NEW u \in Threads, pc[u] \in Matching, Frozen(u), cur'[u] = cur[u]
  PROVE  LET s == order[cur[u]].symbol  against == Opposite(order[cur[u]].side) IN
         /\ order'[cur'[u]] = order[cur[u]]
         /\ Occupied(s, against)' = Occupied(s, against)
         /\ \A p \in Prices : (IsBest(s, against, p))' <=> IsBest(s, against, p)
<1> DEFINE s == order[cur[u]].symbol
           against == Opposite(order[cur[u]].side)
<1>1. cur[u] \in Placed
  BY DEF CallsInProgress, Matching
<1>2. order'[cur'[u]] = order[cur[u]] /\ s \in Symbols /\ against \in Sides
  BY <1>1, PlacedOrder DEF Frozen, Opposite, Sides
<1>3. \A p \in Prices : level'[<<s, against, p>>] = level[<<s, against, p>>]
  BY <1>2 DEF Frozen, Levels
<1>4. {p \in Prices : level'[<<s, against, p>>] # <<>>} = {p \in Prices : level[<<s, against, p>>] # <<>>}
  BY <1>3
<1>5. /\ s' = s /\ against' = against
  BY <1>2
<1>6. Occupied(s, against)' = Occupied(s, against)
  BY <1>4, <1>5 DEF Occupied
<1>7. \A p \in Prices : (IsBest(s, against, p))' <=> IsBest(s, against, p)
  BY <1>5, <1>6 DEF IsBest, Ahead
<1> QED BY <1>2, <1>6, <1>7

\* The price of the best level is read after the emptiness test.
LEMMA LooksAtPrices ==
  ASSUME TypeOK, NEW t \in Threads, Receive(t) \/ Step(t), pc'[t] \in {"best", "pick"}
  PROVE  Test(t) \/ Best(t)
<1> USE DEF TypeOK
<1>1. CASE Receive(t)
  BY <1>1 DEF Receive, CheckNew, CheckModify, CheckCancel, MassCancel, Return
<1>2. CASE \/ Register(t) \/ Enrol(t) \/ EnterNew(t)
           \/ DropKey(t) \/ EnterModify(t) \/ ModifyToNothing(t) \/ ModifyTooLate(t)
           \/ CheckModified(t) \/ PutModified(t) \/ Restore(t)
           \/ Unbook(t) \/ CheckStillOpen(t) \/ MarkCancelled(t) \/ Uncache(t) \/ Forget(t)
  BY <1>2 DEF Register, Enrol, EnterNew, DropKey, EnterModify, ModifyToNothing, ModifyTooLate,
     CheckModified, PutModified, Restore, Unbook, CheckStillOpen, MarkCancelled, Uncache, Forget,
     Proceed, Goto, Return
<1>3. CASE \/ NothingToPick(t) \/ DropStale(t) \/ PreventSelfTrade(t) \/ CheckOwnPassive(t)
           \/ CancelOwnPassive(t) \/ OwnPassiveGone(t) \/ Pick(t) \/ Fill(t) \/ Settle(t) \/ Clear(t) \/ Rest(t)
  BY <1>3 DEF NothingToPick, DropStale, PreventSelfTrade, CheckOwnPassive, CancelOwnPassive,
     OwnPassiveGone, Pick, Fill, Settle, Clear, Rest, Throw, Unwind, Goto, Return
<1> QED BY <1>1, <1>2, <1>3 DEF Step, Match

\* The best price of a side is one.
LEMMA OneBest ==
  ASSUME NEW s, NEW side, NEW p, NEW q, IsBest(s, side, p), IsBest(s, side, q)
  PROVE  p = q
<1>1. p \in Nat /\ q \in Nat
  BY FlowAssumption DEF IsBest, Occupied
<1> QED BY <1>1 DEF IsBest, Ahead

\* Its own steps take a limit order from the price test to a fill at that price.
LEMMA OwnLimitStep ==
  ASSUME TypeOK, CallsInProgress, QueuesMatch, BookWellFormed, LimitHolds,
         NEW t \in Threads, Receive(t) \/ Step(t)
  PROVE  /\ pc'[t] = "best" =>
              Occupied(order[cur[t]].symbol, Opposite(order[cur[t]].side))' # {}
         /\ pc'[t] = "pick" /\ order'[cur'[t]].ordType = "LIMIT" =>
              \A p \in Prices :
                IsBest(order[cur[t]].symbol, Opposite(order[cur[t]].side), p)' => Accepts(cur[t], p)'
         /\ pc'[t] = "fill" /\ order'[cur'[t]].ordType = "LIMIT" =>
              Accepts(cur[t], order[passive[t]].price)'
<1>1. ASSUME pc'[t] \in {"best", "pick"}
      PROVE  UNCHANGED <<order, cur, level>>
  <2>1. CASE Test(t)
    BY <2>1 DEF Test, sharedVars, orderVars, bookVars, callVars
  <2>2. CASE Best(t)
    <3>1. ~Throw(t)
      BY <1>1 DEF TypeOK, Throw, Unwind, Return
    <3> QED BY <2>2, <3>1 DEF Best, sharedVars, orderVars, bookVars, callVars
  <2> QED BY <1>1, <2>1, <2>2, LooksAtPrices
<1>2. CASE pc'[t] = "best"
  <2>1. Test(t)
    <3>1. ~Best(t)
      BY <1>2 DEF TypeOK, Best, Throw, Unwind, Return
    <3> QED BY <1>2, <3>1, LooksAtPrices
  <2>2. Occupied(order[cur[t]].symbol, Opposite(order[cur[t]].side)) # {}
    BY <1>2, <2>1 DEF TypeOK, Test
  <2> QED BY <1>1, <1>2, <2>2 DEF Occupied
<1>3. CASE pc'[t] = "pick" /\ order'[cur'[t]].ordType = "LIMIT"
  <2>1. order[cur[t]].ordType = "LIMIT"
    BY <1>1, <1>3
  <2>2. Best(t)
    <3>1. ~Test(t)
      BY <1>3, <2>1 DEF TypeOK, Test
    <3> QED BY <1>3, <3>1, LooksAtPrices
  <2>3. PICK p \in Prices :
          /\ IsBest(order[cur[t]].symbol, Opposite(order[cur[t]].side), p)
          /\ Accepts(cur[t], p)
    BY <1>3, <2>2 DEF TypeOK, Best, Throw, Unwind, Return
  <2>4. ASSUME NEW q \in Prices,
               IsBest(order[cur[t]].symbol, Opposite(order[cur[t]].side), q)
        PROVE  Accepts(cur[t], q)
    BY <2>3, <2>4, OneBest
  <2>5. \A q \in Prices :
          /\ IsBest(order[cur[t]].symbol, Opposite(order[cur[t]].side), q)' =>
               IsBest(order[cur[t]].symbol, Opposite(order[cur[t]].side), q)
          /\ Accepts(cur[t], q)' <=> Accepts(cur[t], q)
    BY <1>1, <1>3 DEF IsBest, Occupied, Accepts
  <2> QED BY <1>3, <2>4, <2>5
<1>4. CASE pc'[t] = "fill" /\ order'[cur'[t]].ordType = "LIMIT"
  <2>1. PicksHead(t)
    BY <1>4, PassiveChange DEF WithPassive, KeepsPassive
  <2>2. /\ pc[t] = "pick" /\ cur[t] \in Placed /\ IsHead(cur[t], passive'[t])
        /\ cur'[t] = cur[t] /\ order' = order
    BY <2>1 DEF PicksHead, CallsInProgress
  <2>3. /\ order[passive'[t]].price \in Prices
        /\ IsBest(order[cur[t]].symbol, Opposite(order[cur[t]].side), order[passive'[t]].price)
    BY <2>2, HeadRests
  <2>4. Accepts(cur[t], order[passive'[t]].price)
    BY <1>4, <2>2, <2>3 DEF LimitHolds
  <2> QED BY <1>4, <2>2, <2>4 DEF Accepts
<1> QED BY <1>2, <1>3, <1>4

\* No other thread can spoil a price that was tested.
LEMMA LimitHoldsStep ==
  ASSUME TypeOK, CallsInProgress, QueuesMatch, MonitorDiscipline, FillIsSafe, BookWellFormed,
         CancelApart, PassiveMatches, LimitHolds, NEW t \in Threads, Receive(t) \/ Step(t)
  PROVE  LimitHolds'
<1>1. ASSUME NEW u \in Threads, u # t
      PROVE  /\ pc'[u] = "best" =>
                  Occupied(order[cur[u]].symbol, Opposite(order[cur[u]].side))' # {}
             /\ pc'[u] = "pick" /\ order'[cur'[u]].ordType = "LIMIT" =>
                  \A p \in Prices :
                    IsBest(order[cur[u]].symbol, Opposite(order[cur[u]].side), p)' => Accepts(cur[u], p)'
             /\ pc'[u] = "fill" /\ order'[cur'[u]].ordType = "LIMIT" =>
                  Accepts(cur[u], order[passive[u]].price)'
  <2>1. pc'[u] = pc[u] /\ cur'[u] = cur[u] /\ passive'[u] = passive[u]
    BY <1>1, OtherThreadsKept
  <2>2. CASE pc[u] \in Matching
    <3>1. Frozen(u)
      BY <1>1, <2>2, BookFrozen
    <3>2. /\ order'[cur'[u]] = order[cur[u]]
          /\ Occupied(order[cur[u]].symbol, Opposite(order[cur[u]].side))'
               = Occupied(order[cur[u]].symbol, Opposite(order[cur[u]].side))
          /\ \A p \in Prices :
               IsBest(order[cur[u]].symbol, Opposite(order[cur[u]].side), p)'
                 <=> IsBest(order[cur[u]].symbol, Opposite(order[cur[u]].side), p)
      BY <2>1, <2>2, <3>1, OtherSideFrozen
    <3>3. pc[u] = "fill" => order'[passive[u]] = order[passive[u]]
      BY <2>2, <3>1 DEF Frozen, PassiveMatches, CallsInProgress, WithPassive
    <3>4. pc[u] = "best" => Occupied(order[cur[u]].symbol, Opposite(order[cur[u]].side))' # {}
      BY <3>2 DEF LimitHolds
    <3>5. pc[u] = "pick" /\ order[cur[u]].ordType = "LIMIT" =>
            \A p \in Prices :
              IsBest(order[cur[u]].symbol, Opposite(order[cur[u]].side), p)' => Accepts(cur[u], p)'
      BY <2>1, <3>2 DEF LimitHolds, Accepts
    <3>6. pc[u] = "fill" /\ order[cur[u]].ordType = "LIMIT" =>
            Accepts(cur[u], order[passive[u]].price)'
      BY <2>1, <3>2, <3>3 DEF LimitHolds, Accepts
    <3> QED BY <2>1, <3>2, <3>4, <3>5, <3>6
  <2> QED BY <2>1, <2>2 DEF Matching
<1>2. /\ pc'[t] = "best" =>
           Occupied(order[cur[t]].symbol, Opposite(order[cur[t]].side))' # {}
      /\ pc'[t] = "pick" /\ order'[cur'[t]].ordType = "LIMIT" =>
           \A p \in Prices :
             IsBest(order[cur[t]].symbol, Opposite(order[cur[t]].side), p)' => Accepts(cur[t], p)'
      /\ pc'[t] = "fill" /\ order'[cur'[t]].ordType = "LIMIT" =>
           Accepts(cur[t], order[passive[t]].price)'
  BY OwnLimitStep
<1> QED BY <1>1, <1>2 DEF LimitHolds

\* A match meets no exception: the side it reads is not empty, and the user's own order
\* it takes out is still to be cancelled.
LEMMA NoThrow ==
  ASSUME InHandIsOpen, LimitHolds, NEW t \in Threads
  PROVE  /\ ~OwnPassiveGone(t)
         /\ Best(t) => /\ UNCHANGED <<sharedVars, passive, callVars>>
                       /\ \E to \in {"pick", "rest"} : pc' = [pc EXCEPT ![t] = to]
<1>1. ~OwnPassiveGone(t)
  BY AtLabel DEF OwnPassiveGone, InHandIsOpen, Cancellable, IsActive
<1>2. ASSUME Best(t)
      PROVE  Occupied(order[cur[t]].symbol, Opposite(order[cur[t]].side)) # {}
  BY <1>2, AtLabel DEF LimitHolds
<1> QED BY <1>1, <1>2 DEF Best

\* The steps that take an order out of the book.
LEMMA LeavesBook ==
  ASSUME TypeOK, CallsInProgress, NEW t \in Threads, Receive(t) \/ Step(t),
         NEW o \in index, o \notin index'
  PROVE  \/ (EnterModify(t) \/ ModifyToNothing(t) \/ ModifyTooLate(t)) /\ o = cur[t]
         \/ DropStale(t) /\ ~IsActive(o)
         \/ PreventSelfTrade(t) /\ passive'[t] = o
         \/ Clear(t) /\ leaves[o] = 0
         \/ Unbook(t) /\ o = cur[t]
<1>1. CASE EnterModify(t) \/ ModifyToNothing(t) \/ ModifyTooLate(t) \/ Unbook(t)
  BY <1>1 DEF EnterModify, ModifyToNothing, ModifyTooLate, Unbook, RemoveOrder, bookVars
<1>2. CASE DropStale(t)
  BY <1>2 DEF DropStale, RemoveOrder, bookVars
<1>3. CASE PreventSelfTrade(t)
  BY <1>3 DEF TypeOK, PreventSelfTrade, RemoveOrder, bookVars
<1>4. CASE Settle(t) \/ Clear(t)
  BY <1>4 DEF Settle, Clear, RemoveOrder, bookVars
<1>5. CASE Rest(t)
  BY <1>5 DEF Rest, AddOrder, bookVars
<1>6. CASE Receive(t)
  BY <1>6 DEF Receive, CheckNew, CheckModify, CheckCancel, MassCancel, sharedVars, bookVars
<1>7. CASE \/ Register(t) \/ Enrol(t) \/ EnterNew(t)
           \/ DropKey(t) \/ CheckModified(t) \/ PutModified(t) \/ Restore(t)
           \/ CheckStillOpen(t) \/ MarkCancelled(t) \/ Uncache(t) \/ Forget(t)
  BY <1>7 DEF Register, Enrol, EnterNew, DropKey, CheckModified, PutModified, Restore,
              CheckStillOpen, MarkCancelled, Uncache, Forget, sharedVars, bookVars
<1>8. CASE \/ Test(t) \/ Best(t) \/ NothingToPick(t) \/ CheckOwnPassive(t)
           \/ CancelOwnPassive(t) \/ OwnPassiveGone(t) \/ Pick(t) \/ Fill(t)
  BY <1>8 DEF Test, Best, NothingToPick, CheckOwnPassive, CancelOwnPassive, OwnPassiveGone,
              Pick, Fill, sharedVars, bookVars
<1> QED BY <1>1, <1>2, <1>3, <1>4, <1>5, <1>6, <1>7, <1>8 DEF Step, Match

\* An open order stays with the thread that has it in hand, or rests.
LEMMA StaysOnItsWay ==
  ASSUME TypeOK, CallsInProgress, QuantitiesAgree, InHandIsOpen, LimitHolds,
         NEW t \in Threads, Receive(t) \/ Step(t),
         NEW o \in Placed, IsActive(o), state'[o] \in Active, OnItsWay(o)
  PROVE  order'[o].price = None \/ o \in index' \/ OnItsWay(o)'
<1>1. PICK v \in Threads :
        \/ pc[v] \in Entering \union Matching /\ cur[v] = o
        \/ pc[v] \in {"selfTrade", "cancelOwn"} /\ passive[v] = o
        \/ pc[v] \in {"checkCancel", "markCancelled"} /\ cur[v] = o
  BY DEF OnItsWay
<1>2. CASE v # t
  <2>1. pc'[v] = pc[v] /\ cur'[v] = cur[v] /\ passive'[v] = passive[v]
    BY <1>2, OtherThreadsKept
  <2> QED BY <1>1, <2>1 DEF OnItsWay
<1>3. CASE v = t /\ pc[t] \in Entering \union Matching /\ cur[t] = o
  <2>1. CASE Rest(t)
    <3>1. Rests(o) /\ order' = order
      BY <1>3, <2>1 DEF QuantitiesAgree, Rests, Rest, orderVars
    <3> QED BY <1>3, <2>1, <3>1 DEF Rest, AddOrder
  <2>2. CASE Enrol(t) \/ EnterNew(t)
    <3>1. pc'[t] \in Entering \union Matching /\ cur'[t] = cur[t]
      BY <2>2 DEF TypeOK, Enrol, EnterNew, Goto, callVars, Entering, Matching
    <3> QED BY <1>3, <3>1 DEF OnItsWay
  <2>3. CASE Match(t) /\ ~Rest(t)
    <3>1. pc'[t] \in Matching /\ cur'[t] = cur[t]
      BY <2>3, NoThrow
         DEF TypeOK, Match, Test, NothingToPick, DropStale, PreventSelfTrade, CheckOwnPassive,
             CancelOwnPassive, Pick, Fill, Settle, Clear, Goto, callVars, Matching
    <3> QED BY <1>3, <3>1 DEF OnItsWay
  <2> QED BY <1>3, <2>1, <2>2, <2>3, AtLabel DEF Step, Entering, Matching
<1>4. CASE v = t /\ pc[t] \in {"selfTrade", "cancelOwn"} /\ passive[t] = o
  <2>1. ~CancelOwnPassive(t)
    <3>1. o \in OrderIds
      BY PlacedOrder
    <3> QED BY <1>4, <3>1 DEF TypeOK, CancelOwnPassive, Active
  <2>2. CheckOwnPassive(t)
    BY <1>4, <2>1, NoThrow, AtLabel DEF Step, Match
  <2>3. pc'[t] = "cancelOwn" /\ passive'[t] = o
    BY <1>4, <2>2 DEF TypeOK, CheckOwnPassive, Cancellable, IsActive
  <2> QED BY <2>3 DEF OnItsWay
<1>5. CASE v = t /\ pc[t] \in {"checkCancel", "markCancelled"} /\ cur[t] = o
  <2>1. ~MarkCancelled(t)
    <3>1. o \in OrderIds
      BY PlacedOrder
    <3> QED BY <1>5, <3>1 DEF TypeOK, MarkCancelled, Active
  <2>2. CheckStillOpen(t)
    BY <1>5, <2>1, AtLabel DEF Step, Match
  <2>3. pc'[t] = "markCancelled" /\ cur'[t] = o
    BY <1>5, <2>2 DEF TypeOK, CheckStillOpen, Goto, Cancellable, IsActive, callVars
  <2> QED BY <2>3 DEF OnItsWay
<1> QED BY <1>1, <1>2, <1>3, <1>4, <1>5

\* An open order stays in the caches.
LEMMA StaysKnown ==
  ASSUME TypeOK, CallsInProgress, InHandIsOpen, NEW t \in Threads, Receive(t) \/ Step(t),
         NEW o \in Placed, IsActive(o), o \in byId \/ \E v \in Threads : pc[v] = "enrol" /\ cur[v] = o
  PROVE  o \in byId' \/ \E v \in Threads : pc'[v] = "enrol" /\ cur'[v] = o
<1>1. CASE o \in byId
  <2>1. CASE UNCHANGED byId
    BY <1>1, <2>1
  <2>2. CASE Enrol(t)
    BY <1>1, <2>2 DEF Enrol
  <2>3. CASE CheckModified(t)
    BY <1>1, <2>3 DEF CheckModified, sharedVars, cacheVars
  <2>4. CASE Settle(t)
    BY <1>1, <2>4 DEF Settle, IsActive, Active
  <2>5. CASE Forget(t)
    BY <1>1, <2>5, AtLabel DEF Forget, InHandIsOpen
  <2> QED BY <2>1, <2>2, <2>3, <2>4, <2>5, Writers
<1>2. ASSUME NEW v \in Threads, pc[v] = "enrol", cur[v] = o
      PROVE  o \in byId' \/ \E w \in Threads : pc'[w] = "enrol" /\ cur'[w] = o
  <2>1. CASE v = t
    <3>1. Enrol(t)
      BY <1>2, <2>1, AtLabel DEF Step, Match
    <3> QED BY <1>2, <2>1, <3>1 DEF Enrol
  <2>2. CASE v # t
    BY <1>2, <2>2, OtherThreadsKept
  <2> QED BY <2>1, <2>2
<1> QED BY <1>1, <1>2

\* An open order is never lost: it rests, or somebody has it in hand, and it is cached.
LEMMA OpenIsSomewhereStep ==
  ASSUME TypeOK, CallsInProgress, QuantitiesAgree, FillIsSafe, InHandIsOpen, LimitHolds,
         OpenIsSomewhere, NEW t \in Threads, Receive(t) \/ Step(t)
  PROVE  OpenIsSomewhere'
<1> SUFFICES ASSUME NEW o \in Placed', state'[o] \in Active
             PROVE  /\ order'[o].price = None \/ o \in index' \/ OnItsWay(o)'
                    /\ o \in byId' \/ \E v \in Threads : pc'[v] = "enrol" /\ cur'[v] = o
  BY DEF OpenIsSomewhere, IsActive
<1>1. CASE o \notin Placed
  <2>1. Register(t)
    BY <1>1, Writers DEF Placed
  <2>2. o = nextId
    BY <1>1, <2>1 DEF TypeOK, Register, Placed, OrderIds
  <2>3. pc'[t] = "enrol" /\ cur'[t] = o
    BY <2>1, <2>2 DEF TypeOK, Register, Goto
  <2> QED BY <2>3 DEF OnItsWay, Entering
<1>2. CASE o \in Placed
  <2>1. IsActive(o) /\ o \in OrderIds
    <3>1. o \in OrderIds
      BY <1>2, PlacedOrder
    <3> QED BY <1>2, <3>1, StateChange, OpenChanges DEF IsActive
  <2>2. o \in byId' \/ \E v \in Threads : pc'[v] = "enrol" /\ cur'[v] = o
    BY <1>2, <2>1, StaysKnown DEF OpenIsSomewhere
  <2>3. order'[o].price = None \/ o \in index' \/ OnItsWay(o)'
    <3>1. CASE OnItsWay(o)
      BY <1>2, <2>1, <3>1, StaysOnItsWay
    <3>2. CASE EnterModify(t) /\ o = cur[t]
      <4>1. pc'[t] = "test" /\ cur'[t] = o
        BY <3>2 DEF TypeOK, EnterModify, Goto, callVars
      <4> QED BY <4>1 DEF OnItsWay, Matching
    <3>3. CASE o \in index /\ o \notin index' /\ ~(EnterModify(t) /\ o = cur[t])
      <4>1. ~(ModifyToNothing(t) /\ o = cur[t])
        BY <2>1 DEF TypeOK, ModifyToNothing, Active
      <4>2. ~(ModifyTooLate(t) /\ o = cur[t])
        BY <2>1 DEF ModifyTooLate
      <4>3. ~(Clear(t) /\ leaves[o] = 0)
        BY <1>2, <2>1 DEF QuantitiesAgree
      <4>4. CASE PreventSelfTrade(t) /\ passive'[t] = o
        <5>1. pc'[t] = "selfTrade"
          BY <4>4 DEF TypeOK, PreventSelfTrade, Goto
        <5> QED BY <4>4, <5>1 DEF OnItsWay
      <4>5. CASE Unbook(t) /\ o = cur[t]
        <5>1. pc'[t] = "checkCancel" /\ cur'[t] = o
          BY <4>5 DEF TypeOK, Unbook, Goto, callVars
        <5> QED BY <5>1 DEF OnItsWay
      <4> QED BY <2>1, <3>3, <4>1, <4>2, <4>3, <4>4, <4>5, LeavesBook
    <3>4. CASE order[o].price = None /\ ~(EnterModify(t) /\ o = cur[t])
      <4>1. order'[o] = order[o]
        BY <1>2, <3>4, TermsKept
      <4> QED BY <3>4, <4>1
    <3> QED BY <1>2, <2>1, <3>1, <3>2, <3>3, <3>4 DEF OpenIsSomewhere
  <2> QED BY <2>2, <2>3
<1> QED BY <1>1, <1>2

\* An exception reaches a handler only from a cancel that came too late, from a catch
\* clause, or out of a match.
LEMMA Exceptions ==
  ASSUME TypeOK, InHandIsOpen, LimitHolds, NEW t \in Threads, Receive(t) \/ Step(t),
         pc[t] # "restore", answer[t] # "internalError"
  PROVE  /\ answer'[t] # "internalError"
         /\ pc'[t] = "restore" => ModifyTooLate(t)
<1> USE DEF TypeOK
<1>1. ASSUME NEW a, Return(t, a), a # "internalError"
      PROVE  answer'[t] # "internalError" /\ pc'[t] # "restore"
  BY <1>1 DEF Return
<1>2. ASSUME NEW a, Proceed(t, a), a # "internalError"
      PROVE  answer'[t] # "internalError" /\ pc'[t] # "restore"
  <2>1. CASE todo[t] = {}
    BY <1>1, <1>2, <2>1 DEF Proceed
  <2>2. CASE todo[t] # {}
    BY <1>2, <2>2 DEF Proceed
  <2> QED BY <2>1, <2>2
<1>3. CASE Receive(t)
  BY <1>1, <1>3 DEF Receive, CheckNew, CheckModify, CheckCancel, MassCancel
<1>4. CASE CheckStillOpen(t)
  <2>1. Cancellable(cur[t])
    BY <1>4, AtLabel DEF InHandIsOpen, Cancellable, IsActive
  <2> QED BY <1>4, <2>1 DEF CheckStillOpen, Goto, callVars
<1>5. CASE Forget(t)
  BY <1>2, <1>5 DEF Forget
<1>6. CASE PutModified(t)
  BY <1>1, <1>6 DEF PutModified
<1>7. CASE CheckModified(t)
  BY <1>1, <1>7 DEF CheckModified, Goto, callVars
<1>8. CASE Rest(t)
  BY <1>1, <1>8 DEF Rest, callVars
<1>9. CASE Best(t)
  BY <1>9, NoThrow DEF callVars
<1>10. CASE \/ Register(t) \/ Enrol(t) \/ EnterNew(t) \/ DropKey(t) \/ EnterModify(t)
            \/ ModifyToNothing(t) \/ ModifyTooLate(t)
            \/ Unbook(t) \/ MarkCancelled(t) \/ Uncache(t)
  BY <1>10
     DEF Register, Enrol, EnterNew, DropKey, EnterModify, ModifyToNothing, ModifyTooLate,
         Unbook, MarkCancelled, Uncache, Goto, callVars
<1>11. CASE \/ Test(t) \/ NothingToPick(t) \/ DropStale(t) \/ PreventSelfTrade(t)
            \/ CheckOwnPassive(t) \/ CancelOwnPassive(t) \/ Pick(t) \/ Fill(t) \/ Settle(t) \/ Clear(t)
  BY <1>11
     DEF Test, NothingToPick, DropStale, PreventSelfTrade, CheckOwnPassive, CancelOwnPassive,
         Pick, Fill, Settle, Clear, Goto, callVars
<1> QED BY <1>3, <1>4, <1>5, <1>6, <1>7, <1>8, <1>9, <1>10, <1>11, NoThrow, AtLabel DEF Step, Match

\* Its own steps do not spoil what a thread has checked.
LEMMA OwnNeverFailsStep ==
  ASSUME TypeOK, CallsInProgress, PassiveMatches, InHandIsOpen, LimitHolds, NeverFails,
         NEW t \in Threads, Receive(t) \/ Step(t), Apart(t, {"modify"})
  PROVE  /\ answer'[t] # "internalError" /\ pc'[t] # "restore"
         /\ pc'[t] \in Modifying => IsActive(cur[t])'
<1>1. /\ answer[t] # "internalError" /\ pc[t] # "restore"
      /\ pc[t] \in Modifying => IsActive(cur[t])
  BY DEF NeverFails
<1>2. answer'[t] # "internalError" /\ pc'[t] # "restore"
  <2>1. ~ModifyTooLate(t)
    BY <1>1, AtLabel DEF ModifyTooLate, Modifying
  <2> QED BY <1>1, <2>1, Exceptions
<1>3. ASSUME pc'[t] \in Modifying
      PROVE  IsActive(cur[t])'
  <2>1. CASE HoldsOn(t)
    <3>1. pc[t] \in Modifying /\ cur'[t] = cur[t]
      BY <1>3, <2>1 DEF HoldsOn
    <3>2. ~Fill(t) /\ ~ModifyToNothing(t)
      BY <1>3, <3>1, AtLabel DEF TypeOK, ModifyToNothing, Goto, Modifying
    <3>3. state'[cur[t]] = state[cur[t]]
      BY <3>1, <3>2, OwnStateKept DEF Holding
    <3> QED BY <1>1, <3>1, <3>3 DEF IsActive
  <2>2. CASE FindsToModify(t)
    <3>1. pc'[t] = "dropKey"
      BY <2>2 DEF FindsToModify
    <3>2. Receive(t)
      BY <3>1
         DEF TypeOK, Step, Register, Enrol, EnterNew, DropKey, EnterModify, ModifyToNothing,
             ModifyTooLate, CheckModified, PutModified, Restore, Match, Test, Best,
             NothingToPick, DropStale, PreventSelfTrade, CheckOwnPassive, CancelOwnPassive,
             OwnPassiveGone, Pick, Fill, Settle, Clear, Rest, Throw, Unwind, Unbook, CheckStillOpen,
             MarkCancelled, Uncache, Forget, Proceed, Goto, Return
    <3>3. PICK r \in Requests[t] : CheckModify(t, r)
      BY <3>1, <3>2
         DEF TypeOK, Receive, CheckNew, CheckModify, CheckCancel, MassCancel, Return
    <3>4. Modifiable(r) /\ cur'[t] = byClOrd[r.orig] /\ state' = state
      BY <3>1, <3>3 DEF TypeOK, CheckModify, Return, sharedVars, orderVars
    <3> QED BY <3>4 DEF Modifiable, IsActive
  <2>3. ~Registers(t)
    BY <1>3 DEF Registers, Modifying
  <2> QED BY <1>3, <2>1, <2>2, <2>3, HoldingChange DEF Holding
<1> QED BY <1>2, <1>3

\* A step changes the answer of its own thread only.
LEMMA OtherAnswerKept ==
  ASSUME TypeOK, NEW t \in Threads, Receive(t) \/ Step(t), NEW u \in Threads, u # t
  PROVE  answer'[u] = answer[u]
<1> USE DEF TypeOK
<1>1. ASSUME NEW a, Return(t, a)
      PROVE  answer'[u] = answer[u]
  BY <1>1 DEF Return
<1>2. ASSUME NEW a, Proceed(t, a)
      PROVE  answer'[u] = answer[u]
  <2>1. CASE todo[t] = {}
    BY <1>1, <1>2, <2>1 DEF Proceed
  <2>2. CASE todo[t] # {}
    BY <1>2, <2>2 DEF Proceed
  <2> QED BY <2>1, <2>2
<1>3. CASE Throw(t)
  BY <1>1, <1>3 DEF Throw, Unwind, callVars
<1>4. CASE Receive(t)
  BY <1>1, <1>4 DEF Receive, CheckNew, CheckModify, CheckCancel, MassCancel
<1>5. CASE \/ Best(t) \/ OwnPassiveGone(t) \/ Rest(t) \/ CheckModified(t) \/ PutModified(t)
           \/ Restore(t) \/ CheckStillOpen(t) \/ Forget(t)
  BY <1>1, <1>2, <1>3, <1>5
     DEF Best, OwnPassiveGone, Rest, CheckModified, PutModified, Restore, CheckStillOpen,
         Forget, callVars
<1>6. CASE \/ Register(t) \/ Enrol(t) \/ EnterNew(t) \/ DropKey(t) \/ EnterModify(t)
           \/ ModifyToNothing(t) \/ ModifyTooLate(t) \/ Test(t) \/ NothingToPick(t)
           \/ DropStale(t) \/ PreventSelfTrade(t) \/ CheckOwnPassive(t)
           \/ CancelOwnPassive(t) \/ Pick(t) \/ Fill(t) \/ Settle(t) \/ Clear(t)
           \/ Unbook(t) \/ MarkCancelled(t) \/ Uncache(t)
  BY <1>6
     DEF Register, Enrol, EnterNew, DropKey, EnterModify, ModifyToNothing, ModifyTooLate, Test,
         NothingToPick, DropStale, PreventSelfTrade, CheckOwnPassive, CancelOwnPassive, Pick,
         Fill, Settle, Clear, Unbook, MarkCancelled, Uncache, callVars
<1> QED BY <1>4, <1>5, <1>6 DEF Step, Match

\* What a modification that nobody disturbs has checked of an order still holds when it
\* acts on it.
LEMMA NeverFailsStep ==
  ASSUME TypeOK, CallsInProgress, OwnRequests, WithinReach, PassiveMatches, InHandIsOpen,
         LimitHolds, NeverFails, NEW t \in Threads, Receive(t) \/ Step(t)
  PROVE  NeverFails'
<1> SUFFICES ASSUME NEW u \in Threads, Apart(u, {"modify"})
             PROVE  /\ answer'[u] # "internalError" /\ pc'[u] # "restore"
                    /\ pc'[u] \in Modifying => IsActive(cur[u])'
  BY DEF NeverFails
<1>1. /\ answer[u] # "internalError" /\ pc[u] # "restore"
      /\ pc[u] \in Modifying => IsActive(cur[u])
  BY DEF NeverFails
<1>2. CASE u # t
  <2>1. pc'[u] = pc[u] /\ cur'[u] = cur[u] /\ answer'[u] = answer[u]
    BY <1>2, OtherThreadsKept, OtherAnswerKept
  <2>2. ASSUME pc[u] \in Modifying
        PROVE  state'[cur[u]] = state[cur[u]]
    <3>1. pc[u] \in Holding /\ req[u].op \in {"modify"}
      BY <2>2 DEF Holding, OwnRequests
    <3>2. cur[u] \in Works(u) /\ cur[u] \in Placed
      BY <3>1, WorksOnCur
    <3>3. \A p \in Works(t) : order[p].symbol # order[cur[u]].symbol
      BY <1>2, <3>1, <3>2, WorksApart
    <3> QED BY <3>2, <3>3, WorkGuarded
  <2> QED BY <1>1, <2>1, <2>2 DEF IsActive
<1>3. CASE u = t
  BY <1>3, OwnNeverFailsStep
<1> QED BY <1>2, <1>3

-----------------------------------------------------------------------------
(* The invariant. *)

\* Before the first request no call is in progress and no order exists.
LEMMA LifeInit == Init => LifeInvariant
<1> SUFFICES ASSUME Init
             PROVE  LifeInvariant
  OBVIOUS
<1> USE DEF Init
<1>1. Placed = {}
  BY DEF Placed
<1>2. WithinReach /\ NothingLeftToDo /\ PassiveMatches /\ InHandIsOpen /\ TakenOut
  BY <1>1 DEF WithinReach, NothingLeftToDo, PassiveMatches, InHandIsOpen, TakenOut, Cancelling,
              WithPassive, Holding, Entering, Modifying, Matching, Works
<1>3. NotYetPlaced /\ RestingOpen /\ LimitHolds /\ OpenIsSomewhere
  BY <1>1 DEF NotYetPlaced, RestingOpen, LimitHolds, OpenIsSomewhere
<1>4. NeverFails
  BY DEF NeverFails, Modifying
<1> QED BY <1>2, <1>3, <1>4 DEF LifeInvariant

\* Every step keeps the invariant.
LEMMA LifeStep ==
  ASSUME CancelsApart, EngineInvariant, BookInvariant, LifeInvariant, [Next]_vars
  PROVE  LifeInvariant'
<1> USE DEF EngineInvariant, BookInvariant, LifeInvariant
<1>1. CASE UNCHANGED vars
  <2> USE <1>1 DEF vars, sharedVars, orderVars, bookVars, cacheVars, callVars
  <2>1. WithinReach' /\ NothingLeftToDo' /\ PassiveMatches' /\ NotYetPlaced' /\ TakenOut'
    BY DEF WithinReach, Works, NothingLeftToDo, PassiveMatches, NotYetPlaced, TakenOut, Placed
  <2>2. InHandIsOpen' /\ RestingOpen'
    BY DEF InHandIsOpen, RestingOpen, IsActive
  <2>3. LimitHolds'
    BY DEF LimitHolds, IsBest, Occupied, Accepts
  <2>4. OpenIsSomewhere' /\ NeverFails'
    BY DEF OpenIsSomewhere, OnItsWay, NeverFails, IsActive, Placed
  <2> QED BY <2>1, <2>2, <2>3, <2>4
<1>2. ASSUME NEW t \in Threads, Receive(t) \/ Step(t)
      PROVE  LifeInvariant'
  <2>1. WithinReach' /\ NothingLeftToDo' /\ CancelApart
    BY <1>2, WithinReachStep, NothingLeftToDoStep, CancelsStayApart
  <2>2. PassiveMatches' /\ TakenOut' /\ NotYetPlaced'
    BY <1>2, <2>1, PassiveMatchesStep, TakenOutStep, NotYetPlacedStep
  <2>3. InHandIsOpen' /\ RestingOpen'
    BY <1>2, <2>1, InHandIsOpenStep, RestingOpenStep
  <2>4. LimitHolds' /\ OpenIsSomewhere' /\ NeverFails'
    BY <1>2, <2>1, LimitHoldsStep, OpenIsSomewhereStep, NeverFailsStep
  <2> QED BY <2>1, <2>2, <2>3, <2>4
<1> QED BY <1>1, <1>2 DEF Next, Quiet

\* In every reachable state each open order has exactly the places it can be in, and
\* whoever is about to fill or cancel an order finds it as it found it.
THEOREM LifeInvariantHolds ==
  ASSUME OneModifier, CancelsApart
  PROVE  Spec => []LifeInvariant
<1>1. Init => LifeInvariant
  BY LifeInit
<1>2. EngineInvariant /\ BookInvariant /\ LifeInvariant /\ [Next]_vars => LifeInvariant'
  BY LifeStep
<1> QED BY <1>1, <1>2, EngineInvariantHolds, BookInvariantHolds, PTL DEF Spec

\* The matching loop meets no stale head: what rests and is in nobody's hands is open.
THEOREM RestingStaysOpen ==
  ASSUME OneModifier, CancelsApart
  PROVE  Spec => []RestingIsOpen
<1>1. LifeInvariant => RestingIsOpen
  BY DEF LifeInvariant, RestingOpen, RestingIsOpen, InHand
<1> QED BY <1>1, LifeInvariantHolds, PTL

\* No open order is lost between entry, matching, modification and cancel: once nobody
\* works on it, it rests in the book, unless it has no price, and is in the cache by id.
THEOREM OpenOrdersStay ==
  ASSUME OneModifier, CancelsApart
  PROVE  Spec => []OpenOrdersRest
<1>1. LifeInvariant /\ BookInvariant => OpenOrdersRest
  BY DEF LifeInvariant, BookInvariant, Priced, OpenIsSomewhere, OnItsWay, OpenOrdersRest, InHand
<1> QED BY <1>1, LifeInvariantHolds, BookInvariantHolds, PTL

\* A limit order never trades beyond its limit, although it is the best price that is
\* compared and the head of the then best level that is filled.
THEOREM LimitsHold ==
  ASSUME OneModifier, CancelsApart
  PROVE  Spec => LimitRespected
<1>1. ASSUME LifeInvariant, [Next]_vars
      PROVE  [\A t \in Threads : Trading(t) /\ order[cur[t]].ordType = "LIMIT" =>
                Accepts(cur[t], order[passive[t]].price)]_vars
  BY <1>1 DEF LifeInvariant, LimitHolds, Trading
<1> QED BY <1>1, LifeInvariantHolds, PTL DEF Spec, LimitRespected

\* A filled or cancelled order never changes state again, although neither Order.fill nor
\* the second half of Order.cancel looks at the state it overwrites.
THEOREM TerminalStays ==
  ASSUME OneModifier, CancelsApart
  PROVE  Spec => TerminalIsFinal
<1>1. ASSUME EngineInvariant, LifeInvariant, [Next]_vars,
             NEW o \in OrderIds, state[o] \in {"FILLED", "CANCELLED"}
      PROVE  state'[o] = state[o]
  <2>1. CASE UNCHANGED vars
    BY <2>1 DEF vars, sharedVars, orderVars
  <2>2. ASSUME NEW t \in Threads, Receive(t) \/ Step(t)
        PROVE  state'[o] = state[o]
    <3>1. o \in Placed
      BY <1>1 DEF LifeInvariant, NotYetPlaced
    <3>2. ~IsActive(o)
      BY <1>1 DEF IsActive, Active
    <3> QED BY <1>1, <2>2, <3>1, <3>2, StateChange, OpenChanges DEF EngineInvariant, LifeInvariant
  <2> QED BY <1>1, <2>1, <2>2 DEF Next, Quiet
<1>2. ASSUME EngineInvariant, LifeInvariant, [Next]_vars
      PROVE  [\A o \in OrderIds :
                state[o] \in {"FILLED", "CANCELLED"} => state'[o] = state[o]]_vars
  BY <1>1, <1>2
<1> QED BY <1>2, EngineInvariantHolds, LifeInvariantHolds, PTL DEF Spec, TerminalIsFinal

\* No call ends in an unexpected exception where modifications run apart, too: where who
\* modifies or cancels orders of a symbol is the only one to enter, modify or cancel
\* orders of it, as one connection that has its symbols for itself, or one for them all.
THEOREM CallsNeverFail ==
  ASSUME OneModifier, CancelsApart, \A t \in Threads : Apart(t, {"modify"})
  PROVE  Spec => []NoInternalError
<1>1. LifeInvariant => NoInternalError
  BY DEF LifeInvariant, NeverFails, NoInternalError
<1> QED BY <1>1, LifeInvariantHolds, PTL

-----------------------------------------------------------------------------
(* The promise of TradeLedger. *)

\* What the ledger sees of an order, and of the engine.
CommitmentOf(o) ==
  [user |-> order[o].user, symbol |-> order[o].symbol, side |-> order[o].side,
   limit |-> IF order[o].ordType = "LIMIT" THEN order[o].price ELSE None,
   qty |-> order[o].qty]
Commitments == [o \in OrderIds |-> IF o \notin Placed THEN None ELSE CommitmentOf(o)]
OpenOrders  == {o \in Placed : IsActive(o)}

\* The ledger's variables and its steps, in the engine's terms.
LEMMA LedgerIs ==
  /\ Ledger!LedgerInit <=>
       /\ Commitments = [o \in OrderIds |-> None] /\ OpenOrders = {}
       /\ cum = [o \in OrderIds |-> 0] /\ trades = <<>>
  /\ UNCHANGED <<Commitments, OpenOrders, cum, trades>> => UNCHANGED Ledger!ledgerVars
BY DEF Ledger!LedgerInit, Ledger!ledgerVars, Commitments, CommitmentOf, OpenOrders

\* ... placing an order,
LEMMA PlaceIs ==
  ASSUME NEW o, NEW c \in Ledger!Commitment, Commitments[o] = None,
         Commitments' = [Commitments EXCEPT ![o] = c], OpenOrders' = OpenOrders \union {o},
         UNCHANGED <<cum, trades>>
  PROVE  Ledger!Place(o)
BY DEF Ledger!Place, Commitments, CommitmentOf, OpenOrders

\* ... amending and closing it,
LEMMA AmendIs ==
  ASSUME NEW o \in OpenOrders, NEW limit \in Prices \union {None}, NEW q \in 1..MaxQty, q > cum[o],
         Commitments' = [Commitments EXCEPT ![o] = [@ EXCEPT !.limit = limit, !.qty = q]],
         OpenOrders' = OpenOrders, UNCHANGED <<cum, trades>>
  PROVE  Ledger!Amend(o)
BY DEF Ledger!Amend, Commitments, CommitmentOf, OpenOrders

\* An order that leaves the open ones with nothing executed is closed for the ledger.
LEMMA CloseIs ==
  ASSUME NEW o \in OpenOrders, OpenOrders' = OpenOrders \ {o}, Commitments' = Commitments,
         UNCHANGED <<cum, trades>>
  PROVE  Ledger!Close(o)
BY DEF Ledger!Close, Commitments, CommitmentOf, OpenOrders

\* ... and a deal.
LEMMA DealIs ==
  ASSUME NEW b, NEW s, NEW p, NEW q,
         {b, s} \subseteq OpenOrders,
         Commitments[b].side = "BUY", Commitments[s].side = "SELL",
         Commitments[b].symbol = Commitments[s].symbol,
         Commitments[b].user # Commitments[s].user,
         Commitments[b].limit = None \/ p <= Commitments[b].limit,
         Commitments[s].limit = None \/ p >= Commitments[s].limit,
         q <= Commitments[b].qty - cum[b], q <= Commitments[s].qty - cum[s],
         cum' = [cum EXCEPT ![b] = @ + q, ![s] = @ + q],
         OpenOrders' = OpenOrders \ {o \in {b, s} : Commitments[o].qty - cum[o] = q},
         trades' = Append(trades, [buy |-> b, sell |-> s, price |-> p, qty |-> q]),
         Commitments' = Commitments
  PROVE  Ledger!Deal(b, s, p, q)
BY DEF Ledger!Deal, Ledger!BuyerAccepts, Ledger!SellerAccepts, Ledger!Remaining, Commitments,
       CommitmentOf, OpenOrders

\* The ledger looks at the terms and the state of the orders that exist.
LEMMA SameForLedger ==
  /\ UNCHANGED <<nextId, order>> => Commitments' = Commitments
  /\ UNCHANGED <<nextId, state>> => OpenOrders' = OpenOrders
BY DEF Commitments, CommitmentOf, OpenOrders, Placed, IsActive

\* The order of a placed order, as the ledger has it.
LEMMA CommitmentIs ==
  ASSUME TypeOK, NEW o \in Placed
  PROVE  Commitments[o] = CommitmentOf(o) /\ o \in OrderIds
BY PlacedOrder DEF Commitments

\* The creation of an order places it.
LEMMA RegisterPlaces ==
  ASSUME TypeOK, CallsInProgress, NEW t \in Threads, Register(t), NEW n, n = nextId
  PROVE  Ledger!Place(n)
<1> DEFINE r == req[t]
           c == [user |-> r.user, symbol |-> r.symbol, side |-> r.side,
                 limit |-> IF r.ordType = "LIMIT" THEN r.price ELSE None, qty |-> r.qty]
<1>1. r \in NewRequest
  BY AtLabel DEF CallsInProgress
<1>2. c \in Ledger!Commitment
  BY <1>1 DEF NewRequest, Sides, Ledger!Commitment
<1>3. nextId \in OrderIds /\ nextId \notin Placed /\ Placed' = Placed \union {nextId}
  BY DEF Register, Placed, OrderIds
<1>4. Commitments[nextId] = None
  BY <1>3 DEF Commitments
<1>5. \A o \in OrderIds : Commitments'[o] = IF o = nextId THEN c ELSE Commitments[o]
  <2> SUFFICES ASSUME NEW o \in OrderIds
               PROVE  Commitments'[o] = IF o = nextId THEN c ELSE Commitments[o]
    OBVIOUS
  <2>1. CASE o = nextId
    <3>1. order'[nextId] =
            [user |-> r.user, symbol |-> r.symbol, side |-> r.side, orig |-> r.clOrdID,
             clOrdID |-> r.clOrdID, price |-> r.price, ordType |-> r.ordType, qty |-> r.qty]
      BY <1>3 DEF TypeOK, Register
    <3>2. [user |-> order'[nextId].user, symbol |-> order'[nextId].symbol,
           side |-> order'[nextId].side,
           limit |-> IF order'[nextId].ordType = "LIMIT" THEN order'[nextId].price ELSE None,
           qty |-> order'[nextId].qty] = c
      BY <3>1
    <3>3. Commitments'[nextId] =
            [user |-> order'[nextId].user, symbol |-> order'[nextId].symbol,
             side |-> order'[nextId].side,
             limit |-> IF order'[nextId].ordType = "LIMIT" THEN order'[nextId].price ELSE None,
             qty |-> order'[nextId].qty]
      BY <1>3 DEF Commitments, CommitmentOf
    <3> QED BY <2>1, <3>2, <3>3
  <2>2. CASE o # nextId
    <3>1. order'[o] = order[o] /\ (o \in Placed' <=> o \in Placed)
      BY <1>3, <2>2 DEF TypeOK, Register
    <3> QED BY <2>2, <3>1 DEF Commitments, CommitmentOf
  <2> QED BY <2>1, <2>2
<1>6. Commitments' = [Commitments EXCEPT ![nextId] = c]
  BY <1>5 DEF Commitments
<1>7. OpenOrders' = OpenOrders \union {nextId}
  <2>1. state'[nextId] = "LIVE" /\ \A o \in Placed : state'[o] = state[o]
    BY <1>3, PlacedOrder DEF TypeOK, Register
  <2> QED BY <1>3, <2>1 DEF OpenOrders, IsActive, Active
<1>8. UNCHANGED <<cum, trades>>
  BY DEF Register
<1>9. /\ Commitments[n] = None /\ Commitments' = [Commitments EXCEPT ![n] = c]
      /\ OpenOrders' = OpenOrders \union {n}
  BY <1>4, <1>6, <1>7
<1> HIDE DEF c
<1> QED BY <1>2, <1>8, <1>9, PlaceIs

\* A modification amends an open order, to more than was executed of it.
LEMMA ModifyAmends ==
  ASSUME TypeOK, CallsInProgress, QuantitiesAgree, NEW t \in Threads, EnterModify(t),
         NEW o, o = cur[t]
  PROVE  Ledger!Amend(o)
<1> DEFINE w == WithTerms(o, req[t])
           limit == IF w.ordType = "LIMIT" THEN w.price ELSE None
<1>1. o \in Placed /\ req[t] \in ModifyRequest /\ o \in OpenOrders
  BY AtLabel DEF CallsInProgress, EnterModify, OpenOrders
<1>2. /\ w \in Order /\ w.user = order[o].user /\ w.symbol = order[o].symbol
      /\ w.side = order[o].side /\ w.qty = IF req[t].qty = 0 THEN order[o].qty ELSE req[t].qty
  BY <1>1, WithTermsType
<1>3. w.qty \in 1..MaxQty /\ limit \in Prices \union {None}
  BY <1>2 DEF Order
<1>4. w.qty > cum[o]
  <2>1. leaves[o] + cum[o] = order[o].qty /\ leaves[o] + req[t].qty - order[o].qty > 0
    BY <1>1 DEF QuantitiesAgree, EnterModify, NewLeaves
  <2>2. leaves[o] \in Nat /\ cum[o] \in Nat /\ req[t].qty \in Nat /\ order[o].qty \in Nat
    BY <1>1, PlacedOrder DEF TypeOK, Order, ModifyRequest
  <2> QED BY <1>2, <2>1, <2>2
<1>5. UNCHANGED <<nextId, state, cum, trades>> /\ order' = [order EXCEPT ![o] = w]
  BY DEF EnterModify
<1>6. Commitments' = [Commitments EXCEPT ![o] = [@ EXCEPT !.limit = limit, !.qty = w.qty]]
  <2>1. \A p \in OrderIds : p # o => Commitments'[p] = Commitments[p]
    BY <1>5 DEF Commitments, CommitmentOf, Placed, TypeOK
  <2>2. Commitments[o] = CommitmentOf(o) /\ o \in OrderIds
    BY <1>1, CommitmentIs
  <2>3. order'[o] = w
    BY <1>5, <2>2 DEF TypeOK
  <2>4. Commitments'[o] = [user |-> order'[o].user, symbol |-> order'[o].symbol,
             side |-> order'[o].side,
             limit |-> IF order'[o].ordType = "LIMIT" THEN order'[o].price ELSE None,
             qty |-> order'[o].qty]
    BY <1>1, <1>5, <2>2 DEF Commitments, CommitmentOf, Placed
  <2>5. Commitments'[o] = [Commitments[o] EXCEPT !.limit = limit, !.qty = w.qty]
    <3>1. /\ Commitments[o] \in Ledger!Commitment /\ Commitments[o].user = order[o].user
          /\ Commitments[o].symbol = order[o].symbol /\ Commitments[o].side = order[o].side
      BY <1>1, <2>2, PlacedOrder DEF CommitmentOf, Order, Sides, Ledger!Commitment
    <3>2. Commitments'[o] = [user |-> order[o].user, symbol |-> order[o].symbol,
                             side |-> order[o].side, limit |-> limit, qty |-> w.qty]
      BY <1>2, <2>3, <2>4
    <3> DEFINE k == Commitments[o]
               a == [k EXCEPT !.limit = limit, !.qty = w.qty]
    <3> HIDE DEF k, limit, w
    <3>3. a \in Ledger!Commitment
      BY <1>3, <3>1, Zenon DEF Ledger!Commitment, k
    <3>4. /\ a.user = order[o].user /\ a.symbol = order[o].symbol /\ a.side = order[o].side
          /\ a.limit = limit /\ a.qty = w.qty
      BY <1>3, <3>1, SMT DEF Ledger!Commitment, k
    <3> HIDE DEF a
    <3>5. a = Commitments'[o]
      BY <3>2, <3>3, <3>4, SMT DEF Ledger!Commitment
    <3> QED BY <3>5, Zenon DEF a, k
  <2> QED BY <2>1, <2>2, <2>5 DEF Commitments
<1>7. OpenOrders' = OpenOrders
  BY <1>5, SameForLedger
<1> HIDE DEF limit, w
<1> QED BY <1>1, <1>3, <1>4, <1>5, <1>6, <1>7, AmendIs

\* Whatever cancels an open order closes it.
LEMMA CancelCloses ==
  ASSUME TypeOK, NEW o \in OpenOrders, state' = [state EXCEPT ![o] = "CANCELLED"],
         UNCHANGED <<nextId, order, cum, trades>>
  PROVE  Ledger!Close(o)
<1>1. o \in Placed
  BY DEF OpenOrders
<1>2. \A p \in Placed : state'[p] = IF p = o THEN "CANCELLED" ELSE state[p]
  BY <1>1, PlacedOrder DEF TypeOK
<1>3. Placed' = Placed
  BY DEF Placed
<1>4. OpenOrders' = OpenOrders \ {o}
  BY <1>2, <1>3 DEF OpenOrders, IsActive, Active
<1> QED BY <1>4, SameForLedger, CloseIs

\* A trade is a deal between two open orders, at a price that both accept.
LEMMA FillDeals ==
  ASSUME EngineInvariant, BookInvariant, LifeInvariant, NEW t \in Threads, Fill(t)
  PROVE  \E b, s \in OrderIds, p \in Prices, q \in 1..MaxQty : Ledger!Deal(b, s, p, q)
<1> USE DEF EngineInvariant
<1> DEFINE a == cur[t]
           m == passive[t]
           p == order[m].price
           q == FillQty(t)
           b == IF order[a].side = "BUY" THEN a ELSE m
           s == IF order[a].side = "BUY" THEN m ELSE a
<1>1. pc[t] = "fill"
  BY AtLabel
<1>2. /\ a \in Placed /\ m \in Placed /\ a # m /\ q \in Nat \ {0}
      /\ q <= leaves[a] /\ q <= leaves[m]
      /\ cum' = [cum EXCEPT ![a] = cum[a] + q, ![m] = cum[m] + q]
  BY FillQuantities
<1>3. /\ a \in OrderIds /\ m \in OrderIds /\ order[a] \in Order /\ order[m] \in Order
      /\ Commitments[a] = CommitmentOf(a) /\ Commitments[m] = CommitmentOf(m)
  BY <1>2, PlacedOrder, CommitmentIs
<1>4. /\ leaves[a] > 0 /\ order[m].symbol = order[a].symbol
      /\ order[m].side = Opposite(order[a].side) /\ order[m].user # order[a].user
  BY <1>1 DEF FillIsSafe
<1>5. IsActive(a) /\ IsActive(m)
  BY <1>1, <1>4 DEF LifeInvariant, InHandIsOpen, Matching
<1>6. p \in Prices /\ p \in Nat
  <2>1. m \in index /\ p # None
    BY <1>1 DEF LifeInvariant, BookInvariant, TakenOut, Priced
  <2> QED BY <1>3, <2>1, FlowAssumption DEF Order
<1>7. order[a].ordType = "LIMIT" => Accepts(a, p)
  BY <1>1 DEF LifeInvariant, LimitHolds
<1>8. /\ leaves[a] + cum[a] = order[a].qty /\ leaves[m] + cum[m] = order[m].qty
      /\ cum[a] \in Nat /\ cum[m] \in Nat /\ leaves[a] \in Nat /\ leaves[m] \in Nat
      /\ order[a].qty \in 1..MaxQty /\ order[m].qty \in 1..MaxQty
  BY <1>2, <1>3 DEF TypeOK, QuantitiesAgree, Order
<1>9. q \in 1..MaxQty
  BY <1>2, <1>8, FlowAssumption
<1>10. /\ b \in {a, m} /\ s \in {a, m} /\ b # s
       /\ order[b].side = "BUY" /\ order[s].side = "SELL"
  BY <1>2, <1>3, <1>4 DEF Order, Sides, Opposite
<1>11. /\ Commitments[b].limit = None \/ p <= Commitments[b].limit
       /\ Commitments[s].limit = None \/ p >= Commitments[s].limit
  <2>1. CASE order[a].side = "BUY"
    BY <1>3, <1>6, <1>7, <2>1 DEF CommitmentOf, Accepts
  <2>2. CASE order[a].side # "BUY"
    BY <1>3, <1>6, <1>7, <2>2 DEF CommitmentOf, Accepts
  <2> QED BY <2>1, <2>2
<1>12. Commitments[a].qty - cum[a] = leaves[a] /\ Commitments[m].qty - cum[m] = leaves[m]
  BY <1>3, <1>8 DEF CommitmentOf
<1>13. cum' = [cum EXCEPT ![b] = @ + q, ![s] = @ + q]
  BY <1>2, <1>3, <1>10 DEF TypeOK
<1>14. UNCHANGED <<nextId, order>>
       /\ trades' = Append(trades, [buy |-> b, sell |-> s, price |-> p, qty |-> q])
  BY DEF Fill, TradeOf
<1>15. OpenOrders' = OpenOrders \ {o \in {b, s} : Commitments[o].qty - cum[o] = q}
  <2>1. /\ state'[a] = StateAfterFill(a, q) /\ state'[m] = StateAfterFill(m, q)
        /\ \A o \in OrderIds : o # a /\ o # m => state'[o] = state[o]
    BY <1>2, <1>3 DEF TypeOK, Fill
  <2>2. /\ state'[a] \in Active <=> leaves[a] # q
        /\ state'[m] \in Active <=> leaves[m] # q
    BY <2>1 DEF StateAfterFill, Active
  <2>3. Placed' = Placed /\ \A o \in Placed : o \in OrderIds
    BY <1>14, PlacedOrder DEF Placed
  <2>4. {b, s} = {a, m}
    BY DEF b, s
  <2>5. \A o \in {a, m} : Commitments[o].qty - cum[o] = leaves[o]
    BY <1>12
  <2> HIDE DEF a, m, b, s, q
  <2>6. \A o \in Placed : state'[o] \in Active <=>
          state[o] \in Active /\ ~(o \in {b, s} /\ Commitments[o].qty - cum[o] = q)
    BY <1>5, <2>1, <2>2, <2>3, <2>4, <2>5 DEF IsActive
  <2> QED BY <2>3, <2>6 DEF OpenOrders, IsActive
<1>16. /\ {b, s} \subseteq OpenOrders
       /\ Commitments[b].side = "BUY" /\ Commitments[s].side = "SELL"
       /\ Commitments[b].symbol = Commitments[s].symbol
       /\ Commitments[b].user # Commitments[s].user
  BY <1>2, <1>3, <1>4, <1>5, <1>10 DEF CommitmentOf, OpenOrders
<1>17. q <= Commitments[b].qty - cum[b] /\ q <= Commitments[s].qty - cum[s]
  BY <1>2, <1>10, <1>12
<1>18. b \in OrderIds /\ s \in OrderIds
  BY <1>3
<1> HIDE DEF a, m, p, q, b, s
<1>19. Ledger!Deal(b, s, p, q)
  BY <1>11, <1>13, <1>14, <1>15, <1>16, <1>17, DealIs, SameForLedger
<1> QED BY <1>6, <1>9, <1>18, <1>19

\* Every step is one of the ledger's, or the ledger does not see it.
LEMMA LedgerStep ==
  ASSUME EngineInvariant, BookInvariant, LifeInvariant, [Next]_vars
  PROVE  [Ledger!LedgerNext]_(Ledger!ledgerVars)
<1> USE DEF EngineInvariant, LifeInvariant
<1>1. ASSUME UNCHANGED <<nextId, order, state, cum, trades>>
      PROVE  UNCHANGED Ledger!ledgerVars
  BY <1>1, SameForLedger, LedgerIs
<1>2. CASE UNCHANGED vars
  BY <1>1, <1>2 DEF vars, sharedVars, orderVars
<1>3. ASSUME NEW t \in Threads, Receive(t) \/ Step(t)
      PROVE  Ledger!LedgerNext \/ UNCHANGED Ledger!ledgerVars
  <2>1. CASE Register(t)
    <3>1. PICK n \in OrderIds : n = nextId
      BY <2>1 DEF Register
    <3>2. Ledger!Place(n)
      BY <2>1, <3>1, RegisterPlaces
    <3> QED BY <3>1, <3>2 DEF Ledger!LedgerNext
  <2>2. CASE EnterModify(t)
    <3>1. PICK o \in OrderIds : o = cur[t]
      BY <2>2, AtLabel, PlacedOrder DEF CallsInProgress
    <3>2. Ledger!Amend(o)
      BY <2>2, <3>1, ModifyAmends
    <3> QED BY <3>1, <3>2 DEF Ledger!LedgerNext
  <2>3. CASE Fill(t)
    BY <2>3, FillDeals DEF Ledger!LedgerNext
  <2>4. CASE ModifyToNothing(t)
    <3>1. cur[t] \in Placed /\ cur[t] \in OpenOrders
      BY <2>4, AtLabel DEF CallsInProgress, ModifyToNothing, Cancellable, OpenOrders, IsActive
    <3> QED BY <2>4, <3>1, CancelCloses, PlacedOrder DEF ModifyToNothing, Ledger!LedgerNext
  <2>5. CASE CancelOwnPassive(t)
    <3>1. passive[t] \in Placed /\ passive[t] \in OpenOrders
      BY <2>5, AtLabel DEF CallsInProgress, CancelOwnPassive, Cancellable, OpenOrders, IsActive
    <3> QED BY <2>5, <3>1, CancelCloses, PlacedOrder DEF CancelOwnPassive, Ledger!LedgerNext
  <2>6. CASE MarkCancelled(t)
    <3>1. cur[t] \in Placed /\ cur[t] \in OpenOrders
      BY <2>6, AtLabel DEF CallsInProgress, InHandIsOpen, OpenOrders
    <3> QED BY <2>6, <3>1, CancelCloses, PlacedOrder DEF MarkCancelled, Ledger!LedgerNext
  <2>7. CASE /\ ~Register(t) /\ ~EnterModify(t) /\ ~Fill(t)
             /\ ~ModifyToNothing(t) /\ ~CancelOwnPassive(t) /\ ~MarkCancelled(t)
    <3>1. UNCHANGED <<nextId, order, cum, trades>>
      BY <1>3, <2>7, Writers
    <3>2. \A o \in OrderIds : state'[o] = state[o]
      BY <1>3, <2>7, StateChange DEF StateChanges
    <3>3. UNCHANGED OpenOrders
      <4>1. Placed' = Placed /\ \A o \in Placed : o \in OrderIds
        BY <3>1, PlacedOrder DEF Placed
      <4> QED BY <3>2, <4>1 DEF OpenOrders, IsActive
    <3> QED BY <3>1, <3>3, SameForLedger, LedgerIs
  <2> QED BY <2>1, <2>2, <2>3, <2>4, <2>5, <2>6, <2>7
<1> QED BY <1>2, <1>3 DEF Next, Quiet

\* The engine keeps TradeLedger's promise: orders are placed once, amended and closed while
\* they are open, and executed only by deals that both sides accept.
THEOREM KeepsTheLedger ==
  ASSUME OneModifier, CancelsApart
  PROVE  Spec => ImplementsLedger
<1>1. Init => Ledger!LedgerInit
  BY LedgerIs DEF Init, Commitments, OpenOrders, Placed
<1>2. EngineInvariant /\ BookInvariant /\ LifeInvariant /\ [Next]_vars
        => [Ledger!LedgerNext]_(Ledger!ledgerVars)
  BY LedgerStep
<1> QED BY <1>1, <1>2, EngineInvariantHolds, BookInvariantHolds, LifeInvariantHolds, PTL
     DEF Spec, ImplementsLedger, Ledger!LedgerSpec

-----------------------------------------------------------------------------
(* An open order is found under its ClOrdID. *)

\* From the removal of its key to the new one a thread has the order in hand.
BeingModified(o) ==
  \E t \in Threads :
    /\ cur[t] = o
    /\ \/ pc[t] \in {"enterModify", "checkModified", "putModified"}
       \/ pc[t] \in Matching /\ IsModify(t)

\* The original ClOrdID of an order never changes, nor does any ClOrdID of one that is no
\* longer open.
Hides(p, o) ==
  \/ order[o].clOrdID = order[p].orig
  \/ order[o].clOrdID = order[p].clOrdID /\ ~IsActive(p)

FoundOrHidden ==
  \A o \in Placed : IsActive(o) =>
    \/ byClOrd[order[o].clOrdID] # None
    \/ BeingModified(o)
    \/ \E p \in Placed \ {o} : Hides(p, o)

\* How a key leaves the ClOrdID cache.
LEMMA KeyLost ==
  ASSUME TypeOK, CallsInProgress, NEW t \in Threads, Receive(t) \/ Step(t),
         NEW c \in ClOrdIDs, byClOrd[c] # None, byClOrd'[c] = None
  PROVE  \/ DropKey(t) /\ c = order[cur[t]].orig
         \/ Settle(t) /\ \E p \in {cur[t], passive[t]} : state[p] = "FILLED" /\ order[p].clOrdID = c
         \/ Uncache(t) /\ c = order[cur[t]].clOrdID
<1> USE DEF TypeOK
<1>1. ~UNCHANGED byClOrd
  OBVIOUS
<1>2. CASE DropKey(t) \/ Uncache(t)
  BY <1>2 DEF DropKey, Uncache
<1>3. CASE Settle(t)
  BY <1>3 DEF Settle
<1>4. CASE Register(t)
  <2>1. nextId # None
    BY <1>4, FlowAssumption DEF Register, OrderIds
  <2> QED BY <1>4, <2>1 DEF Register
<1>5. CASE Restore(t) \/ PutModified(t)
  <2>1. cur[t] # None
    <3>1. cur[t] \in Placed
      BY <1>5, AtLabel DEF CallsInProgress
    <3> QED BY <3>1, FlowAssumption DEF Placed
  <2> QED BY <1>5, <2>1 DEF Restore, PutModified
<1>6. CASE Receive(t)
  BY <1>1, <1>6 DEF Receive, CheckNew, CheckModify, CheckCancel, MassCancel, sharedVars, cacheVars
<1>7. CASE \/ Enrol(t) \/ EnterNew(t) \/ EnterModify(t) \/ ModifyToNothing(t) \/ ModifyTooLate(t)
           \/ CheckModified(t) \/ Unbook(t) \/ CheckStillOpen(t) \/ MarkCancelled(t) \/ Forget(t)
  BY <1>1, <1>7
     DEF Enrol, EnterNew, EnterModify, ModifyToNothing, ModifyTooLate, CheckModified, Unbook,
         CheckStillOpen, MarkCancelled, Forget, sharedVars, cacheVars
<1>8. CASE \/ Test(t) \/ Best(t) \/ NothingToPick(t) \/ DropStale(t) \/ PreventSelfTrade(t)
           \/ CheckOwnPassive(t) \/ CancelOwnPassive(t) \/ OwnPassiveGone(t) \/ Pick(t)
           \/ Fill(t) \/ Clear(t) \/ Rest(t)
  BY <1>1, <1>8
     DEF Test, Best, NothingToPick, DropStale, PreventSelfTrade, CheckOwnPassive,
         CancelOwnPassive, OwnPassiveGone, Pick, Fill, Clear, Rest, Throw, Unwind, sharedVars, cacheVars
<1> QED BY <1>2, <1>3, <1>4, <1>5, <1>6, <1>7, <1>8 DEF Step, Match

\* An order goes on hiding another one.
LEMMA HidesStep ==
  ASSUME TypeOK, CallsInProgress, FillIsSafe, InHandIsOpen,
         NEW t \in Threads, Receive(t) \/ Step(t),
         NEW o \in Placed, NEW p \in Placed, Hides(p, o), order'[o] = order[o]
  PROVE  Hides(p, o)'
<1>1. p \in OrderIds
  BY PlacedOrder
<1>2. order'[p].orig = order[p].orig
  <2>1. CASE EnterModify(t) /\ p = cur[t]
    <3>1. order'[p] = WithTerms(p, req[t]) /\ order[p] \in Order
      BY <1>1, <2>1, PlacedOrder DEF TypeOK, EnterModify
    <3> QED BY <3>1 DEF WithTerms, Order
  <2>2. CASE ~(EnterModify(t) /\ p = cur[t])
    BY <2>2, TermsKept
  <2> QED BY <2>1, <2>2
<1>3. ASSUME ~IsActive(p)
      PROVE  order'[p] = order[p] /\ state'[p] = state[p]
  <2>1. ~(EnterModify(t) /\ p = cur[t])
    BY <1>3 DEF EnterModify
  <2>2. state'[p] = state[p]
    BY <1>1, <1>3, StateChange, OpenChanges
  <2> QED BY <2>1, <2>2, TermsKept
<1>4. CASE order[o].clOrdID = order[p].orig
  BY <1>2, <1>4 DEF Hides
<1>5. CASE order[o].clOrdID = order[p].clOrdID /\ ~IsActive(p)
  BY <1>3, <1>5 DEF Hides, IsActive
<1> QED BY <1>4, <1>5 DEF Hides

\* A modification keeps its order in hand until it is found under its new ClOrdID.
LEMMA ModifiedIsFound ==
  ASSUME TypeOK, CallsInProgress, InHandIsOpen, LimitHolds,
         NEW t \in Threads, Receive(t) \/ Step(t),
         NEW o \in Placed, IsActive(o), state'[o] \in Active, BeingModified(o),
         order'[o] = order[o]
  PROVE  byClOrd'[order[o].clOrdID] # None \/ BeingModified(o)'
<1>1. PICK v \in Threads :
        /\ cur[v] = o
        /\ \/ pc[v] \in {"enterModify", "checkModified", "putModified"}
           \/ pc[v] \in Matching /\ IsModify(v)
  BY DEF BeingModified
<1>2. o \in OrderIds
  BY PlacedOrder
<1>3. CASE v # t
  <2>1. pc'[v] = pc[v] /\ cur'[v] = cur[v] /\ req'[v] = req[v]
    BY <1>3, OtherThreadsKept
  <2> QED BY <1>1, <2>1 DEF BeingModified, IsModify
<1>4. CASE v = t /\ pc[t] = "enterModify"
  <2>1. ~ModifyToNothing(t) /\ ~ModifyTooLate(t)
    BY <1>1, <1>2, <1>4 DEF TypeOK, ModifyToNothing, ModifyTooLate, Active
  <2>2. EnterModify(t)
    BY <1>4, <2>1, AtLabel DEF Step, Match
  <2>3. pc'[t] = "test" /\ cur'[t] = o /\ IsModify(t)'
    BY <1>1, <1>4, <2>2 DEF TypeOK, CallsInProgress, EnterModify, Goto, callVars, ModifyRequest, IsModify
  <2> QED BY <2>3 DEF BeingModified, Matching
<1>5. CASE v = t /\ pc[t] \in Matching
  <2>1. Match(t) /\ cur[t] = o /\ IsModify(t)
    BY <1>1, <1>5, AtLabel DEF Step, Matching
  <2>2. /\ pc'[t] \in Matching \/ pc'[t] = "checkModified"
        /\ cur'[t] = cur[t] /\ req'[t] = req[t]
    BY <2>1, NoThrow
       DEF TypeOK, Match, Test, NothingToPick, DropStale, PreventSelfTrade, CheckOwnPassive,
           CancelOwnPassive, Pick, Fill, Settle, Clear, Rest, Goto, callVars, Matching
  <2> QED BY <2>1, <2>2 DEF BeingModified, IsModify
<1>6. CASE v = t /\ pc[t] = "checkModified"
  <2>1. CheckModified(t)
    BY <1>6, AtLabel DEF Step, Match
  <2>2. pc'[t] = "putModified" /\ cur'[t] = o
    BY <1>1, <1>6, <2>1 DEF TypeOK, CheckModified, Goto, callVars
  <2> QED BY <2>2 DEF BeingModified
<1>7. CASE v = t /\ pc[t] = "putModified"
  <2>1. PutModified(t)
    BY <1>7, AtLabel DEF Step, Match
  <2>2. order[o].clOrdID \in ClOrdIDs /\ o # None
    BY PlacedOrder, FlowAssumption DEF Placed
  <2> QED BY <1>1, <1>7, <2>1, <2>2 DEF TypeOK, PutModified
<1> QED BY <1>1, <1>3, <1>4, <1>5, <1>6, <1>7

\* No step makes an open order unfindable, but for one that another order hides.
LEMMA FoundOrHiddenStep ==
  ASSUME TypeOK, CallsInProgress, FillIsSafe, InHandIsOpen, LimitHolds, FoundOrHidden,
         NEW t \in Threads, Receive(t) \/ Step(t)
  PROVE  FoundOrHidden'
<1> SUFFICES ASSUME NEW o \in Placed', state'[o] \in Active
             PROVE  \/ byClOrd'[order'[o].clOrdID] # None
                    \/ BeingModified(o)'
                    \/ \E p \in Placed' \ {o} : Hides(p, o)'
  BY DEF FoundOrHidden, IsActive
<1>1. CASE o \notin Placed
  <2>1. Register(t)
    BY <1>1, Writers DEF Placed
  <2>2. o = nextId /\ nextId \in OrderIds
    BY <1>1, <2>1 DEF TypeOK, Register, Placed, OrderIds
  <2>3. req[t] \in NewRequest
    BY <2>1, AtLabel DEF CallsInProgress
  <2>4. order'[o].clOrdID = req[t].clOrdID /\ byClOrd'[req[t].clOrdID] = o
    BY <2>1, <2>2, <2>3 DEF TypeOK, Register, NewRequest
  <2> QED BY <2>2, <2>4, FlowAssumption DEF OrderIds
<1>2. CASE o \in Placed /\ EnterModify(t) /\ o = cur[t]
  <2>1. pc'[t] = "test" /\ cur'[t] = o /\ IsModify(t)'
    BY <1>2, AtLabel DEF TypeOK, CallsInProgress, EnterModify, Goto, callVars, ModifyRequest, IsModify
  <2> QED BY <2>1 DEF BeingModified, Matching
<1>3. CASE o \in Placed /\ ~(EnterModify(t) /\ o = cur[t])
  <2>1. order'[o] = order[o] /\ o \in OrderIds /\ order[o].clOrdID \in ClOrdIDs
    BY <1>3, TermsKept, PlacedOrder
  <2>2. IsActive(o)
    BY <1>3, <2>1, StateChange, OpenChanges DEF IsActive
  <2>3. ASSUME NEW p \in Placed \ {o}, Hides(p, o)
        PROVE  \E w \in Placed' \ {o} : Hides(w, o)'
    BY <1>3, <2>1, <2>3, HidesStep, OrdersKept
  <2>4. CASE BeingModified(o)
    BY <1>3, <2>1, <2>2, <2>4, ModifiedIsFound
  <2>5. CASE byClOrd[order[o].clOrdID] # None /\ byClOrd'[order[o].clOrdID] = None
    <3>1. CASE DropKey(t) /\ order[o].clOrdID = order[cur[t]].orig
      <4>1. CASE cur[t] = o
        <5>1. pc'[t] = "enterModify" /\ cur'[t] = o
          BY <3>1, <4>1 DEF TypeOK, DropKey, Goto, callVars
        <5> QED BY <5>1 DEF BeingModified
      <4>2. CASE cur[t] # o
        <5>1. cur[t] \in Placed
          BY <3>1, AtLabel DEF CallsInProgress
        <5> QED BY <2>3, <3>1, <4>2, <5>1 DEF Hides
      <4> QED BY <4>1, <4>2
    <3>2. CASE Settle(t) /\ \E p \in {cur[t], passive[t]} :
                 state[p] = "FILLED" /\ order[p].clOrdID = order[o].clOrdID
      <4>1. PICK p \in {cur[t], passive[t]} :
              state[p] = "FILLED" /\ order[p].clOrdID = order[o].clOrdID
        BY <3>2
      <4>2. p \in Placed /\ p # o /\ ~IsActive(p)
        BY <2>2, <3>2, <4>1, AtLabel DEF CallsInProgress, IsActive, Active
      <4> QED BY <2>3, <4>1, <4>2 DEF Hides
    <3>3. CASE Uncache(t) /\ order[o].clOrdID = order[cur[t]].clOrdID
      <4>1. cur[t] \in Placed /\ ~IsActive(cur[t]) /\ cur[t] # o
        BY <2>2, <3>3, AtLabel DEF CallsInProgress, InHandIsOpen
      <4> QED BY <2>3, <3>3, <4>1 DEF Hides
    <3> QED BY <2>1, <2>5, <3>1, <3>2, <3>3, KeyLost
  <2> QED BY <1>3, <2>1, <2>2, <2>3, <2>4, <2>5 DEF FoundOrHidden
<1> QED BY <1>1, <1>2, <1>3

\* An open order nobody works on is found under its ClOrdID, unless another order that
\* carries or carried the same one hides it.
THEOREM OpenOrdersStayFound ==
  ASSUME OneModifier, CancelsApart
  PROVE  Spec => []OpenOrdersAreFound
<1>1. Init => FoundOrHidden
  BY DEF Init, FoundOrHidden, Placed
<1>2. ASSUME EngineInvariant, LifeInvariant, FoundOrHidden, [Next]_vars
      PROVE  FoundOrHidden'
  <2>1. CASE UNCHANGED vars
    BY <1>2, <2>1
       DEF vars, sharedVars, orderVars, cacheVars, callVars, FoundOrHidden, BeingModified, Hides,
           Placed, IsActive, IsModify
  <2>2. ASSUME NEW t \in Threads, Receive(t) \/ Step(t)
        PROVE  FoundOrHidden'
    BY <1>2, <2>2, FoundOrHiddenStep DEF EngineInvariant, LifeInvariant
  <2> QED BY <1>2, <2>1, <2>2 DEF Next, Quiet
<1>3. FoundOrHidden => OpenOrdersAreFound
  BY DEF FoundOrHidden, OpenOrdersAreFound, BeingModified, Hides, InHand
<1> QED BY <1>1, <1>2, <1>3, EngineInvariantHolds, LifeInvariantHolds, PTL DEF Spec

-----------------------------------------------------------------------------
(* One open order to a ClOrdID. *)

\* Orders keep the ClOrdIDs they are entered with.
NoModifies == \A t \in Threads : \A r \in Requests[t] : r.op # "modify"

\* Two threads do not enter orders under one ClOrdID; each may use its own again.
OwnClOrdIDs ==
  \A t, u \in Threads : \A r \in Requests[t], q \in Requests[u] :
    t # u /\ r.op = "new" /\ q.op = "new" => r.clOrdID # q.clOrdID

\* No thread is at a step of processModifyOrder.
NothingModified ==
  \A t \in Threads : pc[t] \notin Modifying \union {"checkModified", "putModified", "restore"}

\* An open order is found under its ClOrdID, and one that was filled or cancelled still is
\* when its key goes; the ClOrdID of an order about to be registered is free.
KeysLead ==
  /\ \A o \in Placed : IsActive(o) => byClOrd[order[o].clOrdID] = o
  /\ \A t \in Threads :
       /\ pc[t] = "register" => req[t] \in Requests[t] /\ byClOrd[req[t].clOrdID] = None
       /\ pc[t] = "settle" =>
            \A p \in {cur[t], passive[t]} : state[p] = "FILLED" => byClOrd[order[p].clOrdID] = p
       /\ pc[t] = "uncache" => byClOrd[order[cur[t]].clOrdID] = cur[t]

\* Without a request to modify no thread gets to modify.
LEMMA NothingModifiedStep ==
  ASSUME NoModifies, TypeOK, WithinReach, NothingModified, NEW t \in Threads, Receive(t) \/ Step(t)
  PROVE  NothingModified'
<1> SUFFICES ASSUME NEW u \in Threads
             PROVE  pc'[u] \notin Modifying \union {"checkModified", "putModified", "restore"}
  BY DEF NothingModified
<1>1. CASE u # t
  BY <1>1, OtherThreadsKept DEF NothingModified
<1>2. CASE u = t /\ Receive(t)
  BY <1>2 DEF TypeOK, Receive, CheckNew, CheckModify, CheckCancel, MassCancel, NoModifies, Return,
              Modifying
<1>3. CASE u = t /\ Match(t)
  <2>1. pc[t] \in Holding
    BY <1>3, AtLabel DEF Match, Holding, Matching
  <2>2. ~IsModify(t)
    BY <2>1 DEF NoModifies, WithinReach, IsModify
  <2> QED BY <1>3, <2>2
       DEF TypeOK, Match, Test, Best, NothingToPick, DropStale, PreventSelfTrade, CheckOwnPassive,
           CancelOwnPassive, OwnPassiveGone, Pick, Fill, Settle, Clear, Rest, Throw, Unwind, Goto, Return, Modifying
<1>4. CASE u = t /\ (Register(t) \/ Enrol(t) \/ EnterNew(t))
  BY <1>4 DEF TypeOK, Register, Enrol, EnterNew, Goto, Modifying
<1>5. CASE u = t /\ \/ Unbook(t) \/ CheckStillOpen(t) \/ MarkCancelled(t) \/ Uncache(t) \/ Forget(t)
  BY <1>5 DEF TypeOK, Unbook, CheckStillOpen, MarkCancelled, Uncache, Forget, Goto, Proceed, Return,
              Modifying
<1>6. ~(\/ DropKey(t) \/ EnterModify(t) \/ ModifyToNothing(t) \/ ModifyTooLate(t)
        \/ CheckModified(t) \/ PutModified(t) \/ Restore(t))
  BY AtLabel DEF NothingModified, Modifying
<1> QED BY <1>1, <1>2, <1>3, <1>4, <1>5, <1>6 DEF Step

\* How a key changes where nothing is modified.
LEMMA KeyChange ==
  ASSUME TypeOK, CallsInProgress, NothingModified, NEW t \in Threads, Receive(t) \/ Step(t),
         NEW c \in ClOrdIDs, byClOrd'[c] # byClOrd[c]
  PROVE  \/ Register(t) /\ c = req[t].clOrdID
         \/ Settle(t) /\ \E p \in {cur[t], passive[t]} : state[p] = "FILLED" /\ order[p].clOrdID = c
         \/ Uncache(t) /\ c = order[cur[t]].clOrdID
<1>1. CASE byClOrd'[c] = None
  BY <1>1, KeyLost, AtLabel DEF NothingModified, Modifying
<1>2. CASE byClOrd'[c] # None
  <2>1. ~UNCHANGED byClOrd
    OBVIOUS
  <2>2. CASE Register(t)
    BY <2>2 DEF TypeOK, Register
  <2>3. ~(DropKey(t) \/ Restore(t) \/ PutModified(t))
    BY AtLabel DEF NothingModified, Modifying
  <2>4. ~(Settle(t) \/ Uncache(t))
    BY <1>2 DEF TypeOK, Settle, Clear, Uncache
  <2>5. ~Receive(t)
    BY <2>1 DEF Receive, CheckNew, CheckModify, CheckCancel, MassCancel, sharedVars, cacheVars
  <2>6. ~(\/ Enrol(t) \/ EnterNew(t) \/ EnterModify(t) \/ ModifyToNothing(t)
          \/ ModifyTooLate(t) \/ CheckModified(t) \/ Unbook(t) \/ CheckStillOpen(t)
          \/ MarkCancelled(t) \/ Forget(t))
    BY <2>1
       DEF Enrol, EnterNew, EnterModify, ModifyToNothing, ModifyTooLate, CheckModified, Unbook,
           CheckStillOpen, MarkCancelled, Forget, sharedVars, cacheVars
  <2>7. ~(\/ Test(t) \/ Best(t) \/ NothingToPick(t) \/ DropStale(t) \/ PreventSelfTrade(t)
          \/ CheckOwnPassive(t) \/ CancelOwnPassive(t) \/ OwnPassiveGone(t) \/ Pick(t)
          \/ Fill(t) \/ Clear(t) \/ Rest(t))
    BY <2>1
       DEF Test, Best, NothingToPick, DropStale, PreventSelfTrade, CheckOwnPassive,
           CancelOwnPassive, OwnPassiveGone, Pick, Fill, Clear, Rest, Throw, Unwind, sharedVars, cacheVars
  <2> QED BY <2>2, <2>3, <2>4, <2>5, <2>6, <2>7 DEF Step, Match
<1> QED BY <1>1, <1>2

\* A key goes only when it leads to the order of the thread that takes it away.
LEMMA KeyTaken ==
  ASSUME TypeOK, CallsInProgress, NothingModified, PassiveMatches, KeysLead,
         NEW t \in Threads, Receive(t) \/ Step(t),
         NEW o \in Placed, byClOrd[order[o].clOrdID] = o, byClOrd'[order[o].clOrdID] # o
  PROVE  /\ order[cur[t]].symbol = order[o].symbol
         /\ \/ pc[t] = "settle" /\ state[o] = "FILLED"
            \/ pc[t] = "uncache" /\ o = cur[t]
<1>1. order[o].clOrdID \in ClOrdIDs /\ o # None
  BY PlacedOrder, FlowAssumption DEF Placed
<1>2. CASE Register(t) /\ order[o].clOrdID = req[t].clOrdID
  BY <1>1, <1>2, AtLabel DEF KeysLead
<1>3. CASE Settle(t) /\ \E p \in {cur[t], passive[t]} :
             state[p] = "FILLED" /\ order[p].clOrdID = order[o].clOrdID
  <2>1. pc[t] = "settle"
    BY <1>3, AtLabel
  <2>2. o \in {cur[t], passive[t]} /\ state[o] = "FILLED"
    BY <1>3, <2>1 DEF KeysLead
  <2> QED BY <2>1, <2>2 DEF PassiveMatches, WithPassive
<1>4. CASE Uncache(t) /\ order[o].clOrdID = order[cur[t]].clOrdID
  <2>1. pc[t] = "uncache"
    BY <1>4, AtLabel
  <2> QED BY <1>4, <2>1 DEF KeysLead
<1> QED BY <1>1, <1>2, <1>3, <1>4, KeyChange

\* Nobody else takes the key of an order that a thread settles or has cancelled.
LEMMA KeyKept ==
  ASSUME TypeOK, CallsInProgress, MonitorDiscipline, NothingModified, PassiveMatches, CancelApart,
         KeysLead, NEW t \in Threads, Receive(t) \/ Step(t),
         NEW u \in Threads, u # t, pc[u] \in {"settle", "uncache"},
         NEW o \in Placed, order[o].symbol = order[cur[u]].symbol, byClOrd[order[o].clOrdID] = o
  PROVE  byClOrd'[order[o].clOrdID] = o
<1> SUFFICES ASSUME byClOrd'[order[o].clOrdID] # o
             PROVE  FALSE
  OBVIOUS
<1>1. /\ order[cur[t]].symbol = order[cur[u]].symbol
      /\ pc[t] \in {"settle", "uncache"}
  BY KeyTaken
<1>2. order[o].symbol \in Symbols
  BY PlacedOrder
<1>3. CASE pc[t] = "uncache" \/ pc[u] = "uncache"
  BY <1>1, <1>3, NoCancelMeanwhile DEF Cancelling, Holding, Matching
<1>4. CASE pc[t] = "settle" /\ pc[u] = "settle"
  BY <1>1, <1>2, <1>4 DEF MonitorDiscipline, Matching
<1> QED BY <1>1, <1>3, <1>4

\* The labels of KeysLead are entered in one way each.
LEMMA NoOtherWayIn ==
  ASSUME TypeOK, NEW t \in Threads, Receive(t) \/ Step(t)
  PROVE  /\ pc'[t] = "register" => Receive(t)
         /\ pc'[t] = "settle" => Fill(t)
         /\ pc'[t] = "uncache" => MarkCancelled(t)
<1> USE DEF TypeOK
<1>1. CASE Receive(t)
  BY <1>1, Zenon DEF Receive, CheckNew, CheckModify, CheckCancel, MassCancel, Return
<1>2. CASE Register(t) \/ Enrol(t) \/ EnterNew(t) \/ Fill(t) \/ MarkCancelled(t)
  BY <1>2 DEF Register, Enrol, EnterNew, Fill, MarkCancelled, Goto
<1>3. CASE DropKey(t) \/ EnterModify(t) \/ ModifyToNothing(t) \/ ModifyTooLate(t)
  BY <1>3 DEF DropKey, EnterModify, ModifyToNothing, ModifyTooLate, Goto
<1>4. CASE CheckModified(t) \/ PutModified(t) \/ Restore(t)
  BY <1>4 DEF CheckModified, PutModified, Restore, Goto, Return
<1>5. CASE Unbook(t) \/ CheckStillOpen(t) \/ Uncache(t) \/ Forget(t)
  BY <1>5 DEF Unbook, CheckStillOpen, Uncache, Forget, Goto, Proceed, Return
<1>6. CASE \/ Test(t) \/ Best(t) \/ NothingToPick(t) \/ DropStale(t) \/ PreventSelfTrade(t)
           \/ CheckOwnPassive(t) \/ CancelOwnPassive(t) \/ OwnPassiveGone(t) \/ Pick(t)
           \/ Settle(t) \/ Clear(t) \/ Rest(t)
  BY <1>6 DEF Test, Best, NothingToPick, DropStale, PreventSelfTrade, CheckOwnPassive,
              CancelOwnPassive, OwnPassiveGone, Pick, Settle, Clear, Rest, Throw, Unwind, Goto, Return
<1> QED BY <1>1, <1>2, <1>3, <1>4, <1>5, <1>6 DEF Step, Match

\* KeysLead is inductive.
LEMMA KeysLeadStep ==
  ASSUME OwnClOrdIDs, CancelsApart, EngineInvariant, LifeInvariant, NothingModified, KeysLead,
         NEW t \in Threads, Receive(t) \/ Step(t)
  PROVE  KeysLead'
<1>0. /\ TypeOK /\ CallsInProgress /\ MonitorDiscipline /\ FillIsSafe
      /\ PassiveMatches /\ InHandIsOpen /\ CancelApart
  BY CancelsStayApart DEF EngineInvariant, LifeInvariant
<1>1. ~EnterModify(t)
  BY AtLabel DEF NothingModified, Modifying
<1>2. ASSUME NEW o \in Placed
      PROVE  /\ order'[o] = order[o] /\ o \in OrderIds /\ order[o].clOrdID \in ClOrdIDs
             /\ o # None
  BY <1>0, <1>1, TermsKept, PlacedOrder, FlowAssumption DEF Placed
<1>3. ASSUME NEW o \in Placed', state'[o] \in Active
      PROVE  byClOrd'[order'[o].clOrdID] = o
  <2>1. CASE o \notin Placed
    <3>1. Register(t)
      BY <2>1, Writers DEF Placed
    <3>2. o = nextId /\ nextId \in OrderIds
      BY <1>0, <1>3, <2>1, <3>1 DEF TypeOK, Register, Placed, OrderIds
    <3>3. req[t] \in NewRequest
      BY <1>0, <3>1, AtLabel DEF CallsInProgress
    <3> QED BY <1>0, <3>1, <3>2, <3>3 DEF TypeOK, Register, NewRequest
  <2>2. CASE o \in Placed
    <3>1. IsActive(o)
      BY <1>0, <1>2, <1>3, <2>2, StateChange, OpenChanges DEF IsActive
    <3>2. byClOrd[order[o].clOrdID] = o
      BY <2>2, <3>1 DEF KeysLead
    <3>3. ~(pc[t] = "settle" /\ state[o] = "FILLED") /\ ~(pc[t] = "uncache" /\ o = cur[t])
      BY <1>0, <3>1 DEF InHandIsOpen, IsActive, Active
    <3> QED BY <1>0, <1>2, <2>2, <3>2, <3>3, KeyTaken
  <2> QED BY <2>1, <2>2
<1>4. ASSUME NEW u \in Threads, pc'[u] = "register"
      PROVE  req'[u] \in Requests[u] /\ byClOrd'[req'[u].clOrdID] = None
  <2>1. CASE u = t
    <3>1. Receive(t)
      BY <1>0, <1>4, <2>1, NoOtherWayIn
    <3> QED BY <1>0, <1>4, <2>1, <3>1
         DEF TypeOK, Receive, CheckNew, CheckModify, CheckCancel, MassCancel, Return, NewDuplicate,
             sharedVars, cacheVars
  <2>2. CASE u # t
    <3>1. pc[u] = "register" /\ req'[u] = req[u]
      BY <1>0, <1>4, <2>2, OtherThreadsKept
    <3>2. req[u] \in Requests[u] /\ req[u] \in NewRequest /\ byClOrd[req[u].clOrdID] = None
      BY <1>0, <3>1 DEF KeysLead, CallsInProgress
    <3>3. req[u].clOrdID \in ClOrdIDs /\ req[u].op = "new"
      BY <3>2 DEF NewRequest
    <3>4. CASE byClOrd'[req[u].clOrdID] # byClOrd[req[u].clOrdID]
      <4>1. CASE Register(t) /\ req[u].clOrdID = req[t].clOrdID
        <5>1. pc[t] = "register"
          BY <4>1, AtLabel
        <5>2. req[t] \in Requests[t] /\ req[t].op = "new"
          BY <1>0, <5>1 DEF KeysLead, CallsInProgress, NewRequest
        <5> QED BY <2>2, <3>2, <3>3, <4>1, <5>2 DEF OwnClOrdIDs
      <4>2. CASE Settle(t) \/ Uncache(t)
        BY <1>0, <3>2, <3>3, <3>4, <4>2 DEF TypeOK, Settle, Clear, Uncache
      <4> QED BY <1>0, <3>3, <3>4, <4>1, <4>2, KeyChange
    <3> QED BY <3>1, <3>2, <3>4
  <2> QED BY <2>1, <2>2
<1>5. ASSUME NEW u \in Threads, pc'[u] = "settle", NEW p \in {cur'[u], passive'[u]},
             state'[p] = "FILLED"
      PROVE  byClOrd'[order'[p].clOrdID] = p
  <2>1. CASE u = t
    <3>1. Fill(t)
      BY <1>0, <1>5, <2>1, NoOtherWayIn
    <3>2. p \in {cur[t], passive[t]} /\ pc[t] = "fill" /\ byClOrd' = byClOrd
      BY <1>5, <2>1, <3>1, AtLabel DEF Fill, callVars, cacheVars
    <3>3. IsActive(p) /\ p \in Placed
      BY <1>0, <3>2 DEF InHandIsOpen, FillIsSafe, CallsInProgress, Matching
    <3> QED BY <1>2, <3>2, <3>3 DEF KeysLead
  <2>2. CASE u # t
    <3>1. pc[u] = "settle" /\ p \in {cur[u], passive[u]}
      BY <1>0, <1>5, <2>2, OtherThreadsKept
    <3>2. p \in Placed /\ order[p].symbol = order[cur[u]].symbol
      BY <1>0, <3>1 DEF CallsInProgress, PassiveMatches, WithPassive
    <3>3. state[p] = "FILLED"
      BY <1>0, <1>5, <2>2, <3>1, <3>2, StateGuarded DEF Matching
    <3>4. byClOrd[order[p].clOrdID] = p
      BY <3>1, <3>3 DEF KeysLead
    <3> QED BY <1>0, <1>2, <2>2, <3>1, <3>2, <3>4, KeyKept
  <2> QED BY <2>1, <2>2
<1>6. ASSUME NEW u \in Threads, pc'[u] = "uncache"
      PROVE  byClOrd'[order'[cur'[u]].clOrdID] = cur'[u]
  <2>1. CASE u = t
    <3>1. MarkCancelled(t)
      BY <1>0, <1>6, <2>1, NoOtherWayIn
    <3>2. cur'[t] = cur[t] /\ pc[t] = "markCancelled" /\ byClOrd' = byClOrd
      BY <3>1, AtLabel DEF MarkCancelled, callVars, cacheVars
    <3>3. IsActive(cur[t]) /\ cur[t] \in Placed
      BY <1>0, <3>2 DEF InHandIsOpen, CallsInProgress
    <3> QED BY <1>2, <2>1, <3>2, <3>3 DEF KeysLead
  <2>2. CASE u # t
    <3>1. pc[u] = "uncache" /\ cur'[u] = cur[u]
      BY <1>0, <1>6, <2>2, OtherThreadsKept
    <3>2. cur[u] \in Placed /\ byClOrd[order[cur[u]].clOrdID] = cur[u]
      BY <1>0, <3>1 DEF CallsInProgress, KeysLead
    <3> QED BY <1>0, <1>2, <2>2, <3>1, <3>2, KeyKept
  <2> QED BY <2>1, <2>2
<1> QED BY <1>3, <1>4, <1>5, <1>6 DEF KeysLead, IsActive

\* One ClOrdID leads to one open order, where each thread enters orders under ClOrdIDs of
\* its own and nobody modifies: the duplicate check is then as good as one made with the put.
THEOREM ClOrdIDsStayUnique ==
  ASSUME NoModifies, OwnClOrdIDs, CancelsApart
  PROVE  Spec => []UniqueOpenClOrdID
<1>1. OneModifier
  BY DEF OneModifier, NoModifies
<1>2. Init => NothingModified /\ KeysLead
  BY DEF Init, NothingModified, KeysLead, Placed, Modifying
<1>3. ASSUME EngineInvariant, LifeInvariant, NothingModified, KeysLead, [Next]_vars
      PROVE  NothingModified' /\ KeysLead'
  <2>1. CASE UNCHANGED vars
    BY <1>3, <2>1
       DEF vars, sharedVars, orderVars, cacheVars, callVars, NothingModified, KeysLead, Placed,
           IsActive
  <2>2. ASSUME NEW t \in Threads, Receive(t) \/ Step(t)
        PROVE  NothingModified' /\ KeysLead'
    BY <1>3, <2>2, NothingModifiedStep, KeysLeadStep DEF EngineInvariant, LifeInvariant
  <2> QED BY <1>3, <2>1, <2>2 DEF Next, Quiet
<1>4. KeysLead => UniqueOpenClOrdID
  BY DEF KeysLead, UniqueOpenClOrdID
<1> QED BY <1>1, <1>2, <1>3, <1>4, EngineInvariantHolds, LifeInvariantHolds, PTL DEF Spec
=============================================================================
