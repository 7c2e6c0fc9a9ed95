--------------------------- MODULE Trades_proofs ---------------------------
(***************************************************************************)
(* Proofs about the history of trades, for any number of threads and       *)
(* whatever cancels and modifications interleave: what the trades add up   *)
(* to is what the orders say, and no user ever traded with himself.        *)
(*                                                                         *)
(* A sum over the trades is a recursive function on their numbers.  That   *)
(* there is such a function, and only one, is proved by taking the least   *)
(* number for which it fails.                                              *)
(***************************************************************************)
EXTENDS OrderFlow_proofs

Trade == [buy: OrderIds, sell: OrderIds, price: Prices \union {None}, qty: Nat \ {0}]

\* A trade joins a buyer and a seller of one symbol, who are two users.
Fair(tr) ==
  /\ {tr.buy, tr.sell} \subseteq Placed
  /\ order[tr.buy].side = "BUY" /\ order[tr.sell].side = "SELL"
  /\ order[tr.buy].symbol = order[tr.sell].symbol
  /\ order[tr.buy].user # order[tr.sell].user

TradesAreFair ==
  /\ trades \in Seq(Trade)
  /\ \A i \in 1..Len(trades) : Fair(trades[i])

-----------------------------------------------------------------------------
(* The sum of what the trades of a sequence execute of an order. *)

Sums(f, o, s) == f = [n \in 0..Len(s) |-> IF n = 0 THEN 0 ELSE f[n - 1] + QtyFor(o, s[n])]

\* A non-empty set of numbers has a least one.
LEMMA LeastOfNats ==
  ASSUME NEW S \in SUBSET Nat, S # {}
  PROVE  \E m \in S : \A n \in S : m <= n
<1> DEFINE R == {ss \in Nat \X Nat : ss[1] < ss[2]}
<1>1. IsWellFoundedOn(R, Nat)
  BY NatLessThanWellFounded DEF OpToRel
<1>2. \A m, n \in Nat : <<n, m>> \notin R => m <= n
  OBVIOUS
<1> HIDE DEF R
<1>3. \E m \in S : \A n \in S : <<n, m>> \notin R
  BY <1>1, WFMin
<1> QED BY <1>2, <1>3

\* The recursion over the trades defines a function.
LEMMA SumsExist ==
  ASSUME NEW o, NEW s \in Seq(Trade)
  PROVE  \E f \in [0..Len(s) -> Nat] : Sums(f, o, s)
<1> DEFINE Upto(f, m) == f = [n \in 0..m |-> IF n = 0 THEN 0 ELSE f[n - 1] + QtyFor(o, s[n])]
           Bad == {m \in 0..Len(s) : ~ \E f \in [0..m -> Nat] : Upto(f, m)}
<1>1. Len(s) \in Nat /\ \A n \in 1..Len(s) : QtyFor(o, s[n]) \in Nat
  <2>1. Len(s) \in Nat /\ \A n \in 1..Len(s) : s[n] \in Trade
    OBVIOUS
  <2>2. \A tr \in Trade : tr.qty \in Nat
    BY DEF Trade
  <2> QED BY <2>1, <2>2 DEF QtyFor
<1>2. SUFFICES ASSUME Bad # {}
               PROVE  FALSE
  BY <1>1 DEF Sums
<1>3. Bad \in SUBSET Nat
  BY <1>1
<1>4. PICK m \in Bad : \A n \in Bad : m <= n
  <2> HIDE DEF Bad
  <2> QED BY <1>2, <1>3, LeastOfNats
<1>5. m \in 0..Len(s) /\ ~ \E f \in [0..m -> Nat] : Upto(f, m)
  OBVIOUS
<1>6. CASE m = 0
  <2> DEFINE g == [n \in 0..0 |-> 0]
  <2>1. g \in [0..m -> Nat] /\ Upto(g, m)
    BY <1>6
  <2> QED BY <1>5, <2>1
<1>7. CASE m # 0
  <2>1. m - 1 \in 0..Len(s) /\ m \in 1..Len(s) /\ m - 1 \notin Bad
    <3>1. ~ m <= m - 1
      BY <1>1, <1>5
    <3>2. m - 1 \notin Bad
      BY <1>4, <3>1
    <3> HIDE DEF Bad
    <3> QED BY <1>1, <1>5, <1>7, <3>2
  <2>2. PICK f \in [0..(m - 1) -> Nat] : Upto(f, m - 1)
    BY <2>1
  <2> HIDE DEF Bad
  <2> DEFINE g == [n \in 0..m |-> IF n = m THEN f[m - 1] + QtyFor(o, s[m]) ELSE f[n]]
  <2>3. g \in [0..m -> Nat]
    BY <1>1, <1>5, <2>1
  <2>4. ASSUME NEW n \in 0..m
        PROVE  g[n] = IF n = 0 THEN 0 ELSE g[n - 1] + QtyFor(o, s[n])
    <3>1. CASE n = m
      BY <1>7, <2>1, <3>1
    <3>2. CASE n # m
      <4>1. n \in 0..(m - 1) /\ g[n] = f[n]
        BY <2>1, <3>2
      <4>2. f[n] = IF n = 0 THEN 0 ELSE f[n - 1] + QtyFor(o, s[n])
        BY <2>2, <4>1
      <4>3. n # 0 => n - 1 \in 0..m /\ n - 1 # m /\ g[n - 1] = f[n - 1]
        BY <2>1, <4>1
      <4> QED BY <4>1, <4>2, <4>3
    <3> QED BY <3>1, <3>2
  <2>5. Upto(g, m)
    <3>1. g = [n \in 0..m |-> g[n]]
      OBVIOUS
    <3> HIDE DEF g
    <3> QED BY <2>4, <3>1
  <2> QED BY <1>5, <2>3, <2>5
<1> QED BY <1>6, <1>7

\* Two sums agree as far as their trades do.
LEMMA SumsAgree ==
  ASSUME NEW o, NEW s \in Seq(Trade), NEW r \in Seq(Trade), Len(s) <= Len(r),
         \A n \in 1..Len(s) : s[n] = r[n],
         NEW f, Sums(f, o, s), NEW g, Sums(g, o, r),
         NEW k \in 0..Len(s)
  PROVE  f[k] = g[k]
<1> DEFINE Bad == {m \in 0..Len(s) : f[m] # g[m]}
<1>1. Len(s) \in Nat /\ Len(r) \in Nat
  OBVIOUS
<1>2. SUFFICES ASSUME Bad # {}
               PROVE  FALSE
  OBVIOUS
<1>3. Bad \in SUBSET Nat
  BY <1>1
<1>4. PICK m \in Bad : \A n \in Bad : m <= n
  <2> HIDE DEF Bad
  <2> QED BY <1>2, <1>3, LeastOfNats
<1>5. m \in 0..Len(s) /\ m \in 0..Len(r) /\ f[m] # g[m]
  BY <1>1
<1>6. /\ f[m] = IF m = 0 THEN 0 ELSE f[m - 1] + QtyFor(o, s[m])
      /\ g[m] = IF m = 0 THEN 0 ELSE g[m - 1] + QtyFor(o, r[m])
  BY <1>5 DEF Sums
<1>7. m # 0 => m - 1 \in 0..Len(s) /\ ~ m <= m - 1 /\ s[m] = r[m]
  BY <1>1, <1>5
<1>8. m # 0 => f[m - 1] = g[m - 1]
  BY <1>4, <1>7
<1> QED BY <1>5, <1>6, <1>7, <1>8

\* What was executed of an order: nothing before the first trade; a further trade adds
\* its quantity to that of its two orders.
LEMMA ExecutedIs ==
  ASSUME NEW o, trades \in Seq(Trade)
  PROVE  /\ Executed(o) \in Nat
         /\ trades = << >> => Executed(o) = 0
         /\ \A tr \in Trade : trades' = Append(trades, tr)
              => Executed(o)' = Executed(o) + QtyFor(o, tr)
<1> DEFINE f == CHOOSE f : Sums(f, o, trades)
<1>1. f \in [0..Len(trades) -> Nat] /\ Sums(f, o, trades)
  <2>1. PICK h \in [0..Len(trades) -> Nat] : Sums(h, o, trades)
    BY SumsExist
  <2>2. Sums(f, o, trades)
    BY <2>1
  <2> HIDE DEF f
  <2>3. \A n \in 0..Len(trades) : h[n] = f[n]
    BY <2>1, <2>2, SumsAgree
  <2>4. f = [n \in 0..Len(trades) |-> f[n]]
    BY <2>2 DEF Sums
  <2> QED BY <2>2, <2>3, <2>4
<1>2. Executed(o) = f[Len(trades)]
  BY DEF Executed, Sums
<1>3. Executed(o) \in Nat
  <2> HIDE DEF f
  <2> QED BY <1>1, <1>2
<1>4. trades = << >> => Executed(o) = 0
  <2> HIDE DEF f
  <2> QED BY <1>1, <1>2 DEF Sums
<1>5. ASSUME NEW tr \in Trade, trades' = Append(trades, tr)
      PROVE  Executed(o)' = Executed(o) + QtyFor(o, tr)
  <2> DEFINE g == CHOOSE g : Sums(g, o, trades')
  <2>1. trades' \in Seq(Trade) /\ Len(trades') = Len(trades) + 1 /\ trades'[Len(trades')] = tr
        /\ \A n \in 1..Len(trades) : trades'[n] = trades[n]
    BY <1>5
  <2>2. Sums(g, o, trades')
    BY <2>1, SumsExist
  <2>3. Executed(o)' = g[Len(trades')]
    BY DEF Executed, Sums
  <2> HIDE DEF f, g
  <2>4. g[Len(trades)] = f[Len(trades)]
    BY <1>1, <2>1, <2>2, SumsAgree
  <2>5. g[Len(trades')] = g[Len(trades)] + QtyFor(o, tr)
    BY <2>1, <2>2 DEF Sums
  <2> QED BY <1>2, <2>3, <2>4, <2>5
<1> QED BY <1>3, <1>4, <1>5

-----------------------------------------------------------------------------
(* The steps. *)

\* A fill appends a fair trade of what it executes.
LEMMA FillTrades ==
  ASSUME TypeOK, CallsInProgress, FillIsSafe, NEW t \in Threads, Fill(t)
  PROVE  LET tr == TradeOf(cur[t], passive[t], FillQty(t)) IN
         /\ trades' = Append(trades, tr)
         /\ tr \in Trade /\ Fair(tr)
         /\ {tr.buy, tr.sell} = {cur[t], passive[t]} /\ tr.qty = FillQty(t)
<1> DEFINE a == cur[t]  p == passive[t]  q == FillQty(t)  tr == TradeOf(a, p, q)
<1>1. a \in Placed /\ p \in Placed /\ q \in Nat \ {0}
  BY FillQuantities
<1>2. /\ a \in OrderIds /\ order[a] \in Order
      /\ p \in OrderIds /\ order[p] \in Order
  BY <1>1, PlacedOrder
<1>3. /\ order[p].symbol = order[a].symbol
      /\ order[p].side = Opposite(order[a].side)
      /\ order[p].user # order[a].user
  BY DEF FillIsSafe, Fill, Goto
<1>4. order[a].side \in Sides /\ order[p].price \in Prices \union {None}
  BY <1>2 DEF Order
<1>5. trades' = Append(trades, tr)
  BY DEF Fill
<1> HIDE DEF a, p, q
<1>6. /\ tr.buy = IF order[a].side = "BUY" THEN a ELSE p
      /\ tr.sell = IF order[a].side = "BUY" THEN p ELSE a
      /\ tr.qty = q
  BY DEF TradeOf
<1>7. tr \in Trade
  BY <1>1, <1>2, <1>4 DEF TradeOf, Trade
<1>8. Fair(tr) /\ {tr.buy, tr.sell} = {a, p}
  <2> HIDE DEF tr
  <2>1. CASE order[a].side = "BUY"
    BY <1>1, <1>3, <1>6, <2>1 DEF Fair, Opposite
  <2>2. CASE order[a].side = "SELL"
    BY <1>1, <1>3, <1>6, <2>2 DEF Fair, Opposite
  <2> QED BY <1>4, <2>1, <2>2 DEF Sides
<1> QED BY <1>5, <1>6, <1>7, <1>8 DEF a, p, q

\* Nothing but a fill touches the trades or what was executed.
LEMMA OnlyFillsTrade ==
  ASSUME NEW t \in Threads, Receive(t) \/ Step(t), ~Fill(t)
  PROVE  UNCHANGED <<trades, cum>>
<1>1. CASE Receive(t)
  BY <1>1 DEF Receive, CheckNew, CheckModify, CheckCancel, MassCancel, sharedVars, orderVars
<1>2. CASE Match(t)
  BY <1>2
     DEF Match, Test, Best, NothingToPick, DropStale, PreventSelfTrade, CheckOwnPassive,
         CancelOwnPassive, OwnPassiveGone, Pick, Settle, Clear, Rest, Throw, Unwind, sharedVars, orderVars
<1>3. CASE Step(t) /\ ~Match(t)
  BY <1>3
     DEF Step, Register, Enrol, EnterNew, DropKey, EnterModify, ModifyToNothing, ModifyTooLate,
         CheckModified, PutModified, Restore, Unbook, CheckStillOpen, MarkCancelled, Uncache,
         Forget, sharedVars, orderVars
<1> QED BY <1>1, <1>2, <1>3

\* A trade that was fair stays fair: orders keep user, symbol and side.
LEMMA TradesAreFairStep ==
  ASSUME EngineInvariant, TradesAreFair, [Next]_vars
  PROVE  TradesAreFair'
<1> USE DEF EngineInvariant
<1>1. CASE UNCHANGED vars
  BY <1>1 DEF vars, sharedVars, orderVars, TradesAreFair, Fair, Placed
<1>2. ASSUME NEW t \in Threads, Receive(t) \/ Step(t)
      PROVE  TradesAreFair'
  <2> DEFINE FairNext(tr) ==
        /\ {tr.buy, tr.sell} \subseteq Placed'
        /\ order'[tr.buy].side = "BUY" /\ order'[tr.sell].side = "SELL"
        /\ order'[tr.buy].symbol = order'[tr.sell].symbol
        /\ order'[tr.buy].user # order'[tr.sell].user
  <2>1. ASSUME NEW tr, Fair(tr)
        PROVE  FairNext(tr)
    <3>1. \A o \in {tr.buy, tr.sell} :
            /\ o \in Placed'
            /\ order'[o].user = order[o].user
            /\ order'[o].symbol = order[o].symbol
            /\ order'[o].side = order[o].side
      BY <1>2, <2>1, OrdersKept DEF Fair
    <3> QED BY <2>1, <3>1 DEF Fair
  <2>2. SUFFICES trades' \in Seq(Trade) /\ \A i \in 1..Len(trades') : Fair(trades'[i])
    BY <2>1 DEF TradesAreFair, Fair
  <2>3. CASE Fill(t)
    <3> DEFINE tr == TradeOf(cur[t], passive[t], FillQty(t))
    <3>1. trades' = Append(trades, tr) /\ tr \in Trade /\ Fair(tr)
      BY <2>3, FillTrades
    <3> HIDE DEF tr
    <3> QED BY <3>1 DEF TradesAreFair
  <2>4. CASE ~Fill(t)
    BY <1>2, <2>4, OnlyFillsTrade DEF TradesAreFair
  <2> QED BY <2>3, <2>4
<1> QED BY <1>1, <1>2 DEF Next, Quiet

\* A fill adds to what the trades say of an order what it adds to the order.
LEMMA TradesAddUpStep ==
  ASSUME EngineInvariant, TradesAreFair, TradesAddUp, [Next]_vars
  PROVE  TradesAddUp'
<1> USE DEF EngineInvariant
<1>1. CASE UNCHANGED <<trades, cum>>
  BY <1>1 DEF TradesAddUp, Executed, QtyFor
<1>2. ASSUME NEW t \in Threads, Fill(t)
      PROVE  TradesAddUp'
  <2> DEFINE a == cur[t]  p == passive[t]  q == FillQty(t)  tr == TradeOf(a, p, q)
  <2>1. /\ trades' = Append(trades, tr) /\ tr \in Trade
        /\ {tr.buy, tr.sell} = {a, p} /\ tr.qty = q
    BY <1>2, FillTrades
  <2>2. /\ a \in OrderIds /\ p \in OrderIds /\ a # p /\ q \in Nat
        /\ cum' = [cum EXCEPT ![a] = cum[a] + q, ![p] = cum[p] + q]
    BY <1>2, FillQuantities, PlacedOrder
  <2>3. cum \in [OrderIds -> Nat]
    BY DEF TypeOK
  <2> HIDE DEF a, p, q, tr
  <2>4. ASSUME NEW o \in OrderIds
        PROVE  cum'[o] = Executed(o)'
    <3>1. Executed(o)' = Executed(o) + QtyFor(o, tr) /\ Executed(o) \in Nat
      BY <2>1, ExecutedIs DEF TradesAreFair
    <3>2. QtyFor(o, tr) = IF o \in {a, p} THEN q ELSE 0
      BY <2>1 DEF QtyFor
    <3>3. cum'[o] = cum[o] + (IF o \in {a, p} THEN q ELSE 0)
      BY <2>2, <2>3
    <3> QED BY <3>1, <3>2, <3>3 DEF TradesAddUp
  <2> QED BY <2>4 DEF TradesAddUp
<1> QED BY <1>1, <1>2, OnlyFillsTrade DEF Next, Quiet, vars, sharedVars, orderVars

-----------------------------------------------------------------------------
(* The theorems. *)

\* Self-trade prevention leaves no gap: whatever was cancelled, modified or entered
\* beside a match, no trade in the history joins a user with himself, two symbols or
\* two orders of one side, or executes nothing (MatchingEngine.executeMatching).
THEOREM TradesStayFair == Spec => []TradesAreFair
<1>1. Init => TradesAreFair
  BY DEF Init, TradesAreFair
<1>2. EngineInvariant /\ TradesAreFair /\ [Next]_vars => TradesAreFair'
  BY TradesAreFairStep
<1> QED BY <1>1, <1>2, EngineInvariantHolds, PTL DEF Spec

\* The trades of an order add up to its cumQty, with any number of threads and any
\* cancels and modifications between: no fill is lost, and none is counted twice.
THEOREM TradesStayAddedUp == Spec => []TradesAddUp
<1>1. Init => TradesAddUp
  <2> SUFFICES ASSUME Init PROVE TradesAddUp
    OBVIOUS
  <2>1. trades = << >> /\ trades \in Seq(Trade) /\ \A o \in OrderIds : cum[o] = 0
    BY DEF Init
  <2> QED BY <2>1, ExecutedIs DEF TradesAddUp
<1>2. EngineInvariant /\ TradesAreFair /\ TradesAddUp /\ [Next]_vars => TradesAddUp'
  BY TradesAddUpStep
<1> QED BY <1>1, <1>2, EngineInvariantHolds, TradesStayFair, PTL DEF Spec

\* No order ever trades more than its user asked for: its trades come to what was
\* ordered less what is still open.
NothingOversold == \A o \in Placed : Executed(o) = order[o].qty - leaves[o]

\* What is executed of an order, by the record of its trades, is what is no longer open.
THEOREM NothingIsOversold == Spec => []NothingOversold
<1>1. EngineInvariant /\ TradesAddUp => NothingOversold
  <2> SUFFICES ASSUME EngineInvariant, TradesAddUp, NEW o \in Placed
               PROVE  Executed(o) = order[o].qty - leaves[o]
    BY DEF NothingOversold
  <2>1. leaves[o] + cum[o] = order[o].qty /\ cum[o] = Executed(o)
    BY PlacedOrder DEF EngineInvariant, QuantitiesAgree, TradesAddUp
  <2>2. leaves[o] \in Nat /\ cum[o] \in Nat
    BY PlacedOrder DEF EngineInvariant, TypeOK
  <2> QED BY <2>1, <2>2
<1> QED BY <1>1, EngineInvariantHolds, TradesStayAddedUp, PTL

\* History is only ever added to: the trades that were made stay as they are, what was
\* executed of an order is not taken back, and its user, symbol and side do not change.
ExecutedStays ==
  [][/\ Len(trades') >= Len(trades)
     /\ \A i \in 1..Len(trades) : trades'[i] = trades[i]
     /\ \A o \in Placed : /\ cum'[o] >= cum[o]
                          /\ order'[o].user = order[o].user
                          /\ order'[o].symbol = order[o].symbol
                          /\ order'[o].side = order[o].side]_vars

\* No step of any thread rewrites a trade, takes back what was executed, or moves an
\* order to another user, symbol or side: new trades follow the old ones.
THEOREM ExecutionsAreFinal == Spec => ExecutedStays
<1>1. ASSUME EngineInvariant, TradesAreFair, [Next]_vars
      PROVE  /\ Len(trades') >= Len(trades)
             /\ \A i \in 1..Len(trades) : trades'[i] = trades[i]
  <2>1. trades \in Seq(Trade)
    BY <1>1 DEF TradesAreFair
  <2>2. CASE UNCHANGED trades
    BY <2>1, <2>2
  <2>3. ASSUME NEW t \in Threads, Fill(t)
        PROVE  /\ Len(trades') >= Len(trades)
               /\ \A i \in 1..Len(trades) : trades'[i] = trades[i]
    <3> DEFINE tr == TradeOf(cur[t], passive[t], FillQty(t))
    <3>1. trades' = Append(trades, tr) /\ tr \in Trade
      BY <1>1, <2>3, FillTrades DEF EngineInvariant
    <3> HIDE DEF tr
    <3> QED BY <2>1, <3>1
  <2> QED BY <1>1, <2>2, <2>3, OnlyFillsTrade DEF Next, Quiet, vars, sharedVars
<1>2. ASSUME EngineInvariant, [Next]_vars, NEW o \in Placed
      PROVE  cum'[o] >= cum[o]
  <2>1. o \in OrderIds /\ cum \in [OrderIds -> Nat] /\ cum[o] \in Nat
    BY <1>2, PlacedOrder DEF EngineInvariant, TypeOK
  <2>2. CASE UNCHANGED cum
    BY <2>1, <2>2
  <2>3. ASSUME NEW t \in Threads, Fill(t)
        PROVE  cum'[o] >= cum[o]
    <3> DEFINE a == cur[t]  p == passive[t]  q == FillQty(t)
    <3>1. q \in Nat /\ cum' = [cum EXCEPT ![a] = cum[a] + q, ![p] = cum[p] + q]
      BY <1>2, <2>3, FillQuantities DEF EngineInvariant
    <3> HIDE DEF a, p, q
    <3>2. cum'[o] \in {cum[o], cum[o] + q}
      BY <2>1, <3>1
    <3> QED BY <2>1, <3>1, <3>2
  <2> QED BY <1>2, <2>2, <2>3, OnlyFillsTrade DEF Next, Quiet, vars, sharedVars, orderVars
<1>3. ASSUME EngineInvariant, [Next]_vars, NEW o \in Placed
      PROVE  /\ order'[o].user = order[o].user
             /\ order'[o].symbol = order[o].symbol
             /\ order'[o].side = order[o].side
  <2>1. CASE UNCHANGED vars
    BY <2>1 DEF vars, sharedVars, orderVars
  <2>2. CASE \E t \in Threads : Receive(t) \/ Step(t)
    BY <1>3, <2>2, OrdersKept DEF EngineInvariant
  <2> QED BY <1>3, <2>1, <2>2 DEF Next, Quiet
<1>4. EngineInvariant /\ TradesAreFair /\ [Next]_vars =>
        [/\ Len(trades') >= Len(trades)
         /\ \A i \in 1..Len(trades) : trades'[i] = trades[i]
         /\ \A o \in Placed : /\ cum'[o] >= cum[o]
                              /\ order'[o].user = order[o].user
                              /\ order'[o].symbol = order[o].symbol
                              /\ order'[o].side = order[o].side]_vars
  BY <1>1, <1>2, <1>3
<1> QED BY <1>4, EngineInvariantHolds, TradesStayFair, PTL DEF Spec, ExecutedStays
=============================================================================
