------------------------- MODULE OrderFlow_proofs -------------------------
(***************************************************************************)
(* Proofs about the order engine, for any number of threads, users,        *)
(* symbols, prices and orders.  EngineInvariant is inductive; the types,   *)
(* the monitor discipline, the conservation of quantities and the safety   *)
(* of fills follow from it.                                                *)
(*                                                                         *)
(* The argument: what is open of an order changes only under the monitor   *)
(* of its symbol (LeavesKept), and a matching thread owns that monitor     *)
(* (MonitorDiscipline), so the quantities a thread looked at when it chose *)
(* a passive order are still there when it fills; a cancel may overwrite   *)
(* the state of an order at any time, but never a quantity.                *)
(***************************************************************************)
EXTENDS FailingSaves, TLAPS, SequenceTheorems, WellFoundedInduction

-----------------------------------------------------------------------------
(* Removing an order from a queue. *)

\* Removing an order that is queued takes one element away and closes the gap.
LEMMA RemoveFirstSplits ==
  ASSUME NEW S, NEW s \in Seq(S), NEW e, \E i \in 1..Len(s) : s[i] = e
  PROVE  \E k \in 1..Len(s) :
           /\ s[k] = e
           /\ RemoveFirst(s, e) = SubSeq(s, 1, k - 1) \o SubSeq(s, k + 1, Len(s))
<1> DEFINE I == {i \in 1..Len(s) : s[i] = e}
           k == SelectInSeq(s, LAMBDA v : v = e)
<1>1. I # {} /\ I \subseteq Nat
  OBVIOUS
<1> HIDE DEF I
<1>2. \E m \in I : \A n \in I : m <= n
  <2> DEFINE R == {ss \in Nat \X Nat : ss[1] < ss[2]}
  <2>1. IsWellFoundedOn(R, Nat)
    BY NatLessThanWellFounded DEF OpToRel
  <2>2. \A m, n \in Nat : <<n, m>> \notin R => m <= n
    OBVIOUS
  <2> HIDE DEF R
  <2>3. \E m \in I : \A n \in I : <<n, m>> \notin R
    BY <1>1, <2>1, WFMin
  <2> QED BY <1>1, <2>2, <2>3
<1>3. Min(I) \in I
  BY <1>2 DEF Min
<1>4. SelectInSeq(s, LAMBDA v : v = e) = IF I # {} THEN Min(I) ELSE 0
  BY DEF SelectInSeq, I
<1>5. SelectInSeq(s, LAMBDA v : v = e) \in 1..Len(s) /\ s[SelectInSeq(s, LAMBDA v : v = e)] = e
  BY <1>1, <1>3, <1>4 DEF I
<1>6. RemoveFirst(s, e) = SubSeq(s, 1, k - 1) \o SubSeq(s, k + 1, Len(s))
  BY DEF RemoveFirst, RemoveAt
<1> HIDE DEF k
<1> QED BY <1>5, <1>6 DEF k

\* LinkedList.remove, as RemoveFirst models it, leaves only elements that were
\* there.
LEMMA RemoveFirstKeeps ==
  ASSUME NEW S, NEW s \in Seq(S), NEW e
  PROVE  /\ RemoveFirst(s, e) \in Seq(S)
         /\ \A i \in 1..Len(RemoveFirst(s, e)) :
              \E j \in 1..Len(s) : RemoveFirst(s, e)[i] = s[j]
<1>1. CASE ~ \E i \in 1..Len(s) : s[i] = e
  BY <1>1 DEF RemoveFirst
<1>2. CASE \E i \in 1..Len(s) : s[i] = e
  <2>1. PICK k \in 1..Len(s) :
          RemoveFirst(s, e) = SubSeq(s, 1, k - 1) \o SubSeq(s, k + 1, Len(s))
    BY <1>2, RemoveFirstSplits
  <2> DEFINE front == SubSeq(s, 1, k - 1)
             back  == SubSeq(s, k + 1, Len(s))
  <2>2. RemoveFirst(s, e) = front \o back
    BY <2>1
  <2>3. /\ front \in Seq(S) /\ Len(front) = k - 1
        /\ \A i \in 1..(k - 1) : front[i] = s[i]
    BY <2>1, SMT
  <2>4. /\ back \in Seq(S) /\ Len(back) = Len(s) - k
        /\ \A i \in 1..(Len(s) - k) : back[i] = s[k + i]
    BY <2>1, SMT
  <2> HIDE DEF front, back
  <2>5. /\ front \o back \in Seq(S) /\ Len(front \o back) = Len(s) - 1
        /\ \A i \in 1..(Len(s) - 1) :
             (front \o back)[i] = IF i <= k - 1 THEN front[i] ELSE back[i - (k - 1)]
    <3>1. /\ front \o back \in Seq(S) /\ Len(front \o back) = Len(front) + Len(back)
          /\ \A i \in 1..Len(front) + Len(back) :
               (front \o back)[i] = IF i <= Len(front) THEN front[i] ELSE back[i - Len(front)]
      BY <2>3, <2>4, ConcatProperties, Zenon
    <3> QED BY <2>1, <2>3, <2>4, <3>1, SMT
  <2>6. ASSUME NEW i \in 1..Len(front \o back)
        PROVE  \E j \in 1..Len(s) : (front \o back)[i] = s[j]
    <3>1. CASE i <= k - 1
      BY <2>1, <2>3, <2>4, <2>5, <3>1, SMT
    <3>2. CASE i > k - 1
      <4> DEFINE j == i - (k - 1)
      <4>1. j \in 1..(Len(s) - k) /\ k + j = i + 1 /\ i + 1 \in 1..Len(s)
        BY <2>1, <2>5, <3>2, SMT
      <4>2. (front \o back)[i] = back[j]
        BY <2>1, <2>5, <3>2, SMT
      <4> HIDE DEF j
      <4>3. back[j] = s[i + 1]
        BY <2>4, <4>1, Zenon
      <4> QED BY <4>1, <4>2, <4>3
    <3> QED BY <2>1, <2>5, <3>1, <3>2, SMT
  <2> QED BY <2>2, <2>5, <2>6
<1> QED BY <1>1, <1>2

-----------------------------------------------------------------------------
(* What the operations on the book leave behind. *)

\* An order that was created has all its fields, and a level if it has a price.
LEMMA PlacedOrder ==
  ASSUME TypeOK, NEW o \in Placed
  PROVE  /\ o \in OrderIds /\ order[o] \in Order
         /\ order[o].symbol \in Symbols /\ order[o].side \in Sides
         /\ order[o].orig \in ClOrdIDs /\ order[o].clOrdID \in ClOrdIDs
         /\ order[o].price # None => LevelOf(o) \in Levels
<1>1. o \in OrderIds
  BY FlowAssumption DEF TypeOK, Placed, OrderIds
<1>2. order[o] \in Order
  BY <1>1 DEF TypeOK
<1> QED BY <1>1, <1>2 DEF Order, Levels, LevelOf

\* OrderBook.removeOrder brings no order into a queue or into the index.
LEMMA RemoveOrderKeeps ==
  ASSUME TypeOK, NEW o \in Placed, RemoveOrder(o)
  PROVE  /\ level' \in [Levels -> Seq(Placed)]
         /\ index' \subseteq Placed
         /\ \A l \in Levels : \A i \in 1..Len(level'[l]) :
              \E j \in 1..Len(level[l]) : level'[l][i] = level[l][j]
<1>1. CASE o \notin index
  BY <1>1 DEF RemoveOrder, bookVars, TypeOK
<1>2. CASE o \in index
  <2>1. level' = [level EXCEPT ![LevelOf(o)] = RemoveFirst(@, o)] /\ index' = index \ {o}
    BY <1>2 DEF RemoveOrder
  <2>2. ASSUME NEW l \in Levels
        PROVE  /\ level'[l] \in Seq(Placed)
               /\ \A i \in 1..Len(level'[l]) :
                    \E j \in 1..Len(level[l]) : level'[l][i] = level[l][j]
    <3>1. level[l] \in Seq(Placed)
      BY DEF TypeOK
    <3>2. CASE l = LevelOf(o)
      BY <2>1, <3>1, <3>2, RemoveFirstKeeps DEF TypeOK
    <3>3. CASE l # LevelOf(o)
      BY <2>1, <3>1, <3>3 DEF TypeOK
    <3> QED BY <3>2, <3>3
  <2> QED BY <2>1, <2>2 DEF TypeOK
<1> QED BY <1>1, <1>2

\* OrderBook.addOrder queues the order at its own level, and nothing else
\* anywhere.
LEMMA AddOrderKeeps ==
  ASSUME TypeOK, NEW o \in Placed, AddOrder(o)
  PROVE  /\ level' \in [Levels -> Seq(Placed)]
         /\ index' \subseteq Placed
         /\ \A l \in Levels : \A i \in 1..Len(level'[l]) :
              \/ \E j \in 1..Len(level[l]) : level'[l][i] = level[l][j]
              \/ level'[l][i] = o /\ l = LevelOf(o)
<1>1. CASE order[o].price = None
  BY <1>1 DEF AddOrder, bookVars, TypeOK
<1>2. CASE order[o].price # None
  <2>1. level' = [level EXCEPT ![LevelOf(o)] = Append(@, o)] /\ index' = index \union {o}
    BY <1>2 DEF AddOrder
  <2>2. ASSUME NEW l \in Levels
        PROVE  /\ level'[l] \in Seq(Placed)
               /\ \A i \in 1..Len(level'[l]) :
                    \/ \E j \in 1..Len(level[l]) : level'[l][i] = level[l][j]
                    \/ level'[l][i] = o /\ l = LevelOf(o)
    <3>1. level[l] \in Seq(Placed)
      BY DEF TypeOK
    <3>2. CASE l = LevelOf(o)
      BY <2>1, <3>1, <3>2 DEF TypeOK
    <3>3. CASE l # LevelOf(o)
      BY <2>1, <3>1, <3>3 DEF TypeOK
    <3> QED BY <3>2, <3>3
  <2> QED BY <2>1, <2>2 DEF TypeOK
<1> QED BY <1>1, <1>2

\* The head of a queue is an order of that queue.
LEMMA HeadIsQueued ==
  ASSUME TypeOK, QueuesMatch, NEW a \in Placed, NEW p, IsHead(a, p)
  PROVE  /\ p \in Placed
         /\ order[p].symbol = order[a].symbol
         /\ order[p].side = Opposite(order[a].side)
<1> DEFINE s == order[a].symbol  against == Opposite(order[a].side)
<1>1. PICK price \in Prices :
        IsBest(s, against, price) /\ p = Head(level[<<s, against, price>>])
  BY DEF IsHead
<1> DEFINE l == <<s, against, price>>
<1>2. l \in Levels /\ l[1] = s /\ l[2] = against
  BY PlacedOrder DEF Levels, Opposite, Sides
<1>3. level[l] # <<>>
  BY <1>1 DEF IsBest, Occupied
<1> HIDE DEF l
<1>4. level[l] \in Seq(Placed) /\ 1 \in 1..Len(level[l]) /\ p = level[l][1]
  BY <1>1, <1>2, <1>3, HeadTailProperties DEF TypeOK, l
<1>5. p \in Placed
  BY <1>4
<1> QED BY <1>2, <1>4, <1>5 DEF QueuesMatch

-----------------------------------------------------------------------------
(* Type correctness. *)

\* A response leaves the thread's call state well typed.
LEMMA ReturnType ==
  ASSUME TypeOK, NEW t \in Threads, NEW a \in Answers, Return(t, a), nextId' = nextId
  PROVE  /\ pc' \in [Threads -> Labels]
         /\ req' \in [Threads -> Request \union {None}]
         /\ cur' \in [Threads -> (Placed \union {None})']
         /\ passive' \in [Threads -> (Placed \union {None})']
         /\ todo' \in [Threads -> (SUBSET Placed)']
         /\ answer' \in [Threads -> Answers]
BY DEF TypeOK, Return, Labels, Placed

\* Taking up a request stays within the bound of requests.
LEMMA ServeType ==
  ASSUME TypeOK, NEW t \in Threads, Serve(t)
  PROVE  served' \in [Threads -> Nat] /\ \A u \in Threads : served'[u] <= MaxRequests[u]
<1>1. served \in [Threads -> Nat] /\ MaxRequests[t] \in Nat /\ served[t] < MaxRequests[t]
  BY FlowAssumption DEF TypeOK, Serve
<1>2. served' = [served EXCEPT ![t] = served[t] + 1]
  BY DEF Serve
<1>3. served' \in [Threads -> Nat]
  BY <1>1, <1>2
<1>4. ASSUME NEW u \in Threads
      PROVE  served'[u] <= MaxRequests[u]
  <2>1. served[u] <= MaxRequests[u]
    BY DEF TypeOK
  <2> QED BY <1>1, <1>2, <2>1
<1> QED BY <1>3, <1>4

\* processNewOrder, the checks, keeps the types.
LEMMA CheckNewType ==
  ASSUME TypeOK, NEW t \in Threads, NEW r \in Requests[t], CheckNew(t, r)
  PROVE  TypeOK'
<1>1. r \in Request /\ Serve(t)
  BY FlowAssumption DEF CheckNew
<1>2. CASE NewInvalid(r) \/ NewDuplicate(r)
  BY <1>1, <1>2, ServeType, ReturnType
     DEF TypeOK, CheckNew, Answers, sharedVars, orderVars, cacheVars, bookVars, Placed
<1>3. CASE ~(NewInvalid(r) \/ NewDuplicate(r))
  BY <1>1, <1>3, ServeType
     DEF TypeOK, CheckNew, sharedVars, orderVars, cacheVars, bookVars, Labels, Placed
<1> QED BY <1>2, <1>3

\* processNewOrder, the creation of the order, keeps the types.
LEMMA RegisterType ==
  ASSUME TypeOK, CallsInProgress, NEW t \in Threads, Register(t)
  PROVE  TypeOK'
<1> DEFINE r == req[t]
           new == [user |-> r.user, symbol |-> r.symbol, side |-> r.side, orig |-> r.clOrdID,
                   clOrdID |-> r.clOrdID, price |-> r.price, ordType |-> r.ordType, qty |-> r.qty]
<1>1. r \in NewRequest /\ nextId \in OrderIds /\ nextId' = nextId + 1
  BY DEF CallsInProgress, Register, Goto
<1>2. new \in Order /\ new # None
  BY <1>1, FlowAssumption DEF NewRequest, Order
<1>3. Placed \subseteq Placed' /\ nextId \in Placed' /\ Placed' = Placed \union {nextId}
  BY <1>1, FlowAssumption DEF Placed, OrderIds
<1>4. order' = [order EXCEPT ![nextId] = new]
  BY DEF Register
<1> HIDE DEF new
<1>5. order' \in [OrderIds -> Order \union {None}]
      /\ \A o \in OrderIds : o \in Placed' <=> order'[o] # None
  BY <1>1, <1>2, <1>3, <1>4 DEF TypeOK
<1>6. /\ nextId' \in 1..(MaxOrders + 1)
      /\ state' \in [OrderIds -> States] /\ leaves' \in [OrderIds -> Nat]
      /\ cum' \in [OrderIds -> Nat]
  BY <1>1, FlowAssumption DEF TypeOK, Register, States, NewRequest, OrderIds
<1>7. level' \in [Levels -> Seq(Placed')] /\ index' \subseteq Placed'
  BY <1>3 DEF TypeOK, Register, bookVars
<1>8. byClOrd' \in [ClOrdIDs -> Placed' \union {None}] /\ byId' \subseteq Placed'
  BY <1>1, <1>3 DEF TypeOK, Register
<1>9. /\ cur' \in [Threads -> Placed' \union {None}]
      /\ passive' \in [Threads -> Placed' \union {None}]
      /\ todo' \in [Threads -> SUBSET Placed']
  BY <1>3 DEF TypeOK, Register
<1>10. /\ monitor' \in [Symbols -> Threads \union {None}]
       /\ pc' \in [Threads -> Labels]
       /\ req' \in [Threads -> Request \union {None}]
       /\ served' \in [Threads -> Nat]
       /\ \A u \in Threads : served'[u] <= MaxRequests[u]
       /\ answer' \in [Threads -> Answers]
  BY DEF TypeOK, Register, Goto, Labels
<1> QED BY <1>5, <1>6, <1>7, <1>8, <1>9, <1>10 DEF TypeOK

\* processModifyOrder, the checks, keeps the types.
LEMMA CheckModifyType ==
  ASSUME TypeOK, NEW t \in Threads, NEW r \in Requests[t], CheckModify(t, r)
  PROVE  TypeOK'
<1>1. r \in Request /\ Serve(t)
  BY FlowAssumption DEF CheckModify
<1>2. CASE ~Modifiable(r)
  BY <1>1, <1>2, ServeType, ReturnType
     DEF TypeOK, CheckModify, Answers, sharedVars, orderVars, cacheVars, bookVars, Placed
<1>3. CASE Modifiable(r)
  <2>1. r.orig \in ClOrdIDs
    BY <1>1, <1>3 DEF CheckModify, Request, NewRequest, ModifyRequest, CancelRequest, MassCancelRequest
  <2>2. byClOrd[r.orig] \in Placed
    BY <1>3, <2>1 DEF TypeOK, Modifiable
  <2> QED BY <1>1, <1>3, <2>2, ServeType
       DEF TypeOK, CheckModify, Labels, sharedVars, orderVars, cacheVars, bookVars, Placed
<1> QED BY <1>2, <1>3

\* processCancelOrder, the checks, keeps the types.
LEMMA CheckCancelType ==
  ASSUME TypeOK, NEW t \in Threads, NEW r \in Requests[t], CheckCancel(t, r)
  PROVE  TypeOK'
<1> DEFINE o == byClOrd[r.orig]
<1>1. r \in CancelRequest /\ r \in Request /\ Serve(t)
  BY FlowAssumption
     DEF CheckCancel, Request, NewRequest, ModifyRequest, CancelRequest, MassCancelRequest
<1>2. CASE o # None /\ order[o].user = r.user /\ Cancellable(o)
  <2>1. o \in Placed
    BY <1>1, <1>2 DEF TypeOK, CancelRequest
  <2> QED BY <1>1, <1>2, <2>1, ServeType
       DEF TypeOK, CheckCancel, Labels, sharedVars, orderVars, cacheVars, bookVars, Placed
<1>3. CASE ~(o # None /\ order[o].user = r.user /\ Cancellable(o))
  BY <1>1, <1>3, ServeType, ReturnType
     DEF TypeOK, CheckCancel, Answers, sharedVars, orderVars, cacheVars, bookVars, Placed
<1> QED BY <1>2, <1>3

\* processMassCancel, the selection, keeps the types.
LEMMA MassCancelType ==
  ASSUME TypeOK, NEW t \in Threads, NEW r \in Requests[t], MassCancel(t, r)
  PROVE  TypeOK'
<1>1. r \in Request /\ Serve(t)
  BY FlowAssumption DEF MassCancel
<1>2. CASE Selected(r) = {}
  BY <1>1, <1>2, ServeType, ReturnType
     DEF TypeOK, MassCancel, Answers, sharedVars, orderVars, cacheVars, bookVars, Placed
<1>3. CASE Selected(r) # {}
  <2>1. Selected(r) \subseteq Placed
    BY DEF Selected
  <2>2. PICK o \in Selected(r) :
          /\ pc' = [pc EXCEPT ![t] = "unbook"]
          /\ req' = [req EXCEPT ![t] = r]
          /\ cur' = [cur EXCEPT ![t] = o]
          /\ todo' = [todo EXCEPT ![t] = Selected(r) \ {o}]
          /\ UNCHANGED <<passive, answer>>
    BY <1>3 DEF MassCancel
  <2>3. todo' \in [Threads -> SUBSET Placed] /\ cur' \in [Threads -> Placed \union {None}]
    BY <2>1, <2>2 DEF TypeOK
  <2> QED BY <1>1, <2>2, <2>3, ServeType
       DEF TypeOK, MassCancel, Labels, sharedVars, orderVars, cacheVars, bookVars, Placed
<1> QED BY <1>2, <1>3

\* The rest of processNewOrder, up to the monitor, keeps the types.
LEMMA NewOrderType ==
  ASSUME TypeOK, CallsInProgress, NEW t \in Threads, Enrol(t) \/ EnterNew(t)
  PROVE  TypeOK'
<1>1. cur[t] \in Placed /\ order[cur[t]].symbol \in Symbols
  BY PlacedOrder DEF CallsInProgress, Enrol, EnterNew, Goto
<1>2. CASE Enrol(t)
  BY <1>1, <1>2
     DEF TypeOK, Enrol, Goto, Labels, orderVars, bookVars, callVars, Placed
<1>3. CASE EnterNew(t)
  BY <1>1, <1>3
     DEF TypeOK, EnterNew, Enter, Goto, Labels, Matching, orderVars, cacheVars, bookVars, callVars, Placed
<1> QED BY <1>2, <1>3

\* Order.modify yields an order of the same user, symbol and side, with the
\* requested quantity.
LEMMA WithTermsType ==
  ASSUME TypeOK, NEW o \in Placed, NEW r \in ModifyRequest
  PROVE  /\ WithTerms(o, r) \in Order /\ WithTerms(o, r) # None
         /\ WithTerms(o, r).user = order[o].user
         /\ WithTerms(o, r).symbol = order[o].symbol
         /\ WithTerms(o, r).side = order[o].side
         /\ WithTerms(o, r).qty = IF r.qty = 0 THEN order[o].qty ELSE r.qty
<1> DEFINE price == IF r.price = None THEN order[o].price ELSE r.price
           ordType == IF r.ordType = None THEN order[o].ordType ELSE r.ordType
           qty == IF r.qty = 0 THEN order[o].qty ELSE r.qty
<1>1. order[o] \in Order
  BY PlacedOrder
<1>2. r.clOrdID \in ClOrdIDs /\ price \in Prices \union {None} /\ ordType \in OrdTypes
  BY <1>1 DEF Order, ModifyRequest
<1>3. qty \in 1..MaxQty
  BY <1>1, FlowAssumption DEF Order, ModifyRequest
<1>4. WithTerms(o, r) =
        [order[o] EXCEPT !.clOrdID = r.clOrdID, !.price = price, !.ordType = ordType, !.qty = qty]
  BY DEF WithTerms
<1> HIDE DEF price, ordType, qty
<1>5. WithTerms(o, r) \in Order
  BY <1>1, <1>2, <1>3, <1>4 DEF Order
<1>6. /\ WithTerms(o, r).user = order[o].user
      /\ WithTerms(o, r).symbol = order[o].symbol
      /\ WithTerms(o, r).side = order[o].side
      /\ WithTerms(o, r).qty = qty
  BY <1>1, <1>4 DEF Order
<1> QED BY <1>5, <1>6, FlowAssumption DEF qty

\* modifyOrder up to the matching loop keeps the types: the new open quantity
\* is a natural number.
LEMMA EnterModifyType ==
  ASSUME TypeOK, CallsInProgress, NEW t \in Threads, EnterModify(t)
  PROVE  TypeOK'
<1> DEFINE o == cur[t]
           r == req[t]
<1>1. o \in Placed /\ r \in ModifyRequest
  BY DEF CallsInProgress, EnterModify, Goto
<1>2. /\ o \in OrderIds /\ order[o] \in Order /\ order[o].symbol \in Symbols
  BY <1>1, PlacedOrder
<1>3. /\ level' \in [Levels -> Seq(Placed)] /\ index' \subseteq Placed
  BY <1>1, RemoveOrderKeeps DEF EnterModify
<1>4. WithTerms(o, r) \in Order /\ WithTerms(o, r) # None
  BY <1>1, <1>2, WithTermsType
<1>5. order' = [order EXCEPT ![o] = WithTerms(o, r)]
  BY DEF EnterModify
<1>6. /\ order' \in [OrderIds -> Order \union {None}]
      /\ \A p \in OrderIds : p \in Placed' <=> order'[p] # None
  BY <1>1, <1>2, <1>4, <1>5 DEF TypeOK, EnterModify, Placed
<1>7. NewLeaves(o, r) \in Nat
  BY <1>1, <1>2, FlowAssumption DEF TypeOK, EnterModify, NewLeaves, Order, ModifyRequest
<1>8. leaves' \in [OrderIds -> Nat]
  BY <1>7 DEF TypeOK, EnterModify
<1> QED BY <1>2, <1>3, <1>6, <1>8
     DEF TypeOK, EnterModify, Enter, Goto, Labels, Matching, cacheVars, callVars, Placed

\* The other ways through a modification keep the types.
LEMMA ModifyEndsType ==
  ASSUME TypeOK, CallsInProgress, NEW t \in Threads,
         \/ DropKey(t) \/ ModifyToNothing(t) \/ ModifyTooLate(t)
         \/ CheckModified(t) \/ PutModified(t) \/ Restore(t)
  PROVE  TypeOK'
<1> DEFINE o == cur[t]
<1>1. o \in Placed
  BY DEF CallsInProgress, DropKey, ModifyToNothing, ModifyTooLate, CheckModified, PutModified,
         Restore, Goto
<1>2. /\ o \in OrderIds /\ order[o].orig \in ClOrdIDs /\ order[o].clOrdID \in ClOrdIDs
  BY <1>1, PlacedOrder
<1>3. CASE ModifyToNothing(t)
  BY <1>1, <1>2, <1>3, RemoveOrderKeeps
     DEF TypeOK, ModifyToNothing, Goto, Labels, States, cacheVars, callVars, Placed
<1>4. CASE ModifyTooLate(t)
  BY <1>1, <1>2, <1>4, RemoveOrderKeeps
     DEF TypeOK, ModifyTooLate, Goto, Labels, orderVars, cacheVars, callVars, Placed
<1>5. CASE CheckModified(t)
  <2>1. CASE Goto(t, "checkModified", "putModified") /\ UNCHANGED <<sharedVars, passive, callVars>>
    BY <2>1
       DEF TypeOK, Goto, Labels, sharedVars, orderVars, cacheVars, bookVars, callVars, Placed
  <2>2. CASE /\ byId' = byId \ {o} /\ Return(t, "autoCancelled")
             /\ UNCHANGED <<orderVars, byClOrd, bookVars, monitor, trades, served>>
    BY <2>2, ReturnType
       DEF TypeOK, Answers, orderVars, bookVars, Placed
  <2> QED BY <1>5, <2>1, <2>2 DEF CheckModified
<1>6. CASE PutModified(t)
  BY <1>1, <1>2, <1>6, ReturnType
     DEF TypeOK, PutModified, Answers, orderVars, bookVars, Placed
<1>7. CASE DropKey(t)
  BY <1>1, <1>2, <1>7
     DEF TypeOK, DropKey, Goto, Labels, orderVars, bookVars, callVars, Placed
<1>8. CASE Restore(t)
  BY <1>1, <1>2, <1>8, ReturnType
     DEF TypeOK, Restore, Answers, orderVars, bookVars, Placed
<1> QED BY <1>3, <1>4, <1>5, <1>6, <1>7, <1>8

\* An exception under the monitor.
LEMMA ThrowType ==
  ASSUME TypeOK, NEW t \in Threads, cur[t] \in Placed, Throw(t), UNCHANGED bookVars
  PROVE  TypeOK'
<1>1. order[cur[t]].symbol \in Symbols
  BY PlacedOrder
<1>2. monitor' \in [Symbols -> Threads \union {None}]
  BY <1>1 DEF TypeOK, Throw, Unwind, Release
<1>3. CASE IsModify(t)
  BY <1>2, <1>3 DEF TypeOK, Throw, Unwind, Labels, orderVars, cacheVars, bookVars, callVars, Placed
<1>4. CASE ~IsModify(t)
  BY <1>2, <1>4, ReturnType DEF TypeOK, Throw, Unwind, Answers, orderVars, cacheVars, bookVars, Placed
<1> QED BY <1>3, <1>4

\* The matching loop, up to the choice of a passive order, keeps the types.
LEMMA SearchType ==
  ASSUME TypeOK, CallsInProgress, QueuesMatch, NEW t \in Threads,
         \/ Test(t) \/ Best(t) \/ NothingToPick(t) \/ DropStale(t) \/ Pick(t)
  PROVE  TypeOK'
<1>1. cur[t] \in Placed
  BY DEF CallsInProgress, Test, Best, NothingToPick, DropStale, Pick, Goto
<1>2. CASE Test(t)
  BY <1>2 DEF TypeOK, Test, Labels, Matching, sharedVars, orderVars, cacheVars, bookVars,
              callVars, Placed
<1>3. CASE Best(t)
  <2>1. CASE Throw(t) /\ UNCHANGED bookVars
    BY <1>1, <2>1, ThrowType
  <2>2. CASE \E to \in {"pick", "rest"} :
               pc' = [pc EXCEPT ![t] = to] /\ UNCHANGED <<sharedVars, passive, callVars>>
    BY <2>2 DEF TypeOK, Labels, Matching, sharedVars, orderVars, cacheVars, bookVars,
                callVars, Placed
  <2> QED BY <1>3, <2>1, <2>2 DEF Best
<1>4. CASE NothingToPick(t)
  BY <1>4 DEF TypeOK, NothingToPick, Goto, Labels, Matching, sharedVars, orderVars, cacheVars,
              bookVars, callVars, Placed
<1>5. CASE DropStale(t)
  <2>1. PICK p \in OrderIds : IsHead(cur[t], p) /\ RemoveOrder(p)
    BY <1>5 DEF DropStale
  <2>2. p \in Placed
    BY <1>1, <2>1, HeadIsQueued
  <2> QED BY <1>5, <2>1, <2>2, RemoveOrderKeeps
       DEF TypeOK, DropStale, Goto, Labels, Matching, orderVars, cacheVars, callVars, Placed
<1>6. CASE Pick(t)
  <2>1. PICK p \in OrderIds : IsHead(cur[t], p) /\ passive' = [passive EXCEPT ![t] = p]
    BY <1>6 DEF Pick
  <2>2. p \in Placed
    BY <1>1, <2>1, HeadIsQueued
  <2> QED BY <1>6, <2>1, <2>2
       DEF TypeOK, Pick, Goto, Labels, Matching, sharedVars, orderVars, cacheVars, bookVars,
           callVars, Placed
<1> QED BY <1>2, <1>3, <1>4, <1>5, <1>6

\* Self-trade prevention keeps the types.
LEMMA SelfTradeType ==
  ASSUME TypeOK, CallsInProgress, QueuesMatch, NEW t \in Threads,
         \/ PreventSelfTrade(t) \/ CheckOwnPassive(t)
         \/ CancelOwnPassive(t) \/ OwnPassiveGone(t)
  PROVE  TypeOK'
<1>1. cur[t] \in Placed
  BY DEF CallsInProgress, PreventSelfTrade, CheckOwnPassive, CancelOwnPassive, OwnPassiveGone,
         Goto
<1>2. CASE PreventSelfTrade(t)
  <2>1. PICK p \in OrderIds : /\ IsHead(cur[t], p) /\ RemoveOrder(p)
                              /\ passive' = [passive EXCEPT ![t] = p]
    BY <1>2 DEF PreventSelfTrade
  <2>2. p \in Placed
    BY <1>1, <2>1, HeadIsQueued
  <2> QED BY <1>2, <2>1, <2>2, RemoveOrderKeeps
       DEF TypeOK, PreventSelfTrade, Goto, Labels, Matching, orderVars, cacheVars, callVars, Placed
<1>3. CASE CheckOwnPassive(t)
  BY <1>3 DEF TypeOK, CheckOwnPassive, Labels, Matching, sharedVars, orderVars, cacheVars,
              bookVars, callVars, Placed
<1>4. CASE CancelOwnPassive(t)
  BY <1>4 DEF TypeOK, CancelOwnPassive, Goto, Labels, Matching, States, cacheVars, bookVars,
              callVars, Placed
<1>5. CASE OwnPassiveGone(t)
  BY <1>1, <1>5, ThrowType DEF OwnPassiveGone
<1> QED BY <1>2, <1>3, <1>4, <1>5

\* The two orders of a fill differ, and it takes from each what it has.
LEMMA FillQuantities ==
  ASSUME TypeOK, CallsInProgress, FillIsSafe, NEW t \in Threads, Fill(t)
  PROVE  /\ cur[t] \in Placed /\ passive[t] \in Placed /\ cur[t] # passive[t]
         /\ FillQty(t) \in Nat \ {0}
         /\ FillQty(t) <= leaves[cur[t]] /\ FillQty(t) <= leaves[passive[t]]
         /\ leaves' = [leaves EXCEPT ![cur[t]] = leaves[cur[t]] - FillQty(t),
                                     ![passive[t]] = leaves[passive[t]] - FillQty(t)]
         /\ cum' = [cum EXCEPT ![cur[t]] = cum[cur[t]] + FillQty(t),
                               ![passive[t]] = cum[passive[t]] + FillQty(t)]
<1> DEFINE a == cur[t]  p == passive[t]
<1>1. a \in Placed /\ p \in Placed /\ pc[t] = "fill"
  BY DEF CallsInProgress, Fill, Goto
<1>2. a # p
  BY <1>1, PlacedOrder DEF FillIsSafe, Opposite, Sides
<1>3. /\ leaves[a] \in Nat /\ leaves[p] \in Nat /\ leaves[a] > 0 /\ leaves[p] > 0
  BY <1>1, PlacedOrder DEF TypeOK, FillIsSafe
<1>4. FillQty(t) \in Nat \ {0} /\ FillQty(t) <= leaves[a] /\ FillQty(t) <= leaves[p]
  BY <1>3 DEF FillQty, MinQty
<1> HIDE DEF a, p
<1>5. /\ leaves' = [leaves EXCEPT ![a] = leaves[a] - FillQty(t), ![p] = leaves[p] - FillQty(t)]
      /\ cum' = [cum EXCEPT ![a] = cum[a] + FillQty(t), ![p] = cum[p] + FillQty(t)]
  BY <1>2 DEF Fill, a, p
<1> QED BY <1>1, <1>2, <1>4, <1>5 DEF a, p

\* A fill keeps the types: no quantity becomes negative.
LEMMA FillType ==
  ASSUME TypeOK, CallsInProgress, FillIsSafe, NEW t \in Threads, Fill(t)
  PROVE  TypeOK'
<1>1. leaves' \in [OrderIds -> Nat] /\ cum' \in [OrderIds -> Nat]
  <2> DEFINE a == cur[t]  p == passive[t]  q == FillQty(t)
  <2>1. a \in OrderIds /\ p \in OrderIds /\ q \in Nat /\ q <= leaves[a] /\ q <= leaves[p]
    BY FillQuantities, PlacedOrder
  <2>2. /\ leaves' = [leaves EXCEPT ![a] = leaves[a] - q, ![p] = leaves[p] - q]
        /\ cum' = [cum EXCEPT ![a] = cum[a] + q, ![p] = cum[p] + q]
    BY FillQuantities
  <2> HIDE DEF a, p, q
  <2>3. leaves \in [OrderIds -> Nat] /\ cum \in [OrderIds -> Nat]
    BY DEF TypeOK
  <2>4. /\ leaves[a] - q \in Nat /\ leaves[p] - q \in Nat
        /\ cum[a] + q \in Nat /\ cum[p] + q \in Nat
    BY <2>1, <2>3
  <2> QED BY <2>2, <2>3, <2>4
<1>2. state' \in [OrderIds -> States]
  BY DEF TypeOK, Fill, StateAfterFill, States
<1> QED BY <1>1, <1>2
     DEF TypeOK, Fill, Goto, Labels, Matching, cacheVars, bookVars, callVars, Placed

\* handleTradeExecution and the removal of a completed order keep the types.
LEMMA SettleType ==
  ASSUME TypeOK, CallsInProgress, NEW t \in Threads, Settle(t) \/ Clear(t)
  PROVE  TypeOK'
<1>1. passive[t] \in Placed
  BY DEF CallsInProgress, Settle, Clear, Goto
<1>2. level' \in [Levels -> Seq(Placed)] /\ index' \subseteq Placed
  BY <1>1, RemoveOrderKeeps DEF TypeOK, Settle, Clear, bookVars
<1>3. byClOrd' \in [ClOrdIDs -> Placed \union {None}] /\ byId' \subseteq Placed
  BY DEF TypeOK, Settle, Clear, cacheVars
<1>4. pc' \in [Threads -> Labels] /\ passive' \in [Threads -> Placed \union {None}]
  BY DEF TypeOK, Settle, Clear, Goto, Labels, Matching
<1> QED BY <1>2, <1>3, <1>4 DEF TypeOK, Settle, Clear, orderVars, callVars, Placed

\* Booking what is left and releasing the monitor keep the types.
LEMMA RestType ==
  ASSUME TypeOK, CallsInProgress, NEW t \in Threads, Rest(t)
  PROVE  TypeOK'
<1>1. cur[t] \in Placed
  BY DEF CallsInProgress, Rest
<1>2. level' \in [Levels -> Seq(Placed)] /\ index' \subseteq Placed
  BY <1>1, AddOrderKeeps DEF TypeOK, Rest, bookVars
<1>3. monitor' \in [Symbols -> Threads \union {None}]
  BY DEF TypeOK, Rest, Release
<1>4. CASE IsModify(t)
  BY <1>2, <1>3, <1>4 DEF TypeOK, Rest, Labels, orderVars, cacheVars, callVars, Placed
<1>5. CASE ~IsModify(t)
  BY <1>2, <1>3, <1>5, ReturnType DEF TypeOK, Rest, Answers, orderVars, cacheVars, Placed
<1> QED BY <1>4, <1>5

\* A cancel that answers or goes on leaves the call state well typed.
LEMMA ProceedType ==
  ASSUME TypeOK, NEW t \in Threads, NEW a \in Answers, Proceed(t, a), nextId' = nextId
  PROVE  /\ pc' \in [Threads -> Labels]
         /\ req' \in [Threads -> Request \union {None}]
         /\ cur' \in [Threads -> (Placed \union {None})']
         /\ passive' \in [Threads -> (Placed \union {None})']
         /\ todo' \in [Threads -> (SUBSET Placed)']
         /\ answer' \in [Threads -> Answers]
<1>1. CASE todo[t] = {}
  <2>1. \E b \in Answers : Return(t, b)
    BY <1>1 DEF Proceed, Answers
  <2> QED BY <2>1, ReturnType
<1>2. CASE todo[t] # {}
  <2>1. PICK o \in todo[t] :
          /\ pc' = [pc EXCEPT ![t] = "unbook"]
          /\ cur' = [cur EXCEPT ![t] = o]
          /\ todo' = [todo EXCEPT ![t] = @ \ {o}]
          /\ UNCHANGED <<req, passive, answer>>
    BY <1>2 DEF Proceed
  <2>2. o \in Placed /\ todo[t] \ {o} \subseteq Placed
    BY DEF TypeOK
  <2>3. todo' \in [Threads -> SUBSET Placed] /\ cur' \in [Threads -> Placed \union {None}]
    BY <2>1, <2>2 DEF TypeOK
  <2> QED BY <2>1, <2>3 DEF TypeOK, Labels, Placed
<1> QED BY <1>1, <1>2

\* Cancelling an order keeps the types.
LEMMA CancelType ==
  ASSUME TypeOK, CallsInProgress, NEW t \in Threads,
         Unbook(t) \/ CheckStillOpen(t) \/ MarkCancelled(t) \/ Uncache(t) \/ Forget(t)
  PROVE  TypeOK'
<1>1. cur[t] \in Placed
  BY DEF CallsInProgress, Unbook, CheckStillOpen, MarkCancelled, Uncache, Forget, Goto
<1>2. CASE Unbook(t)
  BY <1>1, <1>2, RemoveOrderKeeps
     DEF TypeOK, Unbook, Goto, Labels, orderVars, cacheVars, callVars, Placed
<1>3. CASE CheckStillOpen(t)
  <2>1. CASE /\ Goto(t, "checkCancel", "markCancelled")
             /\ UNCHANGED <<sharedVars, passive, callVars>>
    BY <2>1 DEF TypeOK, Goto, Labels, sharedVars, orderVars, cacheVars, bookVars, callVars, Placed
  <2>2. CASE Proceed(t, "internalError") /\ UNCHANGED <<sharedVars, served>>
    BY <2>2, ProceedType
       DEF TypeOK, Answers, sharedVars, orderVars, cacheVars, bookVars, Placed
  <2> QED BY <1>3, <2>1, <2>2 DEF CheckStillOpen
<1>4. CASE MarkCancelled(t)
  BY <1>4 DEF TypeOK, MarkCancelled, Goto, Labels, States, cacheVars, bookVars, callVars, Placed
<1>5. CASE Uncache(t)
  BY <1>1, <1>5 DEF TypeOK, Uncache, Goto, Labels, orderVars, bookVars, callVars, Placed
<1>6. CASE Forget(t)
  BY <1>6, ProceedType DEF TypeOK, Forget, Answers, orderVars, bookVars, Placed
<1> QED BY <1>2, <1>3, <1>4, <1>5, <1>6

\* Every step keeps the types.
LEMMA TypeStep ==
  ASSUME EngineInvariant, [Next]_vars
  PROVE  TypeOK'
<1> USE DEF EngineInvariant
<1>1. CASE UNCHANGED vars
  BY <1>1 DEF TypeOK, vars, sharedVars, orderVars, cacheVars, bookVars, callVars, Placed
<1>2. CASE \E t \in Threads : Receive(t)
  BY <1>2, CheckNewType, CheckModifyType, CheckCancelType, MassCancelType DEF Receive
<1>3. CASE \E t \in Threads : Step(t)
  BY <1>3, RegisterType, NewOrderType, EnterModifyType, ModifyEndsType, SearchType,
     SelfTradeType, FillType, SettleType, RestType, CancelType DEF Step, Match
<1> QED BY <1>1, <1>2, <1>3 DEF Next, Quiet

-----------------------------------------------------------------------------
(* What a step of one thread leaves alone. *)

\* A step of one thread does not touch the call of another.
LEMMA OtherThreadsKept ==
  ASSUME TypeOK, NEW t \in Threads, Receive(t) \/ Step(t), NEW u \in Threads, u # t
  PROVE  /\ pc'[u] = pc[u] /\ req'[u] = req[u]
         /\ cur'[u] = cur[u] /\ passive'[u] = passive[u]
<1> USE DEF TypeOK
<1>1. CASE Receive(t)
  BY <1>1 DEF Receive, CheckNew, CheckModify, CheckCancel, MassCancel, Return
<1>2. CASE Register(t) \/ Enrol(t) \/ EnterNew(t)
  BY <1>2 DEF Register, Enrol, EnterNew, Goto, callVars
<1>3. CASE \/ DropKey(t) \/ EnterModify(t) \/ ModifyToNothing(t) \/ ModifyTooLate(t)
           \/ CheckModified(t) \/ PutModified(t) \/ Restore(t)
  BY <1>3 DEF DropKey, EnterModify, ModifyToNothing, ModifyTooLate, CheckModified, PutModified,
              Restore, Goto, Return, callVars
<1>4. CASE Match(t)
  BY <1>4 DEF Match, Test, Best, NothingToPick, DropStale, PreventSelfTrade, CheckOwnPassive,
              CancelOwnPassive, OwnPassiveGone, Pick, Fill, Settle, Clear, Rest, Throw, Unwind,
              Goto, Return, callVars
<1>5. CASE Unbook(t) \/ CheckStillOpen(t) \/ MarkCancelled(t) \/ Uncache(t) \/ Forget(t)
  BY <1>5 DEF Unbook, CheckStillOpen, MarkCancelled, Uncache, Forget, Proceed, Goto, Return, callVars
<1> QED BY <1>1, <1>2, <1>3, <1>4, <1>5 DEF Step

\* An order keeps its user, its symbol and its side for ever.
LEMMA OrdersKept ==
  ASSUME TypeOK, CallsInProgress, NEW t \in Threads, Receive(t) \/ Step(t), NEW o \in Placed
  PROVE  /\ o \in Placed'
         /\ order'[o].user = order[o].user
         /\ order'[o].symbol = order[o].symbol
         /\ order'[o].side = order[o].side
<1>1. CASE UNCHANGED <<nextId, order>>
  BY <1>1 DEF Placed
<1>2. CASE Register(t)
  <2>1. nextId \in OrderIds /\ o # nextId /\ o \in Placed'
    BY <1>2, FlowAssumption DEF Register, Placed, OrderIds
  <2> QED BY <1>2, <2>1 DEF TypeOK, Register
<1>3. CASE EnterModify(t)
  <2>1. cur[t] \in Placed /\ req[t] \in ModifyRequest
    BY <1>3 DEF CallsInProgress, EnterModify, Goto
  <2>2. order' = [order EXCEPT ![cur[t]] = WithTerms(cur[t], req[t])] /\ nextId' = nextId
    BY <1>3 DEF EnterModify
  <2>3. o \in Placed' /\ o \in OrderIds /\ cur[t] \in OrderIds
    BY <2>1, <2>2, PlacedOrder DEF Placed
  <2>4. CASE o = cur[t]
    <3>1. order'[o] = WithTerms(o, req[t])
      BY <2>2, <2>3, <2>4 DEF TypeOK
    <3> QED BY <2>1, <2>3, <3>1, WithTermsType
  <2>5. CASE o # cur[t]
    BY <2>2, <2>3, <2>5 DEF TypeOK
  <2> QED BY <2>4, <2>5
<1>4. CASE Receive(t)
  BY <1>1, <1>4 DEF Receive, CheckNew, CheckModify, CheckCancel, MassCancel, sharedVars, orderVars
<1>5. CASE Match(t)
  BY <1>1, <1>5
     DEF Match, Test, Best, NothingToPick, DropStale, PreventSelfTrade, CheckOwnPassive,
         CancelOwnPassive, OwnPassiveGone, Pick, Fill, Settle, Clear, Rest, Throw, Unwind, sharedVars, orderVars
<1>6. CASE \/ Enrol(t) \/ EnterNew(t) \/ DropKey(t) \/ ModifyToNothing(t) \/ ModifyTooLate(t)
           \/ CheckModified(t) \/ PutModified(t) \/ Restore(t)
           \/ Unbook(t) \/ CheckStillOpen(t) \/ MarkCancelled(t) \/ Uncache(t) \/ Forget(t)
  BY <1>1, <1>6
     DEF Enrol, EnterNew, DropKey, ModifyToNothing, ModifyTooLate, CheckModified, PutModified,
         Restore, Unbook, CheckStillOpen, MarkCancelled, Uncache, Forget, sharedVars, orderVars
<1> QED BY <1>2, <1>3, <1>4, <1>5, <1>6 DEF Step

\* What is open of an order changes only under its symbol's monitor, which no
\* other thread owns.
LEMMA LeavesKept ==
  ASSUME TypeOK, CallsInProgress, MonitorDiscipline, FillIsSafe,
         NEW t \in Threads, Receive(t) \/ Step(t), NEW o \in Placed
  PROVE  \/ leaves'[o] = leaves[o]
         \/ monitor[order[o].symbol] \in {None, t}
<1>1. CASE UNCHANGED leaves
  BY <1>1
<1>2. CASE Register(t)
  <2>1. nextId \in OrderIds /\ o # nextId
    BY <1>2, FlowAssumption DEF Register, Placed, OrderIds
  <2> QED BY <1>2, <2>1 DEF TypeOK, Register
<1>3. CASE EnterModify(t)
  BY <1>3 DEF TypeOK, EnterModify, Enter
<1>4. CASE Fill(t)
  <2>1. monitor[order[cur[t]].symbol] = t /\ order[passive[t]].symbol = order[cur[t]].symbol
    <3>1. pc[t] = "fill" /\ cur[t] \in Placed
      BY <1>4 DEF CallsInProgress, Fill, Goto
    <3> QED BY <3>1, PlacedOrder DEF MonitorDiscipline, FillIsSafe, Matching
  <2>2. CASE o \in {cur[t], passive[t]}
    BY <2>1, <2>2
  <2>3. CASE o \notin {cur[t], passive[t]}
    BY <1>4, <2>3, PlacedOrder DEF TypeOK, Fill
  <2> QED BY <2>2, <2>3
<1>5. CASE Receive(t)
  BY <1>1, <1>5 DEF Receive, CheckNew, CheckModify, CheckCancel, MassCancel, sharedVars, orderVars
<1>6. CASE \/ Test(t) \/ Best(t) \/ NothingToPick(t) \/ DropStale(t)
           \/ PreventSelfTrade(t) \/ CheckOwnPassive(t) \/ CancelOwnPassive(t)
           \/ OwnPassiveGone(t) \/ Pick(t) \/ Settle(t) \/ Clear(t) \/ Rest(t)
  BY <1>1, <1>6
     DEF Test, Best, NothingToPick, DropStale, PreventSelfTrade, CheckOwnPassive,
         CancelOwnPassive, OwnPassiveGone, Pick, Settle, Clear, Rest, Throw, Unwind, sharedVars, orderVars
<1>7. CASE \/ Enrol(t) \/ EnterNew(t) \/ DropKey(t) \/ ModifyToNothing(t) \/ ModifyTooLate(t)
           \/ CheckModified(t) \/ PutModified(t) \/ Restore(t)
           \/ Unbook(t) \/ CheckStillOpen(t) \/ MarkCancelled(t) \/ Uncache(t) \/ Forget(t)
  BY <1>1, <1>7
     DEF Enrol, EnterNew, DropKey, ModifyToNothing, ModifyTooLate, CheckModified, PutModified,
         Restore, Unbook, CheckStillOpen, MarkCancelled, Uncache, Forget, sharedVars, orderVars
<1> QED BY <1>2, <1>3, <1>4, <1>5, <1>6, <1>7 DEF Step, Match

-----------------------------------------------------------------------------
(* The parts of the invariant, one by one. *)

\* A queue gains an order only at that order's own level.
LEMMA QueuesChange ==
  ASSUME TypeOK, CallsInProgress, QueuesMatch, NEW t \in Threads, Receive(t) \/ Step(t),
         NEW l \in Levels, NEW i \in 1..Len(level'[l])
  PROVE  \/ \E j \in 1..Len(level[l]) : level'[l][i] = level[l][j]
         \/ level'[l][i] \in Placed /\ l = LevelOf(level'[l][i])
<1>1. CASE UNCHANGED bookVars
  BY <1>1 DEF bookVars
<1>2. CASE \E o \in Placed : RemoveOrder(o)
  BY <1>2, RemoveOrderKeeps
<1>3. CASE \E o \in Placed : AddOrder(o)
  BY <1>3, AddOrderKeeps
<1>4. CASE Receive(t)
  BY <1>1, <1>4 DEF Receive, CheckNew, CheckModify, CheckCancel, MassCancel, sharedVars
<1>5. CASE \/ Register(t) \/ Enrol(t) \/ EnterNew(t)
           \/ DropKey(t) \/ CheckModified(t) \/ PutModified(t) \/ Restore(t)
           \/ CheckStillOpen(t) \/ MarkCancelled(t) \/ Uncache(t) \/ Forget(t)
  BY <1>1, <1>5
     DEF Register, Enrol, EnterNew, DropKey, CheckModified, PutModified, Restore,
         CheckStillOpen, MarkCancelled, Uncache, Forget, sharedVars
<1>6. CASE \/ Test(t) \/ Best(t) \/ NothingToPick(t) \/ CheckOwnPassive(t)
           \/ CancelOwnPassive(t) \/ OwnPassiveGone(t) \/ Pick(t) \/ Fill(t)
  BY <1>1, <1>6
     DEF Test, Best, NothingToPick, CheckOwnPassive, CancelOwnPassive, OwnPassiveGone, Pick,
         Fill, sharedVars
<1>7. CASE EnterModify(t) \/ ModifyToNothing(t) \/ ModifyTooLate(t) \/ Unbook(t)
  BY <1>2, <1>7
     DEF CallsInProgress, EnterModify, ModifyToNothing, ModifyTooLate, Unbook, Goto
<1>8. CASE DropStale(t) \/ PreventSelfTrade(t)
  <2>1. cur[t] \in Placed
    BY <1>8 DEF CallsInProgress, DropStale, PreventSelfTrade, Goto
  <2> QED BY <1>2, <1>8, <2>1, HeadIsQueued DEF DropStale, PreventSelfTrade
<1>9. CASE Settle(t) \/ Clear(t)
  BY <1>1, <1>2, <1>9 DEF CallsInProgress, Settle, Clear, Goto
<1>10. CASE Rest(t)
  BY <1>1, <1>3, <1>10 DEF CallsInProgress, Rest
<1> QED BY <1>4, <1>5, <1>6, <1>7, <1>8, <1>9, <1>10 DEF Step, Match

\* Queues go on holding only orders of their symbol and side.
LEMMA QueuesStep ==
  ASSUME TypeOK, CallsInProgress, QueuesMatch, NEW t \in Threads, Receive(t) \/ Step(t)
  PROVE  QueuesMatch'
<1> SUFFICES ASSUME NEW l \in Levels, NEW i \in 1..Len(level'[l])
             PROVE  order'[level'[l][i]].symbol = l[1] /\ order'[level'[l][i]].side = l[2]
  BY DEF QueuesMatch
<1> DEFINE o == level'[l][i]
<1>1. CASE \E j \in 1..Len(level[l]) : o = level[l][j]
  <2>1. o \in Placed
    BY <1>1 DEF TypeOK
  <2>2. order[o].symbol = l[1] /\ order[o].side = l[2]
    BY <1>1 DEF QueuesMatch
  <2> QED BY <2>1, <2>2, OrdersKept
<1>2. CASE o \in Placed /\ l = LevelOf(o)
  <2>1. order[o].symbol = l[1] /\ order[o].side = l[2]
    BY <1>2 DEF LevelOf
  <2> QED BY <1>2, <2>1, OrdersKept
<1> QED BY <1>1, <1>2, QueuesChange

\* How a step uses monitors: not at all, to enter one, or to leave one.
MonitorKept(t) ==
  /\ monitor' = monitor
  /\ pc[t] \in Matching <=> pc'[t] \in Matching
  /\ pc[t] \in Matching => cur'[t] = cur[t]

MonitorEntered(t) ==
  LET s == order[cur[t]].symbol IN
  /\ monitor[s] = None /\ monitor' = [monitor EXCEPT ![s] = t]
  /\ pc[t] \notin Matching /\ pc'[t] \in Matching
  /\ cur'[t] = cur[t] /\ cur[t] \in Placed

MonitorLeft(t) ==
  LET s == order[cur[t]].symbol IN
  /\ monitor' = [monitor EXCEPT ![s] = None]
  /\ pc[t] \in Matching /\ pc'[t] \notin Matching
  /\ cur[t] \in Placed

\* Every step keeps, enters or leaves a monitor in one of these ways.
LEMMA MonitorUse ==
  ASSUME TypeOK, CallsInProgress, NEW t \in Threads, Receive(t) \/ Step(t)
  PROVE  MonitorKept(t) \/ MonitorEntered(t) \/ MonitorLeft(t)
<1> USE DEF TypeOK
<1>1. CASE Receive(t)
  BY <1>1 DEF Receive, CheckNew, CheckModify, CheckCancel, MassCancel, Serve, Return, Matching,
              MonitorKept, sharedVars
<1>2. CASE Register(t) \/ Enrol(t)
  BY <1>2 DEF Register, Enrol, Goto, Matching, MonitorKept
<1>3. CASE EnterNew(t) \/ EnterModify(t)
  BY <1>3 DEF CallsInProgress, EnterNew, EnterModify, Enter, Goto, Matching, MonitorEntered,
              callVars
<1>4. CASE \/ DropKey(t) \/ ModifyToNothing(t) \/ ModifyTooLate(t)
           \/ CheckModified(t) \/ PutModified(t) \/ Restore(t)
  BY <1>4 DEF DropKey, ModifyToNothing, ModifyTooLate, CheckModified, PutModified, Restore,
              Goto, Return, Matching, MonitorKept, sharedVars
<1>5. CASE \/ Test(t) \/ NothingToPick(t) \/ DropStale(t) \/ PreventSelfTrade(t)
           \/ CheckOwnPassive(t) \/ CancelOwnPassive(t) \/ Pick(t) \/ Fill(t) \/ Settle(t) \/ Clear(t)
  BY <1>5 DEF Test, NothingToPick, DropStale, PreventSelfTrade, CheckOwnPassive,
              CancelOwnPassive, Pick, Fill, Settle, Clear, Goto, Matching, MonitorKept, sharedVars, callVars
<1>6. CASE Best(t)
  <2>1. CASE Throw(t)
    BY <1>6, <2>1 DEF CallsInProgress, Best, Throw, Unwind, Release, Return, Matching, MonitorLeft
  <2>2. CASE ~Throw(t)
    BY <1>6, <2>2 DEF Best, Matching, MonitorKept, sharedVars, callVars
  <2> QED BY <2>1, <2>2
<1>7. CASE OwnPassiveGone(t)
  BY <1>7 DEF CallsInProgress, OwnPassiveGone, Throw, Unwind, Release, Return, Matching, MonitorLeft
<1>8. CASE Rest(t)
  BY <1>8 DEF CallsInProgress, Rest, Release, Return, Matching, MonitorLeft
<1>9. CASE Unbook(t) \/ CheckStillOpen(t) \/ MarkCancelled(t) \/ Uncache(t) \/ Forget(t)
  BY <1>9 DEF Unbook, CheckStillOpen, MarkCancelled, Uncache, Forget, Proceed, Goto, Return, Matching,
              MonitorKept, sharedVars
<1> QED BY <1>1, <1>2, <1>3, <1>4, <1>5, <1>6, <1>7, <1>8, <1>9 DEF Step, Match

\* Monitors are handed from matching thread to matching thread.
LEMMA MonitorStep ==
  ASSUME TypeOK, CallsInProgress, MonitorDiscipline, NEW t \in Threads, Receive(t) \/ Step(t)
  PROVE  MonitorDiscipline'
<1> SUFFICES ASSUME NEW u \in Threads, NEW s \in Symbols
             PROVE  monitor'[s] = u <=> pc'[u] \in Matching /\ order'[cur'[u]].symbol = s
  BY DEF MonitorDiscipline
<1>1. monitor[s] = u <=> pc[u] \in Matching /\ order[cur[u]].symbol = s
  BY DEF MonitorDiscipline
<1>2. pc[u] \in Matching => cur[u] \in Placed
  BY DEF CallsInProgress, Matching
<1>3. CASE u # t
  <2>1. pc'[u] = pc[u] /\ cur'[u] = cur[u]
    BY <1>3, OtherThreadsKept
  <2>2. monitor'[s] = u <=> monitor[s] = u
    <3>1. CASE MonitorKept(t)
      BY <3>1 DEF MonitorKept
    <3>2. CASE MonitorEntered(t)
      BY <1>3, <3>2, FlowAssumption DEF TypeOK, MonitorEntered
    <3>3. CASE MonitorLeft(t)
      <4>1. monitor[order[cur[t]].symbol] = t
        BY <3>3, PlacedOrder DEF MonitorDiscipline, MonitorLeft
      <4> QED BY <1>3, <3>3, <4>1, FlowAssumption DEF TypeOK, MonitorLeft
    <3> QED BY <3>1, <3>2, <3>3, MonitorUse
  <2>3. pc[u] \in Matching => order'[cur[u]].symbol = order[cur[u]].symbol
    BY <1>2, OrdersKept
  <2> QED BY <1>1, <2>1, <2>2, <2>3
<1>4. CASE u = t
  <2>1. cur[t] \in Placed => order'[cur[t]].symbol = order[cur[t]].symbol
    BY OrdersKept
  <2>2. CASE MonitorKept(t)
    BY <1>1, <1>2, <1>4, <2>1, <2>2 DEF MonitorKept
  <2>3. CASE MonitorEntered(t)
    BY <1>1, <1>4, <2>1, <2>3 DEF TypeOK, MonitorEntered
  <2>4. CASE MonitorLeft(t)
    BY <1>1, <1>4, <2>4, FlowAssumption DEF TypeOK, MonitorLeft
  <2> QED BY <2>2, <2>3, <2>4, MonitorUse
<1> QED BY <1>3, <1>4

\* A thread under a symbol's monitor keeps what is open of that symbol's orders.
LEMMA LeavesGuarded ==
  ASSUME TypeOK, CallsInProgress, MonitorDiscipline, FillIsSafe,
         NEW t \in Threads, Receive(t) \/ Step(t),
         NEW u \in Threads, u # t, pc[u] \in Matching,
         NEW o \in Placed, order[o].symbol = order[cur[u]].symbol
  PROVE  leaves'[o] = leaves[o]
<1>1. monitor[order[o].symbol] = u
  BY PlacedOrder DEF MonitorDiscipline
<1>2. u \notin {None, t}
  BY FlowAssumption
<1> QED BY <1>1, <1>2, LeavesKept

\* CallsInProgress, for one thread.
CallInProgress(t) ==
  /\ pc[t] = "register" => req[t] \in NewRequest
  /\ pc[t] \in {"dropKey", "enterModify"} => req[t] \in ModifyRequest
  /\ pc[t] \notin {"idle", "register"} => cur[t] \in Placed
  /\ pc[t] \in {"selfTrade", "cancelOwn", "fill", "settle", "clear"} => passive[t] \in Placed
  /\ pc[t] \in {"best", "pick"} => leaves[cur[t]] > 0

\* A thread's own step leads it to a label whose assumptions hold.
LEMMA OwnCallStep ==
  ASSUME TypeOK, TypeOK', CallsInProgress, QueuesMatch, NEW t \in Threads, Receive(t) \/ Step(t)
  PROVE  CallInProgress(t)'
<1> USE DEF TypeOK
<1>1. CallInProgress(t)
  BY DEF CallsInProgress, CallInProgress
<1>2. CASE pc'[t] = "idle"
  BY <1>2 DEF CallInProgress
<1>3. CASE Receive(t)
  <2> SUFFICES ASSUME NEW r \in Requests[t],
                      CheckNew(t, r) \/ CheckModify(t, r) \/ CheckCancel(t, r) \/ MassCancel(t, r)
               PROVE  CallInProgress(t)'
    BY <1>3 DEF Receive
  <2>1. r \in Request
    BY FlowAssumption
  <2>2. CASE CheckNew(t, r)
    BY <1>2, <2>1, <2>2
       DEF CheckNew, Return, CallInProgress, Request, NewRequest, ModifyRequest, CancelRequest,
           MassCancelRequest
  <2>3. CASE CheckModify(t, r)
    <3>1. CASE ~Modifiable(r)
      BY <1>2, <2>3, <3>1 DEF CheckModify, Return
    <3>2. CASE Modifiable(r)
      <4>1. r \in ModifyRequest /\ byClOrd[r.orig] \in Placed
        BY <2>1, <2>3, <3>2
           DEF CheckModify, Modifiable, Request, NewRequest, ModifyRequest, CancelRequest,
               MassCancelRequest
      <4>2. pc'[t] = "dropKey" /\ req'[t] = r /\ cur'[t] = byClOrd[r.orig] /\ nextId' = nextId
        BY <2>3, <3>2 DEF CheckModify, sharedVars, orderVars
      <4> QED BY <4>1, <4>2 DEF CallInProgress, Placed
    <3> QED BY <3>1, <3>2
  <2>4. CASE CheckCancel(t, r)
    BY <1>2, <2>4 DEF CheckCancel, Return, CallInProgress
  <2>5. CASE MassCancel(t, r)
    BY <1>2, <2>5 DEF MassCancel, Selected, Return, CallInProgress, sharedVars, orderVars, Placed
  <2> QED BY <2>2, <2>3, <2>4, <2>5
<1>4. CASE Register(t) \/ Enrol(t) \/ EnterNew(t)
  <2>1. CASE Register(t)
    <3>1. nextId # None /\ cur'[t] = nextId /\ pc'[t] = "enrol"
      BY <2>1, FlowAssumption DEF Register, Goto, OrderIds
    <3> QED BY <3>1 DEF CallInProgress
  <2>2. CASE Enrol(t) \/ EnterNew(t)
    BY <1>1, <2>2 DEF Enrol, EnterNew, Goto, CallInProgress, orderVars, callVars, Placed
  <2> QED BY <1>4, <2>1, <2>2
<1>5. CASE \/ DropKey(t) \/ EnterModify(t) \/ ModifyToNothing(t) \/ ModifyTooLate(t)
           \/ CheckModified(t) \/ PutModified(t) \/ Restore(t)
  BY <1>1, <1>2, <1>5
     DEF DropKey, EnterModify, ModifyToNothing, ModifyTooLate, CheckModified, PutModified, Restore,
         Goto, Return, CallInProgress, sharedVars, orderVars, callVars, Placed
<1>6. CASE Test(t)
  <2>1. cur[t] \in Placed /\ leaves[cur[t]] \in Nat
    BY <1>1, <1>6, PlacedOrder DEF CallInProgress, Test
  <2>2. /\ cur'[t] = cur[t] /\ nextId' = nextId /\ leaves' = leaves
        /\ pc'[t] \in {"rest", "pick", "best"}
        /\ pc'[t] # "rest" => leaves[cur[t]] # 0
    BY <1>6 DEF Test, sharedVars, orderVars, callVars
  <2> QED BY <2>1, <2>2 DEF CallInProgress, Placed
<1>7. CASE Best(t)
  <2>1. CASE Throw(t)
    BY <1>1, <1>2, <1>7, <2>1
       DEF Best, Throw, Unwind, Return, CallInProgress, orderVars, callVars, Placed
  <2>2. CASE ~Throw(t)
    BY <1>1, <1>7, <2>2 DEF Best, CallInProgress, sharedVars, orderVars, callVars, Placed
  <2> QED BY <2>1, <2>2
<1>8. CASE \/ NothingToPick(t) \/ DropStale(t) \/ CheckOwnPassive(t) \/ CancelOwnPassive(t)
           \/ Fill(t) \/ Settle(t) \/ Clear(t)
  BY <1>1, <1>8
     DEF NothingToPick, DropStale, CheckOwnPassive, CancelOwnPassive, Fill, Settle, Clear, Goto,
         CallInProgress, sharedVars, orderVars, callVars, Placed
<1>9. CASE PreventSelfTrade(t) \/ Pick(t)
  <2>1. cur[t] \in Placed
    BY <1>1, <1>9 DEF CallInProgress, PreventSelfTrade, Pick, Goto
  <2>2. PICK p \in OrderIds : IsHead(cur[t], p) /\ passive' = [passive EXCEPT ![t] = p]
    BY <1>9 DEF PreventSelfTrade, Pick
  <2>3. p \in Placed
    BY <2>1, <2>2, HeadIsQueued
  <2>4. /\ cur'[t] = cur[t] /\ nextId' = nextId /\ passive'[t] = p
        /\ pc'[t] \in {"selfTrade", "fill"}
    BY <1>9, <2>2 DEF PreventSelfTrade, Pick, Goto, sharedVars, orderVars, callVars
  <2> QED BY <2>1, <2>3, <2>4 DEF CallInProgress, Placed
<1>10. CASE OwnPassiveGone(t)
  BY <1>1, <1>2, <1>10
     DEF OwnPassiveGone, Throw, Unwind, Return, CallInProgress, orderVars, callVars, Placed
<1>11. CASE Rest(t)
  BY <1>1, <1>2, <1>11 DEF Rest, Return, CallInProgress, orderVars, callVars, Placed
<1>12. CASE Unbook(t) \/ CheckStillOpen(t) \/ MarkCancelled(t) \/ Uncache(t) \/ Forget(t)
  <2>1. CASE /\ pc[t] \notin {"idle", "register"}
             /\ pc'[t] \in {"checkCancel", "markCancelled", "uncache", "forget"}
             /\ UNCHANGED <<nextId, cur>>
    BY <1>1, <2>1 DEF CallInProgress, Placed
  <2>2. CASE \E a \in Answers : Proceed(t, a) /\ nextId' = nextId
    <3>1. CASE todo[t] = {}
      BY <1>2, <2>2, <3>1 DEF Proceed, Return
    <3>2. CASE todo[t] # {}
      BY <2>2, <3>2 DEF Proceed, CallInProgress, Placed
    <3> QED BY <3>1, <3>2
  <2> QED BY <1>12, <2>1, <2>2
       DEF Unbook, CheckStillOpen, MarkCancelled, Uncache, Forget, Goto, Answers, sharedVars, orderVars, callVars
<1> QED BY <1>3, <1>4, <1>5, <1>6, <1>7, <1>8, <1>9, <1>10, <1>11, <1>12 DEF Step, Match

\* No step of another thread invalidates what a call in progress relies on.
LEMMA CallsStep ==
  ASSUME TypeOK, TypeOK', CallsInProgress, QueuesMatch, MonitorDiscipline, FillIsSafe,
         NEW t \in Threads, Receive(t) \/ Step(t)
  PROVE  CallsInProgress'
<1> SUFFICES ASSUME NEW u \in Threads
             PROVE  CallInProgress(u)'
  BY DEF CallsInProgress, CallInProgress
<1>1. CASE u = t
  BY <1>1, OwnCallStep
<1>2. CASE u # t
  <2>1. CallInProgress(u)
    BY DEF CallsInProgress, CallInProgress
  <2>2. pc'[u] = pc[u] /\ req'[u] = req[u] /\ cur'[u] = cur[u] /\ passive'[u] = passive[u]
    BY <1>2, OtherThreadsKept
  <2>3. Placed \subseteq Placed'
    BY OrdersKept
  <2>4. pc[u] \in {"best", "pick"} => leaves'[cur[u]] = leaves[cur[u]]
    BY <1>2, <2>1, LeavesGuarded DEF CallInProgress, Matching
  <2> QED BY <2>1, <2>2, <2>3, <2>4 DEF CallInProgress
<1> QED BY <1>1, <1>2

\* Every step conserves quantities.
LEMMA QuantitiesStep ==
  ASSUME TypeOK, CallsInProgress, NothingBefore, QuantitiesAgree, FillIsSafe,
         NEW t \in Threads, Receive(t) \/ Step(t)
  PROVE  QuantitiesAgree' /\ NothingBefore'
<1>1. CASE UNCHANGED orderVars
  BY <1>1 DEF orderVars, QuantitiesAgree, NothingBefore, IsActive, Placed
<1>2. CASE Register(t)
  <2>1. /\ req[t] \in NewRequest /\ nextId \in OrderIds /\ nextId \notin Placed
        /\ Placed' = Placed \union {nextId}
    BY <1>2, FlowAssumption DEF CallsInProgress, Register, Goto, Placed, OrderIds
  <2>2. req[t].qty \in 1..MaxQty /\ cum[nextId] = 0 /\ cum' = cum
    BY <1>2, <2>1 DEF NothingBefore, NewRequest, Register
  <2>3. /\ order'[nextId].qty = req[t].qty /\ leaves'[nextId] = req[t].qty
        /\ state'[nextId] = "LIVE"
        /\ \A o \in Placed : order'[o] = order[o] /\ leaves'[o] = leaves[o] /\ state'[o] = state[o]
    BY <1>2, <2>1, PlacedOrder DEF TypeOK, Register
  <2> QED BY <2>1, <2>2, <2>3, FlowAssumption DEF QuantitiesAgree, NothingBefore, IsActive, Active
<1>3. CASE EnterModify(t)
  <2> DEFINE o == cur[t]  r == req[t]
  <2>1. o \in Placed /\ r \in ModifyRequest /\ o \in OrderIds /\ order[o] \in Order
    BY <1>3, PlacedOrder DEF CallsInProgress, EnterModify, Goto
  <2>2. /\ order[o].qty \in Nat /\ leaves[o] \in Nat /\ cum[o] \in Nat /\ r.qty \in Nat
        /\ leaves[o] + cum[o] = order[o].qty
    BY <2>1, FlowAssumption DEF TypeOK, QuantitiesAgree, Order, ModifyRequest
  <2>3. /\ UNCHANGED <<nextId, state, cum>>
        /\ NewLeaves(o, r) > 0 /\ IsActive(o)
        /\ order' = [order EXCEPT ![o] = WithTerms(o, r)]
        /\ leaves' = [leaves EXCEPT ![o] = NewLeaves(o, r)]
    BY <1>3 DEF EnterModify
  <2>4. r.qty > 0 /\ NewLeaves(o, r) + cum[o] = r.qty
    BY <2>2, <2>3 DEF NewLeaves
  <2>5. order'[o].qty = r.qty /\ leaves'[o] = NewLeaves(o, r)
    BY <2>1, <2>3, <2>4, WithTermsType DEF TypeOK
  <2>6. \A p \in Placed \ {o} : order'[p] = order[p] /\ leaves'[p] = leaves[p]
    BY <2>3, PlacedOrder DEF TypeOK
  <2>7. Placed' = Placed
    BY <2>3 DEF Placed
  <2> HIDE DEF o, r
  <2> QED BY <2>3, <2>4, <2>5, <2>6, <2>7
       DEF QuantitiesAgree, NothingBefore, IsActive, Active
<1>4. CASE ModifyToNothing(t) \/ CancelOwnPassive(t) \/ MarkCancelled(t)
  <2>1. /\ UNCHANGED <<nextId, order, leaves, cum>>
        /\ \E x \in {cur[t], passive[t]} : state' = [state EXCEPT ![x] = "CANCELLED"]
    BY <1>4 DEF ModifyToNothing, CancelOwnPassive, MarkCancelled
  <2>2. \A o \in Placed : state'[o] \in {state[o], "CANCELLED"}
    BY <2>1, PlacedOrder DEF TypeOK
  <2> QED BY <2>1, <2>2 DEF QuantitiesAgree, NothingBefore, IsActive, Active, Placed
<1>5. CASE Fill(t)
  <2> DEFINE a == cur[t]  p == passive[t]  q == FillQty(t)
  <2>1. /\ a \in Placed /\ p \in Placed /\ a # p /\ q \in Nat \ {0}
        /\ a \in OrderIds /\ p \in OrderIds
        /\ q <= leaves[a] /\ q <= leaves[p]
    BY <1>5, FillQuantities, PlacedOrder
  <2>2. /\ leaves' = [leaves EXCEPT ![a] = leaves[a] - q, ![p] = leaves[p] - q]
        /\ cum' = [cum EXCEPT ![a] = cum[a] + q, ![p] = cum[p] + q]
    BY <1>5, FillQuantities
  <2>3. /\ UNCHANGED <<nextId, order>>
        /\ state' = [state EXCEPT ![a] = StateAfterFill(a, q), ![p] = StateAfterFill(p, q)]
    BY <1>5 DEF Fill
  <2> HIDE DEF a, p, q
  <2>4. ASSUME NEW o \in {a, p}
        PROVE  /\ leaves'[o] + cum'[o] = order'[o].qty
               /\ IsActive(o)' => leaves'[o] > 0
               /\ state'[o] = "FILLED" => leaves'[o] = 0
    <3>1. leaves'[o] = leaves[o] - q /\ cum'[o] = cum[o] + q /\ state'[o] = StateAfterFill(o, q)
      BY <2>1, <2>2, <2>3 DEF TypeOK
    <3>2. /\ leaves[o] \in Nat /\ cum[o] \in Nat /\ q \in Nat /\ q <= leaves[o]
          /\ leaves[o] + cum[o] = order[o].qty
      BY <2>1 DEF TypeOK, QuantitiesAgree
    <3>3. leaves[o] - q + (cum[o] + q) = leaves[o] + cum[o]
      BY <3>2
    <3>4. leaves[o] = q <=> leaves[o] - q = 0
      BY <3>2
    <3>5. leaves[o] # q => leaves[o] - q > 0
      BY <3>2
    <3> QED BY <2>3, <3>1, <3>2, <3>3, <3>4, <3>5 DEF StateAfterFill, IsActive, Active
  <2>5. \A o \in OrderIds \ {a, p} : leaves'[o] = leaves[o] /\ cum'[o] = cum[o] /\ state'[o] = state[o]
    BY <2>2, <2>3 DEF TypeOK
  <2>6. Placed' = Placed /\ Placed \subseteq OrderIds
    BY <2>3, PlacedOrder DEF Placed
  <2> QED BY <2>1, <2>3, <2>4, <2>5, <2>6 DEF QuantitiesAgree, NothingBefore, IsActive
<1>6. CASE Receive(t)
  BY <1>1, <1>6 DEF Receive, CheckNew, CheckModify, CheckCancel, MassCancel, sharedVars
<1>7. CASE \/ Test(t) \/ Best(t) \/ NothingToPick(t) \/ DropStale(t) \/ PreventSelfTrade(t)
           \/ CheckOwnPassive(t) \/ OwnPassiveGone(t) \/ Pick(t) \/ Settle(t) \/ Clear(t) \/ Rest(t)
  BY <1>1, <1>7
     DEF Test, Best, NothingToPick, DropStale, PreventSelfTrade, CheckOwnPassive,
         OwnPassiveGone, Pick, Settle, Clear, Rest, Throw, Unwind, sharedVars
<1>8. CASE \/ Enrol(t) \/ EnterNew(t) \/ DropKey(t) \/ ModifyTooLate(t)
           \/ CheckModified(t) \/ PutModified(t) \/ Restore(t)
           \/ Unbook(t) \/ CheckStillOpen(t) \/ Uncache(t) \/ Forget(t)
  BY <1>1, <1>8
     DEF Enrol, EnterNew, DropKey, ModifyTooLate, CheckModified, PutModified, Restore,
         Unbook, CheckStillOpen, Uncache, Forget, sharedVars
<1> QED BY <1>2, <1>3, <1>4, <1>5, <1>6, <1>7, <1>8 DEF Step, Match

\* A chosen passive order stays a sound choice until the fill.
LEMMA FillStep ==
  ASSUME TypeOK, CallsInProgress, QueuesMatch, MonitorDiscipline, QuantitiesAgree, FillIsSafe,
         NEW t \in Threads, Receive(t) \/ Step(t)
  PROVE  FillIsSafe'
<1> SUFFICES ASSUME NEW u \in Threads, pc'[u] = "fill"
             PROVE  LET a == cur'[u]  p == passive'[u] IN
                    /\ leaves'[a] > 0 /\ leaves'[p] > 0
                    /\ order'[p].symbol = order'[a].symbol
                    /\ order'[p].side = Opposite(order'[a].side)
                    /\ order'[p].user # order'[a].user
  BY DEF FillIsSafe
<1>1. CASE u # t
  <2> DEFINE a == cur[u]  p == passive[u]
  <2>1. pc[u] = "fill" /\ cur'[u] = a /\ passive'[u] = p
    BY <1>1, OtherThreadsKept
  <2>2. a \in Placed /\ p \in Placed
    BY <2>1 DEF CallsInProgress
  <2>3. /\ leaves[a] > 0 /\ leaves[p] > 0
        /\ order[p].symbol = order[a].symbol
        /\ order[p].side = Opposite(order[a].side)
        /\ order[p].user # order[a].user
    BY <2>1 DEF FillIsSafe
  <2>4. leaves'[a] = leaves[a] /\ leaves'[p] = leaves[p]
    BY <1>1, <2>1, <2>2, <2>3, LeavesGuarded DEF Matching
  <2>5. \A o \in {a, p} : /\ order'[o].symbol = order[o].symbol
                           /\ order'[o].side = order[o].side
                           /\ order'[o].user = order[o].user
    BY <2>2, OrdersKept
  <2> QED BY <2>1, <2>3, <2>4, <2>5
<1>2. CASE u = t
  <2>1. Pick(t)
    <3>1. ~Receive(t)
      BY <1>2 DEF Receive, CheckNew, CheckModify, CheckCancel, MassCancel, Return, TypeOK
    <3>2. ~(\/ Register(t) \/ Enrol(t) \/ EnterNew(t) \/ DropKey(t) \/ EnterModify(t)
            \/ ModifyToNothing(t) \/ ModifyTooLate(t) \/ CheckModified(t) \/ PutModified(t)
            \/ Restore(t))
      BY <1>2 DEF Register, Enrol, EnterNew, DropKey, EnterModify, ModifyToNothing,
                  ModifyTooLate, CheckModified, PutModified, Restore, Goto, Return, TypeOK
    <3>3. ~(\/ Test(t) \/ Best(t) \/ NothingToPick(t) \/ DropStale(t) \/ PreventSelfTrade(t)
            \/ CheckOwnPassive(t) \/ CancelOwnPassive(t) \/ OwnPassiveGone(t)
            \/ Fill(t) \/ Settle(t) \/ Clear(t) \/ Rest(t))
      BY <1>2 DEF Test, Best, NothingToPick, DropStale, PreventSelfTrade, CheckOwnPassive,
                  CancelOwnPassive, OwnPassiveGone, Fill, Settle, Clear, Rest, Throw, Unwind, Goto, Return, TypeOK
    <3>4. ~(Unbook(t) \/ CheckStillOpen(t) \/ MarkCancelled(t) \/ Uncache(t) \/ Forget(t))
      BY <1>2 DEF Unbook, CheckStillOpen, MarkCancelled, Uncache, Forget, Proceed, Goto, Return, TypeOK
    <3> QED BY <3>1, <3>2, <3>3, <3>4 DEF Step, Match
  <2>2. PICK p \in OrderIds : /\ IsHead(cur[t], p) /\ IsActive(p) /\ ~SelfTrade(cur[t], p)
                              /\ passive' = [passive EXCEPT ![t] = p]
    BY <2>1 DEF Pick
  <2>3. cur[t] \in Placed /\ leaves[cur[t]] > 0
    BY <2>1 DEF CallsInProgress, Pick, Goto
  <2>4. /\ p \in Placed /\ order[p].symbol = order[cur[t]].symbol
        /\ order[p].side = Opposite(order[cur[t]].side)
    BY <2>2, <2>3, HeadIsQueued
  <2>5. leaves[p] > 0 /\ order[p].user # order[cur[t]].user
    BY <2>2, <2>4 DEF QuantitiesAgree, SelfTrade
  <2>6. cur'[t] = cur[t] /\ passive'[t] = p /\ leaves' = leaves /\ order' = order
    BY <2>1, <2>2 DEF Pick, TypeOK, sharedVars, orderVars, callVars
  <2> QED BY <1>2, <2>3, <2>4, <2>5, <2>6
<1> QED BY <1>1, <1>2

-----------------------------------------------------------------------------
(* The theorems. *)

\* The invariant holds when the engine starts.
LEMMA EngineInit == Init => EngineInvariant
<1> SUFFICES ASSUME Init PROVE EngineInvariant
  OBVIOUS
<1> USE DEF Init
<1>1. Placed = {}
  BY DEF Placed
<1>2. TypeOK
  BY <1>1, FlowAssumption DEF TypeOK, States, Labels, Answers
<1>3. CallsInProgress /\ FillIsSafe
  BY DEF CallsInProgress, FillIsSafe
<1>4. QueuesMatch /\ NothingBefore /\ QuantitiesAgree
  BY <1>1 DEF QueuesMatch, NothingBefore, QuantitiesAgree
<1>5. MonitorDiscipline
  BY FlowAssumption DEF MonitorDiscipline, Matching
<1> QED BY <1>2, <1>3, <1>4, <1>5 DEF EngineInvariant

\* Every step preserves the invariant.
LEMMA EngineStep ==
  ASSUME EngineInvariant, [Next]_vars
  PROVE  EngineInvariant'
<1> USE DEF EngineInvariant
<1>1. TypeOK'
  BY TypeStep
<1>2. CASE UNCHANGED vars
  BY <1>1, <1>2
     DEF vars, sharedVars, orderVars, cacheVars, bookVars, callVars, CallsInProgress, QueuesMatch,
         NothingBefore, MonitorDiscipline, QuantitiesAgree, FillIsSafe, Placed, IsActive
<1>3. CASE \E t \in Threads : Receive(t) \/ Step(t)
  BY <1>1, <1>3, CallsStep, QueuesStep, MonitorStep, QuantitiesStep, FillStep
<1> QED BY <1>2, <1>3 DEF Next, Quiet

\* In every reachable state the engine's caches, book, monitors, calls and orders
\* are in the relations that OrderManager, MatchingEngine and Order rely on.
THEOREM EngineInvariantHolds == Spec => []EngineInvariant
<1>1. Init => EngineInvariant
  BY EngineInit
<1>2. EngineInvariant /\ [Next]_vars => EngineInvariant'
  BY EngineStep
<1> QED BY <1>1, <1>2, PTL DEF Spec

\* Type correctness: an id in a cache, in a queue or in a thread's hands is that
\* of an order that was created, and no quantity is ever negative.
THEOREM TypeCorrect == Spec => []TypeOK
<1>1. EngineInvariant => TypeOK
  BY DEF EngineInvariant
<1> QED BY <1>1, EngineInvariantHolds, PTL

\* A symbol's monitor is owned by exactly the thread that matches an order of
\* that symbol, so no two threads match in one book, and no exit from the
\* synchronized blocks of MatchingEngine leaves a monitor behind.
THEOREM OneMatcherPerBook == Spec => []MonitorDiscipline
<1>1. EngineInvariant => MonitorDiscipline
  BY DEF EngineInvariant
<1> QED BY <1>1, EngineInvariantHolds, PTL

\* Fills and modifications account for every unit ordered, with any number of
\* threads: open plus executed is what the order's last terms ask for, an open
\* order has something left and a filled one nothing (Order.fill, Order.modify).
THEOREM QuantitiesConserved == Spec => []QuantitiesAgree
<1>1. EngineInvariant => QuantitiesAgree
  BY DEF EngineInvariant
<1> QED BY <1>1, EngineInvariantHolds, PTL

\* Whatever other threads did since the passive order was picked, the fill that
\* executeMatching is about to make is one that Order.fill accepts, between two
\* sides of one symbol and two different users.
THEOREM FillsAreSafe == Spec => []FillIsSafe
<1>1. EngineInvariant => FillIsSafe
  BY DEF EngineInvariant
<1> QED BY <1>1, EngineInvariantHolds, PTL

-----------------------------------------------------------------------------
(* The same invariant when saves throw. *)

\* An exception out of a save keeps the types.
LEMMA UnsavedType ==
  ASSUME TypeOK, CallsInProgress, NEW t \in Threads, SaveThrows(t)
  PROVE  TypeOK'
<1>1. cur[t] \in Placed /\ order[cur[t]].symbol \in Symbols /\ order[cur[t]].clOrdID \in ClOrdIDs
  <2>1. cur[t] \in Placed
    BY DEF CallsInProgress, SaveThrows, FillUnsaved, OwnPassiveUnsaved, NewUnsaved,
           ModifiedUnsaved, CancelUnsaved, Goto
  <2> QED BY <2>1, PlacedOrder
<1>2. CASE FillUnsaved(t)
  BY <1>1, <1>2, ThrowType DEF FillUnsaved
<1>3. CASE OwnPassiveUnsaved(t)
  <2>1. /\ state' \in [OrderIds -> States]
        /\ monitor' \in [Symbols -> Threads \union {None}]
    BY <1>1, <1>3 DEF TypeOK, OwnPassiveUnsaved, Unwind, Release, States
  <2>2. CASE IsModify(t)
    BY <1>3, <2>1, <2>2
       DEF TypeOK, OwnPassiveUnsaved, Unwind, Labels, cacheVars, bookVars, callVars, Placed
  <2>3. CASE ~IsModify(t)
    BY <1>3, <2>1, <2>3, ReturnType
       DEF TypeOK, OwnPassiveUnsaved, Unwind, Answers, cacheVars, bookVars, Placed
  <2> QED BY <2>2, <2>3
<1>4. CASE NewUnsaved(t)
  <2>1. level' \in [Levels -> Seq(Placed)] /\ index' \subseteq Placed
    BY <1>1, <1>4, AddOrderKeeps DEF TypeOK, NewUnsaved, bookVars
  <2>2. monitor' \in [Symbols -> Threads \union {None}]
    BY <1>4 DEF TypeOK, NewUnsaved, Release
  <2> QED BY <1>4, <2>1, <2>2, ReturnType
       DEF TypeOK, NewUnsaved, Answers, orderVars, cacheVars, Placed
<1>5. CASE ModifiedUnsaved(t)
  <2>1. byClOrd' \in [ClOrdIDs -> Placed \union {None}] /\ byId' \subseteq Placed
    BY <1>1, <1>5 DEF TypeOK, ModifiedUnsaved
  <2> QED BY <1>5, <2>1
       DEF TypeOK, ModifiedUnsaved, Goto, Labels, orderVars, bookVars, callVars, Placed
<1>6. CASE CancelUnsaved(t)
  BY <1>6, ProceedType
     DEF TypeOK, CancelUnsaved, Answers, sharedVars, orderVars, cacheVars, bookVars, Placed
<1> QED BY <1>2, <1>3, <1>4, <1>5, <1>6 DEF SaveThrows

\* What such an exception leaves alone: every quantity and every term of an order, and the
\* calls of the other threads.  Its own call ends, goes to the catch clause of a
\* modification, or goes on to the next order of a mass cancel.
LEMMA UnsavedKeeps ==
  ASSUME TypeOK, CallsInProgress, NEW t \in Threads, SaveThrows(t)
  PROVE  /\ UNCHANGED <<nextId, order, leaves, cum>>
         /\ \A o \in OrderIds : state'[o] \in {state[o], "CANCELLED"}
         /\ \A u \in Threads \ {t} : /\ pc'[u] = pc[u] /\ req'[u] = req[u]
                                     /\ cur'[u] = cur[u] /\ passive'[u] = passive[u]
         /\ pc'[t] \in {"idle", "restore", "unbook"}
         /\ pc'[t] # "idle" => cur'[t] \in Placed
         /\ UNCHANGED bookVars \/ AddOrder(cur[t])
         /\ MonitorKept(t) \/ MonitorLeft(t)
<1> USE DEF TypeOK
<1>1. cur[t] \in Placed
  BY DEF CallsInProgress, SaveThrows, FillUnsaved, OwnPassiveUnsaved, NewUnsaved,
         ModifiedUnsaved, CancelUnsaved, Goto
<1>2. CASE FillUnsaved(t)
  BY <1>1, <1>2 DEF FillUnsaved, Throw, Unwind, Release, Return, MonitorLeft, Matching, orderVars,
                    callVars
<1>3. CASE OwnPassiveUnsaved(t)
  BY <1>1, <1>3 DEF OwnPassiveUnsaved, Unwind, Release, Return, MonitorLeft, Matching, callVars
<1>4. CASE NewUnsaved(t)
  BY <1>1, <1>4 DEF NewUnsaved, Release, Return, MonitorLeft, Matching, orderVars
<1>5. CASE ModifiedUnsaved(t)
  BY <1>1, <1>5 DEF ModifiedUnsaved, Goto, MonitorKept, Matching, orderVars, callVars
<1>6. CASE CancelUnsaved(t)
  <2>1. CASE todo[t] = {}
    BY <1>6, <2>1 DEF CancelUnsaved, Proceed, Return, MonitorKept, Matching, sharedVars, orderVars
  <2>2. CASE todo[t] # {}
    <3>1. PICK o \in todo[t] : /\ pc' = [pc EXCEPT ![t] = "unbook"]
                               /\ cur' = [cur EXCEPT ![t] = o]
                               /\ UNCHANGED <<req, passive, answer>>
      BY <1>6, <2>2 DEF CancelUnsaved, Proceed
    <3>2. o \in Placed
      OBVIOUS
    <3> QED BY <1>6, <3>1, <3>2 DEF CancelUnsaved, MonitorKept, Matching, sharedVars, orderVars
  <2> QED BY <2>1, <2>2
<1> QED BY <1>2, <1>3, <1>4, <1>5, <1>6 DEF SaveThrows

\* An exception out of a save preserves the invariant.
LEMMA UnsavedStep ==
  ASSUME EngineInvariant, NEW t \in Threads, SaveThrows(t)
  PROVE  EngineInvariant'
<1> USE DEF EngineInvariant
<1>1. TypeOK'
  BY UnsavedType
<1>2. /\ UNCHANGED <<nextId, order, leaves, cum>> /\ Placed' = Placed
      /\ \A o \in OrderIds : state'[o] \in {state[o], "CANCELLED"}
  BY UnsavedKeeps DEF Placed
<1>3. \A u \in Threads \ {t} : /\ pc'[u] = pc[u] /\ req'[u] = req[u]
                               /\ cur'[u] = cur[u] /\ passive'[u] = passive[u]
  BY UnsavedKeeps
<1>4. pc'[t] \in {"idle", "restore", "unbook"} /\ (pc'[t] # "idle" => cur'[t] \in Placed)
  BY UnsavedKeeps
<1>5. CallsInProgress'
  BY <1>2, <1>3, <1>4 DEF CallsInProgress
<1>6. QueuesMatch'
  <2> SUFFICES ASSUME NEW l \in Levels, NEW i \in 1..Len(level'[l])
               PROVE  order[level'[l][i]].symbol = l[1] /\ order[level'[l][i]].side = l[2]
    BY <1>2 DEF QueuesMatch
  <2>1. CASE UNCHANGED bookVars
    BY <2>1 DEF QueuesMatch, bookVars
  <2>2. CASE AddOrder(cur[t])
    <3>1. cur[t] \in Placed
      BY DEF CallsInProgress, SaveThrows, FillUnsaved, OwnPassiveUnsaved, NewUnsaved,
             ModifiedUnsaved, CancelUnsaved, Goto
    <3>2. \/ \E j \in 1..Len(level[l]) : level'[l][i] = level[l][j]
          \/ level'[l][i] \in Placed /\ l = LevelOf(level'[l][i])
      BY <2>2, <3>1, AddOrderKeeps
    <3> QED BY <3>2 DEF QueuesMatch, LevelOf
  <2> QED BY <2>1, <2>2, UnsavedKeeps
<1>7. QuantitiesAgree' /\ NothingBefore'
  BY <1>2, PlacedOrder DEF QuantitiesAgree, NothingBefore, IsActive, Active
<1>8. FillIsSafe'
  BY <1>2, <1>3, <1>4 DEF FillIsSafe
<1>9. MonitorDiscipline'
  <2> SUFFICES ASSUME NEW u \in Threads, NEW s \in Symbols
               PROVE  monitor'[s] = u <=> pc'[u] \in Matching /\ order[cur'[u]].symbol = s
    BY <1>2 DEF MonitorDiscipline
  <2>1. monitor[s] = u <=> pc[u] \in Matching /\ order[cur[u]].symbol = s
    BY DEF MonitorDiscipline
  <2>2. CASE MonitorKept(t)
    BY <1>3, <2>1, <2>2 DEF MonitorKept
  <2>3. CASE MonitorLeft(t)
    <3>1. monitor[order[cur[t]].symbol] = t
      BY <2>3, PlacedOrder DEF MonitorDiscipline, MonitorLeft
    <3> QED BY <1>3, <2>1, <2>3, <3>1, FlowAssumption DEF TypeOK, MonitorLeft
  <2> QED BY <2>2, <2>3, UnsavedKeeps
<1> QED BY <1>1, <1>5, <1>6, <1>7, <1>8, <1>9

\* A save that throws anywhere in a call, between the fills of a match and the removal
\* of the passive order too, leaves the monitors, the quantities and the safety of fills
\* as they are (the catch clauses of OrderManager).
THEOREM FailuresAreContained == FailingSpec => []EngineInvariant
<1>1. Init => EngineInvariant
  BY EngineInit
<1>2. ASSUME EngineInvariant, [FailingNext]_vars
      PROVE  EngineInvariant'
  BY <1>2, EngineStep, UnsavedStep DEF FailingNext
<1> QED BY <1>1, <1>2, PTL DEF FailingSpec
=============================================================================
