-------------------------- MODULE Progress_proofs --------------------------
(***************************************************************************)
(* The matching loop ends: MatchIsFinite, for any number of threads,       *)
(* orders, prices and quantities.                                          *)
(*                                                                         *)
(* The argument: StepsLeft counts the open quantity of the aggressor and   *)
(* the orders of the book.  A fill uses up some of the first, a stale or   *)
(* own head that is dropped some of the second, because a head is indexed  *)
(* (BookWellFormed), and between two of them the loop only goes forward.   *)
(* No other thread adds to either: the quantity changes, and orders enter  *)
(* the book, under the monitor of the symbol only.                         *)
(***************************************************************************)
EXTENDS Book_proofs, FiniteSetTheorems

\* The orders of the book that the match of a thread may meet.
Around(t) == {o \in index : order[o].symbol = order[cur[t]].symbol}

-----------------------------------------------------------------------------
(* The measure is a natural number. *)

\* The orders of the book are finitely many, before a step and after it.
LEMMA AroundIsFinite ==
  ASSUME TypeOK, TypeOK', NEW t \in Threads
  PROVE  /\ IsFiniteSet(Around(t)) /\ Cardinality(Around(t)) \in Nat
         /\ IsFiniteSet(Around(t)') /\ Cardinality(Around(t)') \in Nat
<1>1. IsFiniteSet(1..(nextId - 1)) /\ IsFiniteSet(1..(nextId' - 1))
  <2>1. 1 \in Int /\ nextId - 1 \in Int /\ nextId' - 1 \in Int
    BY FlowAssumption DEF TypeOK
  <2> QED BY <2>1, FS_Interval, Zenon
<1>2. Around(t) \in SUBSET (1..(nextId - 1)) /\ Around(t)' \in SUBSET (1..(nextId' - 1))
  BY DEF TypeOK, Around, Placed
<1> QED BY <1>1, <1>2, FS_Subset, FS_CardinalityType

\* The rank of every step of the loop is small.
LEMMA RankIs ==
  /\ Rank["rest"] = 0 /\ Rank["fill"] = 1 /\ Rank["pick"] = 2 /\ Rank["best"] = 3
  /\ Rank["test"] = 4 /\ Rank["clear"] = 5 /\ Rank["settle"] = 6 /\ Rank["cancelOwn"] = 5
  /\ Rank["selfTrade"] = 6
BY DEF Rank

-----------------------------------------------------------------------------
(* The steps of the loop. *)

\* The orders around a match stay where they are, or some of them leave.
LEMMA FewerAround ==
  ASSUME TypeOK, TypeOK', NEW t \in Threads, Around(t)' \subseteq Around(t)
  PROVE  Cardinality(Around(t)') <= Cardinality(Around(t))
BY AroundIsFinite, FS_Subset

\* The head of a level is in the book, around the match that meets it.
LEMMA HeadIsAround ==
  ASSUME TypeOK, QueuesMatch, BookWellFormed, NEW t \in Threads, cur[t] \in Placed,
         NEW p, IsHead(cur[t], p)
  PROVE  p \in Around(t)
<1> DEFINE s == order[cur[t]].symbol  against == Opposite(order[cur[t]].side)
<1>1. PICK price \in Prices :
        IsBest(s, against, price) /\ p = Head(level[<<s, against, price>>])
  BY DEF IsHead
<1> DEFINE l == <<s, against, price>>
<1>2. l \in Levels
  BY PlacedOrder DEF Levels, Opposite, Sides
<1>3. level[l] # <<>>
  BY <1>1 DEF IsBest, Occupied
<1>4. p = Head(level[l])
  BY <1>1
<1> HIDE DEF l
<1>5. level[l] \in Seq(Placed) /\ 1 \in 1..Len(level[l]) /\ p = level[l][1]
  BY <1>2, <1>3, <1>4, HeadTailProperties DEF TypeOK
<1>6. p \in index
  BY <1>2, <1>5, QueuedOrder
<1> QED BY <1>6, HeadIsQueued DEF Around

\* A step that takes the head of a level out of the book leaves one order fewer around.
LEMMA HeadLeaves ==
  ASSUME TypeOK, TypeOK', QueuesMatch, BookWellFormed, NEW t \in Threads, cur[t] \in Placed,
         NEW p, IsHead(cur[t], p), RemoveOrder(p), UNCHANGED <<order, cur>>
  PROVE  Cardinality(Around(t)') = Cardinality(Around(t)) - 1
<1>1. p \in Around(t)
  BY HeadIsAround
<1>2. index' = index \ {p}
  BY <1>1 DEF RemoveOrder, Around
<1>3. Around(t)' = Around(t) \ {p}
  BY <1>2 DEF Around
<1> QED BY <1>1, <1>3, AroundIsFinite, FS_RemoveElement

\* What a step of the loop uses up: quantity, an order of the book, or rank alone.
UsesQuantity(t) ==
  /\ pc[t] = "fill" /\ pc'[t] = "settle"
  /\ leaves'[cur[t]] < leaves[cur[t]] /\ Around(t)' = Around(t)
UsesOrder(t) ==
  /\ pc[t] = "pick" /\ pc'[t] \in {"test", "selfTrade"}
  /\ leaves' = leaves /\ Cardinality(Around(t)') = Cardinality(Around(t)) - 1
UsesRank(t) ==
  /\ Rank[pc'[t]] < Rank[pc[t]]
  /\ leaves' = leaves /\ Around(t)' \subseteq Around(t)

\* A step of the loop that stays in it uses up something.
LEMMA OwnMatchStep ==
  ASSUME TypeOK, TypeOK', CallsInProgress, QueuesMatch, FillIsSafe, BookWellFormed,
         NEW t \in Threads, Match(t), pc'[t] \in Matching
  PROVE  /\ cur'[t] = cur[t]
         /\ UsesQuantity(t) \/ UsesOrder(t) \/ UsesRank(t)
<1> USE RankIs DEF TypeOK
<1>1. pc[t] \in Matching
  BY DEF Match, Test, Best, NothingToPick, DropStale, PreventSelfTrade, CheckOwnPassive,
         CancelOwnPassive, OwnPassiveGone, Pick, Fill, Settle, Clear, Rest, Goto, Matching
<1>2. cur[t] \in Placed
  BY <1>1 DEF CallsInProgress, Matching
<1>3. ~Throw(t) /\ ~Rest(t)
  BY DEF Throw, Unwind, Rest, Return, Matching
<1>4. order' = order /\ cur' = cur
  BY <1>3 DEF Match, Test, Best, NothingToPick, DropStale, PreventSelfTrade, CheckOwnPassive,
              CancelOwnPassive, OwnPassiveGone, Pick, Fill, Settle, Clear,
              sharedVars, orderVars, callVars
<1>5. ASSUME index' \subseteq index
      PROVE  Around(t)' \subseteq Around(t)
  BY <1>4, <1>5 DEF Around
<1>6. CASE Test(t) \/ Best(t) \/ NothingToPick(t) \/ CheckOwnPassive(t) \/ CancelOwnPassive(t)
           \/ Pick(t)
  <2>1. leaves' = leaves /\ index' = index
    BY <1>3, <1>6 DEF Test, Best, NothingToPick, CheckOwnPassive, CancelOwnPassive, Pick,
                      sharedVars, orderVars, bookVars
  <2>2. Rank[pc'[t]] < Rank[pc[t]]
    <3>1. pc \in [Threads -> Labels]
      OBVIOUS
    <3>2. CASE Test(t)
      <4>1. pc[t] = "test" /\ pc'[t] \in {"rest", "pick", "best"}
        BY <3>1, <3>2, Zenon DEF Test
      <4> QED BY <4>1
    <3>3. CASE Best(t)
      <4>1. pc[t] = "best" /\ pc'[t] \in {"pick", "rest"}
        BY <1>3, <3>1, <3>3 DEF Best
      <4> QED BY <4>1
    <3>4. CASE NothingToPick(t) \/ CheckOwnPassive(t) \/ CancelOwnPassive(t) \/ Pick(t)
      BY <3>1, <3>4 DEF NothingToPick, CheckOwnPassive, CancelOwnPassive, Pick, Goto
    <3> QED BY <1>6, <3>2, <3>3, <3>4
  <2> QED BY <1>4, <1>5, <2>1, <2>2 DEF UsesRank
<1>7. CASE DropStale(t) \/ PreventSelfTrade(t)
  <2>1. PICK p : IsHead(cur[t], p) /\ RemoveOrder(p)
    BY <1>7 DEF DropStale, PreventSelfTrade
  <2>2. pc[t] = "pick" /\ pc'[t] \in {"test", "selfTrade"} /\ leaves' = leaves
    BY <1>7 DEF DropStale, PreventSelfTrade, Goto, orderVars
  <2> QED BY <1>2, <1>4, <2>1, <2>2, HeadLeaves DEF UsesOrder
<1>8. CASE Fill(t)
  <2>1. pc[t] = "fill" /\ pc'[t] = "settle" /\ index' = index
    BY <1>8 DEF Fill, Goto, bookVars
  <2>2. Around(t)' = Around(t)
    BY <1>4, <2>1 DEF Around
  <2>3. leaves'[cur[t]] < leaves[cur[t]]
    <3> DEFINE a == cur[t]  p == passive[t]  q == FillQty(t)
    <3>1. /\ a \in OrderIds /\ leaves[a] \in Nat /\ q \in Nat \ {0} /\ a # p
          /\ leaves' = [leaves EXCEPT ![a] = leaves[a] - q, ![p] = leaves[p] - q]
      BY <1>8, FillQuantities, PlacedOrder
    <3> HIDE DEF a, p, q
    <3>2. leaves'[a] = leaves[a] - q
      BY <3>1
    <3>3. leaves'[a] < leaves[a]
      BY <3>1, <3>2
    <3> QED BY <3>3 DEF a
  <2> QED BY <1>4, <2>1, <2>2, <2>3 DEF UsesQuantity
<1>9. CASE Settle(t) \/ Clear(t)
  <2>1. leaves' = leaves /\ <<pc[t], pc'[t]>> \in {<<"settle", "clear">>, <<"clear", "test">>}
    BY <1>9 DEF Settle, Clear, Goto, orderVars
  <2>2. index' \subseteq index
    BY <1>9 DEF Settle, Clear, RemoveOrder, bookVars
  <2> QED BY <1>4, <1>5, <2>1, <2>2 DEF UsesRank
<1>10. ~OwnPassiveGone(t)
  BY <1>3 DEF OwnPassiveGone
<1> QED BY <1>3, <1>6, <1>7, <1>8, <1>9, <1>10 DEF Match

\* Another thread's step leaves the quantity of a match alone and puts no order around it.
LEMMA OtherMatchKept ==
  ASSUME TypeOK, CallsInProgress, QueuesMatch, MonitorDiscipline, FillIsSafe,
         NEW t \in Threads, pc[t] \in Matching,
         NEW u \in Threads, u # t, Receive(u) \/ Step(u)
  PROVE  /\ pc'[t] = pc[t] /\ cur'[t] = cur[t]
         /\ leaves'[cur[t]] = leaves[cur[t]]
         /\ Around(t)' \subseteq Around(t)
<1>1. cur[t] \in Placed
  BY DEF CallsInProgress, Matching
<1>2. monitor[order[cur[t]].symbol] = t /\ t \notin {None, u}
  BY <1>1, PlacedOrder, FlowAssumption DEF MonitorDiscipline
<1>3. pc'[t] = pc[t] /\ cur'[t] = cur[t]
  BY OtherThreadsKept
<1>4. leaves'[cur[t]] = leaves[cur[t]]
  BY <1>1, <1>2, LeavesKept
<1>5. \A o \in Placed : order'[o].symbol = order[o].symbol
  BY OrdersKept
<1>6. ASSUME NEW o \in index', o \notin index
      PROVE  o \in Placed /\ order[o].symbol # order[cur[t]].symbol
  <2>1. BookGains(u) /\ o = cur[u]
    <3>1. ~BookKept /\ \A p : ~BookLoses(p)
      BY <1>6 DEF BookKept, BookLoses, RemoveOrder, bookVars
    <3>2. BookGains(u)
      BY <3>1, BookChange
    <3> QED BY <1>6, <3>2 DEF BookGains, AddOrder, bookVars
  <2>2. cur[u] \in Placed /\ pc[u] \in Matching
    BY <2>1 DEF BookGains, Matching
  <2>3. monitor[order[cur[u]].symbol] = u
    BY <2>2, PlacedOrder DEF MonitorDiscipline
  <2> QED BY <1>2, <2>1, <2>2, <2>3
<1>7. index \subseteq Placed
  BY DEF TypeOK
<1>8. ASSUME NEW o \in Around(t)'
      PROVE  o \in Around(t)
  <2>1. o \in index' /\ order'[o].symbol = order'[cur[t]].symbol
    BY <1>3, <1>8 DEF Around
  <2>2. o \in Placed
    BY <1>6, <1>7, <2>1
  <2>3. order[o].symbol = order[cur[t]].symbol
    BY <1>1, <1>5, <2>1, <2>2
  <2> QED BY <1>6, <2>1, <2>3 DEF Around
<1> QED BY <1>3, <1>4, <1>8

-----------------------------------------------------------------------------
(* The theorem. *)

\* A step of the engine adds nothing to what a match has left.
LEMMA StepsLeftStep ==
  ASSUME EngineInvariant, EngineInvariant', BookWellFormed, Next,
         NEW t \in Threads, pc[t] \in Matching, pc'[t] \in Matching
  PROVE  /\ StepsLeft(t)' <= StepsLeft(t)
         /\ pc'[t] # pc[t] => StepsLeft(t)' < StepsLeft(t)
<1> DEFINE a == cur[t]
           m == leaves[a]  n == Cardinality(Around(t))  r == Rank[pc[t]]
           m1 == leaves'[a]  n1 == Cardinality(Around(t)')  r1 == Rank[pc'[t]]
<1>1. TypeOK /\ TypeOK' /\ CallsInProgress /\ QueuesMatch /\ MonitorDiscipline /\ FillIsSafe
  BY DEF EngineInvariant
<1>2. cur[t] \in Placed /\ cur[t] \in OrderIds
  BY <1>1, PlacedOrder DEF CallsInProgress, Matching
<1>3. m \in Nat /\ m1 \in Nat /\ n \in Nat /\ n1 \in Nat
  <2>1. leaves'[a] \in Nat
    BY <1>1, <1>2 DEF TypeOK
  <2> QED BY <1>1, <1>2, <2>1, AroundIsFinite DEF TypeOK
<1>4. r \in 0..6 /\ r1 \in 0..6
  BY RankIs DEF Matching
<1>5. StepsLeft(t) = 6 * (m + n) + r
  BY DEF StepsLeft, Around
<1>6. cur'[t] = cur[t] => StepsLeft(t)' = 6 * (m1 + n1) + r1
  BY DEF StepsLeft, Around
<1> HIDE DEF a, m, n, r, m1, n1, r1
<1>7. CASE UNCHANGED vars
  <2>1. m1 = m /\ n1 = n /\ r1 = r /\ cur'[t] = cur[t] /\ pc'[t] = pc[t]
    BY <1>7 DEF vars, sharedVars, orderVars, bookVars, callVars, m, n, r, m1, n1, r1, Around
  <2> QED BY <1>3, <1>4, <1>5, <1>6, <2>1
<1>8. ASSUME NEW u \in Threads, Receive(u) \/ Step(u), u # t
      PROVE  /\ StepsLeft(t)' <= StepsLeft(t)
             /\ pc'[t] # pc[t] => StepsLeft(t)' < StepsLeft(t)
  <2>1. /\ pc'[t] = pc[t] /\ cur'[t] = cur[t] /\ leaves'[cur[t]] = leaves[cur[t]]
        /\ Around(t)' \subseteq Around(t)
    BY <1>1, <1>8, OtherMatchKept
  <2>2. n1 <= n
    BY <1>1, <2>1, FewerAround DEF n, n1
  <2>3. m1 = m /\ r1 = r
    BY <2>1 DEF m, m1, r, r1, a
  <2>4. StepsLeft(t)' = 6 * (m1 + n1) + r1
    BY <1>6, <2>1
  <2> QED BY <1>3, <1>4, <1>5, <2>1, <2>2, <2>3, <2>4
<1>9. CASE Receive(t) \/ Step(t)
  <2>1. Match(t)
    BY <1>9 DEF Receive, CheckNew, CheckModify, CheckCancel, MassCancel, Serve, Step, Register,
                Enrol, EnterNew, DropKey, EnterModify, ModifyToNothing, ModifyTooLate,
                CheckModified, PutModified, Restore, Unbook, CheckStillOpen, MarkCancelled,
                Uncache, Forget, Goto, Matching
  <2>2. cur'[t] = cur[t] /\ (UsesQuantity(t) \/ UsesOrder(t) \/ UsesRank(t))
    BY <1>1, <2>1, OwnMatchStep
  <2>3. StepsLeft(t)' = 6 * (m1 + n1) + r1
    BY <1>6, <2>2
  <2>4. CASE UsesQuantity(t)
    <3>1. m1 < m /\ n1 = n /\ r = 1 /\ r1 = 6
      BY <2>4, RankIs DEF UsesQuantity, m, m1, n, n1, r, r1, a
    <3> QED BY <1>3, <1>5, <2>3, <3>1
  <2>5. CASE UsesOrder(t)
    <3>1. m1 = m /\ n1 = n - 1 /\ r = 2 /\ r1 \in {4, 6}
      BY <2>5, RankIs DEF UsesOrder, m, m1, n, n1, r, r1, a
    <3> QED BY <1>3, <1>5, <2>3, <3>1
  <2>6. CASE UsesRank(t)
    <3>1. m1 = m /\ r1 < r
      BY <2>6 DEF UsesRank, m, m1, r, r1, a
    <3>2. n1 <= n
      BY <1>1, <2>6, FewerAround DEF UsesRank, n, n1
    <3> QED BY <1>3, <1>4, <1>5, <2>3, <3>1, <3>2
  <2> QED BY <2>2, <2>4, <2>5, <2>6
<1> QED BY <1>7, <1>8, <1>9 DEF Next, Quiet

\* While threads modify only orders of users whom no other thread enters or modifies orders
\* for, every match ends: whatever other threads cancel, enter or modify meanwhile, each of
\* its steps uses up some of StepsLeft, a natural number, and nobody adds to it.
THEOREM MatchesAreFinite ==
  ASSUME OneModifier
  PROVE  Spec => MatchIsFinite
<1>1. ASSUME EngineInvariant, EngineInvariant', BookInvariant, [Next]_vars
      PROVE  [\A t \in Threads : pc[t] \in Matching /\ pc'[t] \in Matching =>
                /\ StepsLeft(t)' <= StepsLeft(t)
                /\ pc'[t] # pc[t] => StepsLeft(t)' < StepsLeft(t)]_vars
  <2>1. BookWellFormed
    BY <1>1 DEF BookInvariant
  <2> QED BY <1>1, <2>1, StepsLeftStep
<1> QED BY <1>1, EngineInvariantHolds, BookInvariantHolds, PTL DEF Spec, MatchIsFinite
=============================================================================
