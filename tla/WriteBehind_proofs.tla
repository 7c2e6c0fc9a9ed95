------------------------ MODULE WriteBehind_proofs ------------------------
(***************************************************************************)
(* Write-behind persistence for any number of threads, keys, orders,       *)
(* trades and failing writes, and queues and batches of any size.  IInv is *)
(* inductive; what the write_behind run checks follows from it, and so     *)
(* does the safety part of DurableStore.                                   *)
(*                                                                         *)
(* The argument: a change of an order and the request to save it are made  *)
(* by one thread in one call, and from then on the order is somewhere in   *)
(* the pipeline (NothingForgotten).  A record carries the number of the    *)
(* change it was read after; one with the newest number shows the order as *)
(* it is, however the reads were interleaved with a fill (Faithful), and   *)
(* the records of one writer do not go back in time (ShotsFollowJob).      *)
(***************************************************************************)
EXTENDS WriteBehind, TLAPS, SequenceTheorems, FiniteSetTheorems, WellFoundedInduction

Saves == [to: Repositories \union {"book"}, what: Orders] \union [to: {"trades"}, what: Trades]

\* The types of the variables: of the orders and the calls,
MemoryTyped ==
  /\ phase \in {"up", "closing", "closed", "crashed"}
  /\ nextId \in 1..(MaxOrders + 1) /\ nextTrade \in 1..(MaxTrades + 1)
  /\ key \in [Orders -> Keys \union {None}]
  /\ leaves \in [Orders -> Nat]
  /\ \A o \in Orders : leaves[o] <= Qty[o]
  /\ state \in [Orders -> Active \union {"FILLED", "CANCELLED", None}]
  /\ booked \subseteq Orders
  /\ rev \in [Orders -> 0..MaxRev]
  /\ monitor \in Threads \union {None}
  /\ incoming \in [Threads -> Orders \union {None}]
  /\ hit \in [Threads -> Orders \union {None}]
  /\ owed \in [Threads -> Seq(Saves)]

\* of the repositories of the orders,
PipelineTyped ==
  /\ queue \in [Repositories -> Seq(Orders)]
  /\ \A r \in Repositories : Len(queue[r]) <= OrderCap
  /\ job \in [Writers -> Seq(Orders)]
  /\ mode \in [Writers -> {"batch", "each"}]
  /\ dbKey \in [Writers -> Keys \union {None}]
  /\ shots \in [Writers -> Seq(Record)]
  /\ store \in [Keys -> Record \union {None}]
  /\ failures \in 0..MaxFailures
  /\ written \in [Orders -> 0..MaxRev]
  /\ refused \subseteq Orders \X (0..MaxRev) /\ skipped \subseteq Orders \X (0..MaxRev)
  /\ writtenBy \in [Orders -> SUBSET Writers]

\* and of the repository of the trades.
TradesTyped ==
  /\ tradeQueue \in Seq(Trades) /\ Len(tradeQueue) <= TradeCap
  /\ tradeJob \in [TradeWriters -> Trades \union {None}]
  /\ tradeStore \subseteq Trades /\ tradeIndex \subseteq Trades /\ lostTrades \subseteq Trades

Typed == MemoryTyped /\ PipelineTyped /\ TradesTyped

Placed == {o \in Orders : o < nextId}

\* Only placed orders are in the pipeline.
OnlyPlaced ==
  /\ \A o \in Orders \ Placed : state[o] = None
  /\ \A o \in Placed : key[o] \in Keys /\ rev[o] > 0
  /\ Open => \A o \in Orders \ Placed : rev[o] = 0 /\ writtenBy[o] = {}
  /\ \A t \in Threads : incoming[t] # None => incoming[t] \in Placed
  /\ \A t \in Threads : hit[t] # None => hit[t] \in Placed
  /\ \A t \in Threads : \A i \in 1..Len(owed[t]) :
       owed[t][i].to \in Repositories => owed[t][i].what \in Placed
  /\ \A r \in Repositories : \A i \in 1..Len(queue[r]) : queue[r][i] \in Placed
  /\ \A w \in Writers : \A i \in 1..Len(job[w]) : job[w][i] \in Placed

\* One thread matches at a time; between the two steps of a fill it owes no save
\* and a trade is left to make.
OneMatcher ==
  /\ \A t \in Threads : incoming[t] # None => monitor = t
  /\ \A t \in Threads : hit[t] # None =>
       /\ incoming[t] # None /\ incoming[t] # hit[t]
       /\ owed[t] = << >> /\ nextTrade \in Trades

\* A thread in a call does one thing after the other: it owes the save of one order at
\* most, and that comes first; and it owes or saves a trade only in the middle of its
\* match, and it is the last one made.
OneThing(t) ==
  /\ \A i \in 1..Len(owed[t]) :
       /\ owed[t][i].to \in Repositories => i = 1 /\ job[t] = << >> /\ tradeJob[t] = None
       /\ owed[t][i].to = "trades" => incoming[t] # None /\ owed[t][i].what = nextTrade - 1
  /\ tradeJob[t] # None =>
       incoming[t] # None /\ tradeJob[t] = nextTrade - 1 /\ job[t] = << >>
  /\ hit[t] # None => job[t] = << >> /\ tradeJob[t] = None
  /\ Len(job[t]) <= 1

OneAtATime == \A t \in Threads : OneThing(t)

\* An order in the middle of a fill has a change left.
ChangesBounded ==
  \A o \in Orders : rev[o] <= MaxRevs[o] /\ (Changing(o) => rev[o] < MaxRevs[o])

\* A record that shows the newest change of its order shows the order as it is.
Faithful(r) ==
  r.rev = rev[r.order] =>
    /\ r.key = key[r.order]
    /\ r.state = None \/ r.state = state[r.order]
    /\ ~Changing(r.order) => r.leaves = leaves[r.order]

\* What a thread has serialised is the beginning of its batch, and no record is
\* older than one before it of the same order, or than what the thread alone has stored.
ShotFollows(w, i) ==
  /\ shots[w][i].order = job[w][i]
  /\ shots[w][i].rev <= rev[job[w][i]]
  /\ i < Len(shots[w]) => shots[w][i].state # None
  /\ Open => Faithful(shots[w][i])
  /\ writtenBy[job[w][i]] \subseteq {w} => written[job[w][i]] <= shots[w][i].rev
  /\ \A j \in 1..i : job[w][j] = job[w][i] => shots[w][j].rev <= shots[w][i].rev

WriterFollows(w) ==
  /\ Len(shots[w]) <= Together(w) /\ \A i \in 1..Len(shots[w]) : ShotFollows(w, i)
  /\ dbKey[w] # None => Len(shots[w]) < Together(w) /\ ~Torn(w)

ShotsFollowJob == \A w \in Writers : WriterFollows(w)

\* What is stored has happened.
StoreIsPast ==
  /\ \A o \in Orders : written[o] <= rev[o]
  /\ \A o \in Orders : writtenBy[o] = {} => written[o] = 0
  /\ \A k \in Keys : store[k] # None =>
       /\ store[k].state # None
       /\ store[k].rev <= rev[store[k].order]
       /\ Open => Faithful(store[k])

\* If one thread alone has written an order, and the newest change, then this
\* is what the order's key holds of it.
LoneWriterIsNewest ==
  Open => \A o \in Orders : \A w \in Writers :
    writtenBy[o] = {w} /\ written[o] = rev[o] =>
      /\ store[key[o]] # None
      /\ store[key[o]].order = o => store[key[o]].rev = rev[o]

\* Finitely many threads have written an order, however many there are.
FewWriters == \A o \in Orders : IsFiniteSet(writtenBy[o])

IInv == /\ Typed /\ OnlyPlaced /\ OneMatcher /\ OneAtATime /\ ChangesBounded
        /\ ShotsFollowJob /\ StoreIsPast /\ LoneWriterIsNewest /\ FewWriters
        /\ NothingForgotten /\ IndexedTradesAreStored

-----------------------------------------------------------------------------
(* The bounds of the model. *)

\* A non-empty set of numbers has a least one.
LEMMA LeastOfNats ==
  ASSUME NEW S \in SUBSET Nat, S # {}
  PROVE  \E m \in S : \A n \in S : m <= n
<1> DEFINE R == {ss \in Nat \X Nat : ss[1] < ss[2]}
<1>1. IsWellFoundedOn(R, Nat)
  BY NatLessThanWellFounded DEF OpToRel
<1>2. \A m, n \in Nat : <<n, m>> \notin R => m <= n
  OBVIOUS
<1> HIDE DEF R
<1>3. \E m \in S : \A n \in S : <<n, m>> \notin R
  BY <1>1, WFMin
<1> QED BY <1>2, <1>3

\* Max is the greatest member of a set of numbers that has a bound.
LEMMA MaxOfNats ==
  ASSUME NEW S \in SUBSET Nat, S # {}, NEW b \in Nat, \A x \in S : x <= b
  PROVE  Max(S) \in S /\ \A x \in S : x <= Max(S)
<1> DEFINE T == {b - x : x \in S}
<1>1. T \in SUBSET Nat /\ T # {}
  <2>1. \A x \in S : b - x \in Nat
    OBVIOUS
  <2>2. PICK x \in S : TRUE
    OBVIOUS
  <2>3. b - x \in T
    BY <2>2
  <2> QED BY <2>1, <2>3
<1>2. PICK m \in T : \A n \in T : m <= n
  <2> HIDE DEF T
  <2> QED BY <1>1, LeastOfNats
<1>3. PICK x \in S : m = b - x
  OBVIOUS
<1>4. \A y \in S : x >= y
  <2> TAKE y \in S
  <2>1. b - y \in T
    OBVIOUS
  <2> QED BY <1>2, <1>3, <2>1
<1> HIDE DEF T
<1>5. \E z \in S : \A y \in S : z >= y
  BY <1>4
<1> QED BY <1>5 DEF Max

\* The values of a function on finitely many numbers are bounded: else there is a
\* least number of arguments whose values are not.
LEMMA ValuesBounded ==
  ASSUME NEW n \in Nat, NEW f \in [1..n -> Nat]
  PROVE  \E b \in Nat : \A i \in 1..n : f[i] <= b
<1> DEFINE Bounded(m) == \E b \in Nat : \A i \in 1..m : f[i] <= b
           Unbounded == {m \in 0..n : ~Bounded(m)}
<1> SUFFICES ASSUME ~Bounded(n) PROVE FALSE
  OBVIOUS
<1>0. Unbounded # {}
  <2>1. n \in Unbounded
    <3> HIDE DEF Bounded
    <3> QED OBVIOUS
  <2> QED BY <2>1
<1>1. Unbounded \in SUBSET Nat
  OBVIOUS
<1>2. PICK m \in Unbounded : \A k \in Unbounded : m <= k
  <2> HIDE DEF Unbounded
  <2> QED BY <1>0, <1>1, LeastOfNats
<1>3. m \in 1..n
  <2>1. Bounded(0)
    <3>1. \A i \in 1..0 : f[i] <= 0
      OBVIOUS
    <3> QED BY <3>1
  <2>2. m \in 0..n /\ ~Bounded(m)
    <3> HIDE DEF Bounded
    <3> QED OBVIOUS
  <2>3. m # 0
    <3> HIDE DEF Bounded
    <3> QED BY <2>1, <2>2
  <2> QED BY <2>2, <2>3
<1>4. Bounded(m - 1)
  <2>1. m - 1 \in 0..n /\ ~(m <= m - 1)
    BY <1>3
  <2> HIDE DEF Bounded
  <2> QED BY <1>2, <2>1
<1>5. PICK b \in Nat : \A i \in 1..(m - 1) : f[i] <= b
  BY <1>4, Zenon
<1>6. PICK c \in Nat : b <= c /\ f[m] <= c
  <2>1. PICK d \in Nat : d = f[m]
    BY <1>3
  <2>2. b + d \in Nat /\ b <= b + d /\ d <= b + d
    OBVIOUS
  <2> QED BY <2>1, <2>2
<1>7. \A i \in 1..m : f[i] <= c
  <2> TAKE i \in 1..m
  <2>1. f[i] \in Nat
    <3>1. i \in 1..n
      BY <1>3
    <3> QED BY <3>1
  <2>2. CASE i = m BY <1>6, <2>1, <2>2
  <2>3. CASE i # m BY <1>5, <1>6, <2>1, <2>3
  <2> QED BY <2>2, <2>3
<1>8. ~Bounded(m)
  <2> HIDE DEF Bounded
  <2> QED OBVIOUS
<1> QED BY <1>7, <1>8

\* No quantity is greater than the greatest.
LEMMA QtyBound ==
  ASSUME NEW o \in Orders
  PROVE  Max(Range(Qty)) \in Nat /\ Qty[o] \in 0..Max(Range(Qty))
<1>1. MaxOrders \in Nat /\ Qty \in [1..MaxOrders -> Nat]
  BY WriteBehindAssumption DEF Orders
<1>2. PICK b \in Nat : \A i \in 1..MaxOrders : Qty[i] <= b
  BY <1>1, ValuesBounded
<1>3. Range(Qty) = {Qty[i] : i \in 1..MaxOrders}
  BY <1>1 DEF Range
<1>4. Range(Qty) \in SUBSET Nat /\ Qty[o] \in Range(Qty)
  BY <1>1, <1>3 DEF Orders
<1>5. Max(Range(Qty)) \in Range(Qty) /\ \A x \in Range(Qty) : x <= Max(Range(Qty))
  <2>1. \A x \in Range(Qty) : x <= b
    BY <1>2, <1>3
  <2> QED BY <1>4, <2>1, MaxOfNats
<1> QED BY <1>4, <1>5

\* MaxRev bounds the changes of every order.
LEMMA RevBound == MaxRev \in Nat /\ \A o \in Orders : MaxRevs[o] \in 1..MaxRev
<1>1. MaxOrders \in Nat /\ MaxRevs \in [1..MaxOrders -> Nat \ {0}]
  BY WriteBehindAssumption DEF Orders
<1>2. PICK b \in Nat : \A i \in 1..MaxOrders : MaxRevs[i] <= b
  <2>1. MaxRevs \in [1..MaxOrders -> Nat]
    BY <1>1
  <2> QED BY <1>1, <2>1, ValuesBounded
<1> DEFINE S == {0} \union Range(MaxRevs)
<1>3. S = {0} \union {MaxRevs[i] : i \in 1..MaxOrders}
  BY <1>1 DEF Range
<1>4. S \in SUBSET Nat /\ S # {} /\ \A x \in S : x <= b
  BY <1>1, <1>2, <1>3
<1>5. Max(S) \in S /\ \A x \in S : x <= Max(S)
  <2> HIDE DEF S
  <2> QED BY <1>4, MaxOfNats
<1>6. Max(S) = MaxRev
  BY DEF MaxRev
<1> HIDE DEF S
<1> QED BY <1>1, <1>3, <1>4, <1>5, <1>6 DEF Orders

-----------------------------------------------------------------------------
(* The steps. *)

\* What the threads do to the orders in memory.
MemoryAction(t) ==
  \/ \E k \in Keys : Place(t, k)
  \/ \E p \in Orders : Fill(t, p) \/ TakeOff(t, p)
  \/ Settle(t) \/ Rest(t)
  \/ \E o \in Orders : Cancel(t, o)
  \/ \E o \in Orders, k \in Keys : Modify(t, o, k)

\* An exception that leaves a match.
Throws(t) == SaveThrows(t) \/ TradeSaveThrows(t)

\* The next-state relation by the part of the system that moves.
LEMMA NextSteps ==
  Next <=> \/ \E t \in Threads : MemoryAction(t) \/ Unbook(t) \/ SaveOrder(t) \/ SaveTrade(t)
           \/ \E t \in Threads : Throws(t)
           \/ \E w \in Writers : BuildKey(w) \/ Serialise(w) \/ SerialiseState(w) \/ Write(w)
           \/ \E r \in Repositories : Take(r) \/ WriteFails(r)
           \/ TakeTrade \/ TradeFails
           \/ \E w \in TradeWriters : WriteTrade(w)
           \/ Shutdown \/ Close \/ Crash
BY Zenon DEF Next, Request, Match, Serve, Persist, MemoryAction, Throws

\* A batch being written is no longer than what the writer has taken.
LEMMA TogetherInJob ==
  ASSUME PipelineTyped, NEW w \in Writers
  PROVE  /\ Together(w) \in 0..Len(job[w])
         /\ mode[w] = "each" => Together(w) <= 1
         /\ Together(w) = 0 => job[w] = << >>
<1>1. job[w] \in Seq(Orders) /\ Len(job[w]) \in Nat
  BY DEF PipelineTyped
<1>2. Min({1, Len(job[w])}) \in {1, Len(job[w])} /\ Min({1, Len(job[w])}) <= 1
      /\ Min({1, Len(job[w])}) <= Len(job[w])
  <2>1. \E m \in {1, Len(job[w])} : \A n \in {1, Len(job[w])} : m <= n
    <3>1. {1, Len(job[w])} \in SUBSET Nat
      BY <1>1
    <3> QED BY <3>1, LeastOfNats
  <2> QED BY <2>1 DEF Min
<1> QED BY <1>1, <1>2 DEF Together, PipelineTyped

\* The smaller of two quantities can be taken from both.
LEMMA FillQtyBounds ==
  ASSUME MemoryTyped, NEW a \in Orders, NEW p \in Orders
  PROVE  /\ FillQty(a, p) \in Nat
         /\ FillQty(a, p) <= leaves[a] /\ FillQty(a, p) <= leaves[p]
<1>1. {leaves[a], leaves[p]} \in SUBSET Nat
  BY DEF MemoryTyped
<1>2. \E m \in {leaves[a], leaves[p]} : \A n \in {leaves[a], leaves[p]} : m <= n
  BY <1>1, LeastOfNats
<1>3. /\ Min({leaves[a], leaves[p]}) \in {leaves[a], leaves[p]}
      /\ \A n \in {leaves[a], leaves[p]} : Min({leaves[a], leaves[p]}) <= n
  BY <1>2 DEF Min
<1> QED BY <1>1, <1>3 DEF FillQty

\* A writer takes at least one order, and no more than are queued.
LEMMA TakenInQueue ==
  ASSUME PipelineTyped, NEW r \in Repositories, queue[r] # << >>
  PROVE  Taken(r) \in 1..Len(queue[r])
<1>1. queue[r] \in Seq(Orders) /\ Len(queue[r]) \in Nat \ {0}
  BY DEF PipelineTyped
<1>2. BatchMax \in Nat \ {0}
  BY WriteBehindAssumption
<1>3. {BatchMax, Len(queue[r])} \in SUBSET Nat
  BY <1>1, <1>2
<1>4. \E m \in {BatchMax, Len(queue[r])} : \A n \in {BatchMax, Len(queue[r])} : m <= n
  BY <1>3, LeastOfNats
<1>5. /\ Min({BatchMax, Len(queue[r])}) \in {BatchMax, Len(queue[r])}
      /\ \A n \in {BatchMax, Len(queue[r])} : Min({BatchMax, Len(queue[r])}) <= n
  BY <1>4 DEF Min
<1> QED BY <1>1, <1>2, <1>5 DEF Taken

\* The sets the variables' types are made of.
LEMMA ConstantFacts ==
  /\ MaxOrders \in Nat /\ MaxTrades \in Nat /\ MaxFailures \in Nat /\ OrderCap \in Nat
  /\ TradeCap \in Nat
  /\ Orders \subseteq Nat /\ Trades \subseteq Nat
  /\ None \notin Orders /\ None \notin Trades
BY WriteBehindAssumption DEF Orders, Trades

\* An order that may change, or is in the middle of a fill, is below the bound.
LEMMA RoomForChange ==
  ASSUME MemoryTyped, ChangesBounded, NEW o \in Orders, MayChange(o) \/ Changing(o)
  PROVE  rev[o] \in Nat /\ rev[o] + 1 \in 0..MaxRev
<1>1. rev[o] \in Nat /\ MaxRev \in Nat /\ MaxRevs[o] \in 1..MaxRev
  BY RevBound DEF MemoryTyped
<1>2. rev[o] < MaxRevs[o]
  <2>1. CASE MayChange(o)
    BY <1>1, <2>1 DEF MayChange
  <2>2. CASE Changing(o)
    BY <1>1, <2>2 DEF ChangesBounded
  <2> QED BY <2>1, <2>2
<1> QED BY <1>1, <1>2

\* What a round of matching owes.
AfterFill(p, n) ==
  <<[to |-> "engine", what |-> p], [to |-> "trades", what |-> n]>>
    \o IF leaves[p] = 0 THEN <<[to |-> "book", what |-> p]>> ELSE << >>

\* This is what Settle leaves a thread to do.
LEMMA SettleOwes ==
  ASSUME NEW t \in Threads, Settle(t)
  PROVE  owed' = [owed EXCEPT ![t] = AfterFill(hit[t], nextTrade)]
BY DEF Settle, AfterFill

\* First the order, then the trade, then perhaps the removal of the order.
InTurn(s, p, n) ==
  /\ 1 \in DOMAIN s /\ 2 \in DOMAIN s
  /\ s[1] = [to |-> "engine", what |-> p] /\ s[2] = [to |-> "trades", what |-> n]
  /\ Len(s) = 3 => s[3] = [to |-> "book", what |-> p]
  /\ \A i \in 1..Len(s) : i \in {1, 2} \/ (i = 3 /\ Len(s) = 3)

\* So Settle leaves it.
LEMMA AfterFillIs == ASSUME NEW p, NEW n PROVE InTurn(AfterFill(p, n), p, n)
<1> DEFINE u == <<[to |-> "engine", what |-> p], [to |-> "trades", what |-> n]>>
           v == <<[to |-> "book", what |-> p]>>
<1>1. CASE leaves[p] = 0
  <2>1. AfterFill(p, n) = u \o v
    BY <1>1 DEF AfterFill
  <2>2. /\ Len(u \o v) = 3 /\ DOMAIN (u \o v) = 1..3
        /\ (u \o v)[1] = u[1] /\ (u \o v)[2] = u[2] /\ (u \o v)[3] = v[1]
    OBVIOUS
  <2> QED BY <2>1, <2>2 DEF InTurn
<1>2. CASE leaves[p] # 0
  <2>1. AfterFill(p, n) = u \o << >>
    BY <1>2 DEF AfterFill
  <2>2. /\ Len(u \o << >>) = 2 /\ DOMAIN (u \o << >>) = 1..2
        /\ (u \o << >>)[1] = u[1] /\ (u \o << >>)[2] = u[2]
    OBVIOUS
  <2> QED BY <2>1, <2>2 DEF InTurn
<1> QED BY <1>1, <1>2

\* The saves a call owes.
LEMMA SavesOwed ==
  /\ \A r \in Repositories, o \in Orders : <<[to |-> r, what |-> o]>> \in Seq(Saves)
  /\ \A o \in Orders, n \in Trades : AfterFill(o, n) \in Seq(Saves)
  /\ << >> \in Seq(Saves)
<1>1. \A r \in Repositories, o \in Orders : <<[to |-> r, what |-> o]>> \in Seq(Saves)
  BY DEF Saves
<1>2. ASSUME NEW o \in Orders, NEW n \in Trades PROVE AfterFill(o, n) \in Seq(Saves)
  <2>1. <<[to |-> "engine", what |-> o], [to |-> "trades", what |-> n]>> \in Seq(Saves)
    BY DEF Saves, Repositories
  <2>2. <<[to |-> "book", what |-> o]>> \in Seq(Saves) /\ << >> \in Seq(Saves)
    BY DEF Saves
  <2> QED BY <2>1, <2>2 DEF AfterFill
<1> QED BY <1>1, <1>2

-----------------------------------------------------------------------------
(* Types. *)

\* The groups of variables, for the proofs about types.
USE DEF memVars, callVars, pipeVars, storeVars, tradeVars, lossVars

\* The threads keep the types of the orders in memory.
LEMMA TypedMemory ==
  ASSUME MemoryTyped, OnlyPlaced, OneMatcher, ChangesBounded, NEW t \in Threads, MemoryAction(t)
  PROVE  MemoryTyped'
<1>0. /\ \A o \in Orders : Qty[o] \in Nat
      /\ None \notin Orders
      /\ MaxRev \in Nat
      /\ MaxOrders \in Nat /\ MaxTrades \in Nat
  BY RevBound, WriteBehindAssumption DEF Orders
<1>1. ASSUME NEW k \in Keys, Place(t, k) PROVE MemoryTyped'
  <2>1. nextId \in Orders /\ nextId + 1 \in 1..(MaxOrders + 1)
    BY <1>0, <1>1 DEF Place, Orders
  <2>2. leaves' \in [Orders -> Nat] /\ \A o \in Orders : leaves'[o] <= Qty[o]
    BY <1>0, <1>1, <2>1 DEF Place, MemoryTyped
  <2>3. rev' \in [Orders -> 0..MaxRev]
    <3>1. MaxRevs[nextId] \in 1..MaxRev
      BY <2>1, RevBound
    <3>2. 1 \in 0..MaxRev
      BY <1>0, <3>1
    <3> QED BY <1>1, <2>1, <3>2 DEF Place, MemoryTyped
  <2> QED BY <1>1, <2>1, <2>2, <2>3 DEF Place, MemoryTyped, Active
<1>2. ASSUME NEW p \in Orders, Fill(t, p) PROVE MemoryTyped'
  <2> DEFINE a == incoming[t]
             q == FillQty(a, p)
  <2>1. a \in Orders /\ p # a /\ hit' = [hit EXCEPT ![t] = p]
        /\ leaves' = [leaves EXCEPT ![a] = @ - q, ![p] = @ - q]
    BY <1>2 DEF Fill, Matching, MemoryTyped
  <2>2. q \in Nat /\ q <= leaves[a] /\ q <= leaves[p]
    BY <2>1, FillQtyBounds
  <2> HIDE DEF a, q
  <2>3. leaves[a] - q \in Nat /\ leaves[p] - q \in Nat /\ leaves[a] - q <= Qty[a]
        /\ leaves[p] - q <= Qty[p]
    BY <1>0, <2>1, <2>2 DEF MemoryTyped
  <2>4. leaves' \in [Orders -> Nat] /\ \A o \in Orders : leaves'[o] <= Qty[o]
    BY <2>1, <2>3 DEF MemoryTyped
  <2>5. UNCHANGED <<phase, nextId, nextTrade, key, state, booked, rev, monitor, incoming, owed>>
    BY <1>2 DEF Fill
  <2> QED BY <2>1, <2>4, <2>5 DEF MemoryTyped
<1>3. ASSUME NEW p \in Orders, TakeOff(t, p) PROVE MemoryTyped'
  <2>1. UNCHANGED <<phase, nextId, nextTrade, key, leaves, monitor, incoming, hit>>
        /\ booked' \subseteq Orders
    BY <1>3 DEF TakeOff, MemoryTyped
  <2>2. CASE IsLive(p)
    <3>1. rev[p] + 1 \in 0..MaxRev
      BY <1>3, <2>2, RoomForChange DEF TakeOff
    <3>2. OwedAfterSelfTrade(p) \in Seq(Saves)
      BY SavesOwed DEF OwedAfterSelfTrade, Repositories
    <3> QED BY <1>3, <2>1, <2>2, <3>1, <3>2 DEF TakeOff, MemoryTyped
  <2>3. CASE ~IsLive(p)
    BY <1>3, <2>1, <2>3 DEF TakeOff, MemoryTyped
  <2> QED BY <2>2, <2>3
<1>4. CASE Settle(t)
  <2> DEFINE a == incoming[t]
             p == hit[t]
             S == Active \union {"FILLED", "CANCELLED", None}
  <2>1. a \in Orders /\ p \in Orders /\ a # p /\ nextTrade \in Trades /\ Changing(a) /\ Changing(p)
    BY <1>4 DEF Settle, OneMatcher, Changing, MemoryTyped
  <2>2. rev[a] + 1 \in 0..MaxRev /\ rev[p] + 1 \in 0..MaxRev
    BY <2>1, RoomForChange
  <2>3. owed' = [owed EXCEPT ![t] = AfterFill(p, nextTrade)]
        /\ AfterFill(p, nextTrade) \in Seq(Saves)
    BY <1>4, <2>1, SavesOwed, SettleOwes
  <2>4. nextTrade + 1 \in 1..(MaxTrades + 1)
    BY <1>0, <2>1 DEF Trades
  <2>5. /\ rev' = [rev EXCEPT ![a] = @ + 1, ![p] = @ + 1]
        /\ state' = [state EXCEPT
             ![a] = IF leaves[a] = 0 THEN "FILLED" ELSE "PARTIALLY_FILLED",
             ![p] = IF leaves[p] = 0 THEN "FILLED" ELSE "PARTIALLY_FILLED"]
    BY <1>4 DEF Settle
  <2>6. rev' \in [Orders -> 0..MaxRev]
    BY <2>1, <2>2, <2>5 DEF MemoryTyped
  <2>7. state' \in [Orders -> S]
    BY <2>1, <2>5 DEF MemoryTyped, Active
  <2>8. UNCHANGED <<phase, nextId, key, leaves, booked, monitor, incoming>>
        /\ hit' \in [Threads -> Orders \union {None}] /\ nextTrade' = nextTrade + 1
    BY <1>4 DEF Settle, MemoryTyped
  <2> HIDE DEF a, p
  <2> QED BY <2>3, <2>4, <2>6, <2>7, <2>8 DEF MemoryTyped
<1>5. CASE Rest(t)
  <2>1. incoming[t] \in Orders
    BY <1>5 DEF Rest, Matching, MemoryTyped
  <2>2. <<[to |-> "manager", what |-> incoming[t]]>> \in Seq(Saves)
    BY <2>1, SavesOwed DEF Repositories
  <2>3. booked' \subseteq Orders
    BY <1>5, <2>1 DEF Rest, MemoryTyped
  <2>4. UNCHANGED <<phase, nextId, nextTrade, key, leaves, state, rev, hit>>
    BY <1>5 DEF Rest
  <2>5. owed' \in [Threads -> Seq(Saves)] /\ monitor' = None
        /\ incoming' \in [Threads -> Orders \union {None}]
    BY <1>5, <2>2 DEF Rest, MemoryTyped
  <2> QED BY <2>3, <2>4, <2>5 DEF MemoryTyped
<1>6. ASSUME NEW o \in Orders, Cancel(t, o) PROVE MemoryTyped'
  <2>1. rev[o] + 1 \in 0..MaxRev
    BY <1>6, RoomForChange DEF Cancel
  <2>2. <<[to |-> "manager", what |-> o]>> \in Seq(Saves)
    BY SavesOwed DEF Repositories
  <2> QED BY <1>6, <2>1, <2>2 DEF Cancel, MemoryTyped
<1>7. ASSUME NEW o \in Orders, NEW k \in Keys, Modify(t, o, k) PROVE MemoryTyped'
  <2>1. rev[o] + 1 \in 0..MaxRev
    BY <1>7, RoomForChange DEF Modify
  <2> QED BY <1>7, <2>1 DEF Modify, MemoryTyped
<1> QED BY <1>1, <1>2, <1>3, <1>4, <1>5, <1>6, <1>7 DEF MemoryAction

\* What a write leaves under a key: the last of its records with that key, if any.
LEMMA StoredIs ==
  ASSUME PipelineTyped, NEW w \in Writers, NEW k \in Keys
  PROVE  \/ /\ Stored(w, k) = store[k]
            /\ \A i \in 1..Len(shots[w]) : shots[w][i].at # k
         \/ \E m \in 1..Len(shots[w]) :
              /\ Stored(w, k) = shots[w][m] /\ shots[w][m].at = k
              /\ \A i \in 1..Len(shots[w]) : shots[w][i].at = k => i <= m
<1> DEFINE mine == {i \in DOMAIN shots[w] : shots[w][i].at = k}
<1>1. DOMAIN shots[w] = 1..Len(shots[w]) /\ Len(shots[w]) \in Nat
  BY DEF PipelineTyped
<1>2. CASE mine = {}
  BY <1>1, <1>2 DEF Stored
<1>3. CASE mine # {}
  <2>1. mine \in SUBSET Nat /\ \A x \in mine : x <= Len(shots[w])
    BY <1>1
  <2>2. Max(mine) \in mine /\ \A x \in mine : x <= Max(mine)
    <3> HIDE DEF mine
    <3> QED BY <1>1, <1>3, <2>1, MaxOfNats
  <2>3. Stored(w, k) = shots[w][Max(mine)]
    BY <1>3 DEF Stored
  <2> QED BY <1>1, <2>2, <2>3
<1> QED BY <1>2, <1>3

\* The newest change of an order that was stored before or is being written, under the
\* identifier the record shows.
Newest(w, o) ==
  Max({written[o]} \union
        {r.rev : r \in {x \in Range(shots[w]) : x.order = o /\ x.at = x.key}})

\* It is the greatest of these numbers.
LEMMA NewestIs ==
  ASSUME PipelineTyped, NEW w \in Writers, NEW o \in Orders
  PROVE  /\ Newest(w, o) \in 0..MaxRev
         /\ written[o] <= Newest(w, o)
         /\ \A i \in 1..Len(shots[w]) :
              shots[w][i].order = o /\ shots[w][i].at = shots[w][i].key
                => shots[w][i].rev <= Newest(w, o)
         /\ \/ Newest(w, o) = written[o]
            \/ \E i \in 1..Len(shots[w]) :
                 /\ shots[w][i].order = o /\ shots[w][i].at = shots[w][i].key
                 /\ Newest(w, o) = shots[w][i].rev
<1> DEFINE S == {written[o]} \union
                 {r.rev : r \in {x \in Range(shots[w]) : x.order = o /\ x.at = x.key}}
<1>1. shots[w] \in Seq(Record) /\ Len(shots[w]) \in Nat
      /\ \A i \in 1..Len(shots[w]) : shots[w][i] \in Record
  BY DEF PipelineTyped
<1>2. Range(shots[w]) = {shots[w][i] : i \in 1..Len(shots[w])}
  BY <1>1, RangeEquality
<1>3. written[o] \in 0..MaxRev /\ MaxRev \in Nat
  BY RevBound DEF PipelineTyped
<1>4. \A x \in S : x = written[o] \/ \E i \in 1..Len(shots[w]) :
                     /\ shots[w][i].order = o /\ shots[w][i].at = shots[w][i].key
                     /\ x = shots[w][i].rev
  BY <1>2
<1>5. /\ written[o] \in S
      /\ \A i \in 1..Len(shots[w]) :
           shots[w][i].order = o /\ shots[w][i].at = shots[w][i].key => shots[w][i].rev \in S
  BY <1>2
<1>6. \A i \in 1..Len(shots[w]) : shots[w][i].rev \in 0..MaxRev
  BY <1>1 DEF Record
<1> HIDE DEF S
<1>7. S \in SUBSET Nat /\ S # {} /\ \A x \in S : x <= MaxRev
  BY <1>3, <1>4, <1>5, <1>6
<1>8. Max(S) \in S /\ \A x \in S : x <= Max(S)
  BY <1>3, <1>7, MaxOfNats
<1>9. Newest(w, o) = Max(S)
  BY DEF Newest, S
<1> QED BY <1>3, <1>4, <1>5, <1>6, <1>7, <1>8, <1>9

\* What a thread is writing, and how much of it.
LEMMA JobFacts ==
  ASSUME PipelineTyped, ShotsFollowJob, NEW w \in Writers
  PROVE  /\ job[w] \in Seq(Orders) /\ Len(job[w]) \in Nat
         /\ shots[w] \in Seq(Record) /\ Len(shots[w]) \in Nat
         /\ Together(w) \in 0..Len(job[w]) /\ Len(shots[w]) <= Together(w)
         /\ Len(shots[w]) <= Len(job[w])
         /\ \A i \in 1..Len(job[w]) : job[w][i] \in Orders
         /\ \A i \in 1..Len(shots[w]) : shots[w][i] \in Record
         /\ dbKey[w] # None => Len(shots[w]) < Together(w) /\ ~Torn(w)
<1>1. /\ job[w] \in Seq(Orders) /\ Len(job[w]) \in Nat
      /\ shots[w] \in Seq(Record) /\ Len(shots[w]) \in Nat
      /\ \A i \in 1..Len(job[w]) : job[w][i] \in Orders
      /\ \A i \in 1..Len(shots[w]) : shots[w][i] \in Record
  BY DEF PipelineTyped
<1>2. /\ Together(w) \in 0..Len(job[w]) /\ Len(shots[w]) <= Together(w)
      /\ dbKey[w] # None => Len(shots[w]) < Together(w) /\ ~Torn(w)
  BY TogetherInJob DEF ShotsFollowJob, WriterFollows
<1> QED BY <1>1, <1>2

\* The next save a call owes.
LEMMA NextSave ==
  ASSUME MemoryTyped, NEW t \in Threads, owed[t] # << >>
  PROVE  /\ Head(owed[t]) \in Saves /\ Tail(owed[t]) \in Seq(Saves)
         /\ Head(owed[t]).to \in Repositories \union {"book"} => Head(owed[t]).what \in Orders
         /\ Head(owed[t]).to = "trades" => Head(owed[t]).what \in Trades
         /\ Len(owed[t]) \in Nat /\ Len(Tail(owed[t])) = Len(owed[t]) - 1
         /\ Head(owed[t]) = owed[t][1]
         /\ \A i \in 1..Len(Tail(owed[t])) : Tail(owed[t])[i] = owed[t][i + 1]
<1>1. owed[t] \in Seq(Saves)
  BY DEF MemoryTyped
<1>2. Head(owed[t]) \in Saves /\ Tail(owed[t]) \in Seq(Saves)
      /\ Len(Tail(owed[t])) = Len(owed[t]) - 1
      /\ \A i \in 1..Len(Tail(owed[t])) : Tail(owed[t])[i] = owed[t][i + 1]
  BY <1>1, HeadTailProperties
<1>3. Head(owed[t]) = owed[t][1] /\ Len(owed[t]) \in Nat
  BY <1>1
<1>4. "trades" \notin Repositories \union {"book"}
  BY DEF Repositories
<1> QED BY <1>2, <1>3, <1>4 DEF Saves

\* What SaveAsync does to the queue and the caller.
LEMMA SaveAsyncIs ==
  ASSUME PipelineTyped, NEW t \in Threads, NEW r \in Repositories, NEW o \in Orders,
         SaveAsync(t, r, o)
  PROVE  \/ /\ queue' = [queue EXCEPT ![r] = Append(@, o)]
            /\ Append(queue[r], o) \in Seq(Orders)
            /\ Len(Append(queue[r], o)) = Len(queue[r]) + 1 /\ Len(queue[r]) \in Nat
            /\ \A i \in 1..Len(queue[r]) : Append(queue[r], o)[i] = queue[r][i]
            /\ Append(queue[r], o)[Len(queue[r]) + 1] = o
            /\ Len(Append(queue[r], o)) <= OrderCap
            /\ UNCHANGED <<job, mode>>
         \/ /\ job' = [job EXCEPT ![t] = <<o>>] /\ mode' = [mode EXCEPT ![t] = "each"]
            /\ queue' = queue
<1>1. queue[r] \in Seq(Orders) /\ Len(queue[r]) \in Nat /\ OrderCap \in Nat
  BY WriteBehindAssumption DEF PipelineTyped
<1>2. PICK others \in 0..MaxOthers[r] :
        IF Len(queue[r]) + others < OrderCap
          THEN queue' = [queue EXCEPT ![r] = Append(@, o)] /\ UNCHANGED <<job, mode>>
          ELSE /\ job' = [job EXCEPT ![t] = <<o>>] /\ mode' = [mode EXCEPT ![t] = "each"]
               /\ UNCHANGED queue
  BY DEF SaveAsync
<1>3. others \in Nat
  BY WriteBehindAssumption
<1>4. CASE Len(queue[r]) + others < OrderCap
  <2>1. /\ Append(queue[r], o) \in Seq(Orders)
        /\ Len(Append(queue[r], o)) = Len(queue[r]) + 1
        /\ \A i \in 1..Len(queue[r]) : Append(queue[r], o)[i] = queue[r][i]
        /\ Append(queue[r], o)[Len(queue[r]) + 1] = o
    BY <1>1, AppendProperties
  <2>2. Len(Append(queue[r], o)) <= OrderCap
    BY <1>1, <1>3, <1>4, <2>1
  <2> QED BY <1>1, <1>2, <1>4, <2>1, <2>2
<1>5. CASE ~(Len(queue[r]) + others < OrderCap)
  BY <1>2, <1>5
<1> QED BY <1>4, <1>5

\* A writer takes the beginning of its queue and leaves the rest.
LEMMA TakeIs ==
  ASSUME PipelineTyped, NEW r \in Repositories, queue[r] # << >>
  PROVE  LET q == queue[r]
             n == Taken(r) IN
         /\ n \in 1..Len(q) /\ Len(q) \in Nat
         /\ SubSeq(q, 1, n) \in Seq(Orders) /\ Len(SubSeq(q, 1, n)) = n
         /\ \A i \in 1..n : SubSeq(q, 1, n)[i] = q[i]
         /\ SubSeq(q, n + 1, Len(q)) \in Seq(Orders)
         /\ Len(SubSeq(q, n + 1, Len(q))) = Len(q) - n
         /\ \A i \in 1..(Len(q) - n) : SubSeq(q, n + 1, Len(q))[i] = q[n + i]
<1> DEFINE q == queue[r]
           n == Taken(r)
<1>1. q \in Seq(Orders) /\ n \in 1..Len(q) /\ Len(q) \in Nat
  BY TakenInQueue DEF PipelineTyped
<1> HIDE DEF q, n
<1>2. \A i \in 1..Len(q) : q[i] \in Orders
  BY <1>1
<1>3. /\ SubSeq(q, 1, n) \in Seq(Orders) /\ Len(SubSeq(q, 1, n)) = n
      /\ \A i \in 1..n : SubSeq(q, 1, n)[i] = q[i]
  BY <1>1, <1>2, SMT
<1>4. /\ SubSeq(q, n + 1, Len(q)) \in Seq(Orders)
      /\ Len(SubSeq(q, n + 1, Len(q))) = Len(q) - n
      /\ \A i \in 1..(Len(q) - n) : SubSeq(q, n + 1, Len(q))[i] = q[n + i]
  BY <1>1, <1>2, SMT
<1> QED BY <1>1, <1>3, <1>4 DEF q, n

\* What is left of a job after a write.
LEMMA RestOfJob ==
  ASSUME PipelineTyped, ShotsFollowJob, NEW w \in Writers
  PROVE  LET rest == SubSeq(job[w], Len(shots[w]) + 1, Len(job[w])) IN
         /\ rest \in Seq(Orders) /\ Len(rest) = Len(job[w]) - Len(shots[w])
         /\ \A i \in 1..Len(rest) : rest[i] = job[w][Len(shots[w]) + i]
<1> DEFINE j == job[w]
           n == Len(shots[w])
<1>1. j \in Seq(Orders) /\ Len(j) \in Nat /\ n \in Nat /\ n <= Len(j)
      /\ \A i \in 1..Len(j) : j[i] \in Orders
  BY JobFacts
<1> HIDE DEF j, n
<1>2. /\ SubSeq(j, n + 1, Len(j)) \in Seq(Orders)
      /\ Len(SubSeq(j, n + 1, Len(j))) = Len(j) - n
      /\ \A i \in 1..(Len(j) - n) : SubSeq(j, n + 1, Len(j))[i] = j[n + i]
  BY <1>1, SMT
<1> QED BY <1>2 DEF j, n

\* A single save that fails is given up.
LEMMA JobAfterFailure ==
  ASSUME PipelineTyped, ShotsFollowJob, NEW w \in Writers, Serialised(w), mode[w] # "batch"
  PROVE  /\ Len(shots[w]) = 1 /\ Len(job[w]) \in Nat \ {0}
         /\ Head(job[w]) = job[w][1] /\ Head(job[w]) \in Orders
         /\ Tail(job[w]) \in Seq(Orders) /\ Len(Tail(job[w])) = Len(job[w]) - 1
         /\ \A i \in 1..Len(Tail(job[w])) : Tail(job[w])[i] = job[w][i + 1]
<1>1. mode[w] = "each" /\ Together(w) <= 1
  BY TogetherInJob DEF PipelineTyped
<1>2. /\ Len(shots[w]) = Together(w) /\ Len(shots[w]) > 0
      /\ Len(job[w]) \in Nat /\ Len(shots[w]) \in Nat /\ Len(shots[w]) <= Len(job[w])
      /\ job[w] \in Seq(Orders)
  BY JobFacts DEF Serialised
<1>3. Len(shots[w]) = 1 /\ Len(job[w]) \in Nat \ {0} /\ job[w] # << >>
  BY <1>1, <1>2
<1>4. /\ Tail(job[w]) \in Seq(Orders) /\ Len(Tail(job[w])) = Len(job[w]) - 1
      /\ \A i \in 1..Len(Tail(job[w])) : Tail(job[w])[i] = job[w][i + 1]
      /\ Head(job[w]) \in Orders
  BY <1>2, <1>3, HeadTailProperties
<1>5. Head(job[w]) = job[w][1]
  BY <1>2
<1> QED BY <1>3, <1>4, <1>5

\* The newest record is completed by its state.
LEMMA SerialiseStateIs ==
  ASSUME PipelineTyped, NEW w \in Writers, MemoryTyped, SerialiseState(w)
  PROVE  LET n == Len(shots[w])
             r == [shots[w][n] EXCEPT !.state = state[shots[w][n].order]] IN
         /\ n \in Nat \ {0} /\ shots[w][n] \in Record /\ r \in Record
         /\ shots' = [shots EXCEPT ![w] = [shots[w] EXCEPT ![n] = r]]
         /\ [shots[w] EXCEPT ![n] = r] \in Seq(Record) /\ Len([shots[w] EXCEPT ![n] = r]) = n
         /\ \A i \in 1..n : [shots[w] EXCEPT ![n] = r][i] = IF i = n THEN r ELSE shots[w][i]
<1> DEFINE n == Len(shots[w])
           r == [shots[w][n] EXCEPT !.state = state[shots[w][n].order]]
<1>1. shots[w] \in Seq(Record) /\ n \in Nat
  BY DEF PipelineTyped
<1>2. n \in 1..Len(shots[w]) /\ shots[w][n] \in Record
  BY <1>1 DEF SerialiseState, Torn
<1>3. Last(shots[w]) = shots[w][n]
  BY DEF Last
<1>4. r \in Record
  BY <1>2 DEF Record, MemoryTyped
<1>5. shots' = [shots EXCEPT ![w] = [shots[w] EXCEPT ![n] = r]]
  BY <1>2, <1>3 DEF SerialiseState
<1> HIDE DEF r
<1>6. /\ [shots[w] EXCEPT ![n] = r] \in Seq(Record) /\ Len([shots[w] EXCEPT ![n] = r]) = n
      /\ \A i \in 1..n : [shots[w] EXCEPT ![n] = r][i] = IF i = n THEN r ELSE shots[w][i]
  BY <1>1, <1>2, <1>4, ExceptSeq
<1> QED BY <1>1, <1>2, <1>4, <1>5, <1>6 DEF r

\* The next order of the batch is read.
LEMMA SerialiseIs ==
  ASSUME MemoryTyped, PipelineTyped, OnlyPlaced, ShotsFollowJob, NEW w \in Writers, Serialise(w)
  PROVE  LET n == Len(shots[w])
             o == job[w][n + 1]
             r == [order |-> o, at |-> dbKey[w], key |-> key[o], leaves |-> leaves[o],
                   rev |-> rev[o], state |-> None] IN
         /\ n \in Nat /\ n + 1 \in 1..Together(w) /\ n + 1 \in 1..Len(job[w])
         /\ o \in Orders /\ o \in Placed /\ r \in Record
         /\ shots' = [shots EXCEPT ![w] = Append(@, r)]
         /\ Append(shots[w], r) \in Seq(Record) /\ Len(Append(shots[w], r)) = n + 1
         /\ \A i \in 1..n : Append(shots[w], r)[i] = shots[w][i]
         /\ Append(shots[w], r)[n + 1] = r
<1> DEFINE n == Len(shots[w])
           o == job[w][n + 1]
           r == [order |-> o, at |-> dbKey[w], key |-> key[o], leaves |-> leaves[o],
                 rev |-> rev[o], state |-> None]
<1>1. n \in Nat /\ n + 1 \in 1..Together(w) /\ n + 1 \in 1..Len(job[w])
  BY JobFacts DEF Serialise
<1>2. o \in Orders /\ o \in Placed
  BY <1>1, JobFacts DEF OnlyPlaced
<1>3. key[o] \in Keys /\ rev[o] \in 0..MaxRev /\ dbKey[w] \in Keys
  BY <1>2 DEF OnlyPlaced, MemoryTyped, PipelineTyped, Serialise
<1>4. leaves[o] \in 0..Max(Range(Qty))
  <2>1. leaves[o] \in Nat /\ leaves[o] <= Qty[o]
    BY <1>2 DEF MemoryTyped
  <2>2. Max(Range(Qty)) \in Nat /\ Qty[o] \in 0..Max(Range(Qty))
    BY <1>2, QtyBound
  <2> QED BY <2>1, <2>2
<1>5. r \in Record
  BY <1>2, <1>3, <1>4 DEF Record
<1>6. shots' = [shots EXCEPT ![w] = Append(@, r)]
  BY DEF Serialise, NextOf
<1>7. shots[w] \in Seq(Record)
  BY JobFacts
<1> HIDE DEF r
<1>8. /\ Append(shots[w], r) \in Seq(Record) /\ Len(Append(shots[w], r)) = n + 1
      /\ \A i \in 1..n : Append(shots[w], r)[i] = shots[w][i]
      /\ Append(shots[w], r)[n + 1] = r
  BY <1>5, <1>7, AppendProperties
<1> QED BY <1>1, <1>2, <1>5, <1>6, <1>8 DEF r

\* The calls and writers of the order repositories keep the types of these.
LEMMA TypedPipeline ==
  ASSUME MemoryTyped, PipelineTyped, OnlyPlaced, ShotsFollowJob, NEW w \in Writers
  PROVE  /\ w \in Threads /\ SaveOrder(w) => PipelineTyped' /\ MemoryTyped'
         /\ w \in Repositories /\ Take(w) => PipelineTyped'
         /\ BuildKey(w) => PipelineTyped'
         /\ Serialise(w) => PipelineTyped'
         /\ SerialiseState(w) => PipelineTyped'
         /\ Write(w) => PipelineTyped'
         /\ w \in Repositories /\ WriteFails(w) => PipelineTyped'
<1>1. ASSUME w \in Threads, SaveOrder(w) PROVE PipelineTyped' /\ MemoryTyped'
  <2> DEFINE r == Head(owed[w]).to
             o == Head(owed[w]).what
  <2>1. r \in Repositories /\ o \in Orders /\ SaveAsync(w, r, o)
        /\ Tail(owed[w]) \in Seq(Saves)
    BY <1>1, NextSave DEF SaveOrder
  <2> HIDE DEF r, o
  <2>2. /\ queue' \in [Repositories -> Seq(Orders)]
        /\ \A x \in Repositories : Len(queue'[x]) <= OrderCap
        /\ job' \in [Writers -> Seq(Orders)] /\ mode' \in [Writers -> {"batch", "each"}]
    <3>1. <<o>> \in Seq(Orders)
      BY <2>1
    <3>2. \/ /\ \E q \in Seq(Orders) : queue' = [queue EXCEPT ![r] = q] /\ Len(q) <= OrderCap
             /\ UNCHANGED <<job, mode>>
          \/ /\ job' = [job EXCEPT ![w] = <<o>>] /\ mode' = [mode EXCEPT ![w] = "each"]
             /\ queue' = queue
      BY <1>1, <2>1, SaveAsyncIs
    <3> QED BY <2>1, <3>1, <3>2 DEF PipelineTyped
  <2>3. UNCHANGED <<dbKey, shots, storeVars, failures, lossVars>>
    BY <1>1 DEF SaveOrder
  <2>4. owed' \in [Threads -> Seq(Saves)] /\ UNCHANGED <<phase, memVars, callVars, nextTrade>>
    BY <1>1, <2>1 DEF SaveOrder, MemoryTyped
  <2>5. PipelineTyped'
    BY <2>2, <2>3 DEF PipelineTyped
  <2>6. MemoryTyped'
    BY <2>4 DEF MemoryTyped
  <2> QED BY <2>5, <2>6
<1>2. ASSUME w \in Repositories, Take(w) PROVE PipelineTyped'
  <2> DEFINE q == queue[w]
             n == Taken(w)
  <2>1. /\ SubSeq(q, 1, n) \in Seq(Orders) /\ SubSeq(q, n + 1, Len(q)) \in Seq(Orders)
        /\ Len(SubSeq(q, n + 1, Len(q))) <= Len(q) /\ Len(q) <= OrderCap
        /\ OrderCap \in Nat /\ Len(SubSeq(q, n + 1, Len(q))) \in Nat /\ Len(q) \in Nat
    <3>1. queue[w] # << >>
      BY <1>2 DEF Take
    <3>2. OrderCap \in Nat /\ Len(queue[w]) <= OrderCap
      BY <1>2, WriteBehindAssumption DEF PipelineTyped
    <3> HIDE DEF q, n
    <3> QED BY <1>2, <3>1, <3>2, TakeIs DEF q, n
  <2>2. /\ job' = [job EXCEPT ![w] = SubSeq(q, 1, n)]
        /\ queue' = [queue EXCEPT ![w] = SubSeq(q, n + 1, Len(q))]
        /\ mode' = [mode EXCEPT ![w] = IF n = 1 THEN "each" ELSE "batch"]
        /\ UNCHANGED <<dbKey, shots, storeVars, failures, lossVars>>
    BY <1>2 DEF Take
  <2> HIDE DEF q, n
  <2>3. \A x \in Repositories : Len(queue'[x]) <= OrderCap
    BY <1>2, <2>1, <2>2 DEF PipelineTyped
  <2> QED BY <1>2, <2>1, <2>2, <2>3 DEF PipelineTyped
<1>3. ASSUME Serialise(w) PROVE PipelineTyped'
  <2>1. \E s \in Seq(Record) : shots' = [shots EXCEPT ![w] = s]
    BY <1>3, SerialiseIs
  <2>2. UNCHANGED <<queue, job, mode, storeVars, failures, lossVars>>
        /\ dbKey' \in [Writers -> Keys \union {None}]
    BY <1>3 DEF Serialise, PipelineTyped
  <2> QED BY <2>1, <2>2 DEF PipelineTyped
<1>4. ASSUME SerialiseState(w) PROVE PipelineTyped'
  <2>1. \E s \in Seq(Record) : shots' = [shots EXCEPT ![w] = s]
    BY <1>4, SerialiseStateIs
  <2>2. UNCHANGED <<queue, job, mode, dbKey, storeVars, failures, lossVars>>
    BY <1>4 DEF SerialiseState
  <2> QED BY <2>1, <2>2 DEF PipelineTyped
<1>5. ASSUME Write(w) PROVE PipelineTyped'
  <2>1. store' \in [Keys -> Record \union {None}]
    <3>1. store' = [k \in Keys |-> Stored(w, k)]
      BY <1>5 DEF Write
    <3>2. ASSUME NEW k \in Keys PROVE Stored(w, k) \in Record \union {None}
      <4>1. store[k] \in Record \union {None}
        BY DEF PipelineTyped
      <4>2. \A i \in 1..Len(shots[w]) : shots[w][i] \in Record
        BY JobFacts
      <4>3. Stored(w, k) = store[k] \/ \E m \in 1..Len(shots[w]) : Stored(w, k) = shots[w][m]
        BY StoredIs
      <4> QED BY <4>1, <4>2, <4>3
    <3> QED BY <3>1, <3>2
  <2>2. written' \in [Orders -> 0..MaxRev]
    <3>1. written' = [o \in Orders |-> Newest(w, o)]
      BY <1>5 DEF Write, Newest
    <3> QED BY <3>1, NewestIs
  <2>3. writtenBy' \in [Orders -> SUBSET Writers]
    BY <1>5 DEF Write, PipelineTyped
  <2>4. job' \in [Writers -> Seq(Orders)]
    BY <1>5, RestOfJob DEF Write, PipelineTyped
  <2>5. shots' \in [Writers -> Seq(Record)]
    BY <1>5 DEF Write, PipelineTyped
  <2>6. UNCHANGED <<queue, mode, dbKey, failures, lossVars>>
    BY <1>5 DEF Write
  <2> QED BY <2>1, <2>2, <2>3, <2>4, <2>5, <2>6 DEF PipelineTyped
<1>6. ASSUME w \in Repositories, WriteFails(w) PROVE PipelineTyped'
  <2>1. shots' \in [Writers -> Seq(Record)]
    BY <1>6 DEF WriteFails, PipelineTyped
  <2>2. failures' \in 0..MaxFailures
    BY <1>6, WriteBehindAssumption DEF WriteFails, PipelineTyped
  <2>3. UNCHANGED <<queue, dbKey, storeVars, skipped>>
    BY <1>6 DEF WriteFails
  <2>4. mode' \in [Writers -> {"batch", "each"}] /\ job' \in [Writers -> Seq(Orders)]
        /\ refused' \subseteq Orders \X (0..MaxRev)
    <3>1. AfterFailure(w) /\ Serialised(w)
      BY <1>6 DEF WriteFails
    <3>2. CASE mode[w] = "batch"
      BY <3>1, <3>2 DEF AfterFailure, PipelineTyped
    <3>3. CASE mode[w] # "batch"
      <4>1. Tail(job[w]) \in Seq(Orders) /\ Head(job[w]) \in Orders /\ shots[w][1].rev \in 0..MaxRev
        <5>1. Len(shots[w]) = 1 /\ shots[w][1] \in Record
          BY <3>1, <3>3, JobAfterFailure, JobFacts
        <5> QED BY <3>1, <3>3, <5>1, JobAfterFailure DEF Record
      <4>2. /\ job' = [job EXCEPT ![w] = Tail(@)] /\ UNCHANGED mode
            /\ refused' = refused \union {<<Head(job[w]), shots[w][1].rev>>}
        BY <3>1, <3>3 DEF AfterFailure
      <4>3. job' \in [Writers -> Seq(Orders)]
        BY <4>1, <4>2 DEF PipelineTyped
      <4>4. refused' \subseteq Orders \X (0..MaxRev)
        BY <4>1, <4>2 DEF PipelineTyped
      <4> QED BY <4>2, <4>3, <4>4 DEF PipelineTyped
    <3> QED BY <3>2, <3>3
  <2> QED BY <2>1, <2>2, <2>3, <2>4 DEF PipelineTyped
<1>7. ASSUME BuildKey(w) PROVE PipelineTyped'
  <2>1. /\ UNCHANGED <<queue, job, mode, shots, storeVars, failures, lossVars>>
        /\ dbKey' = [dbKey EXCEPT ![w] = key[job[w][Len(shots[w]) + 1]]]
    BY <1>7 DEF BuildKey, NextOf
  <2>2. key[job[w][Len(shots[w]) + 1]] \in Keys
    <3>1. Len(shots[w]) + 1 \in 1..Len(job[w])
      BY <1>7, JobFacts DEF BuildKey
    <3> QED BY <3>1 DEF OnlyPlaced
  <2> QED BY <2>1, <2>2 DEF PipelineTyped
<1> QED BY <1>1, <1>2, <1>3, <1>4, <1>5, <1>6, <1>7

\* The writers of the trades keep the types of these.
LEMMA TypedTrades ==
  ASSUME MemoryTyped, TradesTyped
  PROVE  /\ \A t \in Threads : SaveTrade(t) => TradesTyped' /\ MemoryTyped'
         /\ TakeTrade \/ TradeFails => TradesTyped'
         /\ \A w \in TradeWriters : WriteTrade(w) => TradesTyped'
<1>0. TradeCap \in Nat /\ None \notin Trades /\ "trades" \in TradeWriters
      /\ Threads \subseteq TradeWriters
  BY WriteBehindAssumption DEF Trades, TradeWriters
<1>1. ASSUME NEW t \in Threads, SaveTrade(t) PROVE TradesTyped' /\ MemoryTyped'
  <2> DEFINE n == Head(owed[t]).what
  <2>1. n \in Trades /\ Tail(owed[t]) \in Seq(Saves)
    BY <1>1, NextSave DEF SaveTrade
  <2>2. MemoryTyped'
    <3>1. owed' \in [Threads -> Seq(Saves)] /\ UNCHANGED <<phase, memVars, callVars, nextTrade>>
      BY <1>1, <2>1 DEF SaveTrade, MemoryTyped
    <3> QED BY <3>1 DEF MemoryTyped
  <2>3. PICK others \in 0..MaxOthers["trades"] :
          IF Len(tradeQueue) + others < TradeCap
            THEN tradeQueue' = Append(tradeQueue, n) /\ UNCHANGED tradeJob
            ELSE tradeJob' = [tradeJob EXCEPT ![t] = n] /\ UNCHANGED tradeQueue
    BY <1>1 DEF SaveTrade
  <2>4. UNCHANGED <<tradeStore, tradeIndex, lostTrades>>
    BY <1>1 DEF SaveTrade
  <2>5. others \in Nat
    BY WriteBehindAssumption
  <2>6. CASE Len(tradeQueue) + others < TradeCap
    <3>1. tradeQueue' = Append(tradeQueue, n) /\ UNCHANGED tradeJob
      BY <2>3, <2>6
    <3>2. Append(tradeQueue, n) \in Seq(Trades) /\ Len(Append(tradeQueue, n)) <= TradeCap
      <4> HIDE DEF n
      <4>1. tradeQueue \in Seq(Trades) /\ Len(tradeQueue) \in Nat
        BY DEF TradesTyped
      <4>2. Append(tradeQueue, n) \in Seq(Trades)
            /\ Len(Append(tradeQueue, n)) = Len(tradeQueue) + 1
        BY <2>1, <4>1, AppendProperties
      <4> QED BY <1>0, <2>5, <2>6, <4>1, <4>2
    <3> QED BY <2>2, <2>4, <3>1, <3>2 DEF TradesTyped
  <2>7. CASE ~(Len(tradeQueue) + others < TradeCap)
    <3>1. tradeJob' = [tradeJob EXCEPT ![t] = n] /\ UNCHANGED tradeQueue
      BY <2>3, <2>7
    <3> QED BY <1>0, <2>1, <2>2, <2>4, <3>1 DEF TradesTyped
  <2> QED BY <2>6, <2>7
<1>2. ASSUME TakeTrade PROVE TradesTyped'
  <2>1. /\ tradeQueue \in Seq(Trades) /\ tradeQueue # << >> /\ Len(tradeQueue) <= TradeCap
        /\ tradeQueue' = Tail(tradeQueue)
        /\ tradeJob' = [tradeJob EXCEPT !["trades"] = Head(tradeQueue)]
        /\ UNCHANGED <<tradeStore, tradeIndex, lostTrades>>
    BY <1>2 DEF TakeTrade, TradesTyped
  <2>2. Head(tradeQueue) \in Trades /\ Tail(tradeQueue) \in Seq(Trades)
        /\ Len(Tail(tradeQueue)) = Len(tradeQueue) - 1 /\ Len(tradeQueue) \in Nat
    BY <2>1, HeadTailProperties
  <2>3. Len(Tail(tradeQueue)) <= TradeCap
    BY <1>0, <2>1, <2>2
  <2> QED BY <1>0, <2>1, <2>2, <2>3 DEF TradesTyped
<1>3. ASSUME NEW w \in TradeWriters, WriteTrade(w) PROVE TradesTyped'
  <2>1. tradeJob[w] \in Trades
    BY <1>0, <1>3 DEF WriteTrade, PutTrade, IndexTrade, TradesTyped
  <2> QED BY <1>3, <2>1 DEF WriteTrade, PutTrade, IndexTrade, TradesTyped
<1>4. ASSUME TradeFails PROVE TradesTyped'
  BY <1>0, <1>4 DEF TradeFails, TradesTyped
<1> QED BY <1>1, <1>2, <1>3, <1>4

\* An exception that leaves a match: where the call was, what it ends, and what it costs.
LEMMA ThrowsIs ==
  ASSUME Typed, OneMatcher, OneAtATime, ShotsFollowJob, NEW t \in Threads, Throws(t)
  PROVE  /\ Open /\ hit[t] = None
         /\ failures < MaxFailures /\ failures' = failures + 1
         /\ UNCHANGED <<phase, memVars, hit, queue, mode, dbKey, storeVars, nextTrade, tradeQueue,
                        tradeStore, tradeIndex>>
         /\ owed' = [owed EXCEPT ![t] = << >>] /\ incoming' = [incoming EXCEPT ![t] = None]
         /\ monitor' = IF incoming[t] = None THEN monitor ELSE None
         /\ skipped' = IF incoming[t] = None THEN skipped
                         ELSE skipped \union {<<incoming[t], rev[incoming[t]]>>}
         /\ lostTrades' = lostTrades \union OwedTrades(t) \union ({tradeJob[t]} \ {None})
         /\ \A i \in 1..Len(owed[t]) : owed[t][i].to \notin Repositories
         /\ \/ /\ SaveThrows(t) /\ Serialised(t) /\ UNCHANGED tradeJob /\ tradeJob[t] = None
               /\ Len(job[t]) = 1 /\ Len(shots[t]) = 1 /\ shots[t][1] \in Record
               /\ job' = [job EXCEPT ![t] = << >>] /\ shots' = [shots EXCEPT ![t] = << >>]
               /\ refused' = refused \union {<<job[t][1], shots[t][1].rev>>}
            \/ /\ TradeSaveThrows(t) /\ UNCHANGED <<job, shots, refused>>
               /\ tradeJob[t] # None /\ tradeJob' = [tradeJob EXCEPT ![t] = None]

<1>0. t \in Writers /\ "trades" \notin Repositories
  BY DEF Writers, Repositories
<1>1. CASE SaveThrows(t)
  <2>1. /\ Serialised(t) /\ shots[t] \in Seq(Record) /\ Len(shots[t]) \in Nat /\ Len(shots[t]) > 0
        /\ Len(shots[t]) <= Len(job[t]) /\ Len(job[t]) \in Nat /\ job[t] \in Seq(Orders)
        /\ \A i \in 1..Len(shots[t]) : shots[t][i] \in Record
    BY <1>0, <1>1, JobFacts DEF SaveThrows, Serialised, Typed
  <2>2. Len(job[t]) <= 1
    BY DEF OneAtATime, OneThing
  <2>3. Len(job[t]) = 1 /\ Len(shots[t]) = 1 /\ shots[t][1] \in Record /\ job[t] # << >>
    <3> DEFINE j == job[t]
               s == shots[t]
    <3>1. Len(j) \in Nat /\ Len(s) \in Nat /\ Len(s) > 0 /\ Len(s) <= Len(j) /\ Len(j) <= 1
      BY <2>1, <2>2
    <3>0. j \in Seq(Orders) /\ \A i \in 1..Len(s) : s[i] \in Record
      BY <2>1
    <3> HIDE DEF j, s
    <3>2. Len(j) = 1 /\ Len(s) = 1
      <4> \A m, n \in Nat : n > 0 /\ n <= m /\ m <= 1 => m = 1 /\ n = 1
        OBVIOUS
      <4> QED BY <3>1, Zenon
    <3>3. s[1] \in Record
      BY <3>0, <3>2
    <3>4. j # << >>
      BY <3>2
    <3> QED BY <3>2, <3>3, <3>4 DEF j, s
  <2>4. tradeJob[t] = None /\ hit[t] = None
        /\ \A i \in 1..Len(owed[t]) : owed[t][i].to \notin Repositories
    BY <2>3 DEF OneAtATime, OneThing
  <2>5. Head(job[t]) = job[t][1]
    BY <2>1
  <2> QED BY <1>1, <2>1, <2>3, <2>4, <2>5 DEF SaveThrows, Unwind
<1>2. CASE TradeSaveThrows(t)
  <2>1. tradeJob[t] # None
    BY <1>2 DEF TradeSaveThrows
  <2>2. hit[t] = None /\ \A i \in 1..Len(owed[t]) : owed[t][i].to \notin Repositories
    BY <2>1 DEF OneAtATime, OneThing
  <2> QED BY <1>2, <2>1, <2>2 DEF TradeSaveThrows, Unwind
<1> QED BY <1>1, <1>2 DEF Throws

\* The trades it costs: none but the last one made.
LEMMA TradesThrown ==
  ASSUME Typed, OneAtATime, NEW t \in Threads
  PROVE  OwedTrades(t) \union ({tradeJob[t]} \ {None}) \subseteq Trades \intersect {nextTrade - 1}
<1>1. DOMAIN owed[t] = 1..Len(owed[t]) /\ \A i \in 1..Len(owed[t]) : owed[t][i] \in Saves
  BY DEF Typed, MemoryTyped
<1>2. ASSUME NEW i \in 1..Len(owed[t]), owed[t][i].to = "trades"
      PROVE  owed[t][i].what \in Trades /\ owed[t][i].what = nextTrade - 1
  BY <1>1, <1>2 DEF OneAtATime, OneThing, Saves, Repositories
<1>3. t \in TradeWriters
  BY DEF TradeWriters
<1>4. tradeJob[t] # None => tradeJob[t] \in Trades /\ tradeJob[t] = nextTrade - 1
  BY <1>3 DEF OneAtATime, OneThing, Typed, TradesTyped
<1> QED BY <1>1, <1>2, <1>4 DEF OwedTrades

\* The types after it.
LEMMA TypedThrows ==
  ASSUME Typed, OneMatcher, OneAtATime, ShotsFollowJob, NEW t \in Threads, Throws(t)
  PROVE  Typed'
<1> USE DEF Typed
<1>1. MemoryTyped'
  <2>1. /\ owed' = [owed EXCEPT ![t] = << >>] /\ incoming' = [incoming EXCEPT ![t] = None]
        /\ monitor' \in {monitor, None}
        /\ UNCHANGED <<phase, memVars, hit, nextTrade>>
    BY ThrowsIs
  <2>2. << >> \in Seq(Saves)
    BY SavesOwed
  <2> QED BY <2>1, <2>2 DEF MemoryTyped
<1>2. PipelineTyped'
  <2>1. /\ UNCHANGED <<queue, mode, dbKey, storeVars>> /\ failures < MaxFailures
        /\ failures' = failures + 1
    BY ThrowsIs
  <2>2. job' \in [Writers -> Seq(Orders)] /\ shots' \in [Writers -> Seq(Record)]
    <3>1. /\ (job' = job \/ job' = [job EXCEPT ![t] = << >>])
          /\ (shots' = shots \/ shots' = [shots EXCEPT ![t] = << >>])
      BY Zenon DEF Throws, SaveThrows, TradeSaveThrows
    <3>2. job \in [Writers -> Seq(Orders)] /\ shots \in [Writers -> Seq(Record)]
      BY DEF PipelineTyped
    <3>3. << >> \in Seq(Orders) /\ << >> \in Seq(Record)
      OBVIOUS
    <3>4. job' \in [Writers -> Seq(Orders)]
      BY <3>1, <3>2, <3>3
    <3>5. shots' \in [Writers -> Seq(Record)]
      BY <3>1, <3>2, <3>3
    <3> QED BY <3>4, <3>5
  <2>3. refused' \subseteq Orders \X (0..MaxRev)
    <3>1. \/ UNCHANGED refused
          \/ /\ Len(job[t]) = 1 /\ shots[t][1] \in Record
             /\ refused' = refused \union {<<job[t][1], shots[t][1].rev>>}
      BY ThrowsIs, Zenon
    <3>2. CASE UNCHANGED refused
      BY <3>2 DEF PipelineTyped
    <3>3. ASSUME Len(job[t]) = 1, shots[t][1] \in Record,
                 refused' = refused \union {<<job[t][1], shots[t][1].rev>>}
          PROVE  refused' \subseteq Orders \X (0..MaxRev)
      <4>1. job[t] \in Seq(Orders)
        BY DEF PipelineTyped, Writers
      <4>2. job[t][1] \in Orders /\ shots[t][1].rev \in 0..MaxRev
        BY <3>3, <4>1 DEF Record
      <4> QED BY <3>3, <4>2 DEF PipelineTyped
    <3> QED BY <3>1, <3>2, <3>3
  <2>4. skipped' \subseteq Orders \X (0..MaxRev)
    <3>1. incoming[t] # None => <<incoming[t], rev[incoming[t]]>> \in Orders \X (0..MaxRev)
      BY DEF MemoryTyped
    <3> QED BY <3>1, ThrowsIs DEF PipelineTyped
  <2>5. failures' \in 0..MaxFailures
    BY <2>1, ConstantFacts DEF PipelineTyped
  <2> QED BY <2>1, <2>2, <2>3, <2>4, <2>5 DEF PipelineTyped
<1>3. TradesTyped'
  <2>1. UNCHANGED <<tradeQueue, tradeStore, tradeIndex>>
        /\ (tradeJob' = tradeJob \/ tradeJob' = [tradeJob EXCEPT ![t] = None])
        /\ lostTrades' = lostTrades \union OwedTrades(t) \union ({tradeJob[t]} \ {None})
    BY ThrowsIs
  <2>2. lostTrades' \subseteq Trades
    BY <2>1, TradesThrown DEF TradesTyped
  <2> QED BY <2>1, <2>2 DEF TradesTyped
<1> QED BY <1>1, <1>2, <1>3

\* A crash leaves everything in memory empty.
LEMMA TypedCrash == ASSUME Typed, Crash PROVE Typed'
<1>1. /\ MaxOrders \in Nat /\ MaxTrades \in Nat /\ MaxRev \in Nat /\ OrderCap \in Nat /\ TradeCap \in Nat
      /\ \A o \in Orders : Qty[o] \in Nat
  BY RevBound, WriteBehindAssumption
<1>2. MemoryTyped'
  BY <1>1, SavesOwed DEF Crash, Typed, MemoryTyped
<1>3. PipelineTyped'
  BY <1>1 DEF Crash, Typed, PipelineTyped
<1>4. TradesTyped'
  BY <1>1 DEF Crash, Typed, TradesTyped
<1> QED BY <1>2, <1>3, <1>4 DEF Typed

\* A call takes an order that is filled off the book.
LEMMA UnbookIs ==
  ASSUME MemoryTyped, NEW t \in Threads, Unbook(t)
  PROVE  /\ MemoryTyped' /\ Open
         /\ owed[t] # << >> /\ owed' = [owed EXCEPT ![t] = Tail(@)]
         /\ Head(owed[t]).to = "book" /\ job[t] = << >> /\ tradeJob[t] = None
         /\ UNCHANGED <<phase, nextId, key, leaves, state, rev, callVars, pipeVars, storeVars,
                        failures, lossVars, nextTrade, tradeVars>>
<1>1. /\ owed[t] # << >> /\ owed' = [owed EXCEPT ![t] = Tail(@)]
      /\ Head(owed[t]).to = "book" /\ booked' \subseteq booked
      /\ UNCHANGED <<phase, nextId, key, leaves, state, rev, callVars, pipeVars, storeVars,
                     failures, lossVars, nextTrade, tradeVars>>
  BY DEF Unbook
<1>2. Tail(owed[t]) \in Seq(Saves)
  BY <1>1, NextSave
<1>3. MemoryTyped'
  BY <1>1, <1>2 DEF MemoryTyped
<1> QED BY <1>1, <1>3 DEF Unbook

\* Every step keeps the types.
LEMMA TypedStep ==
  ASSUME Typed, OnlyPlaced, OneMatcher, OneAtATime, ChangesBounded, ShotsFollowJob, Next
  PROVE  Typed'
<1> USE DEF Typed
<1>1. ASSUME NEW t \in Threads, MemoryAction(t) PROVE Typed'
  <2>1. UNCHANGED <<pipeVars, storeVars, failures, lossVars, tradeVars>>
    BY <1>1 DEF MemoryAction, Place, Fill, TakeOff, Settle, Rest, Cancel, Modify
  <2>2. PipelineTyped' /\ TradesTyped'
    BY <2>1 DEF PipelineTyped, TradesTyped
  <2> QED BY <1>1, <2>2, TypedMemory
<1>2. ASSUME NEW t \in Threads, SaveOrder(t) PROVE Typed'
  <2>1. UNCHANGED <<tradeVars, lostTrades>>
    BY <1>2 DEF SaveOrder
  <2>2. TradesTyped'
    BY <2>1 DEF TradesTyped
  <2> QED BY <1>2, <2>2, TypedPipeline DEF Writers
<1>3. ASSUME NEW t \in Threads, SaveTrade(t) PROVE Typed'
  <2>1. UNCHANGED <<pipeVars, storeVars, failures, lossVars>>
    BY <1>3 DEF SaveTrade
  <2>2. PipelineTyped'
    BY <2>1 DEF PipelineTyped
  <2> QED BY <1>3, <2>2, TypedTrades
<1>4. ASSUME NEW w \in Writers,
             BuildKey(w) \/ Serialise(w) \/ SerialiseState(w) \/ Write(w)
             \/ (w \in Repositories /\ (Take(w) \/ WriteFails(w)))
      PROVE  Typed'
  <2>1. UNCHANGED <<phase, memVars, callVars, owed, nextTrade, tradeVars, lostTrades>>
    BY <1>4 DEF BuildKey, Serialise, SerialiseState, Write, WriteFails, Take
  <2>2. MemoryTyped' /\ TradesTyped'
    BY <2>1 DEF MemoryTyped, TradesTyped
  <2> QED BY <1>4, <2>2, TypedPipeline
<1>5. ASSUME TakeTrade \/ \E w \in TradeWriters : WriteTrade(w) PROVE Typed'
  <2>1. UNCHANGED <<phase, memVars, callVars, owed, pipeVars, storeVars, failures, lossVars, nextTrade>>
    BY <1>5 DEF TakeTrade, WriteTrade
  <2>2. MemoryTyped' /\ PipelineTyped'
    BY <2>1 DEF MemoryTyped, PipelineTyped
  <2> QED BY <1>5, <2>2, TypedTrades
<1>6. ASSUME Shutdown \/ Close PROVE Typed'
  BY <1>6 DEF Shutdown, Close, Ends, MemoryTyped, PipelineTyped, TradesTyped
<1>7. ASSUME Crash PROVE Typed'
  BY <1>7, TypedCrash
<1>8. Repositories \subseteq Writers
  BY DEF Writers
<1>9. ASSUME NEW t \in Threads, Unbook(t) PROVE Typed'
  <2>1. MemoryTyped' /\ UNCHANGED <<pipeVars, storeVars, failures, lossVars, tradeVars>>
    BY <1>9, UnbookIs
  <2>2. PipelineTyped' /\ TradesTyped'
    BY <2>1 DEF PipelineTyped, TradesTyped
  <2> QED BY <2>1, <2>2
<1>10. ASSUME TradeFails PROVE Typed'
  <2>1. /\ UNCHANGED <<phase, memVars, callVars, owed, pipeVars, storeVars, refused, skipped, nextTrade>>
        /\ failures < MaxFailures /\ failures' = failures + 1
    BY <1>10 DEF TradeFails
  <2>2. failures' \in 0..MaxFailures
    BY <2>1, ConstantFacts DEF PipelineTyped
  <2>3. MemoryTyped' /\ PipelineTyped'
    BY <2>1, <2>2 DEF MemoryTyped, PipelineTyped
  <2> QED BY <1>10, <2>3, TypedTrades
<1>11. ASSUME NEW t \in Threads, Throws(t) PROVE Typed'
  BY <1>11, TypedThrows
<1> HIDE DEF Typed
<1> QED BY <1>1, <1>2, <1>3, <1>4, <1>5, <1>6, <1>7, <1>8, <1>9, <1>10, <1>11, NextSteps

-----------------------------------------------------------------------------
(* The orders in memory and the calls. *)

\* A call that owes one save owes it of that order.
LEMMA OneSave ==
  ASSUME NEW r, NEW x
  PROVE  /\ Len(<<[to |-> r, what |-> x]>>) = 1
         /\ <<[to |-> r, what |-> x]>>[1] = [to |-> r, what |-> x]
         /\ \A i \in 1..Len(<<[to |-> r, what |-> x]>>) : <<[to |-> r, what |-> x]>>[i].what = x
<1>1. /\ Len(<<[to |-> r, what |-> x]>>) = 1
      /\ <<[to |-> r, what |-> x]>>[1] = [to |-> r, what |-> x]
  OBVIOUS
<1>2. \A i \in 1..1 : i = 1
  OBVIOUS
<1> QED BY <1>1, <1>2

\* The threads: an order is placed before anything else happens to it.
LEMMA OnlyPlacedMemory ==
  ASSUME MemoryTyped, OnlyPlaced, OneMatcher, NEW t \in Threads, MemoryAction(t)
  PROVE  OnlyPlaced'
<1>0. /\ None \notin Orders /\ None \notin Active /\ nextId \in Nat
      /\ \A o \in Orders : o \in Nat
      /\ "trades" \notin Repositories /\ "book" \notin Repositories
      /\ {"engine", "manager"} = Repositories
  BY WriteBehindAssumption DEF Orders, MemoryTyped, Repositories
<1>13. \A o \in Orders : rev[o] \in Nat
  BY DEF MemoryTyped
<1>1. UNCHANGED <<phase, queue, job, writtenBy>>
  BY DEF MemoryAction, Place, Fill, TakeOff, Settle, Rest, Cancel, Modify
<1>2. \A o \in Orders : IsLive(o) => o \in Placed
  BY <1>0 DEF OnlyPlaced, IsLive
<1>3. ASSUME Placed \subseteq Placed'
      PROVE  /\ \A r \in Repositories : \A i \in 1..Len(queue'[r]) : queue'[r][i] \in Placed'
             /\ \A w \in Writers : \A i \in 1..Len(job'[w]) : job'[w][i] \in Placed'
  BY <1>1, <1>3 DEF OnlyPlaced
<1>4. ASSUME NEW k \in Keys, Place(t, k) PROVE OnlyPlaced'
  <2>1. /\ nextId' = nextId + 1 /\ nextId \in Orders
        /\ key' = [key EXCEPT ![nextId] = k] /\ state' = [state EXCEPT ![nextId] = "LIVE"]
        /\ rev' = [rev EXCEPT ![nextId] = 1] /\ incoming' = [incoming EXCEPT ![t] = nextId]
        /\ UNCHANGED <<hit, owed>>
    BY <1>4 DEF Place
  <2>2. Placed' = Placed \union {nextId}
    <3>1. \A o \in Orders : o < nextId + 1 <=> o < nextId \/ o = nextId
      BY <1>0
    <3> QED BY <2>1, <3>1 DEF Placed
  <2>3. /\ \A o \in Orders \ Placed' : state'[o] = None
        /\ \A o \in Placed' : key'[o] \in Keys /\ rev'[o] > 0
    BY <2>1, <2>2 DEF OnlyPlaced, MemoryTyped, Placed
  <2>4. Open' => \A o \in Orders \ Placed' : rev'[o] = 0 /\ writtenBy'[o] = {}
    BY <1>1, <2>1, <2>2 DEF OnlyPlaced, MemoryTyped, Open
  <2>5. /\ \A s \in Threads : incoming'[s] # None => incoming'[s] \in Placed'
        /\ \A s \in Threads : hit'[s] # None => hit'[s] \in Placed'
    BY <2>1, <2>2 DEF OnlyPlaced, MemoryTyped
  <2>6. \A s \in Threads : \A i \in 1..Len(owed'[s]) :
          owed'[s][i].to \in Repositories => owed'[s][i].what \in Placed'
    BY <2>1, <2>2 DEF OnlyPlaced
  <2> QED BY <1>3, <2>2, <2>3, <2>4, <2>5, <2>6 DEF OnlyPlaced
<1>5. ASSUME NEW saves, owed' = [owed EXCEPT ![t] = saves], nextId' = nextId,
             \A i \in 1..Len(saves) : saves[i].to \in Repositories => saves[i].what \in Placed
      PROVE  \A s \in Threads : \A i \in 1..Len(owed'[s]) :
               owed'[s][i].to \in Repositories => owed'[s][i].what \in Placed'
  <2>1. Placed' = Placed
    BY <1>5 DEF Placed
  <2>2. \A s \in Threads : owed'[s] = IF s = t THEN saves ELSE owed[s]
    BY <1>5 DEF MemoryTyped
  <2> QED BY <1>5, <2>1, <2>2 DEF OnlyPlaced
<1>6. ASSUME NEW p \in Orders, Fill(t, p) PROVE OnlyPlaced'
  <2>1. /\ UNCHANGED <<nextId, key, state, rev, incoming, owed>> /\ hit' = [hit EXCEPT ![t] = p]
        /\ p \in Placed
    BY <1>2, <1>6 DEF Fill
  <2>2. Placed' = Placed
    BY <2>1 DEF Placed
  <2>3. \A s \in Threads : hit'[s] # None => hit'[s] \in Placed'
    BY <2>1, <2>2 DEF OnlyPlaced, MemoryTyped
  <2> QED BY <1>1, <2>1, <2>2, <2>3 DEF OnlyPlaced, Open
<1>7. ASSUME nextId' = nextId,
             \A o \in Orders : \/ rev'[o] = rev[o] /\ state'[o] = state[o] /\ key'[o] = key[o]
                               \/ o \in Placed /\ key'[o] \in Keys /\ rev'[o] > 0,
             \A s \in Threads : incoming'[s] = incoming[s] \/ incoming'[s] \in Placed \union {None},
             \A s \in Threads : hit'[s] = hit[s] \/ hit'[s] = None,
             \A s \in Threads : \A i \in 1..Len(owed'[s]) :
               owed'[s][i].to \in Repositories => owed'[s][i].what \in Placed'
      PROVE  OnlyPlaced'
  <2>1. Placed' = Placed
    BY <1>7 DEF Placed
  <2>2. /\ \A o \in Orders \ Placed' : state'[o] = None
        /\ \A o \in Placed' : key'[o] \in Keys /\ rev'[o] > 0
        /\ Open' => \A o \in Orders \ Placed' : rev'[o] = 0 /\ writtenBy'[o] = {}
    BY <1>1, <1>7, <2>1 DEF OnlyPlaced, Open, Placed
  <2>3. /\ \A s \in Threads : incoming'[s] # None => incoming'[s] \in Placed'
        /\ \A s \in Threads : hit'[s] # None => hit'[s] \in Placed'
    BY <1>7, <2>1 DEF OnlyPlaced
  <2> QED BY <1>3, <1>7, <2>1, <2>2, <2>3 DEF OnlyPlaced
<1>8. ASSUME NEW p \in Orders, TakeOff(t, p) PROVE OnlyPlaced'
  <2>1. UNCHANGED <<nextId, key, incoming, hit>>
    BY <1>8 DEF TakeOff
  <2>2. CASE IsLive(p)
    <3>1. p \in Placed
      BY <1>2, <2>2
    <3>2. /\ rev' = [rev EXCEPT ![p] = @ + 1] /\ state' = [state EXCEPT ![p] = "CANCELLED"]
          /\ owed' = [owed EXCEPT ![t] = <<[to |-> "engine", what |-> p]>>]
      BY <1>8, <2>2 DEF TakeOff, OwedAfterSelfTrade
    <3>3. \A s \in Threads : \A i \in 1..Len(owed'[s]) :
                 owed'[s][i].to \in Repositories => owed'[s][i].what \in Placed'
      <4> DEFINE saves == <<[to |-> "engine", what |-> p]>>
      <4>1. owed' = [owed EXCEPT ![t] = saves]
        BY <3>2
      <4>2. \A i \in 1..Len(saves) : saves[i].to \in Repositories => saves[i].what \in Placed
        BY <3>1, OneSave
      <4> HIDE DEF saves
      <4> QED BY <1>5, <2>1, <4>1, <4>2
    <3>4. \A o \in Orders : \/ rev'[o] = rev[o] /\ state'[o] = state[o] /\ key'[o] = key[o]
                            \/ o \in Placed /\ key'[o] \in Keys /\ rev'[o] > 0
      BY <1>13, <2>1, <3>1, <3>2 DEF MemoryTyped, OnlyPlaced
    <3> QED BY <1>7, <2>1, <3>3, <3>4
  <2>3. CASE ~IsLive(p)
    <3>1. UNCHANGED <<state, rev, owed>>
      BY <1>8, <2>3 DEF TakeOff
    <3>2. Placed' = Placed
      BY <2>1 DEF Placed
    <3>3. \A s \in Threads : \A i \in 1..Len(owed'[s]) :
                 owed'[s][i].to \in Repositories => owed'[s][i].what \in Placed'
      BY <3>1, <3>2 DEF OnlyPlaced
    <3> QED BY <1>7, <2>1, <3>1, <3>3
  <2> QED BY <2>2, <2>3
<1>9. ASSUME Settle(t) PROVE OnlyPlaced'
  <2> DEFINE a == incoming[t]
             p == hit[t]
             saves == AfterFill(p, nextTrade)
  <2>1. a \in Placed /\ p \in Placed
    BY <1>9 DEF OnlyPlaced, Settle, OneMatcher
  <2>2. /\ UNCHANGED <<nextId, key, incoming>> /\ hit' = [hit EXCEPT ![t] = None]
        /\ rev' = [rev EXCEPT ![a] = @ + 1, ![p] = @ + 1]
        /\ \E x, y : state' = [state EXCEPT ![a] = x, ![p] = y]
    BY <1>9 DEF Settle
  <2>7. owed' = [owed EXCEPT ![t] = saves]
    BY <1>9, SettleOwes
  <2>3. \A i \in 1..Len(saves) : saves[i].to \in Repositories => saves[i].what \in Placed
    <3> HIDE DEF p
    <3>0. /\ saves[1] = [to |-> "engine", what |-> p] /\ saves[2] = [to |-> "trades", what |-> nextTrade]
          /\ Len(saves) = 3 => saves[3] = [to |-> "book", what |-> p]
          /\ \A i \in 1..Len(saves) : i \in {1, 2} \/ (i = 3 /\ Len(saves) = 3)
      <4>1. InTurn(saves, p, nextTrade)
        BY AfterFillIs
      <4> HIDE DEF saves
      <4> QED BY <4>1 DEF InTurn
    <3> HIDE DEF saves
    <3>1. /\ saves[1].what = p /\ saves[2].to = "trades"
          /\ Len(saves) = 3 => saves[3].to = "book"
          /\ \A i \in 1..Len(saves) : i \in {1, 2} \/ (i = 3 /\ Len(saves) = 3)
      BY <3>0
    <3> QED BY <1>0, <2>1, <3>1
  <2> HIDE DEF a, p, saves
  <2>4. \A s \in Threads : \A i \in 1..Len(owed'[s]) :
               owed'[s][i].to \in Repositories => owed'[s][i].what \in Placed'
    BY <1>5, <2>2, <2>3, <2>7
  <2>5. \A o \in Orders : \/ rev'[o] = rev[o] /\ state'[o] = state[o] /\ key'[o] = key[o]
                          \/ o \in Placed /\ key'[o] \in Keys /\ rev'[o] > 0
    BY <1>13, <2>1, <2>2 DEF MemoryTyped, OnlyPlaced
  <2>6. \A s \in Threads : hit'[s] = hit[s] \/ hit'[s] = None
    BY <2>2 DEF MemoryTyped
  <2> QED BY <1>7, <2>2, <2>4, <2>5, <2>6
<1>10. ASSUME Rest(t) PROVE OnlyPlaced'
  <2>1. incoming[t] \in Placed
    BY <1>10 DEF OnlyPlaced, Rest, Matching
  <2>2. /\ UNCHANGED <<nextId, key, rev, state, hit>> /\ incoming' = [incoming EXCEPT ![t] = None]
        /\ owed' = [owed EXCEPT ![t] = <<[to |-> "manager", what |-> incoming[t]]>>]
    BY <1>10 DEF Rest
  <2>3. \A s \in Threads : \A i \in 1..Len(owed'[s]) :
               owed'[s][i].to \in Repositories => owed'[s][i].what \in Placed'
    <3> DEFINE saves == <<[to |-> "manager", what |-> incoming[t]]>>
    <3>1. owed' = [owed EXCEPT ![t] = saves]
      BY <2>2
    <3>2. \A i \in 1..Len(saves) : saves[i].to \in Repositories => saves[i].what \in Placed
      BY <2>1, OneSave
    <3> HIDE DEF saves
    <3> QED BY <1>5, <2>2, <3>1, <3>2
  <2>4. \A s \in Threads : incoming'[s] = incoming[s] \/ incoming'[s] \in Placed \union {None}
    BY <2>2 DEF MemoryTyped
  <2> QED BY <1>7, <2>2, <2>3, <2>4
<1>11. ASSUME NEW o \in Orders, Cancel(t, o) PROVE OnlyPlaced'
  <2>1. o \in Placed
    BY <1>2, <1>11 DEF Cancel
  <2>2. /\ UNCHANGED <<nextId, key, incoming, hit>>
        /\ rev' = [rev EXCEPT ![o] = @ + 1] /\ state' = [state EXCEPT ![o] = "CANCELLED"]
        /\ owed' = [owed EXCEPT ![t] = <<[to |-> "manager", what |-> o]>>]
    BY <1>11 DEF Cancel
  <2>3. \A s \in Threads : \A i \in 1..Len(owed'[s]) :
               owed'[s][i].to \in Repositories => owed'[s][i].what \in Placed'
    <3> DEFINE saves == <<[to |-> "manager", what |-> o]>>
    <3>1. owed' = [owed EXCEPT ![t] = saves]
      BY <2>2
    <3>2. \A i \in 1..Len(saves) : saves[i].to \in Repositories => saves[i].what \in Placed
      BY <2>1, OneSave
    <3> HIDE DEF saves
    <3> QED BY <1>5, <2>2, <3>1, <3>2
  <2>4. \A x \in Orders : \/ rev'[x] = rev[x] /\ state'[x] = state[x] /\ key'[x] = key[x]
                          \/ x \in Placed /\ key'[x] \in Keys /\ rev'[x] > 0
    BY <1>13, <2>1, <2>2 DEF MemoryTyped, OnlyPlaced
  <2> QED BY <1>7, <2>2, <2>3, <2>4
<1>12. ASSUME NEW o \in Orders, NEW k \in Keys, Modify(t, o, k) PROVE OnlyPlaced'
  <2>1. o \in Placed
    BY <1>2, <1>12 DEF Modify
  <2>2. /\ UNCHANGED <<nextId, state, hit, owed>>
        /\ rev' = [rev EXCEPT ![o] = @ + 1] /\ key' = [key EXCEPT ![o] = k]
        /\ incoming' = [incoming EXCEPT ![t] = o]
    BY <1>12 DEF Modify
  <2>3. \A x \in Orders : \/ rev'[x] = rev[x] /\ state'[x] = state[x] /\ key'[x] = key[x]
                          \/ x \in Placed /\ key'[x] \in Keys /\ rev'[x] > 0
    BY <1>13, <2>1, <2>2 DEF MemoryTyped
  <2>4. \A s \in Threads : \A i \in 1..Len(owed'[s]) :
               owed'[s][i].to \in Repositories => owed'[s][i].what \in Placed'
    BY <2>2 DEF OnlyPlaced, Placed
  <2>5. \A s \in Threads : incoming'[s] = incoming[s] \/ incoming'[s] \in Placed \union {None}
    BY <2>1, <2>2 DEF MemoryTyped
  <2> QED BY <1>7, <2>2, <2>3, <2>4, <2>5
<1> QED BY <1>4, <1>6, <1>8, <1>9, <1>10, <1>11, <1>12 DEF MemoryAction

\* A call that makes one of the saves it owes owes the others still.
LEMMA OwedTail ==
  ASSUME MemoryTyped, NEW t \in Threads, owed[t] # << >>, owed' = [owed EXCEPT ![t] = Tail(@)]
  PROVE  /\ \A s \in Threads : s # t => owed'[s] = owed[s]
         /\ Len(owed'[t]) = Len(owed[t]) - 1 /\ Len(owed[t]) \in Nat
         /\ \A i \in 1..Len(owed'[t]) : i + 1 \in 1..Len(owed[t]) /\ owed'[t][i] = owed[t][i + 1]
<1>1. owed'[t] = Tail(owed[t]) /\ \A s \in Threads : s # t => owed'[s] = owed[s]
  BY DEF MemoryTyped
<1>2. /\ Len(owed[t]) \in Nat /\ Len(Tail(owed[t])) = Len(owed[t]) - 1
      /\ \A i \in 1..Len(Tail(owed[t])) : Tail(owed[t])[i] = owed[t][i + 1]
  BY NextSave
<1>3. \A i \in 1..Len(Tail(owed[t])) : i + 1 \in 1..Len(owed[t])
  BY <1>2
<1> QED BY <1>1, <1>2, <1>3, Zenon

\* The rest of the system: what is queued or being written was queued before.
LEMMA OnlyPlacedStep ==
  ASSUME Typed, OnlyPlaced, OneMatcher, OneAtATime, ShotsFollowJob, Next
  PROVE  OnlyPlaced'
<1> USE DEF Typed
<1>0. Repositories \subseteq Writers /\ Threads \subseteq Writers
  BY DEF Writers
<1>1. ASSUME UNCHANGED <<phase, nextId, key, state, rev, hit>>,
             \A t \in Threads : incoming'[t] = incoming[t] \/ incoming'[t] = None,
             \A o \in Orders : writtenBy'[o] = writtenBy[o] \/ o \in Placed,
             \A t \in Threads : \A i \in 1..Len(owed'[t]) :
               owed'[t][i].to \in Repositories => owed'[t][i].what \in Placed,
             \A r \in Repositories : \A i \in 1..Len(queue'[r]) : queue'[r][i] \in Placed,
             \A w \in Writers : \A i \in 1..Len(job'[w]) : job'[w][i] \in Placed
      PROVE  OnlyPlaced'
  <2>1. Placed' = Placed /\ Open' = Open
    BY <1>1 DEF Placed, Open
  <2> HIDE DEF Typed
  <2> QED BY <1>1, <2>1 DEF OnlyPlaced
<1>2. ASSUME NEW t \in Threads, MemoryAction(t) PROVE OnlyPlaced'
  BY <1>2, OnlyPlacedMemory
<1>3. ASSUME NEW t \in Threads, owed[t] # << >>, owed' = [owed EXCEPT ![t] = Tail(@)]
      PROVE  \A s \in Threads : \A i \in 1..Len(owed'[s]) :
               owed'[s][i].to \in Repositories => owed'[s][i].what \in Placed
  BY <1>3, OwedTail DEF OnlyPlaced
<1>4. ASSUME NEW t \in Threads, SaveOrder(t) PROVE OnlyPlaced'
  <2> DEFINE r == Head(owed[t]).to
             o == Head(owed[t]).what
  <2>1. r \in Repositories /\ o \in Orders /\ SaveAsync(t, r, o) /\ owed[t] # << >>
    BY <1>4, NextSave DEF SaveOrder
  <2>2. o \in Placed
    BY <2>1, NextSave DEF OnlyPlaced
  <2> HIDE DEF r, o
  <2>3. /\ UNCHANGED <<phase, nextId, key, state, rev, incoming, hit, writtenBy>>
        /\ owed' = [owed EXCEPT ![t] = Tail(@)]
    BY <1>4 DEF SaveOrder
  <2>4. /\ \A x \in Repositories : \A i \in 1..Len(queue'[x]) : queue'[x][i] \in Placed
        /\ \A w \in Writers : \A i \in 1..Len(job'[w]) : job'[w][i] \in Placed
    <3>1. CASE /\ queue' = [queue EXCEPT ![r] = Append(@, o)]
               /\ Len(Append(queue[r], o)) = Len(queue[r]) + 1 /\ Len(queue[r]) \in Nat
               /\ \A i \in 1..Len(queue[r]) : Append(queue[r], o)[i] = queue[r][i]
               /\ Append(queue[r], o)[Len(queue[r]) + 1] = o
               /\ UNCHANGED <<job, mode>>
      <4>1. \A i \in 1..Len(Append(queue[r], o)) : Append(queue[r], o)[i] \in Placed
        <5> TAKE i \in 1..Len(Append(queue[r], o))
        <5>1. i \in 1..Len(queue[r]) \/ i = Len(queue[r]) + 1
          BY <3>1
        <5> QED BY <2>1, <2>2, <3>1, <5>1 DEF OnlyPlaced
      <4>2. \A x \in Repositories : queue'[x] = IF x = r THEN Append(queue[r], o) ELSE queue[x]
        BY <3>1 DEF PipelineTyped
      <4> QED BY <3>1, <4>1, <4>2 DEF OnlyPlaced
    <3>2. CASE job' = [job EXCEPT ![t] = <<o>>] /\ queue' = queue
      <4>1. \A w \in Writers : job'[w] = IF w = t THEN <<o>> ELSE job[w]
        BY <3>2 DEF PipelineTyped
      <4>2. \A i \in 1..Len(<<o>>) : <<o>>[i] \in Placed
        BY <2>2
      <4> QED BY <3>2, <4>1, <4>2 DEF OnlyPlaced
    <3> QED BY <2>1, <3>1, <3>2, SaveAsyncIs
  <2> HIDE DEF Typed
  <2> QED BY <1>1, <1>3, <2>1, <2>3, <2>4
<1>5. ASSUME NEW t \in Threads, SaveTrade(t) PROVE OnlyPlaced'
  <2>1. /\ UNCHANGED <<phase, nextId, key, state, rev, incoming, hit, writtenBy, queue, job>>
        /\ owed[t] # << >> /\ owed' = [owed EXCEPT ![t] = Tail(@)]
    BY <1>5 DEF SaveTrade
  <2>2. \A s \in Threads : \A i \in 1..Len(owed'[s]) :
          owed'[s][i].to \in Repositories => owed'[s][i].what \in Placed
    BY <1>3, <2>1
  <2> QED BY <1>1, <2>1, <2>2 DEF OnlyPlaced
<1>6. ASSUME NEW r \in Repositories, Take(r) PROVE OnlyPlaced'
  <2> DEFINE q == queue[r]
             n == Taken(r)
  <2>1. /\ UNCHANGED <<phase, nextId, key, state, rev, incoming, hit, writtenBy, owed>>
        /\ job' = [job EXCEPT ![r] = SubSeq(q, 1, n)] /\ q # << >>
        /\ queue' = [queue EXCEPT ![r] = SubSeq(q, n + 1, Len(q))]
    BY <1>6 DEF Take
  <2>2. /\ n \in 1..Len(q) /\ Len(q) \in Nat /\ Len(SubSeq(q, 1, n)) = n
        /\ \A i \in 1..n : SubSeq(q, 1, n)[i] = q[i]
        /\ Len(SubSeq(q, n + 1, Len(q))) = Len(q) - n
        /\ \A i \in 1..(Len(q) - n) : SubSeq(q, n + 1, Len(q))[i] = q[n + i]
    BY <2>1, TakeIs
  <2>3. \A i \in 1..Len(q) : q[i] \in Placed
    BY DEF OnlyPlaced
  <2> HIDE DEF q, n
  <2>4. \A i \in 1..Len(SubSeq(q, 1, n)) : SubSeq(q, 1, n)[i] \in Placed
    BY <2>2, <2>3
  <2>5. \A i \in 1..Len(SubSeq(q, n + 1, Len(q))) : SubSeq(q, n + 1, Len(q))[i] \in Placed
    <3> TAKE i \in 1..Len(SubSeq(q, n + 1, Len(q)))
    <3>1. i \in 1..(Len(q) - n) /\ n + i \in 1..Len(q)
      BY <2>2
    <3> QED BY <2>2, <2>3, <3>1
  <2>6. /\ \A w \in Writers : job'[w] = IF w = r THEN SubSeq(q, 1, n) ELSE job[w]
        /\ \A x \in Repositories : queue'[x] = IF x = r THEN SubSeq(q, n + 1, Len(q)) ELSE queue[x]
    BY <1>0, <2>1 DEF PipelineTyped
  <2>7. /\ \A x \in Repositories : \A i \in 1..Len(queue'[x]) : queue'[x][i] \in Placed
        /\ \A w \in Writers : \A i \in 1..Len(job'[w]) : job'[w][i] \in Placed
    BY <2>4, <2>5, <2>6 DEF OnlyPlaced
  <2> QED BY <1>1, <2>1, <2>7 DEF OnlyPlaced
<1>7. ASSUME NEW w \in Writers, BuildKey(w) \/ Serialise(w) \/ SerialiseState(w)
      PROVE  OnlyPlaced'
  <2>1. UNCHANGED <<phase, nextId, key, state, rev, incoming, hit, writtenBy, owed, queue, job>>
    BY <1>7 DEF BuildKey, Serialise, SerialiseState
  <2> QED BY <1>1, <2>1 DEF OnlyPlaced
<1>8. ASSUME NEW w \in Writers, Write(w) PROVE OnlyPlaced'
  <2> DEFINE rest == SubSeq(job[w], Len(shots[w]) + 1, Len(job[w]))
  <2>1. /\ UNCHANGED <<phase, nextId, key, state, rev, incoming, hit, owed, queue>>
        /\ job' = [job EXCEPT ![w] = rest]
    BY <1>8 DEF Write
  <2>2. \A o \in Orders : writtenBy'[o] = writtenBy[o] \/ \E x \in Range(shots[w]) : x.order = o
    BY <1>8 DEF Write
  <2>3. \A x \in Range(shots[w]) : x.order \in Placed
    <3>1. Range(shots[w]) = {shots[w][i] : i \in 1..Len(shots[w])}
      BY JobFacts, RangeEquality
    <3>2. \A i \in 1..Len(shots[w]) : shots[w][i].order \in Placed
      BY JobFacts DEF OnlyPlaced, ShotsFollowJob, WriterFollows, ShotFollows
    <3> QED BY <3>1, <3>2
  <2>4. \A i \in 1..Len(rest) : rest[i] \in Placed
    <3> TAKE i \in 1..Len(rest)
    <3>1. Len(rest) = Len(job[w]) - Len(shots[w]) /\ rest[i] = job[w][Len(shots[w]) + i]
      BY RestOfJob
    <3>2. Len(job[w]) \in Nat /\ Len(shots[w]) \in Nat
      BY JobFacts
    <3>3. PICK m \in Nat, n \in Nat : m = Len(shots[w]) /\ n = Len(job[w])
      BY <3>2
    <3> HIDE DEF rest
    <3>4. i \in 1..(n - m)
      BY <3>1, <3>3
    <3>5. m + i \in 1..n
      BY <3>4
    <3> QED BY <3>1, <3>3, <3>5 DEF OnlyPlaced
  <2>5. \A v \in Writers : job'[v] = IF v = w THEN rest ELSE job[v]
    BY <2>1 DEF PipelineTyped
  <2> HIDE DEF rest
  <2>6. \A v \in Writers : \A i \in 1..Len(job'[v]) : job'[v][i] \in Placed
    BY <2>4, <2>5 DEF OnlyPlaced
  <2> QED BY <1>1, <2>1, <2>2, <2>3, <2>6 DEF OnlyPlaced
<1>9. ASSUME NEW w \in Repositories, WriteFails(w) PROVE OnlyPlaced'
  <2>1. UNCHANGED <<phase, nextId, key, state, rev, incoming, hit, owed, queue, writtenBy>>
        /\ Serialised(w) /\ AfterFailure(w)
    BY <1>9 DEF WriteFails
  <2>3. w \in Writers
    BY <1>0
  <2>2. \A v \in Writers : \A i \in 1..Len(job'[v]) : job'[v][i] \in Placed
    <3>1. CASE mode[w] = "batch"
      BY <2>1, <3>1 DEF AfterFailure, OnlyPlaced
    <3>2. CASE mode[w] # "batch"
      <4>1. job' = [job EXCEPT ![w] = Tail(@)]
        BY <2>1, <3>2 DEF AfterFailure
      <4>2. \A v \in Writers : job'[v] = IF v = w THEN Tail(job[w]) ELSE job[v]
        BY <2>3, <4>1 DEF PipelineTyped
      <4>3. \A i \in 1..Len(Tail(job[w])) : Tail(job[w])[i] \in Placed
        <5> TAKE i \in 1..Len(Tail(job[w]))
        <5>1. i + 1 \in 1..Len(job[w]) /\ Tail(job[w])[i] = job[w][i + 1]
          BY <2>1, <2>3, <3>2, JobAfterFailure
        <5> QED BY <2>3, <5>1 DEF OnlyPlaced
      <4> QED BY <4>2, <4>3 DEF OnlyPlaced
    <3> QED BY <3>1, <3>2
  <2> QED BY <1>1, <2>1, <2>2 DEF OnlyPlaced
<1>10. ASSUME TakeTrade \/ TradeFails \/ \E w \in TradeWriters : WriteTrade(w) PROVE OnlyPlaced'
  <2>1. UNCHANGED <<phase, nextId, key, state, rev, incoming, hit, owed, queue, job, writtenBy>>
    BY <1>10 DEF TakeTrade, TradeFails, WriteTrade
  <2> QED BY <1>1, <2>1 DEF OnlyPlaced
<1>11. ASSUME Shutdown \/ Close PROVE OnlyPlaced'
  <2>1. UNCHANGED <<nextId, key, state, rev, incoming, hit, owed, queue, job, writtenBy>>
        /\ Open
    BY <1>11 DEF Shutdown, Close, Ends, Open, Up
  <2>2. Placed' = Placed
    BY <2>1 DEF Placed
  <2> HIDE DEF Typed
  <2> QED BY <2>1, <2>2 DEF OnlyPlaced
<1>12. ASSUME Crash PROVE OnlyPlaced'
  <2>1. ~Open' /\ Placed' = {}
    BY <1>12 DEF Crash, Open, Placed, Orders
  <2> QED BY <1>12, <2>1 DEF OnlyPlaced, Crash
<1>13. ASSUME NEW t \in Threads, Unbook(t) PROVE OnlyPlaced'
  <2>1. /\ UNCHANGED <<phase, nextId, key, state, rev, incoming, hit, writtenBy, queue, job>>
        /\ owed[t] # << >> /\ owed' = [owed EXCEPT ![t] = Tail(@)]
    BY <1>13, UnbookIs
  <2>2. \A s \in Threads : \A i \in 1..Len(owed'[s]) :
          owed'[s][i].to \in Repositories => owed'[s][i].what \in Placed
    BY <1>3, <2>1
  <2> QED BY <1>1, <2>1, <2>2 DEF OnlyPlaced
<1>14. ASSUME NEW t \in Threads, Throws(t) PROVE OnlyPlaced'
  <2>1. /\ UNCHANGED <<phase, nextId, key, state, rev, hit, writtenBy, queue>>
        /\ owed' = [owed EXCEPT ![t] = << >>] /\ incoming' = [incoming EXCEPT ![t] = None]
    BY <1>14, ThrowsIs
  <2>2. job' = job \/ job' = [job EXCEPT ![t] = << >>]
    BY <1>14, Zenon DEF Throws, SaveThrows, TradeSaveThrows
  <2>3. \A s \in Threads : owed'[s] = owed[s] \/ owed'[s] = << >>
    BY <2>1 DEF MemoryTyped
  <2>4. \A w \in Writers : job'[w] = job[w] \/ job'[w] = << >>
    BY <2>2 DEF PipelineTyped
  <2>5. \A s \in Threads : incoming'[s] = incoming[s] \/ incoming'[s] = None
    BY <2>1 DEF MemoryTyped
  <2>6. \A s \in Threads : \A i \in 1..Len(owed'[s]) :
          owed'[s][i].to \in Repositories => owed'[s][i].what \in Placed
    BY <2>3 DEF OnlyPlaced
  <2>7. \A w \in Writers : \A i \in 1..Len(job'[w]) : job'[w][i] \in Placed
    BY <2>4 DEF OnlyPlaced
  <2> QED BY <1>1, <2>1, <2>5, <2>6, <2>7 DEF OnlyPlaced
<1> HIDE DEF Typed
<1> QED BY <1>0, <1>2, <1>4, <1>5, <1>6, <1>7, <1>8, <1>9, <1>10, <1>11, <1>12, <1>13, <1>14, NextSteps

\* One thread matches at a time, after every step.
LEMMA OneMatcherStep ==
  ASSUME Typed, OneMatcher, OneAtATime, ShotsFollowJob, Next
  PROVE  OneMatcher'
<1> USE DEF Typed
<1>0. None \notin Threads /\ None \notin Orders
  BY WriteBehindAssumption DEF Orders
<1>1. ASSUME NEW t \in Threads, MemoryAction(t) PROVE OneMatcher'
  <2>1. ASSUME NEW k \in Keys, Place(t, k) PROVE OneMatcher'
    <3>1. /\ monitor = None /\ incoming[t] = None /\ nextId \in Orders
          /\ monitor' = t /\ incoming' = [incoming EXCEPT ![t] = nextId]
          /\ UNCHANGED <<hit, owed, nextTrade>>
      BY <2>1 DEF Place, Idle
    <3>2. \A s \in Threads : incoming[s] = None /\ hit[s] = None
      BY <1>0, <3>1 DEF OneMatcher
    <3> QED BY <3>1, <3>2 DEF OneMatcher, MemoryTyped
  <2>2. ASSUME NEW p \in Orders, Fill(t, p) PROVE OneMatcher'
    <3>1. /\ incoming[t] # None /\ incoming[t] # p /\ owed[t] = << >> /\ nextTrade \in Trades
          /\ hit' = [hit EXCEPT ![t] = p] /\ UNCHANGED <<monitor, incoming, owed, nextTrade>>
      BY <2>2 DEF Fill, Matching
    <3> QED BY <3>1 DEF OneMatcher, MemoryTyped
  <2>3. ASSUME NEW p \in Orders, TakeOff(t, p) PROVE OneMatcher'
    <3>1. /\ hit[t] = None /\ UNCHANGED <<monitor, incoming, hit, nextTrade>>
          /\ owed' = owed \/ owed' = [owed EXCEPT ![t] = OwedAfterSelfTrade(p)]
      BY <2>3 DEF TakeOff
    <3> QED BY <3>1 DEF OneMatcher, MemoryTyped
  <2>4. ASSUME Settle(t) PROVE OneMatcher'
    <3>1. /\ hit[t] # None /\ UNCHANGED <<monitor, incoming>> /\ hit' = [hit EXCEPT ![t] = None]
          /\ \E x : owed' = [owed EXCEPT ![t] = x]
      BY <2>4 DEF Settle
    <3>2. \A s \in Threads : hit'[s] = None
      BY <3>1 DEF OneMatcher, MemoryTyped
    <3> QED BY <3>1, <3>2 DEF OneMatcher
  <2>5. ASSUME Rest(t) PROVE OneMatcher'
    <3>1. /\ incoming[t] # None /\ hit[t] = None /\ monitor' = None
          /\ incoming' = [incoming EXCEPT ![t] = None] /\ UNCHANGED <<hit, nextTrade>>
          /\ \E x : owed' = [owed EXCEPT ![t] = x]
      BY <2>5 DEF Rest, Matching
    <3>2. \A s \in Threads : incoming'[s] = None /\ hit'[s] = None
      BY <1>0, <3>1 DEF OneMatcher, MemoryTyped
    <3> QED BY <3>2 DEF OneMatcher
  <2>6. ASSUME NEW o \in Orders, Cancel(t, o) PROVE OneMatcher'
    <3>1. /\ incoming[t] = None /\ UNCHANGED <<monitor, incoming, hit, nextTrade>>
          /\ \E x : owed' = [owed EXCEPT ![t] = x]
      BY <2>6 DEF Cancel, Idle
    <3> QED BY <3>1 DEF OneMatcher, MemoryTyped
  <2>7. ASSUME NEW o \in Orders, NEW k \in Keys, Modify(t, o, k) PROVE OneMatcher'
    <3>1. /\ monitor = None /\ incoming[t] = None
          /\ monitor' = t /\ incoming' = [incoming EXCEPT ![t] = o]
          /\ UNCHANGED <<hit, owed, nextTrade>>
      BY <2>7 DEF Modify, Idle
    <3>2. \A s \in Threads : incoming[s] = None /\ hit[s] = None
      BY <1>0, <3>1 DEF OneMatcher
    <3> QED BY <3>1, <3>2 DEF OneMatcher, MemoryTyped
  <2> HIDE DEF Typed
  <2> QED BY <1>1, <2>1, <2>2, <2>3, <2>4, <2>5, <2>6, <2>7 DEF MemoryAction
<1>2. ASSUME NEW t \in Threads, SaveOrder(t) \/ SaveTrade(t) \/ Unbook(t)
      PROVE  OneMatcher'
  <2>1. /\ owed[t] # << >> /\ UNCHANGED <<monitor, incoming, hit, nextTrade>>
        /\ owed' = [owed EXCEPT ![t] = Tail(@)]
    BY <1>2 DEF SaveOrder, SaveTrade, Unbook
  <2> QED BY <2>1 DEF OneMatcher, MemoryTyped
<1>3. ASSUME \/ \E w \in Writers : BuildKey(w) \/ Serialise(w) \/ SerialiseState(w) \/ Write(w)
             \/ \E r \in Repositories : Take(r) \/ WriteFails(r)
             \/ TakeTrade \/ TradeFails
             \/ \E w \in TradeWriters : WriteTrade(w)
             \/ Shutdown \/ Close
      PROVE  OneMatcher'
  <2>1. UNCHANGED <<monitor, incoming, hit, owed, nextTrade>>
    BY <1>3 DEF BuildKey, Serialise, SerialiseState, Write, WriteFails, Take, TakeTrade,
                TradeFails, WriteTrade,
                Shutdown, Close, Ends
  <2> QED BY <2>1 DEF OneMatcher
<1>4. ASSUME Crash PROVE OneMatcher'
  BY <1>4 DEF Crash, OneMatcher
<1>5. ASSUME NEW t \in Threads, Throws(t) PROVE OneMatcher'
  <2>1. /\ hit[t] = None /\ UNCHANGED <<hit, nextTrade>>
        /\ owed' = [owed EXCEPT ![t] = << >>] /\ incoming' = [incoming EXCEPT ![t] = None]
        /\ monitor' = IF incoming[t] = None THEN monitor ELSE None
    BY <1>5, ThrowsIs
  <2>2. /\ \A s \in Threads : s # t => incoming'[s] = incoming[s] /\ owed'[s] = owed[s]
        /\ incoming'[t] = None
    BY <2>1 DEF MemoryTyped
  <2>3. ASSUME NEW s \in Threads, incoming'[s] # None PROVE monitor' = s
    BY <1>0, <2>1, <2>2, <2>3 DEF OneMatcher
  <2>4. ASSUME NEW s \in Threads, hit'[s] # None
        PROVE  /\ incoming'[s] # None /\ incoming'[s] # hit'[s]
               /\ owed'[s] = << >> /\ nextTrade' \in Trades
    BY <2>1, <2>2, <2>4 DEF OneMatcher
  <2> QED BY <2>3, <2>4 DEF OneMatcher
<1> HIDE DEF Typed
<1> QED BY <1>1, <1>2, <1>3, <1>4, <1>5, NextSteps

\* A thread does one thing after the other, after every step.
LEMMA OneAtATimeStep ==
  ASSUME Typed, OneMatcher, OneAtATime, ShotsFollowJob, Next
  PROVE  OneAtATime'
<1> USE DEF Typed
<1>0. /\ None \notin Threads /\ None \notin Orders /\ Repositories \intersect Threads = {}
      /\ "trades" \notin Threads /\ "trades" \notin Repositories /\ "book" \notin Repositories
      /\ Threads \subseteq Writers /\ Threads \subseteq TradeWriters
      /\ Repositories \subseteq Writers /\ "engine" \in Repositories /\ "manager" \in Repositories
  BY WriteBehindAssumption DEF Orders, Repositories, Writers, TradeWriters
<1>1. ASSUME NEW s \in Threads, owed'[s] = owed[s], job'[s] = job[s], tradeJob'[s] = tradeJob[s],
             hit'[s] = hit[s], incoming'[s] = incoming[s],
             nextTrade' = nextTrade \/ incoming[s] = None
      PROVE  OneThing(s)'
  BY <1>1 DEF OneAtATime, OneThing
<1>2. ASSUME NEW t \in Threads, MemoryAction(t) PROVE OneAtATime'
  <2>1. UNCHANGED <<job, tradeJob>>
    BY <1>2 DEF MemoryAction, Place, Fill, TakeOff, Settle, Rest, Cancel, Modify
  <2>2. ASSUME NEW x, owed' = [owed EXCEPT ![t] = x], x = << >>, nextTrade' = nextTrade,
               \A s \in Threads : s # t => hit'[s] = hit[s] /\ incoming'[s] = incoming[s],
               job[t] = << >>, tradeJob[t] = None
        PROVE  OneAtATime'
    <3>1. \A s \in Threads : owed'[s] = IF s = t THEN x ELSE owed[s]
      BY <2>2 DEF MemoryTyped
    <3>2. OneThing(t)'
      <4>1. owed'[t] = << >> /\ job'[t] = << >> /\ tradeJob'[t] = None
        BY <2>1, <2>2, <3>1
      <4>2. Len(owed'[t]) = 0 /\ Len(job'[t]) = 0
        BY <4>1
      <4> QED BY <4>1, <4>2 DEF OneThing
    <3> QED BY <1>1, <2>1, <2>2, <3>1, <3>2 DEF OneAtATime
  <2>3. ASSUME NEW r \in Repositories, NEW o, owed' = [owed EXCEPT ![t] = <<[to |-> r, what |-> o]>>],
               nextTrade' = nextTrade, job[t] = << >>, tradeJob[t] = None,
               \A s \in Threads : s # t => hit'[s] = hit[s] /\ incoming'[s] = incoming[s]
        PROVE  OneAtATime'
    <3>1. \A s \in Threads : owed'[s] = IF s = t THEN <<[to |-> r, what |-> o]>> ELSE owed[s]
      BY <2>3 DEF MemoryTyped
    <3>2. OneThing(t)'
      <4>1. job'[t] = << >> /\ tradeJob'[t] = None /\ Len(job'[t]) = 0
        BY <2>1, <2>3
      <4>2. Len(owed'[t]) = 1 /\ owed'[t][1] = [to |-> r, what |-> o]
        BY <3>1, OneSave
      <4>3. \A i \in 1..Len(owed'[t]) : i = 1 /\ owed'[t][i].to # "trades"
        BY <1>0, <4>2
      <4> QED BY <4>1, <4>3 DEF OneThing
    <3> QED BY <1>1, <2>1, <2>3, <3>1, <3>2 DEF OneAtATime
  <2>4. ASSUME NEW k \in Keys, Place(t, k) PROVE OneAtATime'
    <3>1. /\ owed' = [owed EXCEPT ![t] = << >>] /\ nextTrade' = nextTrade /\ hit' = hit
          /\ job[t] = << >> /\ tradeJob[t] = None
          /\ \A s \in Threads : s # t => incoming'[s] = incoming[s]
      BY <2>4 DEF Place, Idle, MemoryTyped
    <3> QED BY <2>2, <3>1
  <2>5. ASSUME NEW p \in Orders, Fill(t, p) PROVE OneAtATime'
    <3>1. /\ owed' = [owed EXCEPT ![t] = << >>] /\ nextTrade' = nextTrade /\ incoming' = incoming
          /\ job[t] = << >> /\ tradeJob[t] = None
          /\ \A s \in Threads : s # t => hit'[s] = hit[s]
      BY <2>5 DEF Fill, Matching, MemoryTyped
    <3> QED BY <2>2, <3>1
  <2>6. ASSUME NEW p \in Orders, TakeOff(t, p) PROVE OneAtATime'
    <3>1. /\ owed[t] = << >> /\ nextTrade' = nextTrade /\ UNCHANGED <<incoming, hit>>
          /\ job[t] = << >> /\ tradeJob[t] = None
      BY <2>6 DEF TakeOff, Matching
    <3>2. CASE IsLive(p)
      <4>1. owed' = [owed EXCEPT ![t] = <<[to |-> "engine", what |-> p]>>]
        BY <2>6, <3>2 DEF TakeOff, OwedAfterSelfTrade
      <4> QED BY <1>0, <2>3, <3>1, <4>1
    <3>3. CASE ~IsLive(p)
      <4>1. owed' = [owed EXCEPT ![t] = << >>]
        BY <2>6, <3>1, <3>3 DEF TakeOff, MemoryTyped
      <4> QED BY <2>2, <3>1, <4>1
    <3> QED BY <3>2, <3>3
  <2>7. ASSUME Settle(t) PROVE OneAtATime'
    <3>1. /\ hit[t] # None /\ incoming' = incoming /\ hit' = [hit EXCEPT ![t] = None]
          /\ nextTrade' = nextTrade + 1
      BY <2>7 DEF Settle
    <3>2. /\ incoming[t] # None /\ nextTrade \in Nat
          /\ \A s \in Threads : s # t => incoming[s] = None
      BY <3>1, ConstantFacts DEF OneMatcher
    <3>3. owed' = [owed EXCEPT ![t] = AfterFill(hit[t], nextTrade)]
      BY <2>7, SettleOwes
    <3>4. \A s \in Threads : /\ owed'[s] = IF s = t THEN AfterFill(hit[t], nextTrade) ELSE owed[s]
                            /\ hit'[s] = IF s = t THEN None ELSE hit[s]
      BY <3>1, <3>3 DEF MemoryTyped
    <3>5. job[t] = << >> /\ tradeJob[t] = None /\ Len(job[t]) <= 1
      BY <3>1 DEF OneAtATime, OneThing
    <3>6. ASSUME NEW i \in 1..Len(owed'[t])
          PROVE  /\ owed'[t][i].to \in Repositories => i = 1
                 /\ owed'[t][i].to = "trades" => owed'[t][i].what = nextTrade
      <4> DEFINE p == hit[t]
                 u == AfterFill(p, nextTrade)
      <4>2. owed'[t] = u
        BY <3>4
      <4> HIDE DEF p
      <4>0. /\ u[1] = [to |-> "engine", what |-> p] /\ u[2] = [to |-> "trades", what |-> nextTrade]
            /\ Len(u) = 3 => u[3] = [to |-> "book", what |-> p]
            /\ \A j \in 1..Len(u) : j \in {1, 2} \/ (j = 3 /\ Len(u) = 3)
        <5>1. InTurn(u, p, nextTrade)
          BY AfterFillIs
        <5> HIDE DEF u
        <5> QED BY <5>1 DEF InTurn
      <4>1. /\ u[1].to = "engine" /\ u[2].to = "trades" /\ u[2].what = nextTrade
            /\ Len(u) = 3 => u[3].to = "book"
            /\ \A j \in 1..Len(u) : j \in {1, 2} \/ (j = 3 /\ Len(u) = 3)
        BY <4>0
      <4> HIDE DEF u
      <4> QED BY <1>0, <4>1, <4>2
    <3>7. nextTrade' - 1 = nextTrade
      BY <3>1, <3>2
    <3>8. OneThing(t)'
      BY <2>1, <3>1, <3>2, <3>4, <3>5, <3>6, <3>7 DEF OneThing
    <3> QED BY <1>1, <2>1, <3>1, <3>2, <3>4, <3>8 DEF OneAtATime
  <2>8. ASSUME Rest(t) PROVE OneAtATime'
    <3>1. /\ owed' = [owed EXCEPT ![t] = <<[to |-> "manager", what |-> incoming[t]]>>]
          /\ nextTrade' = nextTrade /\ hit' = hit /\ job[t] = << >> /\ tradeJob[t] = None
          /\ \A s \in Threads : s # t => incoming'[s] = incoming[s]
      BY <2>8 DEF Rest, Matching, MemoryTyped
    <3> QED BY <1>0, <2>3, <3>1
  <2>9. ASSUME NEW o \in Orders, Cancel(t, o) PROVE OneAtATime'
    <3>1. /\ owed' = [owed EXCEPT ![t] = <<[to |-> "manager", what |-> o]>>]
          /\ nextTrade' = nextTrade /\ UNCHANGED <<hit, incoming>>
          /\ job[t] = << >> /\ tradeJob[t] = None
      BY <2>9 DEF Cancel, Idle
    <3> QED BY <1>0, <2>3, <3>1
  <2>10. ASSUME NEW o \in Orders, NEW k \in Keys, Modify(t, o, k) PROVE OneAtATime'
    <3>1. /\ owed' = [owed EXCEPT ![t] = << >>] /\ nextTrade' = nextTrade /\ hit' = hit
          /\ job[t] = << >> /\ tradeJob[t] = None
          /\ \A s \in Threads : s # t => incoming'[s] = incoming[s]
      BY <2>10 DEF Modify, Idle, MemoryTyped
    <3> QED BY <2>2, <3>1
  <2> HIDE DEF Typed
  <2> QED BY <1>2, <2>4, <2>5, <2>6, <2>7, <2>8, <2>9, <2>10 DEF MemoryAction
<1>3. ASSUME NEW t \in Threads, owed[t] # << >>, owed' = [owed EXCEPT ![t] = Tail(@)],
             UNCHANGED <<incoming, hit, nextTrade>>,
             \A s \in Threads : s # t => job'[s] = job[s] /\ tradeJob'[s] = tradeJob[s],
             Len(job'[t]) <= 1,
             hit[t] # None => job'[t] = << >> /\ tradeJob'[t] = None,
             tradeJob'[t] # None =>
               incoming[t] # None /\ tradeJob'[t] = nextTrade - 1 /\ job'[t] = << >>
      PROVE  OneAtATime'
  <2>1. /\ \A s \in Threads : s # t => owed'[s] = owed[s]
        /\ \A i \in 1..Len(owed'[t]) : i + 1 \in 1..Len(owed[t]) /\ owed'[t][i] = owed[t][i + 1]
    BY <1>3, OwedTail
  <2>2. ASSUME NEW i \in 1..Len(owed'[t])
        PROVE  /\ owed'[t][i].to \notin Repositories
               /\ owed'[t][i].to = "trades" => incoming[t] # None /\ owed'[t][i].what = nextTrade - 1
    <3>1. i + 1 \in 1..Len(owed[t]) /\ owed'[t][i] = owed[t][i + 1] /\ i + 1 # 1
      BY <2>1
    <3> QED BY <3>1 DEF OneAtATime, OneThing
  <2>3. OneThing(t)'
    BY <1>3, <2>2 DEF OneThing
  <2> QED BY <1>1, <1>3, <2>1, <2>3 DEF OneAtATime
<1>4. ASSUME NEW t \in Threads, SaveOrder(t) PROVE OneAtATime'
  <2>1. /\ owed[t] # << >> /\ owed' = [owed EXCEPT ![t] = Tail(@)]
        /\ UNCHANGED <<incoming, hit, nextTrade, tradeJob>> /\ tradeJob[t] = None /\ job[t] = << >>
    BY <1>4 DEF SaveOrder
  <2>2. hit[t] = None
    BY <2>1 DEF OneMatcher
  <2> DEFINE r == Head(owed[t]).to
             o == Head(owed[t]).what
  <2>3. r \in Repositories /\ o \in Orders /\ SaveAsync(t, r, o)
    BY <1>4, <2>1, NextSave DEF SaveOrder
  <2> HIDE DEF r, o
  <2>4. job' = job \/ job' = [job EXCEPT ![t] = <<o>>]
    <3>1. UNCHANGED <<job, mode>> \/ job' = [job EXCEPT ![t] = <<o>>]
      BY <2>3, SaveAsyncIs
    <3> QED BY <3>1
  <2>5. /\ Len(job'[t]) <= 1
        /\ \A s \in Threads : s # t => job'[s] = job[s]
    <3>2. job'[t] = job[t] \/ job'[t] = <<o>>
      BY <1>0, <2>4 DEF PipelineTyped
    <3>3. \A s \in Threads : s # t => job'[s] = job[s]
      BY <1>0, <2>4 DEF PipelineTyped
    <3>4. Len(job'[t]) <= 1
      <4>1. CASE job'[t] = job[t]
        BY <2>1, <4>1
      <4>2. CASE job'[t] = <<o>>
        BY <4>2
      <4> QED BY <3>2, <4>1, <4>2
    <3> QED BY <3>3, <3>4
  <2>6. /\ \A s \in Threads : s # t => tradeJob'[s] = tradeJob[s]
        /\ tradeJob'[t] = None
    BY <2>1
  <2> QED BY <1>3, <2>1, <2>2, <2>5, <2>6
<1>5. ASSUME NEW t \in Threads, SaveTrade(t) PROVE OneAtATime'
  <2>1. /\ owed[t] # << >> /\ owed' = [owed EXCEPT ![t] = Tail(@)]
        /\ UNCHANGED <<incoming, hit, nextTrade, job>> /\ tradeJob[t] = None /\ job[t] = << >>
        /\ Head(owed[t]).to = "trades"
        /\ tradeJob' = tradeJob \/ tradeJob' = [tradeJob EXCEPT ![t] = Head(owed[t]).what]
    BY <1>5 DEF SaveTrade
  <2>2. hit[t] = None
    BY <2>1 DEF OneMatcher
  <2>3. incoming[t] # None /\ Head(owed[t]).what = nextTrade - 1
    <3>1. Head(owed[t]) = owed[t][1] /\ 1 \in 1..Len(owed[t])
      <4>1. Head(owed[t]) = owed[t][1] /\ owed[t] \in Seq(Saves)
        BY <2>1, NextSave DEF MemoryTyped
      <4> QED BY <2>1, <4>1
    <3> QED BY <2>1, <3>1 DEF OneAtATime, OneThing
  <2>4. \A s \in Threads : IF s = t THEN tradeJob'[s] \in {None, nextTrade - 1}
                                   ELSE tradeJob'[s] = tradeJob[s]
    BY <1>0, <2>1, <2>3 DEF TradesTyped
  <2>5. Len(job'[t]) <= 1
    BY <2>1
  <2> QED BY <1>3, <2>1, <2>2, <2>3, <2>4, <2>5
<1>6. ASSUME NEW t \in Threads, Unbook(t) PROVE OneAtATime'
  <2>1. /\ owed[t] # << >> /\ owed' = [owed EXCEPT ![t] = Tail(@)]
        /\ UNCHANGED <<incoming, hit, nextTrade, job, tradeJob>>
        /\ tradeJob[t] = None /\ job[t] = << >>
    BY <1>6, UnbookIs
  <2>2. hit[t] = None /\ Len(job'[t]) <= 1
    BY <2>1 DEF OneMatcher
  <2> QED BY <1>3, <2>1, <2>2
<1>7. ASSUME UNCHANGED <<owed, incoming, hit, nextTrade>>,
             \A s \in Threads : job'[s] = job[s] \/ (job[s] # << >> /\ Len(job'[s]) <= 1),
             \A s \in Threads : tradeJob'[s] \in {tradeJob[s], None}
      PROVE  OneAtATime'
  BY <1>7 DEF OneAtATime, OneThing
<1>8. ASSUME NEW w \in Writers, BuildKey(w) \/ Serialise(w) \/ SerialiseState(w)
      PROVE  OneAtATime'
  <2>1. UNCHANGED <<owed, incoming, hit, nextTrade, job, tradeJob>>
    BY <1>8 DEF BuildKey, Serialise, SerialiseState
  <2> QED BY <1>7, <2>1
<1>9. ASSUME NEW w \in Writers, Write(w) PROVE OneAtATime'
  <2> DEFINE rest == SubSeq(job[w], Len(shots[w]) + 1, Len(job[w]))
  <2>1. UNCHANGED <<owed, incoming, hit, nextTrade, tradeJob>> /\ job' = [job EXCEPT ![w] = rest]
        /\ Serialised(w)
    BY <1>9 DEF Write
  <2>2. Len(rest) = Len(job[w]) - Len(shots[w]) /\ Len(job[w]) \in Nat /\ Len(shots[w]) \in Nat
        /\ Len(shots[w]) > 0 /\ Len(shots[w]) <= Len(job[w])
    BY <2>1, RestOfJob, JobFacts DEF Serialised
  <2> HIDE DEF rest
  <2>3. Len(job[w]) <= 1 => Len(rest) <= 1
    BY <2>2
  <2>4. job[w] # << >>
    BY <2>2
  <2>5. ASSUME NEW s \in Threads PROVE job'[s] = job[s] \/ (job[s] # << >> /\ Len(job'[s]) <= 1)
    <3>1. Len(job[s]) <= 1
      BY DEF OneAtATime, OneThing
    <3> QED BY <1>0, <2>1, <2>3, <2>4, <3>1 DEF PipelineTyped
  <2> QED BY <1>7, <2>1, <2>5
<1>10. ASSUME NEW r \in Repositories, Take(r) \/ WriteFails(r) PROVE OneAtATime'
  <2>1. /\ UNCHANGED <<owed, incoming, hit, nextTrade, tradeJob>>
        /\ job' = job \/ \E x : job' = [job EXCEPT ![r] = x]
    BY <1>10, Zenon DEF Take, WriteFails, AfterFailure
  <2>2. \A s \in Threads : job'[s] = job[s]
    BY <1>0, <2>1 DEF PipelineTyped
  <2> QED BY <1>7, <2>1, <2>2
<1>11. ASSUME TakeTrade \/ TradeFails PROVE OneAtATime'
  <2>1. /\ UNCHANGED <<owed, incoming, hit, nextTrade, job>>
        /\ \E x : tradeJob' = [tradeJob EXCEPT !["trades"] = x]
    BY <1>11 DEF TakeTrade, TradeFails
  <2>2. \A s \in Threads : tradeJob'[s] = tradeJob[s]
    BY <1>0, <2>1 DEF TradesTyped
  <2> QED BY <1>7, <2>1, <2>2
<1>12. ASSUME NEW w \in TradeWriters, WriteTrade(w) PROVE OneAtATime'
  <2>1. /\ UNCHANGED <<owed, incoming, hit, nextTrade, job>>
        /\ tradeJob' = tradeJob \/ tradeJob' = [tradeJob EXCEPT ![w] = None]
    BY <1>12 DEF WriteTrade, PutTrade, IndexTrade
  <2>2. \A s \in Threads : tradeJob'[s] \in {tradeJob[s], None}
    BY <1>0, <2>1 DEF TradesTyped
  <2> QED BY <1>7, <2>1, <2>2
<1>13. ASSUME Shutdown \/ Close PROVE OneAtATime'
  <2>1. UNCHANGED <<owed, incoming, hit, nextTrade, job, tradeJob>>
    BY <1>13 DEF Shutdown, Close, Ends
  <2> QED BY <1>7, <2>1
<1>14. ASSUME Crash PROVE OneAtATime'
  <2>1. \A s \in Threads : owed'[s] = << >> /\ job'[s] = << >> /\ tradeJob'[s] = None /\ hit'[s] = None
    BY <1>0, <1>14 DEF Crash
  <2>2. \A s \in Threads : Len(owed'[s]) = 0 /\ Len(job'[s]) = 0
    BY <2>1
  <2> QED BY <2>1, <2>2 DEF OneAtATime, OneThing
<1>15. ASSUME NEW t \in Threads, Throws(t) PROVE OneAtATime'
  <2>1. /\ hit[t] = None /\ UNCHANGED <<hit, nextTrade>>
        /\ owed' = [owed EXCEPT ![t] = << >>] /\ incoming' = [incoming EXCEPT ![t] = None]
    BY <1>15, ThrowsIs
  <2>2. /\ (job' = job /\ tradeJob' = [tradeJob EXCEPT ![t] = None])
           \/ (job' = [job EXCEPT ![t] = << >>] /\ tradeJob' = tradeJob /\ tradeJob[t] = None)
    BY <1>15, ThrowsIs, Zenon
  <2>3. \A s \in Threads : s # t => /\ owed'[s] = owed[s] /\ incoming'[s] = incoming[s]
                                   /\ job'[s] = job[s] /\ tradeJob'[s] = tradeJob[s]
    BY <1>0, <2>1, <2>2 DEF MemoryTyped, PipelineTyped, TradesTyped
  <2>4. OneThing(t)'
    <3>1. owed'[t] = << >> /\ Len(owed'[t]) = 0
      BY <2>1 DEF MemoryTyped
    <3>2. tradeJob'[t] = None /\ job'[t] \in {job[t], << >>}
      BY <1>0, <2>2 DEF PipelineTyped, TradesTyped
    <3>3. Len(job'[t]) <= 1
      BY <3>2 DEF OneAtATime, OneThing
    <3> QED BY <2>1, <3>1, <3>2, <3>3 DEF OneThing
  <2> QED BY <1>1, <2>1, <2>3, <2>4 DEF OneAtATime
<1> HIDE DEF Typed
<1> QED BY <1>2, <1>4, <1>5, <1>6, <1>8, <1>9, <1>10, <1>11, <1>12, <1>13, <1>14, <1>15, NextSteps

-----------------------------------------------------------------------------
(* What a thread's step does to the orders, seen from the pipeline: it     *)
(* leaves an order as it was, or counts a change and has the order saved.  *)

Kept(t, o) ==
  /\ rev'[o] = rev[o] /\ key'[o] = key[o] /\ state'[o] = state[o]
  /\ ~Changing(o)' => ~Changing(o) /\ leaves'[o] = leaves[o]
  /\ Changing(o)' => Changing(o) \/ MayChange(o)
  /\ incoming[t] = o => incoming'[t] = o \/ Owes(t, "manager", o)'

Changed(t, o) ==
  /\ rev'[o] = rev[o] + 1
  /\ \/ MayChange(o)
     \/ (Changing(o) \/ rev'[o] = 1) /\ ~Changing(o)'
  /\ Changing(o)' => Changing(o)
  /\ incoming'[t] = o \/ \E r \in Repositories : Owes(t, r, o)'

MemoryStep(t) ==
  /\ Open /\ UNCHANGED <<phase, pipeVars, storeVars, failures, lossVars, tradeVars>>
  /\ owed[t] = << >>
  /\ \A s \in Threads : s # t => owed'[s] = owed[s] /\ incoming'[s] = incoming[s]
  /\ \A o \in Orders : Kept(t, o) \/ Changed(t, o)
  /\ \/ nextTrade' = nextTrade
     \/ \E n \in Trades : n = nextTrade /\ nextTrade' = n + 1 /\ Owes(t, "trades", n)'

\* It touches neither the pipeline nor the store.
LEMMA MemoryOnly ==
  ASSUME NEW t \in Threads, MemoryAction(t)
  PROVE  Open /\ UNCHANGED <<phase, pipeVars, storeVars, failures, lossVars, tradeVars>>
BY DEF MemoryAction, Place, Fill, TakeOff, Settle, Rest, Cancel, Modify, Open, Up

\* Every step of a thread in memory is one of these.
LEMMA MemorySteps ==
  ASSUME MemoryTyped, OnlyPlaced, OneMatcher, NEW t \in Threads, MemoryAction(t)
  PROVE  MemoryStep(t)
<1>0. /\ None \notin Orders /\ {"engine", "manager"} = Repositories /\ None \notin Threads
      /\ \A o \in Orders : rev[o] \in Nat
  <2>1. {"engine", "manager"} = Repositories
    BY DEF Repositories
  <2>2. None \notin Orders /\ None \notin Threads
    BY ConstantFacts, WriteBehindAssumption
  <2>3. \A o \in Orders : rev[o] \in Nat
    BY DEF MemoryTyped
  <2> QED BY <2>1, <2>2, <2>3
<1>1. Open /\ UNCHANGED <<phase, pipeVars, storeVars, failures, lossVars, tradeVars>>
  BY MemoryOnly
<1>2. owed[t] = << >>
  BY DEF MemoryAction, Place, Fill, TakeOff, Settle, Rest, Cancel, Modify, Idle, Matching,
         OneMatcher
<1>3. \A s \in Threads : s # t => owed'[s] = owed[s] /\ incoming'[s] = incoming[s]
  BY DEF MemoryAction, Place, Fill, TakeOff, Settle, Rest, Cancel, Modify, MemoryTyped
<1>4. ASSUME UNCHANGED hit, incoming[t] = None \/ incoming'[t] = incoming[t] \/ hit[t] = None
      PROVE  \A o \in Orders : Changing(o)' <=> Changing(o)
  <2>1. incoming[t] = None => hit[t] = None
    BY DEF OneMatcher
  <2> QED BY <1>3, <1>4, <2>1 DEF Changing
<1>5. ASSUME NEW k \in Keys, Place(t, k) PROVE MemoryStep(t)
  <2>1. /\ incoming[t] = None /\ nextId \in Orders
        /\ key' = [key EXCEPT ![nextId] = k] /\ leaves' = [leaves EXCEPT ![nextId] = Qty[nextId]]
        /\ state' = [state EXCEPT ![nextId] = "LIVE"]
        /\ rev' = [rev EXCEPT ![nextId] = 1] /\ incoming' = [incoming EXCEPT ![t] = nextId]
        /\ UNCHANGED <<hit, nextTrade>>
    BY <1>5 DEF Place, Idle
  <2>2. nextId \in Orders \ Placed
    BY <2>1 DEF Placed, MemoryTyped
  <2>3. rev[nextId] = 0
    BY <1>1, <2>2 DEF OnlyPlaced
  <2>4. \A o \in Orders : Changing(o)' <=> Changing(o)
    BY <1>4, <2>1
  <2>5. ASSUME NEW o \in Orders PROVE Kept(t, o) \/ Changed(t, o)
    <3>1. CASE o = nextId
      <4>1. ~Changing(o)
        BY <2>2, <3>1 DEF Changing, OnlyPlaced, OneMatcher
      <4> QED BY <2>1, <2>3, <2>4, <3>1, <4>1 DEF Changed, MemoryTyped
    <3>2. CASE o # nextId
      BY <1>0, <2>1, <2>4, <3>2 DEF Kept, MemoryTyped
    <3> QED BY <3>1, <3>2
  <2> QED BY <1>1, <1>2, <1>3, <2>1, <2>5 DEF MemoryStep
<1>6. ASSUME NEW p \in Orders, Fill(t, p) PROVE MemoryStep(t)
  <2> DEFINE a == incoming[t]
  <2>1. /\ a \in Orders /\ UNCHANGED <<rev, key, state, incoming, nextTrade>>
        /\ hit' = [hit EXCEPT ![t] = p] /\ hit[t] = None /\ MayChange(a) /\ MayChange(p)
        /\ \E x, y : leaves' = [leaves EXCEPT ![a] = x, ![p] = y]
    BY <1>6 DEF Fill, Matching, MemoryTyped
  <2>2. \A o \in Orders : Changing(o)' <=> Changing(o) \/ o \in {a, p}
    BY <1>0, <2>1 DEF Changing, MemoryTyped
  <2>3. \A o \in Orders \ {a, p} : leaves'[o] = leaves[o]
    BY <2>1 DEF MemoryTyped
  <2>4. \A o \in Orders : Kept(t, o)
    BY <2>1, <2>2, <2>3 DEF Kept
  <2> QED BY <1>1, <1>2, <1>3, <2>1, <2>4 DEF MemoryStep
<1>7. ASSUME NEW p \in Orders, TakeOff(t, p) PROVE MemoryStep(t)
  <2>1. UNCHANGED <<key, leaves, incoming, hit, nextTrade>>
    BY <1>7 DEF TakeOff
  <2>2. \A o \in Orders : Changing(o)' <=> Changing(o)
    BY <1>4, <2>1
  <2>3. CASE IsLive(p)
    <3>1. /\ MayChange(p)
          /\ rev' = [rev EXCEPT ![p] = @ + 1] /\ state' = [state EXCEPT ![p] = "CANCELLED"]
          /\ owed'[t] = <<[to |-> "engine", what |-> p]>>
      BY <1>7, <2>3 DEF TakeOff, OwedAfterSelfTrade, MemoryTyped
    <3>2. Owes(t, "engine", p)'
      BY <3>1, OneSave DEF Owes
    <3>3. ASSUME NEW o \in Orders PROVE Kept(t, o) \/ Changed(t, o)
      BY <1>0, <2>1, <2>2, <3>1, <3>2 DEF Kept, Changed, MemoryTyped
    <3> QED BY <1>1, <1>2, <1>3, <2>1, <3>3 DEF MemoryStep
  <2>4. CASE ~IsLive(p)
    <3>1. UNCHANGED <<state, rev>>
      BY <1>7, <2>4 DEF TakeOff
    <3>2. \A o \in Orders : Kept(t, o)
      BY <2>1, <2>2, <3>1 DEF Kept
    <3> QED BY <1>1, <1>2, <1>3, <2>1, <3>2 DEF MemoryStep
  <2> QED BY <2>3, <2>4
<1>8. ASSUME Settle(t) PROVE MemoryStep(t)
  <2>1. PICK a \in Orders, p \in Orders, n \in Trades :
          a = incoming[t] /\ p = hit[t] /\ n = nextTrade /\ a # p
    BY <1>8 DEF Settle, OneMatcher, MemoryTyped
  <2>7. PICK saves : saves = AfterFill(p, n)
    OBVIOUS
  <2>2. /\ UNCHANGED <<key, leaves, incoming>> /\ nextTrade' = n + 1
        /\ rev' = [rev EXCEPT ![a] = @ + 1, ![p] = @ + 1]
        /\ \E x, y : state' = [state EXCEPT ![a] = x, ![p] = y]
        /\ hit' = [hit EXCEPT ![t] = None]
    BY <1>8, <2>1 DEF Settle
  <2>3. Owes(t, "engine", p)' /\ Owes(t, "trades", n)'
    <3>1. owed'[t] = saves
      <4>1. owed' = [owed EXCEPT ![t] = saves]
        BY <1>8, <2>1, <2>7, SettleOwes
      <4> QED BY <4>1 DEF MemoryTyped
    <3>2. 1 \in DOMAIN saves /\ 2 \in DOMAIN saves
          /\ saves[1] = [to |-> "engine", what |-> p] /\ saves[2] = [to |-> "trades", what |-> n]
      <4>1. InTurn(saves, p, n)
        BY <2>7, AfterFillIs
      <4> QED BY <4>1 DEF InTurn
    <3> QED BY <3>1, <3>2 DEF Owes
  <2>4. \A s \in Threads : hit[s] # None => s = t
    BY <2>1, <1>0 DEF OneMatcher
  <2>5. \A o \in Orders : ~Changing(o)' /\ (Changing(o) <=> o \in {a, p})
    BY <1>0, <2>1, <2>2, <2>4 DEF Changing, MemoryTyped
  <2>6. ASSUME NEW o \in Orders PROVE Kept(t, o) \/ Changed(t, o)
    <3>1. CASE o = a \/ o = p
      <4>1. rev'[o] = rev[o] + 1
        BY <2>1, <2>2, <3>1 DEF MemoryTyped
      <4>2. incoming'[t] = o \/ Owes(t, "engine", o)'
        BY <2>1, <2>2, <2>3, <3>1
      <4> QED BY <1>0, <2>5, <3>1, <4>1, <4>2 DEF Changed
    <3>2. CASE o # a /\ o # p
      <4>1. rev'[o] = rev[o] /\ key'[o] = key[o] /\ state'[o] = state[o] /\ leaves'[o] = leaves[o]
        BY <2>2, <3>2 DEF MemoryTyped
      <4> QED BY <2>1, <2>5, <3>2, <4>1 DEF Kept
    <3> QED BY <3>1, <3>2
  <2> QED BY <1>1, <1>2, <1>3, <2>1, <2>2, <2>3, <2>6 DEF MemoryStep
<1>9. ASSUME Rest(t) PROVE MemoryStep(t)
  <2>1. PICK a \in Orders : a = incoming[t]
    BY <1>9 DEF Rest, Matching, MemoryTyped
  <2>2. /\ UNCHANGED <<rev, key, leaves, state, hit, nextTrade>> /\ hit[t] = None
        /\ incoming' = [incoming EXCEPT ![t] = None]
        /\ owed'[t] = <<[to |-> "manager", what |-> a]>>
    BY <1>9, <2>1 DEF Rest, MemoryTyped
  <2>3. Owes(t, "manager", a)'
    BY <2>2, OneSave DEF Owes
  <2>4. \A o \in Orders : Changing(o)' <=> Changing(o)
    BY <1>4, <2>2
  <2>5. \A o \in Orders : Kept(t, o)
    BY <2>1, <2>2, <2>3, <2>4 DEF Kept
  <2> QED BY <1>1, <1>2, <1>3, <2>2, <2>5 DEF MemoryStep
<1>10. ASSUME NEW o \in Orders, Cancel(t, o) PROVE MemoryStep(t)
  <2>1. /\ UNCHANGED <<key, leaves, incoming, hit, nextTrade>> /\ MayChange(o)
        /\ rev' = [rev EXCEPT ![o] = @ + 1] /\ state' = [state EXCEPT ![o] = "CANCELLED"]
        /\ owed'[t] = <<[to |-> "manager", what |-> o]>>
    BY <1>10 DEF Cancel, MemoryTyped
  <2>2. Owes(t, "manager", o)'
    BY <2>1, OneSave DEF Owes
  <2>3. \A x \in Orders : Changing(x)' <=> Changing(x)
    BY <1>4, <2>1
  <2>4. ASSUME NEW x \in Orders PROVE Kept(t, x) \/ Changed(t, x)
    BY <1>0, <2>1, <2>2, <2>3 DEF Kept, Changed, MemoryTyped
  <2> QED BY <1>1, <1>2, <1>3, <2>1, <2>4 DEF MemoryStep
<1>11. ASSUME NEW o \in Orders, NEW k \in Keys, Modify(t, o, k) PROVE MemoryStep(t)
  <2>1. /\ UNCHANGED <<leaves, state, hit, nextTrade>> /\ MayChange(o) /\ incoming[t] = None
        /\ rev' = [rev EXCEPT ![o] = @ + 1] /\ key' = [key EXCEPT ![o] = k]
        /\ incoming' = [incoming EXCEPT ![t] = o]
    BY <1>11 DEF Modify, Idle
  <2>2. \A x \in Orders : Changing(x)' <=> Changing(x)
    BY <1>4, <2>1
  <2>3. ASSUME NEW x \in Orders PROVE Kept(t, x) \/ Changed(t, x)
    BY <1>0, <2>1, <2>2 DEF Kept, Changed, MemoryTyped
  <2> QED BY <1>1, <1>2, <1>3, <2>1, <2>3 DEF MemoryStep
<1> QED BY <1>5, <1>6, <1>7, <1>8, <1>9, <1>10, <1>11 DEF MemoryAction

\* No order changes more often than it may.
LEMMA ChangesBoundedStep ==
  ASSUME Typed, OnlyPlaced, OneMatcher, OneAtATime, ChangesBounded, ShotsFollowJob, Next
  PROVE  ChangesBounded'
<1> USE DEF Typed
<1>0. \A o \in Orders : rev[o] \in Nat /\ MaxRevs[o] \in Nat \ {0}
  BY WriteBehindAssumption DEF MemoryTyped
<1>1. ASSUME NEW t \in Threads, MemoryAction(t) PROVE ChangesBounded'
  <2> SUFFICES ASSUME NEW o \in Orders
               PROVE  rev'[o] <= MaxRevs[o] /\ (Changing(o)' => rev'[o] < MaxRevs[o])
    BY DEF ChangesBounded
  <2>1. Kept(t, o) \/ Changed(t, o)
    BY <1>1, MemorySteps DEF MemoryStep
  <2>2. rev[o] <= MaxRevs[o] /\ (Changing(o) => rev[o] < MaxRevs[o])
    BY DEF ChangesBounded
  <2>3. MayChange(o) => rev[o] < MaxRevs[o] /\ (Changing(o) => rev[o] + 1 < MaxRevs[o])
    BY <1>0 DEF MayChange
  <2>4. CASE Kept(t, o)
    BY <2>2, <2>3, <2>4 DEF Kept
  <2>5. CASE Changed(t, o)
    BY <1>0, <2>2, <2>3, <2>5 DEF Changed
  <2> QED BY <2>1, <2>4, <2>5
<1>2. ASSUME UNCHANGED rev, \A o \in Orders : Changing(o)' => Changing(o) PROVE ChangesBounded'
  BY <1>2 DEF ChangesBounded
<1>3. ASSUME NEW t \in Threads, Throws(t) PROVE ChangesBounded'
  <2>1. UNCHANGED <<rev, hit>> /\ incoming' = [incoming EXCEPT ![t] = None] /\ hit[t] = None
    BY <1>3, ThrowsIs
  <2>2. \A o \in Orders : Changing(o)' => Changing(o)
    BY <2>1 DEF Changing, MemoryTyped
  <2> QED BY <1>2, <2>1, <2>2
<1>4. CASE Crash
  <2>1. UNCHANGED rev /\ \A o \in Orders : ~Changing(o)'
    BY <1>4 DEF Crash, Changing
  <2> QED BY <1>2, <2>1
<1>5. ASSUME ~ \E t \in Threads : MemoryAction(t) \/ Throws(t), ~Crash PROVE ChangesBounded'
  <2>1. UNCHANGED <<rev, incoming, hit>>
    BY <1>5, NextSteps DEF BuildKey, Serialise, SerialiseState, Write, WriteFails, Take, TakeTrade,
       TradeFails, WriteTrade, SaveOrder, SaveTrade, Unbook, Shutdown, Close, Ends
  <2>2. \A o \in Orders : Changing(o)' => Changing(o)
    BY <2>1 DEF Changing
  <2> QED BY <1>2, <2>1, <2>2
<1> QED BY <1>1, <1>3, <1>4, <1>5

-----------------------------------------------------------------------------
(* Records. *)

\* A record stays faithful while threads change the orders: its order is as it was, or
\* has a newer change.
LEMMA FaithfulKept ==
  ASSUME MemoryTyped, NEW t \in Threads, MemoryStep(t), NEW r \in Record,
         r.rev <= rev[r.order], Faithful(r)
  PROVE  r.rev <= rev'[r.order] /\ Faithful(r)'
<1>1. r.order \in Orders /\ r.rev \in Nat /\ rev[r.order] \in Nat
  BY DEF Record, MemoryTyped
<1>2. Kept(t, r.order) \/ Changed(t, r.order)
  BY <1>1 DEF MemoryStep
<1>3. CASE Kept(t, r.order)
  BY <1>3 DEF Kept, Faithful
<1>4. CASE Changed(t, r.order)
  BY <1>1, <1>4 DEF Changed, Faithful
<1> QED BY <1>2, <1>3, <1>4

\* What a writer that is not concerned by a step has serialised.
LEMMA ShotsKept ==
  ASSUME PipelineTyped, ShotsFollowJob, NEW v \in Writers, Open' => Open,
         UNCHANGED <<key, leaves, state, rev, job[v], shots[v], mode[v]>>,
         \A o \in Orders : Changing(o)' <=> Changing(o),
         \A o \in Orders : writtenBy'[o] \subseteq {v} =>
                             writtenBy[o] \subseteq {v} /\ written'[o] = written[o]
  PROVE  /\ \A i \in 1..Len(shots'[v]) : ShotFollows(v, i)'
         /\ Together(v)' = Together(v) /\ Torn(v)' = Torn(v)
         /\ Len(shots'[v]) <= Together(v)'
<1>1. WriterFollows(v)
  BY DEF ShotsFollowJob
<1>2. Together(v)' = Together(v) /\ Torn(v)' = Torn(v)
  BY DEF Together, Torn
<1>3. \A r : r.order \in Orders => (Faithful(r)' <=> Faithful(r))
  BY DEF Faithful
<1>4. ASSUME NEW i \in 1..Len(shots[v]), ShotFollows(v, i) PROVE ShotFollows(v, i)'
  <2>1. job[v][i] \in Orders
    BY JobFacts
  <2>2. shots[v][i].order \in Orders
    BY <1>4, <2>1 DEF ShotFollows
  <2> QED BY <1>3, <1>4, <2>1, <2>2 DEF ShotFollows
<1> QED BY <1>1, <1>2, <1>4 DEF WriterFollows

\* A writer that is not concerned by a step.
LEMMA WriterKept ==
  ASSUME PipelineTyped, ShotsFollowJob, NEW v \in Writers, Open' => Open,
         UNCHANGED <<key, leaves, state, rev, job[v], shots[v], mode[v], dbKey[v]>>,
         \A o \in Orders : Changing(o)' <=> Changing(o),
         \A o \in Orders : writtenBy'[o] \subseteq {v} =>
                             writtenBy[o] \subseteq {v} /\ written'[o] = written[o]
  PROVE  WriterFollows(v)'
<1>1. dbKey[v] # None => Len(shots[v]) < Together(v) /\ ~Torn(v)
  BY JobFacts
<1>2. /\ \A i \in 1..Len(shots'[v]) : ShotFollows(v, i)'
      /\ Together(v)' = Together(v) /\ Torn(v)' = Torn(v)
      /\ Len(shots'[v]) <= Together(v)'
  BY ShotsKept
<1> QED BY <1>1, <1>2 DEF WriterFollows

\* A writer that has serialised nothing.
LEMMA WriterAtStart ==
  ASSUME NEW v \in Writers, shots'[v] = << >>, dbKey'[v] = None, Together(v)' \in Nat
  PROVE  WriterFollows(v)'
BY DEF WriterFollows

\* There is no negative number of orders to write.
LEMMA TogetherNext == ASSUME PipelineTyped', NEW v \in Writers PROVE Together(v)' \in Nat
<1>1. PICK n \in Nat : n = Len(job'[v])
  BY DEF PipelineTyped
<1>2. Min({1, n}) \in Nat
  <2>1. {1, n} \in SUBSET Nat
    OBVIOUS
  <2>2. \E m \in {1, n} : \A x \in {1, n} : m <= x
    BY <2>1, LeastOfNats
  <2> QED BY <2>1, <2>2 DEF Min
<1> QED BY <1>1, <1>2 DEF Together

\* A thread that has no job has serialised nothing.
LEMMA NothingSerialised ==
  ASSUME PipelineTyped, ShotsFollowJob, NEW w \in Writers, job[w] = << >>
  PROVE  shots[w] = << >> /\ dbKey[w] = None
<1>1. shots[w] \in Seq(Record) /\ Len(shots[w]) \in Nat /\ Len(shots[w]) <= 0
  BY JobFacts
<1>2. dbKey[w] = None
  <2>1. Len(job[w]) = 0
    OBVIOUS
  <2>2. Together(w) \in 0..0 /\ Len(shots[w]) \in Nat /\ (dbKey[w] # None => Len(shots[w]) < Together(w))
    BY <2>1, JobFacts
  <2> QED BY <2>2
<1> QED BY <1>1, <1>2, EmptySeq

\* Nor does it hold a key once all it writes is serialised.
LEMMA NoKeyHeld ==
  ASSUME PipelineTyped, ShotsFollowJob, NEW w \in Writers, Serialised(w)
  PROVE  dbKey[w] = None
<1>1. Len(shots[w]) = Together(w) /\ Together(w) \in Nat
  BY JobFacts DEF Serialised
<1>2. dbKey[w] # None => Len(shots[w]) < Together(w)
  BY JobFacts
<1> QED BY <1>1, <1>2

\* A record of the order is to be written.
InBatch(w, o) == \E i \in 1..Len(shots[w]) : shots[w][i].order = o

\* What a write changes: it stores complete records.
LEMMA WriteIs ==
  ASSUME PipelineTyped, ShotsFollowJob, NEW w \in Writers, Write(w)
  PROVE  /\ \A o \in Orders : written'[o] = Newest(w, o)
         /\ \A o \in Orders : writtenBy'[o] =
              IF InBatch(w, o) THEN writtenBy[o] \union {w} ELSE writtenBy[o]
         /\ \A k \in Keys : store'[k] = Stored(w, k)
         /\ \A i \in 1..Len(shots[w]) : shots[w][i].state # None
<1>1. shots[w] \in Seq(Record) /\ Len(shots[w]) \in Nat
  BY JobFacts
<1>2. Range(shots[w]) = {shots[w][i] : i \in 1..Len(shots[w])}
  BY <1>1, RangeEquality
<1>3. \A o \in Orders : written'[o] = Newest(w, o)
  BY DEF Write, Newest
<1>4. \A o \in Orders : writtenBy'[o] =
              IF InBatch(w, o) THEN writtenBy[o] \union {w} ELSE writtenBy[o]
  <2>1. \A o \in Orders : writtenBy'[o] =
          IF \E r \in Range(shots[w]) : r.order = o
            THEN writtenBy[o] \union {w} ELSE writtenBy[o]
    BY DEF Write
  <2>2. \A o : (\E r \in Range(shots[w]) : r.order = o) <=> InBatch(w, o)
    BY <1>2 DEF InBatch
  <2> QED BY <2>1, <2>2
<1>5. \A k \in Keys : store'[k] = Stored(w, k)
  BY DEF Write
<1>6. \A i \in 1..Len(shots[w]) : shots[w][i].state # None
  <2> TAKE i \in 1..Len(shots[w])
  <2>1. ~Torn(w) /\ shots[w] # << >>
    BY DEF Write, Serialised, Torn
  <2>2. shots[w][Len(shots[w])].state # None
    BY <2>1 DEF Torn, Last
  <2>3. i < Len(shots[w]) => shots[w][i].state # None
    BY DEF ShotsFollowJob, WriterFollows, ShotFollows
  <2> QED BY <1>1, <2>2, <2>3
<1> QED BY <1>3, <1>4, <1>5, <1>6

\* What is serialised follows the jobs, after every step.
LEMMA ShotsFollowJobStep ==
  ASSUME Typed, Typed', OnlyPlaced, OneMatcher, OneAtATime, ShotsFollowJob, StoreIsPast, Next
  PROVE  ShotsFollowJob'
<1> USE DEF Typed
<1>0. /\ Repositories \subseteq Writers /\ Threads \subseteq Writers
      /\ \A v \in Writers : Together(v)' \in Nat
  BY TogetherNext DEF Writers
<1>1. ASSUME NEW t \in Threads, MemoryAction(t) PROVE ShotsFollowJob'
  <2>1. MemoryStep(t)
    BY <1>1, MemorySteps
  <2>2. UNCHANGED <<phase, job, mode, dbKey, shots, written, writtenBy>>
    BY <2>1 DEF MemoryStep
  <2> SUFFICES ASSUME NEW w \in Writers PROVE WriterFollows(w)'
    BY DEF ShotsFollowJob
  <2>3. WriterFollows(w)
    BY DEF ShotsFollowJob
  <2>4. Together(w)' = Together(w) /\ Torn(w)' = Torn(w)
    BY <2>2 DEF Together, Torn
  <2>5. ASSUME NEW i \in 1..Len(shots[w]) PROVE ShotFollows(w, i)'
    <3>1. ShotFollows(w, i) /\ shots[w][i] \in Record
      BY <2>3, JobFacts DEF WriterFollows
    <3>2. Open /\ Open' /\ shots[w][i].order = job[w][i]
      BY <2>1, <3>1 DEF MemoryStep, ShotFollows, Open
    <3>3. shots[w][i].rev <= rev'[job[w][i]] /\ Faithful(shots[w][i])'
      <4> PICK r \in Record : r = shots[w][i]
        BY <3>1
      <4>1. r.rev <= rev[r.order] /\ Faithful(r)
        BY <3>1, <3>2 DEF ShotFollows
      <4>2. r.rev <= rev'[r.order] /\ Faithful(r)'
        BY <2>1, <4>1, FaithfulKept
      <4> QED BY <2>2, <3>2, <4>2 DEF Faithful, Changing
    <3> QED BY <2>2, <3>1, <3>3 DEF ShotFollows
  <2> QED BY <2>2, <2>3, <2>4, <2>5 DEF WriterFollows
<1>2. ASSUME NEW w \in Writers, Open' => Open,
             UNCHANGED <<key, leaves, state, rev>>,
             \A o \in Orders : Changing(o)' <=> Changing(o),
             \A v \in Writers \ {w} : UNCHANGED <<job[v], shots[v], mode[v], dbKey[v]>>,
             \A o \in Orders, v \in Writers \ {w} : writtenBy'[o] \subseteq {v} =>
                             writtenBy[o] \subseteq {v} /\ written'[o] = written[o],
             WriterFollows(w)'
      PROVE  ShotsFollowJob'
  <2> SUFFICES ASSUME NEW v \in Writers, v # w PROVE WriterFollows(v)'
    BY <1>2 DEF ShotsFollowJob
  <2> QED BY <1>2, WriterKept
<1>3. ASSUME NEW w \in Writers,
             \/ w \in Threads /\ SaveOrder(w)
             \/ w \in Repositories /\ Take(w)
      PROVE  ShotsFollowJob'
  <2>1. /\ UNCHANGED <<phase, memVars, callVars, shots, dbKey, storeVars>> /\ job[w] = << >>
    BY <1>3 DEF SaveOrder, Take
  <2>4. \A o \in Orders : Changing(o)' <=> Changing(o)
    BY <2>1 DEF Changing
  <2>2. \A v \in Writers \ {w} : UNCHANGED <<job[v], mode[v]>>
    BY <1>3 DEF SaveOrder, SaveAsync, Take, PipelineTyped
  <2>3. WriterFollows(w)'
    BY <1>0, <2>1, NothingSerialised, WriterAtStart
  <2> HIDE DEF Typed
  <2> QED BY <1>2, <2>1, <2>2, <2>3, <2>4 DEF Open
<1>4. ASSUME NEW w \in Writers, Serialise(w) PROVE ShotsFollowJob'
  <2>1. PICK n, o, r :
          /\ n = Len(shots[w]) /\ o = job[w][n + 1]
          /\ r = [order |-> o, at |-> dbKey[w], key |-> key[o], leaves |-> leaves[o], rev |-> rev[o],
                  state |-> None]
    OBVIOUS
  <2>2. /\ n \in Nat /\ n + 1 \in 1..Together(w) /\ n + 1 \in 1..Len(job[w])
        /\ o \in Orders /\ shots' = [shots EXCEPT ![w] = Append(@, r)]
        /\ Len(Append(shots[w], r)) = n + 1
        /\ \A i \in 1..n : Append(shots[w], r)[i] = shots[w][i]
        /\ Append(shots[w], r)[n + 1] = r
    BY <1>4, <2>1, SerialiseIs
  <2>3. /\ UNCHANGED <<phase, memVars, callVars, job, mode, storeVars>> /\ ~Torn(w)
        /\ dbKey' = [dbKey EXCEPT ![w] = None]
    <3>1. dbKey[w] # None
      BY <1>4 DEF Serialise
    <3> QED BY <1>4, <3>1, JobFacts DEF Serialise
  <2>6. \A o1 \in Orders : Changing(o1)' <=> Changing(o1)
    BY <2>3 DEF Changing
  <2>4. WriterFollows(w)'
    <3>1. WriterFollows(w) /\ Together(w)' = Together(w)
      BY <2>3 DEF ShotsFollowJob, Together
    <3>2. \A x : Faithful(x)' <=> Faithful(x)
      BY <2>3 DEF Faithful, Changing
    <3>3. PICK s : s = Append(shots[w], r)
      OBVIOUS
    <3>4. shots'[w] = s /\ Len(s) = n + 1 /\ s[n + 1] = r /\ \A i \in 1..n : s[i] = shots[w][i]
      BY <2>2, <3>3 DEF PipelineTyped
    <3>5. \A i \in 1..n : ShotFollows(w, i) /\ shots[w][i].state # None
      <4> TAKE i \in 1..n
      <4>1. ShotFollows(w, i)
        BY <2>1, <3>1 DEF WriterFollows
      <4>2. shots[w] # << >> /\ Last(shots[w]) = shots[w][n]
        BY <2>1, <2>2 DEF Last
      <4>3. shots[w][n].state # None
        BY <2>3, <4>2 DEF Torn
      <4> QED BY <2>1, <2>2, <4>1, <4>3 DEF ShotFollows
    <3>6. ASSUME NEW i \in 1..n PROVE ShotFollows(w, i)'
      <4>1. \A j \in 1..i : s[j] = shots[w][j]
        BY <2>2, <3>4
      <4>2. s[i] = shots[w][i] /\ ShotFollows(w, i) /\ s[i].state # None
        BY <3>4, <3>5
      <4>3. Open => Faithful(s[i])
        BY <4>2 DEF ShotFollows
      <4>4. \A j \in 1..i : job[w][j] = job[w][i] => s[j].rev <= s[i].rev
        BY <4>1, <4>2 DEF ShotFollows
      <4>5. /\ s[i].order = job[w][i] /\ s[i].rev <= rev[job[w][i]]
            /\ writtenBy[job[w][i]] \subseteq {w} => written[job[w][i]] <= s[i].rev
        BY <4>2 DEF ShotFollows
      <4>6. Open' => Open
        BY <2>3 DEF Open
      <4> QED BY <2>3, <3>2, <3>4, <4>2, <4>3, <4>4, <4>5, <4>6 DEF ShotFollows
    <3>7. ShotFollows(w, n + 1)'
      <4>1. Faithful(r)
        BY <2>1 DEF Faithful
      <4>2. written[o] <= rev[o] /\ rev[o] \in Nat
        BY <2>2 DEF StoreIsPast, MemoryTyped
      <4>3. \A j \in 1..n : job[w][j] = o => s[j].rev <= r.rev
        BY <2>1, <3>4, <3>5 DEF ShotFollows
      <4>4. \A j \in 1..(n + 1) : job[w][j] = o => s[j].rev <= r.rev
        <5>1. \A j \in 1..(n + 1) : j \in 1..n \/ j = n + 1
          BY <2>2
        <5>2. r.rev <= r.rev
          BY <2>1, <4>2
        <5> QED BY <3>4, <4>3, <5>1, <5>2
      <4>5. r.order = o /\ r.rev = rev[o]
        BY <2>1
      <4>6. rev[o] <= rev[o] /\ ~(n + 1 < n + 1)
        BY <2>2, <4>2
      <4> QED BY <2>1, <2>3, <3>2, <3>4, <4>1, <4>2, <4>4, <4>5, <4>6 DEF ShotFollows
    <3>8. \A i \in 1..(n + 1) : i \in 1..n \/ i = n + 1
      BY <2>2
    <3>9. n + 1 <= Together(w)
      BY <2>2
    <3>10. ASSUME NEW i \in 1..(n + 1) PROVE ShotFollows(w, i)'
      <4>1. CASE i \in 1..n
        BY <3>6, <4>1
      <4>2. CASE i = n + 1
        BY <3>7, <4>2
      <4> QED BY <3>8, <4>1, <4>2
    <3>11. dbKey'[w] = None
      BY <2>3 DEF PipelineTyped
    <3> QED BY <3>1, <3>4, <3>9, <3>10, <3>11 DEF WriterFollows
  <2>5. \A v \in Writers \ {w} : UNCHANGED <<job[v], shots[v], mode[v], dbKey[v]>>
    BY <2>2, <2>3 DEF PipelineTyped
  <2> HIDE DEF Typed
  <2> QED BY <1>2, <2>3, <2>4, <2>5, <2>6 DEF Open
<1>5. ASSUME NEW w \in Writers, SerialiseState(w) PROVE ShotsFollowJob'
  <2>1. PICK n, r, s :
          /\ n = Len(shots[w])
          /\ r = [shots[w][n] EXCEPT !.state = state[shots[w][n].order]]
          /\ s = [shots[w] EXCEPT ![n] = r]
    OBVIOUS
  <2>2. /\ n \in Nat \ {0} /\ shots[w][n] \in Record /\ shots' = [shots EXCEPT ![w] = s]
        /\ Len(s) = n /\ \A i \in 1..n : s[i] = IF i = n THEN r ELSE shots[w][i]
    BY <1>5, <2>1, SerialiseStateIs
  <2>3. UNCHANGED <<phase, memVars, callVars, job, mode, dbKey, storeVars>> /\ Open /\ Torn(w)
    BY <1>5 DEF SerialiseState
  <2>6. dbKey[w] = None
    BY <2>3, JobFacts
  <2>7. \A o \in Orders : Changing(o)' <=> Changing(o)
    BY <2>3 DEF Changing
  <2>4. WriterFollows(w)'
    <3>1. WriterFollows(w) /\ Together(w)' = Together(w)
      BY <2>3 DEF ShotsFollowJob, Together
    <3>2. \A x : Faithful(x)' <=> Faithful(x)
      BY <2>3 DEF Faithful, Changing
    <3>3. shots'[w] = s
      BY <2>2 DEF PipelineTyped
    <3>4. /\ r.order = shots[w][n].order /\ r.key = shots[w][n].key
          /\ r.leaves = shots[w][n].leaves /\ r.rev = shots[w][n].rev
          /\ r.state = state[r.order]
      BY <2>1, <2>2 DEF Record
    <3>5. \A i \in 1..n : ShotFollows(w, i)
      BY <2>1, <3>1 DEF WriterFollows
    <3>6. \A i \in 1..n : s[i].order = shots[w][i].order /\ s[i].rev = shots[w][i].rev
      BY <2>2, <3>4
    <3>7. Faithful(r)
      <4>1. Faithful(shots[w][n])
        BY <2>2, <2>3, <3>5 DEF ShotFollows
      <4> QED BY <3>4, <4>1 DEF Faithful
    <3>8. ASSUME NEW i \in 1..n PROVE ShotFollows(w, i)'
      <4>1. Faithful(s[i]) /\ (i < n => s[i].state # None)
        <5>1. CASE i = n
          BY <2>2, <3>7, <5>1
        <5>2. CASE i # n
          BY <2>1, <2>2, <2>3, <3>5, <5>2 DEF ShotFollows
        <5> QED BY <5>1, <5>2
      <4>2. \A j \in 1..i : j \in 1..n
        BY <2>2
      <4>3. ShotFollows(w, i)
        BY <3>5
      <4> QED BY <2>2, <2>3, <3>2, <3>3, <3>6, <4>1, <4>2, <4>3 DEF ShotFollows
    <3> QED BY <2>1, <2>2, <2>3, <2>6, <3>1, <3>3, <3>8 DEF WriterFollows
  <2>5. \A v \in Writers \ {w} : UNCHANGED <<job[v], shots[v], mode[v], dbKey[v]>>
    BY <2>2, <2>3 DEF PipelineTyped
  <2> HIDE DEF Typed
  <2> QED BY <1>2, <2>3, <2>4, <2>5, <2>7 DEF Open
<1>6. ASSUME NEW w \in Writers, Write(w) PROVE ShotsFollowJob'
  <2>1. /\ UNCHANGED <<phase, memVars, callVars, mode, dbKey>> /\ shots' = [shots EXCEPT ![w] = << >>]
        /\ Serialised(w) /\ \E x : job' = [job EXCEPT ![w] = x]
    BY <1>6 DEF Write
  <2>5. \A o \in Orders : Changing(o)' <=> Changing(o)
    BY <2>1 DEF Changing
  <2>6. dbKey'[w] = None /\ shots'[w] = << >>
    BY <2>1, NoKeyHeld DEF PipelineTyped
  <2>2. WriterFollows(w)'
    BY <1>0, <2>6, WriterAtStart
  <2>3. \A v \in Writers \ {w} : UNCHANGED <<job[v], shots[v], mode[v], dbKey[v]>>
    BY <2>1 DEF PipelineTyped
  <2>4. ASSUME NEW o \in Orders, NEW v \in Writers \ {w}, writtenBy'[o] \subseteq {v}
        PROVE  writtenBy[o] \subseteq {v} /\ written'[o] = written[o]
    <3>1. /\ written'[o] = Newest(w, o)
          /\ writtenBy'[o] = IF InBatch(w, o) THEN writtenBy[o] \union {w} ELSE writtenBy[o]
      BY <1>6, WriteIs
    <3>2. w # v
      OBVIOUS
    <3>3. ~InBatch(w, o) /\ writtenBy'[o] = writtenBy[o]
      BY <2>4, <3>1, <3>2
    <3> QED BY <2>4, <3>1, <3>3, NewestIs DEF InBatch
  <2> HIDE DEF Typed
  <2> QED BY <1>2, <2>1, <2>2, <2>3, <2>4, <2>5 DEF Open
<1>7. ASSUME NEW w \in Writers, w \in Repositories, WriteFails(w) PROVE ShotsFollowJob'
  <2>1. /\ UNCHANGED <<phase, memVars, callVars, dbKey, storeVars>>
        /\ shots' = [shots EXCEPT ![w] = << >>] /\ Serialised(w)
    BY <1>7 DEF WriteFails
  <2>5. \A o \in Orders : Changing(o)' <=> Changing(o)
    BY <2>1 DEF Changing
  <2>6. dbKey'[w] = None /\ shots'[w] = << >>
    BY <2>1, NoKeyHeld DEF PipelineTyped
  <2>2. WriterFollows(w)'
    BY <1>0, <2>6, WriterAtStart
  <2>3. \A v \in Writers \ {w} : UNCHANGED <<job[v], shots[v], mode[v], dbKey[v]>>
    BY <1>7, <2>1 DEF PipelineTyped, WriteFails, AfterFailure
  <2> HIDE DEF Typed
  <2> QED BY <1>2, <2>1, <2>2, <2>3, <2>5 DEF Open
<1>10. ASSUME NEW w \in Writers, BuildKey(w) PROVE ShotsFollowJob'
  <2>1. /\ UNCHANGED <<phase, memVars, callVars, job, mode, shots, storeVars>> /\ ~Torn(w)
        /\ Len(shots[w]) < Together(w) /\ \E x : dbKey' = [dbKey EXCEPT ![w] = x]
    BY <1>10 DEF BuildKey
  <2>2. \A o \in Orders : Changing(o)' <=> Changing(o)
    BY <2>1 DEF Changing
  <2>3. WriterFollows(w)'
    <3>1. /\ \A i \in 1..Len(shots'[w]) : ShotFollows(w, i)'
          /\ Together(w)' = Together(w) /\ Torn(w)' = Torn(w)
          /\ Len(shots'[w]) <= Together(w)'
      <4> HIDE DEF Typed
      <4> QED BY <2>1, <2>2, ShotsKept DEF Typed, Open
    <3> QED BY <2>1, <3>1 DEF WriterFollows
  <2>4. \A v \in Writers \ {w} : UNCHANGED <<job[v], shots[v], mode[v], dbKey[v]>>
    BY <2>1 DEF PipelineTyped
  <2> HIDE DEF Typed
  <2> QED BY <1>2, <2>1, <2>2, <2>3, <2>4 DEF Open
<1>11. ASSUME NEW t \in Threads, Throws(t) PROVE ShotsFollowJob'
  <2>1. /\ UNCHANGED <<phase, memVars, hit, mode, dbKey, storeVars>> /\ hit[t] = None
        /\ incoming' = [incoming EXCEPT ![t] = None]
    BY <1>11, ThrowsIs
  <2>2. \A o \in Orders : Changing(o)' <=> Changing(o)
    BY <2>1 DEF Changing, MemoryTyped
  <2>3. \/ UNCHANGED <<job, shots>>
        \/ /\ Serialised(t) /\ shots' = [shots EXCEPT ![t] = << >>]
           /\ job' = [job EXCEPT ![t] = << >>]
    BY <1>11, Zenon DEF Throws, SaveThrows, TradeSaveThrows
  <2>4. \A v \in Writers \ {t} : UNCHANGED <<job[v], shots[v], mode[v], dbKey[v]>>
    BY <2>1, <2>3 DEF PipelineTyped
  <2>5. WriterFollows(t)'
    <3>1. CASE UNCHANGED <<job, shots>>
      <4> HIDE DEF Typed
      <4> QED BY <1>0, <2>1, <2>2, <3>1, WriterKept DEF Typed, Open
    <3>2. CASE Serialised(t) /\ shots' = [shots EXCEPT ![t] = << >>]
      <4>1. shots'[t] = << >> /\ dbKey'[t] = None
        BY <1>0, <2>1, <3>2, NoKeyHeld DEF PipelineTyped
      <4> QED BY <1>0, <4>1, WriterAtStart
    <3> QED BY <2>3, <3>1, <3>2
  <2>6. t \in Writers
    BY <1>0
  <2>7. \A o \in Orders, v \in Writers \ {t} : writtenBy'[o] \subseteq {v} =>
                             writtenBy[o] \subseteq {v} /\ written'[o] = written[o]
    BY <2>1
  <2>8. UNCHANGED <<key, leaves, state, rev>> /\ (Open' => Open)
    BY <2>1 DEF Open
  <2> HIDE DEF Typed
  <2> QED BY <1>2, <2>2, <2>4, <2>5, <2>6, <2>7, <2>8
<1>8. ASSUME \/ \E t \in Threads : SaveTrade(t) \/ Unbook(t)
             \/ TakeTrade \/ TradeFails
             \/ \E w \in TradeWriters : WriteTrade(w)
             \/ Shutdown \/ Close
      PROVE  ShotsFollowJob'
  <2>1. UNCHANGED <<key, leaves, state, rev, callVars, pipeVars, storeVars>> /\ Open
    BY <1>8 DEF SaveTrade, Unbook, TakeTrade, TradeFails, WriteTrade, Shutdown, Close, Ends, Open, Up
  <2>2. \A o \in Orders : Changing(o)' <=> Changing(o)
    BY <2>1 DEF Changing
  <2> SUFFICES ASSUME NEW v \in Writers PROVE WriterFollows(v)'
    BY DEF ShotsFollowJob
  <2> HIDE DEF Typed
  <2> QED BY <2>1, <2>2, WriterKept DEF Typed
<1>9. ASSUME Crash PROVE ShotsFollowJob'
  <2> SUFFICES ASSUME NEW v \in Writers PROVE WriterFollows(v)'
    BY DEF ShotsFollowJob
  <2>1. shots'[v] = << >> /\ dbKey'[v] = None
    BY <1>9 DEF Crash
  <2> QED BY <1>0, <2>1, WriterAtStart
<1> HIDE DEF Typed
<1> QED BY <1>0, <1>1, <1>3, <1>4, <1>5, <1>6, <1>7, <1>8, <1>9, <1>10, <1>11, NextSteps

-----------------------------------------------------------------------------
(* The store. *)

\* What is stored has happened, after every step.
LEMMA StoreIsPastStep ==
  ASSUME Typed, OnlyPlaced, OneMatcher, OneAtATime, ShotsFollowJob, StoreIsPast, Next
  PROVE  StoreIsPast'
<1> USE DEF Typed
<1>0. \A o \in Orders : rev[o] \in Nat /\ written[o] \in Nat
  BY DEF MemoryTyped, PipelineTyped
<1>1. ASSUME NEW t \in Threads, MemoryAction(t) PROVE StoreIsPast'
  <2>1. MemoryStep(t)
    BY <1>1, MemorySteps
  <2>2. UNCHANGED storeVars /\ Open /\ Open'
    BY <2>1 DEF MemoryStep, Open
  <2>3. \A o \in Orders : rev[o] <= rev'[o] /\ rev'[o] \in Nat
    <3> TAKE o \in Orders
    <3>1. rev'[o] = rev[o] \/ rev'[o] = rev[o] + 1
      BY <2>1 DEF MemoryStep, Kept, Changed
    <3> QED BY <1>0, <3>1
  <2>4. \A o \in Orders : written'[o] <= rev'[o]
    BY <1>0, <2>2, <2>3 DEF StoreIsPast
  <2>5. ASSUME NEW k \in Keys, store[k] # None
        PROVE  store[k].rev <= rev'[store[k].order] /\ Faithful(store[k])'
    <3>1. PICK r \in Record : r = store[k]
      BY <2>5 DEF PipelineTyped
    <3>2. r.rev <= rev[r.order] /\ Faithful(r)
      BY <2>2, <2>5, <3>1 DEF StoreIsPast
    <3>3. r.rev <= rev'[r.order] /\ Faithful(r)'
      BY <2>1, <3>2, FaithfulKept
    <3> QED BY <2>2, <3>1, <3>3 DEF Faithful, Changing
  <2> QED BY <2>2, <2>4, <2>5 DEF StoreIsPast
<1>2. ASSUME NEW w \in Writers, Write(w) PROVE StoreIsPast'
  <2>1. UNCHANGED <<phase, memVars, callVars>> /\ Open
    BY <1>2 DEF Write
  <2>2. \A x : Faithful(x)' <=> Faithful(x)
    BY <2>1 DEF Faithful, Changing
  <2>3. \A i \in 1..Len(shots[w]) :
          /\ shots[w][i] \in Record /\ shots[w][i].state # None
          /\ shots[w][i].rev <= rev[shots[w][i].order] /\ Faithful(shots[w][i])
    <3> TAKE i \in 1..Len(shots[w])
    <3>1. ShotFollows(w, i)
      BY DEF ShotsFollowJob, WriterFollows
    <3> QED BY <1>2, <2>1, <3>1, JobFacts, WriteIs DEF ShotFollows
  <2>4. ASSUME NEW o \in Orders
        PROVE  written'[o] <= rev[o] /\ (writtenBy'[o] = {} => written'[o] = 0)
    <3>1. /\ written'[o] = Newest(w, o)
          /\ writtenBy'[o] = IF InBatch(w, o) THEN writtenBy[o] \union {w} ELSE writtenBy[o]
      BY <1>2, WriteIs
    <3>2. \/ Newest(w, o) = written[o]
          \/ \E i \in 1..Len(shots[w]) : shots[w][i].order = o /\ Newest(w, o) = shots[w][i].rev
      BY NewestIs
    <3>3. written[o] <= rev[o] /\ (writtenBy[o] = {} => written[o] = 0)
      BY DEF StoreIsPast
    <3> QED BY <2>3, <3>1, <3>2, <3>3 DEF InBatch
  <2>5. ASSUME NEW k \in Keys, store'[k] # None
        PROVE  /\ store'[k].state # None
               /\ store'[k].rev <= rev[store'[k].order] /\ Faithful(store'[k])
    <3>1. store'[k] = Stored(w, k)
      BY <1>2, WriteIs
    <3>2. CASE store'[k] = store[k]
      BY <2>1, <2>5, <3>2 DEF StoreIsPast
    <3>3. CASE \E m \in 1..Len(shots[w]) : store'[k] = shots[w][m]
      BY <2>3, <3>3
    <3>4. Stored(w, k) = store[k] \/ \E m \in 1..Len(shots[w]) : Stored(w, k) = shots[w][m]
      BY StoredIs
    <3> QED BY <3>1, <3>2, <3>3, <3>4
  <2>6. ASSUME NEW k \in Keys, store'[k] # None PROVE Faithful(store[k])'
    <3>1. PICK r : r = store'[k]
      OBVIOUS
    <3>2. Faithful(r)'
      BY <2>2, <2>5, <2>6, <3>1
    <3> QED BY <3>1, <3>2 DEF Faithful
  <2> QED BY <2>1, <2>4, <2>5, <2>6 DEF StoreIsPast
<1>3. ASSUME \/ \E t \in Threads : SaveOrder(t) \/ SaveTrade(t) \/ Unbook(t)
             \/ \E w \in Writers : BuildKey(w) \/ Serialise(w) \/ SerialiseState(w)
             \/ \E r \in Repositories : Take(r) \/ WriteFails(r)
             \/ TakeTrade \/ TradeFails
             \/ \E w \in TradeWriters : WriteTrade(w)
             \/ Shutdown \/ Close
      PROVE  StoreIsPast'
  <2>1. UNCHANGED <<key, leaves, state, rev, callVars, storeVars>> /\ Open
    BY <1>3 DEF SaveOrder, SaveTrade, Unbook, BuildKey, Serialise, SerialiseState, WriteFails, Take,
                TakeTrade, TradeFails, WriteTrade, Shutdown, Close, Ends, Open, Up
  <2>2. \A x : Faithful(x)' <=> Faithful(x)
    BY <2>1 DEF Faithful, Changing
  <2> QED BY <2>1, <2>2 DEF StoreIsPast, Faithful, Changing
<1>4. ASSUME Crash PROVE StoreIsPast'
  <2>1. UNCHANGED <<rev, storeVars>> /\ ~Open'
    BY <1>4 DEF Crash, Open
  <2> QED BY <2>1 DEF StoreIsPast
<1>5. ASSUME NEW t \in Threads, Throws(t) PROVE StoreIsPast'
  <2>1. /\ UNCHANGED <<phase, memVars, hit, storeVars>> /\ hit[t] = None /\ Open
        /\ incoming' = [incoming EXCEPT ![t] = None]
    BY <1>5, ThrowsIs
  <2>2. \A o \in Orders : Changing(o)' <=> Changing(o)
    BY <2>1 DEF Changing, MemoryTyped
  <2>3. \A k \in Keys : store[k] # None => store[k].order \in Orders
    BY DEF PipelineTyped, Record
  <2> QED BY <2>1, <2>2, <2>3 DEF StoreIsPast, Faithful
<1> HIDE DEF Typed
<1> QED BY <1>1, <1>2, <1>3, <1>4, <1>5, NextSteps

\* Of what only one thread has written the store holds the newest, after every step.
LEMMA LoneWriterStep ==
  ASSUME Typed, OnlyPlaced, OneMatcher, OneAtATime, ShotsFollowJob, StoreIsPast,
         LoneWriterIsNewest, Next
  PROVE  LoneWriterIsNewest'
<1> USE DEF Typed
<1>0. /\ \A o \in Orders : rev[o] \in Nat /\ written[o] \in Nat
      /\ None \notin Record
  BY WriteBehindAssumption DEF MemoryTyped, PipelineTyped
<1>1. ASSUME NEW t \in Threads, MemoryAction(t) PROVE LoneWriterIsNewest'
  <2>1. MemoryStep(t)
    BY <1>1, MemorySteps
  <2>2. UNCHANGED storeVars /\ Open
    BY <2>1 DEF MemoryStep
  <2>3. ASSUME NEW o \in Orders, NEW w \in Writers, writtenBy[o] = {w}, written[o] = rev'[o]
        PROVE  store[key'[o]] # None /\ (store[key'[o]].order = o => store[key'[o]].rev = rev'[o])
    <3>1. written[o] <= rev[o]
      BY DEF StoreIsPast
    <3>2. ~Changed(t, o)
      BY <1>0, <2>3, <3>1 DEF Changed
    <3>3. rev'[o] = rev[o] /\ key'[o] = key[o]
      BY <2>1, <3>2 DEF MemoryStep, Kept
    <3> QED BY <2>2, <2>3, <3>3 DEF LoneWriterIsNewest
  <2> QED BY <2>2, <2>3 DEF LoneWriterIsNewest
<1>2. ASSUME NEW w \in Writers, Write(w) PROVE LoneWriterIsNewest'
  <2>1. UNCHANGED <<phase, key, rev>> /\ Open
    BY <1>2 DEF Write
  <2> SUFFICES ASSUME NEW o \in Orders, NEW v \in Writers,
                      writtenBy'[o] = {v}, written'[o] = rev[o]
               PROVE  /\ store'[key[o]] # None
                      /\ store'[key[o]].order = o => store'[key[o]].rev = rev[o]
    BY <2>1 DEF LoneWriterIsNewest
  <2>2. /\ Newest(w, o) = rev[o]
        /\ writtenBy'[o] = IF InBatch(w, o) THEN writtenBy[o] \union {w} ELSE writtenBy[o]
    <3>1. /\ written'[o] = Newest(w, o)
          /\ writtenBy'[o] = IF InBatch(w, o) THEN writtenBy[o] \union {w} ELSE writtenBy[o]
      BY <1>2, WriteIs
    <3> QED BY <3>1
  <2>3. \A i \in 1..Len(shots[w]) :
          ShotFollows(w, i) /\ shots[w][i] \in Record /\ shots[w][i].order = job[w][i]
    BY JobFacts DEF ShotsFollowJob, WriterFollows, ShotFollows
  <2>4. CASE InBatch(w, o)
    <3>1. writtenBy[o] \subseteq {w}
      <4>1. writtenBy'[o] = writtenBy[o] \union {w}
        BY <2>2, <2>4
      <4>2. writtenBy[o] \union {w} = {v}
        BY <4>1
      <4> QED BY <4>2
    <3>2. key[o] \in Keys /\ rev[o] > 0
      <4>1. PICK i \in 1..Len(shots[w]) : shots[w][i].order = o
        BY <2>4 DEF InBatch
      <4>2. job[w][i] = o /\ i \in 1..Len(job[w])
        BY <2>3, <4>1, JobFacts
      <4>3. o \in Placed
        BY <4>2 DEF OnlyPlaced
      <4> QED BY <4>3 DEF OnlyPlaced
    <3>3. store'[key[o]] = Stored(w, key[o])
      BY <1>2, <3>2, WriteIs
    <3>4. CASE Newest(w, o) = written[o]
      <4>1. writtenBy[o] = {w} /\ written[o] = rev[o]
        BY <1>0, <2>2, <3>1, <3>2, <3>4 DEF StoreIsPast
      <4>2. store[key[o]] # None /\ (store[key[o]].order = o => store[key[o]].rev = rev[o])
        BY <2>1, <4>1 DEF LoneWriterIsNewest
      <4>3. CASE Stored(w, key[o]) = store[key[o]]
        BY <3>3, <4>2, <4>3
      <4>4. ASSUME NEW m \in 1..Len(shots[w]), Stored(w, key[o]) = shots[w][m]
            PROVE  /\ store'[key[o]] # None
                   /\ store'[key[o]].order = o => store'[key[o]].rev = rev[o]
        <5>1. shots[w][m].order = o => shots[w][m].rev = rev[o]
          <6> SUFFICES ASSUME shots[w][m].order = o PROVE shots[w][m].rev = rev[o]
            OBVIOUS
          <6>1. written[o] <= shots[w][m].rev /\ shots[w][m].rev <= rev[o]
            BY <2>3, <3>1 DEF ShotFollows
          <6>2. shots[w][m].rev \in Nat
            BY <2>3 DEF Record
          <6> QED BY <1>0, <4>1, <6>1, <6>2
        <5> QED BY <1>0, <2>3, <3>3, <4>4, <5>1
      <4>5. Stored(w, key[o]) = store[key[o]]
            \/ \E m \in 1..Len(shots[w]) : Stored(w, key[o]) = shots[w][m]
        BY <3>2, StoredIs
      <4> QED BY <4>3, <4>4, <4>5
    <3>5. ASSUME NEW i \in 1..Len(shots[w]), shots[w][i].order = o,
                 shots[w][i].at = shots[w][i].key, Newest(w, o) = shots[w][i].rev
          PROVE  /\ store'[key[o]] # None
                 /\ store'[key[o]].order = o => store'[key[o]].rev = rev[o]
      <4>1. shots[w][i].rev = rev[o]
        BY <2>2, <3>5
      <4>2. shots[w][i].at = key[o]
        <5>1. Faithful(shots[w][i])
          BY <2>1, <2>3 DEF ShotFollows
        <5> QED BY <3>5, <4>1, <5>1 DEF Faithful
      <4>3. PICK m \in 1..Len(shots[w]) : store'[key[o]] = shots[w][m] /\ i <= m
        BY <3>2, <3>3, <4>2, StoredIs
      <4>4. shots[w][m].order = o => shots[w][m].rev = rev[o]
        <5> SUFFICES ASSUME shots[w][m].order = o PROVE shots[w][m].rev = rev[o]
          OBVIOUS
        <5>1. job[w][m] = o /\ job[w][i] = o /\ i \in 1..m
          BY <2>3, <3>5, <4>3
        <5>2. shots[w][i].rev <= shots[w][m].rev /\ shots[w][m].rev <= rev[o]
          BY <2>3, <5>1 DEF ShotFollows
        <5>3. shots[w][m].rev \in Nat
          BY <2>3 DEF Record
        <5> QED BY <1>0, <4>1, <5>2, <5>3
      <4> QED BY <1>0, <2>3, <4>3, <4>4
    <3> QED BY <3>4, <3>5, NewestIs
  <2>5. CASE ~InBatch(w, o)
    <3>1. writtenBy[o] = {v} /\ written[o] = rev[o]
      BY <2>2, <2>5, NewestIs DEF InBatch
    <3>2. key[o] \in Keys
      <4>1. o \in Placed
        BY <2>1, <3>1 DEF OnlyPlaced
      <4> QED BY <4>1 DEF OnlyPlaced
    <3>3. store[key[o]] # None /\ (store[key[o]].order = o => store[key[o]].rev = rev[o])
      BY <2>1, <3>1 DEF LoneWriterIsNewest
    <3>4. store'[key[o]] = store[key[o]] \/ \E m \in 1..Len(shots[w]) : store'[key[o]] = shots[w][m]
      BY <1>2, <3>2, StoredIs, WriteIs
    <3> QED BY <1>0, <2>3, <2>5, <3>3, <3>4 DEF InBatch
  <2> QED BY <2>4, <2>5
<1>3. ASSUME \/ \E t \in Threads : SaveOrder(t) \/ SaveTrade(t) \/ Unbook(t)
             \/ \E w \in Writers : BuildKey(w) \/ Serialise(w) \/ SerialiseState(w)
             \/ \E r \in Repositories : Take(r) \/ WriteFails(r)
             \/ TakeTrade \/ TradeFails
             \/ \E w \in TradeWriters : WriteTrade(w)
             \/ Shutdown \/ Close
      PROVE  LoneWriterIsNewest'
  <2>1. UNCHANGED <<key, rev, storeVars>> /\ Open
    BY <1>3 DEF SaveOrder, SaveTrade, Unbook, BuildKey, Serialise, SerialiseState, WriteFails, Take,
                TakeTrade, TradeFails, WriteTrade, Shutdown, Close, Ends, Open, Up
  <2> QED BY <2>1 DEF LoneWriterIsNewest
<1>4. ASSUME Crash PROVE LoneWriterIsNewest'
  BY <1>4 DEF Crash, Open, LoneWriterIsNewest
<1>5. ASSUME NEW t \in Threads, Throws(t) PROVE LoneWriterIsNewest'
  <2>1. UNCHANGED <<key, rev, storeVars>> /\ Open
    BY <1>5, ThrowsIs
  <2> QED BY <2>1 DEF LoneWriterIsNewest
<1> HIDE DEF Typed
<1> QED BY <1>1, <1>2, <1>3, <1>4, <1>5, NextSteps

-----------------------------------------------------------------------------
(* Nothing is forgotten. *)

\* A save that is owed is owed still, unless it is the one that is made.
LEMMA OwesTail ==
  ASSUME MemoryTyped, NEW t \in Threads, owed[t] # << >>, owed' = [owed EXCEPT ![t] = Tail(@)],
         NEW s \in Threads, NEW to, NEW x, Owes(s, to, x)
  PROVE  Owes(s, to, x)' \/ (s = t /\ Head(owed[t]) = [to |-> to, what |-> x])
<1>1. \A u \in Threads : owed[u] \in Seq(Saves) /\ Len(owed[u]) \in Nat
  BY DEF MemoryTyped
<1>2. PICK i \in 1..Len(owed[s]) : owed[s][i] = [to |-> to, what |-> x]
  BY <1>1 DEF Owes
<1>3. CASE s # t
  <2>1. owed'[s] = owed[s]
    BY <1>3, OwedTail
  <2> QED BY <1>1, <1>2, <2>1 DEF Owes
<1>4. CASE s = t /\ i = 1
  BY <1>2, <1>4, NextSave
<1>5. CASE s = t /\ i # 1
  <2>1. owed'[t] = Tail(owed[t]) /\ Tail(owed[t]) \in Seq(Saves)
        /\ Len(Tail(owed[t])) = Len(owed[t]) - 1
        /\ \A j \in 1..Len(Tail(owed[t])) : Tail(owed[t])[j] = owed[t][j + 1]
    BY NextSave DEF MemoryTyped
  <2>2. i - 1 \in 1..Len(Tail(owed[t])) /\ (i - 1) + 1 = i
    BY <1>1, <1>2, <1>5, <2>1
  <2>3. owed'[t][i - 1] = [to |-> to, what |-> x] /\ i - 1 \in DOMAIN owed'[t]
    <3>1. DOMAIN Tail(owed[t]) = 1..Len(Tail(owed[t]))
      BY <2>1
    <3>2. Tail(owed[t])[i - 1] = owed[t][i]
      BY <2>1, <2>2
    <3> QED BY <1>2, <1>5, <2>1, <2>2, <3>1, <3>2
  <2> QED BY <1>5, <2>3 DEF Owes
<1> QED BY <1>3, <1>4, <1>5

\* A change of an order that is stored, was lost, or is still to be stored.
LostChange(o) == <<o, rev[o]>> \in refused \union skipped
Accounted(o) == Saved(o) \/ LostChange(o)
TradeAccounted(n) == n \in tradeStore \union lostTrades \/ TradeScheduled(n)

\* The elements of a sequence.
LEMMA ElementIs == ASSUME NEW S, NEW s \in Seq(S), NEW i \in 1..Len(s) PROVE s[i] \in Range(s)
BY RangeEquality

\* What is in a queue.
LEMMA QueuedIs ==
  ASSUME PipelineTyped, NEW r \in Repositories, NEW o
  PROVE  o \in Range(queue[r]) <=> \E i \in 1..Len(queue[r]) : queue[r][i] = o
<1>1. queue[r] \in Seq(Orders)
  BY DEF PipelineTyped
<1> QED BY <1>1, RangeEquality

\* The threads have a change saved in the call that makes it.
LEMMA AccountedMemory ==
  ASSUME MemoryTyped, NEW t \in Threads, MemoryStep(t), NEW o \in Orders, Accounted(o)
  PROVE  Accounted(o)'
<1>1. UNCHANGED <<queue, job, shots, dbKey, written, refused, skipped>> /\ owed[t] = << >>
      /\ \A s \in Threads : s # t => owed'[s] = owed[s] /\ incoming'[s] = incoming[s]
  BY DEF MemoryStep
<1>2. CASE Changed(t, o)
  BY <1>2 DEF Changed, Accounted, Saved, Scheduled
<1>3. CASE Kept(t, o)
  <2>1. rev'[o] = rev[o] /\ key'[o] = key[o]
    BY <1>3 DEF Kept
  <2>2. CASE written[o] = rev[o] \/ LostChange(o)
    BY <1>1, <2>1, <2>2 DEF Accounted, Saved, LostChange
  <2>3. CASE \E r \in Repositories : o \in Range(queue[r])
    BY <1>1, <2>3 DEF Accounted, Saved, Scheduled
  <2>4. CASE \E w \in Writers : \E i \in DOMAIN job[w] : job[w][i] = o /\ WillShow(w, i, o)
    <3>1. PICK w \in Writers : \E i \in DOMAIN job[w] : job[w][i] = o /\ WillShow(w, i, o)
      BY <2>4
    <3>2. PICK i \in DOMAIN job[w] : job[w][i] = o /\ WillShow(w, i, o)
      BY <3>1
    <3>3. WillShow(w, i, o)'
      BY <1>1, <2>1, <3>2 DEF WillShow
    <3> QED BY <1>1, <3>2, <3>3 DEF Accounted, Saved, Scheduled
  <2>5. CASE \E s \in Threads : incoming[s] = o \/ \E r \in Repositories : Owes(s, r, o)
    <3>1. PICK s \in Threads : incoming[s] = o \/ \E r \in Repositories : Owes(s, r, o)
      BY <2>5
    <3>2. CASE s # t
      <4>1. owed'[s] = owed[s] /\ incoming'[s] = incoming[s]
        BY <1>1, <3>2
      <4>2. \A r : Owes(s, r, o)' <=> Owes(s, r, o)
        BY <4>1 DEF Owes
      <4>3. incoming'[s] = o \/ \E r \in Repositories : Owes(s, r, o)'
        BY <3>1, <4>1, <4>2
      <4> QED BY <4>3 DEF Accounted, Saved, Scheduled
    <3>3. CASE s = t
      <4>1. incoming[t] = o
        <5>1. DOMAIN owed[t] = {}
          BY <1>1
        <5> QED BY <3>1, <3>3, <5>1 DEF Owes
      <4>2. incoming'[t] = o \/ Owes(t, "manager", o)'
        BY <1>3, <4>1 DEF Kept
      <4> QED BY <4>2 DEF Accounted, Saved, Scheduled, Repositories
    <3> QED BY <3>2, <3>3
  <2> QED BY <2>2, <2>3, <2>4, <2>5 DEF Accounted, Saved, Scheduled
<1> QED BY <1>2, <1>3 DEF MemoryStep

\* Every order is accounted for after a step of a repository, if it was before.
LEMMA AccountedPipeline ==
  ASSUME Typed, OnlyPlaced, ShotsFollowJob, StoreIsPast, StoreIsPast', NEW o \in Orders,
         Accounted(o), NEW w \in Writers,
         \/ w \in Threads /\ (SaveOrder(w) \/ SaveTrade(w) \/ Unbook(w))
         \/ w \in Repositories /\ (Take(w) \/ WriteFails(w))
         \/ BuildKey(w) \/ Serialise(w) \/ SerialiseState(w) \/ Write(w)
  PROVE  Accounted(o)'
<1> USE DEF Typed
<1>0. /\ UNCHANGED <<incoming, rev, key, skipped>> /\ refused \subseteq refused'
      /\ \A v \in Writers : job[v] \in Seq(Orders) /\ shots[v] \in Seq(Record)
      /\ \A v \in Writers : Len(job[v]) \in Nat /\ Len(shots[v]) \in Nat
      /\ \A v \in Writers : Len(shots[v]) <= Len(job[v])
      /\ "trades" \notin Repositories /\ "book" \notin Repositories
  <2>1. UNCHANGED <<incoming, rev, key, skipped>> /\ refused \subseteq refused'
    BY DEF SaveOrder, SaveTrade, Unbook, Take, BuildKey, Serialise, SerialiseState, Write,
       WriteFails, AfterFailure
  <2>2. "trades" \notin Repositories /\ "book" \notin Repositories
    BY DEF Repositories
  <2> QED BY <2>1, <2>2, JobFacts
<1>1. Accounted(o)' <=> written'[o] = rev[o] \/ LostChange(o)' \/ Scheduled(o)'
  BY <1>0 DEF Accounted, Saved
<1>8. ASSUME NEW v \in Writers, NEW j \in DOMAIN job'[v], job'[v][j] = o, WillShow(v, j, o)'
      PROVE  Accounted(o)'
  BY <1>1, <1>8 DEF Scheduled
<1>9. ASSUME NEW v \in Writers, NEW j \in DOMAIN job'[v], job'[v][j] = o, j \in Nat \ {0},
             shots'[v] = << >>, dbKey'[v] = None
      PROVE  Accounted(o)'
  <2>1. j > Len(shots'[v]) + 1 \/ j = Len(shots'[v]) + 1
    <3>1. Len(shots'[v]) = 0
      BY <1>9
    <3> QED BY <1>9, <3>1
  <2>2. WillShow(v, j, o)'
    BY <1>9, <2>1 DEF WillShow
  <2> QED BY <1>8, <1>9, <2>2
<1>2. written[o] <= written'[o] /\ written'[o] <= rev[o]
      /\ written[o] \in Nat /\ written'[o] \in Nat /\ rev[o] \in Nat
  <2>1. written'[o] <= rev[o] /\ written[o] \in Nat /\ rev[o] \in Nat
    BY <1>0 DEF StoreIsPast, MemoryTyped, PipelineTyped
  <2>2. CASE Write(w)
    BY <2>1, <2>2, WriteIs, NewestIs
  <2>3. CASE ~Write(w)
    <3>1. written' = written
      BY <2>3 DEF SaveOrder, SaveTrade, Unbook, Take, BuildKey, Serialise, SerialiseState, WriteFails
    <3> QED BY <2>1, <3>1
  <2> QED BY <2>2, <2>3
<1>3. CASE written[o] = rev[o] \/ LostChange(o)
  <2>1. LostChange(o) => LostChange(o)'
    BY <1>0 DEF LostChange
  <2> QED BY <1>1, <1>2, <1>3, <2>1
<1>4. CASE \E t \in Threads : incoming[t] = o
  BY <1>0, <1>1, <1>4 DEF Scheduled
<1>5. CASE \E t \in Threads : \E r \in Repositories : Owes(t, r, o)
  <2>1. PICK t \in Threads, r \in Repositories : Owes(t, r, o)
    BY <1>5
  <2>2. CASE Owes(t, r, o)'
    BY <1>1, <2>2 DEF Scheduled
  <2>3. CASE ~Owes(t, r, o)'
    <3>1. owed' # owed
      BY <2>1, <2>3 DEF Owes
    <3>2. /\ w \in Threads /\ (SaveOrder(w) \/ SaveTrade(w) \/ Unbook(w))
          /\ owed[w] # << >> /\ owed' = [owed EXCEPT ![w] = Tail(@)]
      BY <3>1 DEF SaveOrder, SaveTrade, Unbook, Take, BuildKey, Serialise, SerialiseState, Write,
         WriteFails
    <3>3. t = w /\ Head(owed[w]) = [to |-> r, what |-> o]
      BY <2>1, <2>3, <3>2, OwesTail
    <3>4. /\ SaveOrder(w) /\ SaveAsync(w, r, o) /\ job[w] = << >> /\ shots' = shots
          /\ dbKey' = dbKey
      BY <1>0, <3>2, <3>3 DEF SaveOrder, SaveTrade, Unbook
    <3>5. CASE /\ queue' = [queue EXCEPT ![r] = Append(@, o)]
               /\ Append(queue[r], o) \in Seq(Orders)
               /\ Len(Append(queue[r], o)) = Len(queue[r]) + 1 /\ Len(queue[r]) \in Nat
               /\ Append(queue[r], o)[Len(queue[r]) + 1] = o
      <4>1. o \in Range(Append(queue[r], o))
        <5>1. PICK q \in Seq(Orders) : q = Append(queue[r], o)
          BY <3>5
        <5>2. Len(queue[r]) + 1 \in 1..Len(q) /\ q[Len(queue[r]) + 1] = o
          BY <3>5, <5>1
        <5> QED BY <5>1, <5>2, ElementIs
      <4>2. queue'[r] = Append(queue[r], o)
        BY <3>5 DEF PipelineTyped
      <4> QED BY <1>1, <4>1, <4>2 DEF Scheduled
    <3>6. CASE job' = [job EXCEPT ![w] = <<o>>]
      <4>1. job'[w] = <<o>>
        BY <3>6 DEF PipelineTyped
      <4>2. shots'[w] = << >> /\ dbKey'[w] = None
        BY <3>4, NothingSerialised
      <4>3. 1 \in DOMAIN <<o>> /\ <<o>>[1] = o
        OBVIOUS
      <4>4. 1 \in DOMAIN job'[w] /\ job'[w][1] = o
        BY <4>1, <4>3, Zenon
      <4> QED BY <1>9, <4>2, <4>4
    <3> QED BY <3>2, <3>4, <3>5, <3>6, SaveAsyncIs
  <2> QED BY <2>2, <2>3
<1>6. CASE \E r \in Repositories : o \in Range(queue[r])
  <2>1. PICK r \in Repositories : o \in Range(queue[r])
    BY <1>6
  <2>2. PICK i \in 1..Len(queue[r]) : queue[r][i] = o
    BY <2>1, QueuedIs
  <2>3. CASE queue'[r] = queue[r]
    BY <1>1, <2>1, <2>3 DEF Scheduled
  <2>4. CASE queue'[r] # queue[r] /\ w \in Threads /\ SaveOrder(w)
    <3> DEFINE x == Head(owed[w]).what
    <3>1. /\ Head(owed[w]).to \in Repositories /\ x \in Orders
          /\ SaveAsync(w, Head(owed[w]).to, x)
      BY <2>4, NextSave DEF SaveOrder
    <3> HIDE DEF x
    <3>2. PICK q \in Seq(Orders) : queue' = [queue EXCEPT ![r] = q] /\ q = Append(queue[r], x)
                                  /\ \A j \in 1..Len(queue[r]) : q[j] = queue[r][j]
                                  /\ Len(q) = Len(queue[r]) + 1 /\ Len(queue[r]) \in Nat
      <4>1. PICK y \in Repositories : y = Head(owed[w]).to
        BY <3>1
      <4>2. y = r \/ UNCHANGED queue[r]
        BY <3>1, <4>1 DEF SaveAsync, PipelineTyped
      <4>3. SaveAsync(w, r, x)
        BY <2>4, <3>1, <4>1, <4>2
      <4>4. /\ queue' = [queue EXCEPT ![r] = Append(@, x)]
            /\ Append(queue[r], x) \in Seq(Orders)
            /\ Len(Append(queue[r], x)) = Len(queue[r]) + 1 /\ Len(queue[r]) \in Nat
            /\ \A j \in 1..Len(queue[r]) : Append(queue[r], x)[j] = queue[r][j]
        BY <2>4, <3>1, <4>3, SaveAsyncIs
      <4> QED BY <4>4
    <3>3. i \in 1..Len(q) /\ q[i] = o /\ queue'[r] = q
      BY <2>2, <3>2 DEF PipelineTyped
    <3>4. o \in Range(q)
      BY <3>3, ElementIs
    <3> QED BY <1>1, <3>3, <3>4 DEF Scheduled
  <2>5. CASE queue'[r] # queue[r] /\ w \in Repositories /\ Take(w)
    <3>1. w \in Writers /\ job' = [job EXCEPT ![w] = SubSeq(queue[w], 1, Taken(w))]
          /\ queue' = [queue EXCEPT ![w] = SubSeq(queue[w], Taken(w) + 1, Len(queue[w]))]
          /\ shots' = shots /\ dbKey' = dbKey /\ job[w] = << >> /\ queue[w] # << >>
      BY <2>5 DEF Take
    <3>2. w = r
      BY <2>5, <3>1 DEF PipelineTyped
    <3>3. PICK n, a, b : n = Taken(r) /\ a = SubSeq(queue[r], 1, n)
                         /\ b = SubSeq(queue[r], n + 1, Len(queue[r]))
      OBVIOUS
    <3>4. /\ n \in 1..Len(queue[r]) /\ Len(queue[r]) \in Nat
          /\ a \in Seq(Orders) /\ Len(a) = n /\ \A j \in 1..n : a[j] = queue[r][j]
          /\ b \in Seq(Orders) /\ Len(b) = Len(queue[r]) - n
          /\ \A j \in 1..(Len(queue[r]) - n) : b[j] = queue[r][n + j]
      BY <3>1, <3>2, <3>3, TakeIs
    <3>5. job'[r] = a /\ queue'[r] = b /\ shots'[r] = << >> /\ dbKey'[r] = None
      BY <3>1, <3>2, <3>3, NothingSerialised DEF PipelineTyped
    <3>6. CASE i <= n
      <4>1. i \in DOMAIN job'[r] /\ job'[r][i] = o /\ i \in Nat \ {0}
        BY <2>2, <3>4, <3>5, <3>6
      <4> QED BY <1>9, <3>1, <3>2, <3>5, <4>1
    <3>7. CASE i > n
      <4>1. i - n \in 1..Len(b) /\ n + (i - n) = i
        BY <2>2, <3>4, <3>7
      <4>2. b[i - n] = o
        BY <2>2, <3>4, <4>1
      <4>3. o \in Range(b)
        BY <3>4, <4>1, <4>2, ElementIs
      <4> QED BY <1>1, <3>5, <4>3 DEF Scheduled
    <3>8. i <= n \/ i > n
      BY <3>4
    <3> QED BY <3>6, <3>7, <3>8
  <2>6. CASE \/ SaveTrade(w) \/ Unbook(w) \/ BuildKey(w) \/ Serialise(w) \/ SerialiseState(w)
             \/ Write(w) \/ WriteFails(w)
    <3>1. queue' = queue
      BY <2>6 DEF SaveTrade, Unbook, BuildKey, Serialise, SerialiseState, Write, WriteFails
    <3> QED BY <2>3, <3>1
  <2> QED BY <2>3, <2>4, <2>5, <2>6
<1>7. CASE \E v \in Writers : \E i \in DOMAIN job[v] : job[v][i] = o /\ WillShow(v, i, o)
  <2>1. PICK v \in Writers : \E i \in DOMAIN job[v] : job[v][i] = o /\ WillShow(v, i, o)
    BY <1>7
  <2>2. PICK i \in 1..Len(job[v]) : job[v][i] = o /\ WillShow(v, i, o)
    BY <1>0, <2>1
  <2>3. ASSUME job'[v] = job[v], WillShow(v, i, o)'
        PROVE  Accounted(o)'
    <3>1. i \in DOMAIN job'[v] /\ job'[v][i] = o
      BY <1>0, <2>2, <2>3
    <3> QED BY <1>8, <2>3, <3>1
  <2>0. i \in Nat \ {0} /\ Len(shots[v]) \in Nat /\ Len(job[v]) \in Nat
    BY <1>0, <2>2
  <2>4. CASE v # w \/ (w \in Threads /\ (SaveTrade(w) \/ Unbook(w)))
    <3>1. job'[v] = job[v] /\ shots'[v] = shots[v] /\ dbKey'[v] = dbKey[v]
      BY <2>4 DEF SaveOrder, SaveAsync, SaveTrade, Unbook, Take, BuildKey, Serialise,
         SerialiseState, Write, WriteFails, AfterFailure, PipelineTyped
    <3>2. WillShow(v, i, o)'
      BY <1>0, <2>2, <3>1 DEF WillShow
    <3> QED BY <2>3, <3>1, <3>2
  <2>5. CASE v = w /\ (SaveOrder(w) \/ Take(w))
    <3>1. job[v] = << >>
      BY <2>5 DEF SaveOrder, Take
    <3> QED BY <2>2, <3>1
  <2>10. CASE v = w /\ BuildKey(w)
    <3>1. dbKey'[v] = key[job[v][Len(shots[v]) + 1]] /\ UNCHANGED <<job, shots>>
      BY <2>10 DEF BuildKey, NextOf, PipelineTyped
    <3>2. WillShow(v, i, o)'
      BY <1>0, <2>2, <3>1 DEF WillShow
    <3> QED BY <2>3, <3>1, <3>2
  <2>6. CASE v = w /\ Serialise(w)
    <3>1. PICK n, x, r : /\ n = Len(shots[w]) /\ x = job[w][n + 1]
                         /\ r = [order |-> x, at |-> dbKey[w], key |-> key[x], leaves |-> leaves[x],
                                 rev |-> rev[x], state |-> None]
      OBVIOUS
    <3>2. PICK s \in Seq(Record) : /\ s = Append(shots[w], r) /\ Len(s) = n + 1 /\ s[n + 1] = r
                                  /\ \A j \in 1..n : s[j] = shots[w][j]
      BY <2>6, <3>1, SerialiseIs
    <3>3. shots'[v] = s /\ job'[v] = job[v] /\ dbKey'[v] = None /\ dbKey[v] # None
      BY <2>6, <3>1, <3>2, SerialiseIs DEF PipelineTyped, Serialise
    <3>4. WillShow(v, i, o)'
      <4>1. n \in Nat /\ (i > n + 2 \/ i = n + 2 \/ i = n + 1 \/ i \in 1..n)
        <5>1. \A l \in Nat, h \in Nat \ {0} : h > l + 2 \/ h = l + 2 \/ h = l + 1 \/ h \in 1..l
          OBVIOUS
        <5>2. n \in Nat
          BY <2>0, <2>6, <3>1, Zenon
        <5> QED BY <2>0, <5>1, <5>2, Zenon
      <4>2. CASE i > n + 2
        <5>1. i > Len(shots'[v]) + 1
          BY <3>2, <3>3, <4>1, <4>2
        <5> QED BY <5>1 DEF WillShow
      <4>5. CASE i = n + 2
        <5>1. i = Len(shots'[v]) + 1
          BY <3>2, <3>3, <4>1, <4>5
        <5> QED BY <3>3, <5>1 DEF WillShow
      <4>3. CASE i = n + 1
        <5>1. dbKey[v] = key[o]
          <6>1. i = Len(shots[v]) + 1 /\ ~(i > Len(shots[v]) + 1) /\ ~(i <= Len(shots[v]))
            BY <2>0, <2>6, <3>1, <4>1, <4>3
          <6> QED BY <2>2, <3>3, <6>1 DEF WillShow
        <5>2. x = o
          BY <2>2, <2>6, <3>1, <4>3
        <5>3. s[i].rev = rev[o] /\ s[i].at = key[o]
          BY <2>6, <3>1, <3>2, <4>3, <5>1, <5>2
        <5>4. i <= Len(shots'[v]) /\ shots'[v][i] = s[i]
          BY <3>2, <3>3, <4>1, <4>3
        <5> QED BY <1>0, <5>3, <5>4 DEF WillShow
      <4>4. CASE i \in 1..n
        <5>1. ~(i > n + 1) /\ i # n + 1
          BY <4>1, <4>4
        <5>2. shots[v][i].rev = rev[o] /\ shots[v][i].at = key[o]
          BY <2>2, <2>6, <3>1, <5>1 DEF WillShow
        <5>3. i <= Len(shots'[v]) /\ shots'[v][i] = shots[v][i]
          BY <2>6, <3>2, <3>3, <4>1, <4>4
        <5> QED BY <1>0, <5>2, <5>3 DEF WillShow
      <4> QED BY <4>1, <4>2, <4>3, <4>4, <4>5
    <3> QED BY <2>3, <3>3, <3>4
  <2>7. CASE v = w /\ SerialiseState(w)
    <3>1. PICK n, r, s : /\ n = Len(shots[w])
                         /\ r = [shots[w][n] EXCEPT !.state = state[shots[w][n].order]]
                         /\ s = [shots[w] EXCEPT ![n] = r]
      OBVIOUS
    <3>2. /\ n \in Nat \ {0} /\ shots[w][n] \in Record /\ shots' = [shots EXCEPT ![w] = s]
          /\ Len(s) = n /\ \A j \in 1..n : s[j] = IF j = n THEN r ELSE shots[w][j]
      BY <2>7, <3>1, SerialiseStateIs
    <3>3. r.rev = shots[w][n].rev /\ r.at = shots[w][n].at
      BY <3>1, <3>2 DEF Record
    <3>4. shots'[v] = s /\ job'[v] = job[v] /\ dbKey'[v] = dbKey[v]
      BY <2>7, <3>2 DEF PipelineTyped, SerialiseState
    <3>5. Len(shots'[v]) = Len(shots[v])
      BY <2>7, <3>1, <3>2, <3>4
    <3>6. i \in 1..n => shots'[v][i].rev = shots[v][i].rev /\ shots'[v][i].at = shots[v][i].at
      BY <2>7, <3>2, <3>3, <3>4
    <3>7. i <= Len(shots[v]) => i \in 1..n
      BY <2>0, <2>7, <3>1
    <3>8. WillShow(v, i, o)'
      BY <1>0, <2>2, <3>4, <3>5, <3>6, <3>7 DEF WillShow
    <3> QED BY <2>3, <3>4, <3>8
  <2>8. CASE v = w /\ Write(w)
    <3>1. CASE i > Len(shots[w])
      <4>1. PICK rest : rest = SubSeq(job[w], Len(shots[w]) + 1, Len(job[w]))
        OBVIOUS
      <4>2. /\ rest \in Seq(Orders) /\ Len(rest) = Len(job[w]) - Len(shots[w])
            /\ \A j \in 1..Len(rest) : rest[j] = job[w][Len(shots[w]) + j]
        BY <4>1, RestOfJob
      <4>3. job'[w] = rest /\ shots'[w] = << >> /\ dbKey' = dbKey /\ Serialised(w)
        BY <2>8, <4>1 DEF Write, PipelineTyped
      <4>8. dbKey'[w] = None
        BY <4>3, NoKeyHeld
      <4>4. PICK j \in Nat \ {0} : j = i - Len(shots[w])
        BY <1>0, <2>2, <3>1
      <4>5. j \in 1..Len(rest) /\ Len(shots[w]) + j = i
        <5>1. \A l, m \in Nat, h, k \in Nat \ {0} :
                h <= m /\ k = h - l => k \in 1..(m - l) /\ l + k = h
          OBVIOUS
        <5>2. Len(shots[w]) \in Nat /\ Len(job[w]) \in Nat /\ i \in Nat \ {0} /\ i <= Len(job[w])
          BY <2>0, <2>2, <2>8
        <5>3. PICK l, m \in Nat, h \in Nat \ {0} : l = Len(shots[w]) /\ m = Len(job[w]) /\ h = i
          BY <5>2
        <5>4. j \in 1..(m - l) /\ l + j = i
          BY <4>4, <5>1, <5>2, <5>3
        <5> QED BY <4>2, <5>3, <5>4
      <4>6. j \in DOMAIN rest /\ rest[j] = o
        <5>1. rest[j] = o
          <6>1. rest[j] = job[w][Len(shots[w]) + j]
            BY <4>2, <4>5, Zenon
          <6>2. job[w][Len(shots[w]) + j] = job[w][i]
            BY <4>5, Zenon
          <6>3. job[w][i] = o
            BY <2>2, <2>8, Zenon
          <6> QED BY <6>1, <6>2, <6>3, Zenon
        <5>2. DOMAIN rest = 1..Len(rest)
          <6>1. rest \in Seq(Orders)
            BY <4>2, Zenon
          <6> QED BY <6>1, LenProperties, Zenon
        <5> QED BY <4>5, <5>1, <5>2
      <4>7. j \in DOMAIN job'[w] /\ job'[w][j] = o
        BY <4>3, <4>6
      <4> QED BY <1>9, <4>3, <4>4, <4>7, <4>8
    <3>2. CASE ~(i > Len(shots[w]))
      <4>1. i \in 1..Len(shots[w]) /\ ~(i > Len(shots[w]) + 1) /\ i # Len(shots[w]) + 1
        BY <2>0, <2>8, <3>2
      <4>4. shots[w][i].rev = rev[o] /\ shots[w][i].at = key[o]
        BY <2>2, <2>8, <4>1 DEF WillShow
      <4>5. WriterFollows(w) /\ Open
        BY <2>8 DEF ShotsFollowJob, Write
      <4>2. shots[w][i].order = o /\ Faithful(shots[w][i])
        BY <2>2, <2>8, <4>1, <4>5 DEF WriterFollows, ShotFollows
      <4>6. shots[w][i].at = shots[w][i].key
        BY <4>2, <4>4 DEF Faithful
      <4>3. rev[o] <= written'[o]
        BY <2>8, <4>1, <4>2, <4>4, <4>6, WriteIs, NewestIs
      <4> QED BY <1>0, <1>1, <1>2, <4>3
    <3> QED BY <3>1, <3>2
  <2>9. CASE v = w /\ WriteFails(w)
    <3>1. shots'[w] = << >> /\ Serialised(w) /\ AfterFailure(w) /\ dbKey' = dbKey
      BY <2>9 DEF WriteFails, PipelineTyped
    <3>4. dbKey'[w] = None
      BY <3>1, NoKeyHeld
    <3>2. CASE mode[w] = "batch"
      <4>1. job'[v] = job[v]
        BY <2>9, <3>1, <3>2 DEF AfterFailure
      <4>2. i \in DOMAIN job'[v] /\ job'[v][i] = o
        BY <1>0, <2>2, <4>1
      <4> QED BY <1>9, <2>0, <2>9, <3>1, <3>4, <4>2
    <3>3. CASE mode[w] # "batch"
      <4>1. PICK rest : rest = Tail(job[w])
        OBVIOUS
      <4>2. /\ Head(job[w]) = job[w][1] /\ rest \in Seq(Orders) /\ Len(shots[w]) = 1
            /\ Len(rest) = Len(job[w]) - 1 /\ \A j \in 1..Len(rest) : rest[j] = job[w][j + 1]
        BY <3>1, <3>3, <4>1, JobAfterFailure
      <4>3. job'[w] = rest /\ refused' = refused \union {<<Head(job[w]), shots[w][1].rev>>}
        BY <3>1, <3>3, <4>1 DEF AfterFailure, PipelineTyped
      <4>4. CASE i = 1
        <5>1. shots[w][1].rev = rev[o]
          <6>1. ~(1 > Len(shots[w]) + 1) /\ 1 # Len(shots[w]) + 1
            BY <4>2
          <6> QED BY <2>2, <2>9, <4>4, <6>1 DEF WillShow
        <5>2. Head(job[w]) = o
          BY <2>2, <2>9, <4>2, <4>4
        <5>3. LostChange(o)'
          BY <1>0, <4>3, <5>1, <5>2 DEF LostChange
        <5> QED BY <1>1, <5>3
      <4>5. CASE i # 1
        <5>1. PICK j \in Nat \ {0} : j = i - 1
          BY <2>0, <4>5
        <5>2. j \in 1..Len(rest) /\ j + 1 = i
          BY <1>0, <2>2, <2>9, <4>2, <5>1
        <5>3. j \in DOMAIN job'[w] /\ job'[w][j] = o
          BY <2>2, <2>9, <4>2, <4>3, <5>2
        <5> QED BY <1>9, <3>1, <3>4, <5>1, <5>3
      <4> QED BY <4>4, <4>5
    <3> QED BY <3>2, <3>3
  <2> QED BY <2>4, <2>5, <2>6, <2>7, <2>8, <2>9, <2>10
<1> QED BY <1>3, <1>4, <1>5, <1>6, <1>7 DEF Accounted, Saved, Scheduled

\* An exception loses what it was about and what its call was doing, and no more.
LEMMA AccountedThrows ==
  ASSUME Typed, OneMatcher, OneAtATime, ShotsFollowJob, NEW t \in Threads, Throws(t),
         NEW o \in Orders, Accounted(o)
  PROVE  Accounted(o)'
<1>0. /\ None \notin Orders /\ t \in Writers
      /\ owed \in [Threads -> Seq(Saves)] /\ incoming \in [Threads -> Orders \union {None}]
      /\ job \in [Writers -> Seq(Orders)] /\ shots \in [Writers -> Seq(Record)]
  BY ConstantFacts DEF Typed, MemoryTyped, PipelineTyped, Writers
<1>1. /\ UNCHANGED <<rev, key, written, queue, dbKey>>
      /\ owed' = [owed EXCEPT ![t] = << >>] /\ incoming' = [incoming EXCEPT ![t] = None]
      /\ skipped' = IF incoming[t] = None THEN skipped
                      ELSE skipped \union {<<incoming[t], rev[incoming[t]]>>}
      /\ \A i \in 1..Len(owed[t]) : owed[t][i].to \notin Repositories
  BY ThrowsIs
<1>2. \/ UNCHANGED <<job, shots, refused>>
      \/ /\ Len(job[t]) = 1 /\ Len(shots[t]) = 1
         /\ job' = [job EXCEPT ![t] = << >>] /\ shots' = [shots EXCEPT ![t] = << >>]
         /\ refused' = refused \union {<<job[t][1], shots[t][1].rev>>}
  BY ThrowsIs, Zenon
<1>3. Accounted(o)' <=> written[o] = rev[o] \/ LostChange(o)' \/ Scheduled(o)'
  BY <1>1 DEF Accounted, Saved
<1>4. CASE written[o] = rev[o] \/ LostChange(o)
  <2>1. LostChange(o) => LostChange(o)'
    BY <1>1, <1>2 DEF LostChange
  <2> QED BY <1>3, <1>4, <2>1
<1>5. CASE \E s \in Threads : incoming[s] = o
  <2>1. PICK s \in Threads : incoming[s] = o
    BY <1>5
  <2>2. CASE s = t
    <3>1. LostChange(o)'
      BY <1>0, <1>1, <2>1, <2>2 DEF LostChange
    <3> QED BY <1>3, <3>1
  <2>3. CASE s # t
    <3>1. incoming'[s] = o
      BY <1>1, <2>1, <2>3
    <3> QED BY <1>3, <3>1 DEF Scheduled
  <2> QED BY <2>2, <2>3
<1>6. CASE \E s \in Threads : \E r \in Repositories : Owes(s, r, o)
  <2>1. PICK s \in Threads, r \in Repositories : Owes(s, r, o)
    BY <1>6
  <2>2. PICK i \in DOMAIN owed[s] : owed[s][i] = [to |-> r, what |-> o]
    BY <2>1 DEF Owes
  <2>3. DOMAIN owed[s] = 1..Len(owed[s])
    BY <1>0
  <2>4. s # t
    BY <1>1, <2>2, <2>3
  <2>5. owed'[s] = owed[s]
    BY <1>1, <2>4
  <2>6. Owes(s, r, o)'
    BY <2>2, <2>5 DEF Owes
  <2> QED BY <1>3, <2>6 DEF Scheduled
<1>7. CASE \E r \in Repositories : o \in Range(queue[r])
  BY <1>1, <1>3, <1>7 DEF Scheduled
<1>8. CASE \E v \in Writers : \E i \in DOMAIN job[v] : job[v][i] = o /\ WillShow(v, i, o)
  <2>1. PICK v \in Writers : \E i \in DOMAIN job[v] : job[v][i] = o /\ WillShow(v, i, o)
    BY <1>8
  <2>2. PICK i \in DOMAIN job[v] : job[v][i] = o /\ WillShow(v, i, o)
    BY <2>1
  <2>3. CASE job'[v] = job[v] /\ shots'[v] = shots[v]
    <3>1. WillShow(v, i, o)'
      BY <1>1, <2>2, <2>3 DEF WillShow
    <3>2. i \in DOMAIN job'[v] /\ job'[v][i] = o
      BY <2>2, <2>3
    <3> QED BY <1>3, <3>1, <3>2 DEF Scheduled
  <2>4. CASE ~(job'[v] = job[v] /\ shots'[v] = shots[v])
    <3>1. v = t /\ Len(job[t]) = 1 /\ Len(shots[t]) = 1
          /\ refused' = refused \union {<<job[t][1], shots[t][1].rev>>}
      BY <1>0, <1>2, <2>4
    <3>2. i = 1
      <4>1. DOMAIN job[t] = 1..1
        BY <1>0, <3>1
      <4> QED BY <2>2, <3>1, <4>1
    <3>3. shots[t][1].rev = rev[o]
      <4>1. ~(1 > Len(shots[t]) + 1) /\ 1 # Len(shots[t]) + 1
        BY <3>1
      <4> QED BY <2>2, <3>1, <3>2, <4>1 DEF WillShow
    <3>4. LostChange(o)'
      BY <1>1, <2>2, <3>1, <3>2, <3>3 DEF LostChange
    <3> QED BY <1>3, <3>4
  <2> QED BY <2>3, <2>4
<1> QED BY <1>4, <1>5, <1>6, <1>7, <1>8 DEF Accounted, Saved, Scheduled

\* A trade is accounted for until it is stored, after every step.
LEMMA TradesAccountedStep ==
  ASSUME Typed, OnlyPlaced, OneMatcher, OneAtATime, ShotsFollowJob, Up', Next,
         \A n \in 1..(nextTrade - 1) : TradeAccounted(n)
  PROVE  \A n \in 1..(nextTrade' - 1) : TradeAccounted(n)'
<1> USE DEF Typed
<1>0. /\ nextTrade \in Nat \ {0} /\ None \notin Nat /\ "trades" \notin Repositories
      /\ "book" # "trades" /\ Threads \subseteq TradeWriters /\ "trades" \in TradeWriters
      /\ tradeQueue \in Seq(Trades) /\ tradeJob \in [TradeWriters -> Trades \union {None}]
  BY WriteBehindAssumption DEF MemoryTyped, TradesTyped, Repositories, TradeWriters
<1>1. ASSUME NEW t \in Threads, MemoryAction(t), NEW n \in 1..(nextTrade' - 1)
      PROVE  TradeAccounted(n)'
  <2>1. MemoryStep(t)
    BY <1>1, MemorySteps
  <2>2. UNCHANGED <<tradeVars, lostTrades>> /\ owed[t] = << >> /\ \A s \in Threads : s # t => owed'[s] = owed[s]
    BY <2>1 DEF MemoryStep
  <2>3. CASE n \in 1..(nextTrade - 1)
    <3>1. TradeAccounted(n)
      BY <2>3
    <3>2. \A s \in Threads : Owes(s, "trades", n) => Owes(s, "trades", n)'
      <4> SUFFICES ASSUME NEW s \in Threads, Owes(s, "trades", n) PROVE Owes(s, "trades", n)'
        OBVIOUS
      <4>1. s # t
        BY <2>2 DEF Owes
      <4>2. owed'[s] = owed[s]
        BY <2>2, <4>1
      <4> QED BY <4>2 DEF Owes
    <3> QED BY <2>2, <3>1, <3>2 DEF TradeAccounted, TradeScheduled
  <2>4. CASE n \notin 1..(nextTrade - 1)
    <3>1. nextTrade' # nextTrade
      BY <1>1, <2>4
    <3>2. PICK m \in Trades : m = nextTrade /\ nextTrade' = m + 1 /\ Owes(t, "trades", m)'
      BY <2>1, <3>1 DEF MemoryStep
    <3>3. m = n
      BY <1>0, <1>1, <2>4, <3>2
    <3> QED BY <3>2, <3>3 DEF TradeAccounted, TradeScheduled
  <2> QED BY <2>3, <2>4
<1> SUFFICES ASSUME ~ \E t \in Threads : MemoryAction(t)
             PROVE  \A n \in 1..(nextTrade' - 1) : TradeAccounted(n)'
  <2>1. ASSUME NEW t \in Threads, MemoryAction(t)
        PROVE  \A n \in 1..(nextTrade' - 1) : TradeAccounted(n)'
    BY <1>1, <2>1
  <2> QED BY <2>1, Zenon
<1>2. ~Crash
  BY DEF Crash, Up
<1>3. nextTrade' = nextTrade
  <2>1. CASE \E t \in Threads : Throws(t)
    BY <2>1, ThrowsIs
  <2>2. CASE ~ \E t \in Threads : Throws(t)
    BY <1>2, <2>2, NextSteps DEF BuildKey, Serialise, SerialiseState, Write, WriteFails, Take,
       TakeTrade, TradeFails, WriteTrade, SaveOrder, SaveTrade, Unbook, Shutdown, Close, Ends
  <2> QED BY <2>1, <2>2
<1> SUFFICES ASSUME NEW n \in 1..(nextTrade - 1) PROVE TradeAccounted(n)'
  BY <1>3
<1>4. n \in tradeStore \union lostTrades \/ TradeScheduled(n)
  BY DEF TradeAccounted
<1>10. ASSUME NEW t \in Threads, Throws(t) PROVE TradeAccounted(n)'
  <2>1. /\ UNCHANGED <<tradeStore, tradeQueue>> /\ owed' = [owed EXCEPT ![t] = << >>]
        /\ lostTrades' = lostTrades \union OwedTrades(t) \union ({tradeJob[t]} \ {None})
        /\ (tradeJob' = tradeJob \/ tradeJob' = [tradeJob EXCEPT ![t] = None])
    BY <1>10, ThrowsIs
  <2>2. CASE n \in tradeStore \union lostTrades \/ n \in Range(tradeQueue)
    BY <2>1, <2>2 DEF TradeAccounted, TradeScheduled
  <2>3. CASE \E s \in Threads : Owes(s, "trades", n)
    <3>1. PICK s \in Threads : Owes(s, "trades", n)
      BY <2>3
    <3>2. CASE s = t
      <4>1. n \in OwedTrades(t)
        BY <3>1, <3>2 DEF Owes, OwedTrades
      <4> QED BY <2>1, <4>1 DEF TradeAccounted
    <3>3. CASE s # t
      <4>1. owed'[s] = owed[s]
        BY <2>1, <3>3 DEF MemoryTyped
      <4>2. Owes(s, "trades", n)'
        BY <3>1, <4>1 DEF Owes
      <4> QED BY <4>2 DEF TradeAccounted, TradeScheduled
    <3> QED BY <3>2, <3>3
  <2>4. CASE n \in Range(tradeJob)
    <3>1. PICK w \in TradeWriters : tradeJob[w] = n
      BY <1>0, <2>4 DEF Range
    <3>2. n # None
      BY <1>0
    <3>3. CASE w = t
      <4>1. n \in lostTrades'
        BY <2>1, <3>1, <3>2, <3>3
      <4> QED BY <4>1 DEF TradeAccounted
    <3>4. CASE w # t
      <4>1. tradeJob'[w] = n /\ DOMAIN tradeJob' = TradeWriters
        BY <1>0, <2>1, <3>1, <3>4
      <4>2. n \in Range(tradeJob')
        BY <4>1 DEF Range
      <4> QED BY <4>2 DEF TradeAccounted, TradeScheduled
    <3> QED BY <3>3, <3>4
  <2> QED BY <1>4, <2>2, <2>3, <2>4 DEF TradeScheduled
<1>11. ASSUME TradeFails PROVE TradeAccounted(n)'
  <2>1. /\ UNCHANGED <<tradeStore, tradeQueue, owed>>
        /\ lostTrades' = lostTrades \union {tradeJob["trades"]}
        /\ tradeJob' = [tradeJob EXCEPT !["trades"] = None]
    BY <1>11 DEF TradeFails
  <2>2. CASE \/ n \in tradeStore \union lostTrades \/ n \in Range(tradeQueue)
             \/ \E s \in Threads : Owes(s, "trades", n)
    BY <2>1, <2>2 DEF TradeAccounted, TradeScheduled, Owes
  <2>3. CASE n \in Range(tradeJob)
    <3>1. PICK w \in TradeWriters : tradeJob[w] = n
      BY <1>0, <2>3 DEF Range
    <3>2. CASE w = "trades"
      BY <2>1, <3>1, <3>2 DEF TradeAccounted
    <3>3. CASE w # "trades"
      <4>1. tradeJob'[w] = n /\ DOMAIN tradeJob' = TradeWriters
        BY <1>0, <2>1, <3>1, <3>3
      <4>2. n \in Range(tradeJob')
        BY <4>1 DEF Range
      <4> QED BY <4>2 DEF TradeAccounted, TradeScheduled
    <3> QED BY <3>2, <3>3
  <2> QED BY <1>4, <2>2, <2>3 DEF TradeScheduled
<1> SUFFICES ASSUME ~ \E t \in Threads : Throws(t), ~TradeFails
             PROVE  TradeAccounted(n)'
  BY <1>10, <1>11
<1>5. tradeStore \subseteq tradeStore' /\ lostTrades' = lostTrades
  BY <1>2, NextSteps DEF BuildKey, Serialise, SerialiseState, Write, WriteFails, Take, TakeTrade,
     WriteTrade, SaveOrder, SaveTrade, Unbook, Shutdown, Close, Ends, PutTrade, IndexTrade
<1>6. CASE n \in tradeStore \union lostTrades
  BY <1>3, <1>5, <1>6 DEF TradeAccounted
<1>7. CASE \E t \in Threads : Owes(t, "trades", n)
  <2>1. PICK t \in Threads : Owes(t, "trades", n)
    BY <1>7
  <2>2. CASE Owes(t, "trades", n)'
    BY <1>3, <2>2 DEF TradeAccounted, TradeScheduled
  <2>3. CASE ~Owes(t, "trades", n)'
    <3>1. owed' # owed
      BY <2>1, <2>3 DEF Owes
    <3>2. PICK w \in Threads : /\ SaveOrder(w) \/ SaveTrade(w) \/ Unbook(w)
                               /\ owed[w] # << >> /\ owed' = [owed EXCEPT ![w] = Tail(@)]
      BY <1>2, <3>1, NextSteps DEF BuildKey, Serialise, SerialiseState, Write, WriteFails, Take,
         TakeTrade, WriteTrade, SaveOrder, SaveTrade, Unbook, Shutdown, Close, Ends
    <3>3. t = w /\ Head(owed[w]) = [to |-> "trades", what |-> n]
      BY <2>1, <2>3, <3>2, OwesTail
    <3>4. SaveTrade(w)
      BY <1>0, <3>2, <3>3 DEF SaveOrder, Unbook
    <3>5. n \in Trades
      BY <3>2, <3>3, NextSave
    <3>6. CASE tradeQueue' = Append(tradeQueue, n)
      <4>1. PICK q \in Seq(Trades) : /\ q = Append(tradeQueue, n) /\ Len(q) = Len(tradeQueue) + 1
                                     /\ q[Len(tradeQueue) + 1] = n /\ Len(tradeQueue) \in Nat
        <5>1. /\ Append(tradeQueue, n) \in Seq(Trades) /\ Len(tradeQueue) \in Nat
              /\ Len(Append(tradeQueue, n)) = Len(tradeQueue) + 1
              /\ Append(tradeQueue, n)[Len(tradeQueue) + 1] = n
          BY <1>0, <3>5, AppendProperties
        <5> QED BY <5>1
      <4>2. n \in Range(q)
        <5>1. Len(tradeQueue) + 1 \in 1..Len(q)
          BY <4>1
        <5> QED BY <4>1, <5>1, ElementIs
      <4> QED BY <1>3, <3>6, <4>1, <4>2 DEF TradeAccounted, TradeScheduled
    <3>7. CASE tradeJob' = [tradeJob EXCEPT ![w] = n]
      <4>1. n \in Range(tradeJob')
        BY <1>0, <3>7 DEF Range
      <4> QED BY <1>3, <4>1 DEF TradeAccounted, TradeScheduled
    <3> QED BY <3>3, <3>4, <3>6, <3>7 DEF SaveTrade
  <2> QED BY <2>2, <2>3
<1>8. CASE n \in Range(tradeQueue)
  <2>1. PICK i \in 1..Len(tradeQueue) : tradeQueue[i] = n
    BY <1>0, <1>8, RangeEquality
  <2>2. CASE tradeQueue' = tradeQueue
    BY <1>3, <1>8, <2>2 DEF TradeAccounted, TradeScheduled
  <2>3. CASE \E t \in Threads : SaveTrade(t)
    <3>1. PICK t \in Threads : SaveTrade(t)
      BY <2>3
    <3>2. CASE tradeQueue' = Append(tradeQueue, Head(owed[t]).what)
      <4>1. Head(owed[t]).what \in Trades
        BY <3>1, NextSave DEF SaveTrade
      <4>2. PICK x \in Trades : x = Head(owed[t]).what
        BY <4>1
      <4>3. PICK q \in Seq(Trades) : /\ q = Append(tradeQueue, x) /\ Len(q) = Len(tradeQueue) + 1
                                     /\ \A j \in 1..Len(tradeQueue) : q[j] = tradeQueue[j]
                                     /\ Len(tradeQueue) \in Nat
        <5>1. /\ Append(tradeQueue, x) \in Seq(Trades) /\ Len(tradeQueue) \in Nat
              /\ Len(Append(tradeQueue, x)) = Len(tradeQueue) + 1
              /\ \A j \in 1..Len(tradeQueue) : Append(tradeQueue, x)[j] = tradeQueue[j]
          BY <1>0, AppendProperties
        <5> QED BY <5>1
      <4>4. i \in 1..Len(q) /\ q[i] = n
        BY <2>1, <4>3
      <4>5. n \in Range(q)
        BY <4>4, ElementIs
      <4> QED BY <1>3, <3>2, <4>2, <4>3, <4>5 DEF TradeAccounted, TradeScheduled
    <3> QED BY <2>2, <3>1, <3>2 DEF SaveTrade
  <2>4. CASE TakeTrade
    <3>1. /\ tradeQueue # << >> /\ tradeJob' = [tradeJob EXCEPT !["trades"] = Head(tradeQueue)]
          /\ tradeQueue' = Tail(tradeQueue)
      BY <2>4 DEF TakeTrade
    <3>2. /\ Tail(tradeQueue) \in Seq(Trades) /\ Len(Tail(tradeQueue)) = Len(tradeQueue) - 1
          /\ \A j \in 1..Len(Tail(tradeQueue)) : Tail(tradeQueue)[j] = tradeQueue[j + 1]
          /\ Len(tradeQueue) \in Nat /\ Head(tradeQueue) = tradeQueue[1]
      BY <1>0, <3>1, HeadTailProperties
    <3>3. CASE i = 1
      <4>1. n \in Range(tradeJob')
        BY <1>0, <2>1, <3>1, <3>2, <3>3 DEF Range
      <4> QED BY <1>3, <4>1 DEF TradeAccounted, TradeScheduled
    <3>4. CASE i # 1
      <4>1. PICK q \in Seq(Trades) : q = Tail(tradeQueue)
        BY <3>2
      <4>2. i - 1 \in 1..Len(q) /\ (i - 1) + 1 = i
        BY <2>1, <3>2, <3>4, <4>1
      <4>3. q[i - 1] = n
        BY <2>1, <3>2, <4>1, <4>2
      <4>4. n \in Range(q)
        BY <4>2, <4>3, ElementIs
      <4> QED BY <1>3, <3>1, <4>1, <4>4 DEF TradeAccounted, TradeScheduled
    <3> QED BY <3>3, <3>4
  <2>5. tradeQueue' = tradeQueue \/ TakeTrade \/ \E t \in Threads : SaveTrade(t)
    BY <1>2, NextSteps DEF BuildKey, Serialise, SerialiseState, Write, WriteFails, Take, WriteTrade,
       SaveOrder, Unbook, Shutdown, Close, Ends
  <2> QED BY <2>2, <2>3, <2>4, <2>5
<1>9. CASE n \in Range(tradeJob)
  <2>1. PICK w \in TradeWriters : tradeJob[w] = n
    BY <1>0, <1>9 DEF Range
  <2>2. n # None
    BY <1>0
  <2>3. CASE tradeJob'[w] = n /\ tradeJob' \in [TradeWriters -> Trades \union {None}]
    <3>1. n \in Range(tradeJob')
      BY <2>3 DEF Range
    <3> QED BY <1>3, <3>1 DEF TradeAccounted, TradeScheduled
  <2>4. CASE \E v \in TradeWriters : WriteTrade(v)
    <3>1. PICK v \in TradeWriters : WriteTrade(v)
      BY <2>4
    <3>2. CASE v # w \/ PutTrade(v)
      <4>1. tradeJob'[w] = n /\ tradeJob' \in [TradeWriters -> Trades \union {None}]
        BY <1>0, <2>1, <3>1, <3>2 DEF WriteTrade, PutTrade, IndexTrade
      <4> QED BY <2>3, <4>1
    <3>3. CASE v = w /\ IndexTrade(v)
      BY <1>6, <2>1, <3>3 DEF IndexTrade
    <3> QED BY <3>1, <3>2, <3>3 DEF WriteTrade
  <2>5. CASE \E t \in Threads : SaveTrade(t)
    <3>1. PICK t \in Threads : SaveTrade(t)
      BY <2>5
    <3>2. t # w /\ (tradeJob' = tradeJob \/ \E x : tradeJob' = [tradeJob EXCEPT ![t] = x])
      BY <2>1, <2>2, <3>1 DEF SaveTrade
    <3>3. tradeJob'[w] = n /\ tradeJob' \in [TradeWriters -> Trades \union {None}]
      <4>1. TradesTyped'
        BY <3>1, TypedTrades
      <4> QED BY <1>0, <2>1, <3>2, <4>1 DEF TradesTyped
    <3> QED BY <2>3, <3>3
  <2>6. CASE TakeTrade
    <3>1. w # "trades" /\ \E x : tradeJob' = [tradeJob EXCEPT !["trades"] = x]
      BY <2>1, <2>2, <2>6 DEF TakeTrade
    <3>2. tradeJob'[w] = n /\ tradeJob' \in [TradeWriters -> Trades \union {None}]
      <4>1. TradesTyped'
        BY <2>6, TypedTrades
      <4> QED BY <1>0, <2>1, <3>1, <4>1 DEF TradesTyped
    <3> QED BY <2>3, <3>2
  <2>7. \/ tradeJob' = tradeJob \/ TakeTrade \/ \E t \in Threads : SaveTrade(t)
        \/ \E v \in TradeWriters : WriteTrade(v)
    BY <1>2, NextSteps DEF BuildKey, Serialise, SerialiseState, Write, WriteFails, Take,
       SaveOrder, Unbook, Shutdown, Close, Ends
  <2> QED BY <1>0, <2>1, <2>3, <2>4, <2>5, <2>6, <2>7
<1> QED BY <1>3, <1>4, <1>6, <1>7, <1>8, <1>9 DEF TradeScheduled

\* A set that gains one member at most.
LEMMA OneMore ==
  ASSUME NEW S, IsFiniteSet(S), NEW n \in Nat, Cardinality(S) <= n, NEW x, NEW T,
         T \subseteq S \union {x}
  PROVE  Cardinality(T) <= n + 1
<1>1. IsFiniteSet(S \union {x}) /\ Cardinality(S \union {x}) \in {Cardinality(S), Cardinality(S) + 1}
  BY FS_AddElement
<1>2. Cardinality(T) <= Cardinality(S \union {x}) /\ IsFiniteSet(T)
  BY <1>1, FS_Subset
<1>3. Cardinality(S) \in Nat /\ Cardinality(T) \in Nat
  BY <1>2, FS_CardinalityType
<1> QED BY <1>1, <1>2, <1>3

\* The losses are finite sets.
LEMMA LossesFinite ==
  ASSUME Typed
  PROVE  IsFiniteSet(refused) /\ IsFiniteSet(skipped) /\ IsFiniteSet(lostTrades)
<1>1. IsFiniteSet(Orders) /\ IsFiniteSet(Trades) /\ IsFiniteSet(0..MaxRev)
  BY ConstantFacts, RevBound, FS_Interval DEF Orders, Trades
<1>2. IsFiniteSet(Orders \X (0..MaxRev))
  BY <1>1, FS_Product
<1>3. /\ refused \subseteq Orders \X (0..MaxRev) /\ skipped \subseteq Orders \X (0..MaxRev)
      /\ lostTrades \subseteq Trades
  BY DEF Typed, PipelineTyped, TradesTyped
<1> QED BY <1>1, <1>2, <1>3, FS_Subset

\* What refused writes have cost: one change that was in a write, one that was not
\* saved, and one trade for each.
LossesBounded ==
  /\ Cardinality(refused) <= failures /\ Cardinality(skipped) <= failures
  /\ Cardinality(lostTrades) <= failures

\* Another refused write costs no more than that.
LEMMA LossesBoundedStep ==
  ASSUME Typed, OneMatcher, OneAtATime, ShotsFollowJob, LossesBounded, Next
  PROVE  LossesBounded'
<1>0. failures \in Nat
  BY ConstantFacts DEF Typed, PipelineTyped
<1>1. ASSUME failures' = failures + 1, NEW x, NEW y, NEW z, refused' \subseteq refused \union {x},
             skipped' \subseteq skipped \union {y}, lostTrades' \subseteq lostTrades \union {z}
      PROVE  LossesBounded'
  <2>1. /\ Cardinality(refused) <= failures /\ Cardinality(skipped) <= failures
        /\ Cardinality(lostTrades) <= failures
    BY DEF LossesBounded
  <2>2. IsFiniteSet(refused) /\ IsFiniteSet(skipped) /\ IsFiniteSet(lostTrades)
    BY LossesFinite
  <2>3. Cardinality(refused') <= failures + 1
    BY <1>0, <1>1, <2>1, <2>2, OneMore
  <2>4. Cardinality(skipped') <= failures + 1
    BY <1>0, <1>1, <2>1, <2>2, OneMore
  <2>5. Cardinality(lostTrades') <= failures + 1
    BY <1>0, <1>1, <2>1, <2>2, OneMore
  <2> QED BY <1>1, <2>3, <2>4, <2>5 DEF LossesBounded
<1>2. ASSUME NEW r \in Repositories, WriteFails(r) PROVE LossesBounded'
  <2>1. failures' = failures + 1 /\ UNCHANGED <<skipped, lostTrades>>
    BY <1>2 DEF WriteFails
  <2>2. refused' \subseteq refused \union {<<Head(job[r]), shots[r][1].rev>>}
    BY <1>2 DEF WriteFails, AfterFailure
  <2> QED BY <1>1, <2>1, <2>2
<1>3. ASSUME NEW t \in Threads, Throws(t) PROVE LossesBounded'
  <2>1. /\ failures' = failures + 1
        /\ skipped' = IF incoming[t] = None THEN skipped
                        ELSE skipped \union {<<incoming[t], rev[incoming[t]]>>}
        /\ lostTrades' = lostTrades \union OwedTrades(t) \union ({tradeJob[t]} \ {None})
    BY <1>3, ThrowsIs
  <2>2. PICK x : refused' \subseteq refused \union {x}
    <3>1. \/ UNCHANGED refused
          \/ refused' = refused \union {<<job[t][1], shots[t][1].rev>>}
      BY <1>3, ThrowsIs, Zenon
    <3> QED BY <3>1
  <2>3. skipped' \subseteq skipped \union {<<incoming[t], rev[incoming[t]]>>}
    BY <2>1
  <2>4. lostTrades' \subseteq lostTrades \union {nextTrade - 1}
    <3>1. OwedTrades(t) \union ({tradeJob[t]} \ {None}) \subseteq {nextTrade - 1}
      BY TradesThrown
    <3> QED BY <2>1, <3>1
  <2> QED BY <1>1, <2>1, <2>2, <2>3, <2>4, Zenon
<1>4. ASSUME TradeFails PROVE LossesBounded'
  <2>1. /\ failures' = failures + 1 /\ UNCHANGED <<refused, skipped>>
        /\ lostTrades' = lostTrades \union {tradeJob["trades"]}
    BY <1>4 DEF TradeFails
  <2> QED BY <1>1, <2>1
<1>5. ASSUME NEW t \in Threads, MemoryAction(t) PROVE LossesBounded'
  BY <1>5, MemoryOnly DEF LossesBounded
<1>6. ASSUME ~ \E r \in Repositories : WriteFails(r),
             ~ \E t \in Threads : MemoryAction(t) \/ Throws(t), ~TradeFails
      PROVE  LossesBounded'
  <2>1. UNCHANGED <<failures, lossVars>>
    BY <1>6, NextSteps DEF BuildKey, Serialise, SerialiseState, Write, Take, TakeTrade,
       WriteTrade, SaveOrder, SaveTrade, Unbook, Shutdown, Close, Ends, Crash
  <2> QED BY <2>1 DEF LossesBounded
<1> QED BY <1>2, <1>3, <1>4, <1>5, <1>6

\* No change and no trade is forgotten by a step.
LEMMA NothingForgottenStep ==
  ASSUME IInv, StoreIsPast', Next
  PROVE  NothingForgotten'
<1> SUFFICES ASSUME Up'
             PROVE  /\ \A o \in Orders : Accounted(o)'
                    /\ \A n \in 1..(nextTrade' - 1) : TradeAccounted(n)'
                    /\ LossesBounded'
  BY Zenon DEF NothingForgotten, Accounted, LostChange, TradeAccounted, LossesBounded
<1>1. /\ Typed /\ OnlyPlaced /\ OneMatcher /\ OneAtATime /\ ShotsFollowJob /\ StoreIsPast
      /\ NothingForgotten /\ MemoryTyped
  BY DEF IInv, Typed
<1>2. ~Shutdown /\ ~Close /\ ~Crash
  BY DEF Shutdown, Close, Crash, Ends, Up
<1>3. Up
  <2>1. CASE \E t \in Threads : MemoryAction(t)
    BY <2>1, MemoryOnly DEF Up
  <2>2. CASE \E t \in Threads : Throws(t)
    <3>1. phase' = phase
      BY <1>1, <2>2, ThrowsIs
    <3> QED BY <3>1 DEF Up
  <2>3. CASE ~ \E t \in Threads : MemoryAction(t) \/ Throws(t)
    <3>1. phase' = phase
      BY <1>2, <2>3, NextSteps DEF BuildKey, Serialise, SerialiseState, Write, WriteFails, Take,
         TakeTrade, TradeFails, WriteTrade, SaveOrder, SaveTrade, Unbook
    <3> QED BY <3>1 DEF Up
  <2> QED BY <2>1, <2>2, <2>3
<1>4. /\ \A o \in Orders : Accounted(o)
      /\ \A n \in 1..(nextTrade - 1) : TradeAccounted(n)
      /\ LossesBounded
  BY <1>1, <1>3, Zenon DEF NothingForgotten, Accounted, LostChange, TradeAccounted, LossesBounded
<1>5. \A n \in 1..(nextTrade' - 1) : TradeAccounted(n)'
  BY <1>1, <1>4, TradesAccountedStep
<1>7. LossesBounded'
  BY <1>1, <1>4, LossesBoundedStep
<1>6. ASSUME NEW o \in Orders PROVE Accounted(o)'
  <2>1. Accounted(o)
    BY <1>4
  <2>2. CASE \E t \in Threads : MemoryAction(t)
    <3>1. PICK t \in Threads : MemoryStep(t)
      BY <1>1, <2>2, MemorySteps
    <3> QED BY <1>1, <2>1, <3>1, AccountedMemory
  <2>3. CASE \E w \in Writers :
               \/ w \in Threads /\ (SaveOrder(w) \/ SaveTrade(w) \/ Unbook(w))
               \/ w \in Repositories /\ (Take(w) \/ WriteFails(w))
               \/ BuildKey(w) \/ Serialise(w) \/ SerialiseState(w) \/ Write(w)
    BY <1>1, <2>1, <2>3, AccountedPipeline
  <2>4. CASE TakeTrade \/ TradeFails \/ \E w \in TradeWriters : WriteTrade(w)
    <3>1. UNCHANGED <<rev, key, written, refused, skipped, incoming, owed, queue, job, dbKey, shots>>
      BY <2>4 DEF TakeTrade, TradeFails, WriteTrade
    <3> QED BY <2>1, <3>1 DEF Accounted, Saved, LostChange, Scheduled, WillShow, Owes
  <2>6. CASE \E t \in Threads : Throws(t)
    BY <1>1, <2>1, <2>6, AccountedThrows
  <2>5. Repositories \subseteq Writers /\ Threads \subseteq Writers
    BY DEF Writers
  <2> QED BY <1>2, <2>2, <2>3, <2>4, <2>5, <2>6, NextSteps
<1> QED BY <1>5, <1>6, <1>7

\* An index entry is made after its record, and only a finite number of threads writes.
LEMMA StoredStep ==
  ASSUME Typed, OneMatcher, OneAtATime, ShotsFollowJob, FewWriters, IndexedTradesAreStored, Next
  PROVE  FewWriters' /\ IndexedTradesAreStored'
<1>1. CASE \E w \in TradeWriters : WriteTrade(w)
  <2>1. PICK w \in TradeWriters : WriteTrade(w)
    BY <1>1
  <2>2. UNCHANGED writtenBy
    BY <2>1 DEF WriteTrade
  <2>3. IndexedTradesAreStored'
    BY <2>1 DEF WriteTrade, PutTrade, IndexTrade, IndexedTradesAreStored
  <2> QED BY <2>2, <2>3 DEF FewWriters
<1>2. CASE \E w \in Writers : Write(w)
  <2>1. PICK w \in Writers : Write(w)
    BY <1>2
  <2>2. UNCHANGED <<tradeStore, tradeIndex>>
    BY <2>1 DEF Write
  <2>3. ASSUME NEW o \in Orders PROVE IsFiniteSet(writtenBy'[o])
    <3>1. IsFiniteSet(writtenBy[o]) /\ IsFiniteSet(writtenBy[o] \union {w})
      BY FS_AddElement DEF FewWriters
    <3>2. writtenBy'[o] \in {writtenBy[o], writtenBy[o] \union {w}}
      BY <2>1, WriteIs DEF Typed
    <3> QED BY <3>1, <3>2
  <2> QED BY <2>2, <2>3 DEF FewWriters, IndexedTradesAreStored
<1>3. CASE ~(\E w \in TradeWriters : WriteTrade(w)) /\ ~(\E w \in Writers : Write(w))
  <2>1. UNCHANGED <<writtenBy, tradeStore, tradeIndex>>
    <3>1. CASE \E t \in Threads : MemoryAction(t)
      BY <3>1, MemoryOnly
    <3>2. CASE \E t \in Threads : Throws(t)
      BY <3>2, ThrowsIs
    <3>3. CASE ~ \E t \in Threads : MemoryAction(t) \/ Throws(t)
      BY <1>3, <3>3, NextSteps DEF BuildKey, Serialise, SerialiseState, WriteFails, Take, TakeTrade,
         TradeFails, SaveOrder, SaveTrade, Unbook, Shutdown, Close, Ends, Crash
    <3> QED BY <3>1, <3>2, <3>3
  <2> QED BY <2>1 DEF FewWriters, IndexedTradesAreStored
<1> QED BY <1>1, <1>2, <1>3

-----------------------------------------------------------------------------
(* The invariant. *)

\* The server starts with an empty memory and an empty store.
LEMMA InitIInv == Init => IInv
<1> SUFFICES ASSUME Init PROVE IInv
  OBVIOUS
<1>0. /\ \A o \in Orders : Qty[o] \in Nat \ {0} /\ MaxRevs[o] \in Nat \ {0}
      /\ MaxOrders \in Nat /\ MaxTrades \in Nat /\ OrderCap \in Nat /\ TradeCap \in Nat
      /\ MaxFailures \in Nat /\ MaxRev \in Nat /\ \A o \in Orders : o \in Nat \ {0}
  BY RevBound, WriteBehindAssumption DEF Orders
<1>1. MemoryTyped
  BY <1>0, SavesOwed DEF Init, MemoryTyped
<1>2. PipelineTyped
  BY <1>0 DEF Init, PipelineTyped
<1>3. TradesTyped
  BY <1>0 DEF Init, TradesTyped
<1>4. OnlyPlaced
  <2>1. Placed = {}
    BY <1>0 DEF Init, Placed
  <2> QED BY <2>1 DEF Init, OnlyPlaced
<1>5. OneMatcher
  BY DEF Init, OneMatcher
<1>6. ChangesBounded
  BY <1>0 DEF Init, ChangesBounded, Changing
<1>7. ShotsFollowJob
  <2> SUFFICES ASSUME NEW w \in Writers PROVE WriterFollows(w)
    BY DEF ShotsFollowJob
  <2>1. Together(w) \in Nat
    BY <1>2, TogetherInJob DEF PipelineTyped
  <2>2. shots[w] = << >> /\ dbKey[w] = None
    BY DEF Init
  <2> QED BY <2>1, <2>2 DEF WriterFollows
<1>8. StoreIsPast
  BY <1>0 DEF Init, StoreIsPast
<1>9. LoneWriterIsNewest
  <2>1. \A o \in Orders : \A w \in Writers : writtenBy[o] # {w}
    BY DEF Init
  <2> QED BY <2>1 DEF LoneWriterIsNewest
<1>10. FewWriters
  BY FS_EmptySet DEF Init, FewWriters
<1>11. NothingForgotten
  BY <1>0, FS_EmptySet DEF Init, NothingForgotten, Saved
<1>13. OneAtATime
  <2>1. \A t \in Threads : t \in Writers /\ t \in TradeWriters
    BY DEF Writers, TradeWriters
  <2> QED BY <2>1 DEF Init, OneAtATime, OneThing
<1>12. IndexedTradesAreStored
  BY DEF Init, IndexedTradesAreStored
<1> QED BY <1>1, <1>2, <1>3, <1>4, <1>5, <1>6, <1>7, <1>8, <1>9, <1>10, <1>11, <1>12,
        <1>13 DEF IInv, Typed

\* Every step keeps it.
LEMMA NextIInv == IInv /\ [Next]_vars => IInv'
<1> SUFFICES ASSUME IInv, [Next]_vars PROVE IInv'
  OBVIOUS
<1>1. CASE Next
  <2>1. Typed' /\ OnlyPlaced' /\ OneMatcher' /\ OneAtATime' /\ ChangesBounded'
    BY <1>1, TypedStep, OnlyPlacedStep, OneMatcherStep, OneAtATimeStep, ChangesBoundedStep DEF IInv
  <2>2. ShotsFollowJob' /\ StoreIsPast' /\ LoneWriterIsNewest'
    BY <1>1, <2>1, ShotsFollowJobStep, StoreIsPastStep, LoneWriterStep DEF IInv
  <2>3. NothingForgotten'
    BY <1>1, <2>2, NothingForgottenStep
  <2>4. FewWriters' /\ IndexedTradesAreStored'
    BY <1>1, StoredStep DEF IInv, Typed
  <2> QED BY <2>1, <2>2, <2>3, <2>4 DEF IInv
<1>2. CASE UNCHANGED vars
  <2>1. UNCHANGED <<phase, memVars, callVars, owed, pipeVars, storeVars, failures, lossVars,
                    nextTrade, tradeVars>>
    BY <1>2 DEF vars
  <2>2. Typed'
    BY <2>1 DEF IInv, Typed, MemoryTyped, PipelineTyped, TradesTyped
  <2>3. OnlyPlaced' /\ OneMatcher' /\ OneAtATime' /\ ChangesBounded'
    BY <2>1 DEF IInv, OnlyPlaced, Placed, Open, OneMatcher, OneAtATime, OneThing, ChangesBounded,
       Changing
  <2>4. ShotsFollowJob'
    <3>1. PipelineTyped /\ ShotsFollowJob /\ (Open' => Open)
      BY <2>1 DEF IInv, Typed, Open
    <3>2. \A o \in Orders : Changing(o)' <=> Changing(o)
      BY <2>1 DEF Changing
    <3>3. \A o \in Orders : writtenBy'[o] = writtenBy[o] /\ written'[o] = written[o]
      BY <2>1
    <3> SUFFICES ASSUME NEW v \in Writers PROVE WriterFollows(v)'
      BY DEF ShotsFollowJob
    <3>4. UNCHANGED <<key, leaves, state, rev, job[v], shots[v], mode[v], dbKey[v]>>
      BY <2>1
    <3> QED BY <3>1, <3>2, <3>3, <3>4, WriterKept
  <2>5. \A r : Faithful(r)' <=> Faithful(r)
    BY <2>1 DEF Faithful, Changing
  <2>6. StoreIsPast' /\ LoneWriterIsNewest' /\ FewWriters' /\ IndexedTradesAreStored'
    BY <2>1, <2>5 DEF IInv, StoreIsPast, Open, LoneWriterIsNewest, FewWriters,
       IndexedTradesAreStored, Faithful, Changing
  <2>7. NothingForgotten'
    <3>1. \A o : Saved(o)' <=> Saved(o)
      BY <2>1 DEF Saved, Scheduled, WillShow, Owes
    <3>2. \A n : TradeScheduled(n)' <=> TradeScheduled(n)
      BY <2>1 DEF TradeScheduled, Owes
    <3> QED BY <2>1, <3>1, <3>2 DEF IInv, NothingForgotten, Up
  <2> QED BY <2>2, <2>3, <2>4, <2>6, <2>7 DEF IInv
<1> QED BY <1>1, <1>2

\* The invariant holds of every state the server can be in.
LEMMA IInvAlways == Spec => []IInv
BY InitIInv, NextIInv, PTL DEF Spec

-----------------------------------------------------------------------------
(* What follows from it. *)

\* The variables have their types: the queues never exceed their capacities, and
\* no quantity falls below zero or rises above what was ordered.
THEOREM TypeOKAlways == Spec => []TypeOK
<1>1. IInv => TypeOK
  <2> SUFFICES ASSUME IInv PROVE TypeOK
    OBVIOUS
  <2>1. MemoryTyped /\ PipelineTyped /\ TradesTyped
    BY DEF IInv, Typed
  <2> QED BY <2>1 DEF MemoryTyped, PipelineTyped, TradesTyped, TypeOK, Saves
<1> QED BY <1>1, IInvAlways, PTL

\* No change of an order and no trade falls out of the pipeline while the server
\* runs, whichever queue is full, but for what a refused write costs: the change that
\* was being written, one change whose save an exception skipped, and one trade.
THEOREM NothingForgottenAlways == Spec => []NothingForgotten
<1>1. IInv => NothingForgotten
  BY DEF IInv
<1> QED BY <1>1, IInvAlways, PTL

\* An index entry leads to a stored trade, wherever a crash falls between the writes.
THEOREM IndexedTradesAreStoredAlways == Spec => []IndexedTradesAreStored
<1>1. IInv => IndexedTradesAreStored
  BY DEF IInv
<1> QED BY <1>1, IInvAlways, PTL

\* An order one thread alone has written ends up stored as it is in memory.
THEOREM SingleWriterIsExactAlways == Spec => []SingleWriterIsExact
<1>1. IInv => SingleWriterIsExact
  <2> SUFFICES ASSUME IInv, NEW o \in Orders, Up, Cardinality(writtenBy[o]) = 1,
                      <<o, rev[o]>> \notin refused \union skipped, ~Scheduled(o), ~Changing(o), store[key[o]].order = o
               PROVE  store[key[o]].leaves = leaves[o] /\ store[key[o]].state = state[o]
    BY DEF SingleWriterIsExact
  <2>1. Open /\ written[o] = rev[o]
    BY DEF IInv, NothingForgotten, Saved, Open, Up
  <2>2. PICK w \in Writers : writtenBy[o] = {w}
    <3>1. \E x : writtenBy[o] = {x}
      BY FS_Singleton DEF IInv, FewWriters
    <3>2. writtenBy[o] \subseteq Writers
      BY DEF IInv, Typed, PipelineTyped
    <3> QED BY <3>1, <3>2
  <2>3. store[key[o]] # None /\ store[key[o]].rev = rev[o]
    BY <2>1, <2>2 DEF IInv, LoneWriterIsNewest
  <2>4. key[o] \in Keys
    <3>1. o \in Placed
      BY <2>1, <2>2 DEF IInv, OnlyPlaced
    <3> QED BY <3>1 DEF IInv, OnlyPlaced
  <2>5. Faithful(store[key[o]]) /\ store[key[o]].state # None
    BY <2>1, <2>3, <2>4 DEF IInv, StoreIsPast
  <2> QED BY <2>3, <2>5 DEF Faithful
<1> QED BY <1>1, IInvAlways, PTL

-----------------------------------------------------------------------------
(* The promise of DurableStore. *)

\* The pipeline starts as the abstract store does.
LEMMA DurableInit == Init => Durable!Init
BY DEF Init, Durable!Init, Open

\* The changes that refused writes have cost.
Lost == refused \union skipped

\* A step in memory is a Change, a write a Store, a single write that fails and an
\* exception in a match a Fail, the end of the server a Stop, and every other step
\* leaves the abstract store alone.
LEMMA DurableStep == IInv /\ [Next]_vars => [Durable!Next]_(Durable!vars)
<1> SUFFICES ASSUME IInv, [Next]_vars PROVE Durable!Next \/ UNCHANGED <<rev, written, Lost, Open>>
  BY DEF Durable!vars, Lost
<1> USE DEF Durable!Next, Durable!Change, Durable!Store, Durable!Fail, Durable!Stop, Lost
<1>1. CASE UNCHANGED vars
  BY <1>1 DEF vars, Open
<1>2. ASSUME NEW t \in Threads, MemoryAction(t)
      PROVE  Durable!Next \/ UNCHANGED <<rev, written, Lost, Open>>
  <2>1. MemoryStep(t)
    BY <1>2, MemorySteps DEF IInv, Typed
  <2>2. UNCHANGED <<written, Lost, Open>> /\ Open
    BY <2>1 DEF MemoryStep, Open, lossVars
  <2> DEFINE changed == {o \in Orders : rev'[o] # rev[o]}
  <2>3. \A o \in Orders : rev'[o] = rev[o] \/ rev'[o] = rev[o] + 1
    BY <2>1 DEF MemoryStep, Kept, Changed
  <2>4. rev \in [Orders -> 0..MaxRev] /\ rev' \in [Orders -> 0..MaxRev]
    BY <1>2, NextIInv, NextSteps DEF IInv, Typed, MemoryTyped
  <2>5. rev' = [o \in Orders |-> IF o \in changed THEN rev[o] + 1 ELSE rev[o]]
    BY <2>3, <2>4
  <2>6. CASE changed = {}
    BY <2>2, <2>4, <2>5, <2>6
  <2>7. CASE changed # {}
    BY <2>2, <2>5, <2>7
  <2> QED BY <2>6, <2>7
<1>3. ASSUME NEW w \in Writers, Write(w) PROVE Durable!Next
  <2>1. UNCHANGED <<phase, rev, refused, skipped>> /\ Open
    BY <1>3 DEF Write
  <2>2. IInv'
    BY <1>3, NextIInv, NextSteps
  <2>3. written' \in [Orders -> 0..MaxRev]
    BY <2>2 DEF IInv, Typed, PipelineTyped
  <2>4. \A o \in Orders : written[o] <= written'[o] /\ written'[o] <= rev[o]
    <3>1. \A o \in Orders : written'[o] <= rev[o]
      BY <2>1, <2>2 DEF IInv, StoreIsPast
    <3>2. \A o \in Orders : written[o] <= written'[o]
      BY <1>3, NewestIs, WriteIs DEF IInv, Typed
    <3> QED BY <3>1, <3>2
  <2> QED BY <2>1, <2>3, <2>4 DEF Open
<1>7. ASSUME Open, UNCHANGED <<phase, rev, written>>,
             NEW o \in Orders, NEW p \in Orders, NEW i \in 0..MaxRev, NEW j \in 0..MaxRev,
             i <= rev[o], j <= rev[p], Lost' = Lost \union {<<o, i>>, <<p, j>>}
      PROVE  Durable!Next
  BY <1>7 DEF Open
<1>8. ASSUME NEW w \in Writers, Serialised(w), Len(shots[w]) = 1
      PROVE  /\ job[w][1] \in Orders /\ shots[w][1].rev \in 0..MaxRev
             /\ shots[w][1].rev <= rev[job[w][1]]
  <2>1. /\ 1 \in 1..Len(job[w]) /\ shots[w][1] \in Record /\ job[w][1] \in Orders
    BY <1>8, JobFacts DEF IInv, Typed
  <2>2. ShotFollows(w, 1)
    BY <1>8 DEF IInv, ShotsFollowJob, WriterFollows
  <2> QED BY <2>1, <2>2 DEF ShotFollows, Record
<1>4. ASSUME NEW w \in Repositories, WriteFails(w)
      PROVE  Durable!Next \/ UNCHANGED <<rev, written, Lost, Open>>
  <2>1. UNCHANGED <<phase, rev, written, skipped>> /\ Open /\ Serialised(w) /\ AfterFailure(w)
    BY <1>4 DEF WriteFails
  <2>2. CASE mode[w] = "batch"
    BY <2>1, <2>2 DEF AfterFailure, Open
  <2>3. CASE mode[w] # "batch"
    <3>0. w \in Writers
      BY DEF Writers
    <3>1. Head(job[w]) = job[w][1] /\ Len(shots[w]) = 1
      BY <2>1, <2>3, <3>0, JobAfterFailure DEF IInv, Typed
    <3>2. /\ job[w][1] \in Orders /\ shots[w][1].rev \in 0..MaxRev
          /\ shots[w][1].rev <= rev[job[w][1]]
      BY <1>8, <2>1, <3>0, <3>1
    <3>3. PICK o \in Orders, i \in 0..MaxRev : o = job[w][1] /\ i = shots[w][1].rev
      BY <3>2
    <3>4. Lost' = Lost \union {<<o, i>>, <<o, i>>}
      BY <2>1, <2>3, <3>1, <3>3 DEF AfterFailure
    <3> QED BY <1>7, <2>1, <3>2, <3>3, <3>4
  <2> QED BY <2>2, <2>3
<1>9. ASSUME NEW t \in Threads, Throws(t)
      PROVE  Durable!Next \/ UNCHANGED <<rev, written, Lost, Open>>
  <2>0. t \in Writers /\ None \notin Orders
    BY ConstantFacts DEF Writers
  <2>1. /\ UNCHANGED <<phase, rev, written>> /\ Open
        /\ skipped' = IF incoming[t] = None THEN skipped
                        ELSE skipped \union {<<incoming[t], rev[incoming[t]]>>}
    BY <1>9, ThrowsIs DEF IInv
  <2>2. \/ UNCHANGED refused
        \/ /\ Serialised(t) /\ Len(shots[t]) = 1
           /\ refused' = refused \union {<<job[t][1], shots[t][1].rev>>}
    BY <1>9, ThrowsIs, Zenon DEF IInv
  <2>3. incoming[t] # None => incoming[t] \in Orders /\ rev[incoming[t]] \in 0..MaxRev
    BY DEF IInv, Typed, MemoryTyped
  <2>4. ASSUME NEW o \in Orders, o = incoming[t] PROVE rev[o] <= rev[o] /\ rev[o] \in 0..MaxRev
    <3>1. rev[o] \in 0..MaxRev /\ MaxRev \in Nat
      BY RevBound DEF IInv, Typed, MemoryTyped
    <3> QED BY <3>1
  <2>5. CASE UNCHANGED refused
    <3>1. CASE incoming[t] = None
      BY <2>1, <2>5, <3>1 DEF Open
    <3>2. CASE incoming[t] # None
      <4>1. PICK o \in Orders, i \in 0..MaxRev : o = incoming[t] /\ i = rev[o]
        BY <2>3, <3>2
      <4>2. Lost' = Lost \union {<<o, i>>, <<o, i>>}
        BY <2>1, <2>5, <3>2, <4>1
      <4> QED BY <1>7, <2>1, <2>4, <4>1, <4>2
    <3> QED BY <3>1, <3>2
  <2>6. CASE /\ Serialised(t) /\ Len(shots[t]) = 1
             /\ refused' = refused \union {<<job[t][1], shots[t][1].rev>>}
    <3>1. /\ job[t][1] \in Orders /\ shots[t][1].rev \in 0..MaxRev
          /\ shots[t][1].rev <= rev[job[t][1]]
      BY <1>8, <2>0, <2>6
    <3>2. PICK o \in Orders, i \in 0..MaxRev : o = job[t][1] /\ i = shots[t][1].rev
      BY <3>1
    <3>3. CASE incoming[t] = None
      <4>1. Lost' = Lost \union {<<o, i>>, <<o, i>>}
        BY <2>1, <2>6, <3>2, <3>3
      <4> QED BY <1>7, <2>1, <3>1, <3>2, <4>1
    <3>4. CASE incoming[t] # None
      <4>1. PICK p \in Orders, j \in 0..MaxRev : p = incoming[t] /\ j = rev[p]
        BY <2>3, <3>4
      <4>2. Lost' = Lost \union {<<o, i>>, <<p, j>>}
        BY <2>1, <2>6, <3>2, <3>4, <4>1
      <4>3. i <= rev[o] /\ j <= rev[p]
        BY <2>4, <3>1, <3>2, <4>1
      <4> QED BY <1>7, <2>1, <4>2, <4>3
    <3> QED BY <3>3, <3>4
  <2> QED BY <2>2, <2>5, <2>6
<1>5. ASSUME \/ \E t \in Threads : SaveOrder(t) \/ SaveTrade(t) \/ Unbook(t)
             \/ \E w \in Writers : BuildKey(w) \/ Serialise(w) \/ SerialiseState(w)
             \/ \E r \in Repositories : Take(r)
             \/ TakeTrade \/ TradeFails
             \/ \E w \in TradeWriters : WriteTrade(w)
             \/ Shutdown
      PROVE  UNCHANGED <<rev, written, Lost, Open>>
  <2>1. UNCHANGED <<rev, written, refused, skipped>>
    BY <1>5 DEF SaveOrder, SaveTrade, Unbook, BuildKey, Serialise, SerialiseState, Take, TakeTrade,
       TradeFails, WriteTrade, Shutdown, Ends
  <2>2. phase' = phase \/ (phase = "up" /\ phase' = "closing")
    BY <1>5 DEF SaveOrder, SaveTrade, Unbook, BuildKey, Serialise, SerialiseState, Take, TakeTrade,
       TradeFails, WriteTrade, Shutdown, Ends, Up
  <2>3. Open' <=> Open
    BY <2>2 DEF Open
  <2> QED BY <2>1, <2>3
<1>6. ASSUME Close \/ Crash PROVE Durable!Next
  BY <1>6 DEF Close, Crash, Ends, Open
<1> QED BY <1>1, <1>2, <1>3, <1>4, <1>5, <1>6, <1>9, NextSteps

\* What the store shows has happened, in the order in which it happened, and
\* nothing it has shown is taken back, by a crash neither.
THEOREM ImplementsDurableStoreSafety == Spec => Durable!Init /\ [][Durable!Next]_(Durable!vars)
BY DurableInit, DurableStep, IInvAlways, PTL DEF Spec

=============================================================================
