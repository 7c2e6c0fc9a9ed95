---------------------------- MODULE Book_proofs ----------------------------
EXTENDS OrderFlow_proofs

\* Whoever modifies orders of a user is the only thread that enters or modifies them;
\* any thread may cancel them.  (Modifications come from TCP sessions alone; excluded are
\* two sessions of one user, and a session that modifies an order which a REST worker has
\* put into the caches and not yet matched: either books the order twice.)
OneModifier ==
  \A t, u \in Threads : \A r \in Requests[t], q \in Requests[u] :
    t # u /\ r.op = "modify" /\ q.op \in {"new", "modify"} => r.user # q.user

Entering  == {"enrol", "enterNew"}
Modifying == {"dropKey", "enterModify"}
Holding   == Entering \union Modifying \union Matching

\* A call that enters or modifies an order is one of its thread's, for its own order.
OwnRequests ==
  \A t \in Threads :
    /\ pc[t] \in {"register"} \union Holding =>
         req[t] \in Requests[t] /\ req[t].op \in {"new", "modify"}
    /\ pc[t] \in {"register"} \union Entering => req[t].op = "new"
    /\ pc[t] \in Modifying => req[t].op = "modify"
    /\ pc[t] \in Holding => order[cur[t]].user = req[t].user

\* No two calls enter or modify one order.
Exclusive ==
  \A t, u \in Threads :
    t # u /\ pc[t] \in Holding /\ pc[u] \in Holding => cur[t] # cur[u]

\* An order that is on its way into the book, or matches, is not in it.
NotInBook == \A t \in Threads : pc[t] \in Entering \union Matching => cur[t] \notin index

\* An order without a price does not rest.
Priced == \A o \in index : order[o].price # None

\* No bid reaches an ask, even while an order is matched.
NeverCrossed ==
  \A s \in Symbols : \A bid \in Occupied(s, "BUY"), ask \in Occupied(s, "SELL") : bid < ask

\* What is left of an order reaches nothing on the other side when it is to rest.
RestsBehind ==
  \A t \in Threads : pc[t] = "rest" /\ leaves[cur[t]] > 0 =>
    \A p \in Occupied(order[cur[t]].symbol, Opposite(order[cur[t]].side)) : ~Accepts(cur[t], p)

\* The order a thread is about to fill is ahead of all that rest on its side.
InFront(p) ==
  /\ \A q \in index : order[q].symbol = order[p].symbol /\ order[q].side = order[p].side
       => ~Ahead(order[p].side, order[q].price, order[p].price)
  /\ p \in index => Head(level[LevelOf(p)]) = p
FillsInFront == \A t \in Threads : pc[t] = "fill" => InFront(passive[t])

BookInvariant ==
  /\ OwnRequests /\ Exclusive /\ NotInBook /\ Priced
  /\ BookWellFormed /\ NeverCrossed /\ RestsBehind /\ FillsInFront

-----------------------------------------------------------------------------
(* Removing an order from a queue in which it is once. *)

NoRepeats(s) == \A i, j \in 1..Len(s) : s[i] = s[j] => i = j

\* Removing an element of a sequence moves those behind it up by one.
LEMMA RemoveFirstIs ==
  ASSUME NEW S, NEW s \in Seq(S), NEW e, \E i \in 1..Len(s) : s[i] = e
  PROVE  \E k \in 1..Len(s) :
           /\ s[k] = e
           /\ RemoveFirst(s, e) \in Seq(S) /\ Len(RemoveFirst(s, e)) = Len(s) - 1
           /\ \A i \in 1..(Len(s) - 1) : RemoveFirst(s, e)[i] = s[IF i < k THEN i ELSE i + 1]
<1>1. PICK k \in 1..Len(s) :
        s[k] = e /\ RemoveFirst(s, e) = SubSeq(s, 1, k - 1) \o SubSeq(s, k + 1, Len(s))
  BY RemoveFirstSplits
<1> DEFINE front == SubSeq(s, 1, k - 1)
           back  == SubSeq(s, k + 1, Len(s))
<1>2. /\ front \in Seq(S) /\ Len(front) = k - 1
      /\ \A i \in 1..(k - 1) : front[i] = s[i]
  BY SMT
<1>3. /\ back \in Seq(S) /\ Len(back) = Len(s) - k
      /\ \A i \in 1..(Len(s) - k) : back[i] = s[k + i]
  BY SMT
<1>4. RemoveFirst(s, e) = front \o back
  BY <1>1
<1> HIDE DEF front, back
<1>5. /\ front \o back \in Seq(S) /\ Len(front \o back) = Len(front) + Len(back)
      /\ \A i \in 1..Len(front) + Len(back) :
           (front \o back)[i] = IF i <= Len(front) THEN front[i] ELSE back[i - Len(front)]
  BY <1>2, <1>3, ConcatProperties, Zenon
<1>6. /\ front \o back \in Seq(S) /\ Len(front \o back) = Len(s) - 1
      /\ \A i \in 1..(Len(s) - 1) :
           (front \o back)[i] = IF i <= k - 1 THEN front[i] ELSE back[i - (k - 1)]
  BY <1>2, <1>3, <1>5, SMT
<1>7. ASSUME NEW i \in 1..(Len(s) - 1)
      PROVE  (front \o back)[i] = s[IF i < k THEN i ELSE i + 1]
  <2>1. CASE i < k
    BY <1>2, <1>6, <2>1, SMT
  <2>2. CASE ~(i < k)
    <3> DEFINE j == i - (k - 1)
    <3>1. j \in 1..(Len(s) - k) /\ k + j = i + 1
      BY <2>2, SMT
    <3>2. (front \o back)[i] = back[j]
      BY <1>6, <2>2, SMT
    <3> HIDE DEF j
    <3>3. back[j] = s[i + 1]
      BY <1>3, <3>1, Zenon
    <3> QED BY <2>2, <3>2, <3>3
  <2> QED BY <2>1, <2>2
<1> QED BY <1>1, <1>4, <1>6, <1>7

\* What an order's removal leaves of its queue: the others, each once, and the head
\* unless it is the order itself.
Without(S, s, e, r) ==
  /\ r \in Seq(S) /\ NoRepeats(r)
  /\ \A i \in 1..Len(r) : r[i] # e /\ \E j \in 1..Len(s) : r[i] = s[j]
  /\ \A j \in 1..Len(s) : s[j] # e => \E i \in 1..Len(r) : r[i] = s[j]
  /\ s # << >> /\ Head(s) # e => r # << >> /\ Head(r) = Head(s)

\* RemoveFirst takes out the one occurrence of an element and keeps the others in order.
LEMMA RemoveFirstUnique ==
  ASSUME NEW S, NEW s \in Seq(S), NEW e, NoRepeats(s)
  PROVE  Without(S, s, e, RemoveFirst(s, e))
<1>1. CASE ~ \E i \in 1..Len(s) : s[i] = e
  <2>1. RemoveFirst(s, e) = s
    BY <1>1 DEF RemoveFirst
  <2> QED BY <1>1, <2>1 DEF Without
<1>2. CASE \E i \in 1..Len(s) : s[i] = e
  <2> DEFINE r == RemoveFirst(s, e)
  <2>1. PICK k \in 1..Len(s) :
          /\ s[k] = e
          /\ r \in Seq(S) /\ Len(r) = Len(s) - 1
          /\ \A i \in 1..(Len(s) - 1) : r[i] = s[IF i < k THEN i ELSE i + 1]
    BY <1>2, RemoveFirstIs
  <2> HIDE DEF r
  <2>2. NoRepeats(r)
    <3> SUFFICES ASSUME NEW i \in 1..Len(r), NEW j \in 1..Len(r), r[i] = r[j]
                 PROVE  i = j
      BY DEF NoRepeats
    <3>1. PICK m \in 1..Len(s), n \in 1..Len(s) :
            m = (IF i < k THEN i ELSE i + 1) /\ n = (IF j < k THEN j ELSE j + 1)
      BY <2>1
    <3>2. s[m] = s[n]
      BY <2>1, <3>1
    <3>3. m = n
      BY <3>2 DEF NoRepeats
    <3> QED BY <3>1, <3>3
  <2>3. ASSUME NEW i \in 1..Len(r)
        PROVE  r[i] # e /\ \E j \in 1..Len(s) : r[i] = s[j]
    <3>1. PICK m \in 1..Len(s) : m = (IF i < k THEN i ELSE i + 1)
      BY <2>1
    <3>2. r[i] = s[m] /\ m # k
      BY <2>1, <3>1
    <3>3. s[m] # s[k]
      BY <3>2 DEF NoRepeats
    <3> QED BY <2>1, <3>2, <3>3
  <2>4. ASSUME NEW j \in 1..Len(s), s[j] # e
        PROVE  \E i \in 1..Len(r) : r[i] = s[j]
    <3>1. CASE j < k
      <4>1. j \in 1..Len(r) /\ r[j] = s[j]
        BY <2>1, <3>1
      <4> QED BY <4>1
    <3>2. CASE j > k
      <4>1. PICK i \in 1..Len(r) : i = j - 1
        BY <2>1, <3>2
      <4>2. i \in 1..(Len(s) - 1) /\ ~(i < k) /\ i + 1 = j
        BY <2>1, <3>2, <4>1
      <4>3. r[i] = s[i + 1]
        BY <2>1, <4>2
      <4>4. r[i] = s[j]
        BY <4>2, <4>3
      <4> QED BY <4>4
    <3> QED BY <2>1, <2>4, <3>1, <3>2
  <2>5. ASSUME s # << >>, Head(s) # e
        PROVE  r # << >> /\ Head(r) = Head(s)
    <3>1. Head(s) = s[1]
      BY <2>5
    <3>2. k # 1 /\ Len(s) >= 2
      BY <2>1, <2>5, <3>1
    <3>3. Len(r) >= 1 /\ r[1] = s[1]
      BY <2>1, <3>2
    <3>4. r # << >> /\ Head(r) = r[1]
      BY <2>1, <3>3, HeadTailProperties
    <3> QED BY <3>1, <3>3, <3>4
  <2>6. Without(S, s, e, r)
    BY <2>1, <2>2, <2>3, <2>4, <2>5 DEF Without
  <2> QED BY <2>6 DEF r
<1> QED BY <1>1, <1>2

-----------------------------------------------------------------------------
(* The book's operations. *)

\* The level of an order when the orders are f, and a well-formed book of them.
LevelIn(f, o) == <<f[o].symbol, f[o].side, f[o].price>>
WellFormed(f, lev, idx) ==
  /\ \A l \in Levels : \A i \in DOMAIN lev[l] :
       /\ lev[l][i] \in idx
       /\ LevelIn(f, lev[l][i]) = l
       /\ \A j \in DOMAIN lev[l] : lev[l][i] = lev[l][j] => i = j
  /\ \A o \in idx : \E i \in 1..Len(lev[LevelIn(f, o)]) : lev[LevelIn(f, o)][i] = o

\* BookWellFormed as a predicate of the orders, the levels and the index it is about.
LEMMA BookIs ==
  /\ BookWellFormed <=> WellFormed(order, level, index)
  /\ BookWellFormed' <=> WellFormed(order', level', index')
  /\ \A o : LevelOf(o) = LevelIn(order, o)
BY Zenon DEF BookWellFormed, WellFormed, LevelOf, LevelIn, Contains

\* The level of an order that rests is one of the book's, and the order is queued there.
LEMMA RestingOrder ==
  ASSUME TypeOK, Priced, BookWellFormed, NEW o \in index
  PROVE  /\ o \in Placed /\ o \in OrderIds /\ LevelOf(o) \in Levels
         /\ \E i \in 1..Len(level[LevelOf(o)]) : level[LevelOf(o)][i] = o
<1>1. o \in Placed /\ order[o].price # None
  BY DEF TypeOK, Priced
<1>2. Contains(level[LevelOf(o)], o)
  BY DEF BookWellFormed
<1> QED BY <1>1, <1>2, PlacedOrder DEF Contains

\* What the queues of a well-formed book hold.
LEMMA QueuedOrder ==
  ASSUME TypeOK, BookWellFormed, NEW l \in Levels
  PROVE  /\ level[l] \in Seq(Placed) /\ NoRepeats(level[l])
         /\ \A i \in 1..Len(level[l]) : level[l][i] \in index /\ LevelOf(level[l][i]) = l
<1>1. level[l] \in Seq(Placed) /\ DOMAIN level[l] = 1..Len(level[l])
  BY DEF TypeOK
<1> QED BY <1>1 DEF BookWellFormed, NoRepeats

\* A well-formed book stays so when an order leaves its queue and the index.
Removed(S, f, g, lev, idx, o, new) ==
  /\ WellFormed(g, new, idx \ {o})
  /\ \A l \in Levels :
       /\ new[l] # << >> => lev[l] # << >>
       /\ lev[l] # << >> /\ Head(lev[l]) # o =>
            new[l] # << >> /\ Head(new[l]) = Head(lev[l])

\* OrderBook.removeOrder keeps levels and index in agreement.
LEMMA RemovalKeeps ==
  ASSUME NEW S, NEW lev \in [Levels -> Seq(S)], NEW idx, NEW f, NEW g, NEW o \in idx,
         WellFormed(f, lev, idx),
         \A p \in idx : LevelIn(f, p) \in Levels,
         \A p \in idx \ {o} : LevelIn(g, p) = LevelIn(f, p),
         NEW new, new = [lev EXCEPT ![LevelIn(f, o)] = RemoveFirst(@, o)]
  PROVE  Removed(S, f, g, lev, idx, o, new)
<1>1. ASSUME NEW l \in Levels
      PROVE  /\ lev[l] \in Seq(S) /\ NoRepeats(lev[l])
             /\ \A i \in 1..Len(lev[l]) : lev[l][i] \in idx /\ LevelIn(f, lev[l][i]) = l
  <2>1. lev[l] \in Seq(S) /\ DOMAIN lev[l] = 1..Len(lev[l])
    OBVIOUS
  <2>2. \A i \in DOMAIN lev[l] :
          /\ lev[l][i] \in idx /\ LevelIn(f, lev[l][i]) = l
          /\ \A j \in DOMAIN lev[l] : lev[l][i] = lev[l][j] => i = j
    BY DEF WellFormed
  <2> QED BY <2>1, <2>2 DEF NoRepeats
<1>2. ASSUME NEW l \in Levels
      PROVE  Without(S, lev[l], o, new[l])
  <2>1. CASE l = LevelIn(f, o)
    <3>1. new[l] = RemoveFirst(lev[l], o)
      BY <2>1
    <3> QED BY <1>1, <3>1, RemoveFirstUnique
  <2>2. CASE l # LevelIn(f, o)
    <3>1. new[l] = lev[l]
      BY <2>2
    <3>2. \A i \in 1..Len(lev[l]) : lev[l][i] # o
      BY <1>1, <2>2, Zenon
    <3> QED BY <1>1, <3>1, <3>2, Zenon DEF Without
  <2> QED BY <2>1, <2>2
<1>3. ASSUME NEW l \in Levels, NEW i \in DOMAIN new[l]
      PROVE  /\ new[l][i] \in idx \ {o} /\ LevelIn(g, new[l][i]) = l
             /\ \A j \in DOMAIN new[l] : new[l][i] = new[l][j] => i = j
  <2>1. new[l] \in Seq(S) /\ NoRepeats(new[l])
    BY <1>2 DEF Without
  <2>2. DOMAIN new[l] = 1..Len(new[l])
    BY <2>1
  <2>3. new[l][i] # o /\ \E j \in 1..Len(lev[l]) : new[l][i] = lev[l][j]
    BY <1>2, <2>2 DEF Without
  <2>4. new[l][i] \in idx /\ LevelIn(f, new[l][i]) = l
    BY <1>1, <2>3, Zenon
  <2>5. new[l][i] \in idx \ {o}
    BY <2>3, <2>4, Zenon
  <2>6. LevelIn(g, new[l][i]) = l
    BY <2>4, <2>5, Zenon
  <2>7. \A j \in DOMAIN new[l] : new[l][i] = new[l][j] => i = j
    BY <2>1, <2>2, Zenon DEF NoRepeats
  <2> QED BY <2>5, <2>6, <2>7, Zenon
<1>4. ASSUME NEW p \in idx \ {o}
      PROVE  \E i \in 1..Len(new[LevelIn(g, p)]) : new[LevelIn(g, p)][i] = p
  <2> DEFINE l == LevelIn(f, p)
  <2>1. l \in Levels /\ LevelIn(g, p) = l /\ p # o
    OBVIOUS
  <2>2. PICK j \in 1..Len(lev[l]) : lev[l][j] = p
    BY Zenon DEF WellFormed
  <2> HIDE DEF l
  <2>3. PICK i \in 1..Len(new[l]) : new[l][i] = lev[l][j]
    BY <1>2, <2>1, <2>2 DEF Without
  <2> QED BY <2>1, <2>2, <2>3, Zenon
<1>5. ASSUME NEW l \in Levels, new[l] # << >>
      PROVE  lev[l] # << >>
  <2>1. new[l] \in Seq(S)
    BY <1>2 DEF Without
  <2>2. 1 \in 1..Len(new[l])
    BY <1>5, <2>1
  <2>3. \E j \in 1..Len(lev[l]) : new[l][1] = lev[l][j]
    BY <1>2, <2>2 DEF Without
  <2>4. Len(lev[l]) # 0
    BY <2>3
  <2> QED BY <2>4
<1>6. WellFormed(g, new, idx \ {o})
  BY <1>3, <1>4, Zenon DEF WellFormed
<1> QED BY <1>2, <1>5, <1>6, Zenon DEF Without, Removed

\* A well-formed book stays so when an order that is not in it is queued and indexed.
Added(S, f, lev, idx, o, new) ==
  /\ WellFormed(f, new, idx \union {o})
  /\ \A l \in Levels :
       /\ new[l] # << >> => lev[l] # << >> \/ l = LevelIn(f, o)
       /\ lev[l] # << >> => new[l] # << >> /\ Head(new[l]) = Head(lev[l])

\* OrderBook.addOrder of an order that is not booked keeps levels and index in agreement.
LEMMA AdditionKeeps ==
  ASSUME NEW S, NEW lev \in [Levels -> Seq(S)], NEW idx, NEW f, NEW o \in S, o \notin idx,
         WellFormed(f, lev, idx),
         \A p \in idx \union {o} : LevelIn(f, p) \in Levels,
         NEW new, new = [lev EXCEPT ![LevelIn(f, o)] = Append(@, o)]
  PROVE  Added(S, f, lev, idx, o, new)
<1>1. ASSUME NEW l \in Levels
      PROVE  /\ lev[l] \in Seq(S) /\ NoRepeats(lev[l])
             /\ \A i \in 1..Len(lev[l]) : lev[l][i] \in idx /\ LevelIn(f, lev[l][i]) = l
  <2>1. lev[l] \in Seq(S) /\ DOMAIN lev[l] = 1..Len(lev[l])
    OBVIOUS
  <2>2. \A i \in DOMAIN lev[l] :
          /\ lev[l][i] \in idx /\ LevelIn(f, lev[l][i]) = l
          /\ \A j \in DOMAIN lev[l] : lev[l][i] = lev[l][j] => i = j
    BY DEF WellFormed
  <2> QED BY <2>1, <2>2 DEF NoRepeats
<1>2. ASSUME NEW l \in Levels
      PROVE  /\ new[l] \in Seq(S) /\ NoRepeats(new[l])
             /\ \A i \in 1..Len(new[l]) :
                  /\ new[l][i] \in idx \/ new[l][i] = o
                  /\ LevelIn(f, new[l][i]) = l
             /\ \A j \in 1..Len(lev[l]) : j \in 1..Len(new[l]) /\ new[l][j] = lev[l][j]
             /\ l = LevelIn(f, o) => \E i \in 1..Len(new[l]) : new[l][i] = o
             /\ l # LevelIn(f, o) => new[l] = lev[l]
  <2>1. CASE l # LevelIn(f, o)
    <3>1. new[l] = lev[l]
      BY <2>1
    <3> QED BY <1>1, <2>1, <3>1, Zenon
  <2>2. CASE l = LevelIn(f, o)
    <3>1. new[l] = Append(lev[l], o) /\ lev[l] \in Seq(S)
      BY <1>1, <2>2
    <3>2. PICK s \in Seq(S), r \in Seq(S) :
            /\ s = lev[l] /\ r = new[l]
            /\ Len(r) = Len(s) + 1 /\ r[Len(s) + 1] = o
            /\ \A i \in 1..Len(s) : r[i] = s[i]
      <4>1. \A s \in Seq(S) : /\ Append(s, o) \in Seq(S)
                              /\ Len(Append(s, o)) = Len(s) + 1
                              /\ Append(s, o)[Len(s) + 1] = o
                              /\ \A i \in 1..Len(s) : Append(s, o)[i] = s[i]
        OBVIOUS
      <4> QED BY <3>1, <4>1, Zenon
    <3>3. /\ NoRepeats(s)
          /\ \A i \in 1..Len(s) : s[i] \in idx /\ LevelIn(f, s[i]) = l /\ s[i] # o
      BY <1>1, <3>2, Zenon
    <3>4. NoRepeats(r)
      <4> SUFFICES ASSUME NEW i \in 1..Len(r), NEW j \in 1..Len(r), r[i] = r[j]
                   PROVE  i = j
        BY DEF NoRepeats
      <4>1. CASE i \in 1..Len(s) /\ j \in 1..Len(s)
        <5>1. s[i] = s[j]
          BY <3>2, <4>1
        <5> QED BY <3>3, <4>1, <5>1 DEF NoRepeats
      <4>2. CASE i = Len(s) + 1 /\ j \in 1..Len(s)
        BY <3>2, <3>3, <4>2
      <4>3. CASE i \in 1..Len(s) /\ j = Len(s) + 1
        BY <3>2, <3>3, <4>3
      <4>4. CASE i = Len(s) + 1 /\ j = Len(s) + 1
        BY <4>4
      <4>5. Len(s) \in Nat
        OBVIOUS
      <4>6. /\ i \in 1..Len(s) \/ i = Len(s) + 1
            /\ j \in 1..Len(s) \/ j = Len(s) + 1
        BY <3>2, <4>5
      <4> QED BY <4>1, <4>2, <4>3, <4>4, <4>6
    <3>5. ASSUME NEW i \in 1..Len(r)
          PROVE  (r[i] \in idx \/ r[i] = o) /\ LevelIn(f, r[i]) = l
      <4>1. Len(s) \in Nat
        OBVIOUS
      <4>2. i \in 1..Len(s) \/ i = Len(s) + 1
        BY <3>2, <4>1
      <4>3. CASE i \in 1..Len(s)
        <5>1. r[i] = s[i]
          BY <3>2, <4>3
        <5> QED BY <3>3, <4>3, <5>1
      <4>4. CASE i = Len(s) + 1
        BY <2>2, <3>2, <4>4
      <4> QED BY <4>2, <4>3, <4>4
    <3>6. Len(s) + 1 \in 1..Len(r) /\ \A j \in 1..Len(s) : j \in 1..Len(r)
      <4>1. Len(s) \in Nat
        OBVIOUS
      <4> QED BY <3>2, <4>1
    <3> QED BY <2>2, <3>2, <3>4, <3>5, <3>6, Zenon
  <2> QED BY <2>1, <2>2
<1>3. ASSUME NEW l \in Levels, NEW i \in DOMAIN new[l]
      PROVE  /\ new[l][i] \in idx \union {o} /\ LevelIn(f, new[l][i]) = l
             /\ \A j \in DOMAIN new[l] : new[l][i] = new[l][j] => i = j
  <2>1. DOMAIN new[l] = 1..Len(new[l])
    <3>1. new[l] \in Seq(S)
      BY <1>2, Zenon
    <3> QED BY <3>1
  <2>2. (new[l][i] \in idx \/ new[l][i] = o) /\ LevelIn(f, new[l][i]) = l
    BY <1>2, <2>1, Zenon
  <2>3. \A j \in DOMAIN new[l] : new[l][i] = new[l][j] => i = j
    BY <1>2, <2>1, Zenon DEF NoRepeats
  <2> QED BY <2>2, <2>3
<1>4. ASSUME NEW p \in idx \union {o}
      PROVE  \E i \in 1..Len(new[LevelIn(f, p)]) : new[LevelIn(f, p)][i] = p
  <2>1. LevelIn(f, p) \in Levels
    OBVIOUS
  <2>2. CASE p = o
    BY <1>2, <2>1, <2>2, Zenon
  <2>3. CASE p # o
    <3>1. PICK j \in 1..Len(lev[LevelIn(f, p)]) : lev[LevelIn(f, p)][j] = p
      BY <2>3 DEF WellFormed
    <3> QED BY <1>2, <2>1, <3>1, Zenon
  <2> QED BY <2>2, <2>3
<1>5. ASSUME NEW l \in Levels, lev[l] # << >>
      PROVE  new[l] # << >> /\ Head(new[l]) = Head(lev[l])
  <2>1. PICK s \in Seq(S), r \in Seq(S) : s = lev[l] /\ r = new[l]
    BY <1>1, <1>2, Zenon
  <2>2. Len(s) \in Nat /\ Len(s) # 0
    BY <1>5, <2>1
  <2>3. 1 \in 1..Len(s)
    BY <2>2
  <2>4. 1 \in 1..Len(r) /\ r[1] = s[1]
    BY <1>2, <2>1, <2>3, Zenon
  <2>5. r # << >>
    BY <2>4
  <2>6. Head(r) = r[1] /\ Head(s) = s[1]
    BY <1>5, <2>1, <2>5, HeadTailProperties
  <2> QED BY <2>1, <2>4, <2>5, <2>6
<1>6. WellFormed(f, new, idx \union {o})
  BY <1>3, <1>4, Zenon DEF WellFormed
<1> QED BY <1>2, <1>5, <1>6, Zenon DEF Added

\* OrderBook.removeOrder takes the order out of the book, and nothing else; what else
\* changes of the order itself does not matter to the book.
LEMMA RemoveOrderShape ==
  ASSUME TypeOK, Priced, BookWellFormed, NEW o \in Placed, RemoveOrder(o),
         \A p \in index \ {o} : order'[p] = order[p]
  PROVE  /\ BookWellFormed' /\ Priced'
         /\ index' = index \ {o}
         /\ \A l \in Levels :
              /\ level'[l] # << >> => level[l] # << >>
              /\ level[l] # << >> /\ Head(level[l]) # o =>
                   level'[l] # << >> /\ Head(level'[l]) = Head(level[l])
<1>1. \A p \in index \ {o} : LevelIn(order', p) = LevelIn(order, p)
  BY DEF LevelIn
<1>2. WellFormed(order, level, index) /\ \A p \in index : LevelIn(order, p) \in Levels
  BY BookIs, RestingOrder
<1>3. CASE o \notin index
  <2>1. level' = level /\ index' = index /\ index \ {o} = index
    BY <1>3 DEF RemoveOrder, bookVars
  <2>2. WellFormed(order', level, index)
    BY <1>1, <1>2, <2>1, Zenon DEF WellFormed
  <2>3. BookWellFormed'
    BY <2>1, <2>2, BookIs
  <2> QED BY <2>1, <2>3 DEF Priced
<1>4. CASE o \in index
  <2>1. level' = [level EXCEPT ![LevelIn(order, o)] = RemoveFirst(@, o)] /\ index' = index \ {o}
    BY <1>4, BookIs DEF RemoveOrder
  <2>2. level \in [Levels -> Seq(Placed)]
    BY DEF TypeOK
  <2>3. /\ WellFormed(order', level', index \ {o})
        /\ \A l \in Levels :
             /\ level'[l] # << >> => level[l] # << >>
             /\ level[l] # << >> /\ Head(level[l]) # o =>
                  level'[l] # << >> /\ Head(level'[l]) = Head(level[l])
    <3>1. Removed(Placed, order, order', level, index, o, level')
      BY <1>1, <1>2, <1>4, <2>1, <2>2, RemovalKeeps, Zenon
    <3> QED BY <3>1 DEF Removed
  <2>4. BookWellFormed'
    BY <2>1, <2>3, BookIs
  <2> QED BY <2>1, <2>3, <2>4 DEF Priced
<1> QED BY <1>3, <1>4

\* OrderBook.addOrder queues an order that is not in the book behind those at its price.
LEMMA AddOrderShape ==
  ASSUME TypeOK, Priced, BookWellFormed, NEW o \in Placed, o \notin index, AddOrder(o),
         order' = order
  PROVE  /\ BookWellFormed' /\ Priced'
         /\ index' = index \/ index' = index \union {o}
         /\ \A l \in Levels :
              /\ level'[l] # << >> =>
                   level[l] # << >> \/ (l = LevelOf(o) /\ order[o].price # None)
              /\ level[l] # << >> =>
                   level'[l] # << >> /\ Head(level'[l]) = Head(level[l])
<1>1. CASE order[o].price = None
  <2>1. level' = level /\ index' = index
    BY <1>1 DEF AddOrder, bookVars
  <2>2. WellFormed(order', level', index')
    BY <2>1, BookIs
  <2>3. BookWellFormed'
    BY <2>2, BookIs, Zenon
  <2>4. Priced'
    BY <2>1 DEF Priced
  <2>5. ASSUME NEW l \in Levels
        PROVE  /\ level'[l] # << >> => level[l] # << >>
               /\ level[l] # << >> => level'[l] # << >> /\ Head(level'[l]) = Head(level[l])
    BY <2>1
  <2>6. index' = index
    BY <2>1
  <2> QED BY <2>3, <2>4, <2>5, <2>6
<1>2. CASE order[o].price # None
  <2>1. level' = [level EXCEPT ![LevelIn(order, o)] = Append(@, o)] /\ index' = index \union {o}
    BY <1>2, BookIs DEF AddOrder
  <2>2. WellFormed(order, level, index) /\ \A p \in index \union {o} : LevelIn(order, p) \in Levels
    BY <1>2, BookIs, RestingOrder, PlacedOrder
  <2>3. level \in [Levels -> Seq(Placed)]
    BY DEF TypeOK
  <2>4. /\ WellFormed(order, level', index \union {o})
        /\ \A l \in Levels :
             /\ level'[l] # << >> => level[l] # << >> \/ l = LevelIn(order, o)
             /\ level[l] # << >> => level'[l] # << >> /\ Head(level'[l]) = Head(level[l])
    <3>1. Added(Placed, order, level, index, o, level')
      BY <2>1, <2>2, <2>3, AdditionKeeps, Zenon
    <3> QED BY <2>1, <3>1 DEF Added
  <2>5. WellFormed(order', level', index')
    BY <2>1, <2>4
  <2>6. Priced'
    BY <1>2, <2>1 DEF Priced
  <2> QED BY <1>2, <2>1, <2>4, <2>5, <2>6, BookIs
<1> QED BY <1>1, <1>2

-----------------------------------------------------------------------------
(* What a step does to the book and to the calls that hold an order. *)

BookKept == UNCHANGED bookVars /\ \A p \in Placed : order'[p] = order[p]
BookLoses(o) ==
  o \in Placed /\ RemoveOrder(o) /\ \A p \in Placed \ {o} : order'[p] = order[p]
BookGains(t) ==
  /\ pc[t] = "rest" /\ pc'[t] \notin Entering \union Matching /\ cur[t] \in Placed /\ leaves[cur[t]] > 0
  /\ AddOrder(cur[t]) /\ order' = order

\* A step leaves the book alone, takes an order out of it, or rests the order that the
\* thread has matched.
LEMMA BookChange ==
  ASSUME TypeOK, CallsInProgress, QueuesMatch, NEW t \in Threads, Receive(t) \/ Step(t)
  PROVE  BookKept \/ (\E o : BookLoses(o)) \/ BookGains(t)
<1>1. CASE UNCHANGED <<order, bookVars>>
  BY <1>1 DEF BookKept
<1>2. CASE order' = order /\ \E o \in Placed : RemoveOrder(o)
  BY <1>2 DEF BookLoses
<1>3. CASE Register(t)
  <2>1. nextId \notin Placed
    BY <1>3 DEF Register, Placed, OrderIds
  <2>2. \A p \in Placed : order'[p] = order[p]
    BY <1>3, <2>1, PlacedOrder DEF TypeOK, Register
  <2> QED BY <1>3, <2>2 DEF BookKept, Register
<1>4. CASE EnterModify(t)
  <2>1. cur[t] \in Placed
    BY <1>4 DEF CallsInProgress, EnterModify, Goto
  <2>2. \A p \in Placed \ {cur[t]} : order'[p] = order[p]
    BY <1>4, <2>1, PlacedOrder DEF TypeOK, EnterModify
  <2> QED BY <1>4, <2>1, <2>2 DEF BookLoses, EnterModify
<1>5. CASE Rest(t)
  <2>1. cur[t] \in Placed /\ order' = order
    BY <1>5 DEF CallsInProgress, Rest, orderVars
  <2>2. CASE Rests(cur[t])
    <3>1. pc'[t] \notin Entering \union Matching
      BY <1>5 DEF TypeOK, Rest, Return, Entering, Matching
    <3> QED BY <1>5, <2>1, <2>2, <3>1 DEF BookGains, Rest, Rests
  <2>3. CASE ~Rests(cur[t])
    BY <1>1, <1>5, <2>1, <2>3 DEF Rest
  <2> QED BY <2>2, <2>3
<1>6. CASE Receive(t)
  BY <1>1, <1>6
     DEF Receive, CheckNew, CheckModify, CheckCancel, MassCancel, sharedVars, orderVars
<1>7. CASE \/ Enrol(t) \/ EnterNew(t)
           \/ DropKey(t) \/ CheckModified(t) \/ PutModified(t) \/ Restore(t)
           \/ CheckStillOpen(t) \/ MarkCancelled(t) \/ Uncache(t) \/ Forget(t)
  BY <1>1, <1>7
     DEF Enrol, EnterNew, DropKey, CheckModified, PutModified, Restore,
         CheckStillOpen, MarkCancelled, Uncache, Forget, sharedVars, orderVars
<1>8. CASE \/ Test(t) \/ Best(t) \/ NothingToPick(t) \/ CheckOwnPassive(t)
           \/ CancelOwnPassive(t) \/ OwnPassiveGone(t) \/ Pick(t) \/ Fill(t)
  BY <1>1, <1>8
     DEF Test, Best, NothingToPick, CheckOwnPassive, CancelOwnPassive, OwnPassiveGone, Pick,
         Fill, Throw, Unwind, sharedVars, orderVars
<1>9. CASE ModifyToNothing(t) \/ ModifyTooLate(t) \/ Unbook(t)
  BY <1>2, <1>9
     DEF CallsInProgress, ModifyToNothing, ModifyTooLate, Unbook, Goto, orderVars
<1>10. CASE DropStale(t) \/ PreventSelfTrade(t)
  <2>1. cur[t] \in Placed /\ order' = order
    BY <1>10 DEF CallsInProgress, DropStale, PreventSelfTrade, Goto, orderVars
  <2> QED BY <1>2, <1>10, <2>1, HeadIsQueued DEF DropStale, PreventSelfTrade
<1>11. CASE Settle(t) \/ Clear(t)
  <2>1. passive[t] \in Placed /\ order' = order
    BY <1>11 DEF CallsInProgress, Settle, Clear, Goto, orderVars
  <2> QED BY <1>1, <1>2, <1>11, <2>1 DEF Settle, Clear
<1> QED BY <1>3, <1>4, <1>5, <1>6, <1>7, <1>8, <1>9, <1>10, <1>11 DEF Step, Match

\* How a call comes to hold an order: it registers one, it finds one to modify, or it
\* goes on with the one it holds.
HoldsOn(t) ==
  /\ pc[t] \in Holding /\ cur'[t] = cur[t] /\ req'[t] = req[t]
  /\ pc'[t] \in Entering => pc[t] \in Entering
  /\ pc'[t] \in Modifying => pc[t] \in Modifying
Registers(t) ==
  /\ Register(t) /\ pc[t] = "register" /\ pc'[t] = "enrol"
  /\ cur'[t] = nextId /\ req'[t] = req[t]
  /\ order'[nextId].user = req[t].user /\ nextId \notin Placed
FindsToModify(t) ==
  \E r \in Requests[t] :
    /\ r.op = "modify" /\ req'[t] = r /\ pc'[t] = "dropKey"
    /\ cur'[t] \in Placed /\ order[cur'[t]].user = r.user

\* A call gets the order it enters or modifies by going on, registering or finding it.
LEMMA HoldingChange ==
  ASSUME TypeOK, CallsInProgress, NEW t \in Threads, Receive(t) \/ Step(t), pc'[t] \in Holding
  PROVE  HoldsOn(t) \/ Registers(t) \/ FindsToModify(t)
<1> USE DEF TypeOK
<1> DEFINE Others == Labels \ ({"register"} \union Holding)
<1>1. CASE Receive(t)
  <2>1. PICK r \in Requests[t] :
          CheckNew(t, r) \/ CheckModify(t, r) \/ CheckCancel(t, r) \/ MassCancel(t, r)
    BY <1>1 DEF Receive
  <2>2. pc'[t] \notin {"idle", "register", "unbook"}
    BY DEF Holding, Entering, Modifying, Matching
  <2>3. ~CheckNew(t, r) /\ ~CheckCancel(t, r) /\ ~MassCancel(t, r)
    BY <2>2 DEF CheckNew, CheckCancel, MassCancel, Return
  <2>4. CheckModify(t, r) /\ Modifiable(r)
    BY <2>1, <2>2, <2>3 DEF CheckModify, Return
  <2>5. r \in ModifyRequest
    <3>1. r \in Request /\ r.op = "modify"
      BY <2>4, FlowAssumption DEF CheckModify
    <3> QED BY <3>1 DEF Request, NewRequest, ModifyRequest, CancelRequest, MassCancelRequest
  <2>6. byClOrd[r.orig] \in Placed /\ order[byClOrd[r.orig]].user = r.user
    BY <2>4, <2>5 DEF Modifiable, ModifyRequest
  <2>7. FindsToModify(t)
    BY <2>4, <2>6 DEF CheckModify, FindsToModify
  <2> QED BY <2>7
<1>2. CASE Register(t)
  <2>1. nextId \in OrderIds /\ nextId \notin Placed
    BY <1>2 DEF Register, Placed, OrderIds
  <2>2. Registers(t)
    BY <1>2, <2>1 DEF Register, Registers, Goto
  <2> QED BY <2>2
<1>3. CASE Enrol(t) \/ EnterNew(t) \/ DropKey(t) \/ EnterModify(t)
  BY <1>3 DEF HoldsOn, Enrol, EnterNew, DropKey, EnterModify, Goto, callVars,
              Holding, Entering, Modifying, Matching
<1>4. CASE Match(t)
  <2>1. pc[t] \in Matching
    BY <1>4 DEF Match, Test, Best, NothingToPick, DropStale, PreventSelfTrade, CheckOwnPassive,
                CancelOwnPassive, OwnPassiveGone, Pick, Fill, Settle, Clear, Rest, Goto, Matching
  <2>2. pc'[t] \notin {"idle", "restore", "checkModified"}
    BY DEF Holding, Entering, Modifying, Matching
  <2>3. cur'[t] = cur[t] /\ req'[t] = req[t]
    BY <1>4, <2>2
       DEF Match, Test, Best, NothingToPick, DropStale, PreventSelfTrade, CheckOwnPassive,
           CancelOwnPassive, OwnPassiveGone, Pick, Fill, Settle, Clear, Rest, Throw, Unwind, Return, callVars
  <2>4. pc'[t] \in Matching
    BY <1>4, <2>2
       DEF Match, Test, Best, NothingToPick, DropStale, PreventSelfTrade, CheckOwnPassive,
           CancelOwnPassive, OwnPassiveGone, Pick, Fill, Settle, Clear, Rest, Throw, Unwind, Return, Goto,
           Matching
  <2> QED BY <2>1, <2>3, <2>4 DEF HoldsOn, Holding, Entering, Modifying, Matching
<1>5. CASE \/ ModifyToNothing(t) \/ ModifyTooLate(t) \/ CheckModified(t) \/ PutModified(t)
           \/ Restore(t) \/ Unbook(t) \/ CheckStillOpen(t) \/ MarkCancelled(t)
           \/ Uncache(t) \/ Forget(t)
  <2>1. pc'[t] \in {"checkModified", "restore", "putModified", "idle", "unbook", "checkCancel",
                    "markCancelled", "uncache", "forget"}
    BY <1>5 DEF ModifyToNothing, ModifyTooLate, CheckModified, PutModified, Restore, Unbook,
                CheckStillOpen, MarkCancelled, Uncache, Forget, Proceed, Goto, Return
  <2> QED BY <2>1 DEF Holding, Entering, Modifying, Matching
<1> QED BY <1>1, <1>2, <1>3, <1>4, <1>5 DEF Step

-----------------------------------------------------------------------------
(* The parts of the invariant, one by one. *)

\* Calls enter and modify orders of their own requests' users.
LEMMA OwnRequestsStep ==
  ASSUME TypeOK, CallsInProgress, OwnRequests, NEW t \in Threads, Receive(t) \/ Step(t)
  PROVE  OwnRequests'
<1> SUFFICES ASSUME NEW u \in Threads
             PROVE  /\ pc'[u] \in {"register"} \union Holding =>
                         req'[u] \in Requests[u] /\ req'[u].op \in {"new", "modify"}
                    /\ pc'[u] \in {"register"} \union Entering => req'[u].op = "new"
                    /\ pc'[u] \in Modifying => req'[u].op = "modify"
                    /\ pc'[u] \in Holding => order'[cur'[u]].user = req'[u].user
  BY DEF OwnRequests
<1>1. /\ pc[u] \in {"register"} \union Holding =>
           req[u] \in Requests[u] /\ req[u].op \in {"new", "modify"}
      /\ pc[u] \in {"register"} \union Entering => req[u].op = "new"
      /\ pc[u] \in Modifying => req[u].op = "modify"
      /\ pc[u] \in Holding => order[cur[u]].user = req[u].user
  BY DEF OwnRequests
<1>2. pc[u] \in Holding => cur[u] \in Placed
  BY DEF CallsInProgress, Holding, Entering, Modifying, Matching
<1>3. pc[u] \in Holding => order'[cur[u]].user = order[cur[u]].user
  BY <1>2, OrdersKept
<1>4. CASE u # t
  <2>1. pc'[u] = pc[u] /\ req'[u] = req[u] /\ cur'[u] = cur[u]
    BY <1>4, OtherThreadsKept
  <2> QED BY <1>1, <1>3, <2>1
<1>5. CASE u = t /\ pc'[t] \in Holding
  <2>1. CASE HoldsOn(t)
    BY <1>1, <1>3, <1>5, <2>1 DEF HoldsOn, Holding, Entering, Modifying, Matching
  <2>2. CASE Registers(t)
    BY <1>1, <1>5, <2>2 DEF Registers, Holding, Entering, Modifying, Matching
  <2>3. CASE FindsToModify(t)
    <3>1. order'[cur'[t]].user = order[cur'[t]].user
      BY <2>3, OrdersKept DEF FindsToModify
    <3> QED BY <1>5, <2>3, <3>1 DEF FindsToModify, Holding, Entering, Modifying, Matching
  <2> QED BY <1>5, <2>1, <2>2, <2>3, HoldingChange
<1>6. CASE u = t /\ pc'[t] = "register"
  <2>1. PICK r \in Requests[t] : CheckNew(t, r)
    <3>1. ~Step(t)
      BY <1>6 DEF TypeOK, Step, Register, Enrol, EnterNew, DropKey, EnterModify, ModifyToNothing,
        ModifyTooLate, CheckModified, PutModified, Restore, Match, Test, Best, NothingToPick,
        DropStale, PreventSelfTrade, CheckOwnPassive, CancelOwnPassive, OwnPassiveGone, Pick,
        Fill, Settle, Clear, Rest, Throw, Unwind, Unbook, CheckStillOpen, MarkCancelled, Uncache, Forget,
        Proceed, Goto, Return
    <3> QED BY <1>6, <3>1
         DEF TypeOK, Receive, CheckNew, CheckModify, CheckCancel, MassCancel, Return
  <2>2. req'[t] = r /\ r.op = "new"
    BY <1>6, <2>1 DEF TypeOK, CheckNew, Return
  <2> QED BY <1>6, <2>2 DEF Holding, Entering, Modifying, Matching
<1>7. CASE pc'[u] \notin {"register"} \union Holding
  BY <1>7 DEF Holding
<1> QED BY <1>4, <1>5, <1>6, <1>7

\* While one thread at most enters and modifies a user's orders, no two threads hold
\* one of them.
LEMMA ExclusiveStep ==
  ASSUME OneModifier, TypeOK, CallsInProgress, OwnRequests, Exclusive,
         NEW t \in Threads, Receive(t) \/ Step(t)
  PROVE  Exclusive'
<1>1. ASSUME NEW v \in Threads, v # t, pc[v] \in Holding, pc'[t] \in Holding
      PROVE  cur'[t] # cur[v]
  <2>1. cur[v] \in Placed
    BY <1>1 DEF CallsInProgress, Holding, Entering, Modifying, Matching
  <2>2. CASE HoldsOn(t)
    BY <1>1, <2>2 DEF HoldsOn, Exclusive
  <2>3. CASE Registers(t)
    BY <2>1, <2>3 DEF Registers
  <2>4. CASE FindsToModify(t)
    <3>1. PICK r \in Requests[t] : r.op = "modify" /\ order[cur'[t]].user = r.user
      BY <2>4 DEF FindsToModify
    <3>2. /\ req[v] \in Requests[v] /\ req[v].op \in {"new", "modify"}
          /\ order[cur[v]].user = req[v].user
      BY <1>1 DEF OwnRequests
    <3>3. r.user # req[v].user
      BY <1>1, <3>1, <3>2 DEF OneModifier
    <3> QED BY <3>1, <3>2, <3>3
  <2> QED BY <1>1, <2>2, <2>3, <2>4, HoldingChange
<1>2. ASSUME NEW u \in Threads, u # t
      PROVE  pc'[u] = pc[u] /\ cur'[u] = cur[u]
  BY <1>2, OtherThreadsKept
<1>3. ASSUME NEW u \in Threads, NEW v \in Threads, u # v, pc'[u] \in Holding, pc'[v] \in Holding
      PROVE  cur'[u] # cur'[v]
  <2>1. CASE u = t
    BY <1>1, <1>2, <1>3, <2>1
  <2>2. CASE v = t
    BY <1>1, <1>2, <1>3, <2>2
  <2>3. CASE u # t /\ v # t
    BY <1>2, <1>3, <2>3 DEF Exclusive
  <2> QED BY <2>1, <2>2, <2>3
<1> QED BY <1>3 DEF Exclusive

\* A call that had an order to modify, and matches it, has just entered its book.
LEMMA EntersBook ==
  ASSUME TypeOK, NEW t \in Threads, Receive(t) \/ Step(t),
         pc[t] \in Modifying, pc'[t] \in Entering \union Matching
  PROVE  EnterModify(t)
<1>1. pc'[t] \notin {"enterModify", "restore", "checkModified", "idle"}
  BY DEF Entering, Matching
<1> QED BY <1>1
     DEF TypeOK, Receive, CheckNew, CheckModify, CheckCancel, MassCancel, Serve, Step,
         Register, Enrol, EnterNew, DropKey, ModifyToNothing, ModifyTooLate, CheckModified,
         PutModified, Restore, Match, Test, Best, NothingToPick, DropStale, PreventSelfTrade,
         CheckOwnPassive, CancelOwnPassive, OwnPassiveGone, Pick, Fill, Settle, Clear, Rest, Unbook,
         CheckStillOpen, MarkCancelled, Uncache, Forget, Goto, Modifying

\* An order on its way into the book stays outside it until it rests.
LEMMA NotInBookStep ==
  ASSUME TypeOK, CallsInProgress, QueuesMatch, Exclusive, NotInBook, Priced, BookWellFormed,
         NEW t \in Threads, Receive(t) \/ Step(t)
  PROVE  NotInBook'
<1> SUFFICES ASSUME NEW u \in Threads, pc'[u] \in Entering \union Matching
             PROVE  cur'[u] \notin index'
  BY DEF NotInBook
<1>1. BookKept => index' = index
  BY DEF BookKept, bookVars
<1>2. \A o : BookLoses(o) => index' = index \ {o}
  BY DEF BookLoses, RemoveOrder, bookVars
<1>3. BookGains(t) => index' \subseteq index \union {cur[t]}
  BY DEF BookGains, AddOrder, bookVars
<1>4. CASE u # t
  <2>1. pc'[u] = pc[u] /\ cur'[u] = cur[u] /\ cur[u] \notin index
    BY <1>4, OtherThreadsKept DEF NotInBook
  <2>2. BookGains(t) => cur[t] # cur[u]
    BY <1>4, <2>1 DEF BookGains, Exclusive, Holding, Matching
  <2> QED BY <1>1, <1>2, <1>3, <2>1, <2>2, BookChange
<1>5. CASE u = t
  <2>1. ~BookGains(t)
    BY <1>5 DEF BookGains, Entering, Matching
  <2>2. index' \subseteq index
    BY <1>1, <1>2, <2>1, BookChange
  <2>3. CASE HoldsOn(t) /\ pc[t] \in Entering \union Matching
    BY <1>5, <2>2, <2>3 DEF HoldsOn, NotInBook
  <2>4. CASE Registers(t)
    BY <1>5, <2>2, <2>4 DEF Registers, TypeOK
  <2>5. CASE pc[t] \in Modifying
    <3>1. EnterModify(t)
      BY <1>5, <2>5, EntersBook
    <3>2. cur'[t] = cur[t] /\ RemoveOrder(cur[t])
      BY <3>1 DEF EnterModify, callVars
    <3> QED BY <1>5, <3>2 DEF RemoveOrder, bookVars
  <2>6. ~FindsToModify(t)
    BY <1>5 DEF FindsToModify, Entering, Matching
  <2> QED BY <1>5, <2>3, <2>4, <2>5, <2>6, HoldingChange DEF HoldsOn, Holding
<1> QED BY <1>4, <1>5

\* The book stays well-formed.
LEMMA WellFormedStep ==
  ASSUME TypeOK, CallsInProgress, QueuesMatch, NotInBook, Priced, BookWellFormed,
         NEW t \in Threads, Receive(t) \/ Step(t)
  PROVE  BookWellFormed' /\ Priced'
<1>1. CASE BookKept
  <2>1. level' = level /\ index' = index /\ \A p \in index : order'[p] = order[p]
    BY <1>1 DEF BookKept, bookVars, TypeOK
  <2>2. WellFormed(order, level, index)
    BY BookIs
  <2>3. WellFormed(order', level', index')
    BY <2>1, <2>2 DEF WellFormed, LevelIn
  <2>4. BookWellFormed'
    BY <2>3, BookIs
  <2> QED BY <2>1, <2>4 DEF Priced
<1>2. CASE \E o : BookLoses(o)
  <2>1. PICK o \in Placed : RemoveOrder(o) /\ \A p \in Placed \ {o} : order'[p] = order[p]
    BY <1>2 DEF BookLoses
  <2>2. \A p \in index \ {o} : order'[p] = order[p]
    BY <2>1 DEF TypeOK
  <2> QED BY <2>1, <2>2, RemoveOrderShape
<1>3. CASE BookGains(t)
  <2>1. cur[t] \in Placed /\ cur[t] \notin index /\ AddOrder(cur[t]) /\ order' = order
    BY <1>3 DEF BookGains, NotInBook, Matching
  <2> QED BY <2>1, AddOrderShape
<1> QED BY <1>1, <1>2, <1>3, BookChange

\* What is bid and asked for after a step was bid and asked for before, but for the
\* price of an order that came to rest.
LEMMA OccupiedChange ==
  ASSUME TypeOK, CallsInProgress, QueuesMatch, NotInBook, Priced, BookWellFormed,
         NEW t \in Threads, Receive(t) \/ Step(t),
         NEW s \in Symbols, NEW side \in Sides, NEW p \in Occupied(s, side)'
  PROVE  \/ p \in Occupied(s, side)
         \/ BookGains(t) /\ <<s, side, p>> = LevelOf(cur[t]) /\ order[cur[t]].price # None
<1> DEFINE l == <<s, side, p>>
<1>1. p \in Prices /\ level'[l] # << >> /\ l \in Levels
  BY DEF Occupied, Levels
<1>2. level[l] # << >> => p \in Occupied(s, side)
  BY <1>1 DEF Occupied
<1> HIDE DEF l
<1>3. CASE BookKept
  BY <1>1, <1>2, <1>3 DEF BookKept, bookVars
<1>4. CASE \E o : BookLoses(o)
  <2>1. PICK o \in Placed : RemoveOrder(o) /\ \A q \in Placed \ {o} : order'[q] = order[q]
    BY <1>4 DEF BookLoses
  <2>2. \A q \in index \ {o} : order'[q] = order[q]
    BY <2>1 DEF TypeOK
  <2>3. level'[l] # << >> => level[l] # << >>
    BY <1>1, <2>1, <2>2, RemoveOrderShape
  <2> QED BY <1>1, <1>2, <2>3
<1>5. CASE BookGains(t)
  <2>1. cur[t] \in Placed /\ cur[t] \notin index /\ AddOrder(cur[t]) /\ order' = order
    BY <1>5 DEF BookGains, NotInBook, Matching
  <2>2. level'[l] # << >> => level[l] # << >> \/ (l = LevelOf(cur[t]) /\ order[cur[t]].price # None)
    BY <1>1, <2>1, AddOrderShape
  <2> QED BY <1>1, <1>2, <1>5, <2>2 DEF l
<1> QED BY <1>3, <1>4, <1>5, BookChange

\* The book stays uncrossed: what comes to rest accepts no price on the other side.
LEMMA NeverCrossedStep ==
  ASSUME TypeOK, CallsInProgress, QueuesMatch, NotInBook, Priced, BookWellFormed,
         NeverCrossed, RestsBehind, NEW t \in Threads, Receive(t) \/ Step(t)
  PROVE  NeverCrossed'
<1> SUFFICES ASSUME NEW s \in Symbols,
                    NEW bid \in Occupied(s, "BUY")', NEW ask \in Occupied(s, "SELL")'
             PROVE  bid < ask
  BY DEF NeverCrossed
<1>1. bid \in Prices /\ ask \in Prices /\ bid \in Nat /\ ask \in Nat
  BY FlowAssumption DEF Occupied
<1>2. CASE bid \in Occupied(s, "BUY") /\ ask \in Occupied(s, "SELL")
  BY <1>2 DEF NeverCrossed
<1>3. ASSUME BookGains(t), NEW side \in Sides, NEW p \in Prices,
             <<s, side, p>> = LevelOf(cur[t]), order[cur[t]].price # None,
             NEW q \in Occupied(s, Opposite(side))
      PROVE  IF side = "BUY" THEN p < q ELSE p > q
  <2>1. order[cur[t]].symbol = s /\ order[cur[t]].side = side /\ order[cur[t]].price = p
    BY <1>3 DEF LevelOf
  <2>2. ~Accepts(cur[t], q)
    BY <1>3, <2>1 DEF BookGains, RestsBehind
  <2>3. p \in Nat /\ q \in Nat
    BY FlowAssumption DEF Occupied
  <2> QED BY <1>3, <2>1, <2>2, <2>3 DEF Accepts, Sides
<1>4. ASSUME BookGains(t), <<s, "BUY", bid>> = LevelOf(cur[t]), order[cur[t]].price # None,
             <<s, "SELL", ask>> = LevelOf(cur[t])
      PROVE  FALSE
  BY <1>4 DEF LevelOf
<1>5. CASE bid \notin Occupied(s, "BUY")
  <2>1. BookGains(t) /\ <<s, "BUY", bid>> = LevelOf(cur[t]) /\ order[cur[t]].price # None
    BY <1>5, OccupiedChange DEF Sides
  <2>2. ask \in Occupied(s, "SELL")
    BY <1>4, <2>1, OccupiedChange DEF Sides
  <2> QED BY <1>1, <1>3, <2>1, <2>2 DEF Sides, Opposite
<1>6. CASE ask \notin Occupied(s, "SELL")
  <2>1. BookGains(t) /\ <<s, "SELL", ask>> = LevelOf(cur[t]) /\ order[cur[t]].price # None
    BY <1>6, OccupiedChange DEF Sides
  <2>2. bid \in Occupied(s, "BUY")
    BY <1>4, <2>1, OccupiedChange DEF Sides
  <2> QED BY <1>1, <1>3, <2>1, <2>2 DEF Sides, Opposite
<1> QED BY <1>2, <1>5, <1>6

\* Under a symbol's monitor no other thread changes an order of that symbol, nor adds to
\* its book.
LEMMA BookGuarded ==
  ASSUME TypeOK, CallsInProgress, QueuesMatch, MonitorDiscipline, NEW t \in Threads, Receive(t) \/ Step(t),
         NEW u \in Threads, u # t, pc[u] \in Matching
  PROVE  /\ \A o \in Placed : order[o].symbol = order[cur[u]].symbol => order'[o] = order[o]
         /\ BookGains(t) => order[cur[t]].symbol # order[cur[u]].symbol
<1>1. cur[u] \in Placed
  BY DEF CallsInProgress, Matching
<1>2. monitor[order[cur[u]].symbol] = u /\ u # None
  BY <1>1, PlacedOrder, FlowAssumption DEF MonitorDiscipline
<1>3. CASE EnterModify(t)
  <2>1. monitor[order[cur[t]].symbol] = None
    BY <1>3 DEF EnterModify, Enter
  <2>2. \A o \in Placed : o # cur[t] => order'[o] = order[o]
    BY <1>3, PlacedOrder DEF TypeOK, EnterModify
  <2>3. ~BookGains(t)
    BY <1>3 DEF BookGains, EnterModify, Goto
  <2> QED BY <1>2, <2>1, <2>2, <2>3
<1>4. CASE ~EnterModify(t)
  <2>1. \A o \in Placed : order'[o] = order[o]
    <3>1. CASE UNCHANGED order
      BY <3>1
    <3>2. CASE Register(t)
      <4>1. nextId \notin Placed
        BY <3>2 DEF Register, Placed, OrderIds
      <4> QED BY <3>2, <4>1, PlacedOrder DEF TypeOK, Register
    <3>3. CASE Receive(t)
      BY <3>1, <3>3 DEF Receive, CheckNew, CheckModify, CheckCancel, MassCancel, sharedVars, orderVars
    <3>4. CASE Match(t)
      BY <3>1, <3>4
         DEF Match, Test, Best, NothingToPick, DropStale, PreventSelfTrade, CheckOwnPassive,
             CancelOwnPassive, OwnPassiveGone, Pick, Fill, Settle, Clear, Rest, Throw, Unwind, sharedVars, orderVars
    <3>5. CASE Step(t) /\ ~Register(t) /\ ~Match(t)
      BY <1>4, <3>1, <3>5
         DEF Step, Enrol, EnterNew, DropKey, ModifyToNothing, ModifyTooLate, CheckModified,
             PutModified, Restore, Unbook, CheckStillOpen, MarkCancelled, Uncache, Forget,
             sharedVars, orderVars
    <3> QED BY <3>2, <3>3, <3>4, <3>5
  <2>2. BookGains(t) => monitor[order[cur[t]].symbol] = t
    BY PlacedOrder DEF BookGains, MonitorDiscipline, Matching
  <2> QED BY <1>2, <2>1, <2>2
<1> QED BY <1>3, <1>4

\* What is left of an order that is to rest reaches no price on the other side, and goes
\* on reaching none until it rests: others may only take orders out of that book.
LEMMA RestsBehindStep ==
  ASSUME TypeOK, CallsInProgress, QueuesMatch, MonitorDiscipline, FillIsSafe,
         NotInBook, Priced, BookWellFormed, RestsBehind,
         NEW t \in Threads, Receive(t) \/ Step(t)
  PROVE  RestsBehind'
<1> SUFFICES ASSUME NEW u \in Threads, pc'[u] = "rest", leaves'[cur'[u]] > 0,
                    NEW p \in Occupied(order[cur[u]].symbol, Opposite(order[cur[u]].side))',
                    Accepts(cur[u], p)'
             PROVE  FALSE
  BY DEF RestsBehind
<1>1. CASE u # t
  <2>1. pc[u] = "rest" /\ cur'[u] = cur[u] /\ cur[u] \in Placed
    BY <1>1, OtherThreadsKept DEF CallsInProgress
  <2>2. leaves'[cur[u]] = leaves[cur[u]]
    BY <1>1, <2>1, LeavesGuarded DEF Matching
  <2>3. /\ order'[cur[u]] = order[cur[u]]
        /\ BookGains(t) => order[cur[t]].symbol # order[cur[u]].symbol
    BY <1>1, <2>1, BookGuarded DEF Matching
  <2>4. /\ order[cur[u]].symbol \in Symbols
        /\ order[cur[u]].side \in Sides /\ Opposite(order[cur[u]].side) \in Sides
    BY <2>1, PlacedOrder DEF Opposite, Sides
  <2>5. /\ p \in Prices
        /\ level'[<<order'[cur'[u]].symbol, Opposite(order'[cur'[u]].side), p>>] # << >>
    BY DEF Occupied
  <2>6. p \in Occupied(order[cur[u]].symbol, Opposite(order[cur[u]].side))
    <3>1. PICK s \in Symbols, side \in Sides :
            s = order[cur[u]].symbol /\ side = Opposite(order[cur[u]].side)
      BY <2>4
    <3>2. p \in Occupied(s, side)'
      <4>1. order'[cur'[u]].symbol = s /\ Opposite(order'[cur'[u]].side) = side
        BY <2>1, <2>3, <3>1
      <4>2. level'[<<s, side, p>>] # << >>
        BY <2>5, <4>1
      <4> QED BY <2>5, <4>2 DEF Occupied
    <3>3. ~(BookGains(t) /\ <<s, side, p>> = LevelOf(cur[t]))
      BY <2>3, <3>1 DEF LevelOf
    <3>4. p \in Occupied(s, side)
      BY <3>2, <3>3, OccupiedChange
    <3> QED BY <3>1, <3>4
  <2>7. Accepts(cur[u], p)
    BY <2>1, <2>3 DEF Accepts
  <2> QED BY <2>1, <2>2, <2>6, <2>7 DEF RestsBehind
<1>2. CASE u = t
  <2>1. Test(t) \/ Best(t) \/ NothingToPick(t)
    BY <1>2 DEF TypeOK, Receive, CheckNew, CheckModify, CheckCancel, MassCancel, Step, Register,
      Enrol, EnterNew, DropKey, EnterModify, ModifyToNothing, ModifyTooLate, CheckModified,
      PutModified, Restore, Match, DropStale, PreventSelfTrade, CheckOwnPassive,
      CancelOwnPassive, OwnPassiveGone, Pick, Fill, Settle, Clear, Rest, Throw, Unwind, Unbook,
      CheckStillOpen, MarkCancelled, Uncache, Forget, Proceed, Goto, Return
  <2>2. cur[t] \in Placed
    BY <2>1 DEF CallsInProgress, Test, Best, NothingToPick, Goto
  <2>3. UNCHANGED <<order, level, leaves, cur>>
    BY <1>2, <2>1 DEF TypeOK, Test, Best, NothingToPick, Throw, Unwind, Return, sharedVars, orderVars, bookVars, callVars
  <2>4. /\ leaves[cur[t]] > 0 /\ Accepts(cur[t], p)
        /\ p \in Occupied(order[cur[t]].symbol, Opposite(order[cur[t]].side))
    BY <1>2, <2>3 DEF Accepts, Occupied
  <2>5. CASE Test(t)
    BY <1>2, <2>4, <2>5 DEF TypeOK, Test, Accepts
  <2>6. CASE Best(t)
    <3>1. PICK best \in Prices :
            /\ IsBest(order[cur[t]].symbol, Opposite(order[cur[t]].side), best)
            /\ ~Accepts(cur[t], best)
      BY <1>2, <2>6 DEF TypeOK, Best, Throw, Unwind, Return
    <3>2. p = best \/ Ahead(Opposite(order[cur[t]].side), best, p)
      BY <2>4, <3>1 DEF IsBest
    <3>3. order[cur[t]].side \in Sides /\ order[cur[t]].price \in Nat /\ p \in Nat /\ best \in Nat
      BY <2>2, <2>4, PlacedOrder, FlowAssumption DEF Occupied, Accepts, Order
    <3> QED BY <2>4, <3>1, <3>2, <3>3 DEF Accepts, Ahead, Opposite, Sides
  <2>7. CASE NothingToPick(t)
    BY <2>4, <2>7 DEF NothingToPick
  <2> QED BY <2>1, <2>5, <2>6, <2>7
<1> QED BY <1>1, <1>2

\* The order at the head of the best level is ahead of all that rest on its side.
LEMMA HeadIsInFront ==
  ASSUME TypeOK, QueuesMatch, Priced, BookWellFormed, NEW a \in Placed, NEW p, IsHead(a, p)
  PROVE  InFront(p)
<1> DEFINE s == order[a].symbol  side == Opposite(order[a].side)
<1>1. PICK price \in Prices : IsBest(s, side, price) /\ p = Head(level[<<s, side, price>>])
  BY DEF IsHead
<1>2. s \in Symbols /\ side \in Sides
  BY PlacedOrder DEF Opposite, Sides
<1> DEFINE l == <<s, side, price>>
<1>3. l \in Levels
  BY <1>2 DEF Levels
<1>4. level[l] # << >>
  BY <1>1 DEF IsBest, Occupied
<1> HIDE DEF l
<1>5. 1 \in DOMAIN level[l] /\ p = level[l][1]
  <2>1. level[l] \in Seq(Placed) /\ p = Head(level[l])
    BY <1>1, <1>3 DEF TypeOK, l
  <2> QED BY <1>4, <2>1
<1>6. LevelOf(p) = l
  BY <1>3, <1>5 DEF BookWellFormed
<1>7. order[p].symbol = s /\ order[p].side = side /\ order[p].price = price
  BY <1>6 DEF LevelOf, l
<1>8. ASSUME NEW q \in index, order[q].symbol = s, order[q].side = side
      PROVE  ~Ahead(side, order[q].price, price)
  <2>1. LevelOf(q) \in Levels /\ \E i \in 1..Len(level[LevelOf(q)]) : level[LevelOf(q)][i] = q
    BY RestingOrder
  <2>2. level[LevelOf(q)] # << >>
    BY <2>1
  <2>3. LevelOf(q) = <<s, side, order[q].price>> /\ order[q].price \in Prices
    BY <1>8, <2>1 DEF LevelOf, Levels
  <2>4. order[q].price \in Occupied(s, side)
    BY <2>2, <2>3 DEF Occupied
  <2>5. order[q].price = price \/ Ahead(side, price, order[q].price)
    BY <1>1, <2>4 DEF IsBest
  <2>6. price \in Nat /\ order[q].price \in Nat
    BY <2>3, FlowAssumption
  <2> QED BY <2>5, <2>6 DEF Ahead
<1>9. Head(level[LevelOf(p)]) = p
  BY <1>1, <1>6 DEF l
<1> QED BY <1>7, <1>8, <1>9 DEF InFront

\* An order that was picked stays in front until it is filled: others may only take
\* orders out of its book.
LEMMA FillsInFrontStep ==
  ASSUME TypeOK, CallsInProgress, QueuesMatch, MonitorDiscipline, FillIsSafe,
         NotInBook, Priced, BookWellFormed, FillsInFront,
         NEW t \in Threads, Receive(t) \/ Step(t)
  PROVE  FillsInFront'
<1> SUFFICES ASSUME NEW u \in Threads, pc'[u] = "fill"
             PROVE  InFront(passive[u])'
  BY DEF FillsInFront
<1>1. CASE u # t
  <2>0. PICK p : p = passive[u]
    OBVIOUS
  <2>1. /\ pc[u] = "fill" /\ passive'[u] = p /\ p \in Placed /\ InFront(p)
        /\ order[p].symbol = order[cur[u]].symbol
    BY <1>1, <2>0, OtherThreadsKept DEF CallsInProgress, FillsInFront, FillIsSafe
  <2>2. /\ \A o \in Placed : order[o].symbol = order[p].symbol => order'[o] = order[o]
        /\ BookGains(t) => order[cur[t]].symbol # order[p].symbol
    BY <1>1, <2>1, BookGuarded DEF Matching
  <2>3. \A q \in index' : q \in index \/ (BookGains(t) /\ q = cur[t])
    BY BookChange
       DEF BookKept, BookLoses, BookGains, AddOrder, RemoveOrder, bookVars
  <2>4. ASSUME NEW q \in index', order'[q].symbol = order'[p].symbol,
               order'[q].side = order'[p].side
        PROVE  ~Ahead(order'[p].side, order'[q].price, order'[p].price)
    <3>1. q \in Placed
      BY <2>3 DEF TypeOK, BookGains
    <3>2. order[q].symbol = order[p].symbol
      BY <2>1, <2>4, <3>1, OrdersKept
    <3>3. q \in index
      BY <2>2, <2>3, <3>2
    <3>4. order'[q] = order[q] /\ order'[p] = order[p]
      BY <2>1, <2>2, <3>1, <3>2
    <3> QED BY <2>1, <2>4, <3>3, <3>4 DEF InFront
  <2>5. ASSUME p \in index'
        PROVE  Head(level'[LevelOf(p)']) = p
    <3>1. p \in index /\ order'[p] = order[p]
      BY <2>1, <2>2, <2>3, <2>5
    <3>2. LevelOf(p)' = LevelOf(p) /\ LevelOf(p) \in Levels
      BY <3>1, RestingOrder DEF LevelOf
    <3>3. level[LevelOf(p)] # << >> /\ Head(level[LevelOf(p)]) = p
      <4>1. \E i \in 1..Len(level[LevelOf(p)]) : level[LevelOf(p)][i] = p
        BY <3>1, RestingOrder
      <4> QED BY <2>1, <3>1, <4>1 DEF InFront
    <3>4. CASE BookKept
      BY <3>2, <3>3, <3>4 DEF BookKept, bookVars
    <3>5. CASE \E o : BookLoses(o)
      <4>1. PICK o \in Placed : RemoveOrder(o) /\ \A q \in Placed \ {o} : order'[q] = order[q]
        BY <3>5 DEF BookLoses
      <4>2. \A q \in index \ {o} : order'[q] = order[q]
        BY <4>1 DEF TypeOK
      <4>3. index' = index \ {o}
        BY <4>1, <4>2, RemoveOrderShape
      <4>4. o # p
        BY <2>5, <4>3
      <4>5. Head(level'[LevelOf(p)]) = Head(level[LevelOf(p)])
        BY <3>2, <3>3, <4>1, <4>2, <4>4, RemoveOrderShape
      <4> QED BY <3>2, <3>3, <4>5
    <3>6. CASE BookGains(t)
      <4>1. cur[t] \in Placed /\ cur[t] \notin index /\ AddOrder(cur[t]) /\ order' = order
        BY <3>6 DEF BookGains, NotInBook, Matching
      <4>2. Head(level'[LevelOf(p)]) = Head(level[LevelOf(p)])
        BY <3>2, <3>3, <4>1, AddOrderShape
      <4> QED BY <3>2, <3>3, <4>2
    <3> QED BY <3>4, <3>5, <3>6, BookChange
  <2>6. InFront(p)'
    BY <2>4, <2>5 DEF InFront
  <2> QED BY <2>1, <2>6 DEF InFront, LevelOf
<1>2. CASE u = t
  <2>1. Pick(t)
    BY <1>2 DEF TypeOK, Receive, CheckNew, CheckModify, CheckCancel, MassCancel, Step, Register,
      Enrol, EnterNew, DropKey, EnterModify, ModifyToNothing, ModifyTooLate, CheckModified,
      PutModified, Restore, Match, Test, Best, NothingToPick, DropStale, PreventSelfTrade,
      CheckOwnPassive, CancelOwnPassive, OwnPassiveGone, Fill, Settle, Clear, Rest, Throw, Unwind, Unbook,
      CheckStillOpen, MarkCancelled, Uncache, Forget, Proceed, Goto, Return
  <2>2. PICK p \in OrderIds : IsHead(cur[t], p) /\ passive' = [passive EXCEPT ![t] = p]
    BY <2>1 DEF Pick
  <2>3. cur[t] \in Placed /\ passive'[t] = p
    BY <2>1, <2>2 DEF TypeOK, CallsInProgress, Pick, Goto
  <2>4. InFront(p)
    BY <2>2, <2>3, HeadIsInFront
  <2>5. UNCHANGED <<order, level, index>>
    BY <2>1 DEF Pick, sharedVars, orderVars, bookVars
  <2>6. InFront(p)'
    BY <2>4, <2>5 DEF InFront, LevelOf
  <2> QED BY <1>2, <2>3, <2>6 DEF InFront, LevelOf
<1> QED BY <1>1, <1>2

-----------------------------------------------------------------------------
(* The theorems. *)

\* The book is empty when the engine starts.
LEMMA BookInit == Init => BookInvariant
<1> SUFFICES ASSUME Init PROVE BookInvariant
  OBVIOUS
<1> USE DEF Init
<1>1. \A t \in Threads : pc[t] = "idle"
  OBVIOUS
<1>2. OwnRequests /\ Exclusive /\ NotInBook /\ RestsBehind /\ FillsInFront
  BY <1>1 DEF OwnRequests, Exclusive, NotInBook, RestsBehind, FillsInFront,
              Holding, Entering, Modifying, Matching
<1>3. Priced
  BY DEF Priced
<1>4. BookWellFormed
  <2>1. \A l \in Levels : DOMAIN level[l] = {}
    OBVIOUS
  <2> QED BY <2>1 DEF BookWellFormed
<1>5. NeverCrossed
  <2>1. \A s \in Symbols : Occupied(s, "BUY") = {}
    BY DEF Occupied, Levels, Sides
  <2> QED BY <2>1 DEF NeverCrossed
<1> QED BY <1>2, <1>3, <1>4, <1>5 DEF BookInvariant

\* Every step preserves the book's invariant.
LEMMA BookStep ==
  ASSUME OneModifier, EngineInvariant, BookInvariant, [Next]_vars
  PROVE  BookInvariant'
<1> USE DEF EngineInvariant, BookInvariant
<1>1. CASE UNCHANGED vars
  <2> USE <1>1 DEF vars, sharedVars, orderVars, bookVars, callVars
  <2>1. OwnRequests' /\ Exclusive' /\ NotInBook' /\ Priced'
    BY DEF OwnRequests, Exclusive, NotInBook, Priced
  <2>2. BookWellFormed'
    BY DEF BookWellFormed, LevelOf
  <2>3. NeverCrossed' /\ RestsBehind' /\ FillsInFront'
    BY DEF NeverCrossed, RestsBehind, FillsInFront, InFront, Occupied, Accepts, LevelOf
  <2> QED BY <2>1, <2>2, <2>3
<1>2. CASE \E t \in Threads : Receive(t) \/ Step(t)
  <2>1. PICK t \in Threads : Receive(t) \/ Step(t)
    BY <1>2
  <2>2. OwnRequests' /\ Exclusive' /\ NotInBook'
    BY <2>1, OwnRequestsStep, ExclusiveStep, NotInBookStep
  <2>3. BookWellFormed' /\ Priced'
    BY <2>1, WellFormedStep
  <2>4. NeverCrossed' /\ RestsBehind' /\ FillsInFront'
    BY <2>1, NeverCrossedStep, RestsBehindStep, FillsInFrontStep
  <2> QED BY <2>2, <2>3, <2>4
<1> QED BY <1>1, <1>2 DEF Next, Quiet

\* Every reachable state satisfies the book's invariant.
THEOREM BookInvariantHolds ==
  ASSUME OneModifier
  PROVE  Spec => []BookInvariant
<1>1. Init => BookInvariant
  BY BookInit
<1>2. EngineInvariant /\ BookInvariant /\ [Next]_vars => BookInvariant'
  BY BookStep
<1> QED BY <1>1, <1>2, EngineInvariantHolds, PTL DEF Spec

\* OrderBook's index and its price levels describe one book at every instant, whatever
\* cancels, matches and entries interleave: an indexed order is queued exactly once, at
\* its current price, and nothing else is queued.
THEOREM BookStaysWellFormed ==
  ASSUME OneModifier
  PROVE  Spec => []BookWellFormed
<1>1. BookInvariant => BookWellFormed
  BY DEF BookInvariant
<1> QED BY <1>1, BookInvariantHolds, PTL

\* No bid reaches an ask between matches: executeMatching leaves nothing to match, and a
\* cancel, which takes no monitor, can only make room.
THEOREM BookStaysUncrossed ==
  ASSUME OneModifier
  PROVE  Spec => []Uncrossed
<1>1. BookInvariant => Uncrossed
  BY DEF BookInvariant, NeverCrossed, Uncrossed
<1> QED BY <1>1, BookInvariantHolds, PTL

\* Price-time priority: when an order trades, nothing on its side of the book has a
\* better price, and nothing precedes it in its own queue, although cancels may have
\* emptied levels since it was picked.
THEOREM PriorityIsKept ==
  ASSUME OneModifier
  PROVE  Spec => PriorityRespected
<1>1. ASSUME BookInvariant, [Next]_vars
      PROVE  [\A t \in Threads : Trading(t) =>
                LET p == passive[t] IN
                /\ \A q \in index : order[q].symbol = order[p].symbol /\ order[q].side = order[p].side
                     => ~Ahead(order[p].side, order[q].price, order[p].price)
                /\ p \in index => Head(level[LevelOf(p)]) = p]_vars
  BY <1>1 DEF BookInvariant, FillsInFront, InFront, Trading
<1> QED BY <1>1, BookInvariantHolds, PTL DEF Spec, PriorityRespected
=============================================================================
