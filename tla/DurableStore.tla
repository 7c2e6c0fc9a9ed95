---------------------------- MODULE DurableStore ----------------------------
(***************************************************************************)
(* What write-behind persistence promises, whatever its queues and writers *)
(* look like: each order counts its changes; the store takes up changes    *)
(* later, one or several at a time, never one that has not happened, and   *)
(* as long as the server runs it catches up with every order, but for the  *)
(* changes a refused write has cost: two at most.  A change after one of   *)
(* those is stored again.  Nothing is promised of what the server had not  *)
(* written when it stopped.                                                *)
(***************************************************************************)
EXTENDS Naturals

CONSTANTS Orders, MaxRev

VARIABLES
  rev,      \* how many changes each order has seen
  written,  \* how many of them the store has taken up
  lost,     \* the changes a refused write has cost: order and number
  running

vars == <<rev, written, lost, running>>

Init ==
  /\ rev = [o \in Orders |-> 0]
  /\ written = [o \in Orders |-> 0]
  /\ lost = {}
  /\ running = TRUE

\* A fill changes two orders at once.
Change ==
  /\ running
  /\ \E changed \in SUBSET Orders :
       /\ changed # {}
       /\ rev' = [o \in Orders |-> IF o \in changed THEN rev[o] + 1 ELSE rev[o]]
  /\ UNCHANGED <<written, lost, running>>

Store ==
  /\ running
  /\ written' \in [Orders -> 0..MaxRev]
  /\ \A o \in Orders : written[o] <= written'[o] /\ written'[o] <= rev[o]
  /\ UNCHANGED <<rev, lost, running>>

Fail ==
  /\ running
  /\ \E o, p \in Orders, i, j \in 0..MaxRev :
       /\ i <= rev[o] /\ j <= rev[p]
       /\ lost' = lost \union {<<o, i>>, <<p, j>>}
  /\ UNCHANGED <<rev, written, running>>

Stop ==
  /\ running
  /\ running' = FALSE
  /\ UNCHANGED <<rev, written, lost>>

Next == Change \/ Store \/ Fail \/ Stop

CaughtUp(o) == written[o] = rev[o] \/ <<o, rev[o]>> \in lost \/ ~running

Spec == Init /\ [][Next]_vars /\ \A o \in Orders : []<>CaughtUp(o)
=============================================================================
