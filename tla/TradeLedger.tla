---------------------------- MODULE TradeLedger ----------------------------
(***************************************************************************)
(* What an exchange promises its participants, without books, caches,      *)
(* threads or monitors: an order is opened once, can be amended or closed  *)
(* while it is open, and is executed only by deals with an open order of   *)
(* the other side, at a price both accept, for no more than what either    *)
(* has left.  A closed order is never touched again.                       *)
(***************************************************************************)
EXTENDS Integers, Sequences

CONSTANTS OrderIds, Users, Symbols, Prices, MaxQty, None

VARIABLES
  commitment,  \* what each order commits its user to, None before it is placed
  open,        \* the orders that may still be executed
  executed,    \* the quantity of each order that was executed
  deals        \* every deal, oldest first

ledgerVars == <<commitment, open, executed, deals>>

Commitment ==
  [user: Users, symbol: Symbols, side: {"BUY", "SELL"},
   limit: Prices \union {None}, qty: 1..MaxQty]

LedgerInit ==
  /\ commitment = [o \in OrderIds |-> None]
  /\ open = {}
  /\ executed = [o \in OrderIds |-> 0]
  /\ deals = <<>>

Place(o) ==
  /\ commitment[o] = None
  /\ \E c \in Commitment : commitment' = [commitment EXCEPT ![o] = c]
  /\ open' = open \union {o}
  /\ UNCHANGED <<executed, deals>>

\* The user, the symbol and the side never change; the quantity stays above
\* what was executed.
Amend(o) ==
  /\ o \in open
  /\ \E limit \in Prices \union {None}, q \in 1..MaxQty :
       /\ q > executed[o]
       /\ commitment' = [commitment EXCEPT ![o] = [@ EXCEPT !.limit = limit, !.qty = q]]
  /\ UNCHANGED <<open, executed, deals>>

Close(o) ==
  /\ o \in open
  /\ open' = open \ {o}
  /\ UNCHANGED <<commitment, executed, deals>>

Remaining(o) == commitment[o].qty - executed[o]

BuyerAccepts(o, p)  == commitment[o].limit = None \/ p <= commitment[o].limit
SellerAccepts(o, p) == commitment[o].limit = None \/ p >= commitment[o].limit

\* A deal closes exactly the orders it completes.
Deal(b, s, p, q) ==
  /\ {b, s} \subseteq open
  /\ commitment[b].side = "BUY" /\ commitment[s].side = "SELL"
  /\ commitment[b].symbol = commitment[s].symbol
  /\ commitment[b].user # commitment[s].user
  /\ BuyerAccepts(b, p) /\ SellerAccepts(s, p)
  /\ q <= Remaining(b) /\ q <= Remaining(s)
  /\ executed' = [executed EXCEPT ![b] = @ + q, ![s] = @ + q]
  /\ open' = open \ {o \in {b, s} : Remaining(o) = q}
  /\ deals' = Append(deals, [buy |-> b, sell |-> s, price |-> p, qty |-> q])
  /\ UNCHANGED commitment

LedgerNext ==
  \/ \E o \in OrderIds : Place(o) \/ Amend(o) \/ Close(o)
  \/ \E b, s \in OrderIds, p \in Prices, q \in 1..MaxQty : Deal(b, s, p, q)

LedgerSpec == LedgerInit /\ [][LedgerNext]_ledgerVars
=============================================================================
