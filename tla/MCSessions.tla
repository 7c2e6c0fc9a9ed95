----------------------------- MODULE MCSessions -----------------------------
(***************************************************************************)
(* Two TCP sessions of different users that enter and modify orders of one *)
(* symbol at the same time.                                                *)
(***************************************************************************)
EXTENDS OrderFlow

CONSTANTS t1, t2, alice, bob, sym, c1, c2, c3

Limit(u, c, side, price, qty) ==
  [op |-> "new", user |-> u, symbol |-> sym, side |-> side, ordType |-> "LIMIT",
   clOrdID |-> c, price |-> price, qty |-> qty]

Market(u, c, side, qty) ==
  [op |-> "new", user |-> u, symbol |-> sym, side |-> side, ordType |-> "MARKET",
   clOrdID |-> c, price |-> None, qty |-> qty]

Modify(u, c, to, type, price, qty) ==
  [op |-> "modify", user |-> u, orig |-> c, clOrdID |-> to, ordType |-> type, price |-> price, qty |-> qty]

AliceRequests ==
  {Limit(alice, c1, "BUY", p, 2) : p \in {1, 2}}
    \union {Modify(alice, c, c2, None, p, q) : c \in {c1, c2}, p \in {1, 2}, q \in {1, 2}}

BobRequests ==
  {Limit(bob, c3, "SELL", p, q) : p \in {1, 2}, q \in {1, 2}}
    \union {Market(bob, c1, "SELL", 2), Modify(bob, c3, c3, None, 1, 2), Modify(bob, c3, c3, "MARKET", None, 1)}

MCMaxRequests == (t1 :> 3) @@ (t2 :> 2)

MCRequests == (t1 :> AliceRequests) @@ (t2 :> BobRequests)
=============================================================================
