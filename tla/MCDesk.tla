------------------------------- MODULE MCDesk -------------------------------
(***************************************************************************)
(* One thread serves every request: long sequences of all kinds of         *)
(* requests of two users, on two symbols.                                  *)
(***************************************************************************)
EXTENDS OrderFlow

CONSTANTS desk, alice, bob, sym, other, c1, c2, c3

New(u, s, side, c, price, qty) ==
  [op |-> "new", user |-> u, symbol |-> s, side |-> side, clOrdID |-> c, price |-> price,
   ordType |-> IF price = None THEN "MARKET" ELSE "LIMIT", qty |-> qty]

Modify(u, c, to, type, price, qty) ==
  [op |-> "modify", user |-> u, orig |-> c, clOrdID |-> to, ordType |-> type,
   price |-> price, qty |-> qty]

Cancel(u, c) == [op |-> "cancel", user |-> u, orig |-> c]
MassCancel_(u, ss) == [op |-> "massCancel", user |-> u, symbols |-> ss]

DeskRequests ==
  {New(alice, sym, "BUY", c, p, 2) : c \in {c1, c2}, p \in {1, 2, None}}
    \union {New(bob, sym, "SELL", c3, p, q) : p \in {1, 2}, q \in {1, 3}}
    \union {New(alice, sym, "SELL", c3, 1, 1), New(alice, other, "BUY", c3, 1, 1)}
    \union {Modify(alice, c, c, None, p, q) : c \in {c1, c2}, p \in {1, None}, q \in {0, 1, 3}}
    \union {Modify(alice, c1, c2, "MARKET", None, 2), Modify(alice, c2, c3, None, 1, 3)}
    \union {Cancel(u, c) : u \in {alice, bob}, c \in {c1, c3}}
    \union {MassCancel_(alice, {sym, other}), MassCancel_(alice, {sym})}

MCRequests == desk :> DeskRequests
MCMaxRequests == desk :> 5
=============================================================================
