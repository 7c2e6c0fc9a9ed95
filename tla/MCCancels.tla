----------------------------- MODULE MCCancels -----------------------------
(***************************************************************************)
(* A user on a TCP session and, at the same time, on the REST API, whose   *)
(* worker thread also serves another user: orders are entered and          *)
(* cancelled, one by one and in mass, while others match, and the TCP      *)
(* session reduces its order.                                              *)
(***************************************************************************)
EXTENDS FailingSaves

CONSTANTS tcp, rest, alice, bob, sym, c1, c2

New(u, side, c, price, qty) ==
  [op |-> "new", user |-> u, symbol |-> sym, side |-> side, clOrdID |-> c, price |-> price,
   ordType |-> "LIMIT", qty |-> qty]

Cancel(u, c) == [op |-> "cancel", user |-> u, orig |-> c]

Reduce(u, c, price) ==
  [op |-> "modify", user |-> u, orig |-> c, clOrdID |-> c, price |-> price, ordType |-> None, qty |-> 1]

AllOf(u) == [op |-> "massCancel", user |-> u, symbols |-> {sym}]

TcpRequests ==
  {New(alice, "BUY", c1, 2, 2), New(alice, "BUY", c2, 1, 1), Reduce(alice, c1, 2),
   AllOf(alice)}

RestRequests ==
  {New(bob, "SELL", c2, 1, 2), New(alice, "SELL", c2, 1, 1), Cancel(alice, c1)}

MCRequests == (tcp :> TcpRequests) @@ (rest :> RestRequests)
\* One ask at the price of the better bid.
RaceRequests ==
  (tcp :> TcpRequests) @@ (rest :> {New(bob, "SELL", c2, 2, 1), Cancel(alice, c1)})
MCMaxRequests == (tcp :> 3) @@ (rest :> 2)
=============================================================================
