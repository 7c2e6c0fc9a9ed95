--------------------------- MODULE MCWriteBehind ---------------------------
(***************************************************************************)
(* Two request threads, short queues that may be full of others, one trade *)
(* and one write that fails.                                               *)
(***************************************************************************)
EXTENDS WriteBehind

CONSTANTS t1, t2, k1, k2

MCQty       == <<1, 2>>
MCMaxRevs   == <<2, 2>>
MCMaxOthers == [manager |-> 0, engine |-> 2, trades |-> 1]
NoOthers    == [manager |-> 0, engine |-> 0, trades |-> 0]
=============================================================================
