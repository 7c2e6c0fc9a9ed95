---------------------------- MODULE FailingSaves ----------------------------
(***************************************************************************)
(* The order engine when a save throws.  With the writers' queue full or   *)
(* stopped, saveAsync writes in the calling thread, and when that write    *)
(* fails too the exception reaches OrderManager's catch clauses from       *)
(* wherever the call stood.  OrderFlow's own steps are the saves that      *)
(* return; each action here is one that does not.                          *)
(***************************************************************************)
EXTENDS OrderFlow

\* The passive order or the trade cannot be saved: the match ends after the
\* fills, before the listener is told, and the incoming order does not rest.
FillUnsaved(t) ==
  /\ pc[t] = "settle"
  /\ Throw(t)
  /\ UNCHANGED bookVars

\* The user's own resting order is cancelled and cannot be saved.
OwnPassiveUnsaved(t) ==
  /\ pc[t] = "cancelOwn"
  /\ Cancellable(passive[t])
  /\ state' = [state EXCEPT ![passive[t]] = "CANCELLED"]
  /\ Unwind(t)
  /\ UNCHANGED <<nextId, order, leaves, cum, cacheVars, bookVars, trades>>

\* A new order has been matched, rests, and is answered as rejected.
NewUnsaved(t) ==
  /\ pc[t] = "rest"
  /\ ~IsModify(t)
  /\ IF Rests(cur[t]) THEN AddOrder(cur[t]) ELSE UNCHANGED bookVars
  /\ Release(t)
  /\ Return(t, "internalError")
  /\ UNCHANGED <<orderVars, cacheVars, trades, served>>

\* A modification has been made; the catch clause also puts the order back
\* under its original ClOrdID.
ModifiedUnsaved(t) ==
  \/ /\ Goto(t, "putModified", "restore")
     /\ byClOrd' = [byClOrd EXCEPT ![order[cur[t]].clOrdID] = cur[t]]
     /\ UNCHANGED <<orderVars, byId, bookVars, monitor, trades, passive, callVars>>
  \/ /\ Goto(t, "checkModified", "restore")
     /\ ~IsActive(cur[t])
     /\ byId' = byId \ {cur[t]}
     /\ UNCHANGED <<orderVars, byClOrd, bookVars, monitor, trades, passive, callVars>>

\* A cancelled order stays in both caches; a mass cancel goes on.
CancelUnsaved(t) ==
  /\ pc[t] = "uncache"
  /\ Proceed(t, "internalError")
  /\ UNCHANGED <<sharedVars, served>>

SaveThrows(t) ==
  FillUnsaved(t) \/ OwnPassiveUnsaved(t) \/ NewUnsaved(t) \/ ModifiedUnsaved(t) \/ CancelUnsaved(t)

FailingNext == Next \/ \E t \in Threads : SaveThrows(t)

FailingSpec == Init /\ [][FailingNext]_vars

\* A save returns or throws.
FailingFairSpec == FailingSpec /\ \A t \in Threads : WF_vars(Step(t) \/ SaveThrows(t))
=============================================================================
