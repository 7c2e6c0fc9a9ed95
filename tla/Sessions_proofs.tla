-------------------------- MODULE Sessions_proofs --------------------------
(***************************************************************************)
(* Who is signed in, for any number of clients, users and slots.  The      *)
(* inductive invariant speaks about each connection on its own: what it    *)
(* has signed in, how far its thread is, and which registries may name it. *)
(***************************************************************************)
EXTENDS Sessions, FiniteSetTheorems, TLAPS

\* The types the proofs need.
Typed ==
  /\ stage \in [Clients -> Stages]
  /\ id = [c \in Clients |-> id[c]]
  /\ running \in [Clients -> BOOLEAN]
  /\ session \in [Clients ->
       {"CONNECTED", "AUTHENTICATED", "ERROR", "DISCONNECTING", "DISCONNECTED"}]
  /\ user \in [Clients -> Users \union {None}]
  /\ monitored \in [Clients -> BOOLEAN]
  /\ logins \in [Clients -> Nat]
  /\ active \subseteq Users
  /\ handlers \in [ConnectionIds -> Clients \union {None}]
  /\ byUser \in [Users -> Clients \union {None}]
  /\ admitted \in [Clients -> SUBSET Users]

\* The handler is registered under its own number only.
RegisteredByNumber ==
  \A i \in ConnectionIds :
    handlers[i] # None => /\ id[handlers[i]] = i
                          /\ stage[handlers[i]] \in Present \ {"forget"}

\* A session is authenticated under a name that was admitted; between the sign-in
\* and the end of handleLoginRequest too.
SignedIn ==
  \A c \in Clients :
    \/ stage[c] = "signedIn"
    \/ stage[c] \in {"loop", "reading"} /\ Authenticated(c)
    => user[c] \in admitted[c]

\* A granted login has a user.
Named == \A c \in Clients : stage[c] \in {"granted", "signedIn", "rejected"} => user[c] \in Users

\* The registry of names holds connections that signed in as the user, and that are
\* open or have taken another name since.
RegisteredByName ==
  \A u \in Users : byUser[u] # None =>
    /\ u \in admitted[byUser[u]]
    /\ stage[byUser[u]] \in Present \/ user[byUser[u]] # u

\* The stages before cleanup has ended the session.
Current == Present \ {"unregister", "forget"}

\* A name in use was signed in by a connection that has not ended the session yet, or
\* has taken another name since.
InUse ==
  \A u \in active : \E c \in Clients :
    u \in admitted[c] /\ (stage[c] \in Current \/ user[c] # u)

\* The connections that hold a slot, counted by activeConnections.
Slots == {c \in Clients : stage[c] \notin {"new", "refused", "done"}}
SlotsAreCounted ==
  /\ count = Cardinality(Slots) /\ count <= MaxConnections
  /\ \A c \in Clients : id[c] \in ConnectionIds \union {None}

\* The bound on login requests.
LoginsBounded ==
  /\ accepting \in BOOLEAN
  /\ \A c \in Clients : logins[c] <= MaxLogins[c]

IInv == Typed /\ SlotsAreCounted /\ LoginsBounded /\ RegisteredByNumber /\ SignedIn /\ Named /\ RegisteredByName /\ InUse

-----------------------------------------------------------------------------
\* The invariant holds at the start.
LEMMA InitIInv == Init => IInv
<1> SUFFICES ASSUME Init PROVE IInv
  OBVIOUS
<1>1. Typed /\ RegisteredByNumber /\ SignedIn /\ Named /\ RegisteredByName /\ InUse /\ LoginsBounded
  BY SessionsAssumption
     DEF Init, Typed, RegisteredByNumber, SignedIn, Named, RegisteredByName, InUse, Stages,
         Authenticated, LoginsBounded
<1>2. Slots = {}
  BY DEF Init, Slots
<1>3. SlotsAreCounted
  BY <1>2, FS_EmptySet, SessionsAssumption DEF Init, SlotsAreCounted
<1> QED BY <1>1, <1>3 DEF IInv

\* The steps of the connection c, one disjunct for each action.
Steps(c) ==
  \/ Accept(c) \/ Refuse(c) \/ OtherMessage(c) \/ Logout(c) \/ ReadFails(c)
  \/ \E u \in Users, password \in {"right", "wrong"} : Login(c, u, password)
  \/ Register(c) \/ Initialize(c) \/ Loop(c) \/ SignIn(c) \/ Welcome(c) \/ Reject(c)
  \/ Cleanup(c) \/ Unregister(c) \/ ForgetUser(c) \/ Release(c)
  \/ HeartbeatTimeout(c) \/ Disconnect(c)

\* The next-state relation by connections.
LEMMA NextSteps == Next <=> (\E c \in Clients : Steps(c)) \/ StopAccepting
BY DEF Next, Message, Handle, Steps

USE DEF Private, Goto

\* The types are kept.
LEMMA TypedStep == ASSUME Typed, Named, NEW c \in Clients, Steps(c) PROVE Typed'
<1> USE DEF Typed, Named, Stages, handlerVars, registryVars
<1>1. CASE Accept(c) BY <1>1, SessionsAssumption DEF Accept
<1>2. CASE Refuse(c) BY <1>2 DEF Refuse
<1>3. CASE OtherMessage(c) BY <1>3 DEF OtherMessage
<1>4. CASE Logout(c) BY <1>4 DEF Logout, EndSession
<1>5. CASE ReadFails(c) BY <1>5 DEF ReadFails
<1>6. CASE \E u \in Users, password \in {"right", "wrong"} : Login(c, u, password)
  BY <1>6 DEF Login
<1>7. CASE Register(c) BY <1>7 DEF Register
<1>8. CASE Initialize(c) BY <1>8 DEF Initialize
<1>9. CASE Loop(c) BY <1>9 DEF Loop, NextStage
<1>10. CASE SignIn(c) BY <1>10 DEF SignIn
<1>11. CASE Welcome(c) BY <1>11 DEF Welcome
<1>12. CASE Reject(c) BY <1>12 DEF Reject
<1>13. CASE Cleanup(c) BY <1>13 DEF Cleanup, EndOnCleanup, EndSession
<1>14. CASE Unregister(c) BY <1>14 DEF Unregister
<1>15. CASE ForgetUser(c) BY <1>15 DEF ForgetUser, WithoutUser
<1>16. CASE Release(c) BY <1>16 DEF Release
<1>17. CASE HeartbeatTimeout(c) BY <1>17 DEF HeartbeatTimeout
<1>18. CASE Disconnect(c) BY <1>18 DEF Disconnect
<1> QED
  BY <1>1, <1>2, <1>3, <1>4, <1>5, <1>6, <1>7, <1>8, <1>9, <1>10, <1>11, <1>12, <1>13,
     <1>14, <1>15, <1>16, <1>17, <1>18 DEF Steps

\* Only the connection itself leaves the stages in which it may be registered, and
\* unregisterHandler has dropped it from the registry of numbers before.
LEMMA RegisteredByNumberStep ==
  ASSUME Typed, RegisteredByNumber, NEW c \in Clients, Steps(c)
  PROVE  RegisteredByNumber'
<1> SUFFICES ASSUME NEW i \in ConnectionIds, handlers'[i] # None
             PROVE  /\ id'[handlers'[i]] = i
                    /\ stage'[handlers'[i]] \in Present \ {"forget"}
  BY DEF RegisteredByNumber
<1> DEFINE h == handlers[i]
<1>0. h \in Clients \union {None} /\ (h # None => id[h] = i /\ stage[h] \in Present \ {"forget"})
  BY DEF Typed, RegisteredByNumber
<1> USE <1>0, SessionsAssumption DEF Typed, Present, Stages, handlerVars, registryVars
<1>1. CASE Accept(c) BY <1>1 DEF Accept
<1>2. CASE Register(c) BY <1>2 DEF Register
<1>3. CASE Unregister(c) BY <1>3 DEF Unregister
<1>4. CASE ForgetUser(c) \/ Release(c) BY <1>4 DEF ForgetUser, Release
<1>5. CASE Refuse(c) \/ HeartbeatTimeout(c) \/ Disconnect(c)
  BY <1>5 DEF Refuse, HeartbeatTimeout, Disconnect
<1>6. CASE OtherMessage(c) \/ Logout(c) \/ ReadFails(c) \/ Initialize(c) \/ Loop(c)
  BY <1>6 DEF OtherMessage, Logout, ReadFails, Initialize, Loop, NextStage
<1>7. CASE \/ \E u \in Users, password \in {"right", "wrong"} : Login(c, u, password)
           \/ SignIn(c) \/ Welcome(c) \/ Reject(c) \/ Cleanup(c)
  BY <1>7 DEF Login, SignIn, Welcome, Reject, Cleanup
<1> QED BY <1>1, <1>2, <1>3, <1>4, <1>5, <1>6, <1>7 DEF Steps

\* The steps other than Accept and Release leave the connection in or out of the slots.
LEMMA SameSlots ==
  ASSUME Typed, NEW c \in Clients, Steps(c), ~Accept(c), ~Release(c)
  PROVE  Slots' = Slots /\ count' = count /\ id' = id
<1> USE DEF Typed, Slots, Stages
<1>1. CASE Refuse(c) \/ Register(c) \/ Initialize(c) BY <1>1 DEF Refuse, Register, Initialize
<1>2. CASE OtherMessage(c) \/ Logout(c) \/ ReadFails(c) \/ Loop(c)
  BY <1>2 DEF OtherMessage, Logout, ReadFails, Loop, NextStage
<1>3. CASE \E u \in Users, password \in {"right", "wrong"} : Login(c, u, password)
  BY <1>3 DEF Login
<1>4. CASE SignIn(c) \/ Welcome(c) \/ Reject(c) BY <1>4 DEF SignIn, Welcome, Reject
<1>5. CASE Cleanup(c) \/ Unregister(c) \/ ForgetUser(c)
  BY <1>5 DEF Cleanup, Unregister, ForgetUser
<1>6. CASE HeartbeatTimeout(c) \/ Disconnect(c) BY <1>6 DEF HeartbeatTimeout, Disconnect
<1> QED BY <1>1, <1>2, <1>3, <1>4, <1>5, <1>6 DEF Steps

\* A slot is taken in Accept, below the limit, and given back in Release.
LEMMA SlotsAreCountedStep ==
  ASSUME Typed, SlotsAreCounted, NEW c \in Clients, Steps(c)
  PROVE  SlotsAreCounted'
<1>1. IsFiniteSet(Slots)
  BY SessionsAssumption, FS_Subset DEF Slots
<1>2. Cardinality(Slots) \in Nat
  BY <1>1, FS_CardinalityType
<1>3. CASE Accept(c)
  <2>1. Slots' = Slots \union {c} /\ c \notin Slots
    BY <1>3 DEF Accept, Slots, Typed
  <2>2. Cardinality(Slots') = count + 1
    BY <1>1, <2>1, FS_AddElement DEF SlotsAreCounted
  <2>3. id' = [id EXCEPT ![c] = count + 1] /\ count' = count + 1 /\ count < MaxConnections
    BY <1>3 DEF Accept
  <2>4. count + 1 \in ConnectionIds /\ count + 1 <= MaxConnections
    BY <1>2, <2>3, SessionsAssumption DEF SlotsAreCounted, ConnectionIds
  <2> QED BY <2>2, <2>3, <2>4 DEF SlotsAreCounted, Typed
<1>4. CASE Release(c)
  <2>1. Slots' = Slots \ {c} /\ c \in Slots
    BY <1>4 DEF Release, Slots, Typed
  <2>2. Cardinality(Slots') = count - 1
    BY <1>1, <2>1, FS_RemoveElement DEF SlotsAreCounted
  <2>3. id' = id /\ count' = count - 1
    BY <1>4 DEF Release
  <2> QED BY <1>2, <2>2, <2>3, SessionsAssumption DEF SlotsAreCounted
<1>5. CASE ~Accept(c) /\ ~Release(c)
  BY <1>5, SameSlots DEF SlotsAreCounted
<1> QED BY <1>3, <1>4, <1>5

\* A client sends no more login requests than the bound.
LEMMA LoginsBoundedStep ==
  ASSUME Typed, LoginsBounded, NEW c \in Clients, Steps(c)
  PROVE  LoginsBounded'
<1> USE SessionsAssumption DEF Typed, LoginsBounded
<1>1. CASE \E u \in Users, password \in {"right", "wrong"} : Login(c, u, password)
  BY <1>1 DEF Login
<1>2. CASE ~ \E u \in Users, password \in {"right", "wrong"} : Login(c, u, password)
  <2>1. logins' = logins /\ accepting' = accepting
    BY <1>2 DEF Steps, Accept, Refuse, OtherMessage, Logout, ReadFails, Register, Initialize,
                Loop, SignIn, Welcome, Reject, Cleanup, Unregister, ForgetUser, Release,
                HeartbeatTimeout, Disconnect
  <2> QED BY <2>1
<1> QED BY <1>1, <1>2

\* The name of a session changes only in handleLoginRequest, which either has the new
\* name admitted or leaves the session unauthenticated.
LEMMA SignedInStep ==
  ASSUME Typed, Named, SignedIn, NEW c \in Clients, Steps(c)
  PROVE  SignedIn' /\ Named'
<1> USE DEF Typed, Named, SignedIn, Authenticated, handlerVars, registryVars
<1>1. CASE \E u \in Users, password \in {"right", "wrong"} : Login(c, u, password)
  BY <1>1 DEF Login
<1>2. CASE SignIn(c) \/ Welcome(c) \/ Reject(c) BY <1>2 DEF SignIn, Welcome, Reject
<1>3. CASE Initialize(c) \/ Loop(c) BY <1>3 DEF Initialize, Loop, NextStage
<1>4. CASE OtherMessage(c) \/ Logout(c) \/ ReadFails(c) \/ HeartbeatTimeout(c) \/ Disconnect(c)
  BY <1>4 DEF OtherMessage, Logout, ReadFails, HeartbeatTimeout, Disconnect
<1>5. CASE Accept(c) \/ Refuse(c) \/ Register(c) BY <1>5 DEF Accept, Refuse, Register
<1>6. CASE Cleanup(c) \/ Unregister(c) \/ ForgetUser(c) \/ Release(c)
  BY <1>6 DEF Cleanup, Unregister, ForgetUser, Release
<1> QED BY <1>1, <1>2, <1>3, <1>4, <1>5, <1>6 DEF Steps

\* A connection is in the registry of names under its present name only as long as it
\* is open: unregisterHandler drops that name.
LEMMA RegisteredByNameStep ==
  ASSUME Typed, Named, SignedIn, RegisteredByName, NEW c \in Clients, Steps(c)
  PROVE  RegisteredByName'
<1> USE SessionsAssumption
    DEF Typed, Named, SignedIn, RegisteredByName, Present, Stages, handlerVars, registryVars
<1>1. CASE \E u \in Users, password \in {"right", "wrong"} : Login(c, u, password)
  BY <1>1 DEF Login
<1>2. CASE SignIn(c) BY <1>2 DEF SignIn
<1>3. CASE Welcome(c) BY <1>3 DEF Welcome
<1>4. CASE ForgetUser(c) BY <1>4 DEF ForgetUser, WithoutUser
<1>5. CASE Release(c) BY <1>5 DEF Release
<1>6. CASE \/ Reject(c) \/ Initialize(c) \/ Loop(c) \/ OtherMessage(c) \/ Logout(c)
           \/ ReadFails(c) \/ HeartbeatTimeout(c) \/ Disconnect(c)
  BY <1>6 DEF Reject, Initialize, Loop, NextStage, OtherMessage, Logout, ReadFails,
              HeartbeatTimeout, Disconnect
<1>7. CASE Accept(c) \/ Refuse(c) \/ Register(c) BY <1>7 DEF Accept, Refuse, Register
<1>8. CASE Cleanup(c) \/ Unregister(c) BY <1>8 DEF Cleanup, Unregister
<1> QED BY <1>1, <1>2, <1>3, <1>4, <1>5, <1>6, <1>7, <1>8 DEF Steps

\* cleanup ends the session of the present name; what it does not end is that of a
\* connection which is still open or of a name that was given up.
LEMMA InUseStep ==
  ASSUME Typed, Named, InUse, NEW c \in Clients, Steps(c)
  PROVE  InUse'
<1> USE DEF Typed, Named, InUse, Current, Present, Stages, handlerVars, registryVars
<1>1. CASE \E u \in Users, password \in {"right", "wrong"} : Login(c, u, password)
  BY <1>1 DEF Login
<1>2. CASE SignIn(c) BY <1>2 DEF SignIn
<1>3. CASE Cleanup(c) BY <1>3 DEF Cleanup, EndOnCleanup, EndSession
<1>4. CASE Logout(c) BY <1>4 DEF Logout, EndSession
<1>5. CASE \/ Welcome(c) \/ Reject(c) \/ Initialize(c) \/ Loop(c) \/ OtherMessage(c)
           \/ ReadFails(c) \/ HeartbeatTimeout(c) \/ Disconnect(c)
  BY <1>5 DEF Welcome, Reject, Initialize, Loop, NextStage, OtherMessage, ReadFails,
              HeartbeatTimeout, Disconnect
<1>6. CASE Accept(c) \/ Refuse(c) \/ Register(c) BY <1>6 DEF Accept, Refuse, Register
<1>7. CASE Unregister(c) \/ ForgetUser(c) \/ Release(c)
  BY <1>7 DEF Unregister, ForgetUser, Release
<1> QED BY <1>1, <1>2, <1>3, <1>4, <1>5, <1>6, <1>7 DEF Steps

-----------------------------------------------------------------------------
\* The invariant is kept by every step.
LEMMA NextIInv == IInv /\ [Next]_vars => IInv'
<1> SUFFICES ASSUME IInv, [Next]_vars PROVE IInv'
  OBVIOUS
<1>1. CASE \E c \in Clients : Steps(c)
  BY <1>1, TypedStep, SlotsAreCountedStep, LoginsBoundedStep, RegisteredByNumberStep,
     SignedInStep, RegisteredByNameStep, InUseStep
     DEF IInv
<1>2. CASE StopAccepting \/ UNCHANGED vars
  BY <1>2 DEF StopAccepting, vars, handlerVars, registryVars, IInv, Typed, SlotsAreCounted, Slots,
              LoginsBounded, RegisteredByNumber, SignedIn, Named, RegisteredByName, InUse,
              Authenticated
<1> QED BY <1>1, <1>2, NextSteps

\* The invariant holds always.
LEMMA Invariant == Spec => []IInv
BY InitIInv, NextIInv, PTL DEF Spec

\* Types, and never more connections than the limit.
THEOREM TypeOKAlways == Spec => []TypeOK
<1>1. ASSUME IInv PROVE TypeOK
  <2>1. count \in 0..MaxConnections
    <3>1. IsFiniteSet(Slots)
      BY SessionsAssumption, FS_Subset DEF Slots
    <3>2. Cardinality(Slots) \in Nat
      BY <3>1, FS_CardinalityType
    <3> QED BY <1>1, <3>2, SessionsAssumption DEF IInv, SlotsAreCounted
  <2> QED BY <1>1, <2>1 DEF IInv, Typed, SlotsAreCounted, LoginsBounded, TypeOK
<1> QED BY <1>1, Invariant, PTL

\* The registry of numbers names no connection whose handler was unregistered, although
\* two open connections may have the same number.
THEOREM RegistryIsLiveAlways == Spec => []RegistryIsLive
<1>1. IInv => RegistryIsLive
  BY DEF IInv, RegisteredByNumber, RegistryIsLive
<1> QED BY <1>1, Invariant, PTL

\* A message on an authenticated session is processed under a name that the connection
\* has signed in with.
THEOREM OrdersAreSignedInAlways == Spec => []OrdersAreSignedIn
<1>1. IInv => OrdersAreSignedIn
  BY DEF IInv, SignedIn, OrdersAreSignedIn
<1> QED BY <1>1, Invariant, PTL

\* A name is in use only as long as a connection holds it, unless a connection gave it
\* up for another name.
THEOREM NamesAreReleasedAlways == Spec => []NamesAreReleased
<1>1. IInv => NamesAreReleased
  BY DEF IInv, Typed, InUse, Current, NamesAreReleased, Abandoned, Holds
<1> QED BY <1>1, Invariant, PTL

\* Execution reports are sent to an open connection of the user, with the same exception.
THEOREM ExecutionsReachTheUserAlways == Spec => []ExecutionsReachTheUser
<1>1. IInv => ExecutionsReachTheUser
  BY DEF IInv, Typed, RegisteredByName, ExecutionsReachTheUser, Abandoned, Holds
<1> QED BY <1>1, Invariant, PTL
=============================================================================
