------------------------------ MODULE Sessions ------------------------------
(***************************************************************************)
(* Connections and sign-in: CboeServer's acceptor, the life of every       *)
(* ClientConnectionHandler on its own thread, the ClientSessionManager     *)
(* registries and AuthenticationService.  All handlers share the           *)
(* registries, none of which is locked for more than one map operation; a  *)
(* connection's number is the count of open connections at the time, so    *)
(* that two open connections may have the same one.                        *)
(*                                                                         *)
(* When a heartbeat is overdue is the subject of Link; here it may be at   *)
(* any time.  A socket is not a variable: the server's end is closed in    *)
(* Reject and in Cleanup, after which the handler reads no more, and a     *)
(* client that has left is one that sends nothing.                         *)
(***************************************************************************)
EXTENDS Naturals, FiniteSets

CONSTANTS
  Clients,         \* connections, one per client socket
  Users,           \* user names that have a password
  MaxConnections,  \* configuration: how many may be open at once
  MaxLogins,       \* bound: how many login requests each client sends
  None             \* Java's null

ConnectionIds == 1..MaxConnections

ASSUME SessionsAssumption ==
  /\ IsFiniteSet(Clients)
  /\ MaxConnections \in Nat \ {0}
  /\ MaxLogins \in [Clients -> Nat]
  /\ None \notin Clients /\ None \notin Users /\ None \notin Nat

VARIABLES
  accepting,   \* CboeServer.running: the acceptor takes connections
  count,       \* activeConnections
  stage,       \* where each connection's thread is
  id,          \* the connection's number (ClientSession.connectionId)
  running,     \* ClientConnectionHandler.running
  session,     \* ClientSession.state
  user,        \* ClientSession.username
  monitored,   \* HeartbeatMonitor.active
  logins,      \* how many login requests a client has sent
  active,      \* AuthenticationService.activeSessions: the users signed in
  handlers,    \* ClientSessionManager.handlers, by connection number
  byUser,      \* ClientSessionManager.handlersByUsername
  admitted     \* what the properties speak about, and no step reads: the users each
               \* connection has signed in

handlerVars  == <<running, session, user, monitored>>
registryVars == <<handlers, byUser>>
vars == <<accepting, count, stage, id, logins, handlerVars, active, registryVars, admitted>>

Authenticated(c) == session[c] = "AUTHENTICATED"

Goto(c, s) == stage' = [stage EXCEPT ![c] = s]

\* A step of the handler that concerns its thread only.
Private == UNCHANGED <<accepting, count, id, logins, active, registryVars, admitted>>

-----------------------------------------------------------------------------
(* CboeServer. *)

\* Mutant: the connection limit is not looked at.
Accept_Unlimited(c) ==
  /\ accepting /\ stage[c] = "new"
  /\ count' = count + 1
  /\ id' = [id EXCEPT ![c] = count + 1]
  /\ Goto(c, "accepted")
  /\ UNCHANGED <<accepting, logins, handlerVars, active, registryVars, admitted>>

\* acceptConnections: the connection limit, then a number and a task.
Accept(c) ==
  /\ accepting /\ stage[c] = "new" /\ count < MaxConnections
  /\ count' = count + 1
  /\ id' = [id EXCEPT ![c] = count + 1]
  /\ Goto(c, "accepted")
  /\ UNCHANGED <<accepting, logins, handlerVars, active, registryVars, admitted>>

\* Over the limit the socket is closed at once.
Refuse(c) ==
  /\ accepting /\ stage[c] = "new" /\ count >= MaxConnections
  /\ Goto(c, "refused")
  /\ Private /\ UNCHANGED handlerVars

\* handleClient: the new handler goes into the registry ...
Register(c) ==
  /\ stage[c] = "accepted"
  /\ handlers' = [handlers EXCEPT ![id[c]] = c]
  /\ Goto(c, "registered")
  /\ UNCHANGED <<accepting, count, id, logins, handlerVars, active, byUser, admitted>>

\* ... and runs; initialize sets running, whoever may have cleared it since.
Initialize(c) ==
  /\ stage[c] = "registered"
  /\ running' = [running EXCEPT ![c] = TRUE]
  /\ session' = [session EXCEPT ![c] = "CONNECTED"]
  /\ Goto(c, "loop")
  /\ Private /\ UNCHANGED <<user, monitored>>

\* Mutant: the number is taken to be the count of connections at this time.
Unregister_Count(c) ==
  /\ stage[c] = "unregister"
  /\ handlers' = [handlers EXCEPT ![count] = None]
  /\ Goto(c, "forget")
  /\ UNCHANGED <<accepting, count, id, logins, handlerVars, active, byUser, admitted>>

\* unregisterHandler drops what is registered under the connection's number and
\* user name, whichever handler that is: first the number ...
Unregister(c) ==
  /\ stage[c] = "unregister"
  /\ handlers' = [handlers EXCEPT ![id[c]] = None]
  /\ Goto(c, "forget")
  /\ UNCHANGED <<accepting, count, id, logins, handlerVars, active, byUser, admitted>>

\* Mutant: only the entry under the number is dropped.
WithoutUser_Never(c) == byUser
WithoutUser(c) == IF user[c] = None THEN byUser ELSE [byUser EXCEPT ![user[c]] = None]

\* ... then the name.
ForgetUser(c) ==
  /\ stage[c] = "forget"
  /\ byUser' = WithoutUser(c)
  /\ Goto(c, "release")
  /\ UNCHANGED <<accepting, count, id, logins, handlerVars, active, handlers, admitted>>

Release(c) ==
  /\ stage[c] = "release"
  /\ count' = count - 1
  /\ Goto(c, "done")
  /\ UNCHANGED <<accepting, id, logins, handlerVars, active, registryVars, admitted>>

\* shutdown: the acceptor ends, then disconnectAll stops the registered handlers.
StopAccepting ==
  /\ accepting /\ accepting' = FALSE
  /\ UNCHANGED <<count, stage, id, logins, handlerVars, active, registryVars, admitted>>

Disconnect(c) ==
  /\ ~accepting /\ running[c] /\ \E i \in ConnectionIds : handlers[i] = c
  /\ running' = [running EXCEPT ![c] = FALSE]
  /\ Private /\ UNCHANGED <<stage, session, user, monitored>>

-----------------------------------------------------------------------------
(* ClientConnectionHandler: the message loop. *)

\* Mutant: the loop does not look at running.
NextStage_Forever(c) == "reading"
NextStage(c) == IF running[c] THEN "reading" ELSE "cleanup"

Loop(c) ==
  /\ stage[c] = "loop"
  /\ Goto(c, NextStage(c))
  /\ Private /\ UNCHANGED handlerVars

\* The read ends without a message: end of stream, or nothing within the socket's
\* time limit (connectionTimeout).
ReadFails(c) ==
  /\ stage[c] = "reading"
  /\ Goto(c, "cleanup")
  /\ Private /\ UNCHANGED handlerVars

\* AuthenticationService.authenticate, up to the check for a duplicate session.
Refused(u, password) == password = "wrong" \/ u \in active

\* handleLoginRequest: the session takes the name before it is verified.
Login(c, u, password) ==
  /\ stage[c] = "reading" /\ logins[c] < MaxLogins[c]
  /\ logins' = [logins EXCEPT ![c] = @ + 1]
  /\ user' = [user EXCEPT ![c] = u]
  /\ Goto(c, IF Refused(u, password) THEN "rejected" ELSE "granted")
  /\ UNCHANGED <<accepting, count, id, running, session, monitored, active, registryVars,
                 admitted>>

\* authenticate puts the session, which another thread may have done meanwhile.
SignIn(c) ==
  /\ stage[c] = "granted"
  /\ active' = active \union {user[c]}
  /\ admitted' = [admitted EXCEPT ![c] = @ \union {user[c]}]
  /\ Goto(c, "signedIn")
  /\ UNCHANGED <<accepting, count, id, logins, handlerVars, registryVars>>

\* The login was accepted.
Welcome(c) ==
  /\ stage[c] = "signedIn"
  /\ session' = [session EXCEPT ![c] = "AUTHENTICATED"]
  /\ monitored' = [monitored EXCEPT ![c] = TRUE]
  /\ byUser' = [byUser EXCEPT ![user[c]] = c]
  /\ Goto(c, "loop")
  /\ UNCHANGED <<accepting, count, id, logins, running, user, active, handlers, admitted>>

\* Mutant: a refused login leaves the connection as it was.
Reject_Ignore(c) ==
  /\ stage[c] = "rejected" /\ Goto(c, "loop")
  /\ Private /\ UNCHANGED handlerVars
\* The login was refused: the connection ends.
Reject(c) ==
  /\ stage[c] = "rejected" /\ Goto(c, "loop")
  /\ session' = [session EXCEPT ![c] = "ERROR"]
  /\ running' = [running EXCEPT ![c] = FALSE]
  /\ Private /\ UNCHANGED <<user, monitored>>

\* Any other message: orders, which OrderManager processes under the session's user
\* name if it is authenticated (OrderFlow), and heartbeats (Link).
OtherMessage(c) ==
  /\ stage[c] = "reading" /\ Goto(c, "loop")
  /\ Private /\ UNCHANGED handlerVars

\* endSession removes the user's session, whichever connection has it.
EndSession(c) == active' = active \ {user[c]}

Logout(c) ==
  /\ stage[c] = "reading" /\ Goto(c, "loop")
  /\ session' = [session EXCEPT ![c] = "DISCONNECTING"]
  /\ monitored' = [monitored EXCEPT ![c] = FALSE]
  /\ running' = [running EXCEPT ![c] = FALSE]
  /\ EndSession(c)
  /\ UNCHANGED <<accepting, count, id, logins, user, registryVars, admitted>>

\* HeartbeatMonitor.checkTimeout, on a scheduler thread: the handler is stopped,
\* and the socket left open.
HeartbeatTimeout(c) ==
  /\ monitored[c]
  /\ running' = [running EXCEPT ![c] = FALSE]
  /\ monitored' = [monitored EXCEPT ![c] = FALSE]
  /\ Private /\ UNCHANGED <<stage, session, user>>

\* Mutant: the session is ended by a logout only.
EndOnCleanup_Never(c) == UNCHANGED active
EndOnCleanup(c) == EndSession(c)

\* cleanup: monitor, session and socket.
Cleanup(c) ==
  /\ stage[c] = "cleanup"
  /\ running' = [running EXCEPT ![c] = FALSE]
  /\ monitored' = [monitored EXCEPT ![c] = FALSE]
  /\ EndOnCleanup(c)
  /\ session' = [session EXCEPT ![c] = "DISCONNECTED"]
  /\ Goto(c, "unregister")
  /\ UNCHANGED <<accepting, count, id, logins, user, registryVars, admitted>>

-----------------------------------------------------------------------------
Init ==
  /\ accepting = TRUE
  /\ count = 0
  /\ stage = [c \in Clients |-> "new"]
  /\ id = [c \in Clients |-> None]
  /\ running = [c \in Clients |-> FALSE]
  /\ session = [c \in Clients |-> "CONNECTED"]
  /\ user = [c \in Clients |-> None]
  /\ monitored = [c \in Clients |-> FALSE]
  /\ logins = [c \in Clients |-> 0]
  /\ active = {}
  /\ handlers = [i \in ConnectionIds |-> None]
  /\ byUser = [u \in Users |-> None]
  /\ admitted = [c \in Clients |-> {}]

Message(c) ==
  \/ \E u \in Users, password \in {"right", "wrong"} : Login(c, u, password)
  \/ OtherMessage(c) \/ Logout(c)

\* The steps the connection's thread takes by itself.
Handle(c) ==
  \/ Register(c) \/ Initialize(c) \/ Loop(c)
  \/ SignIn(c) \/ Welcome(c) \/ Reject(c)
  \/ Cleanup(c) \/ Unregister(c) \/ ForgetUser(c) \/ Release(c)

Next ==
  \/ \E c \in Clients :
       \/ Accept(c) \/ Refuse(c) \/ Message(c) \/ ReadFails(c) \/ Handle(c)
       \/ HeartbeatTimeout(c) \/ Disconnect(c)
  \/ StopAccepting

\* A handler's thread goes on, and its reads end: with a message, or at the latest
\* with the socket's time limit.
Fairness == \A c \in Clients : WF_vars(Handle(c) \/ Message(c) \/ ReadFails(c))

Spec == Init /\ [][Next]_vars /\ Fairness

-----------------------------------------------------------------------------
(* Properties. *)

Stages == {"new", "refused", "accepted", "registered", "loop", "reading", "granted",
           "signedIn", "rejected", "cleanup", "unregister", "forget", "release", "done"}

\* The stages from registerHandler to the end of unregisterHandler.
Present == Stages \ {"new", "refused", "accepted", "release", "done"}

\* Types; in particular the connections that hold a slot are never more than the
\* limit of acceptConnections.
TypeOK ==
  /\ accepting \in BOOLEAN
  /\ count \in 0..MaxConnections
  /\ stage \in [Clients -> Stages]
  /\ id \in [Clients -> ConnectionIds \union {None}]
  /\ running \in [Clients -> BOOLEAN]
  /\ session \in [Clients ->
       {"CONNECTED", "AUTHENTICATED", "ERROR", "DISCONNECTING", "DISCONNECTED"}]
  /\ user \in [Clients -> Users \union {None}]
  /\ monitored \in [Clients -> BOOLEAN]
  /\ logins \in [Clients -> Nat] /\ \A c \in Clients : logins[c] <= MaxLogins[c]
  /\ active \subseteq Users
  /\ handlers \in [ConnectionIds -> Clients \union {None}]
  /\ byUser \in [Users -> Clients \union {None}]
  /\ admitted \in [Clients -> SUBSET Users]

\* OrderManager believes the session's user name: whenever a message is read on an
\* authenticated session, the connection has signed in under the name it bears,
\* however login requests, refusals and stops follow each other.
OrdersAreSignedIn ==
  \A c \in Clients :
    stage[c] = "reading" /\ Authenticated(c) => user[c] \in admitted[c]

\* The users for whom a connection signed in before it asked for another name.
Abandoned == {u \in Users : \E c \in Clients : u \in admitted[c] /\ user[c] # u}

Holds(c, u) == u \in admitted[c] /\ stage[c] \in Present

\* A name is in use only as long as a connection holds it, so that its user can
\* always come back: unless a connection that had signed in sent another login
\* request under another name.
NamesAreReleased ==
  \A u \in active \ Abandoned : \E c \in Clients : Holds(c, u)

\* Execution reports for a user are sent to a connection that is open and has
\* signed in as this user, with the same exception.
ExecutionsReachTheUser ==
  \A u \in Users \ Abandoned : byUser[u] # None => Holds(byUser[u], u)

\* Although two open connections may have the same number, disconnectAll never has
\* to do with a connection that is gone: the registry keeps none after its handler
\* was unregistered, whoever registered or unregistered under that number since.
RegistryIsLive ==
  \A i \in ConnectionIds :
    handlers[i] # None => stage[handlers[i]] \in Present \ {"forget"}

\* A connection which the heartbeat monitor, a logout, a refused login or the
\* shutdown has stopped gives its slot back.
InLoop(c) == stage[c] \in Present \ {"registered"}
ConnectionsEnd ==
  \A c \in Clients : (InLoop(c) /\ ~running[c]) ~> stage[c] = "done"

\* AuthenticationServiceTest.java, line 112: a login is answered "session in use"
\* while the user has an active session.  So no two connections take messages as the
\* same user.
Serving(c, u) == /\ stage[c] \in {"loop", "reading"} /\ running[c] /\ Authenticated(c)
                 /\ user[c] = u
OneSessionPerUser ==
  \A c, d \in Clients, u \in Users : Serving(c, u) /\ Serving(d, u) => c = d
=============================================================================
