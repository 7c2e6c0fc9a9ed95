-------------------------------- MODULE Link --------------------------------
(***************************************************************************)
(* One connection over time: HeartbeatMonitor on the scheduler's threads,  *)
(* and the gates a message passes in ClientConnectionHandler.messageLoop:  *)
(* MessageValidator, RateLimiter and ErrorHandler.                         *)
(*                                                                         *)
(* Time passes in ticks, several to a second, because the monitor compares *)
(* whole seconds and the limiter does not.  The bytes of a message come in *)
(* any number of pieces, are read in the tick in which they arrive, and    *)
(* the scheduler runs its tasks when they are due; what else happens in    *)
(* the same tick, and in which order, is open.  The connection's number is *)
(* its own here: limiter and error statistics are kept by number, and      *)
(* Sessions shows that two connections may share one.                      *)
(***************************************************************************)
EXTENDS Integers, FiniteSets

CONSTANTS
  Second,            \* ticks in a second
  HeartbeatTimeout,  \* configuration, in seconds
  SendInterval,      \* heartbeatIntervalSeconds
  CheckInterval,     \* between two runs of checkTimeout (5 in the code)
  ReadTimeout,       \* the socket's time limit (connectionTimeout)
  MaxPieces,         \* in how many reads a message may arrive (one of 65537 bytes)
  WindowLength,      \* windowDuration
  MaxMessages,       \* maxMessagesPerWindow
  ErrorLimit,        \* 10 in the code
  MaxTime,           \* bound: seconds
  None               \* Java's null

ASSUME LinkAssumption ==
  /\ {Second, HeartbeatTimeout, SendInterval, CheckInterval, ReadTimeout, MaxPieces,
      WindowLength, MaxMessages} \subseteq Nat \ {0}
  /\ {ErrorLimit, MaxTime} \subseteq Nat
  /\ None \notin Int /\ None \notin [start : Nat, count : Nat]

VARIABLES
  now,            \* ticks since the connection was accepted
  running,        \* ClientConnectionHandler.running
  ended,          \* the message loop is over
  lastRead,       \* when bytes were read last
  pieces,         \* how many reads deserialize has made for the next message
  started,        \* when the monitor was started, at sign-in
  active,         \* HeartbeatMonitor.active
  checked,        \* when checkTimeout ran last
  lastHeartbeat,  \* ClientSession.lastHeartbeatReceived
  window,         \* ConnectionRateLimit: windowStart and messageCount
  errors,         \* ConnectionErrorStats.errorCount
  \* what the properties speak about, and no step reads:
  beat,           \* when the client sent its last heartbeat
  faulty,         \* the client let a time limit pass, sent what is no message, or left
  refused,        \* the limiter has refused a message
  recent          \* the messages accepted in the last WindowLength: when, and which of that tick

MaxErrors == ErrorLimit + 1  \* bound: how many errors a connection gets to make

monitorVars == <<started, active, checked>>
vars == <<now, running, ended, lastRead, pieces, monitorVars, lastHeartbeat, window, errors,
          beat, faulty, refused, recent>>

Seconds(ticks) == ticks \div Second  \* Duration.getSeconds
\* A task of the monitor; cleanup, at the end of the loop, cancels both.
Due(interval) ==
  active /\ ~ended /\ now > started /\ (now - started) % (interval * Second) = 0
CheckDue == Due(CheckInterval) /\ checked # now
ReadDue  == ~ended /\ now - lastRead >= ReadTimeout * Second

-----------------------------------------------------------------------------
(* RateLimiter. *)

\* Mutant: a window that has expired is counted from zero but not moved.
CurrentWindow_Fixed ==
  IF window = None THEN [start |-> now, count |-> 0]
  ELSE IF now - window.start > WindowLength * Second
  THEN [window EXCEPT !.count = 0]
  ELSE window
\* The window of a first message, or of the first after the last one expired.
CurrentWindow ==
  IF window = None \/ now - window.start > WindowLength * Second
  THEN [start |-> now, count |-> 0]
  ELSE window

\* Mutant: one message more.
Allowed_OneMore(w) == w.count <= MaxMessages
Allowed(w) == w.count < MaxMessages

-----------------------------------------------------------------------------
(* BoeMessageSerializer.deserialize. *)

\* readFully: some bytes of the next message, and not the last of them.  The socket's
\* time limit is one for each read.
Piece ==
  /\ ~ended /\ pieces < MaxPieces - 1
  /\ pieces' = pieces + 1
  /\ lastRead' = now
  /\ UNCHANGED <<now, running, ended, monitorVars, lastHeartbeat, window, errors, beat,
                 faulty, refused, recent>>

\* The header has no start marker or an impossible length, or the stream ends: an
\* IOException ends the loop.
BadFrame ==
  /\ ~ended
  /\ ended' = TRUE
  /\ faulty' = TRUE
  /\ UNCHANGED <<now, running, lastRead, pieces, monitorVars, lastHeartbeat, window, errors,
                 beat, refused, recent>>

\* The last bytes of a message.
Whole == lastRead' = now /\ pieces' = 0

-----------------------------------------------------------------------------
(* ClientConnectionHandler.messageLoop. *)

\* An invalid message is counted, and neither limited nor followed by the check for
\* too many errors.
Invalid ==
  /\ ~ended /\ errors < MaxErrors
  /\ Whole
  /\ errors' = errors + 1
  /\ ended' = ~running
  /\ UNCHANGED <<now, running, monitorVars, lastHeartbeat, window, beat, faulty, refused,
                 recent>>

\* handleClientHeartbeat
Heard(kind) == IF kind = "heartbeat" THEN now ELSE lastHeartbeat

\* HeartbeatMonitor.start, at a login that is accepted: a monitor that is active goes on.
StartMonitor ==
  IF active THEN UNCHANGED monitorVars
  ELSE started' = now /\ active' = TRUE /\ checked' = None

\* What the properties know of a message that is accepted.
Accepted == [at |-> now, nth |-> Cardinality({m \in recent : m.at = now}) + 1]

\* A valid message within the limit, but for those that end the loop.
Process(kind) ==
  LET w == CurrentWindow IN
  /\ ~ended /\ Allowed(w)
  /\ window' = [w EXCEPT !.count = @ + 1]
  /\ lastHeartbeat' = Heard(kind)
  /\ IF kind = "login" THEN StartMonitor ELSE UNCHANGED monitorVars
  /\ ended' = (~running \/ errors > ErrorLimit)
  /\ Whole
  /\ beat' = IF kind = "heartbeat" THEN now ELSE beat
  /\ recent' = recent \union {Accepted}
  /\ UNCHANGED <<now, running, errors, faulty, refused>>

\* A logout, or a login that is refused, is the last message; the monitor is stopped by
\* the logout, or by cleanup.
Leave ==
  LET w == CurrentWindow IN
  /\ ~ended /\ Allowed(w)
  /\ window' = [w EXCEPT !.count = @ + 1]
  /\ running' = FALSE /\ ended' = TRUE /\ active' = FALSE
  /\ Whole
  /\ recent' = recent \union {Accepted}
  /\ faulty' = TRUE
  /\ UNCHANGED <<now, started, checked, lastHeartbeat, errors, beat, refused>>

\* A valid message over the limit is dropped: heartbeats too.
Drop(kind) ==
  /\ ~ended /\ ~Allowed(CurrentWindow)
  /\ window' = CurrentWindow
  /\ ended' = ~running
  /\ Whole
  /\ beat' = IF kind = "heartbeat" THEN now ELSE beat
  /\ refused' = TRUE
  /\ UNCHANGED <<now, running, monitorVars, lastHeartbeat, errors, faulty, recent>>

\* No message within the socket's time limit: an IOException ends the loop.
ReadTimesOut ==
  /\ ReadDue
  /\ ended' = TRUE
  /\ UNCHANGED <<now, running, lastRead, pieces, monitorVars, lastHeartbeat, window, errors, beat,
                 faulty, refused, recent>>

-----------------------------------------------------------------------------
(* HeartbeatMonitor. *)

\* Mutant: getLastHeartbeatSent, for getLastHeartbeatReceived.
Overdue_Sent == Seconds((now - started) % (SendInterval * Second)) > HeartbeatTimeout
\* Mutant: the time limit itself is too late.
Overdue_AtOnce == Seconds(now - lastHeartbeat) >= HeartbeatTimeout
Overdue == Seconds(now - lastHeartbeat) > HeartbeatTimeout

\* checkTimeout; stopping the handler is only noticed after the next message.
CheckTimeout ==
  /\ CheckDue
  /\ checked' = now
  /\ IF lastHeartbeat # None /\ Overdue
     THEN running' = FALSE /\ active' = FALSE
     ELSE UNCHANGED <<running, active>>
  /\ UNCHANGED <<now, ended, lastRead, pieces, started, lastHeartbeat, window, errors, beat, faulty,
                 refused, recent>>

\* sendHeartbeat fails to write: the monitor stops, and the handler does not.
SendFails ==
  /\ Due(SendInterval)
  /\ active' = FALSE
  /\ UNCHANGED <<now, running, ended, lastRead, pieces, started, checked, lastHeartbeat, window,
                 errors, beat, faulty, refused, recent>>

-----------------------------------------------------------------------------
Tick ==
  /\ now < MaxTime * Second /\ ~ended /\ ~CheckDue /\ ~ReadDue
  /\ now' = now + 1
  /\ recent' = {m \in recent : now' - m.at <= WindowLength * Second}
  /\ faulty' = \/ faulty
               \/ now' - lastRead >= ReadTimeout * Second
               \/ beat # None /\ now' - beat > HeartbeatTimeout * Second
  /\ UNCHANGED <<running, ended, lastRead, pieces, monitorVars, lastHeartbeat, window, errors,
                 beat, refused>>

Init ==
  /\ now = 0 /\ lastRead = 0 /\ pieces = 0
  /\ running = TRUE /\ ended = FALSE
  /\ started = None /\ active = FALSE /\ checked = None
  /\ lastHeartbeat = None
  /\ window = None
  /\ errors = 0
  /\ beat = None /\ faulty = FALSE /\ refused = FALSE /\ recent = {}

Kinds == {"login", "heartbeat", "other"}

Next ==
  \/ Piece \/ BadFrame \/ Invalid
  \/ \E kind \in Kinds : Process(kind) \/ Drop(kind)
  \/ Leave
  \/ ReadTimesOut \/ CheckTimeout \/ SendFails
  \/ Tick

Spec == Init /\ [][Next]_vars

-----------------------------------------------------------------------------
(* Properties. *)

Times == 0..(MaxTime * Second)

\* Types; in particular a window never counts more than maxMessagesPerWindow.
TypeOK ==
  /\ now \in Times /\ lastRead \in Times
  /\ pieces \in 0..(MaxPieces - 1)
  /\ running \in BOOLEAN /\ ended \in BOOLEAN
  /\ {started, checked, lastHeartbeat, beat} \subseteq Times \union {None}
  /\ active \in BOOLEAN
  /\ window # None => window \in [start : Times, count : 0..MaxMessages]
  /\ errors \in 0..MaxErrors
  /\ faulty \in BOOLEAN /\ refused \in BOOLEAN
  /\ recent \subseteq [at : Times, nth : Nat]

\* A client that lets no more than HeartbeatTimeout pass between its heartbeats, and
\* less than ReadTimeout between its bytes, that sends nothing but messages, no more
\* than ErrorLimit invalid ones, is never over the limit and does not leave, is not
\* disconnected: whenever the checks fall due, and however seconds are rounded.
GoodClientSurvives ==
  ~faulty /\ ~refused /\ errors <= ErrorLimit => running /\ ~ended

\* A client from which nothing arrives, neither data nor heartbeats, is stopped one check
\* after the time limit, rounded up to a second, if it has sent a heartbeat before, and
\* unless a heartbeat of the server could not be sent.  A handler that was stopped looks
\* up only when the message it is reading is complete, and each piece of that has the
\* socket's time limit: it ends within as many of them as a message has pieces.
Silence == now - lastRead
Grace == (HeartbeatTimeout + 1 + CheckInterval) * Second
SilenceIsNoticed ==
  ~ended =>
    /\ active /\ lastHeartbeat # None => Silence < Grace
    /\ ~running => now - checked <= MaxPieces * ReadTimeout * Second

\* The protocol reference counts any inbound data as a sign of life: the check that stops
\* a handler finds no message accepted within the time limit.  The code measures from the
\* last heartbeat alone.  (Messages are looked up in recent: WindowLength must not be less
\* than HeartbeatTimeout.)
DataIsASignOfLife ==
  ~running /\ ~ended => \A m \in recent : checked - m.at >= HeartbeatTimeout * Second

\* The limiter's windows follow each other, so that within the length of a window up
\* to twice the limit may pass, and never more.
AtMostTwoWindows == Cardinality(recent) <= 2 * MaxMessages
=============================================================================
