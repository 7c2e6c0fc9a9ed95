---------------------------- MODULE Link_proofs ----------------------------
(***************************************************************************)
(* One connection over time, for any length of a second, any limits and    *)
(* periods, any number of pieces to a message and any time.  IInv is       *)
(* inductive, and what the link run checks follows from it.                *)
(*                                                                         *)
(* The argument: checks fall due at the multiples of their period, and     *)
(* time does not pass while one is due, so that a monitor that is active   *)
(* has found the last heartbeat in time at most one period ago             *)
(* (ChecksAreTimely).  A handler it has stopped reads on for as many       *)
(* socket time limits as its message has pieces (StoppedLooksUp).  Of the  *)
(* messages of the last WindowLength all but those of the limiter's        *)
(* current window are of the one before it (CountedByWindows).             *)
(***************************************************************************)
EXTENDS Link, TLAPS, FiniteSetTheorems

HeartbeatTicks == HeartbeatTimeout * Second
LateTicks == (HeartbeatTimeout + 1) * Second
CheckTicks == CheckInterval * Second
ReadTicks == ReadTimeout * Second
WindowTicks == WindowLength * Second

\* Nothing has happened later than now.
Past ==
  /\ lastRead <= now
  /\ \A x \in {started, checked, lastHeartbeat, beat} : x # None => x <= now
  /\ window # None => window.start <= now
  /\ \A m \in recent : m.at <= now /\ now - m.at <= WindowTicks

\* The monitor is started by a message, and what it has stopped stays stopped; the server
\* knows of no heartbeat that was not sent, and of all unless it refuses messages.
Monitored ==
  /\ started = None => ~active /\ checked = None
  /\ ~running /\ ~ended => ~active /\ checked # None
  /\ \A x \in {started, lastHeartbeat} : x # None => x <= lastRead
  /\ ~refused => lastHeartbeat = beat

\* An active monitor has made the last check that was due, or is about to, and has
\* found that no heartbeat was overdue.
ChecksAreTimely ==
  active /\ ~ended =>
    \/ checked = None /\ now - started <= CheckTicks
    \/ /\ checked # None /\ started < checked /\ now - checked <= CheckTicks
       /\ (checked - started) % CheckTicks = 0
       /\ lastHeartbeat # None => checked - lastHeartbeat < LateTicks

\* A read ends in time, or the loop does; a client without fault is never that late.
ReadsAreTimely ==
  /\ ~ended => now - lastRead <= ReadTicks
  /\ ~faulty => now - lastRead < ReadTicks /\ (beat # None => now - beat <= HeartbeatTicks)

\* A handler that was stopped by a check has since read the pieces of one message, each
\* within the socket's time limit.
StoppedLooksUp ==
  ~running /\ ~ended =>
    checked # None /\ now - checked <= pieces * ReadTicks + (now - lastRead)

\* What has no fault runs.
NoFaultNoEnd ==
  ~faulty /\ ~refused => running /\ (errors <= ErrorLimit => ~ended)

Earlier == {m \in recent : m.at < window.start}
Current == {m \in recent : m.at >= window.start}

\* The recent messages are of the current window or of the one before it, and each is
\* counted there.
CountedByWindows ==
  /\ IsFiniteSet(recent)
  /\ window = None => recent = {}
  /\ window # None =>
       /\ \A m \in recent : m.at - window.start <= WindowTicks
       /\ Cardinality(Earlier) <= MaxMessages
       /\ Cardinality(Current) <= window.count

\* The messages of one tick are numbered without gaps: a further one is a new element.
NumberedByTick ==
  \A m \in recent : m.nth <= Cardinality({n \in recent : n.at = m.at})

IInv == /\ TypeOK /\ Past /\ Monitored /\ ChecksAreTimely /\ ReadsAreTimely
        /\ StoppedLooksUp /\ NoFaultNoEnd /\ CountedByWindows /\ NumberedByTick

-----------------------------------------------------------------------------
(* Arithmetic. *)

\* Whole seconds: more than n of them is at least n + 1.
LEMMA SecondsAbove ==
  ASSUME NEW s \in Nat \ {0}, NEW t \in Int, NEW n \in Nat
  PROVE  t \div s > n <=> t >= (n + 1) * s
OBVIOUS

\* The multiples of a period are a period apart.
LEMMA NextMultiple ==
  ASSUME NEW p \in Nat \ {0}, NEW a \in Nat
  PROVE  /\ a % p = 0 => (a + p) % p = 0
         /\ p % p = 0
OBVIOUS

\* A product is positive if its factors are.
LEMMA PositiveProduct ==
  ASSUME NEW m \in Nat \ {0}, NEW n \in Nat \ {0}
  PROVE  m * n \in Nat \ {0}
OBVIOUS

\* Multiplication is monotonic.
LEMMA Monotonic ==
  ASSUME NEW r \in Nat, NEW m \in Nat, NEW n \in Nat, m <= n
  PROVE  m * r <= n * r /\ (m + 1) * r = m * r + r /\ m * r \in Nat
OBVIOUS

\* The bounds of Link in ticks.
LEMMA Ticks ==
  /\ HeartbeatTicks \in Nat \ {0} /\ LateTicks = HeartbeatTicks + Second
  /\ CheckTicks \in Nat \ {0} /\ ReadTicks \in Nat \ {0} /\ WindowTicks \in Nat \ {0}
  /\ Second \in Nat \ {0}
  /\ Grace = LateTicks + CheckTicks
<1>1. {Second, HeartbeatTimeout, CheckInterval, ReadTimeout, WindowLength} \subseteq Nat \ {0}
  BY LinkAssumption
<1>2. HeartbeatTicks \in Nat \ {0} /\ CheckTicks \in Nat \ {0} /\ ReadTicks \in Nat \ {0}
      /\ WindowTicks \in Nat \ {0}
  BY <1>1, PositiveProduct DEF HeartbeatTicks, CheckTicks, ReadTicks, WindowTicks
<1>3. LateTicks = HeartbeatTicks + Second
  BY <1>1 DEF LateTicks, HeartbeatTicks
<1>4. Grace = LateTicks + CheckTicks
  BY <1>1 DEF Grace, LateTicks, CheckTicks
<1> QED BY <1>1, <1>2, <1>3, <1>4

\* None is no time.
LEMMA NoneIsNoTime == None \notin Int
BY LinkAssumption

\* None is no window.
LEMMA NoneIsNoWindow == None \notin [start : Times, count : 0..MaxMessages]
<1>1. Times \subseteq Nat /\ 0..MaxMessages \subseteq Nat
  BY LinkAssumption DEF Times
<1>2. [start : Times, count : 0..MaxMessages] \subseteq [start : Nat, count : Nat]
  BY <1>1
<1> QED BY <1>2, LinkAssumption

-----------------------------------------------------------------------------
(* The initial state. *)

\* Init establishes the invariant.
LEMMA InitIInv == Init => IInv
<1> SUFFICES ASSUME Init PROVE IInv
  OBVIOUS
<1>1. TypeOK
  <2>1. 0 \in Times /\ 0 \in 0..(MaxPieces - 1) /\ 0 \in 0..MaxErrors
    BY LinkAssumption DEF Times, MaxErrors
  <2> QED BY <2>1, NoneIsNoTime DEF Init, TypeOK
<1>2. Past /\ Monitored /\ ChecksAreTimely /\ ReadsAreTimely /\ StoppedLooksUp /\ NoFaultNoEnd
  BY Ticks DEF Init, Past, Monitored, ChecksAreTimely, ReadsAreTimely, StoppedLooksUp, NoFaultNoEnd
<1>3. CountedByWindows /\ NumberedByTick
  BY FS_EmptySet DEF Init, CountedByWindows, NumberedByTick
<1> QED BY <1>1, <1>2, <1>3 DEF IInv

-----------------------------------------------------------------------------
(* Types. *)

\* The window after a message is accepted; a window that refuses messages is kept.
LEMMA Windows ==
  ASSUME TypeOK, Past
  PROVE  /\ CurrentWindow \in [start : Times, count : 0..MaxMessages]
         /\ CurrentWindow.start <= now
         /\ now - CurrentWindow.start <= WindowTicks
         /\ ~Allowed(CurrentWindow) => CurrentWindow = window
         /\ \/ CurrentWindow = window /\ window # None
            \/ /\ CurrentWindow = [start |-> now, count |-> 0]
               /\ window # None => now - window.start > WindowTicks
<1>1. MaxMessages \in Nat \ {0}
  BY LinkAssumption
<1>2. window # None => window \in [start : Times, count : 0..MaxMessages] /\ window.start <= now
  BY DEF TypeOK, Past
<1>3. now \in Nat /\ now \in Times
  BY DEF TypeOK, Times
<1>4. [start |-> now, count |-> 0] \in [start : Times, count : 0..MaxMessages]
  BY <1>1, <1>3
<1>5. CASE window # None /\ ~(now - window.start > WindowTicks)
  BY <1>2, <1>3, <1>5, Ticks DEF CurrentWindow, WindowTicks, Times
<1>6. CASE window = None \/ now - window.start > WindowTicks
  <2>1. CurrentWindow = [start |-> now, count |-> 0]
    BY <1>6 DEF CurrentWindow, WindowTicks
  <2>2. Allowed(CurrentWindow)
    BY <1>1, <2>1 DEF Allowed
  <2> QED BY <1>3, <1>4, <1>6, <2>1, <2>2, Ticks
<1> QED BY <1>5, <1>6

\* The messages of a tick are finitely many.
LEMMA OfTick ==
  ASSUME IsFiniteSet(recent), NEW t
  PROVE  /\ IsFiniteSet({m \in recent : m.at = t})
         /\ Cardinality({m \in recent : m.at = t}) \in Nat
BY FS_Subset, FS_CardinalityType

\* Every step keeps the types.
LEMMA NextTypeOK ==
  ASSUME TypeOK, Past, IsFiniteSet(recent), [Next]_vars
  PROVE  TypeOK'
<1> USE DEF TypeOK
<1>1. now \in Times /\ now \in Nat /\ MaxPieces \in Nat \ {0} /\ 0 \in 0..(MaxPieces - 1)
  BY LinkAssumption DEF Times
<1>0. Accepted \in [at : Times, nth : Nat]
  <2>1. Cardinality({m \in recent : m.at = now}) \in Nat
    BY OfTick
  <2> QED BY <1>1, <2>1 DEF Accepted
<1>2. CASE Piece
  BY <1>1, <1>2 DEF Piece, monitorVars
<1>3. CASE BadFrame
  BY <1>3 DEF BadFrame, monitorVars
<1>4. CASE Invalid
  BY <1>1, <1>4, LinkAssumption DEF Invalid, Whole, monitorVars, MaxErrors
<1>5. ASSUME NEW kind \in Kinds, Process(kind)
      PROVE  TypeOK'
  <2>1. window' \in [start : Times, count : 0..MaxMessages]
    BY <1>5, Windows, LinkAssumption DEF Process, Allowed
  <2>2. recent' \subseteq [at : Times, nth : Nat]
    BY <1>0, <1>5 DEF Process
  <2>3. {started', checked', lastHeartbeat', beat'} \subseteq Times \union {None}
    BY <1>1, <1>5 DEF Process, Heard, StartMonitor, monitorVars
  <2>4. now' \in Times /\ lastRead' \in Times /\ pieces' \in 0..(MaxPieces - 1)
    BY <1>1, <1>5 DEF Process, Whole
  <2>5. /\ running' \in BOOLEAN /\ ended' \in BOOLEAN /\ active' \in BOOLEAN
        /\ errors' \in 0..MaxErrors /\ faulty' \in BOOLEAN /\ refused' \in BOOLEAN
    BY <1>5 DEF Process, StartMonitor, monitorVars
  <2> QED BY <2>1, <2>2, <2>3, <2>4, <2>5
<1>6. ASSUME NEW kind \in Kinds, Drop(kind)
      PROVE  TypeOK'
  BY <1>1, <1>6, Windows DEF Drop, Whole, monitorVars
<1>7. CASE ReadTimesOut
  BY <1>7 DEF ReadTimesOut, monitorVars
<1>8. CASE CheckTimeout
  BY <1>1, <1>8 DEF CheckTimeout
<1>9. CASE SendFails
  BY <1>9 DEF SendFails
<1>10. CASE Tick
  <2>1. now' \in Times
    BY <1>1, <1>10, LinkAssumption DEF Tick, Times
  <2> QED BY <1>10, <2>1 DEF Tick, monitorVars
<1>11. CASE UNCHANGED vars
  BY <1>11 DEF vars, monitorVars
<1>12. CASE Leave
  <2>1. window' \in [start : Times, count : 0..MaxMessages]
    BY <1>12, Windows, LinkAssumption DEF Leave, Allowed
  <2>2. recent' \subseteq [at : Times, nth : Nat]
    BY <1>0, <1>12 DEF Leave
  <2> QED BY <1>1, <1>12, <2>1, <2>2 DEF Leave, Whole
<1> QED BY <1>2, <1>3, <1>4, <1>5, <1>6, <1>7, <1>8, <1>9, <1>10, <1>11, <1>12 DEF Next

-----------------------------------------------------------------------------
(* The past, the monitor and the reads. *)

\* Every step leaves what has happened in the past.
LEMMA NextPast ==
  ASSUME TypeOK, Past, [Next]_vars
  PROVE  Past'
<1> USE DEF Past
<1>1. /\ now \in Nat /\ lastRead \in Nat /\ WindowTicks \in Nat
      /\ \A m \in recent : m.at \in Nat
  BY Ticks DEF TypeOK, Times
<1>2. CASE Piece
  BY <1>1, <1>2 DEF Piece, monitorVars
<1>3. CASE BadFrame
  BY <1>3 DEF BadFrame, monitorVars
<1>4. CASE Invalid
  BY <1>1, <1>4 DEF Invalid, Whole, monitorVars
<1>5. ASSUME NEW kind \in Kinds, Process(kind)
      PROVE  Past'
  <2>1. window'.start <= now'
    BY <1>5, Windows DEF Process
  <2>2. \A m \in recent' : m.at <= now' /\ now' - m.at <= WindowTicks
    <3>1. now' = now /\ recent' = recent \union {Accepted} /\ Accepted.at = now
      BY <1>5 DEF Process, Accepted
    <3> QED BY <1>1, <3>1
  <2>3. \A x \in {started', checked', lastHeartbeat', beat'} : x # None => x <= now'
    BY <1>1, <1>5 DEF Process, Heard, StartMonitor, monitorVars
  <2>4. lastRead' <= now'
    BY <1>1, <1>5 DEF Process, Whole
  <2> QED BY <2>1, <2>2, <2>3, <2>4 DEF WindowTicks
<1>6. ASSUME NEW kind \in Kinds, Drop(kind)
      PROVE  Past'
  BY <1>1, <1>6, Windows DEF Drop, Whole, monitorVars
<1>7. CASE ReadTimesOut
  BY <1>7 DEF ReadTimesOut, monitorVars
<1>8. CASE CheckTimeout
  BY <1>1, <1>8 DEF CheckTimeout
<1>9. CASE SendFails
  BY <1>9 DEF SendFails
<1>10. CASE Tick
  <2>1. now' = now + 1 /\ UNCHANGED <<lastRead, started, checked, lastHeartbeat, beat, window>>
    BY <1>10 DEF Tick, monitorVars
  <2>2. \A m \in recent' : m \in recent /\ now' - m.at <= WindowTicks
    BY <1>10 DEF Tick, WindowTicks
  <2>3. \A x \in {started, checked, lastHeartbeat, beat} : x # None => x \in Nat
    BY DEF TypeOK, Times
  <2>4. window # None => window.start \in Nat
    BY DEF TypeOK, Times
  <2> QED BY <1>1, <2>1, <2>2, <2>3, <2>4 DEF WindowTicks
<1>11. CASE UNCHANGED vars
  BY <1>11 DEF vars, monitorVars
<1>12. CASE Leave
  <2>1. window'.start <= now'
    BY <1>12, Windows DEF Leave
  <2>2. \A m \in recent' : m.at <= now' /\ now' - m.at <= WindowTicks
    <3>1. now' = now /\ recent' = recent \union {Accepted} /\ Accepted.at = now
      BY <1>12 DEF Leave, Accepted
    <3> QED BY <1>1, <3>1
  <2> QED BY <1>1, <1>12, <2>1, <2>2 DEF Leave, Whole
<1> QED BY <1>2, <1>3, <1>4, <1>5, <1>6, <1>7, <1>8, <1>9, <1>10, <1>11, <1>12 DEF Next

\* Every step keeps what is said of the monitor.
LEMMA NextMonitored ==
  ASSUME TypeOK, Past, Monitored, [Next]_vars
  PROVE  Monitored'
<1> USE DEF Monitored
<1>1. /\ now \in Nat /\ lastRead \in Nat /\ lastRead <= now
      /\ running \in BOOLEAN /\ active \in BOOLEAN /\ ended \in BOOLEAN /\ now # None
      /\ \A x \in {started, checked, lastHeartbeat, beat} : x # None => x \in Nat /\ x <= now
  BY NoneIsNoTime DEF TypeOK, Times, Past
<1>2. CASE Piece
  BY <1>1, <1>2 DEF Piece, monitorVars
<1>3. CASE BadFrame
  BY <1>3 DEF BadFrame, monitorVars
<1>4. CASE Invalid
  BY <1>1, <1>4 DEF Invalid, Whole, monitorVars
<1>5. ASSUME NEW kind \in Kinds, Process(kind)
      PROVE  Monitored'
  <2>1. /\ running' = running /\ refused' = refused /\ lastRead' = now /\ ~ended
        /\ ~running => ended'
        /\ \/ started' = now /\ checked' = None
           \/ started' = started /\ active' = active /\ checked' = checked
    BY <1>1, <1>5 DEF Process, Whole, StartMonitor, monitorVars
  <2>2. \/ lastHeartbeat' = now /\ beat' = now
        \/ lastHeartbeat' = lastHeartbeat /\ beat' = beat
    BY <1>5 DEF Process, Heard
  <2>3. started' = None => ~active' /\ checked' = None
    BY <1>1, <2>1
  <2> QED BY <1>1, <2>1, <2>2, <2>3
<1>6. ASSUME NEW kind \in Kinds, Drop(kind)
      PROVE  Monitored'
  BY <1>1, <1>6 DEF Drop, Whole, monitorVars
<1>7. CASE ReadTimesOut
  BY <1>7 DEF ReadTimesOut, monitorVars
<1>8. CASE CheckTimeout
  BY <1>1, <1>8 DEF CheckTimeout, CheckDue, Due
<1>9. CASE SendFails
  BY <1>9 DEF SendFails
<1>10. CASE Tick
  BY <1>10 DEF Tick, monitorVars
<1>11. CASE UNCHANGED vars
  BY <1>11 DEF vars, monitorVars
<1>12. CASE Leave
  <2>1. /\ ended' = TRUE /\ active' = FALSE /\ lastRead' = now
        /\ UNCHANGED <<started, checked, lastHeartbeat, beat, refused>>
    BY <1>12 DEF Leave, Whole
  <2> QED BY <1>1, <2>1
<1> QED BY <1>2, <1>3, <1>4, <1>5, <1>6, <1>7, <1>8, <1>9, <1>10, <1>11, <1>12 DEF Next

\* Time does not pass when a read is due, and a client that lets it pass is faulty.
LEMMA NextReadsAreTimely ==
  ASSUME TypeOK, Past, ReadsAreTimely, [Next]_vars
  PROVE  ReadsAreTimely'
<1> USE DEF ReadsAreTimely
<1>1. /\ now \in Nat /\ lastRead \in Nat /\ lastRead <= now /\ (beat # None => beat \in Nat)
      /\ ReadTicks \in Nat \ {0} /\ HeartbeatTicks \in Nat \ {0}
  BY Ticks DEF TypeOK, Times, Past
<1>2. CASE Piece
  BY <1>1, <1>2 DEF Piece
<1>3. CASE BadFrame
  BY <1>3 DEF BadFrame
<1>4. CASE Invalid
  BY <1>1, <1>4 DEF Invalid, Whole
<1>5. ASSUME NEW kind \in Kinds, Process(kind)
      PROVE  ReadsAreTimely'
  BY <1>1, <1>5 DEF Process, Whole
<1>6. ASSUME NEW kind \in Kinds, Drop(kind)
      PROVE  ReadsAreTimely'
  BY <1>1, <1>6 DEF Drop, Whole
<1>7. CASE ReadTimesOut
  BY <1>7 DEF ReadTimesOut
<1>8. CASE CheckTimeout
  BY <1>8 DEF CheckTimeout
<1>9. CASE SendFails
  BY <1>9 DEF SendFails
<1>10. CASE Tick
  <2>1. now' = now + 1 /\ UNCHANGED <<lastRead, beat, ended>>
    BY <1>10 DEF Tick
  <2>2. ~ended /\ now - lastRead < ReadTicks
    BY <1>1, <1>10 DEF Tick, ReadDue, ReadTicks
  <2>3. ~faulty' => /\ ~(now' - lastRead >= ReadTicks)
                    /\ beat # None => ~(now' - beat > HeartbeatTicks)
    BY <1>10 DEF Tick, ReadTicks, HeartbeatTicks
  <2> QED BY <1>1, <2>1, <2>2, <2>3 DEF ReadTicks, HeartbeatTicks
<1>11. CASE UNCHANGED vars
  BY <1>11 DEF vars
<1>12. CASE Leave
  BY <1>1, <1>12 DEF Leave, Whole
<1> QED BY <1>2, <1>3, <1>4, <1>5, <1>6, <1>7, <1>8, <1>9, <1>10, <1>11, <1>12 DEF Next

-----------------------------------------------------------------------------
(* The checks of the monitor. *)

\* Overdue in ticks.
LEMMA OverdueIs ==
  ASSUME TypeOK, lastHeartbeat # None
  PROVE  Overdue <=> now - lastHeartbeat >= LateTicks
<1>1. now - lastHeartbeat \in Int /\ HeartbeatTimeout \in Nat /\ Second \in Nat \ {0}
  BY LinkAssumption DEF TypeOK, Times
<1> QED BY <1>1, SecondsAbove DEF Overdue, Seconds, LateTicks

\* Every step keeps the monitor's checks timely.
LEMMA NextChecksAreTimely ==
  ASSUME TypeOK, Past, Monitored, ChecksAreTimely, [Next]_vars
  PROVE  ChecksAreTimely'
<1> USE DEF ChecksAreTimely
<1>1. /\ now \in Nat /\ active \in BOOLEAN /\ LateTicks \in Nat \ {0} /\ CheckTicks \in Nat \ {0}
      /\ \A x \in {started, checked, lastHeartbeat, beat} : x # None => x \in Nat /\ x <= now
  BY Ticks DEF TypeOK, Times, Past
<1>2. active => started # None
  BY DEF Monitored
<1>3. CASE Piece
  BY <1>3 DEF Piece, monitorVars
<1>4. CASE BadFrame
  BY <1>4 DEF BadFrame, monitorVars
<1>5. CASE Invalid
  BY <1>5 DEF Invalid, monitorVars
<1>6. ASSUME NEW kind \in Kinds, Process(kind)
      PROVE  ChecksAreTimely'
  <2>1. now' = now /\ ~ended
    BY <1>6 DEF Process
  <2>2. CASE kind = "login" /\ ~active
    <3>1. started' = now /\ checked' = None
      BY <1>6, <2>2 DEF Process, StartMonitor
    <3> QED BY <1>1, <2>1, <3>1
  <2>3. CASE ~(kind = "login" /\ ~active)
    <3>1. /\ checked' = checked /\ started' = started /\ active' = active
          /\ lastHeartbeat' = now \/ lastHeartbeat' = lastHeartbeat
      BY <1>6, <2>3 DEF Process, Heard, StartMonitor, monitorVars
    <3>2. checked # None => checked - now < LateTicks
      BY <1>1
    <3> QED BY <1>1, <2>1, <3>1, <3>2
  <2> QED BY <2>2, <2>3
<1>7. ASSUME NEW kind \in Kinds, Drop(kind)
      PROVE  ChecksAreTimely'
  BY <1>7 DEF Drop, monitorVars
<1>8. CASE ReadTimesOut
  BY <1>8 DEF ReadTimesOut, monitorVars
<1>9. CASE CheckTimeout
  <2>1. /\ started # None /\ now > started /\ (now - started) % CheckTicks = 0
        /\ checked' = now /\ UNCHANGED <<now, started, lastHeartbeat>>
    BY <1>2, <1>9 DEF CheckTimeout, CheckDue, Due, CheckTicks
  <2>2. active' => (lastHeartbeat # None => now - lastHeartbeat < LateTicks)
    <3> SUFFICES ASSUME active', lastHeartbeat # None
                 PROVE  now - lastHeartbeat < LateTicks
      OBVIOUS
    <3>1. ~Overdue
      BY <1>9 DEF CheckTimeout
    <3> QED BY <1>1, <3>1, OverdueIs
  <2>3. now # None /\ now - now <= CheckTicks
    BY <1>1, NoneIsNoTime
  <2> QED BY <2>1, <2>2, <2>3
<1>10. CASE SendFails
  BY <1>10 DEF SendFails
<1>11. CASE Tick
  <2>1. now' = now + 1 /\ UNCHANGED <<ended, started, checked, active, lastHeartbeat>>
    BY <1>11 DEF Tick, monitorVars
  <2>2. ~CheckDue
    BY <1>11 DEF Tick
  <2> SUFFICES ASSUME active, ~ended
               PROVE  ChecksAreTimely'
    BY <2>1
  <2>3. CASE checked = None
    <3>1. now - started <= CheckTicks
      BY <2>3
    <3>2. now - started # CheckTicks
      <4> SUFFICES ASSUME now - started = CheckTicks
                   PROVE  FALSE
        OBVIOUS
      <4>1. (now - started) % CheckTicks = 0
        BY <1>1, NextMultiple
      <4>2. now > started /\ checked # now
        BY <1>1, <1>2, <2>3, NoneIsNoTime
      <4> QED BY <2>2, <4>1, <4>2 DEF CheckDue, Due, CheckTicks
    <3> QED BY <1>1, <1>2, <2>1, <2>3, <3>1, <3>2
  <2>4. CASE checked # None
    <3>1. /\ started < checked /\ now - checked <= CheckTicks
          /\ (checked - started) % CheckTicks = 0
      BY <2>4
    <3>2. now - checked # CheckTicks
      <4> SUFFICES ASSUME now - checked = CheckTicks
                   PROVE  FALSE
        OBVIOUS
      <4>1. PICK a \in Nat : a = checked - started
        BY <1>1, <1>2, <2>4, <3>1
      <4>2. (a + CheckTicks) % CheckTicks = 0
        BY <1>1, <3>1, <4>1, NextMultiple
      <4>3. a + CheckTicks = now - started
        BY <1>1, <1>2, <2>4, <4>1
      <4>4. now > started /\ checked # now
        BY <1>1, <1>2, <2>4, <3>1
      <4> QED BY <2>2, <4>2, <4>3, <4>4 DEF CheckDue, Due, CheckTicks
    <3> QED BY <1>1, <1>2, <2>1, <2>4, <3>1, <3>2
  <2> QED BY <2>3, <2>4
<1>12. CASE UNCHANGED vars
  BY <1>12 DEF vars, monitorVars
<1>13. CASE Leave
  BY <1>13 DEF Leave
<1> QED BY <1>3, <1>4, <1>5, <1>6, <1>7, <1>8, <1>9, <1>10, <1>11, <1>12, <1>13 DEF Next

\* While the monitor is active, a silence is short.
LEMMA ActiveNotices ==
  ASSUME TypeOK, Past, Monitored, ChecksAreTimely, active, ~ended, lastHeartbeat # None
  PROVE  Silence < Grace
<1>1. /\ now \in Nat /\ lastRead \in Nat /\ LateTicks \in Nat \ {0} /\ CheckTicks \in Nat \ {0}
      /\ Grace = LateTicks + CheckTicks
      /\ \A x \in {started, checked, lastHeartbeat} : x # None => x \in Nat /\ x <= now
  BY Ticks DEF TypeOK, Times, Past
<1>2. started # None /\ started <= lastRead /\ lastHeartbeat <= lastRead
  BY DEF Monitored
<1>3. CASE checked = None
  BY <1>1, <1>2, <1>3 DEF ChecksAreTimely, Silence
<1>4. CASE checked # None
  <2>1. now - checked <= CheckTicks /\ checked - lastHeartbeat < LateTicks
    BY <1>4 DEF ChecksAreTimely
  <2> QED BY <1>1, <1>2, <1>4, <2>1 DEF Silence
<1> QED BY <1>3, <1>4

\* A stopped handler reads on no longer than the pieces of its message take.
LEMMA NextStoppedLooksUp ==
  ASSUME TypeOK, Past, Monitored, ReadsAreTimely, StoppedLooksUp, [Next]_vars
  PROVE  StoppedLooksUp'
<1> USE DEF StoppedLooksUp
<1>1. /\ now \in Nat /\ lastRead \in Nat /\ lastRead <= now /\ pieces \in Nat
      /\ ReadTicks \in Nat \ {0} /\ running \in BOOLEAN /\ pieces * ReadTicks \in Nat
      /\ checked # None => checked \in Nat /\ checked <= now
  <2>1. /\ now \in Nat /\ lastRead \in Nat /\ lastRead <= now /\ pieces \in Nat
        /\ ReadTicks \in Nat \ {0} /\ running \in BOOLEAN
        /\ checked # None => checked \in Nat /\ checked <= now
    BY Ticks, LinkAssumption DEF TypeOK, Times, Past
  <2> QED BY <2>1, Monotonic
<1>2. ~ended => now - lastRead <= ReadTicks
  BY DEF ReadsAreTimely
<1>3. CASE Piece
  <2>1. /\ pieces' = pieces + 1 /\ lastRead' = now /\ ~ended
        /\ UNCHANGED <<now, running, ended, checked>>
    BY <1>3 DEF Piece, monitorVars
  <2>2. pieces' * ReadTicks = pieces * ReadTicks + ReadTicks
    BY <1>1, <2>1, Monotonic
  <2> QED BY <1>1, <1>2, <2>1, <2>2 DEF ReadTicks
<1>4. CASE BadFrame
  BY <1>4 DEF BadFrame
<1>5. CASE Invalid
  BY <1>5 DEF Invalid
<1>6. ASSUME NEW kind \in Kinds, Process(kind)
      PROVE  StoppedLooksUp'
  BY <1>6 DEF Process
<1>7. ASSUME NEW kind \in Kinds, Drop(kind)
      PROVE  StoppedLooksUp'
  BY <1>7 DEF Drop
<1>8. CASE Leave
  BY <1>8 DEF Leave
<1>9. CASE ReadTimesOut
  BY <1>9 DEF ReadTimesOut
<1>10. CASE CheckTimeout
  <2>1. checked' = now /\ UNCHANGED <<now, lastRead, pieces>>
    BY <1>10 DEF CheckTimeout
  <2>2. now # None
    BY <1>1, NoneIsNoTime
  <2> QED BY <1>1, <2>1, <2>2 DEF ReadTicks
<1>11. CASE SendFails
  BY <1>11 DEF SendFails, ReadTicks
<1>12. CASE Tick
  <2>1. now' = now + 1 /\ UNCHANGED <<running, ended, lastRead, pieces, checked>>
    BY <1>12 DEF Tick, monitorVars
  <2> QED BY <1>1, <2>1 DEF ReadTicks
<1>13. CASE UNCHANGED vars
  BY <1>13 DEF vars, monitorVars, ReadTicks
<1> QED BY <1>3, <1>4, <1>5, <1>6, <1>7, <1>8, <1>9, <1>10, <1>11, <1>12, <1>13 DEF Next

\* A client without fault and below the limit is not stopped by any step.
LEMMA NextNoFaultNoEnd ==
  ASSUME TypeOK, Past, Monitored, ReadsAreTimely, NoFaultNoEnd, [Next]_vars
  PROVE  NoFaultNoEnd'
<1> USE DEF NoFaultNoEnd
<1>1. /\ now \in Nat /\ errors \in Nat /\ ErrorLimit \in Nat
      /\ HeartbeatTicks \in Nat \ {0} /\ LateTicks = HeartbeatTicks + Second /\ Second \in Nat \ {0}
      /\ beat # None => beat \in Nat /\ beat <= now
  BY Ticks, LinkAssumption DEF TypeOK, Times, Past
<1>2. CASE Piece
  BY <1>2 DEF Piece
<1>3. CASE BadFrame
  BY <1>3 DEF BadFrame
<1>4. CASE Invalid
  BY <1>1, <1>4 DEF Invalid
<1>5. ASSUME NEW kind \in Kinds, Process(kind)
      PROVE  NoFaultNoEnd'
  <2>1. UNCHANGED <<running, errors, faulty, refused>>
    BY <1>5 DEF Process
  <2>2. running /\ ~(errors > ErrorLimit) => ~ended'
    BY <1>5 DEF Process
  <2>3. errors <= ErrorLimit => ~(errors > ErrorLimit)
    BY <1>1
  <2> QED BY <2>1, <2>2, <2>3
<1>6. ASSUME NEW kind \in Kinds, Drop(kind)
      PROVE  NoFaultNoEnd'
  BY <1>6 DEF Drop
<1>7. CASE ReadTimesOut
  <2>1. faulty
    <3>1. now - lastRead >= ReadTicks
      BY <1>7 DEF ReadTimesOut, ReadDue, ReadTicks
    <3>2. now - lastRead \in Int /\ ReadTicks \in Nat
      BY Ticks DEF TypeOK, Times
    <3> QED BY <3>1, <3>2 DEF ReadsAreTimely
  <2> QED BY <1>7, <2>1 DEF ReadTimesOut
<1>8. CASE CheckTimeout
  <2>1. ~faulty /\ ~refused => ~(lastHeartbeat # None /\ Overdue)
    <3> SUFFICES ASSUME ~faulty, ~refused, lastHeartbeat # None, Overdue
                 PROVE  FALSE
      OBVIOUS
    <3>1. lastHeartbeat = beat
      BY DEF Monitored
    <3>2. now - beat >= LateTicks
      BY <3>1, OverdueIs
    <3>3. now - beat <= HeartbeatTicks
      BY <3>1 DEF ReadsAreTimely
    <3> QED BY <1>1, <3>1, <3>2, <3>3
  <2> QED BY <1>8, <2>1 DEF CheckTimeout
<1>9. CASE SendFails
  BY <1>9 DEF SendFails
<1>10. CASE Tick
  BY <1>10 DEF Tick
<1>11. CASE UNCHANGED vars
  BY <1>11 DEF vars
<1>12. CASE Leave
  BY <1>12 DEF Leave
<1> QED BY <1>2, <1>3, <1>4, <1>5, <1>6, <1>7, <1>8, <1>9, <1>10, <1>11, <1>12 DEF Next

-----------------------------------------------------------------------------
(* The limiter's windows. *)

\* A message that is accepted is a new element of the recent ones.
LEMMA AcceptedIsNew ==
  ASSUME TypeOK, IsFiniteSet(recent), NumberedByTick
  PROVE  Accepted \notin recent
<1>1. Cardinality({m \in recent : m.at = now}) \in Nat
  BY OfTick
<1>2. Accepted.at = now /\ Accepted.nth = Cardinality({m \in recent : m.at = now}) + 1
  BY DEF Accepted
<1> SUFFICES ASSUME Accepted \in recent
             PROVE  FALSE
  OBVIOUS
<1>3. Accepted.nth <= Cardinality({n \in recent : n.at = Accepted.at})
  BY DEF NumberedByTick
<1> QED BY <1>1, <1>2, <1>3

\* Of finitely many messages, those of a part are no more.
LEMMA PartOf ==
  ASSUME NEW S, NEW T, IsFiniteSet(T), S \subseteq T
  PROVE  /\ IsFiniteSet(S) /\ Cardinality(S) <= Cardinality(T)
         /\ Cardinality(S) \in Nat /\ Cardinality(T) \in Nat
BY FS_Subset, FS_CardinalityType

\* Every step keeps the numbers of each tick.
LEMMA NextNumberedByTick ==
  ASSUME TypeOK, IsFiniteSet(recent), NumberedByTick, [Next]_vars
  PROVE  NumberedByTick'
<1>1. CASE (\E kind \in Kinds : Process(kind)) \/ Leave
  <2>1. now' = now /\ recent' = recent \union {Accepted}
    BY <1>1 DEF Process, Leave
  <2>2. Accepted.at = now /\ Accepted.nth = Cardinality({m \in recent : m.at = now}) + 1
    BY DEF Accepted
  <2>3. {n \in recent' : n.at = now} = {n \in recent : n.at = now} \union {Accepted}
    BY <2>1, <2>2
  <2>4. Cardinality({n \in recent' : n.at = now}) = Cardinality({n \in recent : n.at = now}) + 1
    <3>1. Accepted \notin {n \in recent : n.at = now}
      BY AcceptedIsNew
    <3>2. IsFiniteSet({n \in recent : n.at = now})
      BY OfTick
    <3> QED BY <2>3, <3>1, <3>2, FS_AddElement
  <2> SUFFICES ASSUME NEW m \in recent'
               PROVE  m.nth <= Cardinality({n \in recent' : n.at = m.at})
    BY DEF NumberedByTick
  <2>5. CASE m = Accepted
    <3>1. m.nth = Cardinality({n \in recent' : n.at = now}) /\ m.at = now
      BY <2>2, <2>4, <2>5
    <3>2. Cardinality({n \in recent' : n.at = now}) \in Nat
      <4>1. Cardinality({n \in recent : n.at = now}) \in Nat
        BY OfTick
      <4> QED BY <2>4, <4>1
    <3> QED BY <3>1, <3>2
  <2>6. CASE m \in recent
    <3>1. m.nth \in Nat /\ m.nth <= Cardinality({n \in recent : n.at = m.at})
      BY <2>6 DEF NumberedByTick, TypeOK
    <3>2. {n \in recent : n.at = m.at} \subseteq {n \in recent' : n.at = m.at}
      BY <2>1
    <3>3. IsFiniteSet(recent')
      BY <2>1, FS_AddElement
    <3>4. IsFiniteSet({n \in recent' : n.at = m.at})
      BY <3>3, FS_Subset
    <3>5. /\ Cardinality({n \in recent : n.at = m.at}) <= Cardinality({n \in recent' : n.at = m.at})
          /\ Cardinality({n \in recent : n.at = m.at}) \in Nat
          /\ Cardinality({n \in recent' : n.at = m.at}) \in Nat
      BY <3>2, <3>4, PartOf
    <3> QED BY <3>1, <3>5
  <2> QED BY <2>1, <2>5, <2>6
<1>2. CASE Tick
  <2>1. recent' = {m \in recent : now' - m.at <= WindowTicks}
    BY <1>2 DEF Tick, WindowTicks
  <2> SUFFICES ASSUME NEW m \in recent'
               PROVE  m.nth <= Cardinality({n \in recent' : n.at = m.at})
    BY DEF NumberedByTick
  <2>2. {n \in recent' : n.at = m.at} = {n \in recent : n.at = m.at}
    BY <2>1
  <2> QED BY <2>1, <2>2 DEF NumberedByTick
<1>3. CASE UNCHANGED recent
  BY <1>3 DEF NumberedByTick
<1> QED BY <1>1, <1>2, <1>3 DEF Next, vars, Piece, BadFrame, Invalid, Drop, ReadTimesOut,
        CheckTimeout, SendFails

\* Every step keeps the recent messages within the current window and the one before.
LEMMA NextCountedByWindows ==
  ASSUME TypeOK, Past, CountedByWindows, [Next]_vars
  PROVE  CountedByWindows'
<1>1. /\ now \in Nat /\ WindowTicks \in Nat \ {0} /\ MaxMessages \in Nat \ {0}
      /\ \A m \in recent : m.at \in Nat /\ m.at <= now /\ now - m.at <= WindowTicks
      /\ window # None => window.start \in Nat /\ window.count \in 0..MaxMessages
  BY Ticks, LinkAssumption DEF TypeOK, Times, Past, WindowTicks
<1>2. IsFiniteSet(recent)
  BY DEF CountedByWindows
<1>3. CASE (\E kind \in Kinds : Process(kind)) \/ Leave
  <2>1. PICK w \in [start : Times, count : 0..MaxMessages] : w = CurrentWindow
    BY Windows
  <2>2. /\ w.start \in Nat /\ w.start <= now /\ now - w.start <= WindowTicks
        /\ w.count \in Nat /\ w.count < MaxMessages
    BY <1>3, <2>1, Windows DEF Process, Leave, Allowed, Times
  <2>3. window' = [w EXCEPT !.count = w.count + 1] /\ recent' = recent \union {Accepted}
    BY <1>3, <2>1 DEF Process, Leave
  <2>4. Accepted.at = now
    BY DEF Accepted
  <2>5. window'.start = w.start /\ window'.count = w.count + 1
    BY <2>3
  <2> DEFINE Before == {m \in recent : m.at < w.start}
             Since  == {m \in recent : m.at >= w.start}
  <2>6. /\ \A m \in recent : m.at - w.start <= WindowTicks
        /\ Cardinality(Before) <= MaxMessages /\ Cardinality(Since) <= w.count
    <3>1. CASE window = w
      <4>1. window # None
        BY <3>1, NoneIsNoWindow
      <4>2. Before = Earlier /\ Since = Current
        BY <3>1 DEF Earlier, Current
      <4> QED BY <3>1, <4>1, <4>2 DEF CountedByWindows, WindowTicks
    <3>2. CASE window # w
      <4>1. /\ w.start = now /\ w.count = 0
            /\ window # None => now - window.start > WindowTicks
        BY <2>1, <3>2, Windows
      <4>2. Since = {}
        <5> SUFFICES ASSUME NEW m \in recent, m.at >= now
                     PROVE  FALSE
          BY <4>1
        <5>1. window # None /\ m.at - window.start <= WindowTicks
          BY DEF CountedByWindows, WindowTicks
        <5> QED BY <1>1, <4>1, <5>1
      <4>3. Cardinality(Before) <= MaxMessages
        <5>1. CASE window = None
          <6>1. Before = {}
            BY <5>1 DEF CountedByWindows
          <6>2. Cardinality({}) = 0
            BY FS_EmptySet
          <6>3. Cardinality(Before) = 0
            BY <6>1, <6>2, Zenon
          <6> QED BY <1>1, <6>3
        <5>2. CASE window # None
          <6>1. Before \subseteq Current
            <7> SUFFICES ASSUME NEW m \in recent
                         PROVE  m.at >= window.start
              BY DEF Current
            <7> QED BY <1>1, <4>1, <5>2
          <6>2. Current \subseteq recent
            BY DEF Current
          <6>3. IsFiniteSet(Current)
            BY <1>2, <6>2, PartOf
          <6>4. /\ Cardinality(Before) <= Cardinality(Current)
                /\ Cardinality(Before) \in Nat /\ Cardinality(Current) \in Nat
            BY <6>1, <6>3, PartOf
          <6>5. Cardinality(Current) <= window.count
            BY <5>2 DEF CountedByWindows
          <6> QED BY <1>1, <5>2, <6>4, <6>5
        <5> QED BY <5>1, <5>2
      <4>4. \A m \in recent : m.at - w.start <= WindowTicks
        BY <1>1, <4>1
      <4>5. Cardinality(Since) = 0
        <5>1. Cardinality({}) = 0
          BY FS_EmptySet
        <5> QED BY <4>2, <5>1, Zenon
      <4> QED BY <4>1, <4>2, <4>3, <4>4, <4>5
    <3> QED BY <3>1, <3>2
  <2>7. Earlier' = Before
    BY <2>2, <1>1, <2>3, <2>4, <2>5 DEF Earlier
  <2>8. Current' = Since \union {Accepted}
    BY <2>2, <1>1, <2>3, <2>4, <2>5 DEF Current
  <2>9. Cardinality(Current') <= window'.count
    <3>1. Since \subseteq recent
      OBVIOUS
    <3>2. IsFiniteSet(Since) /\ Cardinality(Since) \in Nat
      BY <1>2, <3>1, PartOf
    <3>3. \/ Cardinality(Since \union {Accepted}) = Cardinality(Since)
          \/ Cardinality(Since \union {Accepted}) = Cardinality(Since) + 1
      BY <3>2, FS_AddElement
    <3> QED BY <2>2, <2>5, <2>6, <2>8, <3>2, <3>3
  <2>10. \A m \in recent' : m.at - window'.start <= WindowTicks
    BY <2>2, <2>3, <2>4, <2>5, <2>6
  <2>11. IsFiniteSet(recent')
    BY <1>2, <2>3, FS_AddElement
  <2>12. window' # None
    <3>1. window' \in [start : Times, count : 0..MaxMessages]
      BY <1>1, <2>2, <2>3
    <3> QED BY <3>1, NoneIsNoWindow
  <2> QED BY <2>6, <2>7, <2>9, <2>10, <2>11, <2>12 DEF CountedByWindows, WindowTicks
<1>4. CASE Tick
  <2>1. recent' \subseteq recent /\ window' = window
    BY <1>4 DEF Tick
  <2>2. IsFiniteSet(recent')
    BY <1>2, <2>1, PartOf
  <2>3. window = None => recent' = {}
    BY <2>1 DEF CountedByWindows
  <2> SUFFICES ASSUME window # None
               PROVE  CountedByWindows'
    BY <2>1, <2>2, <2>3 DEF CountedByWindows
  <2>4. Earlier' \subseteq Earlier /\ Current' \subseteq Current
    BY <2>1 DEF Earlier, Current
  <2>5. IsFiniteSet(Earlier) /\ IsFiniteSet(Current)
    <3>1. Earlier \subseteq recent /\ Current \subseteq recent
      BY DEF Earlier, Current
    <3> QED BY <1>2, <3>1, PartOf
  <2>6. /\ Cardinality(Earlier') <= Cardinality(Earlier)
        /\ Cardinality(Earlier') \in Nat /\ Cardinality(Earlier) \in Nat
    BY <2>4, <2>5, PartOf
  <2>7. /\ Cardinality(Current') <= Cardinality(Current)
        /\ Cardinality(Current') \in Nat /\ Cardinality(Current) \in Nat
    BY <2>4, <2>5, PartOf
  <2>8. /\ Cardinality(Earlier) <= MaxMessages /\ Cardinality(Current) <= window.count
        /\ \A m \in recent : m.at - window.start <= WindowTicks
    BY DEF CountedByWindows
  <2> QED BY <1>1, <2>1, <2>2, <2>3, <2>6, <2>7, <2>8 DEF CountedByWindows, WindowTicks
<1>5. CASE UNCHANGED <<window, recent>>
  BY <1>5 DEF CountedByWindows, Earlier, Current, WindowTicks
<1>6. ASSUME NEW kind \in Kinds, Drop(kind)
      PROVE  CountedByWindows'
  <2>1. UNCHANGED <<window, recent>>
    BY <1>6, Windows DEF Drop
  <2> QED BY <1>5, <2>1
<1> QED BY <1>3, <1>4, <1>5, <1>6 DEF Next, vars, Piece, BadFrame, Invalid, ReadTimesOut,
        CheckTimeout, SendFails

-----------------------------------------------------------------------------
(* The theorems. *)

\* Every step keeps the invariant.
LEMMA NextIInv == IInv /\ [Next]_vars => IInv'
BY NextTypeOK, NextPast, NextMonitored, NextChecksAreTimely, NextReadsAreTimely,
   NextStoppedLooksUp, NextNoFaultNoEnd, NextCountedByWindows, NextNumberedByTick
   DEF IInv, CountedByWindows

\* The invariant holds of every state of Link.
LEMMA IInvAlways == Spec => []IInv
BY InitIInv, NextIInv, PTL DEF Spec

\* The variables of Link keep their types; a window counts no more than the limit.
THEOREM TypeOKAlways == Spec => []TypeOK
<1>1. IInv => TypeOK
  BY DEF IInv
<1> QED BY <1>1, IInvAlways, PTL

\* Who sends heartbeats and bytes in time, nothing but messages, few invalid ones and none
\* over the limit is not disconnected: whatever the limits, and whenever the checks of
\* HeartbeatMonitor fall due.
THEOREM GoodClientSurvivesAlways == Spec => []GoodClientSurvives
<1>1. IInv => GoodClientSurvives
  BY DEF IInv, NoFaultNoEnd, GoodClientSurvives
<1> QED BY <1>1, IInvAlways, PTL

\* A client that sends nothing is noticed one check after the time limit, and a handler
\* that was stopped looks up within MaxPieces time limits of the socket.
THEOREM SilenceIsNoticedAlways == Spec => []SilenceIsNoticed
<1>1. IInv => SilenceIsNoticed
  <2> SUFFICES ASSUME IInv, ~ended
               PROVE  /\ active /\ lastHeartbeat # None => Silence < Grace
                      /\ ~running => now - checked <= MaxPieces * ReadTimeout * Second
    BY DEF SilenceIsNoticed
  <2>1. active /\ lastHeartbeat # None => Silence < Grace
    BY ActiveNotices DEF IInv
  <2>2. ASSUME ~running
        PROVE  now - checked <= MaxPieces * ReadTimeout * Second
    <3>1. now - checked <= pieces * ReadTicks + (now - lastRead) /\ checked # None
      BY <2>2 DEF IInv, StoppedLooksUp
    <3>2. /\ now \in Nat /\ lastRead \in Nat /\ checked \in Nat
          /\ pieces \in Nat /\ pieces + 1 <= MaxPieces
          /\ MaxPieces \in Nat /\ ReadTimeout \in Nat /\ Second \in Nat
      BY <3>1, LinkAssumption DEF IInv, TypeOK, Times
    <3>3. ReadTicks \in Nat \ {0}
      BY Ticks
    <3>4. /\ (pieces + 1) * ReadTicks <= MaxPieces * ReadTicks
          /\ (pieces + 1) * ReadTicks = pieces * ReadTicks + ReadTicks
          /\ pieces * ReadTicks \in Nat /\ MaxPieces * ReadTicks \in Nat
      BY <3>2, <3>3, Monotonic
    <3>5. now - lastRead <= ReadTicks
      BY DEF IInv, ReadsAreTimely
    <3>6. MaxPieces * ReadTicks = MaxPieces * ReadTimeout * Second
      BY <3>2 DEF ReadTicks
    <3>7. now - checked <= MaxPieces * ReadTicks
      BY <3>1, <3>2, <3>3, <3>4, <3>5
    <3> QED BY <3>6, <3>7
  <2> QED BY <2>1, <2>2
<1> QED BY <1>1, IInvAlways, PTL

\* Within the length of a window no more than twice the limit passes.
THEOREM AtMostTwoWindowsAlways == Spec => []AtMostTwoWindows
<1>1. IInv => AtMostTwoWindows
  <2> SUFFICES ASSUME IInv
               PROVE  Cardinality(recent) <= 2 * MaxMessages
    BY DEF AtMostTwoWindows
  <2>1. MaxMessages \in Nat \ {0}
    BY LinkAssumption
  <2>2. CASE window = None
    <3>1. recent = {}
      BY <2>2 DEF IInv, CountedByWindows
    <3> QED BY <2>1, <3>1, FS_EmptySet
  <2>3. CASE window # None
    <3>1. window.start \in Nat /\ window.count \in 0..MaxMessages /\ \A m \in recent : m.at \in Nat
      BY <2>3 DEF IInv, TypeOK, Times
    <3>2. /\ IsFiniteSet(recent)
          /\ Cardinality(Earlier) <= MaxMessages /\ Cardinality(Current) <= window.count
      BY <2>3 DEF IInv, CountedByWindows
    <3>3. /\ recent = Earlier \union Current /\ Earlier \intersect Current = {}
          /\ Earlier \subseteq recent /\ Current \subseteq recent
      BY <3>1 DEF Earlier, Current
    <3>4. /\ IsFiniteSet(Earlier) /\ IsFiniteSet(Current)
          /\ Cardinality(Earlier) \in Nat /\ Cardinality(Current) \in Nat
      BY <3>2, <3>3, PartOf
    <3>5. Cardinality(Earlier \intersect Current) = 0
      BY <3>3, FS_EmptySet
    <3>6. Cardinality(Earlier \union Current)
            = Cardinality(Earlier) + Cardinality(Current) - Cardinality(Earlier \intersect Current)
      BY <3>4, FS_Union
    <3>7. Cardinality(recent) = Cardinality(Earlier) + Cardinality(Current)
      BY <3>3, <3>4, <3>5, <3>6
    <3> QED BY <2>1, <3>1, <3>2, <3>4, <3>7
  <2> QED BY <2>2, <2>3
<1> QED BY <1>1, IInvAlways, PTL
=============================================================================
