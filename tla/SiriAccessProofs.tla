-------------------------- MODULE SiriAccessProofs --------------------------
(***************************************************************************)
(* The safety properties of SiriAccess for every number of calls, stream   *)
(* ids, connections and recoveries, and for both values of LateOpen.       *)
(***************************************************************************)
EXTENDS MCSiriAccess, TLAPS

-----------------------------------------------------------------------------
(* The queue of the lock.                                                  *)

Distinct(queue) == \A i, j \in DOMAIN queue : queue[i] = queue[j] => i = j
In(c, queue) == \E i \in DOMAIN queue : queue[i] = c

\* A caller that joins the queue is its last, and in it once.
LEMMA QueueAppend ==
    ASSUME NEW q \in Seq(Caller), NEW c \in Caller, Distinct(q), ~In(c, q)
    PROVE  /\ Append(q, c) \in Seq(Caller) /\ Distinct(Append(q, c))
           /\ \A d \in Caller : In(d, Append(q, c)) <=> d = c \/ In(d, q)
<1>1. /\ Append(q, c) \in Seq(Caller)
      /\ DOMAIN Append(q, c) = 1..Len(q) + 1 /\ DOMAIN q = 1..Len(q)
      /\ Append(q, c)[Len(q) + 1] = c
      /\ \A i \in 1..Len(q) : Append(q, c)[i] = q[i]
    OBVIOUS
<1> DEFINE a == Append(q, c)
<1> HIDE DEF a
<1>2. Distinct(a)
    BY <1>1 DEF Distinct, In, a
<1>3. \A d \in Caller : In(d, a) => d = c \/ In(d, q)
    BY <1>1 DEF In, a
<1>4. \A d \in Caller : In(d, q) => In(d, a)
    BY <1>1 DEF In, a
<1>5. In(c, a)
    BY <1>1 DEF In, a
<1> QED
    BY <1>1, <1>2, <1>3, <1>4, <1>5 DEF a

\* The first leaves the queue, and all others stay in it.
LEMMA QueueTail ==
    ASSUME NEW q \in Seq(Caller), NEW c \in Caller, Distinct(q), q # <<>>,
           Head(q) = c
    PROVE  /\ Tail(q) \in Seq(Caller) /\ Distinct(Tail(q))
           /\ \A d \in Caller : In(d, Tail(q)) <=> d # c /\ In(d, q)
<1>1. /\ Tail(q) \in Seq(Caller) /\ DOMAIN Tail(q) = 1..Len(q) - 1
      /\ DOMAIN q = 1..Len(q) /\ Len(q) \in Nat \ {0} /\ q[1] = c
      /\ \A i \in 1..Len(q) - 1 : Tail(q)[i] = q[i + 1]
    OBVIOUS
<1>2. Distinct(Tail(q))
    BY <1>1 DEF Distinct
<1>3. ASSUME NEW d \in Caller PROVE In(d, Tail(q)) => d # c /\ In(d, q)
    BY <1>1 DEF In, Distinct
<1>4. ASSUME NEW d \in Caller, d # c, In(d, q) PROVE In(d, Tail(q))
    <2>1. PICK i \in 1..Len(q) : q[i] = d
        BY <1>4 DEF In
    <2>2. i - 1 \in 1..Len(q) - 1 /\ Tail(q)[i - 1] = d
        BY <1>1, <1>4, <2>1
    <2> QED
        BY <1>1, <2>2 DEF In
<1> QED
    BY <1>1, <1>2, <1>3, <1>4

\* Whoever gives up waiting leaves the queue, and all others stay in it.
LEMMA QueueWithout ==
    ASSUME NEW q \in Seq(Caller), NEW c \in Caller, Distinct(q), In(c, q)
    PROVE  /\ Without(q, c) \in Seq(Caller) /\ Distinct(Without(q, c))
           /\ \A d \in Caller : In(d, Without(q, c)) <=> d # c /\ In(d, q)
<1> DEFINE p == CHOOSE i \in DOMAIN q : q[i] = c
           w == [i \in 1..Len(q) - 1 |-> IF i < p THEN q[i] ELSE q[i + 1]]
<1>1. p \in 1..Len(q) /\ q[p] = c
    BY DEF In
<1>2. Without(q, c) = w
    BY DEF Without
<1> HIDE DEF p
<1>3. \A i \in 1..Len(q) - 1 : w[i] \in Caller
    OBVIOUS
<1>4. w \in Seq(Caller) /\ Len(w) = Len(q) - 1 /\ DOMAIN w = 1..Len(q) - 1
    BY <1>1, <1>3
<1>5. Distinct(w)
    BY <1>1, <1>4 DEF Distinct
<1>6. ASSUME NEW d \in Caller, In(d, w) PROVE d # c /\ In(d, q)
    <2>1. PICK i \in 1..Len(q) - 1 : w[i] = d
        BY <1>4, <1>6 DEF In
    <2>2. PICK j \in 1..Len(q) : q[j] = d /\ j # p
        BY <1>1, <2>1
    <2> QED
        BY <1>1, <2>2 DEF Distinct, In
<1>7. ASSUME NEW d \in Caller, d # c, In(d, q) PROVE In(d, w)
    <2>1. PICK j \in 1..Len(q) : q[j] = d
        BY <1>7 DEF In
    <2>2. CASE j < p
        BY <1>1, <1>4, <2>1, <2>2 DEF In
    <2>3. CASE j > p
        <3>1. j - 1 \in 1..Len(q) - 1 /\ w[j - 1] = d
            BY <1>1, <2>1, <2>3
        <3> QED
            BY <1>4, <3>1 DEF In
    <2> QED
        BY <1>1, <1>7, <2>1, <2>2, <2>3
<1> HIDE DEF w
<1> QED
    BY <1>2, <1>4, <1>5, <1>6, <1>7

-----------------------------------------------------------------------------
(* Types.                                                                  *)

LEMMA TypeInit == Init => TypeOK
<1> SUFFICES ASSUME Init PROVE TypeOK
    OBVIOUS
<1>1. <<>> \in Seq(Caller) /\ DOMAIN (<<>>) = {}
    OBVIOUS
<1>2. lock \in [locked: BOOLEAN, waiters: Seq(Caller)] /\ lock.waiters = <<>>
    BY <1>1 DEF Init
<1> QED
    BY <1>1, <1>2 DEF Init, TypeOK, NoSession, SessionType

\* The calls that wait are those in the queue.
Queued(calling, queue) ==
    \A c \in Caller : calling[c] = "waiting" <=> In(c, queue)

LEMMA TypeQueue ==
    TypeOK => /\ lock.waiters \in Seq(Caller) /\ Distinct(lock.waiters)
              /\ Queued(start_siri, lock.waiters)
BY DEF TypeOK, Distinct, Queued, In

LEMMA TypeParts ==
    TypeOK => /\ lock \in [locked: BOOLEAN, waiters: Seq(Caller)]
              /\ sessions \in [Caller -> SessionType]
              /\ siri_sessions \in [StreamId -> Caller \cup {None}]
              /\ hds_connection \in Conn \cup {None}
BY DEF TypeOK

LEMMA TypeWatch ==
    TypeOK => /\ watch \in [Caller -> {"none", "waiting", "done"}]
              /\ {_active_siri_session, _siri_watch_task} \subseteq Caller \cup {None}
BY DEF TypeOK

\* What becomes of a session in the steps that change one.
LEMMA SessionChanges ==
    ASSUME NEW s \in SessionType
    PROVE  /\ [s EXCEPT !.closed = TRUE] \in SessionType
           /\ \A id \in StreamId :
                  [s EXCEPT !.open = "answered", !.stream = id] \in SessionType
           /\ [s EXCEPT !.open = "done"] \in SessionType
           /\ [s EXCEPT !.open = "done", !.closed = TRUE] \in SessionType
           /\ [s EXCEPT !.open = "done", !.closed = TRUE, !.stream = None] \in SessionType
<1>1. [s EXCEPT !.closed = TRUE] \in SessionType
    BY DEF SessionType
<1>2. ASSUME NEW id \in StreamId
      PROVE  [s EXCEPT !.open = "answered", !.stream = id] \in SessionType
    BY DEF SessionType
<1>3. [s EXCEPT !.open = "done"] \in SessionType
    BY DEF SessionType
<1>4. [s EXCEPT !.open = "done", !.closed = TRUE] \in SessionType
    BY DEF SessionType
<1>5. [s EXCEPT !.open = "done", !.closed = TRUE, !.stream = None] \in SessionType
    BY DEF SessionType
<1> QED
    BY <1>1, <1>2, <1>3, <1>4, <1>5

LEMMA SessionReplaced ==
    ASSUME TypeOK, NEW s \in Caller, NEW new \in SessionType,
           sessions' = [sessions EXCEPT ![s] = new]
    PROVE  sessions' \in [Caller -> SessionType]
BY TypeParts

\* What Begin leaves behind, whichever way it goes.
LEMMA BeginTypes ==
    ASSUME TypeOK, NEW c \in Caller, NEW queue \in Seq(Caller),
           Begin(c, queue), Distinct(queue), UNCHANGED <<siri_sessions, link, service>>,
           \A d \in Caller : In(d, queue) <=> d # c /\ In(d, lock.waiters)
    PROVE  TypeOK'
<1>1. /\ lock' \in [locked: BOOLEAN, waiters: Seq(Caller)]
      /\ lock'.waiters = queue
    <2>1. \E b \in BOOLEAN : lock' = [locked |-> b, waiters |-> queue]
        BY DEF Begin
    <2> QED
        BY <2>1
<1>2. start_siri' \in [Caller -> {"idle", "waiting", "started", "refused"}]
    BY DEF Begin, TypeOK
<1>3. Queued(start_siri', queue)
    BY TypeQueue DEF Begin, Queued, TypeOK
<1>4. sessions' \in [Caller -> SessionType]
    <2>1. \/ UNCHANGED sessions
          \/ sessions' = [sessions EXCEPT ![c] = [open |-> "pending",
                closed |-> FALSE, conn |-> hds_connection, stream |-> None]]
        BY DEF Begin
    <2>2. [open |-> "pending", closed |-> FALSE, conn |-> hds_connection,
           stream |-> None] \in SessionType
        BY TypeParts DEF SessionType
    <2> QED
        BY <2>1, <2>2, TypeParts
<1>5. watch' \in [Caller -> {"none", "waiting", "done"}]
      /\ {_active_siri_session', _siri_watch_task'} \subseteq Caller \cup {None}
    <2>1. \/ UNCHANGED <<watch, _active_siri_session, _siri_watch_task>>
          \/ /\ watch' = [watch EXCEPT ![c] = "waiting"]
             /\ _active_siri_session' = c /\ _siri_watch_task' = c
        BY DEF Begin
    <2>2. CASE UNCHANGED <<watch, _active_siri_session, _siri_watch_task>>
        BY <2>2, TypeWatch
    <2>3. CASE /\ watch' = [watch EXCEPT ![c] = "waiting"]
               /\ _active_siri_session' = c /\ _siri_watch_task' = c
        BY <2>3, TypeWatch
    <2> QED
        BY <2>1, <2>2, <2>3
<1> QED
    BY <1>1, <1>2, <1>3, <1>4, <1>5
    DEF TypeOK, Queued, In, Distinct, link, service

LEMMA StartTypes ==
    ASSUME TypeOK, NEW c \in Caller,
           StartCall(c) \/ StartAcquired(c) \/ StartTimeout(c)
    PROVE  TypeOK'
<1> USE TypeQueue
<1>1. CASE StartCall(c)
    <2>1. ~In(c, lock.waiters)
        BY <1>1 DEF StartCall, Queued
    <2>2. CASE ~lock.locked /\ lock.waiters = <<>>
        <3>1. Begin(c, <<>>) /\ UNCHANGED <<siri_sessions, link, service>>
            BY <1>1, <2>2 DEF StartCall
        <3> QED
            BY <2>1, <2>2, <3>1, BeginTypes DEF In
    <2>3. CASE ~(~lock.locked /\ lock.waiters = <<>>)
        <3>1. /\ start_siri' = [start_siri EXCEPT ![c] = "waiting"]
              /\ lock' = [lock EXCEPT !.waiters = Append(@, c)]
              /\ UNCHANGED <<sessions, watch, _active_siri_session,
                             _siri_watch_task, siri_sessions, link, service>>
            BY <1>1, <2>3 DEF StartCall
        <3>2. lock' \in [locked: BOOLEAN, waiters: Seq(Caller)]
              /\ lock'.waiters = Append(lock.waiters, c)
            BY <3>1, <2>1, QueueAppend DEF TypeOK
        <3>3. Distinct(lock'.waiters) /\ Queued(start_siri', lock'.waiters)
            BY <2>1, <3>1, <3>2, QueueAppend DEF Queued, TypeOK
        <3> QED
            BY <3>1, <3>2, <3>3 DEF TypeOK, Queued, In, Distinct, link, service
    <2> QED
        BY <2>2, <2>3
<1>2. CASE StartAcquired(c)
    <2>1. lock.waiters # <<>>
        BY <1>2 DEF StartAcquired, Queued, In
    <2>2. Head(lock.waiters) = c /\ Begin(c, Tail(lock.waiters))
          /\ UNCHANGED <<siri_sessions, link, service>>
        BY <1>2 DEF StartAcquired
    <2> QED
        BY <2>1, <2>2, QueueTail, BeginTypes
<1>3. CASE StartTimeout(c)
    <2>1. In(c, lock.waiters)
        BY <1>3 DEF StartTimeout, Queued
    <2>2. lock' \in [locked: BOOLEAN, waiters: Seq(Caller)]
          /\ lock'.waiters = Without(lock.waiters, c)
        BY <1>3, <2>1, QueueWithout DEF StartTimeout, TypeOK
    <2>3. Distinct(lock'.waiters) /\ Queued(start_siri', lock'.waiters)
        BY <1>3, <2>1, <2>2, QueueWithout DEF StartTimeout, Queued, TypeOK
    <2> QED
        BY <1>3, <2>2, <2>3
        DEF StartTimeout, TypeOK, Queued, In, Distinct, fields, link, service
<1> QED
    BY <1>1, <1>2, <1>3

LEMMA DisconnectedTypes ==
    ASSUME TypeOK, NEW conn \in Conn \cup {None}, Disconnected(conn)
    PROVE  /\ sessions' \in [Caller -> SessionType] /\ hds_connection' = None
           /\ siri_sessions' \in [StreamId -> Caller \cup {None}]
<1>1. sessions' \in [Caller -> SessionType]
    <2>1. sessions' = [s \in Caller |->
              IF sessions[s].conn = conn
                 /\ (s = _active_siri_session
                     \/ \E id \in StreamId : siri_sessions[id] = s)
              THEN [sessions[s] EXCEPT !.closed = TRUE] ELSE sessions[s]]
        BY DEF Disconnected
    <2>2. \A s \in Caller : /\ sessions[s] \in SessionType
                            /\ [sessions[s] EXCEPT !.closed = TRUE] \in SessionType
        BY TypeParts, SessionChanges
    <2> QED
        BY <2>1, <2>2
<1>2. siri_sessions' \in [StreamId -> Caller \cup {None}]
    <2>1. siri_sessions' = [id \in StreamId |->
              IF siri_sessions[id] # None
                 /\ sessions[siri_sessions[id]].conn = conn
              THEN None ELSE siri_sessions[id]]
        BY DEF Disconnected
    <2> QED
        BY <2>1, TypeParts
<1> QED
    BY <1>1, <1>2 DEF Disconnected

LEMMA TypeStep == TypeOK /\ [Next]_vars => TypeOK'
<1> SUFFICES ASSUME TypeOK, [Next]_vars PROVE TypeOK'
    OBVIOUS
<1> USE DEF calls, fields, link, service
<1>1. ASSUME NEW s \in Caller, StartCall(s) \/ StartAcquired(s) \/ StartTimeout(s)
      PROVE  TypeOK'
    BY <1>1, StartTypes
<1>2. ASSUME NEW s \in Caller, NEW id \in StreamId, Answered(s, id)
      PROVE  TypeOK'
    <2>1. sessions' \in [Caller -> SessionType]
        <3>1. sessions' = [sessions EXCEPT ![s] =
                               [sessions[s] EXCEPT !.open = "answered", !.stream = id]]
            BY <1>2, TypeParts DEF Answered
        <3>2. sessions[s] \in SessionType
            BY TypeParts
        <3> QED
            BY <3>1, <3>2, SessionChanges, SessionReplaced
    <2> QED
        BY <1>2, <2>1 DEF Answered, TypeOK
<1>3. ASSUME NEW s \in Caller, Opened(s)
      PROVE  TypeOK'
    <2>1. sessions' \in [Caller -> SessionType]
        <3>1. \/ sessions' = [sessions EXCEPT ![s] = [sessions[s] EXCEPT !.open = "done"]]
              \/ sessions' = [sessions EXCEPT ![s] =
                               [sessions[s] EXCEPT !.open = "done", !.closed = TRUE]]
            BY <1>3, TypeParts DEF Opened
        <3>2. sessions[s] \in SessionType
            BY TypeParts
        <3> QED
            BY <3>1, <3>2, SessionChanges, SessionReplaced
    <2>2. siri_sessions' \in [StreamId -> Caller \cup {None}]
        BY <1>3, TypeParts DEF Opened
    <2> QED
        BY <1>3, <2>1, <2>2 DEF Opened, TypeOK
<1>4. ASSUME NEW s \in Caller, OpenFailed(s) \/ OpenAborted(s) \/ Ended(s)
      PROVE  TypeOK'
    <2>1. sessions' \in [Caller -> SessionType]
        <3>1. \/ sessions' = [sessions EXCEPT ![s] = [sessions[s] EXCEPT !.closed = TRUE]]
              \/ sessions' = [sessions EXCEPT ![s] = [sessions[s] EXCEPT !.open = "done"]]
              \/ sessions' = [sessions EXCEPT ![s] =
                      [sessions[s] EXCEPT !.open = "done", !.closed = TRUE, !.stream = None]]
            BY <1>4, TypeParts DEF OpenFailed, OpenAborted, Ended
        <3>2. sessions[s] \in SessionType
            BY TypeParts
        <3> QED
            BY <3>1, <3>2, SessionChanges, SessionReplaced
    <2> QED
        BY <1>4, <2>1 DEF OpenFailed, OpenAborted, Ended, TypeOK
<1>5. ASSUME NEW s \in Caller, Watched(s)
      PROVE  TypeOK'
    <2>1. siri_sessions' \in [StreamId -> Caller \cup {None}]
        BY <1>5, TypeParts DEF Watched
    <2>2. lock' \in [locked: BOOLEAN, waiters: Seq(Caller)]
          /\ lock'.waiters = lock.waiters
        <3>1. lock' = lock \/ lock' = [lock EXCEPT !.locked = FALSE]
            BY <1>5 DEF Watched, Unlocked
        <3> QED
            BY <3>1, TypeParts
    <2>3. watch' \in [Caller -> {"none", "waiting", "done"}]
          /\ {_active_siri_session', _siri_watch_task'} \subseteq Caller \cup {None}
        BY <1>5 DEF Watched, TypeOK
    <2>4. UNCHANGED <<start_siri, sessions, link, service>>
        BY <1>5 DEF Watched
    <2> QED
        BY <2>1, <2>2, <2>3, <2>4 DEF TypeOK
<1>6. ASSUME NEW r \in Recoverer, RecoverCancel(r) \/ RecoverRestore(r) \/ RecoverAborted(r)
      PROVE  TypeOK'
    <2>1. recover_hds' \in [Recoverer -> {"idle", "cancelling", "sleeping", "done"}]
          /\ _siri_advertised' \in BOOLEAN
        BY <1>6 DEF RecoverCancel, RecoverRestore, RecoverAborted, TypeOK
    <2>2. UNCHANGED <<calls, sessions, watch, fields, link, started>>
        BY <1>6 DEF RecoverCancel, RecoverRestore, RecoverAborted
    <2> QED
        BY <2>1, <2>2 DEF TypeOK
<1>7. ASSUME NEW r \in Recoverer, RecoverWithdraw(r)
      PROVE  TypeOK'
    <2>1. /\ Disconnected(hds_connection) /\ _siri_advertised' = FALSE
          /\ recover_hds' = [recover_hds EXCEPT ![r] = "sleeping"]
          /\ UNCHANGED <<calls, watch, _active_siri_session, _siri_watch_task, fresh, started>>
        BY <1>7 DEF RecoverWithdraw, Withdraw
    <2>2. /\ sessions' \in [Caller -> SessionType] /\ hds_connection' = None
          /\ siri_sessions' \in [StreamId -> Caller \cup {None}]
        BY <2>1, TypeParts, DisconnectedTypes
    <2>3. recover_hds' \in [Recoverer -> {"idle", "cancelling", "sleeping", "done"}]
        BY <2>1 DEF TypeOK
    <2> QED
        BY <2>1, <2>2, <2>3 DEF TypeOK
<1>8. CASE StopCancel \/ StopFinal \/ StopFailed \/ StartAgain
    BY <1>8 DEF StopCancel, StopFinal, StopFailed, StartAgain, TypeOK
<1>9. CASE StopClose \/ ConnectionClosed
    BY <1>9, DisconnectedTypes DEF StopClose, ConnectionClosed, TypeOK
<1>10. ASSUME NEW conn \in Conn, Whoami(conn)
       PROVE  TypeOK'
    BY <1>10 DEF Whoami, TypeOK
<1>11. CASE UNCHANGED vars
    BY <1>11 DEF vars, TypeOK
<1> QED
    BY <1>1, <1>2, <1>3, <1>4, <1>5, <1>6, <1>7, <1>8, <1>9, <1>10, <1>11
    DEF Next, SessionStep, RecoverStep, StopStep

\* The lock, the sessions and their registry keep their types, and the queue of
\* the lock is made of the calls of start_siri() that wait, each once.
THEOREM TypeCorrect == Spec => []TypeOK
BY TypeInit, TypeStep, PTL DEF Spec

-----------------------------------------------------------------------------
(* One utterance.  What is inductive is more: a session that is live is    *)
(* the active one and on the connection there is, the active one is the    *)
(* one watched, and nobody starts without the lock.                        *)

\* The session in progress is the active one, on the connection in use.
LiveIsActive ==
    \A s \in Caller : Live(s) =>
        /\ s = _active_siri_session
        /\ sessions[s].conn = hds_connection /\ hds_connection # None

\* The task that stop() would await is the one that watches it.
ActiveIsWatched ==
    _active_siri_session # None => _siri_watch_task = _active_siri_session

\* After the closing part of stop() there is no connection.
NoConnectionLeft ==
    started \in {"closing", "stopped"} => hds_connection = None

AccessInv ==
    LiveIsActive /\ ActiveIsWatched /\ LockOwned /\ NoConnectionLeft

\* Begin takes a lock that is free, so that no session is active or live.
LEMMA BeginInv ==
    ASSUME TypeOK, AccessInv, ~lock.locked, NEW c \in Caller, NEW queue,
           Begin(c, queue), UNCHANGED <<link, service>>
    PROVE  AccessInv'
<1>1. _active_siri_session = None /\ \A s \in Caller : ~Live(s)
    BY AccessAssumption DEF AccessInv, LockOwned, LiveIsActive
<1>2. CASE /\ lock' = [locked |-> FALSE, waiters |-> queue]
           /\ UNCHANGED <<sessions, watch, _active_siri_session, _siri_watch_task>>
    BY <1>1, <1>2 DEF AccessInv, LiveIsActive, Live, ActiveIsWatched, LockOwned,
                      NoConnectionLeft, link, service
<1>3. CASE /\ hds_connection # None
           /\ lock' = [locked |-> TRUE, waiters |-> queue]
           /\ sessions' = [sessions EXCEPT ![c] = [open |-> "pending",
                 closed |-> FALSE, conn |-> hds_connection, stream |-> None]]
           /\ _active_siri_session' = c /\ _siri_watch_task' = c
           /\ watch' = [watch EXCEPT ![c] = "waiting"]
    <2>1. LiveIsActive'
        BY <1>1, <1>3, TypeParts DEF LiveIsActive, Live, link
    <2>2. LockOwned' /\ ActiveIsWatched'
        BY <1>3, AccessAssumption DEF LockOwned, ActiveIsWatched, TypeOK
    <2> QED
        BY <2>1, <2>2 DEF AccessInv, NoConnectionLeft, link, service
<1> QED
    BY <1>2, <1>3 DEF Begin

\* When a connection closes, the session on it ends.
LEMMA DisconnectedInv ==
    ASSUME TypeOK, AccessInv, Disconnected(hds_connection),
           UNCHANGED <<calls, watch, _active_siri_session, _siri_watch_task>>
    PROVE  AccessInv' /\ \A s \in Caller : ~Live(s)'
<1>1. \A s \in Caller : ~Live(s)'
    <2> SUFFICES ASSUME NEW s \in Caller, Live(s)' PROVE FALSE
        OBVIOUS
    <2>1. sessions'[s] = IF sessions[s].conn = hds_connection
                            /\ (s = _active_siri_session
                                \/ \E id \in StreamId : siri_sessions[id] = s)
                         THEN [sessions[s] EXCEPT !.closed = TRUE]
                         ELSE sessions[s]
        BY DEF Disconnected
    <2>2. sessions[s] \in SessionType
        BY TypeParts
    <2>3. Live(s)
        BY <2>1, <2>2 DEF Live, SessionType
    <2> QED
        BY <2>1, <2>2, <2>3 DEF AccessInv, LiveIsActive, Live, SessionType
<1>2. hds_connection' = None
    BY DEF Disconnected
<1> QED
    BY <1>1, <1>2 DEF AccessInv, LiveIsActive, ActiveIsWatched, LockOwned,
                      NoConnectionLeft, calls

\* A step that leaves the sessions no livelier and the rest alone.
LEMMA QuietInv ==
    ASSUME AccessInv, \A s \in Caller : Live(s)' => Live(s),
           \A s \in Caller : Live(s)' => sessions'[s].conn = sessions[s].conn,
           UNCHANGED <<_active_siri_session, _siri_watch_task, watch,
                       hds_connection, lock.locked>>,
           NoConnectionLeft'
    PROVE  AccessInv'
BY DEF AccessInv, LiveIsActive, ActiveIsWatched, LockOwned

LEMMA AccessStep == TypeOK /\ AccessInv /\ [Next]_vars => AccessInv'
<1> SUFFICES ASSUME TypeOK, AccessInv, [Next]_vars PROVE AccessInv'
    OBVIOUS
<1> USE DEF calls, fields, link, service
<1>1. ASSUME NEW s \in Caller, StartCall(s) PROVE AccessInv'
    <2>1. CASE ~lock.locked /\ lock.waiters = <<>>
        BY <1>1, <2>1, BeginInv DEF StartCall
    <2>2. CASE ~(~lock.locked /\ lock.waiters = <<>>)
        <3>1. /\ lock'.locked = lock.locked
              /\ UNCHANGED <<sessions, watch, fields, link, service>>
            BY <1>1, <2>2, TypeParts DEF StartCall
        <3> QED
            BY <3>1 DEF AccessInv, LiveIsActive, Live, ActiveIsWatched, LockOwned,
                        NoConnectionLeft
    <2> QED
        BY <2>1, <2>2
<1>2. ASSUME NEW s \in Caller, StartAcquired(s) PROVE AccessInv'
    BY <1>2, BeginInv DEF StartAcquired
<1>3. ASSUME NEW s \in Caller, StartTimeout(s) PROVE AccessInv'
    <2>1. /\ lock'.locked = lock.locked
          /\ UNCHANGED <<sessions, watch, fields, link, service>>
        BY <1>3, TypeParts DEF StartTimeout
    <2> QED
        BY <2>1 DEF AccessInv, LiveIsActive, Live, ActiveIsWatched, LockOwned,
                    NoConnectionLeft
<1>4. ASSUME NEW s \in Caller,
             \/ \E id \in StreamId : Answered(s, id)
             \/ Opened(s) \/ OpenFailed(s) \/ OpenAborted(s) \/ Ended(s)
      PROVE  AccessInv'
    <2>1. \A r \in Caller : /\ sessions'[r].conn = sessions[r].conn
                            /\ Live(r)' => Live(r)
        BY <1>4, TypeParts
        DEF Answered, Opened, OpenFailed, OpenAborted, Ended, Live, SessionType
    <2>2. UNCHANGED <<calls, watch, _active_siri_session, _siri_watch_task,
                      link, service>>
        BY <1>4 DEF Answered, Opened, OpenFailed, OpenAborted, Ended
    <2> QED
        BY <2>1, <2>2, QuietInv DEF AccessInv, NoConnectionLeft
<1>5. ASSUME NEW s \in Caller, Watched(s) PROVE AccessInv'
    <2>1. sessions[s].closed /\ UNCHANGED <<sessions, link, service>>
          /\ watch' = [watch EXCEPT ![s] = "done"]
        BY <1>5 DEF Watched
    <2>2. CASE _active_siri_session = s
        <3>1. /\ _active_siri_session' = None /\ lock' = Unlocked
            BY <1>5, <2>2 DEF Watched
        <3>2. lock'.locked = FALSE
            BY <3>1, TypeParts DEF Unlocked
        <3> QED
            BY <2>1, <2>2, <3>1, <3>2
            DEF AccessInv, LiveIsActive, Live, ActiveIsWatched, LockOwned,
                NoConnectionLeft
    <2>3. CASE _active_siri_session # s
        <3>1. UNCHANGED <<_active_siri_session, lock>>
              /\ _siri_watch_task' = IF _siri_watch_task = s THEN None
                                     ELSE _siri_watch_task
            BY <1>5, <2>3 DEF Watched
        <3>2. _active_siri_session # None => watch'[_active_siri_session] = "waiting"
            BY <2>1, <2>3 DEF AccessInv, LockOwned, TypeOK
        <3> QED
            BY <2>1, <2>3, <3>1, <3>2
            DEF AccessInv, LiveIsActive, Live, ActiveIsWatched, LockOwned,
                NoConnectionLeft
    <2> QED
        BY <2>2, <2>3
<1>6. ASSUME NEW r \in Recoverer, RecoverCancel(r) \/ RecoverRestore(r) \/ RecoverAborted(r)
      PROVE  AccessInv'
    <2>1. UNCHANGED <<calls, sessions, watch, fields, link, started>>
        BY <1>6 DEF RecoverCancel, RecoverRestore, RecoverAborted
    <2> QED
        BY <2>1 DEF AccessInv, LiveIsActive, Live, ActiveIsWatched, LockOwned,
                    NoConnectionLeft
<1>7. CASE StopClose \/ ConnectionClosed \/ \E r \in Recoverer : RecoverWithdraw(r)
    BY <1>7, DisconnectedInv DEF StopClose, ConnectionClosed, RecoverWithdraw, Withdraw
<1>8. CASE StopCancel \/ StopFailed \/ StartAgain
    BY <1>8 DEF StopCancel, StopFailed, StartAgain, AccessInv, LiveIsActive, Live,
                ActiveIsWatched, LockOwned, NoConnectionLeft
<1>9. CASE StopFinal
    <2>1. /\ _siri_watch_task # None => watch[_siri_watch_task] = "done"
          /\ _active_siri_session' = None /\ hds_connection' = None
          /\ UNCHANGED <<calls, sessions, watch>>
        BY <1>9 DEF StopFinal
    <2>2. _active_siri_session = None
        BY <2>1 DEF AccessInv, ActiveIsWatched, LockOwned
    <2> QED
        BY <2>1, <2>2, AccessAssumption
        DEF AccessInv, LiveIsActive, Live, ActiveIsWatched, LockOwned, NoConnectionLeft
<1>10. ASSUME NEW conn \in Conn, Whoami(conn) PROVE AccessInv'
    <2>1. hds_connection = None /\ started \in {"started", "cancelling"}
          /\ UNCHANGED <<calls, sessions, watch, fields, service>>
        BY <1>10 DEF Whoami
    <2> QED
        BY <2>1 DEF AccessInv, LiveIsActive, Live, ActiveIsWatched, LockOwned,
                    NoConnectionLeft
<1>11. CASE UNCHANGED vars
    BY <1>11 DEF vars, AccessInv, LiveIsActive, Live, ActiveIsWatched, LockOwned,
                 NoConnectionLeft
<1> QED
    BY <1>1, <1>2, <1>3, <1>4, <1>5, <1>6, <1>7, <1>8, <1>9, <1>10, <1>11
    DEF Next, SessionStep, RecoverStep, StopStep

LEMMA AccessInit == Init => AccessInv
BY DEF Init, AccessInv, LiveIsActive, Live, NoSession, ActiveIsWatched, LockOwned,
       NoConnectionLeft

LEMMA AccessInvariant == Spec => [](TypeOK /\ AccessInv)
BY TypeInit, TypeStep, AccessInit, AccessStep, PTL DEF Spec

\* Two utterances are never in progress at once: whoever has one has the lock,
\* and whoever releases the lock has seen it end.
THEOREM OneUtteranceOnly == Spec => []OneUtterance
<1>1. AccessInv => OneUtterance
    BY DEF AccessInv, LiveIsActive, OneUtterance
<1> QED
    BY <1>1, AccessInvariant, PTL

\* The lock is locked exactly while there is an active session, and that one
\* has a task that will release it: stop(), which forgets the session, can only
\* do so when the task has run.
THEOREM LockIsOwned == Spec => []LockOwned
<1>1. AccessInv => LockOwned
    BY DEF AccessInv
<1> QED
    BY <1>1, AccessInvariant, PTL

\* After the closing part of stop() nothing is live: a live session would be on
\* a connection.
THEOREM StoppedIsQuiet == Spec => []StoppedQuiet
<1>1. AccessInv => StoppedQuiet
    BY DEF AccessInv, NoConnectionLeft, LiveIsActive, StoppedQuiet
<1> QED
    BY <1>1, AccessInvariant, PTL
-----------------------------------------------------------------------------
(* Withdrawal.                                                             *)

\* Only a start_siri() that finds the capability advertised brings a session
\* to life, and only where none was.
LEMMA LiveStep ==
    ASSUME TypeOK, AccessInv, [Next]_vars, NEW s \in Caller, Live(s)', ~Live(s)
    PROVE  _siri_advertised /\ _siri_advertised'
<1> USE DEF calls, fields, link, service
<1>1. ASSUME NEW c \in Caller, NEW queue, Begin(c, queue), UNCHANGED service
      PROVE  _siri_advertised /\ _siri_advertised'
    BY <1>1 DEF Begin, Live
<1>2. ASSUME NEW c \in Caller, StartCall(c) \/ StartAcquired(c)
      PROVE  _siri_advertised /\ _siri_advertised'
    BY <1>1, <1>2 DEF StartCall, StartAcquired, Live
<1>3. ASSUME NEW c \in Caller,
             \/ \E id \in StreamId : Answered(c, id)
             \/ Opened(c) \/ OpenFailed(c) \/ OpenAborted(c) \/ Ended(c)
      PROVE  FALSE
    BY <1>3, TypeParts
    DEF Answered, Opened, OpenFailed, OpenAborted, Ended, Live, SessionType
<1>4. ASSUME UNCHANGED sessions PROVE FALSE
    BY <1>4 DEF Live
<1>5. CASE StopClose \/ ConnectionClosed \/ \E r \in Recoverer : RecoverWithdraw(r)
    BY <1>5, DisconnectedInv DEF StopClose, ConnectionClosed, RecoverWithdraw, Withdraw
<1>6. ASSUME NEW c \in Caller, StartTimeout(c) \/ Watched(c) PROVE FALSE
    BY <1>4, <1>6 DEF StartTimeout, Watched
<1>7. ASSUME NEW r \in Recoverer, RecoverCancel(r) \/ RecoverRestore(r) \/ RecoverAborted(r)
      PROVE  FALSE
    BY <1>4, <1>7 DEF RecoverCancel, RecoverRestore, RecoverAborted
<1>8. CASE \/ StopCancel \/ StopFinal \/ StopFailed \/ StartAgain
           \/ \E conn \in Conn : Whoami(conn)
    BY <1>4, <1>8 DEF StopCancel, StopFinal, StopFailed, StartAgain, Whoami
<1>9. CASE UNCHANGED vars
    BY <1>4, <1>9 DEF vars
<1> QED
    BY <1>2, <1>3, <1>5, <1>6, <1>7, <1>8, <1>9 DEF Next, SessionStep, RecoverStep, StopStep

\* The capability is only withdrawn by a step that closes everything.
LEMMA WithdrawalStep ==
    ASSUME TypeOK, AccessInv, [Next]_vars, _siri_advertised, ~_siri_advertised'
    PROVE  \A s \in Caller : ~Live(s)'
<1> USE DEF calls, fields, link, service
<1>1. ASSUME NEW r \in Recoverer, RecoverWithdraw(r)
      PROVE  \A s \in Caller : ~Live(s)'
    BY <1>1, DisconnectedInv DEF RecoverWithdraw, Withdraw
<1>2. ASSUME UNCHANGED _siri_advertised PROVE FALSE
    BY <1>2
<1>3. ASSUME NEW c \in Caller,
             \/ StartCall(c) \/ StartAcquired(c) \/ StartTimeout(c)
             \/ \E id \in StreamId : Answered(c, id)
             \/ Opened(c) \/ OpenFailed(c) \/ OpenAborted(c)
             \/ Ended(c) \/ Watched(c)
      PROVE  FALSE
    BY <1>2, <1>3 DEF StartCall, StartAcquired, StartTimeout, Answered, Opened,
                      OpenFailed, OpenAborted, Ended, Watched
<1>4. ASSUME NEW r \in Recoverer, RecoverCancel(r) \/ RecoverRestore(r) \/ RecoverAborted(r)
      PROVE  FALSE
    BY <1>2, <1>4 DEF RecoverCancel, RecoverRestore, RecoverAborted
<1>5. CASE \/ StopCancel \/ StopClose \/ StopFinal \/ StopFailed \/ StartAgain
           \/ ConnectionClosed \/ \E conn \in Conn : Whoami(conn)
    BY <1>2, <1>5 DEF StopCancel, StopClose, StopFinal, StopFailed, StartAgain,
                      ConnectionClosed, Whoami
<1>6. CASE UNCHANGED vars
    BY <1>2, <1>6 DEF vars
<1> QED
    BY <1>1, <1>3, <1>4, <1>5, <1>6 DEF Next, SessionStep, RecoverStep, StopStep

\* While Siri is withdrawn no utterance is in progress, in spite of recoveries
\* that overlap and of sessions that were still opening.
THEOREM WithdrawnIsQuiet == Spec => []WithdrawnQuiet
<1>1. Init => WithdrawnQuiet
    BY DEF Init, WithdrawnQuiet
<1>2. TypeOK /\ AccessInv /\ WithdrawnQuiet /\ [Next]_vars => WithdrawnQuiet'
    BY LiveStep, WithdrawalStep DEF WithdrawnQuiet, TypeOK
<1> QED
    BY <1>1, <1>2, AccessInvariant, PTL DEF Spec

-----------------------------------------------------------------------------
(* The registry of stream ids.                                             *)

\* An answer has a stream id, and nothing else gives a session one.
StreamKnown ==
    \A s \in Caller :
        /\ sessions[s].open = "answered" => sessions[s].stream # None
        /\ sessions[s].open \in {"none", "pending"} => sessions[s].stream = None

ReachInv == StreamKnown /\ MessagesReach

\* A step that leaves the registry alone, and with it all sessions but one that
\* is still opening or already over.
LEMMA SameRegistry ==
    ASSUME ReachInv, UNCHANGED siri_sessions, NEW s \in Caller,
           \A r \in Caller : r # s => sessions'[r] = sessions[r],
           \/ sessions'[s].open \in {"pending", "done"} /\ sessions'[s].stream = None
           \/ sessions'[s].open = "done" /\ sessions'[s].closed = TRUE
    PROVE  ReachInv'
<1>1. ASSUME NEW r \in Caller, Live(r)', sessions'[r].open = "done",
             sessions'[r].stream # None
      PROVE  r # s
    BY <1>1 DEF Live
<1>2. \A r \in Caller :
          \/ r # s
          \/ sessions'[r].open = "pending" /\ sessions'[r].stream = None
          \/ sessions'[r].open = "done"
    OBVIOUS
<1> QED
    BY <1>1, <1>2 DEF ReachInv, StreamKnown, MessagesReach, Live

LEMMA DisconnectedReach ==
    ASSUME TypeOK, AccessInv, ReachInv, Disconnected(hds_connection),
           UNCHANGED <<calls, watch, _active_siri_session, _siri_watch_task>>
    PROVE  ReachInv'
<1>1. \A s \in Caller : ~Live(s)'
    BY DisconnectedInv
<1>2. \A s \in Caller : /\ sessions'[s].open = sessions[s].open
                        /\ sessions'[s].stream = sessions[s].stream
    BY TypeParts DEF Disconnected, SessionType
<1> QED
    BY <1>1, <1>2 DEF ReachInv, StreamKnown, MessagesReach

LEMMA ReachStep == TypeOK /\ AccessInv /\ ReachInv /\ [Next]_vars => ReachInv'
<1> SUFFICES ASSUME TypeOK, AccessInv, ReachInv, [Next]_vars PROVE ReachInv'
    OBVIOUS
<1> USE DEF calls, fields, link, service
<1>1. ASSUME UNCHANGED <<sessions, siri_sessions>> PROVE ReachInv'
    BY <1>1 DEF ReachInv, StreamKnown, MessagesReach, Live
<1>2. ASSUME NEW c \in Caller, NEW queue, Begin(c, queue), UNCHANGED siri_sessions
      PROVE  ReachInv'
    <2>1. CASE UNCHANGED sessions
        BY <1>1, <1>2, <2>1
    <2>2. CASE sessions' = [sessions EXCEPT ![c] = [open |-> "pending",
                  closed |-> FALSE, conn |-> hds_connection, stream |-> None]]
        <3>1. \A r \in Caller : r # c => sessions'[r] = sessions[r]
            BY <2>2, TypeParts
        <3>2. sessions'[c].open = "pending" /\ sessions'[c].stream = None
            BY <2>2, TypeParts DEF SessionType
        <3> QED
            BY <1>2, <3>1, <3>2, SameRegistry
    <2> QED
        BY <1>2, <2>1, <2>2 DEF Begin
<1>3. ASSUME NEW c \in Caller, StartCall(c) \/ StartAcquired(c) \/ StartTimeout(c)
      PROVE  ReachInv'
    BY <1>1, <1>2, <1>3 DEF StartCall, StartAcquired, StartTimeout
<1>4. ASSUME NEW s \in Caller, NEW id \in StreamId, Answered(s, id)
      PROVE  ReachInv'
    <2>1. /\ sessions' = [sessions EXCEPT ![s].open = "answered", ![s].stream = id]
          /\ UNCHANGED siri_sessions /\ id # None
        BY <1>4, AccessAssumption DEF Answered
    <2>2. \A r \in Caller : r # s => sessions'[r] = sessions[r]
        BY <2>1, TypeParts
    <2>3. sessions'[s].open = "answered" /\ sessions'[s].stream = id
        BY <2>1, TypeParts DEF SessionType
    <2> QED
        BY <2>1, <2>2, <2>3 DEF ReachInv, StreamKnown, MessagesReach, Live
<1>5. ASSUME NEW s \in Caller, Opened(s)
      PROVE  ReachInv'
    <2> DEFINE id == sessions[s].stream
    <2>1. id \in StreamId /\ s # None /\ sessions[s].open = "answered"
        BY <1>5, AccessAssumption, TypeParts
        DEF Opened, ReachInv, StreamKnown, SessionType
    <2>2. CASE siri_sessions[id] \in {None, s}
        <3>1. /\ siri_sessions' = [siri_sessions EXCEPT ![id] = s]
              /\ sessions' = [sessions EXCEPT ![s].open = "done"]
            BY <1>5, <2>2 DEF Opened
        <3>2. \A r \in Caller : r # s => sessions'[r] = sessions[r]
            BY <3>1, TypeParts
        <3>3. sessions'[s].open = "done" /\ sessions'[s].stream = id
              /\ siri_sessions'[id] = s
            BY <2>1, <3>1, TypeParts DEF SessionType
        <3>4. \A x \in StreamId : x # id => siri_sessions'[x] = siri_sessions[x]
            BY <3>1, TypeParts
        <3>5. ASSUME NEW r \in Caller, r # s, Live(r), sessions[r].open = "done",
                     sessions[r].stream # None
              PROVE  sessions[r].stream # id /\ siri_sessions[sessions[r].stream] = r
            BY <2>2, <3>5, AccessAssumption DEF ReachInv, MessagesReach
        <3>6. \A r \in Caller : sessions[r].stream \in StreamId \cup {None}
            BY TypeParts DEF SessionType
        <3> HIDE DEF id
        <3>7. StreamKnown'
            BY <3>2, <3>3 DEF ReachInv, StreamKnown
        <3>8. MessagesReach'
            BY <2>1, <3>2, <3>3, <3>4, <3>5, <3>6, AccessAssumption DEF MessagesReach, Live
        <3> QED
            BY <3>7, <3>8 DEF ReachInv
    <2>3. CASE siri_sessions[id] \notin {None, s}
        <3>1. /\ sessions' = [sessions EXCEPT ![s].open = "done", ![s].closed = TRUE]
              /\ UNCHANGED siri_sessions
            BY <1>5, <2>3 DEF Opened
        <3>2. \A r \in Caller : r # s => sessions'[r] = sessions[r]
            BY <3>1, TypeParts
        <3>3. sessions'[s].open = "done" /\ sessions'[s].closed = TRUE
            BY <3>1, TypeParts DEF SessionType
        <3> QED
            BY <3>1, <3>2, <3>3, SameRegistry
    <2> QED
        BY <2>2, <2>3
<1>6. ASSUME NEW s \in Caller, OpenFailed(s) \/ OpenAborted(s) \/ Ended(s)
      PROVE  ReachInv'
    <2>1. UNCHANGED siri_sessions /\ \A r \in Caller : r # s => sessions'[r] = sessions[r]
        BY <1>6, TypeParts DEF OpenFailed, OpenAborted, Ended
    <2>2. sessions'[s].open = "done"
          /\ (sessions'[s].closed = TRUE \/ sessions'[s].stream = None)
        BY <1>6, TypeParts
        DEF OpenFailed, OpenAborted, Ended, SessionType, ReachInv, StreamKnown
    <2> QED
        BY <2>1, <2>2, SameRegistry
<1>7. ASSUME NEW s \in Caller, Watched(s)
      PROVE  ReachInv'
    <2>1. UNCHANGED sessions /\ sessions[s].closed
        BY <1>7 DEF Watched
    <2>2. \A id \in StreamId : siri_sessions[id] # s => siri_sessions'[id] = siri_sessions[id]
        BY <1>7, TypeParts DEF Watched
    <2>3. \A r \in Caller : sessions[r].stream \in StreamId \cup {None}
        BY TypeParts DEF SessionType
    <2> QED
        BY <2>1, <2>2, <2>3 DEF ReachInv, StreamKnown, MessagesReach, Live
<1>8. ASSUME NEW r \in Recoverer, RecoverCancel(r) \/ RecoverRestore(r) \/ RecoverAborted(r)
      PROVE  ReachInv'
    BY <1>1, <1>8 DEF RecoverCancel, RecoverRestore, RecoverAborted
<1>9. CASE StopClose \/ ConnectionClosed \/ \E r \in Recoverer : RecoverWithdraw(r)
    BY <1>9, DisconnectedReach DEF StopClose, ConnectionClosed, RecoverWithdraw, Withdraw
<1>10. CASE StopCancel \/ StopFailed \/ StartAgain
    BY <1>1, <1>10 DEF StopCancel, StopFailed, StartAgain
<1>11. CASE StopFinal
    <2>1. \A s \in Caller : ~Live(s)
        BY <1>11 DEF StopFinal, AccessInv, LiveIsActive, NoConnectionLeft
    <2> QED
        BY <1>11, <2>1 DEF StopFinal, ReachInv, StreamKnown, MessagesReach, Live
<1>12. ASSUME NEW conn \in Conn, Whoami(conn) PROVE ReachInv'
    BY <1>1, <1>12 DEF Whoami
<1>13. CASE UNCHANGED vars
    BY <1>1, <1>13 DEF vars
<1> QED
    BY <1>3, <1>4, <1>5, <1>6, <1>7, <1>8, <1>9, <1>10, <1>11, <1>12, <1>13
    DEF Next, SessionStep, RecoverStep, StopStep

\* Acks and closes of the Apple TV find the session in progress, also when the
\* registry still holds a session that was over before it was registered.
THEOREM MessagesAlwaysReach == Spec => []MessagesReach
<1>1. Init => ReachInv
    BY DEF Init, ReachInv, StreamKnown, MessagesReach, NoSession
<1>2. ReachInv => MessagesReach
    BY DEF ReachInv
<1> QED
    BY <1>1, <1>2, ReachStep, AccessInvariant, PTL DEF Spec

-----------------------------------------------------------------------------
(* The life of a session.                                                  *)

\* A connection is made once; a session that has begun is on one.  Nothing ends,
\* holds the lock or is registered that has not begun.
BegunInv ==
    /\ hds_connection \notin fresh
    /\ \A s \in Caller :
        IF sessions[s].open = "none" THEN ~sessions[s].closed
        ELSE sessions[s].conn # None /\ sessions[s].conn \notin fresh
    /\ \A c \in Caller :
        start_siri[c] \in {"idle", "waiting"} => sessions[c].open = "none"
    /\ _active_siri_session # None => sessions[_active_siri_session].open # "none"
    /\ \A id \in StreamId :
        siri_sessions[id] # None => sessions[siri_sessions[id]].open # "none"

\* The sessions go on, and nothing that has not begun becomes known.
LEMMA BegunKept ==
    ASSUME BegunInv, UNCHANGED link,
           \A s \in Caller : /\ sessions'[s].conn = sessions[s].conn
                             /\ sessions'[s].open = "none" <=> sessions[s].open = "none"
                             /\ sessions[s].open = "none" =>
                                    sessions'[s].closed = sessions[s].closed,
           \A c \in Caller : start_siri'[c] \in {"idle", "waiting"} =>
                                start_siri[c] \in {"idle", "waiting"},
           _active_siri_session' \in {None, _active_siri_session},
           {_active_siri_session} \subseteq Caller \cup {None},
           \A id \in StreamId :
               \/ siri_sessions'[id] \in {None, siri_sessions[id]}
               \/ siri_sessions'[id] \in Caller /\ sessions[siri_sessions'[id]].open # "none",
           \A id \in StreamId : siri_sessions[id] \in Caller \cup {None}
    PROVE  BegunInv'
<1>1. hds_connection' \notin fresh'
      /\ \A s \in Caller : IF sessions'[s].open = "none" THEN ~sessions'[s].closed
                           ELSE sessions'[s].conn # None /\ sessions'[s].conn \notin fresh'
    BY DEF BegunInv, link
<1>2. \A c \in Caller : start_siri'[c] \in {"idle", "waiting"} => sessions'[c].open = "none"
    BY DEF BegunInv
<1>3. _active_siri_session' # None => sessions'[_active_siri_session'].open # "none"
    BY DEF BegunInv
<1>4. ASSUME NEW id \in StreamId, siri_sessions'[id] # None
      PROVE  sessions'[siri_sessions'[id]].open # "none"
    BY <1>4 DEF BegunInv
<1> QED
    BY <1>1, <1>2, <1>3, <1>4 DEF BegunInv

LEMMA BegunBegin ==
    ASSUME TypeOK, BegunInv, NEW c \in Caller, NEW queue, Begin(c, queue),
           start_siri[c] \in {"idle", "waiting"}, UNCHANGED <<siri_sessions, link>>
    PROVE  BegunInv'
<1>1. CASE /\ start_siri' = [start_siri EXCEPT ![c] = "refused"]
           /\ UNCHANGED <<sessions, _active_siri_session>>
    BY <1>1 DEF BegunInv, TypeOK, link
<1>2. CASE /\ hds_connection # None
           /\ start_siri' = [start_siri EXCEPT ![c] = "started"]
           /\ sessions' = [sessions EXCEPT ![c] = [open |-> "pending",
                 closed |-> FALSE, conn |-> hds_connection, stream |-> None]]
           /\ _active_siri_session' = c
    <2>1. \A r \in Caller : r # c => sessions'[r] = sessions[r]
        BY <1>2, TypeParts
    <2>2. sessions'[c].open = "pending" /\ sessions'[c].conn = hds_connection
        BY <1>2, TypeParts
    <2>3. \A r \in Caller : start_siri'[r] = IF r = c THEN "started" ELSE start_siri[r]
        BY <1>2 DEF TypeOK
    <2>4. \A id \in StreamId : siri_sessions[id] \in Caller \cup {None}
        BY TypeParts
    <2> QED
        BY <1>2, <2>1, <2>2, <2>3, <2>4 DEF BegunInv, link
<1> QED
    BY <1>1, <1>2 DEF Begin

LEMMA BegunDisconnected ==
    ASSUME TypeOK, BegunInv, Disconnected(hds_connection),
           UNCHANGED <<start_siri, _active_siri_session, fresh>>
    PROVE  BegunInv'
<1>1. \A s \in Caller :
          sessions'[s] = IF sessions[s].conn = hds_connection
                            /\ (s = _active_siri_session
                                \/ \E id \in StreamId : siri_sessions[id] = s)
                         THEN [sessions[s] EXCEPT !.closed = TRUE]
                         ELSE sessions[s]
    BY DEF Disconnected
<1>2. ASSUME NEW s \in Caller
      PROVE  /\ sessions'[s].open = sessions[s].open
             /\ sessions'[s].conn = sessions[s].conn
    <2>1. sessions[s] \in SessionType
        BY TypeParts
    <2> QED
        BY <1>1, <2>1 DEF SessionType
<1>3. ASSUME NEW s \in Caller, sessions[s].open = "none"
      PROVE  sessions'[s] = sessions[s]
    <2>1. s # None /\ s # _active_siri_session
        BY <1>3, AccessAssumption DEF BegunInv
    <2>2. \A id \in StreamId : siri_sessions[id] # s
        BY <1>3, <2>1 DEF BegunInv
    <2> QED
        BY <1>1, <2>1, <2>2
<1>4. \A id \in StreamId : siri_sessions'[id] \in {None, siri_sessions[id]}
    BY DEF Disconnected
<1>5. \A id \in StreamId : siri_sessions[id] \in Caller \cup {None}
    BY TypeParts
<1>6. hds_connection' = None /\ None \notin fresh
    BY AccessAssumption DEF Disconnected, TypeOK
<1>7. _active_siri_session \in Caller \cup {None}
    BY TypeWatch
<1>8. hds_connection' \notin fresh'
      /\ \A s \in Caller : IF sessions'[s].open = "none" THEN ~sessions'[s].closed
                           ELSE sessions'[s].conn # None /\ sessions'[s].conn \notin fresh'
    BY <1>2, <1>3, <1>6 DEF BegunInv
<1>9. \A c \in Caller : start_siri'[c] \in {"idle", "waiting"} => sessions'[c].open = "none"
    BY <1>2 DEF BegunInv
<1>10. _active_siri_session' # None => sessions'[_active_siri_session'].open # "none"
    BY <1>2, <1>7 DEF BegunInv
<1>11. \A id \in StreamId :
           siri_sessions'[id] # None => sessions'[siri_sessions'[id]].open # "none"
    BY <1>2, <1>4, <1>5 DEF BegunInv
<1> QED
    BY <1>8, <1>9, <1>10, <1>11 DEF BegunInv

LEMMA BegunStep == TypeOK /\ BegunInv /\ [Next]_vars => BegunInv'
<1> SUFFICES ASSUME TypeOK, BegunInv, [Next]_vars PROVE BegunInv'
    OBVIOUS
<1> USE DEF calls, fields, service
<1>t. /\ \A id \in StreamId : siri_sessions[id] \in Caller \cup {None}
      /\ {_active_siri_session} \subseteq Caller \cup {None}
    BY TypeParts, TypeWatch
<1>1. ASSUME NEW c \in Caller, StartCall(c) \/ StartAcquired(c) \/ StartTimeout(c)
      PROVE  BegunInv'
    <2>1. start_siri[c] \in {"idle", "waiting"} /\ UNCHANGED <<siri_sessions, link>>
        BY <1>1 DEF StartCall, StartAcquired, StartTimeout
    <2>2. CASE \E queue : Begin(c, queue)
        BY <2>1, <2>2, BegunBegin
    <2>3. CASE /\ \E where : start_siri' = [start_siri EXCEPT ![c] = where]
               /\ UNCHANGED <<sessions, _active_siri_session>>
        <3>1. \A r \in Caller : r # c => start_siri'[r] = start_siri[r]
            BY <2>3 DEF TypeOK
        <3> QED
            BY <1>t, <2>1, <2>3, <3>1, BegunKept
    <2> QED
        BY <1>1, <2>2, <2>3 DEF StartCall, StartAcquired, StartTimeout
<1>2. ASSUME NEW s \in Caller,
             \/ \E id \in StreamId : Answered(s, id)
             \/ Opened(s) \/ OpenFailed(s) \/ OpenAborted(s) \/ Ended(s)
      PROVE  BegunInv'
    <2>1. sessions[s].open # "none"
        BY <1>2 DEF Answered, Opened, OpenFailed, OpenAborted, Ended
    <2>2. \A r \in Caller : /\ sessions'[r].conn = sessions[r].conn
                            /\ r # s => sessions'[r] = sessions[r]
        BY <1>2, TypeParts
        DEF Answered, Opened, OpenFailed, OpenAborted, Ended, SessionType
    <2>3. sessions'[s].open # "none"
        BY <1>2, TypeParts
        DEF Answered, Opened, OpenFailed, OpenAborted, Ended, SessionType
    <2>4. \A id \in StreamId : siri_sessions'[id] \in {s, siri_sessions[id]}
        BY <1>2, TypeParts DEF Answered, Opened, OpenFailed, OpenAborted, Ended
    <2>5. UNCHANGED <<start_siri, _active_siri_session, link>>
        BY <1>2 DEF Answered, Opened, OpenFailed, OpenAborted, Ended
    <2> QED
        BY <1>t, <2>1, <2>2, <2>3, <2>4, <2>5, BegunKept
<1>3. ASSUME NEW s \in Caller, Watched(s)
      PROVE  BegunInv'
    <2>1. /\ UNCHANGED <<start_siri, sessions, link>>
          /\ _active_siri_session' \in {None, _active_siri_session}
        BY <1>3 DEF Watched
    <2>2. \A id \in StreamId : siri_sessions'[id] \in {None, siri_sessions[id]}
        BY <1>3, TypeParts DEF Watched
    <2> QED
        BY <1>t, <2>1, <2>2, BegunKept
<1>4. CASE StopClose \/ ConnectionClosed \/ \E r \in Recoverer : RecoverWithdraw(r)
    BY <1>4, BegunDisconnected DEF StopClose, ConnectionClosed, RecoverWithdraw, Withdraw
<1>5. ASSUME UNCHANGED <<sessions, start_siri, _active_siri_session, siri_sessions, link>>
      PROVE  BegunInv'
    BY <1>t, <1>5, BegunKept
<1>6. ASSUME NEW r \in Recoverer, RecoverCancel(r) \/ RecoverRestore(r) \/ RecoverAborted(r)
      PROVE  BegunInv'
    BY <1>5, <1>6 DEF RecoverCancel, RecoverRestore, RecoverAborted
<1>7. CASE StopCancel \/ StopFailed \/ StartAgain
    BY <1>5, <1>7 DEF StopCancel, StopFailed, StartAgain
<1>8. CASE StopFinal
    BY <1>8, AccessAssumption DEF StopFinal, BegunInv, TypeOK
<1>9. ASSUME NEW conn \in Conn, Whoami(conn) PROVE BegunInv'
    BY <1>9 DEF Whoami, BegunInv
<1>10. CASE UNCHANGED vars
    BY <1>5, <1>10 DEF vars
<1> QED
    BY <1>1, <1>2, <1>3, <1>4, <1>6, <1>7, <1>8, <1>9, <1>10
    DEF Next, SessionStep, RecoverStep, StopStep

LEMMA BegunInit == Init => BegunInv
BY AccessAssumption DEF Init, BegunInv, NoSession

\* What AccessInv and its companions say together.
LEMMA SessionInvariant == Spec => [](TypeOK /\ AccessInv /\ ReachInv /\ BegunInv)
<1>1. Init => ReachInv
    BY DEF Init, ReachInv, StreamKnown, MessagesReach, NoSession
<1> QED
    BY <1>1, ReachStep, BegunInit, BegunStep, AccessInvariant, PTL DEF Spec

\* A session that is left alone with its connection stays as it is.
LEMMA LifeSame ==
    ASSUME NEW s \in Caller, sessions'[s] = sessions[s], UNCHANGED hds_connection
    PROVE  UNCHANGED Life(s)!vars
BY DEF Life!vars, LifeOpen, OnConnection

\* The call that begins gives its session a connection.
LEMMA LifeBegins ==
    ASSUME TypeOK, ReachInv, BegunInv, NEW c \in Caller, NEW queue, Begin(c, queue),
           start_siri[c] \in {"idle", "waiting"}, UNCHANGED link, NEW s \in Caller
    PROVE  UNCHANGED Life(s)!vars
<1>1. UNCHANGED hds_connection
    BY DEF link
<1>2. CASE UNCHANGED sessions
    BY <1>1, <1>2, LifeSame
<1>3. CASE sessions' = [sessions EXCEPT ![c] = [open |-> "pending",
                closed |-> FALSE, conn |-> hds_connection, stream |-> None]]
    <2>1. CASE s # c
        BY <1>1, <1>3, <2>1, TypeParts, LifeSame
    <2>2. CASE s = c
        <3>1. sessions[c].open = "none" /\ sessions[c].closed = FALSE
            BY TypeParts DEF BegunInv, SessionType
        <3>2. /\ sessions'[c].open = "pending" /\ sessions'[c].closed = FALSE
              /\ sessions'[c].conn = hds_connection
            BY <1>3, TypeParts
        <3> QED
            BY <1>1, <2>2, <3>1, <3>2 DEF Life!vars, LifeOpen, OnConnection
    <2> QED
        BY <2>1, <2>2
<1> QED
    BY <1>2, <1>3 DEF Begin

\* What _open and the end of a session do to it.
LEMMA LifeGoesOn ==
    ASSUME TypeOK, ReachInv, NEW s \in Caller,
           \/ \E id \in StreamId : Answered(s, id)
           \/ Opened(s) \/ OpenFailed(s) \/ OpenAborted(s) \/ Ended(s)
    PROVE  Life(s)!Next
<1> DEFINE old == sessions[s]
           new == sessions'[s]
<1>1. /\ OnConnection(s)' = OnConnection(s)
      /\ new.conn = old.conn
      /\ old \in SessionType
    BY TypeParts
    DEF Answered, Opened, OpenFailed, OpenAborted, Ended, link, OnConnection, SessionType
<1>2. ASSUME NEW id \in StreamId, Answered(s, id) PROVE Life(s)!Answer
    <2>1. old.open = "pending" /\ ~old.closed
        BY <1>2 DEF Answered
    <2>2. new.open = "answered" /\ new.closed = old.closed
        BY <1>2, TypeParts DEF Answered, SessionType
    <2> QED
        BY <1>1, <2>1, <2>2 DEF Life!Answer, LifeOpen
<1>3. ASSUME Opened(s) PROVE Life(s)!Open
    <2>1. old.open = "answered" /\ old.stream # None
        BY <1>3 DEF Opened, ReachInv, StreamKnown
    <2>2. \/ new = [old EXCEPT !.open = "done"]
          \/ new = [old EXCEPT !.open = "done", !.closed = TRUE]
        BY <1>3, TypeParts DEF Opened
    <2>3. /\ new.open = "done" /\ new.stream = old.stream
          /\ new.closed \in {old.closed, TRUE}
        BY <1>1, <2>2 DEF SessionType
    <2> QED
        BY <1>1, <2>1, <2>3 DEF Life!Open, LifeOpen
<1>4. ASSUME OpenFailed(s) PROVE Life(s)!Fail
    <2>1. old.open \in {"pending", "answered"}
        BY <1>4 DEF OpenFailed
    <2>2. new.open = "done" /\ new.stream = None /\ new.closed = TRUE
        BY <1>4, TypeParts DEF OpenFailed, SessionType
    <2> QED
        BY <1>1, <2>1, <2>2 DEF Life!Fail, LifeOpen
<1>5. ASSUME OpenAborted(s) PROVE Life(s)!Abort
    <2>1. old.open = "pending" /\ old.stream = None
        BY <1>5 DEF OpenAborted, ReachInv, StreamKnown
    <2>2. new.open = "done" /\ new.stream = None /\ new.closed = old.closed
        BY <1>5, <2>1, TypeParts DEF OpenAborted, SessionType
    <2> QED
        BY <1>1, <2>1, <2>2 DEF Life!Abort, LifeOpen
<1>6. ASSUME Ended(s) PROVE Life(s)!End
    <2>1. old.open = "done" /\ ~old.closed
        BY <1>6 DEF Ended
    <2>2. new.open = old.open /\ new.stream = old.stream /\ new.closed = TRUE
        BY <1>6, TypeParts DEF Ended, SessionType
    <2> QED
        BY <1>1, <2>1, <2>2 DEF Life!End, LifeOpen
<1> QED
    BY <1>2, <1>3, <1>4, <1>5, <1>6 DEF Life!Next

\* A connection ends with the sessions on it, as far as they have begun.
LEMMA LifeDisconnected ==
    ASSUME TypeOK, AccessInv, BegunInv, NEW s \in Caller, Disconnected(hds_connection),
           UNCHANGED <<calls, watch, _active_siri_session, _siri_watch_task, fresh>>
    PROVE  [Life(s)!Next]_(Life(s)!vars)
<1>1. sessions'[s] = IF sessions[s].conn = hds_connection
                        /\ (s = _active_siri_session
                            \/ \E id \in StreamId : siri_sessions[id] = s)
                     THEN [sessions[s] EXCEPT !.closed = TRUE]
                     ELSE sessions[s]
    BY DEF Disconnected
<1>2. sessions[s] \in SessionType /\ hds_connection' = None
    BY TypeParts DEF Disconnected
<1>3. /\ sessions'[s].open = sessions[s].open
      /\ sessions'[s].conn = sessions[s].conn
      /\ sessions'[s].stream = sessions[s].stream
    BY <1>1, <1>2 DEF SessionType
<1>4. LifeOpen(s)' = LifeOpen(s)
    BY <1>3 DEF LifeOpen
<1>5. CASE sessions[s].open # "none"
    <2>1. sessions'[s].closed = TRUE
        <3>1. ~Live(s)' /\ BegunInv'
            BY BegunDisconnected, DisconnectedInv DEF calls
        <3>2. sessions'[s].closed \in BOOLEAN
            BY <1>1, <1>2 DEF SessionType
        <3> QED
            BY <1>3, <1>5, <3>1, <3>2 DEF Live
    <2>2. ~OnConnection(s)'
        BY <1>2, <1>3, <1>5 DEF OnConnection, BegunInv
    <2>3. CASE OnConnection(s)
        <3>1. Life(s)!Disconnect
            BY <1>4, <2>1, <2>2, <2>3 DEF Life!Disconnect, OnConnection
        <3> QED
            BY <3>1 DEF Life!Next
    <2>4. CASE ~OnConnection(s)
        <3>1. sessions'[s] = sessions[s]
            BY <1>1, <2>4 DEF OnConnection
        <3> QED
            BY <1>4, <2>2, <2>4, <3>1 DEF Life!vars, OnConnection
    <2> QED
        BY <2>3, <2>4
<1>6. CASE sessions[s].open = "none"
    <2>1. s # None /\ s # _active_siri_session
        BY <1>6, AccessAssumption DEF BegunInv
    <2>2. \A id \in StreamId : siri_sessions[id] # s
        BY <1>6, <2>1 DEF BegunInv
    <2>3. sessions'[s] = sessions[s]
        BY <1>1, <2>1, <2>2
    <2> QED
        BY <1>6, <2>3 DEF Life!vars, LifeOpen, OnConnection
<1> QED
    BY <1>5, <1>6

LEMMA LifeStep ==
    ASSUME TypeOK, AccessInv, ReachInv, BegunInv, [Next]_vars, NEW s \in Caller
    PROVE  [Life(s)!Next]_(Life(s)!vars)
<1> USE DEF calls, fields, service
<1>1. ASSUME UNCHANGED <<sessions, hds_connection>>
      PROVE  UNCHANGED Life(s)!vars
    BY <1>1, LifeSame
<1>2. ASSUME NEW c \in Caller, StartCall(c) \/ StartAcquired(c) \/ StartTimeout(c)
      PROVE  UNCHANGED Life(s)!vars
    <2>1. start_siri[c] \in {"idle", "waiting"} /\ UNCHANGED link
        BY <1>2 DEF StartCall, StartAcquired, StartTimeout
    <2>2. (\E queue : Begin(c, queue)) \/ UNCHANGED sessions
        BY <1>2 DEF StartCall, StartAcquired, StartTimeout
    <2> QED
        BY <1>1, <2>1, <2>2, LifeBegins DEF link
<1>3. ASSUME NEW c \in Caller,
             \/ \E id \in StreamId : Answered(c, id)
             \/ Opened(c) \/ OpenFailed(c) \/ OpenAborted(c) \/ Ended(c)
      PROVE  [Life(s)!Next]_(Life(s)!vars)
    <2>1. CASE c = s
        BY <1>3, <2>1, LifeGoesOn
    <2>2. CASE c # s
        <3>1. sessions'[s] = sessions[s] /\ UNCHANGED hds_connection
            BY <1>3, <2>2, TypeParts
            DEF Answered, Opened, OpenFailed, OpenAborted, Ended, link
        <3> QED
            BY <3>1, LifeSame
    <2> QED
        BY <2>1, <2>2
<1>4. CASE StopClose \/ ConnectionClosed \/ \E r \in Recoverer : RecoverWithdraw(r)
    BY <1>4, LifeDisconnected DEF StopClose, ConnectionClosed, RecoverWithdraw, Withdraw
<1>5. ASSUME \/ \E c \in Caller : Watched(c)
             \/ \E r \in Recoverer : RecoverCancel(r) \/ RecoverRestore(r) \/ RecoverAborted(r)
             \/ StopCancel \/ StopFailed \/ StartAgain
      PROVE  UNCHANGED Life(s)!vars
    BY <1>1, <1>5 DEF Watched, RecoverCancel, RecoverRestore, RecoverAborted,
                      StopCancel, StopFailed, StartAgain, link
<1>6. CASE StopFinal
    <2>1. UNCHANGED <<sessions, hds_connection>>
        BY <1>6 DEF StopFinal, AccessInv, NoConnectionLeft
    <2> QED
        BY <1>1, <2>1
<1>7. ASSUME NEW conn \in Conn, Whoami(conn) PROVE UNCHANGED Life(s)!vars
    <2>1. /\ hds_connection = None /\ hds_connection' = conn
          /\ conn \in fresh /\ UNCHANGED sessions
        BY <1>7 DEF Whoami
    <2>2. OnConnection(s)' = OnConnection(s)
        BY <2>1 DEF OnConnection, BegunInv
    <2> QED
        BY <2>1, <2>2 DEF Life!vars, LifeOpen, OnConnection
<1>8. CASE UNCHANGED vars
    BY <1>1, <1>8 DEF vars, link
<1> QED
    BY <1>2, <1>3, <1>4, <1>5, <1>6, <1>7, <1>8
    DEF Next, SessionStep, RecoverStep, StopStep

LEMMA LifeInit == ASSUME Init, NEW s \in Caller PROVE Life(s)!Init
BY DEF Init, NoSession, Life!Init, LifeOpen, OnConnection

\* Each session lives as SessionLife says, also one whose answer comes with the
\* end of its connection, or after a recovery or a stop has given up on it.
THEOREM SessionsLiveOn == Spec => SessionsLive
<1>1. Init => \A s \in Caller : Life(s)!Init
    BY LifeInit
<1>2. TypeOK /\ AccessInv /\ ReachInv /\ BegunInv /\ [Next]_vars
          => [\A s \in Caller : [Life(s)!Next]_(Life(s)!vars)]_vars
    BY LifeStep
<1> QED
    BY <1>1, <1>2, SessionInvariant, PTL DEF Spec, SessionsLive

\* The same of one session: it implements SessionLife.
THEOREM EachSessionImplements == ASSUME NEW s \in Caller PROVE Spec => Life(s)!Spec
<1>1. Init => Life(s)!Init
    BY LifeInit
<1>2. TypeOK /\ AccessInv /\ ReachInv /\ BegunInv /\ [Next]_vars
          => [Life(s)!Next]_(Life(s)!vars)
    BY LifeStep
<1> QED
    BY <1>1, <1>2, SessionInvariant, PTL DEF Spec, Life!Spec

-----------------------------------------------------------------------------
(* Taking turns.                                                           *)

LEMMA AccessOne == AccessInv => OneUtterance
BY DEF AccessInv, LiveIsActive, OneUtterance

\* Whose utterance is in progress.
LEMMA SpeakingIs ==
    ASSUME OneUtterance
    PROVE  /\ \A s \in Caller : Live(s) => Speaking = s
           /\ (\A s \in Caller : ~Live(s)) => Speaking = None
BY DEF OneUtterance, Speaking

LEMMA SpeakingIsNow ==
    ASSUME OneUtterance'
    PROVE  /\ \A s \in Caller : Live(s)' => Speaking' = s
           /\ (\A s \in Caller : ~Live(s)') => Speaking' = None
<1>1. \A s \in Caller : Live(s)' => Speaking' = s
    BY DEF OneUtterance, Speaking
<1>2. (\A s \in Caller : ~Live(s)') => Speaking' = None
    BY DEF Speaking
<1> QED
    BY <1>1, <1>2

\* A step in which nobody begins and the queue stays as it is.
LEMMA TurnEnds ==
    ASSUME OneUtterance, OneUtterance', UNCHANGED lock.waiters,
           \A s \in Caller : Live(s)' => Live(s)
    PROVE  [Turns!Next]_(Turns!vars)
<1>1. CASE \E s \in Caller : Live(s)'
    <2>1. Speaking' = Speaking
        BY <1>1, SpeakingIs, SpeakingIsNow
    <2> QED
        BY <2>1 DEF Turns!vars
<1>2. CASE \A s \in Caller : ~Live(s)'
    <2>1. Speaking' = None
        BY <1>2, SpeakingIsNow
    <2>2. CASE Speaking = None
        BY <2>1, <2>2 DEF Turns!vars
    <2>3. CASE Speaking # None
        BY <2>1, <2>3 DEF Turns!Next, Turns!End
    <2> QED
        BY <2>2, <2>3
<1> QED
    BY <1>1, <1>2

\* The first of the queue is the one that leaves it when it is refused.
LEMMA TurnRefused ==
    ASSUME NEW c \in Caller, lock.waiters \in Seq(Caller), lock.waiters # <<>>,
           Head(lock.waiters) = c, lock'.waiters = Tail(lock.waiters),
           UNCHANGED Speaking
    PROVE  Turns!Leave(c)
<1> DEFINE q == lock.waiters
           w == [j \in 1..Len(q) - 1 |-> IF j < 1 THEN q[j] ELSE q[j + 1]]
<1>1. 1 \in DOMAIN q /\ q[1] = c
    OBVIOUS
<1>2. Tail(q) = w
    <2>1. \A j \in 1..Len(q) - 1 : w[j] = q[j + 1]
        OBVIOUS
    <2>2. Tail(q) = [j \in 1..Len(q) - 1 |-> q[j + 1]]
        OBVIOUS
    <2> QED
        BY <2>1, <2>2
<1> QED
    BY <1>1, <1>2 DEF Turns!Leave

\* Begin, with the lock that is free and the queue as it is left.
LEMMA TurnBegins ==
    ASSUME TypeOK, AccessInv, AccessInv', ~lock.locked, NEW c \in Caller, NEW queue,
           Begin(c, queue),
           \/ lock.waiters = <<>> /\ queue = <<>>
           \/ /\ lock.waiters # <<>> /\ Head(lock.waiters) = c
              /\ queue = Tail(lock.waiters)
    PROVE  [Turns!Next]_(Turns!vars)
<1>1. \A s \in Caller : ~Live(s)
    BY AccessAssumption DEF AccessInv, LockOwned, LiveIsActive
<1>2. Speaking = None
    BY <1>1, AccessOne, SpeakingIs
<1>3. lock'.waiters = queue
    BY DEF Begin
<1>4. CASE UNCHANGED sessions
    <2>1. Speaking' = None
        <3>1. OneUtterance' /\ \A s \in Caller : ~Live(s)'
            BY <1>1, <1>4, AccessOne DEF OneUtterance, Live
        <3> QED
            BY <3>1, SpeakingIsNow
    <2>2. CASE lock.waiters = <<>> /\ queue = <<>>
        BY <1>2, <1>3, <2>1, <2>2 DEF Turns!vars
    <2>3. CASE /\ lock.waiters # <<>> /\ Head(lock.waiters) = c
               /\ queue = Tail(lock.waiters)
        <3>1. Turns!Leave(c)
            BY <1>2, <1>3, <2>1, <2>3, TypeQueue, TurnRefused
        <3> QED
            BY <3>1 DEF Turns!Next
    <2> QED
        BY <2>2, <2>3
<1>5. CASE sessions' = [sessions EXCEPT ![c] = [open |-> "pending",
                closed |-> FALSE, conn |-> hds_connection, stream |-> None]]
    <2>1. Live(c)'
        BY <1>5, TypeParts DEF Live
    <2>2. OneUtterance'
        BY DEF AccessInv, LiveIsActive, OneUtterance
    <2>3. Speaking' = c
        BY <2>1, <2>2, SpeakingIsNow
    <2>4. Turns!Begin(c)
        BY <1>2, <1>3, <2>3 DEF Turns!Begin
    <2> QED
        BY <2>4 DEF Turns!Next
<1> QED
    BY <1>4, <1>5 DEF Begin

\* Joining the queue and giving up in it.
LEMMA TurnQueued ==
    ASSUME TypeOK, OneUtterance, OneUtterance', UNCHANGED sessions, NEW c \in Caller,
           \/ /\ start_siri[c] = "idle"
              /\ lock' = [lock EXCEPT !.waiters = Append(@, c)]
           \/ StartTimeout(c)
    PROVE  Turns!Join(c) \/ Turns!Leave(c)
<1>1. Speaking' = Speaking
    BY DEF Speaking, Live
<1>2. CASE /\ start_siri[c] = "idle"
           /\ lock' = [lock EXCEPT !.waiters = Append(@, c)]
    <2>1. \A i \in DOMAIN lock.waiters : lock.waiters[i] # c
        BY <1>2, TypeQueue DEF Queued, In
    <2>2. lock'.waiters = Append(lock.waiters, c)
        BY <1>2, TypeParts
    <2> QED
        BY <1>1, <2>1, <2>2 DEF Turns!Join
<1>3. CASE StartTimeout(c)
    <2> DEFINE q == lock.waiters
               place == CHOOSE i \in DOMAIN q : q[i] = c
    <2>1. lock'.waiters = Without(q, c)
        BY <1>3, TypeParts DEF StartTimeout
    <2>2. place \in DOMAIN q /\ q[place] = c
        BY <1>3, TypeQueue DEF StartTimeout, Queued, In
    <2>3. Without(q, c) = [j \in 1..Len(q) - 1 |->
                               IF j < place THEN q[j] ELSE q[j + 1]]
        BY DEF Without
    <2> HIDE DEF place
    <2> QED
        BY <1>1, <2>1, <2>2, <2>3 DEF Turns!Leave
<1> QED
    BY <1>2, <1>3

\* Only a call of start_siri() changes the queue, and only one that is given the
\* lock brings a session to life.
LEMMA TurnElsewhere ==
    ASSUME TypeOK, AccessInv, AccessInv', [Next]_vars,
           ~\E c \in Caller : StartCall(c) \/ StartAcquired(c) \/ StartTimeout(c)
    PROVE  [Turns!Next]_(Turns!vars)
<1> USE DEF calls, fields, link, service
<1>1. ASSUME lock'.waiters = lock.waiters, \A s \in Caller : Live(s)' => Live(s)
      PROVE  [Turns!Next]_(Turns!vars)
    <2>1. OneUtterance /\ OneUtterance'
        BY DEF AccessInv, LiveIsActive, OneUtterance
    <2> QED
        BY <1>1, <2>1, TurnEnds
<1>2. ASSUME NEW s \in Caller,
             \/ \E id \in StreamId : Answered(s, id)
             \/ Opened(s) \/ OpenFailed(s) \/ OpenAborted(s) \/ Ended(s)
      PROVE  lock' = lock /\ \A r \in Caller : Live(r)' => Live(r)
    BY <1>2, TypeParts
    DEF Answered, Opened, OpenFailed, OpenAborted, Ended, Live, SessionType
<1>3. ASSUME NEW s \in Caller, Watched(s)
      PROVE  lock'.waiters = lock.waiters /\ \A r \in Caller : Live(r)' => Live(r)
    BY <1>3, TypeParts DEF Watched, Unlocked, Live
<1>4. CASE StopClose \/ ConnectionClosed \/ \E r \in Recoverer : RecoverWithdraw(r)
    <2>1. lock' = lock /\ \A s \in Caller : ~Live(s)'
        BY <1>4, DisconnectedInv
        DEF StopClose, ConnectionClosed, RecoverWithdraw, Withdraw
    <2> QED
        BY <1>1, <2>1
<1>5. ASSUME \/ \E r \in Recoverer : RecoverCancel(r) \/ RecoverRestore(r) \/ RecoverAborted(r)
             \/ StopCancel \/ StopFinal \/ StopFailed \/ StartAgain
             \/ \E conn \in Conn : Whoami(conn)
             \/ UNCHANGED vars
      PROVE  lock' = lock /\ \A s \in Caller : Live(s)' => Live(s)
    BY <1>5 DEF RecoverCancel, RecoverRestore, RecoverAborted, StopCancel, StopFinal,
                StopFailed, StartAgain, Whoami, vars, Live
<1> QED
    BY <1>1, <1>2, <1>3, <1>4, <1>5 DEF Next, SessionStep, RecoverStep, StopStep

LEMMA TurnStep ==
    ASSUME TypeOK, AccessInv, AccessInv', [Next]_vars
    PROVE  [Turns!Next]_(Turns!vars)
<1>1. OneUtterance /\ OneUtterance'
    BY DEF AccessInv, LiveIsActive, OneUtterance
<1>2. ASSUME NEW c \in Caller, StartCall(c) PROVE [Turns!Next]_(Turns!vars)
    <2>1. CASE ~lock.locked /\ lock.waiters = <<>>
        <3>1. Begin(c, <<>>)
            BY <1>2, <2>1 DEF StartCall
        <3> QED
            BY <2>1, <3>1, TurnBegins
    <2>2. CASE ~(~lock.locked /\ lock.waiters = <<>>)
        <3>1. /\ start_siri[c] = "idle" /\ UNCHANGED sessions
              /\ lock' = [lock EXCEPT !.waiters = Append(@, c)]
            BY <1>2, <2>2 DEF StartCall
        <3> QED
            BY <1>1, <3>1, TurnQueued DEF Turns!Next
    <2> QED
        BY <2>1, <2>2
<1>3. ASSUME NEW c \in Caller, StartAcquired(c) PROVE [Turns!Next]_(Turns!vars)
    <2>1. lock.waiters # <<>>
        BY <1>3, TypeQueue DEF StartAcquired, Queued, In
    <2>2. /\ ~lock.locked /\ Head(lock.waiters) = c
          /\ Begin(c, Tail(lock.waiters))
        BY <1>3 DEF StartAcquired
    <2> QED
        BY <2>1, <2>2, TurnBegins
<1>4. ASSUME NEW c \in Caller, StartTimeout(c) PROVE [Turns!Next]_(Turns!vars)
    <2>1. UNCHANGED sessions
        BY <1>4 DEF StartTimeout
    <2> QED
        BY <1>1, <1>4, <2>1, TurnQueued DEF Turns!Next
<1> QED
    BY <1>2, <1>3, <1>4, TurnElsewhere

\* One utterance at a time, first come first served: the calls of start_siri()
\* implement UtteranceLock.
THEOREM TurnsAreKept == Spec => TurnsAreTaken
<1>1. Init => Turns!Init
    BY DEF Init, NoSession, Turns!Init, Speaking, Live
<1>2. TypeOK /\ AccessInv /\ AccessInv' /\ [Next]_vars => [Turns!Next]_(Turns!vars)
    BY TurnStep
<1> QED
    BY <1>1, <1>2, AccessInvariant, PTL DEF Spec, TurnsAreTaken, Turns!Spec
=============================================================================
