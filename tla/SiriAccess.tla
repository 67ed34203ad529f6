----------------------------- MODULE SiriAccess -----------------------------
(***************************************************************************)
(* Who may hold a Siri utterance (remote.py): start_siri() and its lock,   *)
(* the task that watches the session and gives the lock back, the registry *)
(* of stream ids, recover_hds(), stop() and start().                       *)
(*                                                                         *)
(* A step is what a task does between two awaits.  The session itself is   *)
(* SiriSession's subject: here it opens, gets a stream id and is closed.   *)
(* Each caller of start_siri() makes one call, and its session, when it    *)
(* gets one, goes by its name.  Which target is selected and activated is  *)
(* TargetControl's subject: start_siri() may refuse at any time.           *)
(***************************************************************************)
EXTENDS Naturals, Sequences

CONSTANTS
    Caller,      \* the calls of start_siri()
    StreamId,    \* the ids an Apple TV gives its streams
    Conn,        \* HDS connections, one after the other
    Recoverer,   \* the calls of recover_hds()
    LateOpen,    \* whether _open may resume after the task that watches it:
                 \* wait_for() takes another turn of the loop in Python 3.11
    None

ASSUME AccessAssumption ==
    /\ None \notin Caller \cup StreamId \cup Conn
    /\ LateOpen \in BOOLEAN

VARIABLES
    start_siri,             \* where each call of start_siri() is
    lock,                   \* _siri_lock: whether locked, and its waiters
    sessions,               \* the SiriSession of each call
    watch,                  \* _watch_siri_session of each session
    siri_sessions,          \* stream ids to sessions
    _active_siri_session,
    _siri_watch_task,       \* the session it watches
    hds_connection,         \* the connection of the target, open if any
    fresh,                  \* connections that have not been made yet
    _siri_advertised,
    recover_hds,            \* where each call of recover_hds() is
    started                 \* start() and stop()

calls == <<start_siri, lock>>
fields == <<siri_sessions, _active_siri_session, _siri_watch_task>>
service == <<_siri_advertised, recover_hds, started>>
link == <<hds_connection, fresh>>
vars == <<calls, sessions, watch, fields, link, service>>

\* open: the task of _open; `answered' means its request has been answered
\* with the id in stream, which _open has not stored yet; `done' without an id
\* means that it failed.
NoSession == [open |-> "none", closed |-> FALSE, conn |-> None, stream |-> None]

Live(s) == sessions[s].open # "none" /\ ~sessions[s].closed

-----------------------------------------------------------------------------
(* asyncio.Lock: release() wakes the first waiter, and nobody overtakes a  *)
(* waiter, so a lock that is free belongs to the first of its queue.       *)

\* The queue when waiter c has left it.
Without(queue, c) ==
    LET place == CHOOSE i \in DOMAIN queue : queue[i] = c
    IN  [i \in 1..Len(queue) - 1 |-> IF i < place THEN queue[i] ELSE queue[i + 1]]

Unlocked == [lock EXCEPT !.locked = FALSE]

\* start_siri() with the lock, from the checks to the return or the raise.
Begin(c, waiters) ==
    \/ /\ start_siri' = [start_siri EXCEPT ![c] = "refused"]
       /\ lock' = [locked |-> FALSE, waiters |-> waiters]
       /\ UNCHANGED <<sessions, watch, _active_siri_session, _siri_watch_task>>
    \/ /\ hds_connection # None /\ _siri_advertised
       /\ start_siri' = [start_siri EXCEPT ![c] = "started"]
       /\ lock' = [locked |-> TRUE, waiters |-> waiters]
       /\ sessions' = [sessions EXCEPT ![c] = [open |-> "pending", closed |-> FALSE,
                                               conn |-> hds_connection,
                                               stream |-> None]]
       /\ _active_siri_session' = c
       /\ _siri_watch_task' = c
       /\ watch' = [watch EXCEPT ![c] = "waiting"]

\* Mutant of StartCall: a lock that is free is taken, whoever waits for it.
StartCallAhead(c) ==
    /\ start_siri[c] = "idle"
    /\ IF ~lock.locked
       THEN Begin(c, lock.waiters)
       ELSE /\ start_siri' = [start_siri EXCEPT ![c] = "waiting"]
            /\ lock' = [lock EXCEPT !.waiters = Append(@, c)]
            /\ UNCHANGED <<sessions, watch, _active_siri_session, _siri_watch_task>>
    /\ UNCHANGED <<siri_sessions, link, service>>

StartCall(c) ==
    /\ start_siri[c] = "idle"
    /\ IF ~lock.locked /\ lock.waiters = <<>>
       THEN Begin(c, <<>>)
       ELSE /\ start_siri' = [start_siri EXCEPT ![c] = "waiting"]
            /\ lock' = [lock EXCEPT !.waiters = Append(@, c)]
            /\ UNCHANGED <<sessions, watch, _active_siri_session, _siri_watch_task>>
    /\ UNCHANGED <<siri_sessions, link, service>>

StartAcquired(c) ==
    /\ start_siri[c] = "waiting" /\ ~lock.locked /\ Head(lock.waiters) = c
    /\ Begin(c, Tail(lock.waiters))
    /\ UNCHANGED <<siri_sessions, link, service>>

\* Mutants of StartTimeout: the waiter stays in the queue; the except clause
\* that releases the lock covers its acquisition too.
StartTimeoutQueued(c) ==
    /\ start_siri[c] = "waiting"
    /\ start_siri' = [start_siri EXCEPT ![c] = "refused"]
    /\ UNCHANGED <<lock, sessions, watch, fields, link, service>>
StartTimeoutReleases(c) ==
    /\ start_siri[c] = "waiting"
    /\ start_siri' = [start_siri EXCEPT ![c] = "refused"]
    /\ lock' = [locked |-> FALSE, waiters |-> Without(lock.waiters, c)]
    /\ UNCHANGED <<sessions, watch, fields, link, service>>

\* "another Siri utterance is already in progress", or the caller is cancelled.
StartTimeout(c) ==
    /\ start_siri[c] = "waiting"
    /\ start_siri' = [start_siri EXCEPT ![c] = "refused"]
    /\ lock' = [lock EXCEPT !.waiters = Without(@, c)]
    /\ UNCHANGED <<sessions, watch, fields, link, service>>

-----------------------------------------------------------------------------
(* The session.                                                            *)

\* The Apple TV answers; it does not give out the id of a stream that it has
\* not seen the end of, on the same connection.
Answered(s, id) ==
    /\ sessions[s].open = "pending" /\ ~sessions[s].closed
    /\ \A r \in Caller : Live(r) => sessions[r].stream # id
    /\ sessions' = [sessions EXCEPT ![s].open = "answered", ![s].stream = id]
    /\ UNCHANGED <<calls, watch, fields, link, service>>

\* Mutant of Opened: an id that is taken is left to the session that has it.
OpenedTaken(s) ==
    /\ sessions[s].open = "answered"
    /\ sessions' = [sessions EXCEPT ![s].open = "done"]
    /\ LET id == sessions[s].stream
       IN  siri_sessions' = [siri_sessions EXCEPT ![id] = IF @ = None THEN s ELSE @]
    /\ UNCHANGED <<calls, watch, _active_siri_session, _siri_watch_task, link, service>>

\* _open resumes: _siri_session_opened registers the session, or raises.
Opened(s) ==
    /\ sessions[s].open = "answered"
    /\ LET id == sessions[s].stream
       IN  IF siri_sessions[id] \in {None, s}
           THEN /\ siri_sessions' = [siri_sessions EXCEPT ![id] = s]
                /\ sessions' = [sessions EXCEPT ![s].open = "done"]
           ELSE /\ sessions' = [sessions EXCEPT ![s].open = "done",
                                                ![s].closed = TRUE]
                /\ UNCHANGED siri_sessions
    /\ UNCHANGED <<calls, watch, _active_siri_session, _siri_watch_task, link, service>>

\* Mutant of OpenFailed: _open raises without _mark_done().
OpenFailedUnmarked(s) ==
    /\ sessions[s].open \in {"pending", "answered"}
    /\ sessions' = [sessions EXCEPT ![s].open = "done", ![s].stream = None]
    /\ UNCHANGED <<calls, watch, fields, link, service>>

\* dataSend/open is rejected, times out, or fails with the connection; an answer
\* that _open has not seen yet is lost when it times out or is cancelled.
OpenFailed(s) ==
    /\ sessions[s].open \in {"pending", "answered"}
    /\ sessions' = [sessions EXCEPT ![s].open = "done", ![s].closed = TRUE,
                                    ![s].stream = None]
    /\ UNCHANGED <<calls, watch, fields, link, service>>

\* finish() awaits the task of _open, and is cancelled before that has begun:
\* nobody marks the session as done but the cancel() that follows.
OpenAborted(s) ==
    /\ sessions[s].open = "pending"
    /\ sessions' = [sessions EXCEPT ![s].open = "done"]
    /\ UNCHANGED <<calls, watch, fields, link, service>>

\* Acknowledged, closed by the Apple TV, timed out or cancelled.
Ended(s) ==
    /\ sessions[s].open = "done" /\ ~sessions[s].closed
    /\ sessions' = [sessions EXCEPT ![s].closed = TRUE]
    /\ UNCHANGED <<calls, watch, fields, link, service>>

\* _watch_siri_session wakes: it takes the session out of the registry if it
\* is there under its stream id, and releases the lock if it is the active one.
Watched(s) ==
    /\ watch[s] = "waiting" /\ sessions[s].closed
    /\ LateOpen \/ sessions[s].open # "answered"
    /\ watch' = [watch EXCEPT ![s] = "done"]
    /\ siri_sessions' =
            IF sessions[s].open = "done" /\ sessions[s].stream # None
               /\ siri_sessions[sessions[s].stream] = s
            THEN [siri_sessions EXCEPT ![sessions[s].stream] = None]
            ELSE siri_sessions
    /\ IF _active_siri_session = s
       THEN _active_siri_session' = None /\ lock' = Unlocked
       ELSE UNCHANGED <<_active_siri_session, lock>>
    /\ _siri_watch_task' = IF _siri_watch_task = s THEN None ELSE _siri_watch_task
    /\ UNCHANGED <<start_siri, sessions, link, service>>

-----------------------------------------------------------------------------
(* The connection of the target, as it comes and goes.                     *)

\* The sessions of a closed connection end, and leave the registry.
Disconnected(conn) ==
    /\ hds_connection' = None
    /\ sessions' = [s \in Caller |->
            IF sessions[s].conn = conn
               /\ (s = _active_siri_session \/ \E id \in StreamId : siri_sessions[id] = s)
            THEN [sessions[s] EXCEPT !.closed = TRUE] ELSE sessions[s]]
    /\ siri_sessions' = [id \in StreamId |->
            IF siri_sessions[id] # None /\ sessions[siri_sessions[id]].conn = conn
            THEN None ELSE siri_sessions[id]]

ConnectionClosed ==
    /\ hds_connection # None
    /\ Disconnected(hds_connection)
    /\ UNCHANGED <<calls, watch, _active_siri_session, _siri_watch_task, fresh, service>>

\* The Apple TV is back on a new connection.  One that replaces an open one
\* closes that first: two steps here.
Whoami(conn) ==
    /\ started \in {"started", "cancelling"} /\ hds_connection = None
    /\ conn \in fresh
    /\ hds_connection' = conn
    /\ fresh' = fresh \ {conn}
    /\ UNCHANGED <<calls, sessions, watch, fields, service>>

-----------------------------------------------------------------------------
(* recover_hds: cancel the session, close everything, withdraw the Siri    *)
(* capability, sleep, and advertise it again.                              *)

CancelActive ==
    /\ _active_siri_session # None /\ Live(_active_siri_session)

RecoverCancel(r) ==
    /\ recover_hds[r] = "idle" /\ CancelActive
    /\ recover_hds' = [recover_hds EXCEPT ![r] = "cancelling"]
    /\ UNCHANGED <<calls, sessions, watch, fields, link, _siri_advertised, started>>

\* Mutant of Withdraw: only the registry of connections is cleared.
WithdrawOpen(r) ==
    /\ hds_connection' = None
    /\ UNCHANGED <<sessions, siri_sessions>>
    /\ _siri_advertised' = FALSE
    /\ recover_hds' = [recover_hds EXCEPT ![r] = "sleeping"]

Withdraw(r) ==
    /\ Disconnected(hds_connection)
    /\ _siri_advertised' = FALSE
    /\ recover_hds' = [recover_hds EXCEPT ![r] = "sleeping"]

\* cancel() has returned, perhaps without closing a session still opening.
RecoverWithdraw(r) ==
    /\ \/ recover_hds[r] = "idle" /\ ~CancelActive
       \/ recover_hds[r] = "cancelling"
    /\ Withdraw(r)
    /\ UNCHANGED <<calls, watch, _active_siri_session, _siri_watch_task, fresh, started>>

RecoverRestore(r) ==
    /\ recover_hds[r] = "sleeping"
    /\ _siri_advertised' = TRUE
    /\ recover_hds' = [recover_hds EXCEPT ![r] = "done"]
    /\ UNCHANGED <<calls, sessions, watch, fields, link, started>>

\* cancel() raises, or the timeout of POST /recover cancels the call.
RecoverAborted(r) ==
    /\ recover_hds[r] \in {"cancelling", "sleeping"}
    /\ recover_hds' = [recover_hds EXCEPT ![r] = "done"]
    /\ UNCHANGED <<calls, sessions, watch, fields, link, _siri_advertised, started>>

-----------------------------------------------------------------------------
(* stop(), and start() again.                                              *)

StopCancel ==
    /\ started = "started" /\ CancelActive
    /\ started' = "cancelling"
    /\ UNCHANGED <<calls, sessions, watch, fields, link, _siri_advertised, recover_hds>>

\* Mutant of StopClose: the server stops listening, connections stay.
StopCloseOpen ==
    /\ \/ started = "started" /\ ~CancelActive
       \/ started = "cancelling"
    /\ started' = "closing"
    /\ UNCHANGED <<calls, sessions, watch, fields, link, _siri_advertised, recover_hds>>

\* hds.stop() closes every connection; HDS and HAP take a while to stop.
StopClose ==
    /\ \/ started = "started" /\ ~CancelActive
       \/ started = "cancelling"
    /\ started' = "closing"
    /\ Disconnected(hds_connection)
    /\ UNCHANGED <<calls, watch, _active_siri_session, _siri_watch_task, fresh,
                   _siri_advertised, recover_hds>>

\* Mutant of StopFinal: the watching task is not awaited.
StopFinalAtOnce ==
    /\ started = "closing" /\ started' = "stopped"
    /\ _siri_watch_task' = None
    /\ _active_siri_session' = None
    /\ siri_sessions' = [id \in StreamId |-> None]
    /\ hds_connection' = None
    /\ UNCHANGED <<calls, sessions, watch, fresh, _siri_advertised, recover_hds>>

\* The watching task has been awaited: its session was closed by then, and the
\* 2.5 seconds allowed to it are for a task that is ready.
StopFinal ==
    /\ started = "closing"
    /\ _siri_watch_task # None => watch[_siri_watch_task] = "done"
    /\ started' = "stopped"
    /\ _siri_watch_task' = None
    /\ _active_siri_session' = None
    /\ siri_sessions' = [id \in StreamId |-> None]
    /\ hds_connection' = None
    /\ UNCHANGED <<calls, sessions, watch, fresh, _siri_advertised, recover_hds>>

\* Stopping the HAP driver raises, and stop() with it.
StopFailed ==
    /\ started = "closing" /\ started' = "stopped"
    /\ UNCHANGED <<calls, sessions, watch, fields, link, _siri_advertised, recover_hds>>

StartAgain ==
    /\ started = "stopped" /\ started' = "started"
    /\ UNCHANGED <<calls, sessions, watch, fields, link, _siri_advertised, recover_hds>>

-----------------------------------------------------------------------------

Init ==
    /\ start_siri = [c \in Caller |-> "idle"]
    /\ lock = [locked |-> FALSE, waiters |-> <<>>]
    /\ sessions = [c \in Caller |-> NoSession]
    /\ watch = [c \in Caller |-> "none"]
    /\ siri_sessions = [id \in StreamId |-> None]
    /\ _active_siri_session = None /\ _siri_watch_task = None
    /\ hds_connection = None /\ fresh = Conn
    /\ _siri_advertised = TRUE
    /\ recover_hds = [r \in Recoverer |-> "idle"]
    /\ started = "started"

SessionStep ==
    \E s \in Caller :
        \/ StartCall(s) \/ StartAcquired(s) \/ StartTimeout(s)
        \/ \E id \in StreamId : Answered(s, id)
        \/ Opened(s) \/ OpenFailed(s) \/ OpenAborted(s)
        \/ Ended(s) \/ Watched(s)

RecoverStep ==
    \E r \in Recoverer :
        RecoverCancel(r) \/ RecoverWithdraw(r) \/ RecoverRestore(r) \/ RecoverAborted(r)

StopStep == StopCancel \/ StopClose \/ StopFinal \/ StopFailed \/ StartAgain

Next ==
    \/ SessionStep \/ RecoverStep \/ StopStep
    \/ ConnectionClosed \/ \E conn \in Conn : Whoami(conn)

Spec == Init /\ [][Next]_vars

\* The event loop runs every task that is ready: a watching task whose session
\* is closed, an _open that has its answer, the first waiter of a free lock.
\* What the caller, the clock or the Apple TV does may never come.
Fairness ==
    \A s \in Caller :
        WF_vars(Watched(s)) /\ WF_vars(Opened(s)) /\ WF_vars(StartAcquired(s))

FairSpec == Spec /\ Fairness

-----------------------------------------------------------------------------
(* Properties                                                              *)

SessionType == [open: {"none", "pending", "answered", "done"}, closed: BOOLEAN,
                conn: Conn \cup {None}, stream: StreamId \cup {None}]

\* Every variable stays in its type, and the lock's queue is made of the calls
\* that wait for it, each once.
TypeOK ==
    /\ start_siri \in [Caller -> {"idle", "waiting", "started", "refused"}]
    /\ lock \in [locked: BOOLEAN, waiters: Seq(Caller)]
    /\ \A i, j \in DOMAIN lock.waiters : lock.waiters[i] = lock.waiters[j] => i = j
    /\ \A c \in Caller : start_siri[c] = "waiting"
            <=> \E i \in DOMAIN lock.waiters : lock.waiters[i] = c
    /\ sessions \in [Caller -> SessionType]
    /\ watch \in [Caller -> {"none", "waiting", "done"}]
    /\ siri_sessions \in [StreamId -> Caller \cup {None}]
    /\ {_active_siri_session, _siri_watch_task} \subseteq Caller \cup {None}
    /\ hds_connection \in Conn \cup {None}
    /\ fresh \subseteq Conn
    /\ _siri_advertised \in BOOLEAN
    /\ recover_hds \in [Recoverer -> {"idle", "cancelling", "sleeping", "done"}]
    /\ started \in {"started", "cancelling", "closing", "stopped"}

\* Two utterances are never in progress at once, whoever calls start_siri(),
\* gives up on it, or recovers and stops in between.
OneUtterance == \A r, s \in Caller : Live(r) /\ Live(s) => r = s

\* While the lock is locked there is a session whose watching task will
\* release it, and while there is none the lock is free: no call of
\* start_siri() is refused on account of an utterance that is over.
LockOwned ==
    /\ lock.locked <=> _active_siri_session # None
    /\ _active_siri_session # None => watch[_active_siri_session] = "waiting"

\* While the Siri capability is withdrawn no utterance is in progress: neither
\* one that was opening when recover_hds() gave up cancelling it, nor one that
\* started behind its back.
WithdrawnQuiet == ~_siri_advertised => \A s \in Caller : ~Live(s)

\* When stop() is through its closing part no utterance is in progress and no
\* connection is left, also for the calls of start_siri() that waited.
StoppedQuiet ==
    started \in {"closing", "stopped"}
        => hds_connection = None /\ \A s \in Caller : ~Live(s)

\* remote.py, start_siri: "Siri capability is temporarily disabled".  While it
\* is disabled, some recover_hds() is going to enable it again.  The code
\* breaks this: a call cancelled in its sleep, as POST /recover does after a
\* timeout of its own, leaves the capability withdrawn.
TemporarilyDisabled ==
    ~_siri_advertised => \E r \in Recoverer : recover_hds[r] = "sleeping"

\* While an utterance that has its stream is in progress, it is the one the
\* registry has under its id: acks and closes of the Apple TV reach it, also
\* after a session that was over has been registered late under the same id.
MessagesReach ==
    \A s \in Caller :
        Live(s) /\ sessions[s].open = "done" /\ sessions[s].stream # None
            => siri_sessions[sessions[s].stream] = s

\* A call of start_siri() that waits while no utterance is in progress goes on,
\* or another utterance begins: the lock of an utterance that is over reaches
\* a waiter, also past the waiters that gave up, and through recover and stop.
LockHandedOn ==
    \A c \in Caller :
        start_siri[c] = "waiting" /\ (\A s \in Caller : ~Live(s))
            ~> start_siri[c] # "waiting" \/ \E s \in Caller : Live(s)

=============================================================================
