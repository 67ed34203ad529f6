---------------------------- MODULE SiriSession ----------------------------
(***************************************************************************)
(* One Siri utterance (audio.py, class SiriSession) on one HomeKit Data    *)
(* Stream connection (hds.py, class HDSConnection).                        *)
(*                                                                         *)
(* The code runs as asyncio tasks on one thread.  A task runs without      *)
(* interruption until it awaits something that is not ready, so `running'  *)
(* names the task that holds the event loop: its next step excludes every  *)
(* other one, and a step that suspends sets `running' to Idle.             *)
(*   "open"      the task of SiriSession._open                             *)
(*   "user"      the task in send_pcm: write*, finish, cancel on any error *)
(*   "reader"    the task of HDSConnection._run                            *)
(*   Cancellers  tasks made by _schedule_session_cancel, stop, recover_hds *)
(*                                                                         *)
(* Audio is counted in units, FrameUnits to an Opus frame.                 *)
(***************************************************************************)
EXTENDS Integers, Sequences, SequencesExt

CONSTANTS
    Cancellers,      \* the tasks that call session.cancel()
    FrameUnits,      \* FRAME_BYTES, in units
    FramesPerEvent,  \* FRAMES_PER_HDS_EVENT
    ChunkSizes,      \* the sizes a caller may hand to write()
    MaxUnits,        \* bound: no write() starts with this much audio written
    Backpressure,    \* whether StreamWriter.drain() may suspend
    Aborts,          \* whether calls may be cancelled (HTTP timeouts): the
                     \* user's task, and those that await session.cancel()
    Losses,          \* whether the TCP connection may be lost or closed
    Idle             \* nobody is running

Task == {"open", "user", "reader"} \cup Cancellers

ASSUME TaskAssumption ==
    /\ Cancellers \cap {"open", "user", "reader"} = {}
    /\ Idle \notin Task

ASSUME AudioAssumption ==
    /\ FrameUnits \in Nat \ {0}
    /\ FramesPerEvent \in Nat \ {0}
    /\ ChunkSizes \subseteq Nat \ {0}
    /\ MaxUnits \in Nat

ASSUME SwitchAssumption == {Backpressure, Aborts, Losses} \subseteq BOOLEAN

VARIABLES
    pc,        \* where each task is
    call,      \* the message each task is sending
    running,   \* the task that holds the event loop, or Idle
    lock,      \* asyncio.Lock queues: _io_lock and _send_lock, holder first
    session,   \* the fields of SiriSession
    conn,      \* the connection, and the future of dataSend/open
    inbox,     \* messages from the Apple TV not yet read
    wire,      \* every message written to the Apple TV, in order
    tv         \* what the Apple TV has done with the stream

vars == <<pc, call, running, lock, session, conn, inbox, wire, tv>>

Location ==
    {"begin", "send", "drain", "sent", "failed", "await", "openlock", "flush",
     "cancelled", "ended", "raised", "idle", "writelock", "endlock", "join",
     "eoslock", "waitdone", "returned", "cancel", "ready", "openwait", "done",
     "unsent", "stopped"}

Reason == {"NORMAL", "CANCELLED", "TIMEOUT"}

OpenMessage == [type |-> "open"]
DataMessage(audio, sequence, count, eos) ==
    [type |-> "data", audio |-> audio, sequence |-> sequence, count |-> count,
     eos |-> eos]
CloseMessage(reason) == [type |-> "close", reason |-> reason]

Message ==
    {OpenMessage}
    \cup [type: {"data"}, audio: Int, sequence: Int, count: Int, eos: BOOLEAN]
    \cup [type: {"close"}, reason: Reason]

Answer == {"accept", "reject", "ack", "close", "fail"}

OpenDone == pc["open"] \in {"ended", "raised"}

-----------------------------------------------------------------------------
(* Scheduling: run-to-suspension, and first-come-first-served locks.       *)

Runs(t) == running \in {Idle, t}

Continue(t, l) == pc' = [pc EXCEPT ![t] = l] /\ running' = t

Suspend(t, l) == pc' = [pc EXCEPT ![t] = l] /\ running' = Idle

Leave(queue, t) ==
    IF \E i \in 1 .. Len(queue) : queue[i] = t
    THEN RemoveAt(queue, CHOOSE i \in 1 .. Len(queue) : queue[i] = t)
    ELSE queue

Holds(t, l) == lock[l] # <<>> /\ Head(lock[l]) = t

\* Queue for a lock; only a task that finds it free goes on running.
Acquire(t, l, at) ==
    /\ lock' = [lock EXCEPT ![l] = Append(@, t)]
    /\ IF lock[l] = <<>> THEN Continue(t, at) ELSE Suspend(t, at)

Release(t, l) == lock' = [lock EXCEPT ![l] = Leave(@, t)]

\* Mutant of ReleaseAll: the send lock is not given back by a cancelled send.
ReleaseIo(t) == Release(t, "io")

ReleaseAll(t) == lock' = [l \in {"io", "send"} |-> Leave(lock[l], t)]

-----------------------------------------------------------------------------
(* HDSConnection._send: encrypt and write under the send lock, then drain. *)

Send(t, message) ==
    /\ call' = [call EXCEPT ![t] = message]
    /\ Acquire(t, "send", "send")

\* Mutant of Transmit: the send lock is given up before the drain.
TransmitUnlocked(t) ==
    /\ pc[t] = "send" /\ Holds(t, "send") /\ Runs(t)
    /\ Release(t, "send")
    /\ IF conn.state = "closed" THEN Continue(t, "failed") ELSE Suspend(t, "drain")
    /\ wire' = IF conn.state = "up" THEN Append(wire, call[t]) ELSE wire
    /\ UNCHANGED <<call, session, conn, inbox, tv>>

Transmit(t) ==
    /\ pc[t] = "send" /\ Holds(t, "send") /\ Runs(t)
    /\ \/ /\ conn.state = "closed"
          /\ Release(t, "send") /\ Continue(t, "failed")
          /\ UNCHANGED wire
       \/ /\ conn.state = "up"
          /\ wire' = Append(wire, call[t])
          /\ \/ Release(t, "send") /\ Continue(t, "sent")
             \/ Backpressure /\ Suspend(t, "drain") /\ UNCHANGED lock
       \/ /\ conn.state = "lost"
          /\ Suspend(t, "drain")
          /\ UNCHANGED <<lock, wire>>
    /\ UNCHANGED <<call, session, conn, inbox, tv>>

Drained(t) ==
    /\ pc[t] = "drain" /\ Runs(t)
    /\ \/ conn.state # "lost" /\ Continue(t, "sent")
       \/ conn.state # "up" /\ Continue(t, "failed")
    /\ Release(t, "send")
    /\ UNCHANGED <<call, session, conn, inbox, wire, tv>>

-----------------------------------------------------------------------------
(* SiriSession._send_close followed by _mark_done, at its four call sites. *)

MarkDone(s) == [s EXCEPT !.closed = TRUE]

Fail(s) == [s EXCEPT !.closed = TRUE, !.failed = TRUE]

\* Mutant of NeedsClose: a session that is ending needs no close.
NeedsCloseUnlessEnding(s) ==
    s.opened /\ ~s.closeSent /\ ~s.ending /\ conn.state # "closed"

NeedsClose(s) == s.opened /\ ~s.closeSent /\ conn.state # "closed"

AfterClose(t) ==
    CASE t = "open"   -> "ended"
      [] t = "reader" -> "idle"
      [] t = "user"   -> "cancel"
      [] OTHER        -> "done"

SendClose(t, reason, s) ==
    IF NeedsClose(s)
    THEN /\ session' = s
         /\ Send(t, CloseMessage(reason))
    ELSE /\ session' = IF reason = "TIMEOUT" THEN Fail(s) ELSE MarkDone(s)
         /\ Suspend(t, AfterClose(t))
         /\ UNCHANGED <<call, lock>>

CloseSent(t) ==
    /\ pc[t] = "sent" /\ call[t].type = "close" /\ Runs(t)
    /\ LET s == [session EXCEPT !.closeSent = TRUE]
       IN  session' = IF call[t].reason = "TIMEOUT" THEN Fail(s) ELSE MarkDone(s)
    /\ Suspend(t, AfterClose(t))
    /\ UNCHANGED <<call, lock, conn, inbox, wire, tv>>

-----------------------------------------------------------------------------
(* SiriSession._flush_locked, called with the io lock held.                *)

AfterFlush(t, force) ==
    IF t = "open" THEN "ended" ELSE IF force THEN "waitdone" ELSE "idle"

\* The conditions tested on entry, and never again while the flush suspends.
EnterFlush(t, force, s) ==
    IF ~s.opened \/ s.closed \/ (force /\ s.eosSent)
    THEN /\ session' = s
         /\ Release(t, "io") /\ Suspend(t, AfterFlush(t, force))
    ELSE /\ session' = [s EXCEPT !.force = force]
         /\ Continue(t, "flush") /\ UNCHANGED lock

\* Mutants of FlushEvent: the event, not the frame, is numbered; a full event
\* is taken off a shorter list.
FlushEventNumbered(t) ==
    /\ pc[t] = "flush" /\ Runs(t)
    /\ session.frames >= FramesPerEvent \/ (session.force /\ session.frames > 0)
    /\ LET count == IF session.frames < FramesPerEvent
                    THEN session.frames ELSE FramesPerEvent
       IN  /\ session' = [session EXCEPT !.frames = @ - count, !.sequence = @ + 1]
           /\ Send(t, DataMessage(session.encoded - session.frames, session.sequence,
                                  count, session.force /\ session.frames = count))
    /\ UNCHANGED <<conn, inbox, wire, tv>>
FlushEventFull(t) ==
    /\ pc[t] = "flush" /\ Runs(t)
    /\ session.frames >= FramesPerEvent \/ (session.force /\ session.frames > 0)
    /\ session' = [session EXCEPT !.frames = @ - FramesPerEvent,
                                  !.sequence = @ + FramesPerEvent]
    /\ Send(t, DataMessage(session.encoded - session.frames, session.sequence,
                           FramesPerEvent, session.force))
    /\ UNCHANGED <<conn, inbox, wire, tv>>

\* Take up to FramesPerEvent frames off the list, number them and send them.
FlushEvent(t) ==
    /\ pc[t] = "flush" /\ Runs(t)
    /\ session.frames >= FramesPerEvent \/ (session.force /\ session.frames > 0)
    /\ LET count == IF session.frames < FramesPerEvent
                    THEN session.frames ELSE FramesPerEvent
           eos == session.force /\ session.frames = count
       IN  /\ session' = [session EXCEPT !.frames = @ - count,
                                         !.sequence = @ + count]
           /\ Send(t, DataMessage(session.encoded - session.frames,
                                  session.sequence, count, eos))
    /\ UNCHANGED <<conn, inbox, wire, tv>>

\* The empty end-of-stream event.
FlushEos(t) ==
    /\ pc[t] = "flush" /\ Runs(t)
    /\ session.force /\ session.frames = 0 /\ ~session.eosSent
    /\ Send(t, DataMessage(session.encoded, session.sequence, 0, TRUE))
    /\ UNCHANGED <<session, conn, inbox, wire, tv>>

FlushEnd(t) ==
    /\ pc[t] = "flush" /\ Runs(t)
    /\ session.frames < FramesPerEvent
    /\ session.force => session.frames = 0 /\ session.eosSent
    /\ Release(t, "io") /\ Suspend(t, AfterFlush(t, session.force))
    /\ UNCHANGED <<call, session, conn, inbox, wire, tv>>

\* Mutant of FlushSent: the io lock is held for one event, not for the flush.
FlushSentUnlocked(t) ==
    /\ pc[t] = "sent" /\ call[t].type = "data" /\ Runs(t)
    /\ Release(t, "io")
    /\ session' = [session EXCEPT !.eosSent = @ \/ call[t].eos]
    /\ IF call[t].eos THEN Suspend(t, AfterFlush(t, session.force))
       ELSE Continue(t, "flush")
    /\ UNCHANGED <<call, conn, inbox, wire, tv>>

FlushSent(t) ==
    /\ pc[t] = "sent" /\ call[t].type = "data" /\ Runs(t)
    /\ IF call[t].eos
       THEN /\ session' = [session EXCEPT !.eosSent = TRUE]
            /\ Release(t, "io") /\ Suspend(t, AfterFlush(t, session.force))
       ELSE /\ Continue(t, "flush")
            /\ UNCHANGED <<session, lock>>
    /\ UNCHANGED <<call, conn, inbox, wire, tv>>

\* A send raised: the exception travels to the top of the task.
SendFailed(t) ==
    /\ pc[t] = "failed" /\ Runs(t)
    /\ Release(t, "io")
    /\ \/ /\ t = "open"
          /\ session' = Fail(session)
          /\ Suspend(t, "raised") /\ UNCHANGED conn
       \/ /\ t = "user" /\ call[t].type = "data"
          /\ Suspend(t, "cancel") /\ UNCHANGED <<session, conn>>
       \/ /\ t \in Cancellers \cup {"user"} /\ call[t].type = "close"
          /\ session' = IF call[t].reason = "TIMEOUT" THEN Fail(session)
                        ELSE MarkDone(session)
          /\ Suspend(t, AfterClose(t)) /\ UNCHANGED conn
       \/ /\ t = "reader"
          /\ session' = Fail(session)
          /\ conn' = [state |-> "closed",
                      future |-> IF conn.future = "pending" THEN "fail"
                                 ELSE conn.future]
          /\ Suspend(t, "stopped")
    /\ UNCHANGED <<call, inbox, wire, tv>>

-----------------------------------------------------------------------------
(* SiriSession._open and HDSConnection.send_request.                       *)

OpenBegin ==
    /\ pc["open"] = "begin" /\ Runs("open")
    /\ conn' = [conn EXCEPT !.future = "pending"]
    /\ Send("open", OpenMessage)
    /\ UNCHANGED <<session, inbox, wire, tv>>

OpenSent ==
    /\ pc["open"] = "sent" /\ call["open"].type = "open" /\ Runs("open")
    /\ pc' = [pc EXCEPT !["open"] = "await"]
    /\ running' = IF conn.future = "pending" THEN Idle ELSE "open"
    /\ UNCHANGED <<call, lock, session, conn, inbox, wire, tv>>

\* Mutant of OpenAccepted: the reason of an earlier cancel() is not looked at.
OpenAcceptedRegardless ==
    /\ pc["open"] = "await" /\ conn.future = "accept" /\ Runs("open")
    /\ conn' = [conn EXCEPT !.future = "none"]
    /\ session' = [session EXCEPT !.opened = TRUE, !.registered = TRUE]
    /\ Acquire("open", "io", "openlock")
    /\ UNCHANGED <<call, inbox, wire, tv>>

\* The stream id is stored and the session registered only here, when _open
\* resumes, not when the response is read.
OpenAccepted ==
    /\ pc["open"] = "await" /\ conn.future = "accept" /\ Runs("open")
    /\ conn' = [conn EXCEPT !.future = "none"]
    /\ LET s == [session EXCEPT !.opened = TRUE, !.registered = TRUE]
       IN  IF session.cancelled
           THEN SendClose("open", "CANCELLED", s)
           ELSE /\ session' = s
                /\ Acquire("open", "io", "openlock")
                /\ UNCHANGED call
    /\ UNCHANGED <<inbox, wire, tv>>

\* The stream id is stored, and then refused: it is negative, or on_open raises
\* because another session is registered under it.  No close is sent.
OpenUnregistered ==
    /\ pc["open"] = "await" /\ conn.future = "accept" /\ Runs("open")
    /\ conn' = [conn EXCEPT !.future = "none"]
    /\ session' = Fail([session EXCEPT !.opened = TRUE])
    /\ Suspend("open", "raised")
    /\ UNCHANGED <<call, lock, inbox, wire, tv>>

OpenRefused ==
    /\ pc["open"] = "await" /\ conn.future \in {"reject", "fail"} /\ Runs("open")
    /\ conn' = [conn EXCEPT !.future = "none"]
    /\ session' = Fail(session)
    /\ Suspend("open", "raised")
    /\ UNCHANGED <<call, lock, inbox, wire, tv>>

OpenTimeout ==
    /\ pc["open"] = "await" /\ Runs("open")
    /\ conn' = [conn EXCEPT !.future = "none"]
    /\ session' = Fail(session)
    /\ Suspend("open", "raised")
    /\ UNCHANGED <<call, lock, inbox, wire, tv>>

OpenFlush ==
    /\ pc["open"] = "openlock" /\ Holds("open", "io") /\ Runs("open")
    /\ EnterFlush("open", session.ending, session)
    /\ UNCHANGED <<call, conn, inbox, wire, tv>>

\* CancelledError, thrown into _open by a task that was awaiting it.
OpenCancelled ==
    /\ pc["open"] = "cancelled" /\ Runs("open")
    /\ ReleaseAll("open")
    /\ conn' = [conn EXCEPT !.future = "none"]
    /\ session' = Fail(session)
    /\ Suspend("open", "raised")
    /\ UNCHANGED <<call, inbox, wire, tv>>

-----------------------------------------------------------------------------
(* SiriSession.write and finish, as send_pcm calls them.                   *)

WriteCall ==
    /\ pc["user"] = "idle" /\ Runs("user") /\ session.written < MaxUnits
    /\ Acquire("user", "io", "writelock")
    /\ UNCHANGED <<call, session, conn, inbox, wire, tv>>

Framed(s, n) ==
    [s EXCEPT !.written = @ + n,
              !.pcm     = (s.pcm + n) % FrameUnits,
              !.frames  = @ + (s.pcm + n) \div FrameUnits,
              !.encoded = @ + (s.pcm + n) \div FrameUnits]

WriteBody ==
    /\ pc["user"] = "writelock" /\ Holds("user", "io") /\ Runs("user")
    /\ \/ /\ session.ending \/ session.closed
          /\ Release("user", "io") /\ Suspend("user", "cancel")
          /\ UNCHANGED session
       \/ /\ ~session.ending /\ ~session.closed
          /\ \E n \in ChunkSizes : EnterFlush("user", FALSE, Framed(session, n))
    /\ UNCHANGED <<call, conn, inbox, wire, tv>>

\* How finish ends when the session is done: return, or raise its error.
Conclude ==
    /\ Suspend("user", IF session.failed THEN "cancel" ELSE "returned")
    /\ UNCHANGED lock

FinishCall ==
    /\ pc["user"] = "idle" /\ Runs("user")
    /\ IF session.closed THEN Conclude ELSE Acquire("user", "io", "endlock")
    /\ UNCHANGED <<call, session, conn, inbox, wire, tv>>

\* Mutant of Padded: the partial frame is dropped.
PaddedNot(s) == [s EXCEPT !.pcm = 0]

Padded(s) ==
    IF s.ending \/ s.pcm = 0 THEN s
    ELSE [s EXCEPT !.pcm = 0, !.frames = @ + 1, !.encoded = @ + 1]

FinishEnding ==
    /\ pc["user"] = "endlock" /\ Holds("user", "io") /\ Runs("user")
    /\ session' = [Padded(session) EXCEPT !.ending = TRUE]
    /\ Release("user", "io")
    /\ pc' = [pc EXCEPT !["user"] = "join"]
    /\ running' = IF OpenDone THEN "user" ELSE Idle
    /\ UNCHANGED <<call, conn, inbox, wire, tv>>

FinishJoin ==
    /\ pc["user"] = "join" /\ OpenDone /\ Runs("user")
    /\ CASE pc["open"] = "raised" -> Suspend("user", "cancel") /\ UNCHANGED lock
         [] pc["open"] # "raised" /\ session.closed -> Conclude
         [] OTHER -> Acquire("user", "io", "eoslock")
    /\ UNCHANGED <<call, session, conn, inbox, wire, tv>>

FinishEos ==
    /\ pc["user"] = "eoslock" /\ Holds("user", "io") /\ Runs("user")
    /\ EnterFlush("user", TRUE, session)
    /\ UNCHANGED <<call, conn, inbox, wire, tv>>

FinishReturn ==
    /\ pc["user"] = "waitdone" /\ session.closed /\ Runs("user")
    /\ Conclude
    /\ UNCHANGED <<call, session, conn, inbox, wire, tv>>

\* Mutant of FinishTimeout: finish waits without a timeout.
FinishTimeoutNever == FALSE /\ UNCHANGED vars

FinishTimeout ==
    /\ pc["user"] = "waitdone" /\ ~session.closed /\ Runs("user")
    /\ SendClose("user", "TIMEOUT", session)
    /\ UNCHANGED <<conn, inbox, wire, tv>>

\* The user's task is cancelled at an await.  A task awaiting _open cancels
\* _open with it; the cancel of send_pcm's handler is shielded.
UserAbort ==
    /\ Aborts /\ running = Idle
    /\ \/ /\ pc["user"] \in {"idle", "writelock", "endlock", "eoslock",
                             "send", "drain", "waitdone"}
          /\ LET closing == pc["user"] \in {"send", "drain"}
                            /\ call["user"].type = "close"
             IN  /\ closing => call["user"].reason = "TIMEOUT"
                 /\ session' = IF closing THEN Fail(session) ELSE session
          /\ ReleaseAll("user")
          /\ pc' = [pc EXCEPT !["user"] = "cancel"]
       \/ /\ pc["user"] = "join" /\ ~OpenDone
          /\ pc' = [pc EXCEPT !["open"] = IF @ = "begin" THEN "raised"
                                          ELSE "cancelled"]
          /\ UNCHANGED <<lock, session>>
    /\ UNCHANGED <<call, running, conn, inbox, wire, tv>>

-----------------------------------------------------------------------------
(* SiriSession.cancel, by its callers and by send_pcm after an error.      *)

\* Mutant of CancelCall: _open is not waited for.
CancelCallAtOnce(t) ==
    /\ pc[t] = IF t = "user" THEN "cancel" ELSE "ready"
    /\ Runs(t)
    /\ IF session.closed
       THEN Suspend(t, "done") /\ UNCHANGED <<call, lock, session>>
       ELSE SendClose(t, "CANCELLED",
                      [session EXCEPT !.ending = TRUE, !.cancelled = TRUE])
    /\ UNCHANGED <<conn, inbox, wire, tv>>

CancelCall(t) ==
    /\ pc[t] = IF t = "user" THEN "cancel" ELSE "ready"
    /\ Runs(t)
    /\ LET s == [session EXCEPT !.ending = TRUE, !.cancelled = TRUE]
       IN  \/ /\ session.closed
              /\ Suspend(t, "done")
              /\ UNCHANGED <<call, lock, session>>
           \/ /\ ~session.closed /\ ~OpenDone /\ ~session.opened
              /\ session' = s
              /\ Suspend(t, "openwait")
              /\ UNCHANGED <<call, lock>>
           \/ /\ ~session.closed /\ (OpenDone \/ session.opened)
              /\ SendClose(t, "CANCELLED", s)
    /\ UNCHANGED <<conn, inbox, wire, tv>>

CancelJoin(t) ==
    /\ pc[t] = "openwait" /\ OpenDone /\ Runs(t)
    /\ IF pc["open"] = "ended"
       THEN SendClose(t, "CANCELLED", session)
       ELSE Suspend(t, "done") /\ UNCHANGED <<call, lock, session>>
    /\ UNCHANGED <<conn, inbox, wire, tv>>

\* open_wait_timeout has passed, or the caller is cancelled: both return.
CancelGiveUp(t) ==
    /\ pc[t] = "openwait" /\ Runs(t)
    /\ Suspend(t, "done")
    /\ UNCHANGED <<call, lock, session, conn, inbox, wire, tv>>

\* A caller of cancel() is cancelled while it sends: a close that was still
\* waiting for the send lock is never written, and the session is done.
CancelAbort(t) ==
    /\ Aborts /\ running = Idle
    /\ pc[t] \in {"send", "drain"}
    /\ session' = MarkDone(session)
    /\ ReleaseAll(t)
    /\ pc' = [pc EXCEPT ![t] = IF @ = "send" THEN "unsent" ELSE "done"]
    /\ UNCHANGED <<call, running, conn, inbox, wire, tv>>

-----------------------------------------------------------------------------
(* HDSConnection._run and _dispatch, with the session's handlers.          *)

Reads == pc["reader"] = "idle" /\ conn.state # "closed" /\ Runs("reader")

ReaderResponse ==
    /\ Reads /\ inbox # <<>> /\ Head(inbox) \in {"accept", "reject"}
    /\ conn' = [conn EXCEPT !.future = IF @ = "pending" THEN Head(inbox) ELSE @]
    /\ inbox' = Tail(inbox)
    /\ Suspend("reader", "idle")
    /\ UNCHANGED <<call, lock, session, wire, tv>>

ReaderAck ==
    /\ Reads /\ inbox # <<>> /\ Head(inbox) = "ack"
    /\ inbox' = Tail(inbox)
    /\ IF session.registered /\ session.opened /\ ~session.closed
       THEN SendClose("reader", "NORMAL", session)
       ELSE Suspend("reader", "idle") /\ UNCHANGED <<call, lock, session>>
    /\ UNCHANGED <<conn, wire, tv>>

ReaderClose ==
    /\ Reads /\ inbox # <<>> /\ Head(inbox) \in {"close", "fail"}
    /\ session' = IF ~session.registered \/ session.closed THEN session
                  ELSE IF Head(inbox) = "close" THEN MarkDone(session)
                  ELSE Fail(session)
    /\ inbox' = Tail(inbox)
    /\ Suspend("reader", "idle")
    /\ UNCHANGED <<call, lock, conn, wire, tv>>

\* HDSConnection.close(), by the reader at end of file or by another task,
\* with _hds_connection_closed.
ConnClose ==
    /\ Losses /\ running = Idle /\ conn.state # "closed"
    /\ conn' = [state |-> "closed",
                future |-> IF conn.future = "pending" THEN "fail" ELSE conn.future]
    /\ session' = IF session.closed THEN session ELSE Fail(session)
    /\ pc' = [pc EXCEPT !["reader"] = IF @ = "idle" THEN "stopped" ELSE @]
    /\ UNCHANGED <<call, running, lock, inbox, wire, tv>>

\* The transport fails before the reader has noticed.
ConnLost ==
    /\ Losses /\ running = Idle /\ conn.state = "up"
    /\ conn' = [conn EXCEPT !.state = "lost"]
    /\ UNCHANGED <<pc, call, running, lock, session, inbox, wire, tv>>

-----------------------------------------------------------------------------
(* The Apple TV: it answers an open, acknowledges an end of stream, and    *)
(* may close a stream it has accepted.                                     *)

Written(type) == \E i \in DOMAIN wire : wire[i].type = type

EosWritten == \E i \in DOMAIN wire : wire[i].type = "data" /\ wire[i].eos

TvStep(from, to, answer) ==
    /\ conn.state = "up" /\ running = Idle
    /\ tv \in from /\ tv' = to
    /\ inbox' = Append(inbox, answer)
    /\ UNCHANGED <<pc, call, running, lock, session, conn, wire>>

TvAnswer ==
    /\ Written("open")
    /\ \/ TvStep({"none"}, "open", "accept")
       \/ TvStep({"none"}, "rejected", "reject")

TvAck == EosWritten /\ TvStep({"open"}, "acked", "ack")

TvClose == \E answer \in {"close", "fail"} :
               TvStep({"open", "acked"}, "closed", answer)

-----------------------------------------------------------------------------

Terminated ==
    /\ pc["user"] \in {"done", "returned"} /\ OpenDone
    /\ \A t \in Cancellers : pc[t] \in {"done", "unsent"}
    /\ pc["reader"] \in {"idle", "stopped"}
    /\ UNCHANGED vars

Init ==
    /\ pc = [t \in Task |-> CASE t = "open"   -> "begin"
                              [] t = "user"   -> "idle"
                              [] t = "reader" -> "idle"
                              [] OTHER        -> "ready"]
    /\ call = [t \in Task |-> OpenMessage]
    /\ running = Idle
    /\ lock = [l \in {"io", "send"} |-> <<>>]
    /\ session = [opened |-> FALSE, registered |-> FALSE, sequence |-> 0,
                  pcm |-> 0, frames |-> 0,
                  ending |-> FALSE, closed |-> FALSE, failed |-> FALSE,
                  eosSent |-> FALSE, closeSent |-> FALSE, cancelled |-> FALSE,
                  force |-> FALSE, written |-> 0, encoded |-> 0]
    /\ conn = [state |-> "up", future |-> "none"]
    /\ inbox = <<>>
    /\ wire = <<>>
    /\ tv = "none"

Sends(t) == Transmit(t) \/ Drained(t) \/ CloseSent(t) \/ SendFailed(t)

Flushes(t) == FlushEvent(t) \/ FlushEos(t) \/ FlushEnd(t) \/ FlushSent(t)

Opens ==
    \/ OpenBegin \/ OpenSent \/ OpenAccepted \/ OpenUnregistered
    \/ OpenRefused \/ OpenTimeout \/ OpenFlush \/ OpenCancelled

Writes == WriteCall \/ WriteBody

Finishes ==
    \/ FinishCall \/ FinishEnding \/ FinishJoin \/ FinishEos
    \/ FinishReturn \/ FinishTimeout

Cancels(t) == CancelCall(t) \/ CancelJoin(t) \/ CancelGiveUp(t)

ReaderSteps == ReaderResponse \/ ReaderAck \/ ReaderClose

Next ==
    \/ \E t \in Task : Sends(t)
    \/ \E t \in {"open", "user"} : Flushes(t)
    \/ Opens \/ Writes \/ Finishes
    \/ \E t \in Cancellers \cup {"user"} : Cancels(t)
    \/ ReaderSteps
    \/ UserAbort \/ \E t \in Cancellers : CancelAbort(t)
    \/ ConnClose \/ ConnLost
    \/ TvAnswer \/ TvAck \/ TvClose
    \/ Terminated

Spec == Init /\ [][Next]_vars

TaskStep(t) ==
    \/ Sends(t)
    \/ t = "open"   /\ (Flushes(t) \/ Opens)
    \/ t = "user"   /\ (Flushes(t) \/ Writes \/ Finishes \/ Cancels(t))
    \/ t = "reader" /\ ReaderSteps
    \/ t \in Cancellers /\ (CancelJoin(t) \/ CancelGiveUp(t))

\* The event loop never forgets a task that is ready, nor a timer that is due.
\* Nothing is assumed of the Apple TV, or that anybody calls cancel().
Fairness == \A t \in Task : WF_vars(TaskStep(t))

FairSpec == Spec /\ Fairness

-----------------------------------------------------------------------------
(* Properties                                                              *)

Session ==
    [opened: BOOLEAN, registered: BOOLEAN, sequence: Nat,
     pcm: 0 .. FrameUnits - 1, frames: Nat, ending: BOOLEAN, closed: BOOLEAN,
     failed: BOOLEAN, eosSent: BOOLEAN, closeSent: BOOLEAN, cancelled: BOOLEAN,
     force: BOOLEAN, written: Nat, encoded: Nat]

\* Every variable stays in its type.
TypeOK ==
    /\ pc \in [Task -> Location]
    /\ call \in [Task -> Message]
    /\ running \in Task \cup {Idle}
    /\ lock \in [{"io", "send"} -> Seq(Task)]
    /\ session \in Session
    /\ conn \in [state: {"up", "lost", "closed"},
                 future: {"none", "pending", "accept", "reject", "fail"}]
    /\ inbox \in Seq(Answer)
    /\ wire \in Seq(Message)
    /\ tv \in {"none", "open", "rejected", "acked", "closed"}

InFlush(t) ==
    \/ pc[t] = "flush"
    \/ pc[t] \in {"send", "drain", "sent", "failed"} /\ call[t].type = "data"

InTransmission(t) == pc[t] = "drain"

\* However the tasks interleave, at most one of them is between the entry and
\* the return of _flush_locked, and it holds the io lock: the frames taken off
\* the list and their sequence numbers are never split between two flushes.
FlushExclusive == \A t \in Task : InFlush(t) => Holds(t, "io")

\* At most one frame is being drained, by the holder of the send lock: the
\* frame written is the one the nonce counter was advanced for.
SendExclusive == \A t \in Task : InTransmission(t) => Holds(t, "send")

WaitingForLock == {"openlock", "writelock", "endlock", "eoslock"}

\* No lock is leaked, however a task ends, and no two tasks wait for each
\* other: who is in the queue of the io lock waits for it or holds it in a
\* flush, who is in the queue of the send lock is sending, unless _open is
\* about to end with CancelledError.
LocksGivenBack ==
    /\ \A t \in ToSet(lock["io"]) :
           pc[t] \in WaitingForLock \cup {"cancelled"} \/ InFlush(t)
    /\ \A t \in ToSet(lock["send"]) : pc[t] \in {"send", "drain", "cancelled"}

DataBefore(n) == {i \in 1 .. n : wire[i].type = "data"}

FirstClose == {i \in DOMAIN wire : wire[i].type = "close"
                                   /\ \A j \in 1 .. i - 1 : wire[j].type # "close"}

\* Until the first dataSend/close is written, the packets on the wire are the
\* frames of the utterance in order, each under its own sequence number, with
\* none skipped or repeated, and nothing follows the end of stream.
DataOrdered ==
    \A i \in DOMAIN wire :
        (wire[i].type = "data" /\ \A j \in 1 .. i : wire[j].type # "close") =>
            /\ wire[i].audio = wire[i].sequence
            /\ LET earlier == DataBefore(i - 1)
                   last == CHOOSE j \in earlier : \A k \in earlier : k <= j
               IN  IF earlier = {} THEN wire[i].sequence = 0
                   ELSE /\ wire[i].sequence = wire[last].sequence + wire[last].count
                        /\ ~wire[last].eos

\* An end of stream written before any close covers all the audio a caller
\* has written, the last partial frame padded: whichever of _open and finish
\* sends it, and however the caller's chunks were cut.  It may be short only
\* when a cancel() was itself cancelled with its close still unwritten.
EosComplete ==
    \A i \in DOMAIN wire :
        (/\ wire[i].type = "data" /\ wire[i].eos
         /\ \A j \in 1 .. i : wire[j].type # "close"
         /\ \A t \in Cancellers : pc[t] # "unsent") =>
            /\ (wire[i].sequence + wire[i].count) * FrameUnits >= session.written
            /\ session.pcm = 0

Quiet ==
    /\ running = Idle /\ OpenDone
    /\ \A t \in Task : pc[t] \notin {"send", "drain", "openwait", "cancel", "join"}

\* When a session that was registered under its stream id is over and its
\* tasks have settled, the Apple TV has been sent dataSend/close, unless it
\* closed the stream itself or the connection is gone: no microphone stream is
\* left open.  (The stream of an id that _open refuses is: OpenUnregistered.)
RegisteredStreamsAreClosed ==
    (Quiet /\ session.registered /\ session.closed /\ conn.state = "up")
        => Written("close") \/ tv = "closed"

\* README.md: "Siri dataSend/open, Opus audio packets, acknowledgements and
\* close handling".  Once the Apple TV has closed the stream and everything it
\* sent has been read, a session that is open knows it.  The code breaks this:
\* a close read before _open resumes from its response meets a stream id that
\* is not registered yet, and is dropped.
CloseHandled ==
    (Quiet /\ tv = "closed" /\ inbox = <<>> /\ pc["reader"] = "idle"
           /\ session.opened)
        => session.closed

\* A cancelled session is done in the end, even when cancel() gave up waiting
\* for dataSend/open: _open honours the reason when the answer arrives or the
\* request times out.
CancelTakesEffect == session.cancelled ~> session.closed

\* finish() does not wait forever, whatever the Apple TV does.
FinishEnds == pc["user"] = "endlock" ~> pc["user"] \in {"returned", "done"}

=============================================================================
