------------------------- MODULE SiriSessionProofs -------------------------
(***************************************************************************)
(* The safety properties of SiriSession for every number of cancelling     *)
(* tasks, every size of frames, events and chunks, and every unit of audio.*)
(***************************************************************************)
EXTENDS SiriSession, TLAPS

-----------------------------------------------------------------------------
(* The queue of a lock.                                                    *)

\* A task that leaves a queue changes nothing for the task at its head.
LEMMA LeaveQueue ==
    ASSUME NEW q \in Seq(Task), NEW t \in Task
    PROVE  /\ Leave(q, t) \in Seq(Task)
           /\ \A r \in Task : r # t /\ q # <<>> /\ Head(q) = r
                  => Leave(q, t) # <<>> /\ Head(Leave(q, t)) = r
<1>1. CASE \A i \in 1..Len(q) : q[i] # t
    BY <1>1 DEF Leave
<1>2. CASE \E i \in 1..Len(q) : q[i] = t
    <2> DEFINE p == CHOOSE i \in 1..Len(q) : q[i] = t
    <2>1. p \in 1..Len(q) /\ q[p] = t
        BY <1>2
    <2>2. Leave(q, t) = RemoveAt(q, p)
        BY <1>2 DEF Leave
    <2> HIDE DEF p
    <2>3. RemoveAt(q, p) \in Seq(Task)
        BY <2>1 DEF RemoveAt
    <2>4. ASSUME NEW r \in Task, r # t, Head(q) = r
          PROVE  RemoveAt(q, p) # <<>> /\ Head(RemoveAt(q, p)) = r
        <3> DEFINE a == SubSeq(q, 1, p - 1)
                   b == SubSeq(q, p + 1, Len(q))
        <3>1. p > 1 /\ q[1] = r
            BY <2>1, <2>4
        <3>2. a \in Seq(Task) /\ Len(a) = p - 1 /\ a[1] = r /\ b \in Seq(Task)
            BY <2>1, <3>1
        <3> HIDE DEF a, b
        <3>3. a \o b \in Seq(Task) /\ Len(a \o b) = Len(a) + Len(b)
              /\ (a \o b)[1] = a[1] /\ Len(b) \in Nat
            BY <2>1, <3>1, <3>2
        <3>4. a \o b # <<>> /\ Head(a \o b) = r
            BY <2>1, <3>1, <3>2, <3>3
        <3> QED
            BY <3>4 DEF RemoveAt, a, b
    <2> QED
        BY <2>2, <2>3, <2>4
<1> QED
    BY <1>1, <1>2

-----------------------------------------------------------------------------
(* What the helpers of the actions leave behind.                           *)

LockType == [{"io", "send"} -> Seq(Task)]

LEMMA Tasks ==
    /\ {"open", "user", "reader"} \cup Cancellers = Task
    /\ Idle \notin Task
    /\ \A c \in Cancellers : c \notin {"open", "user", "reader"}
BY TaskAssumption DEF Task

LEMMA TypeParts ==
    TypeOK => /\ pc \in [Task -> Location] /\ call \in [Task -> Message]
              /\ running \in Task \cup {Idle} /\ lock \in LockType
              /\ session \in Session /\ wire \in Seq(Message)
              /\ lock["io"] \in Seq(Task) /\ lock["send"] \in Seq(Task)
BY DEF TypeOK, LockType

LEMMA Moved ==
    ASSUME TypeOK, NEW t \in Task, NEW l \in Location, Continue(t, l) \/ Suspend(t, l)
    PROVE  /\ pc' \in [Task -> Location] /\ running' \in {Idle, t}
           /\ pc'[t] = l /\ \A r \in Task : r # t => pc'[r] = pc[r]
BY TypeParts DEF Continue, Suspend

LEMMA Left ==
    ASSUME TypeOK, NEW t \in Task, NEW l \in {"io", "send"}, Release(t, l)
    PROVE  /\ lock' \in LockType /\ lock'[l] = Leave(lock[l], t)
           /\ \A k \in {"io", "send"} : k # l => lock'[k] = lock[k]
<1>1. Leave(lock[l], t) \in Seq(Task)
    BY TypeParts, LeaveQueue DEF LockType
<1> QED
    BY <1>1, TypeParts DEF Release, LockType

LEMMA LeftAll ==
    ASSUME TypeOK, NEW t \in Task, ReleaseAll(t)
    PROVE  /\ lock' \in LockType
           /\ \A k \in {"io", "send"} : lock'[k] = Leave(lock[k], t)
<1>1. \A k \in {"io", "send"} : Leave(lock[k], t) \in Seq(Task)
    BY TypeParts, LeaveQueue DEF LockType
<1> QED
    BY <1>1 DEF ReleaseAll, LockType

LEMMA Acquired ==
    ASSUME TypeOK, NEW t \in Task, NEW l \in {"io", "send"}, NEW at \in Location,
           Acquire(t, l, at)
    PROVE  /\ lock' \in LockType /\ lock'[l] = Append(lock[l], t)
           /\ \A k \in {"io", "send"} : k # l => lock'[k] = lock[k]
           /\ pc' \in [Task -> Location] /\ running' \in {Idle, t}
           /\ pc'[t] = at /\ \A r \in Task : r # t => pc'[r] = pc[r]
           /\ lock[l] = <<>> => running' = t
<1>1. Continue(t, at) \/ Suspend(t, at)
    BY DEF Acquire
<1>2. Append(lock[l], t) \in Seq(Task)
    BY TypeParts DEF LockType
<1>3. lock' = [lock EXCEPT ![l] = Append(@, t)]
      /\ (lock[l] = <<>> => running' = t)
    BY DEF Acquire, Continue
<1>4. /\ lock' \in LockType /\ lock'[l] = Append(lock[l], t)
      /\ \A k \in {"io", "send"} : k # l => lock'[k] = lock[k]
    BY <1>2, <1>3, TypeParts DEF LockType
<1> QED
    BY <1>1, <1>3, <1>4, Moved

\* A send starts: the message is set, and the task queues for the send lock.
Sending(t, m) ==
    /\ call' \in [Task -> Message] /\ call'[t] = m
    /\ \A r \in Task : r # t => call'[r] = call[r]
    /\ pc' \in [Task -> Location] /\ running' \in {Idle, t}
    /\ pc'[t] = "send" /\ \A r \in Task : r # t => pc'[r] = pc[r]
    /\ lock' \in LockType /\ lock'["io"] = lock["io"]
    /\ lock'["send"] = Append(lock["send"], t)

LEMMA SendStarts ==
    ASSUME TypeOK, NEW t \in Task, NEW m \in Message, Send(t, m)
    PROVE  Sending(t, m)
<1>1. Acquire(t, "send", "send") /\ "send" \in Location
    BY DEF Send, Location
<1>2. call' = [call EXCEPT ![t] = m]
    BY DEF Send
<1>3. /\ call' \in [Task -> Message] /\ call'[t] = m
      /\ \A r \in Task : r # t => call'[r] = call[r]
    BY <1>2, TypeParts
<1> QED
    BY <1>1, <1>3, Acquired DEF Sending

\* The fields that the end of a session leaves alone.
SameButEnd(s, r) ==
    /\ r.opened = s.opened /\ r.registered = s.registered
    /\ r.sequence = s.sequence /\ r.pcm = s.pcm
    /\ r.frames = s.frames /\ r.ending = s.ending /\ r.eosSent = s.eosSent
    /\ r.closeSent = s.closeSent /\ r.cancelled = s.cancelled
    /\ r.force = s.force /\ r.written = s.written /\ r.encoded = s.encoded

LEMMA Ends ==
    ASSUME NEW s \in Session
    PROVE  /\ Fail(s) \in Session /\ SameButEnd(s, Fail(s)) /\ Fail(s).closed = TRUE
           /\ MarkDone(s) \in Session /\ SameButEnd(s, MarkDone(s))
           /\ MarkDone(s).closed = TRUE
BY DEF Fail, MarkDone, Session, SameButEnd

\* A task goes on to l without a message or a lock.
Walking(t, l) ==
    /\ call' = call /\ lock' = lock
    /\ pc' \in [Task -> Location] /\ running' \in {Idle, t}
    /\ pc'[t] = l /\ \A r \in Task : r # t => pc'[r] = pc[r]

\* A stream id that _open refuses ends the session.
LEMMA Unregistered ==
    ASSUME TypeOK, OpenUnregistered
    PROVE  /\ Suspend("open", "raised") /\ "raised" \in Location
           /\ session' \in Session /\ session'.opened = TRUE /\ session'.closed = TRUE
           /\ SameButEnd([session EXCEPT !.opened = TRUE], session')
           /\ conn' = [conn EXCEPT !.future = "none"]
           /\ UNCHANGED <<call, lock, inbox, wire, tv>>
           /\ pc["open"] = "await" /\ Runs("open")
<1> DEFINE s == [session EXCEPT !.opened = TRUE]
<1>1. s \in Session /\ s.opened = TRUE /\ session' = Fail(s)
    BY TypeParts DEF OpenUnregistered, Session
<1> HIDE DEF s
<1>2. session' \in Session /\ SameButEnd(s, session') /\ session'.closed = TRUE
    BY <1>1, Ends
<1>3. session'.opened = TRUE
    BY <1>1, <1>2 DEF SameButEnd
<1> QED
    BY <1>2, <1>3 DEF s, OpenUnregistered, Location

\* A cancel() that is cancelled leaves the send lock, and the session ends.
LEMMA Aborted ==
    ASSUME TypeOK, NEW t \in Cancellers, CancelAbort(t)
    PROVE  /\ t \in Task \ {"open", "user", "reader"}
           /\ pc[t] \in {"send", "drain"} /\ running = Idle
           /\ pc' \in [Task -> Location] /\ pc'[t] \in {"unsent", "done"}
           /\ pc[t] = "send" => pc'[t] = "unsent"
           /\ \A r \in Task : r # t => pc'[r] = pc[r]
           /\ session' \in Session /\ SameButEnd(session, session')
           /\ session'.closed = TRUE
           /\ lock' \in LockType
           /\ \A k \in {"io", "send"} : lock'[k] = Leave(lock[k], t)
           /\ UNCHANGED <<call, running, conn, inbox, wire, tv>>
<1>1. t \in Task \ {"open", "user", "reader"} /\ t \in Task
    BY Tasks
<1>2. /\ pc' = [pc EXCEPT ![t] = IF @ = "send" THEN "unsent" ELSE "done"]
      /\ session' = MarkDone(session) /\ ReleaseAll(t)
      /\ pc[t] \in {"send", "drain"} /\ running = Idle
      /\ UNCHANGED <<call, running, conn, inbox, wire, tv>>
    BY DEF CancelAbort
<1>3. /\ pc' \in [Task -> Location] /\ pc'[t] \in {"unsent", "done"}
      /\ pc[t] = "send" => pc'[t] = "unsent"
      /\ \A r \in Task : r # t => pc'[r] = pc[r]
    BY <1>1, <1>2, TypeParts DEF Location
<1>4. /\ session' \in Session /\ SameButEnd(session, session')
      /\ session'.closed = TRUE
    BY <1>2, TypeParts, Ends
<1>5. lock' \in LockType /\ \A k \in {"io", "send"} : lock'[k] = Leave(lock[k], t)
    BY <1>1, <1>2, LeftAll
<1> QED
    BY <1>1, <1>2, <1>3, <1>4, <1>5

LEMMA Closing ==
    ASSUME TypeOK, NEW t \in Task, NEW reason \in Reason, NEW s \in Session,
           SendClose(t, reason, s)
    PROVE  /\ session' \in Session /\ SameButEnd(s, session')
           /\ \/ Sending(t, CloseMessage(reason)) /\ session' = s
              \/ Walking(t, AfterClose(t)) /\ session'.closed = TRUE
<1>1. CASE NeedsClose(s)
    <2>1. CloseMessage(reason) \in Message
        BY DEF CloseMessage, Message
    <2>2. session' = s /\ Send(t, CloseMessage(reason))
        BY <1>1 DEF SendClose
    <2> QED
        BY <2>1, <2>2, SendStarts DEF SameButEnd
<1>2. CASE ~NeedsClose(s)
    <2>1. /\ session' = IF reason = "TIMEOUT" THEN Fail(s) ELSE MarkDone(s)
          /\ Suspend(t, AfterClose(t)) /\ call' = call /\ lock' = lock
        BY <1>2 DEF SendClose
    <2>2. AfterClose(t) \in Location
        BY DEF AfterClose, Location
    <2> QED
        BY <2>1, <2>2, Moved, Ends DEF Walking
<1> QED
    BY <1>1, <1>2

LEMMA Entering ==
    ASSUME TypeOK, NEW t \in {"open", "user"}, NEW force \in BOOLEAN, NEW s \in Session,
           EnterFlush(t, force, s)
    PROVE  /\ session' \in Session
           /\ pc' \in [Task -> Location] /\ running' \in {Idle, t}
           /\ \A r \in Task : r # t => pc'[r] = pc[r]
           /\ \/ /\ ~s.opened \/ s.closed \/ (force /\ s.eosSent)
                 /\ session' = s /\ Release(t, "io")
                 /\ pc'[t] = AfterFlush(t, force)
              \/ /\ s.opened /\ ~s.closed /\ ~(force /\ s.eosSent)
                 /\ session' = [s EXCEPT !.force = force]
                 /\ pc'[t] = "flush" /\ running' = t /\ lock' = lock
<1>1. t \in Task
    BY Tasks
<1>2. CASE ~s.opened \/ s.closed \/ (force /\ s.eosSent)
    <2>1. session' = s /\ Release(t, "io") /\ Suspend(t, AfterFlush(t, force))
        BY <1>2 DEF EnterFlush
    <2>2. AfterFlush(t, force) \in Location
        BY DEF AfterFlush, Location
    <2> QED
        BY <1>1, <1>2, <2>1, <2>2, Moved
<1>3. CASE ~(~s.opened \/ s.closed \/ (force /\ s.eosSent))
    <2>1. /\ session' = [s EXCEPT !.force = force]
          /\ Continue(t, "flush") /\ lock' = lock
        BY <1>3 DEF EnterFlush
    <2>2. "flush" \in Location /\ running' = t
        BY <2>1 DEF Location, Continue
    <2>3. session' \in Session
        BY <2>1 DEF Session
    <2> QED
        BY <1>1, <1>3, <2>1, <2>2, <2>3, Moved
<1> QED
    BY <1>2, <1>3

-----------------------------------------------------------------------------
(* Types.                                                                  *)

LEMMA TypeInit == Init => TypeOK
<1> SUFFICES ASSUME Init PROVE TypeOK
    OBVIOUS
<1>1. pc \in [Task -> Location] /\ call \in [Task -> Message]
    BY DEF Init, Location, OpenMessage, Message
<1>2. lock \in [{"io", "send"} -> Seq(Task)]
    BY DEF Init
<1>3. session \in Session
    BY AudioAssumption DEF Init, Session
<1>4. inbox \in Seq(Answer) /\ wire \in Seq(Message)
    BY DEF Init
<1> QED
    BY <1>1, <1>2, <1>3, <1>4 DEF Init, TypeOK

\* The type invariant, one variable at a time.
LEMMA TypeFromParts ==
    ASSUME TypeOK, pc' \in [Task -> Location], call' \in [Task -> Message],
           running' \in Task \cup {Idle}, lock' \in LockType, session' \in Session,
           conn' \in [state: {"up", "lost", "closed"},
                      future: {"none", "pending", "accept", "reject", "fail"}],
           inbox' \in Seq(Answer), wire' \in Seq(Message), UNCHANGED tv
    PROVE  TypeOK'
BY DEF TypeOK, LockType

LEMMA TypeSends ==
    ASSUME TypeOK, NEW t \in Task, Sends(t) PROVE TypeOK'
<1> USE DEF Location
<1>1. CASE Transmit(t)
    <2>1. lock' \in LockType
        BY <1>1, Left, TypeParts DEF Transmit
    <2>2. pc' \in [Task -> Location] /\ running' \in {Idle, t}
        BY <1>1, Moved DEF Transmit
    <2>3. wire' \in Seq(Message)
        <3>1. wire' = wire \/ wire' = Append(wire, call[t])
            BY <1>1 DEF Transmit
        <3>2. wire \in Seq(Message) /\ call[t] \in Message
            BY TypeParts
        <3> QED
            BY <3>1, <3>2
    <2>4. UNCHANGED <<call, session, conn, inbox, tv>>
        BY <1>1 DEF Transmit
    <2> QED
        BY <2>1, <2>2, <2>3, <2>4, TypeFromParts DEF TypeOK
<1>2. CASE Drained(t)
    <2>1. lock' \in LockType
        BY <1>2, Left DEF Drained
    <2>2. pc' \in [Task -> Location] /\ running' \in {Idle, t}
        BY <1>2, Moved DEF Drained
    <2>3. UNCHANGED <<call, session, conn, inbox, wire, tv>>
        BY <1>2 DEF Drained
    <2> QED
        BY <2>1, <2>2, <2>3, TypeFromParts DEF TypeOK
<1>3. CASE CloseSent(t)
    <2>1. [session EXCEPT !.closeSent = TRUE] \in Session
        BY TypeParts DEF Session
    <2>2. session' \in Session
        BY <1>3, <2>1, Ends DEF CloseSent
    <2>3. AfterClose(t) \in Location
        BY DEF AfterClose
    <2>4. pc' \in [Task -> Location] /\ running' \in {Idle, t}
        BY <1>3, <2>3, Moved DEF CloseSent
    <2> QED
        BY <1>3, <2>2, <2>4, TypeFromParts DEF CloseSent, TypeOK, LockType
<1>4. CASE SendFailed(t)
    <2>1. lock' \in LockType
        BY <1>4, Left DEF SendFailed
    <2>2. AfterClose(t) \in Location
        BY DEF AfterClose
    <2>3. pc' \in [Task -> Location] /\ running' \in {Idle, t}
        BY <1>4, <2>2, Moved DEF SendFailed
    <2>4. session' \in Session
        BY <1>4, TypeParts, Ends DEF SendFailed
    <2>5. conn' \in [state: {"up", "lost", "closed"},
                     future: {"none", "pending", "accept", "reject", "fail"}]
        BY <1>4 DEF SendFailed, TypeOK
    <2> QED
        BY <1>4, <2>1, <2>3, <2>4, <2>5, TypeFromParts DEF SendFailed, TypeOK
<1> QED
    BY <1>1, <1>2, <1>3, <1>4 DEF Sends

\* The count of frames an event takes off the list.
Count == IF session.frames < FramesPerEvent THEN session.frames ELSE FramesPerEvent

\* The event that FlushEvent sends, and what it leaves in the session.
Event == DataMessage(session.encoded - session.frames, session.sequence, Count,
                     session.force /\ session.frames = Count)

LEMMA EventSent ==
    ASSUME TypeOK, NEW t \in Task, FlushEvent(t)
    PROVE  /\ Count \in Nat /\ Count <= session.frames
           /\ Event \in Message /\ Sending(t, Event)
           /\ session' \in Session
           /\ session' = [session EXCEPT !.frames = @ - Count, !.sequence = @ + Count]
<1>1. session \in Session /\ Count \in Nat /\ Count <= session.frames
    BY TypeParts, AudioAssumption DEF Session, Count
<1>2. /\ session' = [session EXCEPT !.frames = @ - Count, !.sequence = @ + Count]
      /\ Send(t, Event)
    BY DEF FlushEvent, Count, Event
<1>3. session' \in Session
    <2>1. session.frames - Count \in Nat /\ session.sequence + Count \in Nat
        BY <1>1 DEF Session
    <2> QED
        BY <1>1, <1>2, <2>1 DEF Session
<1>4. Event \in Message
    BY <1>1 DEF Event, DataMessage, Message, Session
<1> QED
    BY <1>1, <1>2, <1>3, <1>4, SendStarts

\* The empty event that ends the stream.
LastEvent == DataMessage(session.encoded, session.sequence, 0, TRUE)

LEMMA EosSent ==
    ASSUME TypeOK, NEW t \in Task, FlushEos(t)
    PROVE  LastEvent \in Message /\ Sending(t, LastEvent)
<1>1. LastEvent \in Message
    BY TypeParts DEF LastEvent, DataMessage, Message, Session
<1> QED
    BY <1>1, SendStarts DEF FlushEos, LastEvent

LEMMA TypeFlushes ==
    ASSUME TypeOK, NEW t \in {"open", "user"}, Flushes(t) PROVE TypeOK'
<1>1. t \in Task /\ AfterFlush(t, session.force) \in Location /\ "flush" \in Location
    BY Tasks DEF AfterFlush, Location
<1>2. CASE FlushEvent(t)
    BY <1>1, <1>2, EventSent, TypeFromParts DEF FlushEvent, Sending, TypeOK
<1>3. CASE FlushEos(t)
    BY <1>1, <1>3, EosSent, TypeFromParts DEF FlushEos, Sending, TypeOK
<1>4. CASE FlushEnd(t)
    <2>1. lock' \in LockType
        BY <1>1, <1>4, Left DEF FlushEnd
    <2>2. pc' \in [Task -> Location] /\ running' \in {Idle, t}
        BY <1>1, <1>4, Moved DEF FlushEnd
    <2> QED
        BY <1>1, <1>4, <2>1, <2>2, TypeFromParts DEF FlushEnd, TypeOK
<1>5. CASE FlushSent(t)
    <2>1. lock' \in LockType
        BY <1>1, <1>5, Left, TypeParts DEF FlushSent
    <2>2. pc' \in [Task -> Location] /\ running' \in {Idle, t}
        BY <1>1, <1>5, Moved DEF FlushSent
    <2>3. session' \in Session
        <3>1. session' \in {session, [session EXCEPT !.eosSent = TRUE]}
            BY <1>5 DEF FlushSent
        <3>2. session \in Session
            BY TypeParts
        <3>3. [session EXCEPT !.eosSent = TRUE] \in Session
            BY <3>2 DEF Session
        <3> QED
            BY <3>1, <3>2, <3>3
    <2> QED
        BY <1>1, <1>5, <2>1, <2>2, <2>3, TypeFromParts DEF FlushSent, TypeOK
<1> QED
    BY <1>2, <1>3, <1>4, <1>5 DEF Flushes

LEMMA TypeOpens == ASSUME TypeOK, Opens PROVE TypeOK'
<1> USE DEF Location
<1>1. "open" \in Task /\ "open" \in {"open", "user"}
    BY Tasks
<1>2. CASE OpenBegin
    <2>1. Sending("open", OpenMessage)
        BY <1>1, <1>2, SendStarts DEF OpenBegin, Message
    <2> QED
        BY <1>1, <1>2, <2>1, TypeFromParts DEF OpenBegin, Sending, TypeOK
<1>3. CASE OpenSent
    BY <1>1, <1>3, TypeFromParts DEF OpenSent, TypeOK, LockType
<1>4. CASE OpenAccepted
    <2> DEFINE s == [session EXCEPT !.opened = TRUE, !.registered = TRUE]
    <2>1. s \in Session
        BY TypeParts DEF Session
    <2>2. conn' \in [state: {"up", "lost", "closed"},
                     future: {"none", "pending", "accept", "reject", "fail"}]
        BY <1>4 DEF OpenAccepted, TypeOK
    <2>3. CASE SendClose("open", "CANCELLED", s)
        <3>1. "CANCELLED" \in Reason
            BY DEF Reason
        <3> HIDE DEF s
        <3>2. /\ session' \in Session
              /\ \/ Sending("open", CloseMessage("CANCELLED"))
                 \/ Walking("open", AfterClose("open"))
            BY <1>1, <2>1, <2>3, <3>1, Closing
        <3> QED
            BY <1>1, <1>4, <2>2, <3>2, TypeFromParts
            DEF OpenAccepted, Sending, Walking, TypeOK, LockType
    <2>4. CASE session' = s /\ Acquire("open", "io", "openlock") /\ call' = call
        <3>1. session' \in Session
            BY <2>1, <2>4
        <3>2. /\ lock' \in LockType /\ pc' \in [Task -> Location]
              /\ running' \in {Idle, "open"}
            BY <1>1, <2>4, Acquired
        <3>3. UNCHANGED <<inbox, wire, tv>> /\ call' = call
            BY <1>4, <2>4 DEF OpenAccepted
        <3>4. call \in [Task -> Message] /\ inbox \in Seq(Answer) /\ wire \in Seq(Message)
              /\ running' \in Task \cup {Idle}
            BY <1>1, <3>2 DEF TypeOK
        <3> QED
            BY <2>2, <3>1, <3>2, <3>3, <3>4, TypeFromParts
    <2> QED
        BY <1>4, <2>3, <2>4 DEF OpenAccepted
<1>5. CASE OpenRefused \/ OpenTimeout
    <2>1. pc' \in [Task -> Location] /\ running' \in {Idle, "open"}
        BY <1>1, <1>5, Moved DEF OpenRefused, OpenTimeout
    <2>2. session' \in Session
        BY <1>5, TypeParts, Ends DEF OpenRefused, OpenTimeout
    <2> QED
        BY <1>1, <1>5, <2>1, <2>2, TypeFromParts
        DEF OpenRefused, OpenTimeout, TypeOK, LockType
<1>8. CASE OpenUnregistered
    <2>1. pc' \in [Task -> Location] /\ running' \in {Idle, "open"}
        BY <1>1, <1>8, Unregistered, Moved
    <2>2. conn' \in [state: {"up", "lost", "closed"},
                     future: {"none", "pending", "accept", "reject", "fail"}]
        BY <1>8, Unregistered DEF TypeOK
    <2> QED
        BY <1>1, <1>8, <2>1, <2>2, Unregistered, TypeFromParts DEF TypeOK, LockType
<1>6. CASE OpenFlush
    <2>1. session \in Session /\ session.ending \in BOOLEAN
        BY TypeParts DEF Session
    <2>2. /\ session' \in Session
          /\ pc' \in [Task -> Location] /\ running' \in {Idle, "open"}
          /\ Release("open", "io") \/ lock' = lock
        BY <1>1, <1>6, <2>1, Entering DEF OpenFlush
    <2>3. lock' \in LockType
        BY <1>1, <2>2, Left, TypeParts
    <2> QED
        BY <1>1, <1>6, <2>2, <2>3, TypeFromParts DEF OpenFlush, TypeOK
<1>7. CASE OpenCancelled
    <2>1. lock' \in LockType
        BY <1>1, <1>7, LeftAll DEF OpenCancelled
    <2>2. pc' \in [Task -> Location] /\ running' \in {Idle, "open"}
        BY <1>1, <1>7, Moved DEF OpenCancelled
    <2>3. session' \in Session
        BY <1>7, TypeParts, Ends DEF OpenCancelled
    <2> QED
        BY <1>1, <1>7, <2>1, <2>2, <2>3, TypeFromParts DEF OpenCancelled, TypeOK
<1> QED
    BY <1>2, <1>3, <1>4, <1>5, <1>6, <1>7, <1>8 DEF Opens

\* What a chunk of n units and the padding make of a session.
LEMMA Framing ==
    ASSUME NEW s \in Session, NEW n \in Nat
    PROVE  /\ Framed(s, n) \in Session
           /\ \E k \in Nat : /\ Framed(s, n).frames = s.frames + k
                             /\ Framed(s, n).encoded = s.encoded + k
           /\ Framed(s, n).sequence = s.sequence /\ Framed(s, n).opened = s.opened
           /\ Framed(s, n).closed = s.closed /\ Framed(s, n).ending = s.ending
           /\ Framed(s, n).eosSent = s.eosSent /\ Framed(s, n).force = s.force
<1> DEFINE k == (s.pcm + n) \div FrameUnits
           p == (s.pcm + n) % FrameUnits
<1>1. s.pcm \in Nat /\ FrameUnits \in Nat \ {0}
    BY AudioAssumption DEF Session
<1>2. k \in Nat /\ p \in 0..FrameUnits - 1
    BY <1>1
<1> HIDE DEF k, p
<1>3. Framed(s, n) = [s EXCEPT !.written = @ + n, !.pcm = p, !.frames = @ + k,
                               !.encoded = @ + k]
    BY DEF Framed, k, p
<1>4. s.written + n \in Nat /\ s.frames + k \in Nat /\ s.encoded + k \in Nat
    BY <1>2 DEF Session
<1> QED
    BY <1>2, <1>3, <1>4 DEF Session

LEMMA Padding ==
    ASSUME NEW s \in Session
    PROVE  /\ Padded(s) \in Session
           /\ \E k \in {0, 1} : /\ Padded(s).frames = s.frames + k
                                /\ Padded(s).encoded = s.encoded + k
           /\ Padded(s).sequence = s.sequence /\ Padded(s).opened = s.opened
           /\ Padded(s).closed = s.closed /\ Padded(s).ending = s.ending
           /\ Padded(s).eosSent = s.eosSent /\ Padded(s).force = s.force
<1>1. 0 \in 0..FrameUnits - 1
    BY AudioAssumption
<1>2. CASE s.ending \/ s.pcm = 0
    BY <1>2 DEF Padded, Session
<1>3. CASE ~(s.ending \/ s.pcm = 0)
    <2>1. Padded(s) = [s EXCEPT !.pcm = 0, !.frames = @ + 1, !.encoded = @ + 1]
        BY <1>3 DEF Padded
    <2>2. s.frames + 1 \in Nat /\ s.encoded + 1 \in Nat
        BY DEF Session
    <2> QED
        BY <1>1, <2>1, <2>2 DEF Session
<1> QED
    BY <1>2, <1>3

LEMMA TypeUser == ASSUME TypeOK, Writes \/ Finishes \/ UserAbort PROVE TypeOK'
<1> USE DEF Location
<1>1. "open" \in Task /\ "user" \in Task /\ "user" \in {"open", "user"}
    BY Tasks
<1>2. session \in Session /\ ChunkSizes \subseteq Nat
    BY TypeParts, AudioAssumption
<1>3. ASSUME NEW force \in BOOLEAN, NEW s \in Session, EnterFlush("user", force, s)
      PROVE  /\ session' \in Session /\ lock' \in LockType
             /\ pc' \in [Task -> Location] /\ running' \in {Idle, "user"}
    BY <1>1, <1>3, Entering, Left, TypeParts
<1>4. CASE WriteCall
    BY <1>1, <1>4, Acquired, TypeFromParts DEF WriteCall, TypeOK
<1>5. CASE WriteBody
    <2>1. CASE Release("user", "io") /\ Suspend("user", "cancel") /\ UNCHANGED session
        BY <1>1, <1>5, <2>1, Left, Moved, TypeFromParts DEF WriteBody, TypeOK
    <2>2. CASE \E n \in ChunkSizes : EnterFlush("user", FALSE, Framed(session, n))
        <3>1. PICK n \in Nat : EnterFlush("user", FALSE, Framed(session, n))
            BY <1>2, <2>2
        <3>2. Framed(session, n) \in Session
            BY <1>2, Framing
        <3> QED
            BY <1>1, <1>3, <1>5, <3>1, <3>2, TypeFromParts DEF WriteBody, TypeOK
    <2> QED
        BY <1>5, <2>1, <2>2 DEF WriteBody
<1>6. ASSUME Conclude
      PROVE  pc' \in [Task -> Location] /\ running' \in {Idle, "user"} /\ lock' \in LockType
    BY <1>1, <1>6, Moved, TypeParts DEF Conclude
<1>7. CASE FinishCall
    <2>1. Conclude \/ Acquire("user", "io", "endlock")
        BY <1>7 DEF FinishCall
    <2>2. pc' \in [Task -> Location] /\ running' \in {Idle, "user"} /\ lock' \in LockType
        BY <1>1, <1>6, <2>1, Acquired
    <2> QED
        BY <1>1, <1>7, <2>2, TypeFromParts DEF FinishCall, TypeOK
<1>8. CASE FinishEnding
    <2>1. lock' \in LockType
        BY <1>1, <1>8, Left DEF FinishEnding
    <2>2. Padded(session) \in Session
        BY <1>2, Padding
    <2>3. session' \in Session
        BY <1>8, <2>2 DEF FinishEnding, Session
    <2> QED
        BY <1>1, <1>8, <2>1, <2>3, TypeFromParts DEF FinishEnding, TypeOK
<1>9. CASE FinishJoin
    <2>1. \/ Suspend("user", "cancel") /\ UNCHANGED lock
          \/ Conclude \/ Acquire("user", "io", "eoslock")
        BY <1>9 DEF FinishJoin
    <2>2. pc' \in [Task -> Location] /\ running' \in {Idle, "user"} /\ lock' \in LockType
        BY <1>1, <1>6, <2>1, Acquired, Moved, TypeParts
    <2> QED
        BY <1>1, <1>9, <2>2, TypeFromParts DEF FinishJoin, TypeOK
<1>10. CASE FinishEos
    BY <1>1, <1>2, <1>3, <1>10, TypeFromParts DEF FinishEos, TypeOK
<1>11. CASE FinishReturn
    BY <1>1, <1>6, <1>11, TypeFromParts DEF FinishReturn, TypeOK
<1>12. CASE FinishTimeout
    <2>1. "TIMEOUT" \in Reason
        BY DEF Reason
    <2> QED
        BY <1>1, <1>2, <1>12, <2>1, Closing, TypeFromParts
        DEF FinishTimeout, Sending, Walking, TypeOK, LockType
<1>13. CASE UserAbort
    <2>1. pc' \in [Task -> Location] /\ lock' \in LockType
        BY <1>1, <1>13, LeftAll, TypeParts DEF UserAbort
    <2>2. session' \in Session
        BY <1>2, <1>13, Ends DEF UserAbort
    <2> QED
        BY <1>13, <2>1, <2>2, TypeFromParts DEF UserAbort, TypeOK
<1> QED
    BY <1>4, <1>5, <1>7, <1>8, <1>9, <1>10, <1>11, <1>12, <1>13 DEF Writes, Finishes

LEMMA TypeCancels ==
    ASSUME TypeOK, NEW t \in Cancellers \cup {"user"}, Cancels(t) PROVE TypeOK'
<1> USE DEF Location
<1> DEFINE s == [session EXCEPT !.ending = TRUE, !.cancelled = TRUE]
<1>1. t \in Task /\ session \in Session /\ s \in Session /\ "CANCELLED" \in Reason
    BY Tasks, TypeParts DEF Session, Reason
<1>2. ASSUME NEW l \in Location, Suspend(t, l), UNCHANGED <<call, lock>>,
             session' \in Session
      PROVE  /\ session' \in Session /\ call' \in [Task -> Message]
             /\ pc' \in [Task -> Location] /\ running' \in {Idle, t} /\ lock' \in LockType
    BY <1>1, <1>2, Moved, TypeParts
<1>3. ASSUME NEW r \in Session, SendClose(t, "CANCELLED", r)
      PROVE  /\ session' \in Session /\ call' \in [Task -> Message]
             /\ pc' \in [Task -> Location] /\ running' \in {Idle, t} /\ lock' \in LockType
    BY <1>1, <1>3, Closing, TypeParts DEF Sending, Walking
<1>4. CASE CancelCall(t)
    <2> HIDE DEF s
    <2>1. \/ \E l \in Location : Suspend(t, l) /\ UNCHANGED <<call, lock>>
                                 /\ session' \in {session, s}
          \/ SendClose(t, "CANCELLED", s)
        BY <1>4 DEF CancelCall, s
    <2> QED
        BY <1>1, <1>2, <1>3, <1>4, <2>1, TypeFromParts DEF CancelCall, TypeOK
<1>5. CASE CancelJoin(t) \/ CancelGiveUp(t)
    <2>1. \/ Suspend(t, "done") /\ UNCHANGED <<call, lock, session>>
          \/ SendClose(t, "CANCELLED", session)
        BY <1>5 DEF CancelJoin, CancelGiveUp
    <2> QED
        BY <1>1, <1>2, <1>3, <1>5, <2>1, TypeFromParts
        DEF CancelJoin, CancelGiveUp, TypeOK
<1> QED
    BY <1>4, <1>5 DEF Cancels

LEMMA TypeReader == ASSUME TypeOK, ReaderSteps PROVE TypeOK'
<1> USE DEF Location
<1>1. "reader" \in Task /\ session \in Session /\ "NORMAL" \in Reason
    BY Tasks, TypeParts DEF Reason
<1>2. inbox' \in Seq(Answer)
    <2>1. inbox \in Seq(Answer) /\ inbox # <<>> /\ inbox' = Tail(inbox)
        BY DEF ReaderSteps, ReaderResponse, ReaderAck, ReaderClose, TypeOK
    <2> QED
        BY <2>1
<1>3. ASSUME Suspend("reader", "idle")
      PROVE  pc' \in [Task -> Location] /\ running' \in {Idle, "reader"}
    BY <1>1, <1>3, Moved
<1>4. CASE ReaderResponse
    <2>1. conn' \in [state: {"up", "lost", "closed"},
                     future: {"none", "pending", "accept", "reject", "fail"}]
        BY <1>4 DEF ReaderResponse, TypeOK
    <2> QED
        BY <1>2, <1>3, <1>4, <2>1, TypeFromParts, Tasks DEF ReaderResponse, TypeOK, LockType
<1>5. CASE ReaderAck
    <2>1. \/ SendClose("reader", "NORMAL", session)
          \/ Suspend("reader", "idle") /\ UNCHANGED <<call, lock, session>>
        BY <1>5 DEF ReaderAck
    <2>2. /\ session' \in Session /\ call' \in [Task -> Message]
          /\ pc' \in [Task -> Location] /\ running' \in {Idle, "reader"}
          /\ lock' \in LockType
        BY <1>1, <1>3, <2>1, Closing, TypeParts DEF Sending, Walking
    <2> QED
        BY <1>1, <1>2, <1>5, <2>2, TypeFromParts DEF ReaderAck, TypeOK
<1>6. CASE ReaderClose
    <2>1. session' \in Session
        BY <1>1, <1>6, Ends DEF ReaderClose
    <2> QED
        BY <1>1, <1>2, <1>3, <1>6, <2>1, TypeFromParts DEF ReaderClose, TypeOK, LockType
<1> QED
    BY <1>4, <1>5, <1>6 DEF ReaderSteps

LEMMA TypeStep == TypeOK /\ [Next]_vars => TypeOK'
<1> SUFFICES ASSUME TypeOK, [Next]_vars PROVE TypeOK'
    OBVIOUS
<1>1. CASE ConnClose
    <2>1. session' \in Session
        BY <1>1, TypeParts, Ends DEF ConnClose
    <2>2. pc' \in [Task -> Location]
        BY <1>1, TypeParts DEF ConnClose, Location
    <2>3. conn' \in [state: {"up", "lost", "closed"},
                     future: {"none", "pending", "accept", "reject", "fail"}]
        BY <1>1 DEF ConnClose, TypeOK
    <2> QED
        BY <1>1, <2>1, <2>2, <2>3, TypeFromParts DEF ConnClose, TypeOK, LockType
<1>2. CASE ConnLost
    <2>1. conn' \in [state: {"up", "lost", "closed"},
                     future: {"none", "pending", "accept", "reject", "fail"}]
        BY <1>2 DEF ConnLost, TypeOK
    <2> QED
        BY <1>2, <2>1, TypeFromParts DEF ConnLost, TypeOK, LockType
<1>3. CASE TvAnswer \/ TvAck \/ TvClose
    <2>1. PICK answer \in Answer : inbox' = Append(inbox, answer)
        BY <1>3 DEF TvAnswer, TvAck, TvClose, TvStep, Answer
    <2>2. inbox' \in Seq(Answer)
        BY <2>1 DEF TypeOK
    <2>3. /\ tv' \in {"open", "rejected", "acked", "closed"}
          /\ UNCHANGED <<pc, call, running, lock, session, conn, wire>>
        BY <1>3 DEF TvAnswer, TvAck, TvClose, TvStep
    <2> QED
        BY <2>2, <2>3 DEF TypeOK
<1>4. CASE Terminated \/ UNCHANGED vars
    BY <1>4 DEF Terminated, vars, TypeOK
<1>5. ASSUME NEW t \in Cancellers, CancelAbort(t) PROVE TypeOK'
    BY <1>5, Aborted, TypeFromParts DEF TypeOK
<1> QED
    BY <1>1, <1>2, <1>3, <1>4, <1>5, TypeSends, TypeFlushes, TypeOpens, TypeUser,
       TypeCancels, TypeReader DEF Next

\* Every variable stays in its type, in every instance.
THEOREM TypeCorrect == Spec => []TypeOK
BY TypeInit, TypeStep, PTL DEF Spec

-----------------------------------------------------------------------------
(* The locks.                                                              *)

LockInv == FlushExclusive /\ SendExclusive

\* The step of one task, which holds what its new place asks for, takes
\* nothing from the others.
LEMMA OthersKeep ==
    ASSUME TypeOK, LockInv, NEW t \in Task,
           \A r \in Task : r # t => pc'[r] = pc[r] /\ call'[r] = call[r],
           \A l \in {"io", "send"} :
               lock'[l] \in {lock[l], Leave(lock[l], t), Append(lock[l], t)},
           InFlush(t)' => Holds(t, "io")',
           InTransmission(t)' => Holds(t, "send")'
    PROVE  LockInv'
<1>1. ASSUME NEW r \in Task, r # t, NEW l \in {"io", "send"}, Holds(r, l)
      PROVE  Holds(r, l)'
    <2>1. lock[l] \in Seq(Task) /\ lock[l] # <<>> /\ Head(lock[l]) = r
        BY <1>1, TypeParts DEF Holds
    <2>2. Append(lock[l], t) # <<>> /\ Head(Append(lock[l], t)) = r
        BY <2>1
    <2> QED
        BY <1>1, <2>1, <2>2, LeaveQueue DEF Holds
<1>2. ASSUME NEW r \in Task, r # t
      PROVE  /\ InFlush(r)' => Holds(r, "io")'
             /\ InTransmission(r)' => Holds(r, "send")'
    BY <1>1, <1>2 DEF LockInv, FlushExclusive, SendExclusive, InFlush, InTransmission
<1> QED
    BY <1>2 DEF LockInv, FlushExclusive, SendExclusive

\* A task that is neither in a flush nor in a transmission holds no lock here.
LEMMA OutKeep ==
    ASSUME TypeOK, LockInv, NEW t \in Task,
           \A r \in Task : r # t => pc'[r] = pc[r] /\ call'[r] = call[r],
           \A l \in {"io", "send"} :
               lock'[l] \in {lock[l], Leave(lock[l], t), Append(lock[l], t)},
           \/ pc'[t] \notin {"flush", "send", "drain", "sent", "failed"}
           \/ pc'[t] = "send" /\ call'[t].type # "data"
    PROVE  LockInv'
BY OthersKeep DEF InFlush, InTransmission

LEMMA WalkingKeeps ==
    ASSUME TypeOK, LockInv, NEW t \in Task, NEW l, Walking(t, l),
           l \notin {"flush", "send", "drain", "sent", "failed"}
    PROVE  LockInv'
BY OutKeep DEF Walking

LEMMA SendingKeeps ==
    ASSUME TypeOK, LockInv, NEW t \in Task, NEW m, Sending(t, m),
           m.type = "data" => InFlush(t)
    PROVE  LockInv'
<1>1. InFlush(t)' => Holds(t, "io")'
    BY DEF Sending, InFlush, LockInv, FlushExclusive, Holds
<1>2. ~InTransmission(t)'
    BY DEF Sending, InTransmission
<1> QED
    BY <1>1, <1>2, OthersKeep DEF Sending

LEMMA ClosingKeeps ==
    ASSUME TypeOK, LockInv, NEW t \in Task, NEW reason \in Reason, NEW s \in Session,
           SendClose(t, reason, s)
    PROVE  LockInv'
<1>1. AfterClose(t) \in {"ended", "idle", "cancel", "done"}
    BY DEF AfterClose
<1>2. CloseMessage(reason).type # "data"
    BY DEF CloseMessage
<1> QED
    BY <1>1, <1>2, Closing, WalkingKeeps, SendingKeeps

LEMMA EnteringKeeps ==
    ASSUME TypeOK, LockInv, NEW t \in {"open", "user"}, NEW force \in BOOLEAN,
           NEW s \in Session, EnterFlush(t, force, s), Holds(t, "io"), call' = call
    PROVE  LockInv'
<1>1. t \in Task /\ AfterFlush(t, force) \in {"ended", "idle", "waitdone"}
    BY Tasks DEF AfterFlush
<1>2. \A r \in Task : r # t => pc'[r] = pc[r] /\ call'[r] = call[r]
    BY Entering
<1>3. CASE pc'[t] = AfterFlush(t, force) /\ Release(t, "io")
    <2>1. \A l \in {"io", "send"} : lock'[l] \in {lock[l], Leave(lock[l], t)}
        BY <1>1, <1>3, Left
    <2> QED
        BY <1>1, <1>2, <1>3, <2>1, OutKeep
<1>4. CASE pc'[t] = "flush" /\ lock' = lock
    BY <1>1, <1>2, <1>4, OthersKeep DEF Holds, InTransmission
<1> QED
    BY <1>3, <1>4, Entering

LEMMA LockSends ==
    ASSUME TypeOK, LockInv, NEW t \in Task, Sends(t) PROVE LockInv'
<1> USE DEF Location
<1>1. CASE Transmit(t)
    <2>1. /\ \A r \in Task : r # t => pc'[r] = pc[r]
          /\ pc'[t] \in {"failed", "sent", "drain"} /\ UNCHANGED call
        BY <1>1, Moved DEF Transmit
    <2>2. \/ UNCHANGED lock
          \/ Release(t, "send") /\ pc'[t] # "drain"
        BY <1>1, Moved DEF Transmit
    <2>3. lock'["io"] = lock["io"] /\ lock'["send"] \in {lock["send"], Leave(lock["send"], t)}
        BY <2>2, Left
    <2>4. InFlush(t)' => Holds(t, "io")'
        BY <1>1, <2>1, <2>3 DEF Transmit, InFlush, LockInv, FlushExclusive, Holds
    <2>5. InTransmission(t)' => Holds(t, "send")'
        BY <1>1, <2>2 DEF Transmit, InTransmission, Holds
    <2> QED
        BY <2>1, <2>3, <2>4, <2>5, OthersKeep
<1>2. CASE Drained(t)
    <2>1. /\ \A r \in Task : r # t => pc'[r] = pc[r]
          /\ pc'[t] \in {"failed", "sent"} /\ UNCHANGED call
        BY <1>2, Moved DEF Drained
    <2>2. lock'["io"] = lock["io"] /\ lock'["send"] = Leave(lock["send"], t)
        BY <1>2, Left DEF Drained
    <2>3. InFlush(t)' => Holds(t, "io")'
        BY <1>2, <2>1, <2>2 DEF Drained, InFlush, LockInv, FlushExclusive, Holds
    <2> QED
        BY <2>1, <2>2, <2>3, OthersKeep DEF InTransmission
<1>3. CASE CloseSent(t)
    <2>1. AfterClose(t) \in {"ended", "idle", "cancel", "done"}
        BY DEF AfterClose
    <2>2. pc'[t] = AfterClose(t) /\ \A r \in Task : r # t => pc'[r] = pc[r]
        BY <1>3, <2>1, Moved DEF CloseSent
    <2> QED
        BY <1>3, <2>1, <2>2, OutKeep DEF CloseSent
<1>4. CASE SendFailed(t)
    <2>1. AfterClose(t) \in {"ended", "idle", "cancel", "done"}
        BY DEF AfterClose
    <2>2. /\ pc'[t] \in {"ended", "idle", "cancel", "done", "raised", "stopped"}
          /\ \A r \in Task : r # t => pc'[r] = pc[r]
        BY <1>4, <2>1, Moved DEF SendFailed
    <2>3. lock'["send"] = lock["send"] /\ lock'["io"] = Leave(lock["io"], t)
        BY <1>4, Left DEF SendFailed
    <2> QED
        BY <1>4, <2>2, <2>3, OutKeep DEF SendFailed
<1> QED
    BY <1>1, <1>2, <1>3, <1>4 DEF Sends

LEMMA LockFlushes ==
    ASSUME TypeOK, LockInv, NEW t \in {"open", "user"}, Flushes(t) PROVE LockInv'
<1>1. /\ t \in Task /\ AfterFlush(t, session.force) \in {"ended", "idle", "waitdone"}
      /\ AfterFlush(t, session.force) \in Location /\ "flush" \in Location
    BY Tasks DEF AfterFlush, Location
<1>2. CASE FlushEvent(t)
    BY <1>1, <1>2, EventSent, SendingKeeps DEF FlushEvent, InFlush
<1>3. CASE FlushEos(t)
    BY <1>1, <1>3, EosSent, SendingKeeps DEF FlushEos, InFlush
<1>4. CASE FlushEnd(t) \/ (FlushSent(t) /\ call[t].eos)
    <2>1. /\ Release(t, "io") /\ Suspend(t, AfterFlush(t, session.force))
          /\ UNCHANGED call
        BY <1>4 DEF FlushEnd, FlushSent
    <2>2. /\ pc'[t] \in {"ended", "idle", "waitdone"}
          /\ \A r \in Task : r # t => pc'[r] = pc[r]
        BY <1>1, <2>1, Moved
    <2>3. lock'["send"] = lock["send"] /\ lock'["io"] = Leave(lock["io"], t)
        BY <1>1, <2>1, Left
    <2> QED
        BY <1>1, <2>1, <2>2, <2>3, OutKeep
<1>5. CASE FlushSent(t) /\ ~call[t].eos
    <2>1. pc'[t] = "flush" /\ \A r \in Task : r # t => pc'[r] = pc[r]
        BY <1>1, <1>5, Moved DEF FlushSent
    <2>2. UNCHANGED <<call, lock>> /\ Holds(t, "io")
        BY <1>1, <1>5 DEF FlushSent, InFlush, LockInv, FlushExclusive
    <2> QED
        BY <1>1, <2>1, <2>2, OthersKeep DEF InTransmission, Holds
<1> QED
    BY <1>2, <1>3, <1>4, <1>5 DEF Flushes

\* A task goes on without a message, to a place outside flush and transmission.
LEMMA SuspendKeeps ==
    ASSUME TypeOK, LockInv, NEW t \in Task, NEW l \in Location,
           Suspend(t, l) \/ Continue(t, l), call' = call,
           l \notin {"flush", "send", "drain", "sent", "failed"},
           lock' = lock \/ Release(t, "io") \/ ReleaseAll(t)
    PROVE  LockInv'
<1>1. \A k \in {"io", "send"} : lock'[k] \in {lock[k], Leave(lock[k], t)}
    BY Left, LeftAll
<1> QED
    BY <1>1, Moved, OutKeep

LEMMA AcquireKeeps ==
    ASSUME TypeOK, LockInv, NEW t \in Task, NEW l \in Location, Acquire(t, "io", l),
           call' = call, l \notin {"flush", "send", "drain", "sent", "failed"}
    PROVE  LockInv'
BY Acquired, OutKeep

LEMMA LockOpens == ASSUME TypeOK, LockInv, Opens PROVE LockInv'
<1> USE DEF Location
<1>1. "open" \in Task /\ "open" \in {"open", "user"}
    BY Tasks
<1>2. CASE OpenBegin
    <2>1. OpenMessage \in Message /\ OpenMessage.type # "data"
        BY DEF OpenMessage, Message
    <2> QED
        BY <1>1, <1>2, <2>1, SendStarts, SendingKeeps DEF OpenBegin
<1>3. CASE OpenSent
    <2>1. pc'["open"] = "await" /\ \A r \in Task : r # "open" => pc'[r] = pc[r]
        BY <1>1, <1>3, TypeParts DEF OpenSent
    <2> QED
        BY <1>1, <1>3, <2>1, OutKeep DEF OpenSent
<1>4. CASE OpenAccepted
    <2> DEFINE s == [session EXCEPT !.opened = TRUE, !.registered = TRUE]
    <2>1. s \in Session /\ "CANCELLED" \in Reason
        BY TypeParts DEF Session, Reason
    <2>2. \/ SendClose("open", "CANCELLED", s)
          \/ Acquire("open", "io", "openlock") /\ call' = call
        BY <1>4 DEF OpenAccepted
    <2> HIDE DEF s
    <2> QED
        BY <1>1, <2>1, <2>2, ClosingKeeps, AcquireKeeps
<1>5. CASE OpenRefused \/ OpenTimeout \/ OpenCancelled
    <2>1. /\ Suspend("open", "raised") /\ call' = call
          /\ lock' = lock \/ ReleaseAll("open")
        BY <1>5 DEF OpenRefused, OpenTimeout, OpenCancelled
    <2> QED
        BY <1>1, <2>1, SuspendKeeps
<1>7. CASE OpenUnregistered
    BY <1>1, <1>7, Unregistered, SuspendKeeps
<1>6. CASE OpenFlush
    BY <1>1, <1>6, EnteringKeeps, TypeParts DEF OpenFlush, Session
<1> QED
    BY <1>2, <1>3, <1>4, <1>5, <1>6, <1>7 DEF Opens

LEMMA LockUser == ASSUME TypeOK, LockInv, Writes \/ Finishes \/ UserAbort PROVE LockInv'
<1> USE DEF Location
<1>1. "open" \in Task /\ "user" \in Task /\ "user" \in {"open", "user"}
    BY Tasks
<1>2. session \in Session /\ ChunkSizes \subseteq Nat
    BY TypeParts, AudioAssumption
<1>3. ASSUME Conclude, call' = call PROVE LockInv'
    BY <1>1, <1>3, SuspendKeeps DEF Conclude
<1>4. CASE WriteCall
    BY <1>1, <1>4, AcquireKeeps DEF WriteCall
<1>5. CASE WriteBody
    <2>1. CASE Release("user", "io") /\ Suspend("user", "cancel")
        BY <1>1, <1>5, <2>1, SuspendKeeps DEF WriteBody
    <2>2. CASE \E n \in ChunkSizes : EnterFlush("user", FALSE, Framed(session, n))
        <3>1. PICK n \in Nat : EnterFlush("user", FALSE, Framed(session, n))
            BY <1>2, <2>2
        <3>2. Framed(session, n) \in Session
            BY <1>2, Framing
        <3> QED
            BY <1>1, <1>5, <3>1, <3>2, EnteringKeeps DEF WriteBody
    <2> QED
        BY <1>5, <2>1, <2>2 DEF WriteBody
<1>6. CASE FinishCall
    BY <1>1, <1>3, <1>6, AcquireKeeps DEF FinishCall
<1>7. CASE FinishEnding
    <2>1. pc'["user"] = "join" /\ \A r \in Task : r # "user" => pc'[r] = pc[r]
        BY <1>1, <1>7, TypeParts DEF FinishEnding
    <2>2. lock'["send"] = lock["send"] /\ lock'["io"] = Leave(lock["io"], "user")
        BY <1>1, <1>7, Left DEF FinishEnding
    <2> QED
        BY <1>1, <1>7, <2>1, <2>2, OutKeep DEF FinishEnding
<1>8. CASE FinishJoin
    <2>1. /\ \/ Suspend("user", "cancel") /\ UNCHANGED lock
             \/ Conclude \/ Acquire("user", "io", "eoslock")
          /\ call' = call
        BY <1>8 DEF FinishJoin
    <2> QED
        BY <1>1, <1>3, <2>1, SuspendKeeps, AcquireKeeps
<1>9. CASE FinishEos
    BY <1>1, <1>2, <1>9, EnteringKeeps DEF FinishEos
<1>10. CASE FinishReturn
    BY <1>3, <1>10 DEF FinishReturn
<1>11. CASE FinishTimeout
    BY <1>1, <1>2, <1>11, ClosingKeeps DEF FinishTimeout, Reason
<1>12. CASE UserAbort
    <2>1. CASE ReleaseAll("user") /\ pc' = [pc EXCEPT !["user"] = "cancel"]
        <3>1. pc'["user"] = "cancel" /\ \A r \in Task : r # "user" => pc'[r] = pc[r]
            BY <1>1, <2>1, TypeParts
        <3> QED
            BY <1>1, <1>12, <2>1, <3>1, LeftAll, OutKeep DEF UserAbort
    <2>2. CASE lock' = lock /\ pc' = [pc EXCEPT !["open"] = IF @ = "begin" THEN "raised"
                                                           ELSE "cancelled"]
        <3>1. /\ pc'["open"] \in {"raised", "cancelled"}
              /\ \A r \in Task : r # "open" => pc'[r] = pc[r]
            BY <1>1, <2>2, TypeParts
        <3> QED
            BY <1>1, <1>12, <2>2, <3>1, OutKeep DEF UserAbort
    <2> QED
        BY <1>12, <2>1, <2>2 DEF UserAbort
<1> QED
    BY <1>4, <1>5, <1>6, <1>7, <1>8, <1>9, <1>10, <1>11, <1>12 DEF Writes, Finishes

LEMMA LockCancels ==
    ASSUME TypeOK, LockInv, NEW t \in Cancellers \cup {"user"}, Cancels(t) PROVE LockInv'
<1> DEFINE s == [session EXCEPT !.ending = TRUE, !.cancelled = TRUE]
<1>1. t \in Task /\ session \in Session /\ s \in Session /\ "CANCELLED" \in Reason
    BY Tasks, TypeParts DEF Session, Reason
<1>2. \/ Suspend(t, "done") /\ UNCHANGED <<call, lock>>
      \/ Suspend(t, "openwait") /\ UNCHANGED <<call, lock>>
      \/ SendClose(t, "CANCELLED", s) \/ SendClose(t, "CANCELLED", session)
    BY DEF Cancels, CancelCall, CancelJoin, CancelGiveUp
<1> HIDE DEF s
<1>3. "done" \in Location /\ "openwait" \in Location
    BY DEF Location
<1> QED
    BY <1>1, <1>2, <1>3, ClosingKeeps, SuspendKeeps

LEMMA LockReader == ASSUME TypeOK, LockInv, ReaderSteps PROVE LockInv'
<1>1. /\ "reader" \in Task /\ session \in Session /\ "NORMAL" \in Reason
      /\ "idle" \in Location
    BY Tasks, TypeParts DEF Reason, Location
<1>2. \/ SendClose("reader", "NORMAL", session)
      \/ Suspend("reader", "idle") /\ UNCHANGED <<call, lock>>
    BY DEF ReaderSteps, ReaderResponse, ReaderAck, ReaderClose
<1> QED
    BY <1>1, <1>2, ClosingKeeps, SuspendKeeps

LEMMA LockStep == TypeOK /\ LockInv /\ [Next]_vars => LockInv'
<1> SUFFICES ASSUME TypeOK, LockInv, [Next]_vars PROVE LockInv'
    OBVIOUS
<1>1. CASE ConnClose
    <2>1. /\ pc'["reader"] = pc["reader"] \/ pc'["reader"] = "stopped"
          /\ \A r \in Task : r # "reader" => pc'[r] = pc[r]
          /\ UNCHANGED <<call, lock>> /\ "reader" \in Task
        BY <1>1, TypeParts, Tasks DEF ConnClose
    <2> QED
        BY <2>1, OthersKeep
        DEF InFlush, InTransmission, Holds, LockInv, FlushExclusive, SendExclusive
<1>2. CASE UNCHANGED <<pc, call, lock>>
    BY <1>2 DEF LockInv, FlushExclusive, SendExclusive, InFlush, InTransmission, Holds
<1>3. CASE ConnLost \/ TvAnswer \/ TvAck \/ TvClose \/ Terminated \/ UNCHANGED vars
    BY <1>2, <1>3 DEF ConnLost, TvAnswer, TvAck, TvClose, TvStep, Terminated, vars
<1>4. ASSUME NEW t \in Cancellers, CancelAbort(t) PROVE LockInv'
    <2>1. /\ t \in Task /\ pc'[t] \in {"unsent", "done"}
          /\ \A r \in Task : r # t => pc'[r] = pc[r] /\ call'[r] = call[r]
          /\ \A l \in {"io", "send"} : lock'[l] = Leave(lock[l], t)
        BY <1>4, Aborted
    <2> QED
        BY <2>1, OutKeep
<1> QED
    BY <1>1, <1>3, <1>4, LockSends, LockFlushes, LockOpens, LockUser, LockCancels,
       LockReader DEF Next

LEMMA LockInvariant == Spec => []LockInv
<1>1. Init => LockInv
    BY DEF Init, LockInv, FlushExclusive, SendExclusive, InFlush, InTransmission
<1> QED
    BY <1>1, LockStep, TypeCorrect, PTL DEF Spec

\* At most one task at a time is inside _flush_locked, and it holds the io
\* lock, however many tasks cancel the session and wherever they interleave.
THEOREM FlushIsExclusive == Spec => []FlushExclusive
<1>1. LockInv => FlushExclusive
    BY DEF LockInv
<1> QED
    BY <1>1, LockInvariant, PTL

\* At most one message at a time is on its way through drain(), and its task
\* holds the send lock.
THEOREM SendIsExclusive == Spec => []SendExclusive
<1>1. LockInv => SendExclusive
    BY DEF LockInv
<1> QED
    BY <1>1, LockInvariant, PTL

-----------------------------------------------------------------------------
(* What has been written so far.                                           *)

Latest(S) == CHOOSE j \in S : \A k \in S : k <= j

WireData == DataBefore(Len(wire))

\* The number of the frame that is due on the wire.
Due == IF WireData = {} THEN 0
       ELSE wire[Latest(WireData)].sequence + wire[Latest(WireData)].count

EosOnWire == WireData # {} /\ wire[Latest(WireData)].eos

NoClose == \A i \in DOMAIN wire : wire[i].type # "close"

LEMMA WireSame ==
    ASSUME wire' = wire
    PROVE  Due' = Due /\ EosOnWire' = EosOnWire /\ NoClose' = NoClose
BY DEF Due, EosOnWire, NoClose, WireData, DataBefore

\* What an append makes of the sequence and of the data in it.
LEMMA WireAppended ==
    ASSUME wire \in Seq(Message), NEW m \in Message, wire' = Append(wire, m)
    PROVE  /\ Len(wire) \in Nat /\ Len(wire') = Len(wire) + 1
           /\ DOMAIN wire = 1..Len(wire) /\ DOMAIN wire' = 1..Len(wire) + 1
           /\ wire'[Len(wire) + 1] = m
           /\ \A i \in 1..Len(wire) : wire'[i] = wire[i]
           /\ NoClose' => NoClose /\ m.type # "close"
           /\ \A n \in 0..Len(wire) : DataBefore(n)' = DataBefore(n)
           /\ WireData' = IF m.type = "data" THEN WireData \cup {Len(wire) + 1}
                          ELSE WireData
<1>1. /\ Len(wire) \in Nat /\ Len(wire') = Len(wire) + 1
      /\ DOMAIN wire = 1..Len(wire) /\ DOMAIN wire' = 1..Len(wire) + 1
      /\ wire'[Len(wire) + 1] = m
      /\ \A i \in 1..Len(wire) : wire'[i] = wire[i]
    OBVIOUS
<1>2. NoClose' => NoClose /\ m.type # "close"
    BY <1>1 DEF NoClose
<1>3. WireData' = {i \in 1..Len(wire) + 1 : wire'[i].type = "data"}
    BY <1>1 DEF WireData, DataBefore
<1>4. WireData = {i \in 1..Len(wire) : wire[i].type = "data"}
    BY DEF WireData, DataBefore
<1>5. 1..Len(wire) + 1 = (1..Len(wire)) \cup {Len(wire) + 1}
    BY <1>1
<1>6. WireData' = IF m.type = "data" THEN WireData \cup {Len(wire) + 1} ELSE WireData
    BY <1>1, <1>3, <1>4, <1>5
<1>7. ASSUME NEW n \in 0..Len(wire) PROVE DataBefore(n)' = DataBefore(n)
    <2>1. \A i \in 1..n : wire'[i] = wire[i]
        BY <1>1
    <2> QED
        BY <2>1 DEF DataBefore
<1> QED
    BY <1>1, <1>2, <1>6, <1>7

\* The data before any place has a latest.
HasLatest ==
    \A n \in 0..Len(wire) : DataBefore(n) # {} => Latest(DataBefore(n)) \in DataBefore(n)

LEMMA OrderSame ==
    ASSUME wire' = wire
    PROVE  (HasLatest => HasLatest') /\ (DataOrdered => DataOrdered')
<1>1. \A n : DataBefore(n)' = DataBefore(n)
    BY DEF DataBefore
<1>2. HasLatest => HasLatest'
    BY <1>1 DEF HasLatest
<1>3. DataOrdered => DataOrdered'
    BY <1>1 DEF DataOrdered
<1> QED
    BY <1>2, <1>3

LEMMA LatestAdded ==
    ASSUME NEW n \in Nat, NEW S \in SUBSET (1..n)
    PROVE  Latest(S \cup {n + 1}) = n + 1
<1>1. n + 1 \in S \cup {n + 1} /\ \A k \in S \cup {n + 1} : k <= n + 1
    OBVIOUS
<1>2. \A j \in S \cup {n + 1} : (\A k \in S \cup {n + 1} : k <= j) => j = n + 1
    OBVIOUS
<1> QED
    BY <1>1, <1>2 DEF Latest

LEMMA LatestKept ==
    ASSUME HasLatest, wire \in Seq(Message), NEW m \in Message, wire' = Append(wire, m)
    PROVE  HasLatest'
<1> SUFFICES ASSUME NEW n \in 0..Len(wire'), DataBefore(n)' # {}
             PROVE  Latest(DataBefore(n)') \in DataBefore(n)'
    BY DEF HasLatest, Latest
<1>1. CASE n \in 0..Len(wire)
    BY <1>1, WireAppended DEF HasLatest
<1>2. CASE n = Len(wire) + 1
    <2>1. DataBefore(n)' = WireData'
        BY <1>2, WireAppended DEF WireData
    <2>2. WireData \in SUBSET (1..Len(wire)) /\ Len(wire) \in Nat
        BY WireAppended DEF WireData, DataBefore
    <2>3. CASE m.type = "data"
        BY <2>1, <2>2, <2>3, WireAppended, LatestAdded
    <2>4. CASE m.type # "data"
        <3>1. DataBefore(n)' = DataBefore(Len(wire))
            BY <2>1, <2>4, WireAppended DEF WireData
        <3> QED
            BY <2>2, <3>1 DEF HasLatest
    <2> QED
        BY <2>3, <2>4
<1> QED
    BY <1>1, <1>2, WireAppended

\* A message without audio leaves the next number as it is.
LEMMA WireOther ==
    ASSUME HasLatest, wire \in Seq(Message), NEW m \in Message,
           wire' = Append(wire, m), m.type # "data"
    PROVE  Due' = Due /\ EosOnWire' = EosOnWire
<1>1. WireData' = WireData
    BY WireAppended
<1>2. \A i \in WireData : wire'[i] = wire[i]
    BY WireAppended DEF WireData, DataBefore
<1>3. WireData # {} => Latest(WireData) \in WireData
    BY WireAppended DEF HasLatest, WireData
<1> QED
    BY <1>1, <1>2, <1>3 DEF Due, EosOnWire

LEMMA WireEvent ==
    ASSUME wire \in Seq(Message), NEW m \in Message,
           wire' = Append(wire, m), m.type = "data"
    PROVE  Due' = m.sequence + m.count /\ (EosOnWire' <=> m.eos)
<1>1. Latest(WireData') = Len(wire) + 1 /\ WireData' # {}
    <2>1. WireData \in SUBSET (1..Len(wire)) /\ Len(wire) \in Nat
        BY WireAppended DEF WireData, DataBefore
    <2> QED
        BY <2>1, WireAppended, LatestAdded
<1>2. wire'[Len(wire) + 1] = m
    BY WireAppended
<1> QED
    BY <1>1, <1>2 DEF Due, EosOnWire

\* An event that has the number that is due keeps the data in order.
LEMMA OrderKept ==
    ASSUME HasLatest, DataOrdered, wire \in Seq(Message), NEW m \in Message,
           wire' = Append(wire, m),
           (m.type = "data" /\ NoClose)
               => m.audio = m.sequence /\ m.sequence = Due /\ ~EosOnWire
    PROVE  DataOrdered'
<1> SUFFICES ASSUME NEW i \in DOMAIN wire', wire'[i].type = "data",
                    \A j \in 1..i : wire'[j].type # "close"
             PROVE  /\ wire'[i].audio = wire'[i].sequence
                    /\ IF DataBefore(i - 1)' = {} THEN wire'[i].sequence = 0
                       ELSE /\ wire'[i].sequence
                                 = wire'[Latest(DataBefore(i - 1)')].sequence
                                   + wire'[Latest(DataBefore(i - 1)')].count
                            /\ ~wire'[Latest(DataBefore(i - 1)')].eos
    BY DEF DataOrdered, Latest
<1>1. /\ Len(wire) \in Nat /\ i \in 1..Len(wire) + 1 /\ DOMAIN wire = 1..Len(wire)
      /\ i - 1 \in 0..Len(wire) /\ DataBefore(i - 1)' = DataBefore(i - 1)
      /\ \A j \in 1..Len(wire) : wire'[j] = wire[j]
    BY WireAppended
<1>2. DataBefore(i - 1) # {} =>
          wire'[Latest(DataBefore(i - 1))] = wire[Latest(DataBefore(i - 1))]
    <2>1. DataBefore(i - 1) \subseteq 1..Len(wire)
        BY <1>1 DEF DataBefore
    <2> QED
        BY <1>1, <2>1 DEF HasLatest
<1>3. CASE i = Len(wire) + 1
    <2>1. wire'[i] = m /\ DataBefore(i - 1) = WireData
        BY <1>1, <1>3, WireAppended DEF WireData
    <2>2. NoClose
        BY <1>1, <1>3 DEF NoClose
    <2> QED
        BY <1>1, <1>2, <2>1, <2>2 DEF Due, EosOnWire
<1>4. CASE i \in 1..Len(wire)
    <2>1. wire'[i] = wire[i] /\ \A j \in 1..i : wire[j].type # "close"
        BY <1>1, <1>4
    <2>2. /\ wire[i].audio = wire[i].sequence
          /\ IF DataBefore(i - 1) = {} THEN wire[i].sequence = 0
             ELSE /\ wire[i].sequence = wire[Latest(DataBefore(i - 1))].sequence
                                        + wire[Latest(DataBefore(i - 1))].count
                  /\ ~wire[Latest(DataBefore(i - 1))].eos
        BY <1>1, <1>4, <2>1 DEF DataOrdered, Latest
    <2> QED
        BY <1>1, <1>2, <1>4, <2>1, <2>2
<1>5. i = Len(wire) + 1 \/ i \in 1..Len(wire)
    BY <1>1
<1> QED
    BY <1>3, <1>4, <1>5

-----------------------------------------------------------------------------
(* Most steps neither number a frame nor write a message.                  *)

SameData ==
    /\ session'.sequence = session.sequence /\ session'.frames = session.frames
    /\ session'.encoded = session.encoded /\ session'.eosSent = session.eosSent
    /\ session'.force = session.force
    /\ session.ending => session'.ending
    /\ session.closed => session'.closed

\* A step of t that is no part of a flush, or leaves one.
Plain(t) ==
    /\ \A r \in Task : r # t => pc'[r] = pc[r] /\ call'[r] = call[r]
    /\ call'[t] = call[t] \/ call'[t].type # "data"
    /\ SameData /\ wire' = wire
    /\ conn'.state = "up" => conn.state = "up"

LEMMA PlainClosing ==
    ASSUME TypeOK, NEW t \in Task, NEW reason \in Reason, NEW s \in Session,
           SendClose(t, reason, s), wire' = wire, conn'.state = conn.state,
           SameButEnd(session, s)
               \/ SameButEnd([session EXCEPT !.opened = TRUE, !.registered = TRUE], s)
               \/ SameButEnd([session EXCEPT !.ending = TRUE, !.cancelled = TRUE], s),
           session.closed => s.closed
    PROVE  Plain(t)
<1>1. /\ \A r \in Task : r # t => pc'[r] = pc[r] /\ call'[r] = call[r]
      /\ call'[t] = call[t] \/ call'[t].type # "data"
    <2>1. Sending(t, CloseMessage(reason)) \/ Walking(t, AfterClose(t))
        BY Closing
    <2> QED
        BY <2>1 DEF Sending, Walking, CloseMessage
<1>2. /\ s.sequence = session.sequence /\ s.frames = session.frames
      /\ s.encoded = session.encoded /\ s.eosSent = session.eosSent
      /\ s.force = session.force /\ (session.ending => s.ending)
    BY TypeParts DEF SameButEnd, Session
<1>3. SameButEnd(s, session') /\ (s.closed => session'.closed)
    BY Closing
<1> QED
    BY <1>1, <1>2, <1>3 DEF Plain, SameData, SameButEnd

LEMMA PlainSends ==
    ASSUME TypeOK, NEW t \in Task, Drained(t) \/ CloseSent(t) \/ SendFailed(t)
    PROVE  Plain(t)
<1>1. AfterClose(t) \in Location
    BY DEF AfterClose, Location
<1>2. \A r \in Task : r # t => pc'[r] = pc[r]
    BY <1>1, Moved DEF Drained, CloseSent, SendFailed, Location
<1>3. UNCHANGED <<call, wire>> /\ (conn'.state = "up" => conn.state = "up")
    BY DEF Drained, CloseSent, SendFailed
<1>4. SameData
    <2>1. session' \in {session, Fail(session), MarkDone(session)}
              \/ session' \in {Fail([session EXCEPT !.closeSent = TRUE]),
                               MarkDone([session EXCEPT !.closeSent = TRUE])}
        BY DEF Drained, CloseSent, SendFailed
    <2> QED
        BY <2>1, TypeParts DEF SameData, Fail, MarkDone, Session
<1> QED
    BY <1>2, <1>3, <1>4 DEF Plain

LEMMA PlainFlushes ==
    ASSUME TypeOK, NEW t \in {"open", "user"},
           FlushEnd(t) \/ (FlushSent(t) /\ ~call[t].eos)
    PROVE  Plain(t)
<1>1. t \in Task /\ AfterFlush(t, session.force) \in Location /\ "flush" \in Location
    BY Tasks DEF AfterFlush, Location
<1>2. \A r \in Task : r # t => pc'[r] = pc[r]
    BY <1>1, Moved DEF FlushEnd, FlushSent
<1> QED
    BY <1>2 DEF Plain, SameData, FlushEnd, FlushSent

LEMMA PlainOpens ==
    ASSUME TypeOK, \/ OpenBegin \/ OpenSent \/ OpenAccepted \/ OpenUnregistered
                   \/ OpenRefused \/ OpenTimeout \/ OpenCancelled
    PROVE  Plain("open")
<1>1. "open" \in Task
    BY Tasks
<1>2. CASE OpenBegin
    <2>1. Sending("open", OpenMessage)
        BY <1>1, <1>2, SendStarts DEF OpenBegin, Message
    <2> QED
        BY <1>2, <2>1 DEF OpenBegin, Plain, SameData, Sending, OpenMessage
<1>3. CASE OpenSent
    BY <1>1, <1>3, TypeParts DEF OpenSent, Plain, SameData
<1>4. CASE OpenAccepted
    <2> DEFINE s == [session EXCEPT !.opened = TRUE, !.registered = TRUE]
    <2>1. s \in Session /\ "CANCELLED" \in Reason /\ SameButEnd(s, s)
          /\ s.closed = session.closed
        BY TypeParts DEF Session, Reason, SameButEnd
    <2>2. CASE SendClose("open", "CANCELLED", s)
        <3>1. wire' = wire /\ conn'.state = conn.state
            BY <1>4, TypeParts DEF OpenAccepted, TypeOK
        <3> QED
            BY <1>1, <2>1, <2>2, <3>1, PlainClosing
    <2>3. CASE session' = s /\ Acquire("open", "io", "openlock") /\ call' = call
        <3>1. \A r \in Task : r # "open" => pc'[r] = pc[r]
            BY <1>1, <2>3, Acquired DEF Location
        <3>2. SameData
            BY <2>3, TypeParts DEF SameData, Session
        <3>3. wire' = wire /\ conn'.state = conn.state
            BY <1>4, TypeParts DEF OpenAccepted, TypeOK
        <3> QED
            BY <2>3, <3>1, <3>2, <3>3 DEF Plain
    <2> QED
        BY <1>4, <2>2, <2>3 DEF OpenAccepted
<1>5. CASE OpenRefused \/ OpenTimeout \/ OpenCancelled
    <2>1. \A r \in Task : r # "open" => pc'[r] = pc[r]
        BY <1>1, <1>5, Moved DEF OpenRefused, OpenTimeout, OpenCancelled, Location
    <2>2. SameData
        BY <1>5, TypeParts
        DEF OpenRefused, OpenTimeout, OpenCancelled, SameData, Fail, Session
    <2>3. UNCHANGED <<call, wire>> /\ conn'.state = conn.state
        BY <1>5 DEF OpenRefused, OpenTimeout, OpenCancelled, TypeOK
    <2> QED
        BY <2>1, <2>2, <2>3 DEF Plain
<1>6. CASE OpenUnregistered
    <2>1. \A r \in Task : r # "open" => pc'[r] = pc[r]
        BY <1>1, <1>6, Unregistered, Moved
    <2>2. SameData
        BY <1>6, Unregistered, TypeParts DEF SameData, SameButEnd, Session
    <2>3. UNCHANGED <<call, wire>> /\ conn'.state = conn.state
        BY <1>6, Unregistered DEF TypeOK
    <2> QED
        BY <2>1, <2>2, <2>3 DEF Plain
<1> QED
    BY <1>2, <1>3, <1>4, <1>5, <1>6

LEMMA PlainUser ==
    ASSUME TypeOK, WriteCall \/ FinishCall \/ FinishJoin \/ FinishReturn \/ FinishTimeout
    PROVE  Plain("user")
<1>1. "user" \in Task
    BY Tasks
<1>2. CASE FinishTimeout
    <2>1. session \in Session /\ "TIMEOUT" \in Reason /\ SameButEnd(session, session)
        BY TypeParts DEF Reason, SameButEnd
    <2>2. UNCHANGED <<wire, conn>> /\ SendClose("user", "TIMEOUT", session)
        BY <1>2 DEF FinishTimeout
    <2> QED
        BY <1>1, <2>1, <2>2, PlainClosing
<1>3. CASE WriteCall \/ FinishCall \/ FinishJoin \/ FinishReturn
    <2>1. /\ UNCHANGED <<call, session, conn, wire>>
          /\ \E l \in Location : \/ Suspend("user", l) \/ Acquire("user", "io", l)
        BY <1>3 DEF WriteCall, FinishCall, FinishJoin, FinishReturn, Conclude, Location
    <2>2. \A r \in Task : r # "user" => pc'[r] = pc[r]
        BY <1>1, <2>1, Moved, Acquired
    <2> QED
        BY <2>1, <2>2 DEF Plain, SameData
<1> QED
    BY <1>2, <1>3

LEMMA PlainAbort ==
    ASSUME TypeOK, UserAbort
    PROVE  \/ Plain("user") /\ pc'["user"] = "cancel"
           \/ /\ Plain("open") /\ pc'["open"] \in {"raised", "cancelled"}
              /\ pc["user"] = "join" /\ lock' = lock /\ session' = session
<1>1. "open" \in Task /\ "user" \in Task
    BY Tasks
<1>2. UNCHANGED <<call, wire, conn>> /\ SameData
    <2>1. UNCHANGED <<call, wire, conn>> /\ session' \in {session, Fail(session)}
        BY DEF UserAbort
    <2>2. session \in Session
        BY TypeParts
    <2>3. SameButEnd(session, session) /\ SameButEnd(session, Fail(session))
        BY <2>2, Ends DEF SameButEnd
    <2>4. Fail(session).closed = TRUE
        BY <2>2, Ends
    <2> QED
        BY <2>1, <2>3, <2>4 DEF SameButEnd, SameData
<1> QED
    BY <1>1, <1>2, TypeParts DEF UserAbort, Plain

LEMMA PlainCancels ==
    ASSUME TypeOK, NEW t \in Cancellers \cup {"user"}, Cancels(t) PROVE Plain(t)
<1> DEFINE s == [session EXCEPT !.ending = TRUE, !.cancelled = TRUE]
<1>1. /\ t \in Task /\ session \in Session /\ s \in Session /\ "CANCELLED" \in Reason
      /\ SameButEnd(s, s) /\ SameButEnd(session, session) /\ s.closed = session.closed
    BY Tasks, TypeParts DEF Session, Reason, SameButEnd
<1>2. UNCHANGED <<conn, wire>>
    BY DEF Cancels, CancelCall, CancelJoin, CancelGiveUp
<1>3. CASE SendClose(t, "CANCELLED", s) \/ SendClose(t, "CANCELLED", session)
    BY <1>1, <1>2, <1>3, PlainClosing
<1>4. CASE /\ Suspend(t, "done") \/ Suspend(t, "openwait")
           /\ call' = call /\ session' \in {session, s}
    <2>1. \A r \in Task : r # t => pc'[r] = pc[r]
        BY <1>1, <1>4, Moved DEF Location
    <2>2. SameData
        BY <1>4, TypeParts DEF SameData, Session
    <2> QED
        BY <1>2, <1>4, <2>1, <2>2 DEF Plain
<1> QED
    BY <1>3, <1>4 DEF Cancels, CancelCall, CancelJoin, CancelGiveUp

LEMMA PlainAborted ==
    ASSUME TypeOK, NEW t \in Cancellers, CancelAbort(t)
    PROVE  Plain(t) /\ t \in Task \ {"open", "user"}
<1>1. SameData
    BY Aborted DEF SameData, SameButEnd
<1> QED
    BY <1>1, Aborted DEF Plain

LEMMA PlainReader ==
    ASSUME TypeOK, ReaderSteps \/ ConnClose \/ ConnLost \/ TvAnswer \/ TvAck \/ TvClose
                   \/ Terminated \/ UNCHANGED vars
    PROVE  Plain("reader")
<1>1. /\ "reader" \in Task /\ session \in Session /\ "NORMAL" \in Reason
      /\ SameButEnd(session, session)
    BY Tasks, TypeParts DEF Reason, SameButEnd
<1>2. CASE SendClose("reader", "NORMAL", session) /\ UNCHANGED <<wire, conn>>
    BY <1>1, <1>2, PlainClosing
<1>3. CASE /\ Suspend("reader", "idle") /\ UNCHANGED <<call, wire>>
           /\ session' \in {session, Fail(session), MarkDone(session)}
           /\ conn'.state = conn.state
    <2>1. \A r \in Task : r # "reader" => pc'[r] = pc[r]
        BY <1>1, <1>3, Moved DEF Location
    <2>2. SameData
        BY <1>3, TypeParts DEF SameData, Fail, MarkDone, Session
    <2> QED
        BY <1>3, <2>1, <2>2 DEF Plain
<1>4. CASE ReaderSteps
    <2>1. conn'.state = conn.state
        BY <1>4 DEF ReaderSteps, ReaderResponse, ReaderAck, ReaderClose, TypeOK
    <2> QED
        BY <1>2, <1>3, <1>4, <2>1
        DEF ReaderSteps, ReaderResponse, ReaderAck, ReaderClose
<1>5. CASE ConnClose
    BY <1>1, <1>5, TypeParts DEF ConnClose, Plain, SameData, Fail, Session
<1>6. CASE ConnLost
    BY <1>6 DEF ConnLost, Plain, SameData
<1>7. CASE TvAnswer \/ TvAck \/ TvClose \/ Terminated \/ UNCHANGED vars
    <2>1. UNCHANGED <<pc, call, session, wire, conn>>
        BY <1>7 DEF TvAnswer, TvAck, TvClose, TvStep, Terminated, vars
    <2> QED
        BY <2>1 DEF Plain, SameData
<1> QED
    BY <1>4, <1>5, <1>6, <1>7

-----------------------------------------------------------------------------
(* The end of the utterance, the numbers, and who sends audio.             *)

\* An end of stream is only sent in a session that is ending.
EndingInv ==
    /\ session.eosSent \/ session.force => session.ending
    /\ pc["user"] \in {"join", "eoslock"} => session.ending
    /\ \A t \in Task : call[t].type = "data" /\ call[t].eos => session.ending

\* A frame is sent under the number it was encoded under.
Numbered == session.sequence + session.frames = session.encoded

OnlyFlushers == \A t \in Task : call[t].type = "data" => t \in {"open", "user"}

AudioInv == EndingInv /\ Numbered /\ OnlyFlushers

LEMMA AudioPlain ==
    ASSUME AudioInv, NEW t \in Task, Plain(t),
           pc'["user"] \in {"join", "eoslock"}
               => pc["user"] \in {"join", "eoslock"} \/ session.ending
    PROVE  AudioInv'
<1>1. EndingInv'
    BY DEF AudioInv, EndingInv, Plain, SameData
<1> QED
    BY <1>1 DEF AudioInv, Numbered, OnlyFlushers, Plain, SameData

\* A step of another task than the user's.
LEMMA AudioElsewhere ==
    ASSUME AudioInv, NEW t \in Task, t # "user", Plain(t) PROVE AudioInv'
BY AudioPlain, Tasks DEF Plain

LEMMA AudioSends ==
    ASSUME TypeOK, AudioInv, NEW t \in Task, Sends(t) PROVE AudioInv'
<1>1. CASE Transmit(t)
    <2>1. pc'["user"] \in {"join", "eoslock"} => pc["user"] \in {"join", "eoslock"}
        BY <1>1, Moved, Tasks DEF Transmit, Location
    <2>2. UNCHANGED <<session, call>>
        BY <1>1 DEF Transmit
    <2> QED
        BY <2>1, <2>2 DEF AudioInv, EndingInv, Numbered, OnlyFlushers
<1>2. CASE Drained(t) \/ CloseSent(t) \/ SendFailed(t)
    <2>1. AfterClose(t) \in {"ended", "idle", "cancel", "done"}
        BY DEF AfterClose
    <2>2. pc'[t] \notin {"join", "eoslock"}
        BY <1>2, <2>1, Moved DEF Drained, CloseSent, SendFailed, Location
    <2> QED
        BY <1>2, <2>2, PlainSends, AudioPlain, AudioElsewhere
<1> QED
    BY <1>1, <1>2 DEF Sends

LEMMA AudioFlushes ==
    ASSUME TypeOK, AudioInv, NEW t \in {"open", "user"}, Flushes(t) PROVE AudioInv'
<1>1. /\ t \in Task /\ AfterFlush(t, session.force) \in {"ended", "idle", "waitdone"}
      /\ AfterFlush(t, session.force) \in Location /\ "flush" \in Location
    BY Tasks DEF AfterFlush, Location
<1>2. CASE FlushEvent(t)
    <2>1. Sending(t, Event) /\ Event.eos = (session.force /\ session.frames = Count)
          /\ Count \in Nat
        BY <1>1, <1>2, EventSent DEF Event, DataMessage
    <2>2. /\ session'.sequence = session.sequence + Count
          /\ session'.frames = session.frames - Count
          /\ session'.encoded = session.encoded /\ session'.eosSent = session.eosSent
          /\ session'.force = session.force /\ session'.ending = session.ending
        BY <1>1, <1>2, EventSent, TypeParts DEF Session
    <2>3. Numbered'
        BY <2>1, <2>2, TypeParts DEF AudioInv, Numbered, Session
    <2>4. EndingInv'
        BY <1>1, <2>1, <2>2, Tasks DEF AudioInv, EndingInv, Sending
    <2> QED
        BY <1>1, <2>1, <2>3, <2>4 DEF AudioInv, OnlyFlushers, Sending
<1>3. CASE FlushEos(t)
    <2>1. Sending(t, LastEvent) /\ session' = session /\ session.force
        BY <1>1, <1>3, EosSent DEF FlushEos
    <2>2. EndingInv'
        BY <1>1, <2>1, Tasks DEF AudioInv, EndingInv, Sending
    <2> QED
        BY <1>1, <2>1, <2>2 DEF AudioInv, Numbered, OnlyFlushers, Sending
<1>4. CASE FlushEnd(t) \/ (FlushSent(t) /\ ~call[t].eos)
    <2>1. pc'[t] \notin {"join", "eoslock"}
        BY <1>1, <1>4, Moved DEF FlushEnd, FlushSent
    <2> QED
        BY <1>1, <1>4, <2>1, PlainFlushes, AudioPlain, AudioElsewhere
<1>5. CASE FlushSent(t) /\ call[t].eos
    <2>1. /\ session' = [session EXCEPT !.eosSent = TRUE]
          /\ call' = call /\ call[t].type = "data"
          /\ Suspend(t, AfterFlush(t, session.force))
        BY <1>5 DEF FlushSent
    <2>2. pc'["user"] \in {"join", "eoslock"} => pc["user"] \in {"join", "eoslock"}
        BY <1>1, <2>1, Moved, Tasks
    <2>3. /\ session'.sequence = session.sequence /\ session'.frames = session.frames
          /\ session'.encoded = session.encoded
          /\ session'.force = session.force /\ session'.ending = session.ending
        BY <2>1, TypeParts DEF Session
    <2>4. session.ending
        BY <1>1, <1>5, <2>1 DEF AudioInv, EndingInv
    <2> QED
        BY <2>1, <2>2, <2>3, <2>4 DEF AudioInv, EndingInv, Numbered, OnlyFlushers
<1> QED
    BY <1>2, <1>3, <1>4, <1>5 DEF Flushes

\* The entry of a flush, with the audio that a chunk or nothing has added.
LEMMA AudioEntering ==
    ASSUME TypeOK, AudioInv, NEW t \in {"open", "user"}, NEW force \in BOOLEAN,
           NEW s \in Session, EnterFlush(t, force, s), call' = call,
           force => session.ending, s.sequence + s.frames = s.encoded,
           s.eosSent = session.eosSent, s.force = session.force,
           s.ending = session.ending
    PROVE  AudioInv'
<1>1. t \in Task /\ AfterFlush(t, force) \in {"ended", "idle", "waitdone"}
    BY Tasks DEF AfterFlush
<1>2. pc'["user"] \in {"join", "eoslock"} => pc["user"] \in {"join", "eoslock"}
    BY <1>1, Entering, Tasks
<1>3. /\ session'.sequence + session'.frames = session'.encoded
      /\ session'.eosSent = session.eosSent /\ session'.ending = session.ending
      /\ session'.force \in {session.force, force}
    <2>1. session' = s \/ session' = [s EXCEPT !.force = force]
        BY Entering
    <2> QED
        BY <2>1 DEF Session
<1> QED
    BY <1>2, <1>3 DEF AudioInv, EndingInv, Numbered, OnlyFlushers

LEMMA AudioUser ==
    ASSUME TypeOK, AudioInv, Writes \/ Finishes \/ UserAbort PROVE AudioInv'
<1>1. /\ "open" \in Task /\ "user" \in Task /\ "user" \in {"open", "user"}
      /\ session \in Session /\ ChunkSizes \subseteq Nat
    BY Tasks, TypeParts, AudioAssumption
<1>2. CASE WriteCall \/ FinishCall \/ FinishReturn \/ FinishTimeout
    <2>1. pc'["user"] \notin {"join", "eoslock"}
        <3>1. AfterClose("user") = "cancel"
            BY DEF AfterClose
        <3>2. CASE FinishTimeout
            <4>1. "TIMEOUT" \in Reason /\ SendClose("user", "TIMEOUT", session)
                BY <3>2 DEF FinishTimeout, Reason
            <4> QED
                BY <1>1, <3>1, <4>1, Closing DEF Sending, Walking
        <3>3. CASE WriteCall \/ FinishCall \/ FinishReturn
            <4>1. \E l \in Location \ {"join", "eoslock"} :
                      Suspend("user", l) \/ Acquire("user", "io", l)
                BY <3>3 DEF WriteCall, FinishCall, FinishReturn, Conclude, Location
            <4> QED
                BY <1>1, <4>1, Moved, Acquired
        <3> QED
            BY <1>2, <3>2, <3>3
    <2> QED
        BY <1>1, <1>2, <2>1, PlainUser, AudioPlain
<1>3. CASE FinishJoin
    BY <1>1, <1>3, PlainUser, AudioPlain DEF FinishJoin
<1>4. CASE WriteBody
    <2>1. CASE Release("user", "io") /\ Suspend("user", "cancel") /\ UNCHANGED session
        <3>1. pc'["user"] = "cancel" /\ call' = call
            BY <1>1, <1>4, <2>1, Moved DEF WriteBody, Location
        <3> QED
            BY <2>1, <3>1 DEF AudioInv, EndingInv, Numbered, OnlyFlushers
    <2>2. CASE \E n \in ChunkSizes : EnterFlush("user", FALSE, Framed(session, n))
        <3>1. PICK n \in Nat : EnterFlush("user", FALSE, Framed(session, n))
            BY <1>1, <2>2
        <3> DEFINE s == Framed(session, n)
        <3>2. s \in Session /\ s.sequence + s.frames = s.encoded
              /\ s.eosSent = session.eosSent /\ s.force = session.force
              /\ s.ending = session.ending
            <4>1. PICK k \in Nat : s.frames = session.frames + k
                                   /\ s.encoded = session.encoded + k
                BY <1>1, Framing
            <4>2. /\ s \in Session /\ s.sequence = session.sequence
                  /\ s.eosSent = session.eosSent /\ s.force = session.force
                  /\ s.ending = session.ending
                BY <1>1, Framing
            <4> HIDE DEF s
            <4> QED
                BY <1>1, <4>1, <4>2 DEF AudioInv, Numbered, Session
        <3>3. call' = call /\ FALSE \in BOOLEAN
            BY <1>4 DEF WriteBody
        <3> HIDE DEF s
        <3> QED
            BY <1>1, <3>1, <3>2, <3>3, AudioEntering DEF s
    <2> QED
        BY <1>4, <2>1, <2>2 DEF WriteBody
<1>5. CASE FinishEnding
    <2>1. PICK k \in {0, 1} : /\ Padded(session).frames = session.frames + k
                              /\ Padded(session).encoded = session.encoded + k
        BY <1>1, Padding
    <2>2. /\ Padded(session) \in Session /\ Padded(session).sequence = session.sequence
          /\ session' = [Padded(session) EXCEPT !.ending = TRUE] /\ call' = call
        BY <1>1, <1>5, Padding DEF FinishEnding
    <2>3. /\ session'.sequence = session.sequence /\ session'.ending
          /\ session'.frames = session.frames + k
          /\ session'.encoded = session.encoded + k
        BY <2>1, <2>2 DEF Session
    <2>4. Numbered'
        BY <1>1, <2>3 DEF AudioInv, Numbered, Session
    <2> QED
        BY <2>2, <2>3, <2>4 DEF AudioInv, EndingInv, OnlyFlushers
<1>6. CASE FinishEos
    <2>1. /\ EnterFlush("user", TRUE, session) /\ call' = call /\ session.ending
          /\ session.sequence + session.frames = session.encoded
        BY <1>6 DEF FinishEos, AudioInv, EndingInv, Numbered
    <2> QED
        BY <1>1, <2>1, AudioEntering
<1>7. CASE UserAbort
    BY <1>1, <1>7, PlainAbort, AudioPlain, AudioElsewhere
<1> QED
    BY <1>2, <1>3, <1>4, <1>5, <1>6, <1>7 DEF Writes, Finishes

\* Where a task is after a step of cancel().
LEMMA CancelMoves ==
    ASSUME TypeOK, NEW t \in Cancellers \cup {"user"}, Cancels(t)
    PROVE  /\ \/ pc'[t] \in {"done", "openwait", "cancel"}
              \/ pc'[t] = "send" /\ call'[t].type = "close"
           /\ lock'["io"] = lock["io"]
<1> DEFINE s == [session EXCEPT !.ending = TRUE, !.cancelled = TRUE]
<1>1. t \in Task /\ session \in Session /\ s \in Session /\ "CANCELLED" \in Reason
    BY Tasks, TypeParts DEF Session, Reason
<1>2. \/ Suspend(t, "done") /\ UNCHANGED <<call, lock>>
      \/ Suspend(t, "openwait") /\ UNCHANGED <<call, lock>>
      \/ SendClose(t, "CANCELLED", s) \/ SendClose(t, "CANCELLED", session)
    BY DEF Cancels, CancelCall, CancelJoin, CancelGiveUp
<1> HIDE DEF s
<1>3. CASE Suspend(t, "done") /\ lock' = lock
    BY <1>1, <1>3, Moved DEF Location
<1>4. CASE Suspend(t, "openwait") /\ lock' = lock
    BY <1>1, <1>4, Moved DEF Location
<1>5. CASE SendClose(t, "CANCELLED", s) \/ SendClose(t, "CANCELLED", session)
    <2>1. Sending(t, CloseMessage("CANCELLED")) \/ Walking(t, AfterClose(t))
        BY <1>1, <1>5, Closing
    <2>2. AfterClose(t) \in {"cancel", "done"}
        BY <1>1, Tasks DEF AfterClose
    <2> QED
        BY <2>1, <2>2 DEF Sending, Walking, CloseMessage
<1> QED
    BY <1>2, <1>3, <1>4, <1>5

LEMMA AudioStep == TypeOK /\ AudioInv /\ [Next]_vars => AudioInv'
<1> SUFFICES ASSUME TypeOK, AudioInv, [Next]_vars PROVE AudioInv'
    OBVIOUS
<1>1. CASE Opens
    <2>1. "open" \in Task /\ "open" \in {"open", "user"}
        BY Tasks
    <2>2. CASE OpenFlush
        <3>1. /\ EnterFlush("open", session.ending, session) /\ call' = call
              /\ session \in Session /\ session.ending \in BOOLEAN
              /\ session.sequence + session.frames = session.encoded
            BY <2>2, TypeParts DEF OpenFlush, AudioInv, Numbered, Session
        <3> QED
            BY <2>1, <3>1, AudioEntering
    <2> QED
        BY <1>1, <2>1, <2>2, PlainOpens, AudioElsewhere DEF Opens
<1>2. ASSUME NEW t \in Cancellers \cup {"user"}, Cancels(t) PROVE AudioInv'
    <2>1. t \in Task /\ pc'[t] \notin {"join", "eoslock"}
        BY <1>2, CancelMoves, Tasks
    <2> QED
        BY <1>2, <2>1, PlainCancels, AudioPlain, AudioElsewhere
<1>3. CASE ReaderSteps \/ ConnClose \/ ConnLost \/ TvAnswer \/ TvAck \/ TvClose
           \/ Terminated \/ UNCHANGED vars
    BY <1>3, PlainReader, AudioElsewhere, Tasks
<1>4. ASSUME NEW t \in Cancellers, CancelAbort(t) PROVE AudioInv'
    BY <1>4, PlainAborted, AudioElsewhere
<1> QED
    BY <1>1, <1>2, <1>3, <1>4, AudioSends, AudioFlushes, AudioUser DEF Next

-----------------------------------------------------------------------------
(* The way of _open, and what the user's task does meanwhile.              *)

\* _open has not got its stream id yet.
Opening ==
    \/ pc["open"] \in {"begin", "await"}
    \/ /\ pc["open"] \in {"send", "drain", "sent", "failed"}
       /\ call["open"].type = "open"

\* Nobody waits for the io lock when _open does, so that no flush of the
\* user's task comes before the one of _open.
OpenInv ==
    /\ Opening =>
        /\ ~session.opened
        /\ \/ lock["io"] = <<>>
           \/ /\ lock["io"] = <<"user">> /\ running = "user"
              /\ pc["user"] \in {"writelock", "endlock"}
    /\ pc["open"] = "openlock" => Holds("open", "io")

\* The user's task will not write or finish any more, or waits for _open.
Aborting ==
    \/ pc["user"] \in {"join", "cancel", "openwait", "done"}
    \/ /\ pc["user"] \in {"send", "drain", "sent", "failed"}
       /\ call["user"].type = "close"

RaiseInv ==
    /\ pc["open"] = "cancelled" => pc["user"] = "join"
    /\ pc["open"] = "raised" => session.closed \/ Aborting

WayInv == OpenInv /\ RaiseInv

\* A step of a third task.
LEMMA WayElsewhere ==
    ASSUME TypeOK, WayInv, NEW t \in Task \ {"open", "user"},
           \A r \in Task : r # t => pc'[r] = pc[r] /\ call'[r] = call[r],
           session'.opened = session.opened, session.closed => session'.closed,
           lock'["io"] \in {lock["io"], Leave(lock["io"], t)},
           \/ Runs(t)
           \/ running' = running /\ lock'["io"] = lock["io"]
    PROVE  WayInv'
<1>1. /\ "open" \in Task /\ "user" \in Task /\ Idle # "user" /\ t # "user" /\ t # "open"
      /\ pc'["open"] = pc["open"] /\ pc'["user"] = pc["user"]
      /\ call'["open"] = call["open"] /\ call'["user"] = call["user"]
    BY Tasks
<1>2. RaiseInv'
    BY <1>1 DEF WayInv, RaiseInv, Aborting
<1>3. Leave(<<>>, t) = <<>>
    BY DEF Leave
<1>4. Holds("open", "io") => Holds("open", "io")'
    <2>1. lock["io"] \in Seq(Task) /\ t \in Task /\ "open" # t
        BY <1>1, TypeParts
    <2>2. Holds("open", "io") => /\ Leave(lock["io"], t) # <<>>
                                 /\ Head(Leave(lock["io"], t)) = "open"
        BY <1>1, <2>1, LeaveQueue DEF Holds
    <2> QED
        BY <2>2 DEF Holds
<1>5. Opening' <=> Opening
    BY <1>1 DEF Opening
<1>6. ASSUME Opening
      PROVE  /\ ~session'.opened
             /\ \/ lock'["io"] = <<>>
                \/ /\ lock'["io"] = <<"user">> /\ running' = "user"
                   /\ pc'["user"] \in {"writelock", "endlock"}
    <2>1. CASE Runs(t)
        BY <1>1, <1>3, <1>6, <2>1 DEF WayInv, OpenInv, Runs
    <2>2. CASE running' = running /\ lock'["io"] = lock["io"]
        BY <1>1, <1>6, <2>2 DEF WayInv, OpenInv
    <2> QED
        BY <2>1, <2>2
<1>7. OpenInv'
    BY <1>1, <1>4, <1>5, <1>6 DEF WayInv, OpenInv
<1> QED
    BY <1>2, <1>7 DEF WayInv

\* A step of _open, which finds the io lock free as long as it is opening.
LEMMA WayOfOpen ==
    ASSUME TypeOK, WayInv, Runs("open"),
           \A r \in Task : r # "open" => pc'[r] = pc[r] /\ call'[r] = call[r],
           pc'["open"] \notin {"openlock", "cancelled"},
           pc'["open"] = "raised" => session'.closed,
           session.closed => session'.closed,
           Opening' => /\ Opening /\ session'.opened = session.opened
                       /\ lock'["io"] \in {lock["io"], Leave(lock["io"], "open")}
    PROVE  WayInv'
<1>1. /\ "open" # "user" /\ "user" \in Task /\ Idle # "user"
      /\ pc'["user"] = pc["user"] /\ call'["user"] = call["user"]
    BY Tasks
<1>2. Leave(<<>>, "open") = <<>>
    BY DEF Leave
<1>3. OpenInv'
    BY <1>1, <1>2 DEF WayInv, OpenInv, Runs
<1> QED
    BY <1>1, <1>3 DEF WayInv, RaiseInv

\* A step of the user's task.
LEMMA WayOfUser ==
    ASSUME TypeOK, WayInv, Runs("user"),
           \A r \in Task : r # "user" => pc'[r] = pc[r] /\ call'[r] = call[r],
           session'.opened = session.opened, session.closed => session'.closed,
           lock'["io"] \in {lock["io"], Leave(lock["io"], "user"),
                            Append(lock["io"], "user")},
           Opening =>
               \/ lock'["io"] = Leave(lock["io"], "user")
               \/ /\ pc["user"] \notin {"writelock", "endlock"}
                  /\ \/ lock'["io"] = lock["io"]
                     \/ /\ lock["io"] = <<>> => running' = "user"
                        /\ pc'["user"] \in {"writelock", "endlock"},
           pc["user"] = "join" => OpenDone,
           Aborting /\ pc["open"] = "raised" => Aborting'
    PROVE  WayInv'
<1>1. /\ "open" # "user" /\ "user" \in Task /\ "open" \in Task
      /\ pc'["open"] = pc["open"] /\ call'["open"] = call["open"]
    BY Tasks
<1>2. /\ Leave(<<>>, "user") = <<>> /\ Leave(<<"user">>, "user") = <<>>
      /\ Append(<<>>, "user") = <<"user">>
    BY DEF Leave, RemoveAt
<1>3. Holds("open", "io") => Holds("open", "io")'
    <2>1. lock["io"] \in Seq(Task)
        BY TypeParts
    <2>2. Holds("open", "io") => /\ Leave(lock["io"], "user") # <<>>
                                 /\ Head(Leave(lock["io"], "user")) = "open"
        BY <1>1, <2>1, LeaveQueue DEF Holds
    <2>3. Holds("open", "io") => /\ Append(lock["io"], "user") # <<>>
                                 /\ Head(Append(lock["io"], "user")) = "open"
        BY <2>1 DEF Holds
    <2> QED
        BY <2>2, <2>3 DEF Holds
<1>4. Opening' <=> Opening
    BY <1>1 DEF Opening
<1>5. ASSUME Opening
      PROVE  /\ ~session'.opened
             /\ \/ lock'["io"] = <<>>
                \/ /\ lock'["io"] = <<"user">> /\ running' = "user"
                   /\ pc'["user"] \in {"writelock", "endlock"}
    <2>1. CASE lock["io"] = <<>>
        BY <1>2, <1>5, <2>1 DEF WayInv, OpenInv
    <2>2. CASE lock["io"] = <<"user">> /\ pc["user"] \in {"writelock", "endlock"}
        BY <1>2, <1>5, <2>2 DEF WayInv, OpenInv
    <2> QED
        BY <1>5, <2>1, <2>2 DEF WayInv, OpenInv
<1>6. OpenInv'
    BY <1>1, <1>3, <1>4, <1>5 DEF WayInv, OpenInv
<1>7. RaiseInv'
    BY <1>1 DEF WayInv, RaiseInv, OpenDone
<1> QED
    BY <1>6, <1>7 DEF WayInv

\* The same for a step that leaves the queue of the io lock alone, or leaves it.
LEMMA WayOnward ==
    ASSUME TypeOK, WayInv, Runs("user"),
           \A r \in Task : r # "user" => pc'[r] = pc[r] /\ call'[r] = call[r],
           session'.opened = session.opened, session.closed => session'.closed,
           \/ lock'["io"] = Leave(lock["io"], "user")
           \/ /\ lock'["io"] = lock["io"]
              /\ pc["user"] \notin {"writelock", "endlock"} \/ session.opened,
           pc["user"] = "join" => OpenDone,
           Aborting /\ pc["open"] = "raised" => Aborting'
    PROVE  WayInv'
<1>1. Opening => ~session.opened
    BY DEF WayInv, OpenInv
<1> QED
    BY <1>1, WayOfUser

LEMMA WaySends ==
    ASSUME TypeOK, WayInv, NEW t \in Task, Sends(t) PROVE WayInv'
<1>1. /\ Runs(t) /\ pc[t] \in {"send", "drain", "sent", "failed"}
      /\ call' = call /\ session.opened = session'.opened
      /\ session.closed => session'.closed
    BY TypeParts DEF Sends, Transmit, Drained, CloseSent, SendFailed, Session,
                     Fail, MarkDone
<1>2. /\ AfterClose(t) \in Location
      /\ AfterClose(t) = CASE t = "open" -> "ended" [] t = "reader" -> "idle"
                           [] t = "user" -> "cancel" [] OTHER -> "done"
    BY DEF AfterClose, Location
<1>3. /\ \A r \in Task : r # t => pc'[r] = pc[r]
      /\ \/ pc'[t] \in {"drain", "sent", "failed"}
         \/ pc'[t] = AfterClose(t) /\ call[t].type = "close"
         \/ t = "open" /\ pc'[t] = "raised" /\ session'.closed
         \/ t = "user" /\ pc'[t] = "cancel"
         \/ t = "reader"
    <2>1. CASE Transmit(t)
        BY <2>1, Moved DEF Transmit, Location
    <2>2. CASE Drained(t)
        BY <2>2, Moved DEF Drained, Location
    <2>3. CASE CloseSent(t)
        BY <1>2, <2>3, Moved DEF CloseSent
    <2>4. CASE SendFailed(t)
        <3>1. Fail(session).closed = TRUE
            BY TypeParts, Ends
        <3> QED
            BY <1>2, <2>4, <3>1, Moved, Tasks DEF SendFailed, Location
    <2> QED
        BY <2>1, <2>2, <2>3, <2>4 DEF Sends
<1>4. lock'["io"] \in {lock["io"], Leave(lock["io"], t)}
    <2>1. lock' = lock \/ Release(t, "send") \/ Release(t, "io")
        BY DEF Sends, Transmit, Drained, CloseSent, SendFailed
    <2> QED
        BY <2>1, Left
<1>5. CASE t = "open"
    <2>1. Opening' => Opening
        BY <1>1, <1>2, <1>3, <1>5, Tasks DEF Opening
    <2> QED
        BY <1>1, <1>2, <1>3, <1>4, <1>5, <2>1, WayOfOpen
<1>6. CASE t = "user"
    <2>1. Aborting => Aborting'
        BY <1>1, <1>2, <1>3, <1>6, Tasks DEF Aborting
    <2> QED
        BY <1>1, <1>3, <1>4, <1>6, <2>1, WayOnward
<1>7. CASE t \notin {"open", "user"}
    BY <1>1, <1>3, <1>4, <1>7, WayElsewhere
<1> QED
    BY <1>5, <1>6, <1>7

LEMMA WayFlushes ==
    ASSUME TypeOK, LockInv, WayInv, NEW t \in {"open", "user"}, Flushes(t)
    PROVE  WayInv'
<1>1. /\ t \in Task /\ AfterFlush(t, session.force) \in {"ended", "idle", "waitdone"}
      /\ t = "open" => AfterFlush(t, session.force) = "ended"
      /\ AfterFlush(t, session.force) \in Location /\ "flush" \in Location
    BY Tasks DEF AfterFlush, Location
<1>2. /\ Runs(t) /\ InFlush(t) /\ session'.opened = session.opened
      /\ session.closed => session'.closed
    BY TypeParts DEF Flushes, FlushEvent, FlushEos, FlushEnd, FlushSent, InFlush, Session
<1>3. /\ \A r \in Task : r # t => pc'[r] = pc[r] /\ call'[r] = call[r]
      /\ lock'["io"] \in {lock["io"], Leave(lock["io"], t)}
      /\ \/ pc'[t] = "send" /\ call'[t].type = "data"
         \/ pc'[t] = "flush"
         \/ pc'[t] = AfterFlush(t, session.force)
    <2>1. CASE FlushEvent(t)
        <3>1. Event.type = "data" /\ Sending(t, Event)
            BY <1>1, <2>1, EventSent DEF Event, DataMessage
        <3> QED
            BY <3>1 DEF Sending
    <2>2. CASE FlushEos(t)
        <3>1. LastEvent.type = "data" /\ Sending(t, LastEvent)
            BY <1>1, <2>2, EosSent DEF LastEvent, DataMessage
        <3> QED
            BY <3>1 DEF Sending
    <2>3. CASE FlushEnd(t)
        BY <1>1, <2>3, Moved, Left DEF FlushEnd
    <2>4. CASE FlushSent(t)
        BY <1>1, <2>4, Moved, Left DEF FlushSent
    <2> QED
        BY <2>1, <2>2, <2>3, <2>4 DEF Flushes
<1>4. CASE t = "open"
    <2>1. ~Opening'
        BY <1>1, <1>3, <1>4 DEF Opening
    <2> QED
        BY <1>1, <1>2, <1>3, <1>4, <2>1, WayOfOpen
<1>5. CASE t = "user"
    <2>1. pc["user"] \notin {"writelock", "endlock", "join"} /\ ~Aborting
        BY <1>2, <1>5 DEF InFlush, Aborting
    <2> QED
        BY <1>2, <1>3, <1>5, <2>1, WayOnward
<1> QED
    BY <1>4, <1>5

LEMMA WayOpens == ASSUME TypeOK, WayInv, Opens PROVE WayInv'
<1>1. "open" \in Task /\ "open" \in {"open", "user"} /\ "open" # "user"
    BY Tasks
<1>2. CASE OpenBegin
    <2>1. Sending("open", OpenMessage)
        BY <1>1, <1>2, SendStarts DEF OpenBegin, Message
    <2>2. Opening /\ Runs("open") /\ session' = session
        BY <1>2 DEF OpenBegin, Opening
    <2> QED
        BY <2>1, <2>2, WayOfOpen DEF Sending
<1>3. CASE OpenSent
    <2>1. /\ Opening /\ Runs("open") /\ UNCHANGED <<call, lock, session>>
          /\ pc'["open"] = "await" /\ \A r \in Task : r # "open" => pc'[r] = pc[r]
        BY <1>1, <1>3, TypeParts DEF OpenSent, Opening
    <2> QED
        BY <2>1, WayOfOpen
<1>4. CASE OpenAccepted
    <2> DEFINE s == [session EXCEPT !.opened = TRUE, !.registered = TRUE]
    <2>1. s \in Session /\ "CANCELLED" \in Reason /\ s.closed = session.closed
        BY TypeParts DEF Session, Reason
    <2>2. Runs("open") /\ Opening
        BY <1>4 DEF OpenAccepted, Opening
    <2>3. CASE SendClose("open", "CANCELLED", s)
        <3>1. \/ Sending("open", CloseMessage("CANCELLED")) /\ session' = s
              \/ Walking("open", AfterClose("open")) /\ session'.closed = TRUE
            BY <1>1, <2>1, <2>3, Closing
        <3>2. AfterClose("open") = "ended" /\ CloseMessage("CANCELLED").type = "close"
            BY DEF AfterClose, CloseMessage
        <3> HIDE DEF s
        <3>3. /\ \A r \in Task : r # "open" => pc'[r] = pc[r] /\ call'[r] = call[r]
              /\ pc'["open"] \in {"send", "ended"} /\ ~Opening'
              /\ session.closed => session'.closed
            BY <2>1, <3>1, <3>2 DEF Sending, Walking, Opening
        <3> QED
            BY <2>2, <3>3, WayOfOpen
    <2>4. CASE session' = s /\ Acquire("open", "io", "openlock") /\ call' = call
        <3>1. /\ \A r \in Task : r # "open" => pc'[r] = pc[r]
              /\ pc'["open"] = "openlock" /\ lock'["io"] = Append(lock["io"], "open")
            BY <1>1, <2>4, Acquired DEF Location
        <3>2. lock["io"] = <<>>
            BY <1>1, <2>2, Tasks DEF WayInv, OpenInv, Runs
        <3>3. OpenInv'
            BY <3>1, <3>2 DEF OpenInv, Opening, Holds
        <3>4. RaiseInv'
            BY <3>1 DEF RaiseInv
        <3> QED
            BY <3>3, <3>4 DEF WayInv
    <2> QED
        BY <1>4, <2>3, <2>4 DEF OpenAccepted
<1>5. CASE OpenRefused \/ OpenTimeout \/ OpenCancelled
    <2>1. /\ Suspend("open", "raised") /\ session' = Fail(session) /\ call' = call
          /\ Runs("open") /\ "raised" \in Location
        BY <1>5 DEF OpenRefused, OpenTimeout, OpenCancelled, Location
    <2>2. /\ \A r \in Task : r # "open" => pc'[r] = pc[r]
          /\ pc'["open"] = "raised" /\ session'.closed = TRUE /\ call' = call
          /\ Runs("open")
        BY <1>1, <2>1, Moved, TypeParts, Ends
    <2>3. ~Opening'
        BY <2>2 DEF Opening
    <2> QED
        BY <2>2, <2>3, WayOfOpen
<1>7. CASE OpenUnregistered
    <2>1. /\ \A r \in Task : r # "open" => pc'[r] = pc[r]
          /\ pc'["open"] = "raised" /\ session'.closed = TRUE /\ call' = call
          /\ Runs("open")
        BY <1>1, <1>7, Unregistered, Moved
    <2>2. ~Opening'
        BY <2>1 DEF Opening
    <2> QED
        BY <2>1, <2>2, WayOfOpen
<1>6. CASE OpenFlush
    <2>1. /\ EnterFlush("open", session.ending, session) /\ call' = call
          /\ session \in Session /\ session.ending \in BOOLEAN /\ Runs("open")
          /\ AfterFlush("open", session.ending) = "ended"
        BY <1>6, TypeParts DEF OpenFlush, Session, AfterFlush
    <2>2. /\ \A r \in Task : r # "open" => pc'[r] = pc[r]
          /\ pc'["open"] \in {"flush", "ended"}
          /\ session' = session \/ session' = [session EXCEPT !.force = session.ending]
        BY <2>1, Entering
    <2>3. ~Opening' /\ (session.closed => session'.closed)
        BY <2>1, <2>2 DEF Opening, Session
    <2> QED
        BY <2>1, <2>2, <2>3, WayOfOpen
<1> QED
    BY <1>2, <1>3, <1>4, <1>5, <1>6, <1>7 DEF Opens

LEMMA WayWrites == ASSUME TypeOK, WayInv, Writes PROVE WayInv'
<1>1. /\ "user" \in Task /\ "user" \in {"open", "user"}
      /\ session \in Session /\ ChunkSizes \subseteq Nat
    BY Tasks, TypeParts, AudioAssumption
<1>2. CASE WriteCall
    <2>1. /\ Runs("user") /\ UNCHANGED <<call, session>> /\ pc["user"] = "idle"
          /\ Acquire("user", "io", "writelock") /\ "writelock" \in Location
        BY <1>2 DEF WriteCall, Location
    <2>2. ~Aborting
        BY <2>1 DEF Aborting
    <2> QED
        BY <1>1, <2>1, <2>2, Acquired, WayOfUser
<1>3. CASE WriteBody
    <2>1. Runs("user") /\ call' = call /\ pc["user"] = "writelock" /\ ~Aborting
        BY <1>3 DEF WriteBody, Aborting
    <2>2. CASE Release("user", "io") /\ Suspend("user", "cancel") /\ UNCHANGED session
        <3>1. \A r \in Task : r # "user" => pc'[r] = pc[r]
            BY <1>1, <2>2, Moved DEF Location
        <3>2. lock'["io"] = Leave(lock["io"], "user")
            BY <1>1, <2>2, Left
        <3> QED
            BY <2>1, <2>2, <3>1, <3>2, WayOnward
    <2>3. CASE \E n \in ChunkSizes : EnterFlush("user", FALSE, Framed(session, n))
        <3>1. PICK n \in Nat : EnterFlush("user", FALSE, Framed(session, n))
            BY <1>1, <2>3
        <3> DEFINE s == Framed(session, n)
        <3>2. /\ s \in Session /\ s.opened = session.opened /\ s.closed = session.closed
              /\ FALSE \in BOOLEAN
            BY <1>1, Framing
        <3> HIDE DEF s
        <3>3. /\ \A r \in Task : r # "user" => pc'[r] = pc[r]
              /\ \/ session' = s /\ Release("user", "io")
                 \/ /\ s.opened /\ session' = [s EXCEPT !.force = FALSE]
                    /\ lock' = lock
            BY <1>1, <3>1, <3>2, Entering DEF s
        <3>4. session'.opened = session.opened /\ (session.closed => session'.closed)
            BY <3>2, <3>3 DEF Session
        <3>5. \/ lock'["io"] = Leave(lock["io"], "user")
              \/ lock'["io"] = lock["io"] /\ session.opened
            BY <1>1, <3>2, <3>3, Left
        <3> QED
            BY <2>1, <3>3, <3>4, <3>5, WayOnward
    <2> QED
        BY <1>3, <2>2, <2>3 DEF WriteBody
<1> QED
    BY <1>2, <1>3 DEF Writes

LEMMA WayFinishes == ASSUME TypeOK, WayInv, Finishes PROVE WayInv'
<1>1. "user" \in Task /\ "user" \in {"open", "user"} /\ session \in Session
    BY Tasks, TypeParts
<1>2. ASSUME Conclude
      PROVE  /\ \A r \in Task : r # "user" => pc'[r] = pc[r]
             /\ lock' = lock
    BY <1>1, <1>2, Moved DEF Conclude, Location
<1>3. CASE FinishCall \/ FinishReturn
    <2>1. /\ Runs("user") /\ UNCHANGED <<call, session>>
          /\ pc["user"] \in {"idle", "waitdone"}
          /\ Conclude \/ Acquire("user", "io", "endlock")
        BY <1>3 DEF FinishCall, FinishReturn
    <2>2. ~Aborting
        BY <2>1 DEF Aborting
    <2>3. CASE Conclude
        BY <1>2, <2>1, <2>2, <2>3, WayOnward
    <2>4. CASE Acquire("user", "io", "endlock")
        BY <1>1, <2>1, <2>2, <2>4, Acquired, WayOfUser DEF Location
    <2> QED
        BY <2>1, <2>3, <2>4
<1>4. CASE FinishEnding
    <2>1. /\ Runs("user") /\ UNCHANGED call /\ pc["user"] = "endlock"
          /\ \A r \in Task : r # "user" => pc'[r] = pc[r]
          /\ session' = [Padded(session) EXCEPT !.ending = TRUE]
          /\ Release("user", "io")
        BY <1>1, <1>4, TypeParts DEF FinishEnding
    <2>2. ~Aborting
        BY <2>1 DEF Aborting
    <2>3. session'.opened = session.opened /\ session'.closed = session.closed
        BY <1>1, <2>1, Padding DEF Session
    <2> QED
        BY <1>1, <2>1, <2>2, <2>3, Left, WayOnward
<1>5. CASE FinishJoin
    <2>1. /\ Runs("user") /\ UNCHANGED <<call, session>> /\ pc["user"] = "join"
          /\ OpenDone /\ ~Opening
          /\ \/ Suspend("user", "cancel") /\ UNCHANGED lock
             \/ /\ pc["open"] # "raised"
                /\ Conclude \/ Acquire("user", "io", "eoslock")
        BY <1>5 DEF FinishJoin, OpenDone, Opening
    <2>2. CASE Suspend("user", "cancel") /\ UNCHANGED lock
        <3>1. pc'["user"] = "cancel" /\ \A r \in Task : r # "user" => pc'[r] = pc[r]
            BY <1>1, <2>2, Moved DEF Location
        <3>2. Aborting'
            BY <3>1 DEF Aborting
        <3> QED
            BY <2>1, <2>2, <3>1, <3>2, WayOnward
    <2>3. CASE pc["open"] # "raised" /\ Conclude
        BY <1>2, <2>1, <2>3, WayOnward
    <2>4. CASE pc["open"] # "raised" /\ Acquire("user", "io", "eoslock")
        <3>1. /\ \A r \in Task : r # "user" => pc'[r] = pc[r]
              /\ lock'["io"] = Append(lock["io"], "user")
            BY <1>1, <2>4, Acquired DEF Location
        <3> QED
            BY <2>1, <2>4, <3>1, WayOfUser
    <2> QED
        BY <2>1, <2>2, <2>3, <2>4
<1>6. CASE FinishEos
    <2>1. /\ Runs("user") /\ call' = call /\ pc["user"] = "eoslock" /\ ~Aborting
          /\ EnterFlush("user", TRUE, session)
        BY <1>6 DEF FinishEos, Aborting
    <2>2. /\ \A r \in Task : r # "user" => pc'[r] = pc[r]
          /\ session' = session \/ session' = [session EXCEPT !.force = TRUE]
          /\ lock' = lock \/ Release("user", "io")
        BY <1>1, <2>1, Entering
    <2>3. session'.opened = session.opened /\ session'.closed = session.closed
        BY <1>1, <2>2 DEF Session
    <2> QED
        BY <1>1, <2>1, <2>2, <2>3, Left, WayOnward
<1>7. CASE FinishTimeout
    <2>1. /\ Runs("user") /\ pc["user"] = "waitdone" /\ ~Aborting
          /\ SendClose("user", "TIMEOUT", session) /\ "TIMEOUT" \in Reason
        BY <1>7 DEF FinishTimeout, Aborting, Reason
    <2>2. /\ SameButEnd(session, session')
          /\ \/ Sending("user", CloseMessage("TIMEOUT")) /\ session' = session
             \/ Walking("user", AfterClose("user")) /\ session'.closed = TRUE
        BY <1>1, <2>1, Closing
    <2>3. /\ \A r \in Task : r # "user" => pc'[r] = pc[r] /\ call'[r] = call[r]
          /\ lock'["io"] = lock["io"] /\ session'.opened = session.opened
          /\ session.closed => session'.closed
        BY <2>2 DEF Sending, Walking, SameButEnd
    <2> QED
        BY <2>1, <2>3, WayOnward
<1> QED
    BY <1>3, <1>4, <1>5, <1>6, <1>7 DEF Finishes

LEMMA WayAbort == ASSUME TypeOK, WayInv, UserAbort PROVE WayInv'
<1>1. "user" \in Task /\ "open" \in Task
    BY Tasks
<1>2. /\ Runs("user") /\ call' = call /\ session'.opened = session.opened
      /\ session.closed => session'.closed
    BY TypeParts DEF UserAbort, Runs, Fail, Session
<1>3. CASE /\ ReleaseAll("user") /\ pc["user"] # "join"
           /\ pc' = [pc EXCEPT !["user"] = "cancel"]
    <2>1. pc'["user"] = "cancel" /\ \A r \in Task : r # "user" => pc'[r] = pc[r]
        BY <1>1, <1>3, TypeParts
    <2>2. lock'["io"] = Leave(lock["io"], "user") /\ Aborting'
        BY <1>1, <1>3, <2>1, LeftAll DEF Aborting
    <2> QED
        BY <1>2, <1>3, <2>1, <2>2, WayOnward
<1>4. CASE /\ pc["user"] = "join"
           /\ pc' = [pc EXCEPT !["open"] = IF @ = "begin" THEN "raised" ELSE "cancelled"]
    <2>1. pc'["open"] \in {"raised", "cancelled"} /\ pc'["user"] = "join"
        BY <1>1, <1>4, TypeParts
    <2> QED
        BY <2>1 DEF WayInv, OpenInv, RaiseInv, Opening, Aborting
<1> QED
    BY <1>3, <1>4 DEF UserAbort

LEMMA WayStep == TypeOK /\ LockInv /\ WayInv /\ [Next]_vars => WayInv'
<1> SUFFICES ASSUME TypeOK, LockInv, WayInv, [Next]_vars PROVE WayInv'
    OBVIOUS
<1>1. ASSUME NEW t \in Cancellers \cup {"user"}, Cancels(t) PROVE WayInv'
    <2>1. /\ Plain(t) /\ Runs(t) /\ t \in Task
          /\ session'.opened = session.opened
        <3>1. session'.opened = session.opened
            <4> DEFINE s == [session EXCEPT !.ending = TRUE, !.cancelled = TRUE]
            <4>1. /\ t \in Task /\ session \in Session /\ s \in Session
                  /\ "CANCELLED" \in Reason /\ s.opened = session.opened
                BY Tasks, TypeParts DEF Session, Reason
            <4>2. \/ session' \in {session, s}
                  \/ SendClose(t, "CANCELLED", s) \/ SendClose(t, "CANCELLED", session)
                BY <1>1 DEF Cancels, CancelCall, CancelJoin, CancelGiveUp
            <4> HIDE DEF s
            <4> QED
                BY <4>1, <4>2, Closing DEF SameButEnd
        <3> QED
            BY <1>1, <3>1, PlainCancels, Tasks
            DEF Cancels, CancelCall, CancelJoin, CancelGiveUp
    <2>2. lock'["io"] = lock["io"]
        BY <1>1, CancelMoves
    <2>3. CASE t = "user"
        <3>1. pc["user"] \in {"cancel", "openwait"}
            BY <1>1, <2>3, Tasks DEF Cancels, CancelCall, CancelJoin, CancelGiveUp
        <3>2. Aborting'
            BY <1>1, <2>3, CancelMoves DEF Aborting
        <3> QED
            BY <2>1, <2>2, <2>3, <3>1, <3>2, WayOnward DEF Plain, SameData
    <2>4. CASE t # "user"
        <3>1. t \in Task \ {"open", "user"}
            BY <1>1, <2>1, <2>4, Tasks
        <3> QED
            BY <2>1, <2>2, <3>1, WayElsewhere DEF Plain, SameData
    <2> QED
        BY <2>3, <2>4
<1>2. CASE ReaderSteps \/ ConnClose \/ ConnLost \/ TvAnswer \/ TvAck \/ TvClose
           \/ Terminated \/ UNCHANGED vars
    <2>1. Plain("reader") /\ "reader" \in Task \ {"open", "user"}
        BY <1>2, PlainReader, Tasks
    <2>2. CASE ReaderSteps
        <3>1. /\ session \in Session /\ "NORMAL" \in Reason /\ "reader" \in Task
              /\ Runs("reader")
            BY <2>2, TypeParts, Tasks
            DEF Reason, ReaderSteps, ReaderResponse, ReaderAck, ReaderClose, Reads
        <3>2. \/ SendClose("reader", "NORMAL", session)
              \/ lock' = lock /\ session' \in {session, Fail(session), MarkDone(session)}
            BY <2>2 DEF ReaderSteps, ReaderResponse, ReaderAck, ReaderClose
        <3>3. lock'["io"] = lock["io"] /\ session'.opened = session.opened
            <4>1. /\ Fail(session).opened = session.opened
                  /\ MarkDone(session).opened = session.opened
                BY <3>1, Ends DEF SameButEnd
            <4>2. CASE SendClose("reader", "NORMAL", session)
                BY <3>1, <4>2, Closing DEF Sending, Walking, SameButEnd
            <4> QED
                BY <3>2, <4>1, <4>2
        <3> QED
            BY <2>1, <3>1, <3>3, WayElsewhere DEF Plain, SameData
    <2>3. CASE ~ReaderSteps
        <3>1. UNCHANGED <<running, lock>> /\ session'.opened = session.opened
            BY <1>2, <2>3, TypeParts
            DEF ConnClose, ConnLost, TvAnswer, TvAck, TvClose, TvStep, Terminated,
                vars, Fail, Session
        <3> QED
            BY <2>1, <3>1, WayElsewhere DEF Plain, SameData
    <2> QED
        BY <2>2, <2>3
<1>3. ASSUME NEW t \in Cancellers, CancelAbort(t) PROVE WayInv'
    <2>1. /\ t \in Task \ {"open", "user"} /\ Runs(t)
          /\ session'.opened = session.opened /\ session'.closed = TRUE
          /\ lock'["io"] = Leave(lock["io"], t)
          /\ \A r \in Task : r # t => pc'[r] = pc[r] /\ call'[r] = call[r]
        BY <1>3, Aborted DEF SameButEnd, Runs
    <2> QED
        BY <2>1, WayElsewhere
<1> QED
    BY <1>1, <1>2, <1>3, WaySends, WayFlushes, WayOpens, WayWrites, WayFinishes,
       WayAbort DEF Next

-----------------------------------------------------------------------------
(* The order of the audio on the wire.                                     *)

\* The numbered event that t is about to write, or has just written.
Pending(t) == pc[t] = "send" /\ call[t].type = "data"
JustSent(t) == pc[t] \in {"drain", "sent"} /\ call[t].type = "data"

\* Some task may still enter a flush.
MayFlush ==
    /\ ~session.closed
    /\ pc["open"] \notin {"cancelled", "raised"}
    /\ \/ Opening \/ pc["open"] = "openlock"
       \/ pc["user"] \in {"idle", "writelock", "endlock", "join", "eoslock"}

Ready == session.sequence = Due /\ ~EosOnWire /\ ~session.eosSent

\* As long as it matters, the session's sequence number is the one due on the
\* wire, and what a task is about to write has it.
FlusherInv(t) ==
    /\ Pending(t) =>
        /\ call[t].sequence = Due /\ call[t].audio = Due
        /\ session.sequence = Due + call[t].count
        /\ ~EosOnWire /\ ~session.eosSent
    /\ JustSent(t) =>
        /\ session.sequence = Due /\ (EosOnWire => call[t].eos) /\ ~session.eosSent
    /\ pc[t] = "flush" => Ready

RestInv ==
    (MayFlush /\ ~InFlush("open") /\ ~InFlush("user"))
        => session.sequence = Due /\ (EosOnWire => session.eosSent)

DueInv ==
    NoClose /\ conn.state = "up"
        => FlusherInv("open") /\ FlusherInv("user") /\ RestInv

OrderInv == HasLatest /\ DataOrdered /\ DueInv

\* The flush of the user's task comes after the one of _open.
LEMMA OneFlusher ==
    ASSUME TypeOK, LockInv, WayInv
    PROVE  /\ ~(InFlush("open") /\ InFlush("user"))
           /\ InFlush("user") => ~Opening /\ pc["open"] # "openlock"
<1>1. "open" \in Task /\ "user" \in Task
    BY Tasks
<1>2. ~(Holds("open", "io") /\ Holds("user", "io"))
    BY DEF Holds
<1>3. ASSUME InFlush("user") PROVE ~Opening
    <2>1. pc["user"] \notin {"writelock", "endlock"} /\ lock["io"] # <<>>
        BY <1>1, <1>3 DEF InFlush, LockInv, FlushExclusive, Holds
    <2> QED
        BY <2>1 DEF WayInv, OpenInv
<1> QED
    BY <1>1, <1>2, <1>3 DEF LockInv, FlushExclusive, WayInv, OpenInv

\* A plain step of t that may not start a flush that could not start before.
LEMMA OrderPlain ==
    ASSUME TypeOK, OrderInv, NEW t \in Task, Plain(t),
           t \in {"open", "user"} => ~InFlush(t)',
           MayFlush' => MayFlush /\ (t \in {"open", "user"} => ~InFlush(t))
    PROVE  OrderInv'
<1>1. /\ Due' = Due /\ EosOnWire' = EosOnWire /\ NoClose' = NoClose
      /\ HasLatest' /\ DataOrdered'
    <2>1. wire' = wire
        BY DEF Plain
    <2> QED
        BY <2>1, WireSame, OrderSame DEF OrderInv
<1>2. ASSUME NEW r \in {"open", "user"}, r # t, FlusherInv(r) PROVE FlusherInv(r)'
    <2>1. pc'[r] = pc[r] /\ call'[r] = call[r]
        BY <1>2, Tasks DEF Plain
    <2> QED
        BY <1>1, <1>2, <2>1 DEF FlusherInv, Pending, JustSent, Ready, Plain, SameData
<1>3. ASSUME t \in {"open", "user"} PROVE FlusherInv(t)'
    BY <1>3 DEF FlusherInv, InFlush, Pending, JustSent
<1>4. ASSUME RestInv PROVE RestInv'
    <2>1. \A r \in {"open", "user"} : r # t => (InFlush(r)' <=> InFlush(r))
        BY Tasks DEF Plain, InFlush
    <2>2. MayFlush' /\ ~InFlush("open")' /\ ~InFlush("user")'
              => MayFlush /\ ~InFlush("open") /\ ~InFlush("user")
        BY <2>1
    <2> QED
        BY <1>1, <1>4, <2>2 DEF RestInv, Plain, SameData
<1>5. DueInv'
    BY <1>1, <1>2, <1>3, <1>4 DEF OrderInv, DueInv, Plain
<1> QED
    BY <1>1, <1>5 DEF OrderInv

\* A step of a third task.
LEMMA OrderElsewhere ==
    ASSUME TypeOK, OrderInv, NEW t \in Task \ {"open", "user"}, Plain(t)
    PROVE  OrderInv'
<1>1. /\ pc'["open"] = pc["open"] /\ pc'["user"] = pc["user"]
      /\ call'["open"] = call["open"] /\ call'["user"] = call["user"]
    BY Tasks DEF Plain
<1>2. MayFlush' => MayFlush
    BY <1>1 DEF MayFlush, Opening, Plain, SameData
<1> QED
    BY <1>2, OrderPlain

\* A step of the only task that is, or is going to be, in a flush.
LEMMA OrderAlone ==
    ASSUME OrderInv, NEW t \in {"open", "user"}, NEW u \in {"open", "user"}, t # u,
           pc'[u] = pc[u], call'[u] = call[u], ~InFlush(u),
           wire' = wire, conn'.state = "up" => conn.state = "up",
           NoClose /\ conn.state = "up" => FlusherInv(t)' /\ RestInv'
    PROVE  OrderInv'
<1>1. (HasLatest => HasLatest') /\ (DataOrdered => DataOrdered')
    BY OrderSame
<1>2. FlusherInv(u)'
    BY DEF FlusherInv, InFlush, Pending, JustSent
<1> QED
    BY <1>1, <1>2, WireSame DEF OrderInv, DueInv

\* A message is written.
LEMMA OrderTransmit ==
    ASSUME TypeOK, LockInv, WayInv, AudioInv, OrderInv, NEW t \in Task, Transmit(t)
    PROVE  OrderInv'
<1>1. /\ pc[t] = "send" /\ call' = call /\ session' = session /\ conn' = conn
      /\ wire \in Seq(Message) /\ call[t] \in Message
      /\ "open" \in Task /\ "user" \in Task
    BY TypeParts, Tasks DEF Transmit
<1>2. /\ pc'[t] \in {"failed", "sent", "drain"}
      /\ \A r \in Task : r # t => pc'[r] = pc[r]
    BY Moved DEF Transmit, Location
<1>3. \/ wire' = wire
      \/ conn.state = "up" /\ wire' = Append(wire, call[t])
    BY DEF Transmit
<1>4. MayFlush' => MayFlush
    <2>1. Opening' => Opening
        BY <1>1, <1>2 DEF Opening
    <2> QED
        BY <1>1, <1>2, <2>1 DEF MayFlush
<1>5. \A r \in Task : InFlush(r)' <=> InFlush(r)
    BY <1>1, <1>2 DEF InFlush
<1>6. CASE call[t].type # "data"
    <2>1. \A r \in {"open", "user"} : r = t => ~InFlush(r)
        BY <1>1, <1>6 DEF InFlush
    <2>2. CASE wire' = wire
        <3>1. Plain(t)
            BY <1>1, <1>2, <2>2 DEF Plain, SameData
        <3> QED
            BY <1>4, <1>5, <2>1, <3>1, OrderPlain
    <2>3. CASE wire' = Append(wire, call[t])
        <3>1. HasLatest' /\ DataOrdered' /\ Due' = Due /\ EosOnWire' = EosOnWire
              /\ (NoClose' => NoClose)
            BY <1>1, <1>6, <2>3, LatestKept, OrderKept, WireOther, WireAppended
            DEF OrderInv
        <3>2. ASSUME NEW r \in {"open", "user"}, FlusherInv(r) PROVE FlusherInv(r)'
            <4>1. r = t => FlusherInv(r)'
                BY <1>5, <2>1 DEF FlusherInv, InFlush, Pending, JustSent
            <4>2. r # t => pc'[r] = pc[r] /\ call'[r] = call[r]
                BY <1>1, <1>2
            <4> QED
                BY <1>1, <3>1, <3>2, <4>1, <4>2 DEF FlusherInv, Pending, JustSent, Ready
        <3>3. RestInv => RestInv'
            BY <1>1, <1>4, <1>5, <3>1 DEF RestInv
        <3> QED
            BY <1>1, <3>1, <3>2, <3>3 DEF OrderInv, DueInv
    <2> QED
        BY <1>3, <2>2, <2>3
<1>7. CASE call[t].type = "data"
    <2>1. t \in {"open", "user"} /\ InFlush(t) /\ Pending(t)
        BY <1>1, <1>7 DEF AudioInv, OnlyFlushers, InFlush, Pending
    <2>2. PICK u \in {"open", "user"} : u # t
        BY <2>1
    <2>3. ~InFlush(u) /\ pc'[u] = pc[u] /\ call'[u] = call[u]
        BY <1>1, <1>2, <2>1, <2>2, OneFlusher
    <2>4. RestInv'
        BY <1>5, <2>1 DEF RestInv
    <2>5. CASE wire' = wire /\ conn.state # "up"
        BY <1>1, <2>1, <2>2, <2>3, <2>5, OrderAlone
    <2>6. CASE conn.state = "up" /\ wire' = Append(wire, call[t])
        <3>1. NoClose =>
                /\ call[t].sequence = Due /\ call[t].audio = Due
                /\ session.sequence = Due + call[t].count
                /\ ~EosOnWire /\ ~session.eosSent
            BY <2>1, <2>6 DEF OrderInv, DueInv, FlusherInv
        <3>2. HasLatest' /\ DataOrdered'
            BY <1>1, <2>6, <3>1, LatestKept, OrderKept DEF OrderInv
        <3>3. /\ Due' = call[t].sequence + call[t].count /\ (EosOnWire' <=> call[t].eos)
              /\ NoClose' => NoClose
            BY <1>1, <1>7, <2>6, WireEvent, WireAppended
        <3>4. NoClose' => FlusherInv(t)'
            BY <1>1, <1>2, <3>1, <3>3 DEF FlusherInv, Pending, JustSent
        <3>5. FlusherInv(u)'
            BY <1>5, <2>2, <2>3, <1>1 DEF FlusherInv, InFlush, Pending, JustSent
        <3> QED
            BY <2>1, <2>2, <2>4, <3>2, <3>4, <3>5 DEF OrderInv, DueInv
    <2> QED
        BY <2>5, <2>6 DEF Transmit
<1> QED
    BY <1>6, <1>7

\* A flush takes frames off the list, waits for the event to be sent, and ends.
LEMMA OrderFlushes ==
    ASSUME TypeOK, LockInv, WayInv, AudioInv, OrderInv, NEW t \in {"open", "user"},
           Flushes(t) \/ (Drained(t) /\ call[t].type = "data")
    PROVE  OrderInv'
<1>1. PICK u \in {"open", "user"} : u # t
    OBVIOUS
<1>2. /\ t \in Task /\ u \in Task /\ InFlush(t)
      /\ wire' = wire /\ conn'.state = conn.state /\ session \in Session
    BY Tasks, TypeParts DEF Flushes, FlushEvent, FlushEos, FlushEnd, FlushSent, Drained, InFlush
<1>3. ~InFlush(u)
    BY <1>1, <1>2, OneFlusher
<1>4. Due' = Due /\ EosOnWire' = EosOnWire /\ NoClose' = NoClose
    BY <1>2, WireSame
<1>5. /\ AfterFlush(t, session.force) \in {"ended", "idle", "waitdone"}
      /\ AfterFlush(t, session.force) \in Location
    BY DEF AfterFlush, Location
<1>6. ASSUME NoClose, conn.state = "up" PROVE FlusherInv(t)
    BY <1>6 DEF OrderInv, DueInv
<1>7. CASE FlushEvent(t)
    <2>1. Sending(t, Event) /\ Count \in Nat
        BY <1>2, <1>7, EventSent
    <2>2. /\ session'.sequence = session.sequence + Count
          /\ session'.eosSent = session.eosSent
        BY <1>2, <1>7, EventSent DEF Session
    <2>3. /\ Event.sequence = session.sequence /\ Event.count = Count
          /\ Event.audio = session.encoded - session.frames /\ Event.type = "data"
        BY DEF Event, DataMessage
    <2>4. Event.audio = session.sequence
        BY <1>2, <2>3 DEF AudioInv, Numbered, Session
    <2>5. /\ pc'[t] = "send" /\ call'[t] = Event /\ pc'[u] = pc[u] /\ call'[u] = call[u]
        BY <1>1, <1>2, <2>1 DEF Sending
    <2>6. InFlush(t)'
        BY <2>3, <2>5 DEF InFlush
    <2>7. ASSUME NoClose, conn.state = "up" PROVE FlusherInv(t)'
        <3>1. Ready
            BY <1>6, <1>7, <2>7 DEF FlusherInv, FlushEvent
        <3> QED
            BY <1>4, <2>2, <2>3, <2>4, <2>5, <3>1 DEF FlusherInv, Pending, JustSent, Ready
    <2>8. RestInv'
        BY <2>6 DEF RestInv
    <2> QED
        BY <1>1, <1>2, <1>3, <2>5, <2>7, <2>8, OrderAlone
<1>8. CASE FlushEos(t)
    <2>1. Sending(t, LastEvent) /\ session' = session /\ session.frames = 0
        BY <1>2, <1>8, EosSent DEF FlushEos
    <2>2. /\ LastEvent.sequence = session.sequence /\ LastEvent.count = 0
          /\ LastEvent.audio = session.sequence /\ LastEvent.type = "data"
          /\ session.sequence = session.sequence + 0
        BY <1>2, <2>1 DEF LastEvent, DataMessage, AudioInv, Numbered, Session
    <2>3. /\ pc'[t] = "send" /\ call'[t] = LastEvent
          /\ pc'[u] = pc[u] /\ call'[u] = call[u]
        BY <1>1, <1>2, <2>1 DEF Sending
    <2>4. InFlush(t)'
        BY <2>2, <2>3 DEF InFlush
    <2>5. ASSUME NoClose, conn.state = "up" PROVE FlusherInv(t)'
        <3>1. Ready
            BY <1>6, <1>8, <2>5 DEF FlusherInv, FlushEos
        <3> QED
            BY <1>4, <2>1, <2>2, <2>3, <3>1 DEF FlusherInv, Pending, JustSent, Ready
    <2>6. RestInv'
        BY <2>4 DEF RestInv
    <2> QED
        BY <1>1, <1>2, <1>3, <2>3, <2>5, <2>6, OrderAlone
<1>9. CASE FlushEnd(t)
    <2>1. /\ pc'[t] \in {"ended", "idle", "waitdone"} /\ pc'[u] = pc[u]
          /\ call' = call /\ session' = session
        BY <1>1, <1>2, <1>5, <1>9, Moved DEF FlushEnd
    <2>2. ASSUME NoClose, conn.state = "up" PROVE FlusherInv(t)' /\ RestInv'
        <3>1. Ready
            BY <1>6, <1>9, <2>2 DEF FlusherInv, FlushEnd
        <3> QED
            BY <1>4, <2>1, <3>1 DEF FlusherInv, Pending, JustSent, Ready, RestInv
    <2> QED
        BY <1>1, <1>2, <1>3, <2>1, <2>2, OrderAlone
<1>10. CASE FlushSent(t) /\ ~call[t].eos
    <2>1. /\ pc'[t] = "flush" /\ pc'[u] = pc[u] /\ call' = call /\ session' = session
        BY <1>1, <1>2, <1>10, Moved DEF FlushSent, Location
    <2>2. ASSUME NoClose, conn.state = "up" PROVE FlusherInv(t)'
        <3>1. Ready
            BY <1>6, <1>10, <2>2 DEF FlusherInv, FlushSent, JustSent, Ready
        <3> QED
            BY <1>4, <2>1, <3>1 DEF FlusherInv, Pending, JustSent, Ready
    <2>3. RestInv'
        BY <2>1 DEF RestInv, InFlush
    <2> QED
        BY <1>1, <1>2, <1>3, <2>1, <2>2, <2>3, OrderAlone
<1>11. CASE FlushSent(t) /\ call[t].eos
    <2>1. /\ pc'[t] \in {"ended", "idle", "waitdone"} /\ pc'[u] = pc[u]
          /\ call' = call /\ session' = [session EXCEPT !.eosSent = TRUE]
        BY <1>1, <1>2, <1>5, <1>11, Moved DEF FlushSent
    <2>2. session'.sequence = session.sequence /\ session'.eosSent = TRUE
        BY <1>2, <2>1 DEF Session
    <2>3. ASSUME NoClose, conn.state = "up" PROVE FlusherInv(t)' /\ RestInv'
        <3>1. session.sequence = Due
            BY <1>6, <1>11, <2>3 DEF FlusherInv, FlushSent, JustSent
        <3> QED
            BY <1>4, <2>1, <2>2, <3>1 DEF FlusherInv, Pending, JustSent, RestInv
    <2> QED
        BY <1>1, <1>2, <1>3, <2>1, <2>3, OrderAlone
<1>12. CASE Drained(t) /\ call[t].type = "data"
    <2>1. /\ pc'[t] \in {"sent", "failed"} /\ pc'[u] = pc[u]
          /\ call' = call /\ session' = session /\ pc[t] = "drain"
        BY <1>1, <1>2, <1>12, Moved DEF Drained, Location
    <2>2. ASSUME NoClose, conn.state = "up" PROVE FlusherInv(t)'
        <3>1. session.sequence = Due /\ (EosOnWire => call[t].eos) /\ ~session.eosSent
            BY <1>6, <1>12, <2>1, <2>2 DEF FlusherInv, JustSent
        <3> QED
            BY <1>4, <2>1, <3>1 DEF FlusherInv, Pending, JustSent
    <2>3. RestInv'
        BY <1>12, <2>1 DEF RestInv, InFlush
    <2> QED
        BY <1>1, <1>2, <1>3, <2>1, <2>2, <2>3, OrderAlone
<1> QED
    BY <1>7, <1>8, <1>9, <1>10, <1>11, <1>12 DEF Flushes

\* The entry of a flush finds the number of the next frame due.
LEMMA OrderEntering ==
    ASSUME TypeOK, LockInv, WayInv, OrderInv,
           NEW t \in {"open", "user"}, NEW force \in BOOLEAN, NEW s \in Session,
           EnterFlush(t, force, s), UNCHANGED <<call, wire, conn>>, Holds(t, "io"),
           s.sequence = session.sequence, s.eosSent = session.eosSent,
           s.closed = session.closed,
           ~InFlush(t), ~session.closed => MayFlush, ~force => ~session.eosSent
    PROVE  OrderInv'
<1>1. PICK u \in {"open", "user"} : u # t
    OBVIOUS
<1>2. t \in Task /\ u \in Task /\ pc'[u] = pc[u] /\ call'[u] = call[u]
    BY <1>1, Tasks, Entering
<1>3. ~InFlush(u)
    BY <1>1, <1>2 DEF LockInv, FlushExclusive, Holds
<1>4. Due' = Due /\ EosOnWire' = EosOnWire
    BY WireSame
<1>5. CASE session' = s /\ pc'[t] = AfterFlush(t, force)
    <2>1. pc'[t] \in {"ended", "idle", "waitdone"}
        BY <1>5 DEF AfterFlush
    <2>2. FlusherInv(t)'
        BY <2>1 DEF FlusherInv, Pending, JustSent
    <2>3. MayFlush' => MayFlush
        BY <1>5 DEF MayFlush
    <2>4. RestInv => RestInv'
        BY <1>1, <1>3, <1>4, <1>5, <2>3 DEF RestInv
    <2> QED
        BY <1>1, <1>2, <1>3, <2>2, <2>4, OrderAlone DEF OrderInv, DueInv
<1>6. CASE /\ session' = [s EXCEPT !.force = force] /\ pc'[t] = "flush"
           /\ ~s.closed /\ ~(force /\ s.eosSent)
    <2>1. /\ session'.sequence = session.sequence /\ session'.eosSent = session.eosSent
          /\ ~session.eosSent /\ ~session.closed
        BY <1>6 DEF Session
    <2>2. ASSUME NoClose, conn.state = "up" PROVE FlusherInv(t)'
        <3>1. Ready
            BY <1>1, <1>3, <2>1, <2>2 DEF OrderInv, DueInv, RestInv, Ready
        <3> QED
            BY <1>4, <1>6, <2>1, <3>1 DEF FlusherInv, Pending, JustSent, Ready
    <2>3. RestInv'
        BY <1>6 DEF RestInv, InFlush
    <2> QED
        BY <1>1, <1>2, <1>3, <2>2, <2>3, OrderAlone
<1> QED
    BY <1>5, <1>6, Entering

\* A plain step of _open: it gives up, or it goes on towards its flush.
LEMMA OrderOpenGoes ==
    ASSUME TypeOK, OrderInv, Plain("open"), ~InFlush("open")',
           \/ pc'["open"] \in {"raised", "cancelled"}
           \/ /\ ~InFlush("open") /\ pc["open"] \notin {"raised", "cancelled"}
              /\ Opening' \/ pc'["open"] = "openlock"
                     => Opening \/ pc["open"] = "openlock"
    PROVE  OrderInv'
<1>1. "open" \in Task /\ pc'["user"] = pc["user"]
    BY Tasks DEF Plain
<1>2. MayFlush' => MayFlush /\ ~InFlush("open")
    BY <1>1 DEF MayFlush, Plain, SameData
<1> QED
    BY <1>1, <1>2, OrderPlain

\* A plain step of the user's task before it flushes, or to where it will not.
LEMMA OrderUserGoes ==
    ASSUME TypeOK, LockInv, WayInv, OrderInv, Plain("user"), ~InFlush("user")',
           LET before == {"idle", "writelock", "endlock", "join", "eoslock"}
           IN  pc["user"] \in before \/ pc'["user"] \notin before
    PROVE  OrderInv'
<1>1. /\ "user" \in Task /\ pc'["open"] = pc["open"] /\ call'["open"] = call["open"]
    BY Tasks DEF Plain
<1>2. Opening' <=> Opening
    BY <1>1 DEF Opening
<1>3. MayFlush' => MayFlush
    BY <1>1, <1>2 DEF MayFlush, Plain, SameData
<1>4. MayFlush' => ~InFlush("user")
    <2>1. CASE pc["user"] \in {"idle", "writelock", "endlock", "join", "eoslock"}
        BY <2>1 DEF InFlush
    <2>2. CASE pc'["user"] \notin {"idle", "writelock", "endlock", "join", "eoslock"}
        BY <1>1, <1>2, <2>2, OneFlusher DEF MayFlush
    <2> QED
        BY <2>1, <2>2
<1> QED
    BY <1>1, <1>3, <1>4, OrderPlain

LEMMA OrderSends ==
    ASSUME TypeOK, LockInv, WayInv, AudioInv, OrderInv, NEW t \in Task, Sends(t)
    PROVE  OrderInv'
<1>1. CASE t \notin {"open", "user"}
    BY <1>1, OrderTransmit, PlainSends, OrderElsewhere DEF Sends
<1>2. CASE t \in {"open", "user"} /\ Drained(t) /\ call[t].type # "data"
    <2>1. /\ pc[t] = "drain" /\ pc'[t] \in {"sent", "failed"}
          /\ \A r \in Task : r # t => pc'[r] = pc[r]
          /\ UNCHANGED <<call, session>>
        BY <1>2, Moved DEF Drained, Location
    <2>2. ~InFlush(t) /\ ~InFlush(t)'
        BY <1>2, <2>1 DEF InFlush
    <2>3. MayFlush' => MayFlush
        BY <1>2, <2>1, Tasks DEF MayFlush, Opening
    <2> QED
        BY <1>2, <2>2, <2>3, PlainSends, OrderPlain
<1>3. CASE t = "user" /\ (CloseSent(t) \/ SendFailed(t))
    <2>1. "cancel" \in Location /\ AfterClose("user") = "cancel"
        BY DEF AfterClose, Location
    <2>2. pc'["user"] = "cancel"
        BY <1>3, <2>1, Moved, Tasks DEF CloseSent, SendFailed
    <2>3. ~InFlush("user")'
        BY <2>2 DEF InFlush
    <2> QED
        BY <1>3, <2>2, <2>3, PlainSends, OrderUserGoes
<1>4. CASE t = "open" /\ (CloseSent(t) \/ SendFailed(t))
    <2>1. "ended" \in Location /\ "raised" \in Location /\ AfterClose("open") = "ended"
        BY DEF AfterClose, Location
    <2>2. \/ pc'["open"] = "raised"
          \/ pc'["open"] = "ended" /\ pc["open"] = "sent" /\ call["open"].type = "close"
        BY <1>4, <2>1, Moved, Tasks DEF CloseSent, SendFailed
    <2>3. ~InFlush("open")' /\ (pc'["open"] = "ended" => ~InFlush("open") /\ ~Opening')
        BY <2>2 DEF InFlush, Opening
    <2> QED
        BY <1>4, <2>2, <2>3, PlainSends, OrderOpenGoes
<1> QED
    BY <1>1, <1>2, <1>3, <1>4, OrderTransmit, OrderFlushes DEF Sends

LEMMA OrderOpens ==
    ASSUME TypeOK, LockInv, WayInv, AudioInv, OrderInv, Opens PROVE OrderInv'
<1>1. "open" \in Task /\ "open" \in {"open", "user"}
    BY Tasks
<1>2. CASE OpenBegin
    <2>1. Sending("open", OpenMessage)
        BY <1>1, <1>2, SendStarts DEF OpenBegin, Message
    <2>2. ~InFlush("open") /\ ~InFlush("open")' /\ Opening /\ pc["open"] = "begin"
        BY <1>2, <2>1 DEF OpenBegin, InFlush, Sending, OpenMessage, Opening
    <2> QED
        BY <1>2, <2>2, PlainOpens, OrderOpenGoes
<1>3. CASE OpenSent
    <2>1. pc'["open"] = "await"
        BY <1>1, <1>3, TypeParts DEF OpenSent
    <2>2. ~InFlush("open") /\ ~InFlush("open")' /\ Opening /\ pc["open"] = "sent"
        BY <1>3, <2>1 DEF OpenSent, InFlush, Opening
    <2> QED
        BY <1>3, <2>2, PlainOpens, OrderOpenGoes
<1>4. CASE OpenAccepted
    <2> DEFINE s == [session EXCEPT !.opened = TRUE, !.registered = TRUE]
    <2>1. s \in Session /\ "CANCELLED" \in Reason
        BY TypeParts DEF Session, Reason
    <2>2. pc["open"] = "await" /\ Opening /\ ~InFlush("open")
        BY <1>4 DEF OpenAccepted, Opening, InFlush
    <2>3. \/ SendClose("open", "CANCELLED", s)
          \/ Acquire("open", "io", "openlock")
        BY <1>4 DEF OpenAccepted
    <2> HIDE DEF s
    <2>4. \/ pc'["open"] = "send" /\ call'["open"].type = "close"
          \/ pc'["open"] \in {"ended", "openlock"}
        <3>1. CASE SendClose("open", "CANCELLED", s)
            <4>1. \/ Sending("open", CloseMessage("CANCELLED"))
                  \/ Walking("open", AfterClose("open"))
                BY <1>1, <2>1, <3>1, Closing
            <4> QED
                BY <4>1 DEF Sending, Walking, CloseMessage, AfterClose
        <3>2. CASE Acquire("open", "io", "openlock")
            BY <1>1, <3>2, Acquired DEF Location
        <3> QED
            BY <2>3, <3>1, <3>2
    <2>5. ~InFlush("open")'
        BY <2>4 DEF InFlush
    <2> QED
        BY <1>4, <2>2, <2>5, PlainOpens, OrderOpenGoes
<1>5. CASE OpenRefused \/ OpenTimeout \/ OpenCancelled
    <2>1. Suspend("open", "raised") /\ "raised" \in Location
        BY <1>5 DEF OpenRefused, OpenTimeout, OpenCancelled, Location
    <2>2. pc'["open"] = "raised"
        BY <1>1, <2>1, Moved
    <2>3. ~InFlush("open")'
        BY <2>2 DEF InFlush
    <2> QED
        BY <1>5, <2>2, <2>3, PlainOpens, OrderOpenGoes
<1>7. CASE OpenUnregistered
    <2>1. pc'["open"] = "raised"
        BY <1>1, <1>7, Unregistered, Moved
    <2>2. ~InFlush("open")'
        BY <2>1 DEF InFlush
    <2> QED
        BY <1>7, <2>1, <2>2, PlainOpens, OrderOpenGoes
<1>6. CASE OpenFlush
    <2>1. /\ EnterFlush("open", session.ending, session)
          /\ UNCHANGED <<call, wire, conn>> /\ Holds("open", "io")
          /\ session \in Session /\ session.ending \in BOOLEAN
          /\ pc["open"] = "openlock"
        BY <1>6, TypeParts DEF OpenFlush, Session
    <2>2. ~session.ending => ~session.eosSent
        BY DEF AudioInv, EndingInv
    <2>3. ~InFlush("open") /\ (~session.closed => MayFlush)
        BY <2>1 DEF InFlush, MayFlush
    <2> QED
        BY <1>1, <2>1, <2>2, <2>3, OrderEntering
<1> QED
    BY <1>2, <1>3, <1>4, <1>5, <1>6, <1>7 DEF Opens

LEMMA OrderWrites ==
    ASSUME TypeOK, LockInv, WayInv, AudioInv, OrderInv, Writes PROVE OrderInv'
<1>1. /\ "user" \in Task /\ "user" \in {"open", "user"} /\ session \in Session
      /\ ChunkSizes \subseteq Nat
    BY Tasks, TypeParts, AudioAssumption
<1>2. CASE WriteCall
    <2>1. /\ pc["user"] = "idle"
          /\ pc'["user"] = "writelock"
        BY <1>1, <1>2, Acquired DEF WriteCall, Location
    <2>2. ~InFlush("user")'
        BY <2>1 DEF InFlush
    <2> QED
        BY <1>2, <2>1, <2>2, PlainUser, OrderUserGoes
<1>3. CASE WriteBody
    <2>1. /\ pc["user"] = "writelock" /\ Holds("user", "io")
          /\ UNCHANGED <<call, wire, conn>> /\ ~InFlush("user")
        BY <1>3 DEF WriteBody, InFlush
    <2>2. CASE Suspend("user", "cancel") /\ UNCHANGED session
        <3>1. /\ pc'["user"] = "cancel" /\ \A r \in Task : r # "user" => pc'[r] = pc[r]
            BY <1>1, <2>2, Moved DEF Location
        <3>2. Plain("user") /\ ~InFlush("user")'
            BY <2>1, <2>2, <3>1 DEF Plain, SameData, InFlush
        <3> QED
            BY <2>1, <3>2, OrderUserGoes
    <2>3. CASE /\ ~session.ending
               /\ \E n \in ChunkSizes : EnterFlush("user", FALSE, Framed(session, n))
        <3>1. PICK n \in Nat : EnterFlush("user", FALSE, Framed(session, n))
            BY <1>1, <2>3
        <3> DEFINE s == Framed(session, n)
        <3>2. /\ s \in Session /\ s.sequence = session.sequence
              /\ s.eosSent = session.eosSent /\ s.closed = session.closed
            BY <1>1, Framing
        <3>3. ~session.eosSent
            BY <2>3 DEF AudioInv, EndingInv
        <3>4. ~session.closed => MayFlush
            BY <2>1 DEF MayFlush, WayInv, RaiseInv, Aborting
        <3>5. FALSE \in BOOLEAN
            OBVIOUS
        <3> HIDE DEF s
        <3> QED
            BY <1>1, <2>1, <3>1, <3>2, <3>3, <3>4, <3>5, OrderEntering DEF s
    <2> QED
        BY <1>3, <2>2, <2>3 DEF WriteBody
<1> QED
    BY <1>2, <1>3 DEF Writes

LEMMA OrderFinishes ==
    ASSUME TypeOK, LockInv, WayInv, AudioInv, OrderInv, Finishes PROVE OrderInv'
<1>1. /\ "open" \in Task /\ "user" \in Task /\ "user" \in {"open", "user"}
      /\ "open" \in {"open", "user"} /\ session \in Session
    BY Tasks, TypeParts
<1>2. CASE FinishCall \/ FinishJoin \/ FinishReturn
    <2>1. pc'["user"] \in {"cancel", "returned", "endlock", "eoslock"}
        <3>1. \E l \in {"cancel", "returned", "endlock", "eoslock"} :
                  Suspend("user", l) \/ Acquire("user", "io", l)
            BY <1>2 DEF FinishCall, FinishJoin, FinishReturn, Conclude
        <3> QED
            BY <1>1, <3>1, Moved, Acquired DEF Location
    <2>2. \/ pc["user"] \in {"idle", "join"}
          \/ pc'["user"] \in {"cancel", "returned"}
        <3>1. CASE FinishReturn
            <4>1. \E l \in {"cancel", "returned"} : Suspend("user", l)
                BY <3>1 DEF FinishReturn, Conclude
            <4> QED
                BY <1>1, <4>1, Moved DEF Location
        <3> QED
            BY <1>2, <3>1 DEF FinishCall, FinishJoin
    <2>3. ~InFlush("user")'
        BY <2>1 DEF InFlush
    <2> QED
        BY <1>2, <2>2, <2>3, PlainUser, OrderUserGoes
<1>3. CASE FinishTimeout
    <2>1. SendClose("user", "TIMEOUT", session) /\ "TIMEOUT" \in Reason
        BY <1>3 DEF FinishTimeout, Reason
    <2>2. \/ Sending("user", CloseMessage("TIMEOUT"))
          \/ Walking("user", AfterClose("user"))
        BY <1>1, <2>1, Closing
    <2>3. \/ pc'["user"] = "send" /\ call'["user"].type = "close"
          \/ pc'["user"] = "cancel"
        BY <2>2 DEF Sending, Walking, CloseMessage, AfterClose
    <2>4. ~InFlush("user")'
        BY <2>3 DEF InFlush
    <2> QED
        BY <1>3, <2>3, <2>4, PlainUser, OrderUserGoes
<1>4. CASE FinishEnding
    <2>1. /\ pc["user"] = "endlock" /\ Holds("user", "io")
          /\ UNCHANGED <<call, wire, conn>>
          /\ pc' = [pc EXCEPT !["user"] = "join"]
          /\ session' = [Padded(session) EXCEPT !.ending = TRUE]
        BY <1>4 DEF FinishEnding
    <2>2. /\ session'.sequence = session.sequence /\ session'.eosSent = session.eosSent
          /\ session'.closed = session.closed
        BY <1>1, <2>1, Padding DEF Session
    <2>3. pc'["user"] = "join" /\ pc'["open"] = pc["open"]
        BY <1>1, <2>1, TypeParts
    <2>4. ~InFlush("user") /\ ~InFlush("open")
        <3>1. "open" # "user"
            OBVIOUS
        <3> QED
            BY <1>1, <2>1, <3>1 DEF LockInv, FlushExclusive, Holds, InFlush
    <2>5. MayFlush' => MayFlush
        BY <2>1, <2>2, <2>3 DEF MayFlush
    <2>6. RestInv => RestInv'
        BY <2>1, <2>2, <2>4, <2>5, WireSame DEF RestInv
    <2>7. FlusherInv("user")'
        BY <2>3 DEF FlusherInv, Pending, JustSent
    <2> QED
        BY <1>1, <2>1, <2>3, <2>4, <2>6, <2>7, OrderAlone DEF OrderInv, DueInv
<1>5. CASE FinishEos
    <2>1. /\ EnterFlush("user", TRUE, session) /\ UNCHANGED <<call, wire, conn>>
          /\ Holds("user", "io") /\ pc["user"] = "eoslock" /\ ~InFlush("user")
        BY <1>5 DEF FinishEos, InFlush
    <2>2. ~session.closed => MayFlush
        BY <2>1 DEF MayFlush, WayInv, RaiseInv, Aborting
    <2> QED
        BY <1>1, <2>1, <2>2, OrderEntering
<1> QED
    BY <1>2, <1>3, <1>4, <1>5 DEF Finishes

LEMMA OrderAbort ==
    ASSUME TypeOK, LockInv, WayInv, OrderInv, UserAbort PROVE OrderInv'
<1>1. CASE Plain("user") /\ pc'["user"] = "cancel"
    <2>1. ~InFlush("user")'
        BY <1>1 DEF InFlush
    <2> QED
        BY <1>1, <2>1, OrderUserGoes
<1>2. CASE Plain("open") /\ pc'["open"] \in {"raised", "cancelled"}
    <2>1. ~InFlush("open")'
        BY <1>2 DEF InFlush
    <2> QED
        BY <1>2, <2>1, OrderOpenGoes
<1> QED
    BY <1>1, <1>2, PlainAbort

LEMMA OrderCancels ==
    ASSUME TypeOK, LockInv, WayInv, OrderInv,
           NEW t \in Cancellers \cup {"user"}, Cancels(t)
    PROVE  OrderInv'
<1>1. t \in Task /\ Plain(t)
    BY Tasks, PlainCancels
<1>2. CASE t = "user"
    <2>1. \/ pc'["user"] \in {"done", "openwait", "cancel"}
          \/ pc'["user"] = "send" /\ call'["user"].type = "close"
        BY <1>2, CancelMoves
    <2>2. ~InFlush("user")'
        BY <2>1 DEF InFlush
    <2> QED
        BY <1>1, <1>2, <2>1, <2>2, OrderUserGoes
<1>3. CASE t # "user"
    <2>1. t \in Task \ {"open", "user"}
        BY <1>1, <1>3, Tasks
    <2> QED
        BY <1>1, <2>1, OrderElsewhere
<1> QED
    BY <1>2, <1>3

LEMMA OrderStep ==
    TypeOK /\ LockInv /\ WayInv /\ AudioInv /\ OrderInv /\ [Next]_vars => OrderInv'
<1> SUFFICES ASSUME TypeOK, LockInv, WayInv, AudioInv, OrderInv, [Next]_vars
             PROVE  OrderInv'
    OBVIOUS
<1>1. CASE ReaderSteps \/ ConnClose \/ ConnLost \/ TvAnswer \/ TvAck \/ TvClose
           \/ Terminated \/ UNCHANGED vars
    <2>1. "reader" \in Task \ {"open", "user"}
        BY Tasks
    <2> QED
        BY <1>1, <2>1, PlainReader, OrderElsewhere
<1>2. ASSUME NEW t \in Cancellers, CancelAbort(t) PROVE OrderInv'
    BY <1>2, PlainAborted, OrderElsewhere
<1> QED
    BY <1>1, <1>2, OrderSends, OrderFlushes, OrderOpens, OrderWrites, OrderFinishes,
       OrderAbort, OrderCancels DEF Next

LEMMA InitiallyOrdered == Init => WayInv /\ AudioInv /\ OrderInv
<1> SUFFICES ASSUME Init PROVE WayInv /\ AudioInv /\ OrderInv
    OBVIOUS
<1>1. "open" \in Task /\ "user" \in Task
    BY Tasks
<1>2. /\ pc["open"] = "begin" /\ pc["user"] = "idle" /\ lock["io"] = <<>>
      /\ wire = <<>> /\ \A t \in Task : call[t].type = "open"
      /\ session.sequence = 0 /\ session.frames = 0 /\ session.encoded = 0
      /\ session.opened = FALSE /\ session.ending = FALSE
      /\ session.eosSent = FALSE /\ session.force = FALSE
    BY <1>1 DEF Init, OpenMessage
<1>3. WayInv
    BY <1>2 DEF WayInv, OpenInv, RaiseInv
<1>4. AudioInv
    BY <1>2 DEF AudioInv, EndingInv, Numbered, OnlyFlushers
<1>5. WireData = {} /\ DOMAIN wire = {}
    BY <1>2 DEF WireData, DataBefore
<1>6. HasLatest /\ DataOrdered
    BY <1>2, <1>5 DEF HasLatest, DataOrdered, DataBefore
<1>7. Due = 0 /\ ~EosOnWire
    BY <1>5 DEF Due, EosOnWire
<1>8. DueInv
    BY <1>2, <1>7 DEF DueInv, FlusherInv, Pending, JustSent, RestInv
<1> QED
    BY <1>3, <1>4, <1>6, <1>8 DEF OrderInv

\* Until a close is written, the frames of the utterance are on the wire in
\* the order in which they were encoded, each under its own number, none
\* twice and none after the end of stream: whichever of _open and the user's
\* task sends them, whoever cancels, and for chunks of any size.
THEOREM DataIsOrdered == Spec => []DataOrdered
<1> DEFINE Ordered == WayInv /\ AudioInv /\ OrderInv
<1>1. Init => Ordered
    BY InitiallyOrdered
<1>2. TypeOK /\ LockInv /\ Ordered /\ [Next]_vars => Ordered'
    BY WayStep, AudioStep, OrderStep
<1>3. Ordered => DataOrdered
    BY DEF OrderInv
<1> HIDE DEF Ordered
<1> QED
    BY <1>1, <1>2, <1>3, TypeCorrect, LockInvariant, PTL DEF Spec
=============================================================================
