------------------------- MODULE AudioStreamProofs -------------------------
(***************************************************************************)
(* No stream of a registered session is left open                          *)
(* (RegisteredStreamsAreClosed of SiriSession), as long as drain() does    *)
(* not suspend: then a task that tests whether a close is due has sent it  *)
(* before another task runs.                                               *)
(* With that, the session implements the stream the Apple TV is promised   *)
(* (ImplementsAudioStream of MCSiriSession): every step of Spec maps to a  *)
(* step of AudioStream or a stutter.  And it has the life its callers are  *)
(* promised (ImplementsSessionLife), whether drain() suspends or not.      *)
(***************************************************************************)
EXTENDS EndOfStreamProofs, MCSiriSession

-----------------------------------------------------------------------------
(* A session is registered under its stream id when _open stores the id,   *)
(* or never.                                                               *)

RegInv == session.registered => session.opened

Registers ==
    session'.registered =>
        session'.opened /\ (session.registered \/ ~session.opened)

LEMMA RegisteredKept ==
    ASSUME RegInv, session'.opened = session.opened,
           session'.registered = session.registered
    PROVE  Registers
BY DEF RegInv, Registers

LEMMA FramedSame ==
    ASSUME NEW s \in Session, NEW n
    PROVE  /\ Framed(s, n).opened = s.opened /\ Framed(s, n).closed = s.closed
           /\ Framed(s, n).closeSent = s.closeSent
           /\ Framed(s, n).registered = s.registered
<1> DEFINE k == (s.pcm + n) \div FrameUnits
           p == (s.pcm + n) % FrameUnits
<1>1. Framed(s, n) = [s EXCEPT !.written = @ + n, !.pcm = p, !.frames = @ + k,
                               !.encoded = @ + k]
    BY DEF Framed
<1> HIDE DEF k, p
<1> QED
    BY <1>1 DEF Session

LEMMA RegisteredOpens ==
    ASSUME TypeOK, WayInv, RegInv, OpenAccepted \/ OpenUnregistered PROVE Registers
<1>1. /\ "open" \in Task /\ "CANCELLED" \in Reason /\ session \in Session
      /\ ~session.opened
    <2>1. Opening
        BY DEF OpenAccepted, OpenUnregistered, Opening
    <2> QED
        BY <2>1, Tasks, TypeParts DEF WayInv, OpenInv, Reason
<1>2. CASE OpenAccepted
    <2> DEFINE s == [session EXCEPT !.opened = TRUE, !.registered = TRUE]
    <2>1. s \in Session /\ s.opened = TRUE
        BY <1>1 DEF Session
    <2>2. SendClose("open", "CANCELLED", s) \/ session' = s
        BY <1>2 DEF OpenAccepted
    <2> HIDE DEF s
    <2>3. session'.opened = TRUE
        BY <1>1, <2>1, <2>2, Closing DEF SameButEnd
    <2> QED
        BY <1>1, <2>3 DEF Registers
<1>3. CASE OpenUnregistered
    BY <1>1, <1>3, Unregistered DEF Registers
<1> QED
    BY <1>2, <1>3

\* Cutting audio into frames, ending the session or being cancelled registers
\* nothing.
LEMMA RegisteredElsewhere ==
    ASSUME TypeOK, RegInv,
           \/ WriteBody \/ FinishEnding
           \/ \E t \in Task : CloseSent(t) \/ CancelCall(t)
           \/ \E t \in Cancellers : CancelAbort(t)
    PROVE  Registers
<1>1. session \in Session /\ "CANCELLED" \in Reason
    BY TypeParts DEF Reason
<1>2. CASE WriteBody
    <2>1. session' = session
              \/ \E n \in ChunkSizes : EnterFlush("user", FALSE, Framed(session, n))
        BY <1>2 DEF WriteBody
    <2>2. ASSUME NEW n \in ChunkSizes, EnterFlush("user", FALSE, Framed(session, n))
          PROVE  Registers
        <3> DEFINE s == Framed(session, n)
        <3>1. /\ s \in Session /\ s.opened = session.opened
              /\ s.registered = session.registered
            BY <1>1, Framing, FramedSame, AudioAssumption
        <3>2. EnterFlush("user", FALSE, s)
            BY <2>2
        <3> HIDE DEF s
        <3>3. session'.opened = s.opened /\ session'.registered = s.registered
            BY <3>1, <3>2 DEF EnterFlush, Session
        <3> QED
            BY <3>1, <3>3, RegisteredKept
    <2> QED
        BY <2>1, <2>2, RegisteredKept
<1>3. CASE FinishEnding
    <2>1. session'.opened = session.opened /\ session'.registered = session.registered
        BY <1>1, <1>3 DEF FinishEnding, Padded, Session
    <2> QED
        BY <2>1, RegisteredKept
<1>4. ASSUME NEW t \in Task, CloseSent(t) PROVE Registers
    <2> DEFINE s == [session EXCEPT !.closeSent = TRUE]
    <2>1. /\ s \in Session /\ s.opened = session.opened
          /\ s.registered = session.registered
        BY <1>1 DEF Session
    <2>2. session' \in {Fail(s), MarkDone(s)}
        BY <1>4 DEF CloseSent
    <2> HIDE DEF s
    <2>3. SameButEnd(s, session')
        BY <2>1, <2>2, Ends
    <2> QED
        BY <2>1, <2>3, RegisteredKept DEF SameButEnd
<1>5. ASSUME NEW t \in Task, CancelCall(t) PROVE Registers
    <2> DEFINE s == [session EXCEPT !.ending = TRUE, !.cancelled = TRUE]
    <2>1. /\ s \in Session /\ s.opened = session.opened
          /\ s.registered = session.registered
        BY <1>1 DEF Session
    <2>2. session' \in {session, s} \/ SendClose(t, "CANCELLED", s)
        BY <1>5 DEF CancelCall
    <2> HIDE DEF s
    <2> QED
        BY <1>1, <2>1, <2>2, Closing, RegisteredKept DEF SameButEnd
<1>6. ASSUME NEW t \in Cancellers, CancelAbort(t) PROVE Registers
    BY <1>6, Aborted, RegisteredKept DEF SameButEnd
<1> QED
    BY <1>2, <1>3, <1>4, <1>5, <1>6

LEMMA Registration ==
    ASSUME TypeOK, WayInv, RegInv, [Next]_vars PROVE Registers /\ RegInv'
<1> SUFFICES Registers
    BY DEF Registers, RegInv
<1>1. Settled => Registers
    BY RegisteredKept DEF Settled
<1>2. ASSUME NEW t \in Task, Sends(t) PROVE Registers
    <2>1. CASE Transmit(t) \/ Drained(t) \/ SendFailed(t)
        BY <1>1, <2>1, SettledSends
    <2>2. CASE CloseSent(t)
        BY <2>2, RegisteredElsewhere
    <2> QED
        BY <1>2, <2>1, <2>2 DEF Sends
<1>3. CASE Opens
    <2>1. CASE OpenAccepted \/ OpenUnregistered
        BY <2>1, RegisteredOpens
    <2>2. CASE \/ OpenBegin \/ OpenSent \/ OpenRefused \/ OpenTimeout
               \/ OpenCancelled \/ OpenFlush
        BY <1>1, <2>2, SettledOpens
    <2> QED
        BY <1>3, <2>1, <2>2 DEF Opens
<1>4. CASE Writes \/ Finishes \/ UserAbort
    BY <1>1, <1>4, SettledUser, RegisteredElsewhere DEF Writes, Finishes
<1>5. ASSUME NEW t \in Cancellers \cup {"user"}, Cancels(t) PROVE Registers
    <2>1. t \in Task
        BY Tasks
    <2> QED
        BY <1>1, <1>5, <2>1, SettledCancels, RegisteredElsewhere DEF Cancels
<1> QED
    BY <1>1, <1>2, <1>3, <1>4, <1>5, SettledFlushes, SettledReader, RegisteredElsewhere
    DEF Next

LEMMA RegisteredInitially == Init => RegInv
BY DEF Init, RegInv

-----------------------------------------------------------------------------
(* The streams of registered sessions are closed: the invariant.           *)

OpenPlaces ==
    {"begin", "send", "drain", "sent", "failed", "await", "openlock", "flush",
     "cancelled", "ended", "raised"}

\* A task that sends or flushes holds the event loop until it is through.
Places ==
    /\ \A t \in Task : /\ pc[t] \notin {"drain", "failed"}
                       /\ pc[t] \in {"send", "sent", "flush"} => running = t
    /\ Queue # <<>> => \E t \in Task : running = t /\ pc[t] = "send" /\ Queue = <<t>>
    /\ pc["open"] \in OpenPlaces /\ (pc["open"] = "openlock" => running = "open")

\* Whoever ends a session registered under its stream id has sent the close, or
\* the Apple TV has.  A session does not end before _open knows its stream id, and
\* _open is not cancelled once it knows it.
CloseInv ==
    /\ pc["open"] = "cancelled" => ~session.opened
    /\ Opening => ~session.closed
    /\ pc["user"] \in {"eoslock", "waitdone"} => ~Opening
    /\ session.closeSent => Written("close")
    /\ \A t \in Task : call[t].type = "close" =>
           /\ pc[t] \in {"send", "sent"} => session.opened
           /\ pc[t] = "sent" => Written("close")
    /\ (\E i \in DOMAIN inbox : inbox[i] \in {"close", "fail"}) => tv = "closed"
    /\ session.registered /\ session.closed => Written("close") \/ tv = "closed"

SmoothInv == conn.state = "up" => Places /\ CloseInv

-----------------------------------------------------------------------------
(* What keeps it.                                                          *)

\* Nobody is in the queue of the send lock but the task that runs.
LEMMA NobodySends ==
    ASSUME Places, NEW t \in Task, Runs(t), pc[t] # "send" PROVE Queue = <<>>
BY Tasks DEF Places, Runs

LEMMA PlacesKept ==
    ASSUME Places, NEW t \in Task, Runs(t), running' \in {Idle, t},
           \A r \in Task : r # t => pc'[r] = pc[r],
           pc'[t] \notin {"drain", "failed"},
           pc'[t] \in {"send", "sent", "flush", "openlock"} => running' = t,
           Queue' = <<>> \/ (Queue' = <<t>> /\ pc'[t] = "send"),
           t = "open" => pc'[t] \in OpenPlaces
    PROVE  Places'
<1>1. "open" \in Task /\ Idle \notin Task
    BY Tasks
<1>2. ASSUME NEW r \in Task, r # t
      PROVE  pc'[r] \notin {"drain", "failed", "send", "sent", "flush"}
    BY <1>1, <1>2 DEF Places, Runs
<1>3. pc'["open"] \in OpenPlaces /\ (pc'["open"] = "openlock" => running' = "open")
    BY <1>1 DEF Places, Runs
<1>4. Queue' # <<>> => \E r \in Task : running' = r /\ pc'[r] = "send" /\ Queue' = <<r>>
    OBVIOUS
<1> QED
    BY <1>2, <1>3, <1>4 DEF Places

LEMMA CloseKept ==
    ASSUME CloseInv, Registers, NEW t \in Task,
           \A r \in Task : r # t => pc'[r] = pc[r] /\ call'[r] = call[r],
           Written("close") => Written("close")',
           tv = "closed" => tv' = "closed",
           (\E i \in DOMAIN inbox' : inbox'[i] \in {"close", "fail"})
               => tv' = "closed" \/ \E i \in DOMAIN inbox : inbox[i] \in {"close", "fail"},
           session.opened => session'.opened,
           session'.opened /\ session'.closed
               => \/ session.opened /\ session.closed
                  \/ Written("close")' \/ tv' = "closed" \/ ~session'.registered,
           session'.closeSent => session.closeSent \/ Written("close")',
           Opening' => Opening /\ (session'.closed => session.closed),
           pc'["open"] = "cancelled" =>
               pc["open"] = "cancelled" /\ session'.opened = session.opened,
           t = "user" /\ pc'[t] \in {"eoslock", "waitdone"} => ~Opening',
           call'[t].type = "close" =>
               /\ pc'[t] \in {"send", "sent"} => session'.opened
               /\ pc'[t] = "sent" => Written("close")'
    PROVE  CloseInv'
<1>1. "user" \in Task
    BY Tasks
<1>2. pc'["user"] \in {"eoslock", "waitdone"} => ~Opening'
    BY <1>1 DEF CloseInv
<1>3. \A r \in Task : call'[r].type = "close" =>
           /\ pc'[r] \in {"send", "sent"} => session'.opened
           /\ pc'[r] = "sent" => Written("close")'
    BY DEF CloseInv
<1>4. session'.registered /\ session'.closed => Written("close")' \/ tv' = "closed"
    BY DEF CloseInv, Registers
<1> QED
    BY <1>2, <1>3, <1>4 DEF CloseInv

\* The two together, for a step that neither writes nor hears of the Apple TV,
\* and leaves the queue of the send lock empty.
Walked(t) ==
    /\ Runs(t) /\ running' \in {Idle, t} /\ Queue' = <<>>
    /\ \A r \in Task : r # t => pc'[r] = pc[r] /\ call'[r] = call[r]
    /\ call'[t] = call[t] /\ pc'[t] \notin {"drain", "failed", "send", "sent"}
    /\ pc'[t] \in {"flush", "openlock"} => running' = t
    /\ t = "open" => pc'[t] \in OpenPlaces \ {"cancelled"}
    /\ t = "user" => pc'[t] \notin {"eoslock", "waitdone"} \/ ~Opening
    /\ wire' = wire /\ tv' = tv
    /\ (\E i \in DOMAIN inbox' : inbox'[i] \in {"close", "fail"})
           => \E i \in DOMAIN inbox : inbox[i] \in {"close", "fail"}

LEMMA WalkedKeeps ==
    ASSUME Places, CloseInv, Registers, NEW t \in Task, Walked(t),
           session.opened => session'.opened,
           t # "open" => session'.opened = session.opened,
           session'.closeSent = session.closeSent,
           session'.opened /\ session'.closed
               => \/ session.opened /\ session.closed
                  \/ Written("close") \/ tv = "closed" \/ ~session'.registered,
           Opening' => Opening /\ (session'.closed => session.closed)
    PROVE  Places' /\ CloseInv'
<1>1. Places'
    BY PlacesKept DEF Walked
<1>2. Written("close") <=> Written("close")'
    BY DEF Written, Walked
<1>3. pc'["open"] = "cancelled" => pc["open"] = "cancelled"
    BY Tasks DEF Walked
<1>4. t = "user" => (Opening' <=> Opening)
    BY Tasks DEF Opening, Walked
<1>5. CloseInv'
    BY <1>2, <1>3, <1>4, CloseKept DEF Walked
<1> QED
    BY <1>1, <1>5

\* A send finds the lock free, and its task goes on.
LEMMA Starts ==
    ASSUME TypeOK, Places, NEW t \in Task, Runs(t), pc[t] # "send",
           NEW m \in Message, Send(t, m)
    PROVE  Sending(t, m) /\ running' = t /\ Queue' = <<t>>
<1>1. Queue = <<>> /\ Acquire(t, "send", "send") /\ "send" \in Location
    BY NobodySends DEF Send, Location
<1>2. running' = t
    BY <1>1, Acquired DEF Queue
<1>3. Sending(t, m)
    BY SendStarts
<1>4. Queue' = Append(Queue, t)
    BY <1>3 DEF Sending, Queue
<1> QED
    BY <1>1, <1>2, <1>3, <1>4

LEMMA SentKeeps ==
    ASSUME TypeOK, Places, CloseInv, Registers, NEW t \in Task, Runs(t), pc[t] # "send",
           NEW m \in Message, Send(t, m),
           m.type = "close" => session'.opened,
           session.opened => session'.opened,
           t # "open" => session'.opened = session.opened,
           session'.closed = session.closed, session'.closeSent = session.closeSent,
           session.closed => session'.opened = session.opened,
           t = "open" /\ m.type = "open" => Opening,
           wire' = wire, tv' = tv,
           (\E i \in DOMAIN inbox' : inbox'[i] \in {"close", "fail"})
               => \E i \in DOMAIN inbox : inbox[i] \in {"close", "fail"}
    PROVE  Places' /\ CloseInv'
<1>1. Sending(t, m) /\ running' = t /\ Queue' = <<t>>
    BY Starts
<1>2. /\ pc'[t] = "send" /\ call'[t] = m
      /\ \A r \in Task : r # t => pc'[r] = pc[r] /\ call'[r] = call[r]
    BY <1>1 DEF Sending
<1>3. Places'
    BY <1>1, <1>2, PlacesKept DEF OpenPlaces
<1>4. Written("close") <=> Written("close")'
    BY DEF Written
<1>5. Opening' => Opening
    BY <1>2, Tasks DEF Opening
<1>6. pc'["open"] = "cancelled" => pc["open"] = "cancelled" /\ t # "open"
    BY <1>2, Tasks
<1>7. CloseInv'
    BY <1>2, <1>4, <1>5, <1>6, CloseKept
<1> QED
    BY <1>3, <1>7

\* A session is ended with a close, unless the Apple TV has one already.
LEMMA ClosedKeeps ==
    ASSUME TypeOK, Places, CloseInv, Registers, conn.state = "up", NEW t \in Task, Runs(t),
           pc[t] # "send", NEW reason \in Reason, NEW s \in Session,
           SendClose(t, reason, s),
           session.opened => s.opened, t # "open" => s.opened = session.opened /\ ~Opening,
           s.closed = session.closed, s.closeSent = session.closeSent,
           session.closed => s.opened = session.opened,
           wire' = wire, tv' = tv,
           (\E i \in DOMAIN inbox' : inbox'[i] \in {"close", "fail"})
               => \E i \in DOMAIN inbox : inbox[i] \in {"close", "fail"}
    PROVE  Places' /\ CloseInv'
<1>1. CASE NeedsClose(s)
    <2>1. session' = s /\ Send(t, CloseMessage(reason)) /\ s.opened
        BY <1>1 DEF SendClose, NeedsClose
    <2>2. CloseMessage(reason) \in Message /\ CloseMessage(reason).type = "close"
        BY DEF CloseMessage, Message
    <2> QED
        BY <2>1, <2>2, SentKeeps
<1>2. CASE ~NeedsClose(s)
    <2>1. Suspend(t, AfterClose(t)) /\ UNCHANGED <<call, lock>>
        BY <1>2 DEF SendClose
    <2>2. session' \in {Fail(s), MarkDone(s)}
        BY <1>2 DEF SendClose
    <2>3. session'.opened = s.opened /\ session'.closeSent = s.closeSent /\ session'.closed
        BY <2>2 DEF Fail, MarkDone, Session
    <2>4. /\ AfterClose(t) \in {"ended", "idle", "cancel", "done"}
          /\ t = "open" => AfterClose(t) = "ended"
        BY DEF AfterClose
    <2>5. /\ pc'[t] = AfterClose(t) /\ \A r \in Task : r # t => pc'[r] = pc[r]
          /\ running' = Idle
        BY <2>1, <2>4, Moved DEF Suspend, Location
    <2>6. Queue' = <<>>
        BY <2>1, NobodySends DEF Queue
    <2>7. Walked(t)
        BY <2>1, <2>4, <2>5, <2>6 DEF Walked, OpenPlaces
    <2>8. ~Opening'
        BY <2>1, <2>4, <2>5, Tasks DEF Opening
    <2>9. s.opened => Written("close")
        BY <1>2 DEF NeedsClose, CloseInv
    <2> QED
        BY <2>3, <2>7, <2>8, <2>9, WalkedKeeps
<1> QED
    BY <1>1, <1>2

-----------------------------------------------------------------------------
(* The steps.                                                              *)

LEMMA SmoothSends ==
    ASSUME TypeOK, WayInv, Places, CloseInv, Registers,
           conn.state = "up", ~Backpressure,
           NEW t \in Task, Sends(t)
    PROVE  Places' /\ CloseInv'
<1>1. ~Drained(t) /\ ~SendFailed(t)
    BY DEF Drained, SendFailed, Places
<1>2. CASE Transmit(t)
    <2>1. /\ pc[t] = "send" /\ Runs(t) /\ Release(t, "send") /\ Continue(t, "sent")
          /\ wire' = Append(wire, call[t]) /\ UNCHANGED <<call, session, inbox, tv>>
        BY <1>2 DEF Transmit
    <2>2. /\ pc'[t] = "sent" /\ running' = t /\ \A r \in Task : r # t => pc'[r] = pc[r]
        BY <2>1, Moved DEF Continue, Location
    <2>3. Queue' = <<>>
        <3>1. Queue = <<t>>
            BY <1>2, Tasks DEF Transmit, Holds, Runs, Places, Queue
        <3>2. /\ Queue \in Seq(Task) /\ Len(Queue) = 1 /\ Queue[1] = t
              /\ \A r \in Task : Once(Queue, r)
            BY <3>1 DEF Once
        <3>3. \A i \in 1..Len(Leave(Queue, t)) :
                  Leave(Queue, t)[i] # t /\ \E k \in 1..Len(Queue) : Leave(Queue, t)[i] = Queue[k]
            BY <3>2, LeaveOnce
        <3>4. Leave(Queue, t) \in Seq(Task)
            BY <3>2, LeaveQueue
        <3>5. Leave(Queue, t) = <<>>
            BY <3>2, <3>3, <3>4
        <3> QED
            BY <2>1, <3>5, Left DEF Queue
    <2>4. Places'
        BY <2>1, <2>2, <2>3, PlacesKept DEF OpenPlaces
    <2>5. /\ Written("close") => Written("close")'
          /\ call[t].type = "close" => Written("close")'
        <3>1. /\ wire \in Seq(Message) /\ Len(wire) \in Nat /\ DOMAIN wire = 1..Len(wire)
              /\ DOMAIN wire' = 1..Len(wire) + 1 /\ wire'[Len(wire) + 1] = call[t]
              /\ \A i \in 1..Len(wire) : wire'[i] = wire[i]
              /\ call[t] \in Message
            BY <2>1, TypeParts
        <3>2. \A i \in DOMAIN wire : i \in DOMAIN wire' /\ wire'[i] = wire[i]
            BY <3>1
        <3>3. Len(wire) + 1 \in DOMAIN wire'
            BY <3>1
        <3> QED
            BY <3>1, <3>2, <3>3 DEF Written
    <2>6. /\ Opening' <=> Opening
          /\ pc'["open"] = "cancelled" => pc["open"] = "cancelled"
        BY <2>1, <2>2, Tasks DEF Opening
    <2>7. call'[t].type = "close" => session'.opened
        BY <2>1 DEF CloseInv
    <2>8. CloseInv'
        BY <2>1, <2>2, <2>5, <2>6, <2>7, CloseKept
    <2> QED
        BY <2>4, <2>8
<1>3. CASE CloseSent(t)
    <2>1. /\ pc[t] = "sent" /\ call[t].type = "close" /\ Runs(t)
          /\ Suspend(t, AfterClose(t)) /\ UNCHANGED <<call, lock, inbox, wire, tv>>
        BY <1>3 DEF CloseSent
    <2>2. /\ AfterClose(t) \in {"ended", "idle", "cancel", "done"}
          /\ t = "open" => AfterClose(t) = "ended"
        BY DEF AfterClose
    <2>3. /\ pc'[t] = AfterClose(t) /\ \A r \in Task : r # t => pc'[r] = pc[r]
          /\ running' = Idle
        BY <2>1, <2>2, Moved DEF Suspend, Location
    <2>4. Queue' = <<>>
        BY <2>1, NobodySends DEF Queue
    <2>5. Places'
        BY <2>1, <2>2, <2>3, <2>4, PlacesKept DEF OpenPlaces
    <2>6. session'.opened = session.opened
        BY <1>3, TypeParts DEF CloseSent, Fail, MarkDone, Session
    <2>7. session.opened /\ Written("close") /\ Written("close")'
        BY <2>1 DEF CloseInv, Written
    <2>8. ~Opening'
        BY <2>1, <2>2, <2>3, <2>7, Tasks DEF Opening, WayInv, OpenInv
    <2>9. CloseInv'
        BY <2>1, <2>2, <2>3, <2>6, <2>7, <2>8, Tasks, CloseKept
    <2> QED
        BY <2>5, <2>9
<1> QED
    BY <1>1, <1>2, <1>3 DEF Sends

LEMMA SmoothFlushes ==
    ASSUME TypeOK, LockInv, WayInv, Places, CloseInv, Registers, conn.state = "up",
           NEW t \in {"open", "user"}, Flushes(t)
    PROVE  Places' /\ CloseInv'
<1>1. /\ t \in Task /\ Settled /\ session \in Session
      /\ AfterFlush(t, session.force) \in {"ended", "idle", "waitdone"}
      /\ t = "open" => AfterFlush(t, session.force) = "ended"
    BY Tasks, SettledFlushes, TypeParts DEF AfterFlush
<1>2. pc[t] \in {"flush", "sent"} /\ Runs(t) /\ InFlush(t)
    BY DEF Flushes, FlushEvent, FlushEos, FlushEnd, FlushSent, InFlush
<1>3. session'.closed = session.closed
    <2>1. CASE FlushEvent(t)
        BY <1>1, <2>1, EventSent DEF Session
    <2>2. CASE FlushEos(t) \/ FlushEnd(t) \/ FlushSent(t)
        BY <1>1, <2>2 DEF FlushEos, FlushEnd, FlushSent, Session
    <2> QED
        BY <2>1, <2>2 DEF Flushes
<1>4. UNCHANGED <<inbox, wire, tv>>
    BY DEF Flushes, FlushEvent, FlushEos, FlushEnd, FlushSent
<1>5. CASE FlushEvent(t) \/ FlushEos(t)
    <2>1. \E m \in Message : Send(t, m) /\ m.type = "data"
        <3>1. Event.type = "data" /\ LastEvent.type = "data"
            BY DEF Event, LastEvent, DataMessage
        <3>2. FlushEvent(t) => Event \in Message /\ Send(t, Event)
            BY <1>1, EventSent DEF FlushEvent, Event, Count
        <3>3. FlushEos(t) => LastEvent \in Message /\ Send(t, LastEvent)
            BY <1>1, EosSent DEF FlushEos, LastEvent
        <3> QED
            BY <1>5, <3>1, <3>2, <3>3
    <2>2. PICK m \in Message : Send(t, m) /\ m.type = "data"
        BY <2>1
    <2> QED
        BY <1>1, <1>2, <1>3, <1>4, <2>2, SentKeeps DEF Settled
<1>6. CASE FlushEnd(t) \/ FlushSent(t)
    <2>1. /\ call' = call
          /\ (lock' = lock) \/ Release(t, "io")
          /\ \/ Continue(t, "flush")
             \/ Suspend(t, AfterFlush(t, session.force))
        BY <1>6 DEF FlushEnd, FlushSent
    <2>2. /\ pc'[t] \in {"flush", AfterFlush(t, session.force)} /\ running' \in {Idle, t}
          /\ \A r \in Task : r # t => pc'[r] = pc[r]
          /\ pc'[t] = "flush" => running' = t
        BY <1>1, <2>1, Moved DEF Location, Continue
    <2>3. Queue' = <<>>
        BY <1>1, <1>2, <2>1, Left, NobodySends DEF Queue
    <2>4. t = "user" => ~Opening
        BY <1>2, OneFlusher
    <2>5. Walked(t)
        BY <1>1, <1>2, <1>4, <2>1, <2>2, <2>3, <2>4 DEF Walked, OpenPlaces
    <2>6. Opening' => Opening
        BY <1>1, <2>1, <2>2, Tasks DEF Opening
    <2> QED
        BY <1>1, <1>3, <2>5, <2>6, WalkedKeeps DEF Settled
<1> QED
    BY <1>5, <1>6 DEF Flushes

\* A task that neither sends nor is to send leaves the empty queue empty.
LEMMA QueueEmpty ==
    ASSUME TypeOK, Queue = <<>>, NEW t \in Task,
           \/ lock' = lock
           \/ Release(t, "io") \/ ReleaseAll(t)
           \/ \E l \in Location : Acquire(t, "io", l)
    PROVE  Queue' = <<>>
<1>1. CASE ReleaseAll(t)
    <2>1. Queue' = Leave(Queue, t)
        BY <1>1, LeftAll DEF Queue
    <2> QED
        BY <2>1 DEF Leave
<1> QED
    BY <1>1, Left, Acquired DEF Queue

LEMMA SmoothOpens ==
    ASSUME TypeOK, WayInv, Places, CloseInv, Registers, RegInv,
           conn.state = "up", Opens
    PROVE  Places' /\ CloseInv'
<1>1. /\ "open" \in Task /\ "open" # "user" /\ session \in Session
      /\ {"await", "raised", "openlock", "flush", "ended"} \subseteq Location \cap OpenPlaces
    BY Tasks, TypeParts DEF Location, OpenPlaces
<1>2. Runs("open") /\ UNCHANGED <<inbox, wire, tv>> /\ pc["open"] # "send"
    BY DEF Opens, OpenBegin, OpenSent, OpenAccepted, OpenUnregistered, OpenRefused,
           OpenTimeout, OpenFlush, OpenCancelled
<1>3. Queue = <<>>
    BY <1>1, <1>2, NobodySends
<1>4. ASSUME NEW l \in {"await", "raised", "openlock", "flush", "ended"},
             pc'["open"] = l, \A r \in Task : r # "open" => pc'[r] = pc[r],
             call' = call, Queue' = <<>>, running' \in {Idle, "open"},
             l \in {"flush", "openlock"} => running' = "open"
      PROVE  Walked("open") /\ (Opening' => l = "await")
    BY <1>1, <1>2, <1>4 DEF Walked, OpenPlaces, Opening
<1>5. CASE OpenBegin
    <2>1. /\ OpenMessage \in Message /\ OpenMessage.type = "open"
          /\ Send("open", OpenMessage) /\ Opening /\ session' = session
        BY <1>5 DEF OpenBegin, OpenMessage, Message, Opening
    <2> QED
        BY <1>1, <1>2, <2>1, SentKeeps
<1>6. CASE OpenSent
    <2>1. /\ pc'["open"] = "await" /\ \A r \in Task : r # "open" => pc'[r] = pc[r]
          /\ running' \in {Idle, "open"} /\ UNCHANGED <<call, lock, session>> /\ Opening
        BY <1>1, <1>6, TypeParts DEF OpenSent, Opening
    <2>2. Queue' = <<>>
        BY <1>3, <2>1 DEF Queue
    <2>3. Walked("open")
        BY <1>4, <2>1, <2>2
    <2> QED
        BY <1>1, <2>1, <2>3, WalkedKeeps
<1>7. CASE OpenAccepted
    <2> DEFINE s == [session EXCEPT !.opened = TRUE, !.registered = TRUE]
    <2>1. /\ s \in Session /\ s.opened /\ s.closed = session.closed
          /\ s.closeSent = session.closeSent /\ Opening /\ ~session.closed
        BY <1>1, <1>7 DEF OpenAccepted, Session, Opening, CloseInv
    <2>2. \/ SendClose("open", "CANCELLED", s)
          \/ session' = s /\ Acquire("open", "io", "openlock") /\ call' = call
        BY <1>7 DEF OpenAccepted
    <2> HIDE DEF s
    <2>3. CASE SendClose("open", "CANCELLED", s)
        <3>1. "CANCELLED" \in Reason
            BY DEF Reason
        <3> QED
            BY <1>1, <1>2, <2>1, <2>3, <3>1, ClosedKeeps
    <2>4. CASE session' = s /\ Acquire("open", "io", "openlock") /\ call' = call
        <3>1. lock["io"] = <<>>
            BY <1>2, <2>1, Tasks DEF WayInv, OpenInv, Runs
        <3>2. /\ pc'["open"] = "openlock" /\ \A r \in Task : r # "open" => pc'[r] = pc[r]
              /\ running' = "open"
            BY <1>1, <2>4, <3>1, Acquired
        <3>3. Queue' = <<>>
            BY <1>1, <1>3, <2>4, QueueEmpty
        <3>4. Walked("open") /\ ~Opening'
            BY <1>4, <2>4, <3>2, <3>3
        <3> QED
            BY <1>1, <2>1, <2>4, <3>4, WalkedKeeps
    <2> QED
        BY <2>2, <2>3, <2>4
<1>8. CASE OpenRefused \/ OpenTimeout \/ OpenCancelled
    <2>1. /\ Suspend("open", "raised") /\ session' = Fail(session) /\ call' = call
          /\ lock' = lock \/ ReleaseAll("open")
          /\ pc["open"] \in {"await", "cancelled"}
        BY <1>8 DEF OpenRefused, OpenTimeout, OpenCancelled
    <2>2. /\ pc'["open"] = "raised" /\ \A r \in Task : r # "open" => pc'[r] = pc[r]
          /\ running' \in {Idle, "open"}
        BY <1>1, <2>1, Moved
    <2>3. Queue' = <<>>
        BY <1>1, <1>3, <2>1, QueueEmpty
    <2>4. Walked("open") /\ ~Opening'
        BY <1>4, <2>1, <2>2, <2>3
    <2>5. session'.opened = session.opened /\ session'.closeSent = session.closeSent
        BY <1>1, <2>1, Ends DEF SameButEnd
    <2>6. ~session.opened
        BY <2>1 DEF CloseInv, WayInv, OpenInv, Opening
    <2> QED
        BY <1>1, <2>4, <2>5, <2>6, WalkedKeeps
<1>9. CASE OpenFlush
    <2>1. /\ EnterFlush("open", session.ending, session) /\ call' = call
          /\ session.ending \in BOOLEAN /\ "open" \in {"open", "user"}
        BY <1>1, <1>9 DEF OpenFlush, Session
    <2>2. /\ pc'["open"] \in {"flush", "ended"} /\ running' \in {Idle, "open"}
          /\ \A r \in Task : r # "open" => pc'[r] = pc[r]
          /\ pc'["open"] = "flush" => running' = "open"
          /\ (lock' = lock) \/ Release("open", "io")
        BY <1>1, <2>1, Entering DEF AfterFlush
    <2>3. /\ session'.opened = session.opened /\ session'.closeSent = session.closeSent
          /\ session'.closed = session.closed
        BY <1>1, <2>1 DEF EnterFlush, Session
    <2>4. Queue' = <<>>
        BY <1>1, <1>3, <2>2, QueueEmpty
    <2>5. Walked("open") /\ ~Opening'
        BY <1>4, <2>1, <2>2, <2>4
    <2> QED
        BY <1>1, <2>3, <2>5, WalkedKeeps
<1>10. CASE OpenUnregistered
    <2>1. /\ Suspend("open", "raised") /\ UNCHANGED <<call, lock>> /\ pc["open"] = "await"
          /\ SameButEnd([session EXCEPT !.opened = TRUE], session')
        BY <1>10, Unregistered
    <2>2. /\ session'.opened = TRUE /\ session'.closeSent = session.closeSent
          /\ session'.registered = session.registered
        <3> DEFINE s == [session EXCEPT !.opened = TRUE]
        <3>1. /\ s.opened = TRUE /\ s.closeSent = session.closeSent
              /\ s.registered = session.registered
            BY <1>1 DEF Session
        <3>2. SameButEnd(s, session')
            BY <2>1
        <3> HIDE DEF s
        <3> QED
            BY <3>1, <3>2 DEF SameButEnd
    <2>3. ~session'.registered
        BY <2>1, <2>2 DEF WayInv, OpenInv, Opening, RegInv
    <2>4. /\ pc'["open"] = "raised" /\ \A r \in Task : r # "open" => pc'[r] = pc[r]
          /\ running' \in {Idle, "open"}
        BY <1>1, <2>1, Moved
    <2>5. Queue' = <<>>
        BY <1>1, <1>3, <2>1, QueueEmpty
    <2>6. Walked("open") /\ ~Opening'
        BY <1>4, <2>1, <2>4, <2>5
    <2> QED
        BY <1>1, <2>2, <2>3, <2>6, WalkedKeeps
<1> QED
    BY <1>5, <1>6, <1>7, <1>8, <1>9, <1>10 DEF Opens

LEMMA SmoothUser ==
    ASSUME TypeOK, WayInv, Places, CloseInv, Registers, conn.state = "up",
           Writes \/ Finishes
    PROVE  Places' /\ CloseInv'
<1>1. /\ "user" \in Task /\ "open" # "user" /\ "open" \in Task /\ session \in Session
      /\ {"writelock", "endlock", "eoslock", "cancel", "returned", "join", "flush",
          "idle", "waitdone"} \subseteq Location
    BY Tasks, TypeParts DEF Location
<1>2. Runs("user") /\ UNCHANGED <<inbox, wire, tv>> /\ pc["user"] # "send"
    BY DEF Writes, WriteCall, WriteBody, Finishes, FinishCall, FinishEnding, FinishJoin,
           FinishEos, FinishReturn, FinishTimeout
<1>3. Queue = <<>>
    BY <1>1, <1>2, NobodySends
<1>4. OpenDone \/ pc["user"] \in {"eoslock", "waitdone"} => ~Opening
    BY DEF OpenDone, Opening, CloseInv
<1>5. ASSUME pc'["user"] \in {"writelock", "endlock", "eoslock", "cancel", "returned",
                              "join", "flush", "idle", "waitdone"},
             pc'["user"] \in {"eoslock", "waitdone"} => ~Opening,
             pc'["user"] = "flush" => running' = "user",
             \A r \in Task : r # "user" => pc'[r] = pc[r],
             running' \in {Idle, "user"}, call' = call, Queue' = <<>>,
             session'.opened = session.opened, session'.closed = session.closed,
             session'.closeSent = session.closeSent
      PROVE  Places' /\ CloseInv'
    <2>1. Walked("user")
        BY <1>1, <1>2, <1>5 DEF Walked
    <2>2. Opening' => Opening
        BY <1>1, <1>5 DEF Opening
    <2> QED
        BY <1>1, <1>5, <2>1, <2>2, WalkedKeeps
<1>6. ASSUME NEW force \in BOOLEAN, NEW s \in Session, EnterFlush("user", force, s),
             call' = call, force => ~Opening, s.opened = session.opened,
             s.closed = session.closed, s.closeSent = session.closeSent
      PROVE  Places' /\ CloseInv'
    <2>1. "user" \in {"open", "user"}
        OBVIOUS
    <2>2. /\ pc'["user"] \in {"flush", IF force THEN "waitdone" ELSE "idle"}
          /\ running' \in {Idle, "user"} /\ \A r \in Task : r # "user" => pc'[r] = pc[r]
          /\ pc'["user"] = "flush" => running' = "user"
          /\ (lock' = lock) \/ Release("user", "io")
        BY <1>6, <2>1, Entering DEF AfterFlush
    <2>3. /\ session'.opened = session.opened /\ session'.closed = session.closed
          /\ session'.closeSent = session.closeSent
        BY <1>6 DEF EnterFlush, Session
    <2>4. Queue' = <<>>
        BY <1>1, <1>3, <2>2, QueueEmpty
    <2> QED
        BY <1>5, <1>6, <2>2, <2>3, <2>4
<1>7. CASE WriteCall \/ FinishCall \/ FinishJoin \/ FinishReturn
    <2>1. /\ call' = call /\ session' = session
          /\ \/ /\ lock' = lock
                /\ Suspend("user", "cancel") \/ Suspend("user", "returned")
             \/ \E l \in {"writelock", "endlock"} : Acquire("user", "io", l)
             \/ OpenDone /\ Acquire("user", "io", "eoslock")
        BY <1>7 DEF WriteCall, FinishCall, FinishJoin, FinishReturn, Conclude
    <2>2. /\ pc'["user"] \in {"writelock", "endlock", "eoslock", "cancel", "returned"}
          /\ pc'["user"] = "eoslock" => ~Opening
          /\ running' \in {Idle, "user"} /\ \A r \in Task : r # "user" => pc'[r] = pc[r]
        BY <1>1, <1>4, <2>1, Moved, Acquired
    <2>3. Queue' = <<>>
        BY <1>1, <1>3, <2>1, QueueEmpty
    <2> QED
        BY <1>5, <2>1, <2>2, <2>3
<1>8. CASE WriteBody
    <2>1. /\ call' = call
          /\ \/ Release("user", "io") /\ Suspend("user", "cancel") /\ session' = session
             \/ \E n \in ChunkSizes : EnterFlush("user", FALSE, Framed(session, n))
        BY <1>8 DEF WriteBody
    <2>2. CASE Release("user", "io") /\ Suspend("user", "cancel") /\ session' = session
        <3>1. /\ pc'["user"] = "cancel" /\ running' \in {Idle, "user"}
              /\ \A r \in Task : r # "user" => pc'[r] = pc[r]
            BY <1>1, <2>2, Moved
        <3>2. Queue' = <<>>
            BY <1>1, <1>3, <2>2, QueueEmpty
        <3> QED
            BY <1>5, <2>1, <2>2, <3>1, <3>2
    <2>3. ASSUME NEW n \in ChunkSizes, EnterFlush("user", FALSE, Framed(session, n))
          PROVE  Places' /\ CloseInv'
        <3>1. Framed(session, n) \in Session
            BY <1>1, Framing, AudioAssumption
        <3> QED
            BY <1>1, <1>6, <2>1, <2>3, <3>1, FramedSame
    <2> QED
        BY <2>1, <2>2, <2>3
<1>9. CASE FinishEnding
    <2>1. /\ call' = call /\ Release("user", "io")
          /\ pc' = [pc EXCEPT !["user"] = "join"] /\ running' \in {Idle, "user"}
          /\ session' = [Padded(session) EXCEPT !.ending = TRUE]
        BY <1>9 DEF FinishEnding
    <2>2. /\ pc'["user"] = "join" /\ \A r \in Task : r # "user" => pc'[r] = pc[r]
        BY <1>1, <2>1, TypeParts
    <2>3. Queue' = <<>>
        BY <1>1, <1>3, <2>1, QueueEmpty
    <2>4. /\ session'.opened = session.opened /\ session'.closed = session.closed
          /\ session'.closeSent = session.closeSent
        BY <1>1, <2>1 DEF Padded, Session
    <2> QED
        BY <1>5, <2>1, <2>2, <2>3, <2>4
<1>10. CASE FinishEos
    <2>1. EnterFlush("user", TRUE, session) /\ call' = call /\ pc["user"] = "eoslock"
        BY <1>10 DEF FinishEos
    <2>2. TRUE \in BOOLEAN
        OBVIOUS
    <2> QED
        BY <1>1, <1>4, <1>6, <2>1, <2>2
<1>11. CASE FinishTimeout
    <2>1. SendClose("user", "TIMEOUT", session) /\ ~Opening /\ "TIMEOUT" \in Reason
        BY <1>4, <1>11 DEF FinishTimeout, Reason
    <2> QED
        BY <1>1, <1>2, <2>1, ClosedKeeps
<1> QED
    BY <1>7, <1>8, <1>9, <1>10, <1>11 DEF Writes, Finishes

LEMMA SmoothCancels ==
    ASSUME TypeOK, WayInv, Places, CloseInv, Registers, conn.state = "up",
           NEW t \in Cancellers \cup {"user"}, Cancels(t)
    PROVE  Places' /\ CloseInv'
<1> DEFINE s == [session EXCEPT !.ending = TRUE, !.cancelled = TRUE]
<1>1. /\ t \in Task /\ t # "open" /\ "open" \in Task /\ {"done", "openwait"} \subseteq Location
      /\ session \in Session /\ s \in Session /\ "CANCELLED" \in Reason
      /\ s.opened = session.opened /\ s.closed = session.closed
      /\ s.closeSent = session.closeSent
    BY Tasks, TypeParts DEF Session, Reason, Location
<1>2. Runs(t) /\ UNCHANGED <<inbox, wire, tv>> /\ pc[t] # "send"
    BY DEF Cancels, CancelCall, CancelJoin, CancelGiveUp
<1>3. OpenDone \/ session.opened => ~Opening
    BY DEF OpenDone, Opening, WayInv, OpenInv
<1>4. \/ /\ UNCHANGED <<call, lock>> /\ session' \in {session, s}
         /\ Suspend(t, "done") \/ Suspend(t, "openwait")
      \/ ~Opening /\ SendClose(t, "CANCELLED", s)
      \/ ~Opening /\ SendClose(t, "CANCELLED", session)
    BY <1>3 DEF Cancels, CancelCall, CancelJoin, CancelGiveUp
<1> HIDE DEF s
<1>5. CASE /\ UNCHANGED <<call, lock>> /\ session' \in {session, s}
           /\ Suspend(t, "done") \/ Suspend(t, "openwait")
    <2>1. /\ pc'[t] \in {"done", "openwait"} /\ running' \in {Idle, t}
          /\ \A r \in Task : r # t => pc'[r] = pc[r]
        BY <1>1, <1>5, Moved
    <2>2. Queue' = <<>>
        BY <1>1, <1>2, <1>5, NobodySends DEF Queue
    <2>3. Walked(t) /\ (Opening' => Opening)
        BY <1>1, <1>2, <1>5, <2>1, <2>2 DEF Walked, Opening
    <2> QED
        BY <1>1, <1>5, <2>3, WalkedKeeps
<1> QED
    BY <1>1, <1>2, <1>4, <1>5, ClosedKeeps

LEMMA SmoothReader ==
    ASSUME TypeOK, WayInv, Places, CloseInv, Registers, RegInv,
           conn.state = "up", ReaderSteps
    PROVE  Places' /\ CloseInv'
<1>1. /\ "reader" \in Task /\ "reader" \notin {"open", "user"} /\ "open" \in Task
      /\ session \in Session /\ "idle" \in Location /\ inbox \in Seq(Answer)
    BY Tasks, TypeParts DEF Location, TypeOK
<1>2. /\ Runs("reader") /\ UNCHANGED <<wire, tv>> /\ pc["reader"] = "idle"
      /\ inbox # <<>> /\ inbox' = Tail(inbox)
    BY DEF ReaderSteps, ReaderResponse, ReaderAck, ReaderClose, Reads
<1>3. \A i \in DOMAIN inbox' : i + 1 \in DOMAIN inbox /\ inbox'[i] = inbox[i + 1]
    BY <1>1, <1>2
<1>4. (\E i \in DOMAIN inbox' : inbox'[i] \in {"close", "fail"})
          => \E i \in DOMAIN inbox : inbox[i] \in {"close", "fail"}
    BY <1>3
<1>5. session.opened => ~Opening
    BY DEF WayInv, OpenInv
<1>6. CASE session.opened /\ SendClose("reader", "NORMAL", session)
    <2>1. "NORMAL" \in Reason
        BY DEF Reason
    <2> QED
        BY <1>1, <1>2, <1>4, <1>5, <1>6, <2>1, ClosedKeeps
<1>7. CASE /\ Suspend("reader", "idle") /\ UNCHANGED <<call, lock>>
           /\ \/ session' = session
              \/ /\ session.opened /\ session' \in {Fail(session), MarkDone(session)}
                 /\ Head(inbox) \in {"close", "fail"}
    <2>1. /\ pc'["reader"] = "idle" /\ running' \in {Idle, "reader"}
          /\ \A r \in Task : r # "reader" => pc'[r] = pc[r]
        BY <1>1, <1>7, Moved
    <2>2. Queue' = <<>>
        BY <1>1, <1>2, <1>7, NobodySends DEF Queue
    <2>3. Walked("reader") /\ (Opening' => Opening)
        BY <1>1, <1>2, <1>4, <1>7, <2>1, <2>2 DEF Walked, Opening
    <2>4. session'.opened = session.opened /\ session'.closeSent = session.closeSent
        BY <1>1, <1>7, Ends DEF SameButEnd
    <2>5. Head(inbox) \in {"close", "fail"} => tv = "closed"
        <3>1. 1 \in DOMAIN inbox /\ inbox[1] = Head(inbox)
            BY <1>1, <1>2
        <3> QED
            BY <3>1 DEF CloseInv
    <2>6. session'.opened /\ session'.closed
              => \/ session.opened /\ session.closed
                 \/ Written("close") \/ tv = "closed"
        BY <1>7, <2>4, <2>5
    <2>7. Opening' => Opening /\ (session'.closed => session.closed)
        BY <1>5, <1>7, <2>3
    <2> QED
        BY <1>1, <2>3, <2>4, <2>6, <2>7, WalkedKeeps
<1> QED
    BY <1>6, <1>7 DEF ReaderSteps, ReaderResponse, ReaderAck, ReaderClose, RegInv

LEMMA SmoothAbort ==
    ASSUME TypeOK, WayInv, Places, CloseInv, Registers, conn.state = "up",
           UserAbort
    PROVE  Places' /\ CloseInv'
<1>1. /\ "user" \in Task /\ "open" \in Task /\ "open" # "user" /\ Idle \notin Task
      /\ running = Idle /\ running' = Idle /\ UNCHANGED <<call, inbox, wire, tv>>
    BY Tasks DEF UserAbort
<1>2. /\ \A t \in Task : pc[t] \notin {"send", "drain", "sent", "failed", "flush"}
      /\ Queue = <<>>
    BY <1>1 DEF Places
<1>3. CASE /\ ReleaseAll("user") /\ session' = session
           /\ pc' = [pc EXCEPT !["user"] = "cancel"]
    <2>1. pc'["user"] = "cancel" /\ \A r \in Task : r # "user" => pc'[r] = pc[r]
        BY <1>1, <1>3, TypeParts
    <2>2. Queue' = <<>>
        BY <1>1, <1>2, <1>3, QueueEmpty
    <2>3. Walked("user") /\ (Opening' => Opening)
        BY <1>1, <2>1, <2>2 DEF Walked, Opening, Runs
    <2> QED
        BY <1>1, <1>3, <2>3, WalkedKeeps
<1>4. CASE /\ UNCHANGED <<lock, session>> /\ pc["user"] = "join" /\ ~OpenDone
           /\ pc' = [pc EXCEPT !["open"] = IF @ = "begin" THEN "raised" ELSE "cancelled"]
    <2>1. /\ pc'["open"] \in {"raised", "cancelled"}
          /\ \A r \in Task : r # "open" => pc'[r] = pc[r]
        BY <1>1, <1>4, TypeParts
    <2>2. pc["open"] \in {"begin", "await", "cancelled"}
        BY <1>1, <1>2, <1>4 DEF Places, OpenPlaces, OpenDone
    <2>3. ~session.opened
        BY <2>2 DEF CloseInv, WayInv, OpenInv, Opening
    <2>4. Places'
        BY <1>1, <1>2, <1>4, <2>1, PlacesKept DEF OpenPlaces, Queue, Runs
    <2>5. ~Opening' /\ (Written("close") <=> Written("close")')
        BY <1>1, <2>1 DEF Opening, Written
    <2>6. \A t \in Task : pc'[t] \notin {"send", "sent"}
        BY <1>2, <2>1
    <2>7. pc'["user"] = "join"
        BY <1>1, <1>4, <2>1
    <2>8. CloseInv'
        BY <1>1, <1>4, <2>3, <2>5, <2>6, <2>7 DEF CloseInv
    <2> QED
        BY <2>4, <2>8
<1>5. pc["user"] \in {"send", "drain"} => FALSE
    BY <1>1, <1>2
<1> QED
    BY <1>3, <1>4, <1>5 DEF UserAbort

\* Nobody is cancelled in a send: it does not suspend.
LEMMA NoAborts ==
    ASSUME TypeOK, Places, NEW t \in Cancellers PROVE ~CancelAbort(t)
<1> SUFFICES ASSUME CancelAbort(t) PROVE FALSE
    OBVIOUS
<1>1. t \in Task /\ pc[t] \in {"send", "drain"} /\ running = Idle /\ Idle \notin Task
    BY Aborted, Tasks
<1> QED
    BY <1>1 DEF Places

LEMMA SmoothTv ==
    ASSUME TypeOK, Places, CloseInv, TvAnswer \/ TvAck \/ TvClose
    PROVE  Places' /\ CloseInv'
<1>1. /\ UNCHANGED <<pc, call, running, lock, session, wire>> /\ tv # "closed"
      /\ \E answer : /\ inbox' = Append(inbox, answer)
                     /\ answer \in {"close", "fail"} => tv' = "closed"
    BY DEF TvAnswer, TvAck, TvClose, TvStep
<1>2. PICK answer : /\ inbox' = Append(inbox, answer)
                    /\ answer \in {"close", "fail"} => tv' = "closed"
    BY <1>1
<1>3. inbox \in Seq(Answer)
    BY DEF TypeOK
<1>4. \A i \in DOMAIN inbox' :
          inbox'[i] = answer \/ (i \in DOMAIN inbox /\ inbox'[i] = inbox[i])
    BY <1>2, <1>3
<1>5. (\E i \in DOMAIN inbox' : inbox'[i] \in {"close", "fail"}) => tv' = "closed"
    BY <1>1, <1>2, <1>4 DEF CloseInv
<1>6. /\ Opening' <=> Opening
      /\ Written("close") <=> Written("close")'
      /\ Queue' = Queue
    BY <1>1 DEF Opening, Written, Queue
<1> QED
    BY <1>1, <1>5, <1>6 DEF Places, CloseInv

-----------------------------------------------------------------------------

\* A connection that has failed does not come up again.
LEMMA ConnUp == ASSUME TypeOK, [Next]_vars, conn'.state = "up" PROVE conn.state = "up"
<1>1. conn \in [state: {"up", "lost", "closed"},
                future: {"none", "pending", "accept", "reject", "fail"}]
    BY DEF TypeOK
<1>2. \/ conn' = conn
      \/ \E f : conn' = [conn EXCEPT !.future = f]
      \/ conn'.state # "up"
    <2>1. ASSUME NEW t \in Task, Sends(t) PROVE conn' = conn \/ conn'.state # "up"
        BY <2>1 DEF Sends, Transmit, Drained, CloseSent, SendFailed
    <2>2. ASSUME NEW t \in {"open", "user"}, Flushes(t) PROVE conn' = conn
        BY <2>2 DEF Flushes, FlushEvent, FlushEos, FlushEnd, FlushSent
    <2>3. CASE Opens
        BY <2>3 DEF Opens, OpenBegin, OpenSent, OpenAccepted, OpenUnregistered,
                    OpenRefused, OpenTimeout, OpenFlush, OpenCancelled
    <2>4. CASE Writes \/ Finishes \/ UserAbort
        BY <2>4 DEF Writes, WriteCall, WriteBody, Finishes, FinishCall, FinishEnding,
                    FinishJoin, FinishEos, FinishReturn, FinishTimeout, UserAbort
    <2>5. ASSUME NEW t \in Cancellers \cup {"user"}, Cancels(t) PROVE conn' = conn
        BY <2>5 DEF Cancels, CancelCall, CancelJoin, CancelGiveUp
    <2>6. CASE ReaderSteps
        BY <2>6 DEF ReaderSteps, ReaderResponse, ReaderAck, ReaderClose
    <2>7. CASE ConnClose \/ ConnLost \/ TvAnswer \/ TvAck \/ TvClose \/ Terminated
               \/ UNCHANGED vars
        BY <1>1, <2>7 DEF ConnClose, ConnLost, TvAnswer, TvAck, TvClose, TvStep,
                          Terminated, vars
    <2>8. ASSUME NEW t \in Cancellers, CancelAbort(t) PROVE conn' = conn
        BY <2>8 DEF CancelAbort
    <2> QED
        BY <2>1, <2>2, <2>3, <2>4, <2>5, <2>6, <2>7, <2>8 DEF Next
<1> QED
    BY <1>1, <1>2

LEMMA SmoothStep ==
    ASSUME ~Backpressure, TypeOK, LockInv, WayInv, RegInv, SmoothInv, [Next]_vars
    PROVE  SmoothInv'
<1> SUFFICES ASSUME conn'.state = "up" PROVE Places' /\ CloseInv'
    BY DEF SmoothInv
<1>1. conn.state = "up" /\ Places /\ CloseInv /\ Registers
    BY ConnUp, Registration DEF SmoothInv
<1>2. CASE Terminated \/ UNCHANGED vars
    <2>1. UNCHANGED vars
        BY <1>2 DEF Terminated
    <2>2. /\ Opening' <=> Opening
          /\ Written("close") <=> Written("close")'
          /\ Queue' = Queue
        BY <2>1 DEF vars, Opening, Written, Queue
    <2> QED
        BY <1>1, <2>1, <2>2 DEF vars, Places, CloseInv
<1>3. ~ConnClose /\ ~ConnLost
    BY DEF ConnClose, ConnLost, TypeOK
<1> QED
    BY <1>1, <1>2, <1>3, SmoothSends, SmoothFlushes, SmoothOpens, SmoothUser,
       SmoothCancels, SmoothReader, SmoothAbort, NoAborts, SmoothTv DEF Next

LEMMA SmoothInitially == Init => SmoothInv
<1> SUFFICES ASSUME Init PROVE Places /\ CloseInv
    BY DEF SmoothInv
<1>1. /\ pc["open"] = "begin" /\ pc["user"] = "idle"
      /\ \A t \in Task : pc[t] \in {"begin", "idle", "ready"}
      /\ Queue = <<>> /\ inbox = <<>> /\ DOMAIN inbox = {}
      /\ session.opened = FALSE /\ session.registered = FALSE
      /\ session.closed = FALSE /\ session.closeSent = FALSE
    BY Tasks DEF Init, Queue
<1> QED
    BY <1>1 DEF Places, CloseInv, OpenPlaces

\* Where drain() does not suspend, the microphone stream of a registered session
\* is not left open: a session that is over, and whose tasks have settled, has
\* sent dataSend/close if _open ever registered it under its stream id, unless
\* the Apple TV closed the stream itself or the connection is gone.  Whoever
\* cancels the session, and whenever.  It says nothing of a stream whose id
\* _open refuses, for it is negative or taken: the code sends no close for it.
THEOREM StreamsAreClosed ==
    ASSUME ~Backpressure PROVE Spec => []RegisteredStreamsAreClosed
<1> DEFINE Smooth == WayInv /\ RegInv /\ SmoothInv
<1>1. Init => Smooth
    BY InitiallyOrdered, RegisteredInitially, SmoothInitially
<1>2. TypeOK /\ LockInv /\ Smooth /\ [Next]_vars => Smooth'
    BY WayStep, Registration, SmoothStep
<1>3. Smooth => RegisteredStreamsAreClosed
    BY DEF SmoothInv, CloseInv, RegisteredStreamsAreClosed
<1> HIDE DEF Smooth
<1> QED
    BY <1>1, <1>2, <1>3, TypeCorrect, LockInvariant, PTL DEF Spec

-----------------------------------------------------------------------------
(* The stream on the wire: the invariant.                                  *)

\* Where _open is while it has not written its request, and while it waits for
\* the answer.
Asking ==
    pc["open"] = "begin" \/ (pc["open"] = "send" /\ call["open"].type = "open")
Asked ==
    pc["open"] = "await" \/ (pc["open"] = "sent" /\ call["open"].type = "open")

\* The stream is requested first, and only by _open.
Requested ==
    /\ Asking => wire = <<>>
    /\ session.opened \/ Asked => wire # <<>>
    /\ \A t \in Task : pc[t] \in {"send", "sent"} /\ call[t].type = "open" => t = "open"

\* A task has written a close, and is about to note it.
Noting(t) == pc[t] = "sent" /\ call[t].type = "close"

\* Once a close is written, the session is closed before another task runs, and
\* nobody is between the test for it and a write.
ClosedOnce ==
    Written("close") =>
        /\ \/ session.closed /\ session.closeSent
           \/ \E t \in Task : running = t /\ Noting(t)
        /\ \A t \in Task : pc[t] \in {"send", "sent", "flush"} => Noting(t)

\* An event is of a session that has its stream id, and only the last is empty.
Counted ==
    \A t \in Task :
        /\ InFlush(t) => session.opened
        /\ Pending(t) => call[t].count \in Nat /\ (call[t].count > 0 \/ call[t].eos)

\* Every message follows what it may follow, and only the last event ends the
\* stream.
Placed ==
    /\ \A i, j \in DOMAIN wire : i < j => ~Misplaced(wire[j], wire[i])
    /\ EosWritten => EosOnWire

StreamInv == Requested /\ ClosedOnce /\ Counted /\ Placed

-----------------------------------------------------------------------------
(* What keeps it.                                                          *)

\* The session gets its stream id once, and does not come back.
Lasting ==
    /\ session.opened => session'.opened
    /\ session'.opened => session.opened \/ Asked
    /\ session.closed /\ session.closeSent => session'.closed /\ session'.closeSent

\* Ending the session with a failure, or without, leaves its stream as it was.
LEMMA EndingLasts ==
    ASSUME session \in Session, session' \in {session, Fail(session), MarkDone(session)}
    PROVE  Lasting
<1>1. CASE session' = session
    BY <1>1 DEF Lasting
<1>2. ASSUME NEW r, SameButEnd(session, r), r.closed = TRUE, session' = r
      PROVE  Lasting
    <2>1. /\ session'.opened = session.opened /\ session'.closed = TRUE
          /\ session'.closeSent = session.closeSent
        BY <1>2 DEF SameButEnd
    <2> QED
        BY <2>1 DEF Lasting
<1>3. /\ SameButEnd(session, Fail(session)) /\ Fail(session).closed = TRUE
      /\ SameButEnd(session, MarkDone(session)) /\ MarkDone(session).closed = TRUE
    BY Ends
<1> QED
    BY <1>1, <1>2, <1>3

LEMMA StreamKept ==
    ASSUME StreamInv, NEW t \in Task, Runs(t), wire' = wire, Lasting,
           \A r \in Task : r # t => pc'[r] = pc[r] /\ call'[r] = call[r],
           t = "open" => (Asking' => Asking) /\ (Asked' => wire # <<>>),
           pc'[t] \in {"send", "sent"} /\ call'[t].type = "open" => t = "open",
           Noting(t) => session'.closed /\ session'.closeSent,
           pc'[t] \in {"send", "sent", "flush"} => ~Written("close"),
           InFlush(t)' => session'.opened,
           Pending(t)' => call'[t].count \in Nat /\ (call'[t].count > 0 \/ call'[t].eos)
    PROVE  StreamInv'
<1>1. "open" \in Task /\ Idle \notin Task
    BY Tasks
<1>2. Requested'
    <2>1. t # "open" => (Asking' <=> Asking) /\ (Asked' <=> Asked)
        BY <1>1 DEF Asking, Asked
    <2>2. \A r \in Task : pc'[r] \in {"send", "sent"} /\ call'[r].type = "open" => r = "open"
        BY DEF StreamInv, Requested
    <2>3. (Asking' => wire = <<>>) /\ (session'.opened \/ Asked' => wire # <<>>)
        BY <2>1 DEF StreamInv, Requested, Lasting
    <2> QED
        BY <2>2, <2>3 DEF Requested
<1>3. ClosedOnce'
    <2> SUFFICES ASSUME Written("close")'
                 PROVE  /\ session'.closed /\ session'.closeSent
                        /\ \A r \in Task : pc'[r] \in {"send", "sent", "flush"} => Noting(r)'
        BY DEF ClosedOnce
    <2>1. Written("close")
        BY DEF Written
    <2>2. session'.closed /\ session'.closeSent
        BY <1>1, <2>1 DEF StreamInv, ClosedOnce, Lasting, Runs
    <2>3. \A r \in Task : pc'[r] \in {"send", "sent", "flush"} => Noting(r)'
        BY <2>1 DEF StreamInv, ClosedOnce, Noting
    <2> QED
        BY <2>2, <2>3
<1>4. Counted'
    <2>1. ASSUME NEW r \in Task, r # t
          PROVE  /\ InFlush(r)' => InFlush(r)
                 /\ Pending(r)' => Pending(r) /\ call'[r] = call[r]
        BY <2>1 DEF InFlush, Pending
    <2> QED
        BY <2>1 DEF StreamInv, Counted, Lasting
<1>5. Placed'
    BY WireSame DEF StreamInv, Placed, EosWritten
<1> QED
    BY <1>2, <1>3, <1>4, <1>5 DEF StreamInv

\* A task goes on to a place where it neither sends nor flushes.
LEMMA StreamWalks ==
    ASSUME StreamInv, NEW t \in Task, Runs(t), wire' = wire, Lasting, call' = call,
           \A r \in Task : r # t => pc'[r] = pc[r],
           pc'[t] \notin {"begin", "send", "drain", "sent", "failed", "flush"},
           t = "open" /\ pc'[t] = "await" => wire # <<>>,
           Noting(t) => session'.closed /\ session'.closeSent
    PROVE  StreamInv'
<1>1. t = "open" => (Asking' => Asking) /\ (Asked' => wire # <<>>)
    BY DEF Asking, Asked
<1>2. ~InFlush(t)' /\ ~Pending(t)'
    BY DEF InFlush, Pending
<1> QED
    BY <1>1, <1>2, StreamKept

LEMMA StreamFlushes ==
    ASSUME StreamInv, NEW t \in Task, Runs(t), wire' = wire, Lasting, call' = call,
           \A r \in Task : r # t => pc'[r] = pc[r],
           pc'[t] = "flush", session'.opened, ~Noting(t), ~Written("close")
    PROVE  StreamInv'
<1>1. t = "open" => (Asking' => Asking) /\ (Asked' => wire # <<>>)
    BY DEF Asking, Asked
<1>2. ~Pending(t)'
    BY DEF Pending
<1> QED
    BY <1>1, <1>2, StreamKept

LEMMA StreamSends ==
    ASSUME StreamInv, NEW t \in Task, Runs(t), wire' = wire, Lasting, NEW m, Sending(t, m),
           ~Noting(t), ~Written("close"),
           m.type = "open" => t = "open" /\ Asking,
           m.type = "data" =>
               session'.opened /\ m.count \in Nat /\ (m.count > 0 \/ m.eos)
    PROVE  StreamInv'
<1>1. t = "open" => (Asking' => Asking) /\ (Asked' => wire # <<>>)
    BY DEF Asking, Asked, Sending
<1>2. /\ InFlush(t)' => m.type = "data"
      /\ Pending(t)' => m.type = "data"
    BY DEF InFlush, Pending, Sending
<1> QED
    BY <1>1, <1>2, StreamKept DEF Sending

\* The close has been written by nobody, as far as the running task can see.
LEMMA Unclosed ==
    ASSUME StreamInv, NEW t \in Task, Runs(t), ~Noting(t),
           ~session.closed \/ ~session.closeSent
    PROVE  ~Written("close")
BY Tasks DEF StreamInv, ClosedOnce, Runs

LEMMA StreamCloses ==
    ASSUME TypeOK, StreamInv, NEW t \in Task, Runs(t), ~Noting(t), wire' = wire,
           NEW reason \in Reason, NEW s \in Session, SendClose(t, reason, s),
           session.opened => s.opened, s.opened => session.opened \/ Asked,
           s.closed = session.closed, s.closeSent = session.closeSent
    PROVE  StreamInv'
<1>1. SameButEnd(s, session') /\ (session'.closed \/ session' = s)
    BY Closing
<1>2. Lasting
    BY <1>1 DEF Lasting, SameButEnd
<1>3. CASE NeedsClose(s)
    <2>1. /\ Send(t, CloseMessage(reason)) /\ CloseMessage(reason) \in Message
          /\ CloseMessage(reason).type = "close" /\ ~session.closeSent
        BY <1>3 DEF SendClose, NeedsClose, CloseMessage, Message
    <2>2. Sending(t, CloseMessage(reason))
        BY <2>1, SendStarts
    <2>3. ~Written("close")
        BY <2>1, Unclosed
    <2> QED
        BY <1>2, <2>1, <2>2, <2>3, StreamSends
<1>4. CASE ~NeedsClose(s)
    <2>1. /\ Suspend(t, AfterClose(t)) /\ call' = call
          /\ AfterClose(t) \in {"ended", "idle", "cancel", "done"}
          /\ AfterClose(t) \in Location
        BY <1>4 DEF SendClose, AfterClose, Location
    <2> QED
        BY <1>2, <2>1, Moved, StreamWalks
<1> QED
    BY <1>3, <1>4

LEMMA StreamEntering ==
    ASSUME TypeOK, StreamInv, NEW t \in {"open", "user"}, Runs(t), ~Noting(t),
           wire' = wire, call' = call, NEW force \in BOOLEAN, NEW s \in Session,
           EnterFlush(t, force, s), s.opened = session.opened,
           s.closed = session.closed, s.closeSent = session.closeSent
    PROVE  StreamInv'
<1>1. t \in Task
    BY Tasks
<1>2. /\ session'.opened = session.opened /\ session'.closed = session.closed
      /\ session'.closeSent = session.closeSent
    BY DEF EnterFlush, Session
<1>3. Lasting
    BY <1>2 DEF Lasting
<1>4. /\ \A r \in Task : r # t => pc'[r] = pc[r]
      /\ \/ pc'[t] \in {"ended", "idle", "waitdone"}
         \/ pc'[t] = "flush" /\ session.opened /\ ~session.closed
    BY Entering DEF AfterFlush
<1> QED
    BY <1>1, <1>2, <1>3, <1>4, Unclosed, StreamWalks, StreamFlushes

-----------------------------------------------------------------------------
(* The steps that write nothing.                                           *)

LEMMA StreamOpens ==
    ASSUME TypeOK, StreamInv, Opens PROVE StreamInv'
<1>1. /\ "open" \in Task /\ session \in Session
      /\ {"raised", "openlock", "flush", "ended"} \subseteq Location
    BY Tasks, TypeParts DEF Location
<1>2. Runs("open") /\ wire' = wire
    BY DEF Opens, OpenBegin, OpenSent, OpenAccepted, OpenUnregistered, OpenRefused,
           OpenTimeout, OpenFlush, OpenCancelled
<1>3. CASE OpenBegin
    <2>1. /\ OpenMessage \in Message /\ OpenMessage.type = "open"
          /\ Send("open", OpenMessage) /\ Asking /\ ~Noting("open") /\ session' = session
        BY <1>3 DEF OpenBegin, OpenMessage, Message, Asking, Noting
    <2>2. Sending("open", OpenMessage) /\ Lasting
        BY <1>1, <2>1, SendStarts DEF Lasting
    <2>3. ~Written("close")
        BY <2>1 DEF StreamInv, Requested, Written
    <2> QED
        BY <1>1, <1>2, <2>1, <2>2, <2>3, StreamSends
<1>4. CASE OpenSent
    <2>1. /\ pc'["open"] = "await" /\ \A r \in Task : r # "open" => pc'[r] = pc[r]
          /\ UNCHANGED <<call, session>> /\ Asked /\ ~Noting("open")
        BY <1>1, <1>4, TypeParts DEF OpenSent, Asked, Noting
    <2>2. Lasting /\ wire # <<>>
        BY <2>1 DEF Lasting, StreamInv, Requested
    <2> QED
        BY <1>1, <1>2, <2>1, <2>2, StreamWalks
<1>5. CASE OpenAccepted
    <2> DEFINE s == [session EXCEPT !.opened = TRUE, !.registered = TRUE]
    <2>1. /\ s \in Session /\ s.opened /\ s.closed = session.closed
          /\ s.closeSent = session.closeSent /\ Asked /\ ~Noting("open")
          /\ "CANCELLED" \in Reason
        BY <1>1, <1>5 DEF OpenAccepted, Session, Asked, Noting, Reason
    <2>2. \/ SendClose("open", "CANCELLED", s)
          \/ session' = s /\ Acquire("open", "io", "openlock") /\ call' = call
        BY <1>5 DEF OpenAccepted
    <2> HIDE DEF s
    <2>3. CASE session' = s /\ Acquire("open", "io", "openlock") /\ call' = call
        <3>1. pc'["open"] = "openlock" /\ \A r \in Task : r # "open" => pc'[r] = pc[r]
            BY <1>1, <2>3, Acquired
        <3>2. Lasting
            BY <2>1, <2>3 DEF Lasting
        <3> QED
            BY <1>1, <1>2, <2>1, <2>3, <3>1, <3>2, StreamWalks
    <2> QED
        BY <1>1, <1>2, <2>1, <2>2, <2>3, StreamCloses
<1>6. CASE OpenRefused \/ OpenTimeout \/ OpenCancelled
    <2>1. /\ Suspend("open", "raised") /\ session' = Fail(session) /\ call' = call
          /\ ~Noting("open")
        BY <1>6 DEF OpenRefused, OpenTimeout, OpenCancelled, Noting
    <2>2. pc'["open"] = "raised" /\ \A r \in Task : r # "open" => pc'[r] = pc[r]
        BY <1>1, <2>1, Moved
    <2>3. Lasting
        BY <1>1, <2>1, EndingLasts
    <2> QED
        BY <1>1, <1>2, <2>1, <2>2, <2>3, StreamWalks
<1>7. CASE OpenFlush
    <2>1. /\ EnterFlush("open", session.ending, session) /\ call' = call
          /\ session.ending \in BOOLEAN /\ "open" \in {"open", "user"} /\ ~Noting("open")
        BY <1>1, <1>7 DEF OpenFlush, Session, Noting
    <2> QED
        BY <1>1, <1>2, <2>1, StreamEntering
<1>8. CASE OpenUnregistered
    <2>1. /\ Suspend("open", "raised") /\ call' = call /\ pc["open"] = "await"
          /\ session'.opened = TRUE /\ session'.closed = TRUE
          /\ SameButEnd([session EXCEPT !.opened = TRUE], session')
        BY <1>8, Unregistered
    <2>2. session'.closeSent = session.closeSent
        <3> DEFINE s == [session EXCEPT !.opened = TRUE]
        <3>1. s.closeSent = session.closeSent
            BY <1>1 DEF Session
        <3>2. SameButEnd(s, session')
            BY <2>1
        <3> HIDE DEF s
        <3> QED
            BY <3>1, <3>2 DEF SameButEnd
    <2>3. Lasting /\ ~Noting("open")
        BY <2>1, <2>2 DEF Lasting, Asked, Noting
    <2>4. pc'["open"] = "raised" /\ \A r \in Task : r # "open" => pc'[r] = pc[r]
        BY <1>1, <2>1, Moved
    <2> QED
        BY <1>1, <1>2, <2>1, <2>3, <2>4, StreamWalks
<1> QED
    BY <1>3, <1>4, <1>5, <1>6, <1>7, <1>8 DEF Opens

LEMMA StreamUser ==
    ASSUME TypeOK, StreamInv, Writes \/ Finishes PROVE StreamInv'
<1>1. /\ "user" \in Task /\ "user" \in {"open", "user"} /\ "user" # "open"
      /\ session \in Session
      /\ {"writelock", "endlock", "eoslock", "cancel", "returned", "join"} \subseteq Location
    BY Tasks, TypeParts DEF Location
<1>2. Runs("user") /\ wire' = wire /\ ~Noting("user")
    BY DEF Writes, WriteCall, WriteBody, Finishes, FinishCall, FinishEnding, FinishJoin,
           FinishEos, FinishReturn, FinishTimeout, Noting
<1>3. ASSUME pc'["user"] \in {"writelock", "endlock", "eoslock", "cancel", "returned", "join"},
             \A r \in Task : r # "user" => pc'[r] = pc[r], call' = call,
             session'.opened = session.opened, session'.closed = session.closed,
             session'.closeSent = session.closeSent
      PROVE  StreamInv'
    BY <1>1, <1>2, <1>3, StreamWalks DEF Lasting
<1>4. CASE WriteCall \/ FinishCall \/ FinishJoin \/ FinishReturn
    <2>1. /\ call' = call /\ session' = session
          /\ \/ Suspend("user", "cancel") \/ Suspend("user", "returned")
             \/ \E l \in {"writelock", "endlock", "eoslock"} : Acquire("user", "io", l)
        BY <1>4 DEF WriteCall, FinishCall, FinishJoin, FinishReturn, Conclude
    <2>2. /\ pc'["user"] \in {"writelock", "endlock", "eoslock", "cancel", "returned"}
          /\ \A r \in Task : r # "user" => pc'[r] = pc[r]
        BY <1>1, <2>1, Moved, Acquired
    <2> QED
        BY <1>3, <2>1, <2>2
<1>5. CASE WriteBody
    <2>1. /\ call' = call
          /\ \/ Suspend("user", "cancel") /\ session' = session
             \/ \E n \in ChunkSizes : EnterFlush("user", FALSE, Framed(session, n))
        BY <1>5 DEF WriteBody
    <2>2. CASE Suspend("user", "cancel") /\ session' = session
        <3>1. pc'["user"] = "cancel" /\ \A r \in Task : r # "user" => pc'[r] = pc[r]
            BY <1>1, <2>2, Moved
        <3> QED
            BY <1>3, <2>1, <2>2, <3>1
    <2>3. ASSUME NEW n \in ChunkSizes, EnterFlush("user", FALSE, Framed(session, n))
          PROVE  StreamInv'
        <3>1. Framed(session, n) \in Session /\ FALSE \in BOOLEAN
            BY <1>1, Framing, AudioAssumption
        <3> QED
            BY <1>1, <1>2, <2>1, <2>3, <3>1, FramedSame, StreamEntering
    <2> QED
        BY <2>1, <2>2, <2>3
<1>6. CASE FinishEnding
    <2>1. /\ call' = call /\ pc' = [pc EXCEPT !["user"] = "join"]
          /\ session' = [Padded(session) EXCEPT !.ending = TRUE]
        BY <1>6 DEF FinishEnding
    <2>2. pc'["user"] = "join" /\ \A r \in Task : r # "user" => pc'[r] = pc[r]
        BY <1>1, <2>1, TypeParts
    <2>3. /\ session'.opened = session.opened /\ session'.closed = session.closed
          /\ session'.closeSent = session.closeSent
        BY <1>1, <2>1 DEF Padded, Session
    <2> QED
        BY <1>3, <2>1, <2>2, <2>3
<1>7. CASE FinishEos
    <2>1. EnterFlush("user", TRUE, session) /\ call' = call /\ TRUE \in BOOLEAN
        BY <1>7 DEF FinishEos
    <2> QED
        BY <1>1, <1>2, <2>1, StreamEntering
<1>8. CASE FinishTimeout
    <2>1. SendClose("user", "TIMEOUT", session) /\ "TIMEOUT" \in Reason
        BY <1>8 DEF FinishTimeout, Reason
    <2> QED
        BY <1>1, <1>2, <2>1, StreamCloses
<1> QED
    BY <1>4, <1>5, <1>6, <1>7, <1>8 DEF Writes, Finishes

LEMMA StreamCancels ==
    ASSUME TypeOK, StreamInv, NEW t \in Cancellers \cup {"user"}, Cancels(t)
    PROVE  StreamInv'
<1> DEFINE s == [session EXCEPT !.ending = TRUE, !.cancelled = TRUE]
<1>1. /\ t \in Task /\ t # "open" /\ {"done", "openwait"} \subseteq Location
      /\ session \in Session /\ s \in Session /\ "CANCELLED" \in Reason
      /\ s.opened = session.opened /\ s.closed = session.closed
      /\ s.closeSent = session.closeSent
    BY Tasks, TypeParts DEF Session, Reason, Location
<1>2. Runs(t) /\ wire' = wire /\ ~Noting(t)
    BY DEF Cancels, CancelCall, CancelJoin, CancelGiveUp, Noting
<1>3. \/ /\ call' = call /\ session' \in {session, s}
         /\ Suspend(t, "done") \/ Suspend(t, "openwait")
      \/ SendClose(t, "CANCELLED", s) \/ SendClose(t, "CANCELLED", session)
    BY DEF Cancels, CancelCall, CancelJoin, CancelGiveUp
<1> HIDE DEF s
<1>4. CASE /\ call' = call /\ session' \in {session, s}
           /\ Suspend(t, "done") \/ Suspend(t, "openwait")
    <2>1. pc'[t] \in {"done", "openwait"} /\ \A r \in Task : r # t => pc'[r] = pc[r]
        BY <1>1, <1>4, Moved
    <2>2. Lasting
        BY <1>1, <1>4 DEF Lasting
    <2> QED
        BY <1>1, <1>2, <1>4, <2>1, <2>2, StreamWalks
<1> QED
    BY <1>1, <1>2, <1>3, <1>4, StreamCloses

LEMMA StreamReader ==
    ASSUME TypeOK, StreamInv, ReaderSteps PROVE StreamInv'
<1>1. /\ "reader" \in Task /\ "reader" # "open" /\ session \in Session
      /\ "idle" \in Location /\ "NORMAL" \in Reason
    BY Tasks, TypeParts DEF Location, Reason
<1>2. Runs("reader") /\ wire' = wire /\ ~Noting("reader")
    BY DEF ReaderSteps, ReaderResponse, ReaderAck, ReaderClose, Reads, Noting
<1>3. CASE /\ Suspend("reader", "idle") /\ call' = call
           /\ session' \in {session, Fail(session), MarkDone(session)}
    <2>1. pc'["reader"] = "idle" /\ \A r \in Task : r # "reader" => pc'[r] = pc[r]
        BY <1>1, <1>3, Moved
    <2>2. Lasting
        BY <1>1, <1>3, EndingLasts
    <2> QED
        BY <1>1, <1>2, <1>3, <2>1, <2>2, StreamWalks
<1>4. CASE SendClose("reader", "NORMAL", session)
    BY <1>1, <1>2, <1>4, StreamCloses
<1> QED
    BY <1>3, <1>4 DEF ReaderSteps, ReaderResponse, ReaderAck, ReaderClose

LEMMA StreamAbort ==
    ASSUME TypeOK, Places, StreamInv, UserAbort PROVE StreamInv'
<1>1. /\ "user" \in Task /\ "open" \in Task /\ "user" # "open" /\ Idle \notin Task
      /\ running = Idle /\ wire' = wire /\ call' = call /\ session \in Session
    BY Tasks, TypeParts DEF UserAbort
<1>2. \A t \in Task : ~Noting(t) /\ Runs(t)
    BY <1>1 DEF Places, Noting, Runs
<1>3. Lasting
    <2>1. session' \in {session, Fail(session)}
        BY DEF UserAbort
    <2> QED
        BY <1>1, <2>1, EndingLasts
<1>4. CASE pc' = [pc EXCEPT !["user"] = "cancel"]
    <2>1. pc'["user"] = "cancel" /\ \A r \in Task : r # "user" => pc'[r] = pc[r]
        BY <1>1, <1>4, TypeParts
    <2> QED
        BY <1>1, <1>2, <1>3, <2>1, StreamWalks
<1>5. CASE pc' = [pc EXCEPT !["open"] = IF @ = "begin" THEN "raised" ELSE "cancelled"]
    <2>1. /\ pc'["open"] \in {"raised", "cancelled"}
          /\ \A r \in Task : r # "open" => pc'[r] = pc[r]
        BY <1>1, <1>5, TypeParts
    <2> QED
        BY <1>1, <1>2, <1>3, <2>1, StreamWalks
<1> QED
    BY <1>4, <1>5 DEF UserAbort

LEMMA StreamTv ==
    ASSUME StreamInv, TvAnswer \/ TvAck \/ TvClose \/ Terminated \/ UNCHANGED vars
    PROVE  StreamInv'
<1>1. UNCHANGED <<pc, call, running, session, wire>>
    BY DEF TvAnswer, TvAck, TvClose, TvStep, Terminated, vars
<1>2. Asking' = Asking /\ Asked' = Asked /\ Written("close")' = Written("close")
    BY <1>1 DEF Asking, Asked, Written
<1>3. \A t \in Task : /\ Noting(t)' = Noting(t) /\ InFlush(t)' = InFlush(t)
                      /\ Pending(t)' = Pending(t)
    BY <1>1 DEF Noting, InFlush, Pending
<1>4. Placed'
    BY <1>1, WireSame DEF StreamInv, Placed, EosWritten
<1> QED
    BY <1>1, <1>2, <1>3, <1>4 DEF StreamInv, Requested, ClosedOnce, Counted

LEMMA StreamFlushSteps ==
    ASSUME TypeOK, StreamInv, NEW t \in {"open", "user"}, Flushes(t)
    PROVE  StreamInv'
<1>1. /\ t \in Task /\ session \in Session /\ FramesPerEvent \in Nat \ {0}
      /\ AfterFlush(t, session.force) \in {"ended", "idle", "waitdone"}
      /\ {"flush", AfterFlush(t, session.force)} \subseteq Location
    BY Tasks, TypeParts, AudioAssumption DEF AfterFlush, Location
<1>2. /\ Runs(t) /\ InFlush(t) /\ ~Noting(t) /\ pc[t] \in {"flush", "sent"} /\ wire' = wire
    BY DEF Flushes, FlushEvent, FlushEos, FlushEnd, FlushSent, InFlush, Noting
<1>3. session.opened /\ ~Written("close")
    BY <1>1, <1>2 DEF StreamInv, Counted, ClosedOnce
<1>4. session'.opened = session.opened /\ session'.closeSent = session.closeSent
    BY SettledFlushes DEF Settled
<1>5. session'.closed = session.closed
    <2>1. CASE FlushEvent(t)
        BY <1>1, <2>1, EventSent DEF Session
    <2>2. CASE FlushEos(t) \/ FlushEnd(t) \/ FlushSent(t)
        BY <1>1, <2>2 DEF FlushEos, FlushEnd, FlushSent, Session
    <2> QED
        BY <2>1, <2>2 DEF Flushes
<1>6. Lasting
    BY <1>4, <1>5 DEF Lasting
<1>7. CASE FlushEvent(t)
    <2>1. Sending(t, Event) /\ Count \in Nat
        BY <1>1, <1>7, EventSent
    <2>2. Count > 0
        BY <1>1, <1>7 DEF FlushEvent, Count, Session
    <2>3. Event.type = "data" /\ Event.count = Count
        BY DEF Event, DataMessage
    <2> QED
        BY <1>1, <1>2, <1>3, <1>4, <1>6, <2>1, <2>2, <2>3, StreamSends
<1>8. CASE FlushEos(t)
    <2>1. Sending(t, LastEvent)
        BY <1>1, <1>8, EosSent
    <2>2. LastEvent.type = "data" /\ LastEvent.count = 0 /\ LastEvent.eos
        BY DEF LastEvent, DataMessage
    <2> QED
        BY <1>1, <1>2, <1>3, <1>4, <1>6, <2>1, <2>2, StreamSends
<1>9. CASE FlushEnd(t) \/ FlushSent(t)
    <2>1. /\ call' = call
          /\ \/ Continue(t, "flush")
             \/ Suspend(t, AfterFlush(t, session.force))
        BY <1>9 DEF FlushEnd, FlushSent
    <2>2. /\ pc'[t] \in {"flush", AfterFlush(t, session.force)}
          /\ \A r \in Task : r # t => pc'[r] = pc[r]
        BY <1>1, <2>1, Moved
    <2> QED
        BY <1>1, <1>2, <1>3, <1>4, <1>6, <2>1, <2>2, StreamWalks, StreamFlushes
<1> QED
    BY <1>7, <1>8, <1>9 DEF Flushes

LEMMA StreamNoted ==
    ASSUME TypeOK, StreamInv, NEW t \in Task, CloseSent(t) PROVE StreamInv'
<1>1. /\ Runs(t) /\ Suspend(t, AfterClose(t)) /\ UNCHANGED <<call, wire>>
      /\ AfterClose(t) \in {"ended", "idle", "cancel", "done"} /\ AfterClose(t) \in Location
      /\ session \in Session
    BY TypeParts DEF CloseSent, AfterClose, Location
<1>2. pc'[t] = AfterClose(t) /\ \A r \in Task : r # t => pc'[r] = pc[r]
    BY <1>1, Moved
<1>3. session'.closed /\ session'.closeSent /\ session'.opened = session.opened
    BY <1>1 DEF CloseSent, Fail, MarkDone, Session
<1>4. Lasting
    BY <1>3 DEF Lasting
<1> QED
    BY <1>1, <1>2, <1>3, <1>4, StreamWalks

-----------------------------------------------------------------------------
(* The step that writes.                                                   *)

\* A task writes what may come next.
Fits(m) ==
    /\ ~Written("close")
    /\ m.type \in {"open", "data", "close"}
    /\ m.type = "open" => wire = <<>>
    /\ m.type # "open" => wire # <<>>
    /\ m.type = "data" =>
        /\ m.sequence = Due /\ m.count \in Nat /\ (m.count > 0 \/ m.eos)
        /\ ~EosOnWire

LEMMA Writing ==
    ASSUME ~Backpressure, TypeOK, Places, CloseInv, AudioInv, OrderInv, StreamInv,
           conn.state = "up", NEW t \in Task, Transmit(t)
    PROVE  /\ call[t] \in Message /\ Fits(call[t]) /\ wire' = Append(wire, call[t])
           /\ UNCHANGED <<call, session>> /\ running = t /\ running' = t
           /\ pc[t] = "send" /\ pc'[t] = "sent" /\ \A r \in Task : r # t => pc'[r] = pc[r]
<1>1. /\ pc[t] = "send" /\ Continue(t, "sent") /\ wire' = Append(wire, call[t])
      /\ UNCHANGED <<call, session>>
    BY DEF Transmit
<1>2. /\ running' = t /\ pc'[t] = "sent" /\ \A r \in Task : r # t => pc'[r] = pc[r]
    BY <1>1, Moved DEF Continue, Location
<1>3. running = t /\ call[t] \in Message
    BY <1>1, TypeParts DEF Places
<1>4. call[t].type \in {"open", "data", "close"}
    BY <1>3 DEF Message, OpenMessage
<1>5. ~Written("close") /\ NoClose
    BY <1>1 DEF StreamInv, ClosedOnce, Noting, Written, NoClose
<1>6. call[t].type = "open" => wire = <<>>
    <2>1. call[t].type = "open" => t = "open" /\ Asking
        BY <1>1 DEF StreamInv, Requested, Asking
    <2> QED
        BY <2>1 DEF StreamInv, Requested
<1>7. call[t].type = "data" =>
          /\ session.opened
          /\ call[t].count \in Nat /\ (call[t].count > 0 \/ call[t].eos)
          /\ call[t].sequence = Due /\ ~EosOnWire
    <2> SUFFICES ASSUME call[t].type = "data"
                 PROVE  /\ session.opened
                        /\ call[t].count \in Nat /\ (call[t].count > 0 \/ call[t].eos)
                        /\ call[t].sequence = Due /\ ~EosOnWire
        OBVIOUS
    <2>1. t \in {"open", "user"} /\ Pending(t) /\ InFlush(t)
        BY <1>1 DEF AudioInv, OnlyFlushers, Pending, InFlush
    <2>2. FlusherInv(t)
        BY <1>5, <2>1 DEF OrderInv, DueInv
    <2> QED
        BY <2>1, <2>2 DEF StreamInv, Counted, FlusherInv
<1>8. call[t].type # "open" => wire # <<>>
    <2>1. call[t].type = "close" => session.opened
        BY <1>1 DEF CloseInv
    <2>2. session.opened => wire # <<>>
        BY DEF StreamInv, Requested
    <2> QED
        BY <1>4, <1>7, <2>1, <2>2
<1>9. Fits(call[t])
    BY <1>4, <1>5, <1>6, <1>7, <1>8 DEF Fits
<1> QED
    BY <1>1, <1>2, <1>3, <1>9

\* What the message makes of the wire.
LEMMA Wrote ==
    ASSUME wire \in Seq(Message), HasLatest, Placed, NEW m \in Message, Fits(m),
           wire' = Append(wire, m)
    PROVE  /\ Placed' /\ wire' # <<>>
           /\ Written("close")' <=> m.type = "close"
           /\ EosWritten' <=> EosWritten \/ (m.type = "data" /\ m.eos)
           /\ m.type = "data" => Due' = m.sequence + m.count
           /\ m.type # "data" => Due' = Due
<1>1. /\ Len(wire) \in Nat /\ DOMAIN wire = 1..Len(wire)
      /\ DOMAIN wire' = 1..Len(wire) + 1 /\ wire'[Len(wire) + 1] = m
      /\ \A i \in 1..Len(wire) : wire'[i] = wire[i]
    BY WireAppended
<1>2. \A i \in DOMAIN wire' : i = Len(wire) + 1 \/ i \in DOMAIN wire
    BY <1>1
<1>3. Len(wire) + 1 \in DOMAIN wire' /\ \A i \in DOMAIN wire : i \in DOMAIN wire'
    BY <1>1
<1>4. Written("close")' <=> m.type = "close"
    BY <1>1, <1>2, <1>3 DEF Written, Fits
<1>5. EosWritten' <=> EosWritten \/ (m.type = "data" /\ m.eos)
    BY <1>1, <1>2, <1>3 DEF EosWritten
<1>6. /\ m.type = "data" => Due' = m.sequence + m.count /\ (EosOnWire' <=> m.eos)
      /\ m.type # "data" => Due' = Due /\ EosOnWire' = EosOnWire
    BY WireEvent, WireOther
<1>7. EosWritten' => EosOnWire'
    BY <1>5, <1>6 DEF Placed, Fits
<1>8. ASSUME NEW i \in DOMAIN wire', NEW j \in DOMAIN wire', i < j
      PROVE  ~Misplaced(wire'[j], wire'[i])
    <2>1. i \in DOMAIN wire /\ wire'[i] = wire[i]
        BY <1>1, <1>8
    <2>2. CASE j \in DOMAIN wire
        BY <1>1, <1>8, <2>1, <2>2 DEF Placed
    <2>3. CASE j = Len(wire) + 1
        <3>1. m.type # "open" /\ wire[i].type # "close"
            BY <1>1, <2>1 DEF Fits, Written
        <3>2. m.type = "data" => ~(wire[i].type = "data" /\ wire[i].eos)
            BY <2>1 DEF Placed, Fits, EosWritten
        <3> QED
            BY <1>1, <2>1, <2>3, <3>1, <3>2 DEF Misplaced
    <2> QED
        BY <1>2, <2>2, <2>3
<1>9. wire' # <<>>
    BY <1>1
<1> QED
    BY <1>4, <1>5, <1>6, <1>7, <1>8, <1>9 DEF Placed

LEMMA StreamWrites ==
    ASSUME ~Backpressure, TypeOK, Places, CloseInv, AudioInv, OrderInv, StreamInv,
           conn.state = "up", NEW t \in Task, Transmit(t)
    PROVE  StreamInv'
<1> DEFINE m == call[t]
<1>1. /\ m \in Message /\ Fits(m) /\ wire' = Append(wire, m)
      /\ UNCHANGED <<call, session>> /\ running = t /\ running' = t
      /\ pc[t] = "send" /\ pc'[t] = "sent" /\ \A r \in Task : r # t => pc'[r] = pc[r]
    BY Writing
<1>2. /\ Placed' /\ wire' # <<>> /\ (Written("close")' <=> m.type = "close")
    BY <1>1, Wrote, TypeParts DEF StreamInv, OrderInv
<1>3. "open" \in Task
    BY Tasks
<1>4. Requested'
    <2>1. Asking => t = "open" /\ m.type = "open"
        BY <1>1, <1>3 DEF StreamInv, Requested, Asking, Fits, Places
    <2>2. ~Asking'
        BY <1>1, <1>3, <2>1 DEF Asking
    <2>3. \A r \in Task : pc'[r] \in {"send", "sent"} /\ call'[r].type = "open" => r = "open"
        BY <1>1 DEF StreamInv, Requested
    <2> QED
        BY <1>2, <2>2, <2>3 DEF Requested
<1>5. ClosedOnce'
    <2> SUFFICES ASSUME m.type = "close"
                 PROVE  /\ running' = t /\ Noting(t)'
                        /\ \A r \in Task : pc'[r] \in {"send", "sent", "flush"} => Noting(r)'
        BY <1>2 DEF ClosedOnce
    <2>1. Noting(t)'
        BY <1>1 DEF Noting
    <2>2. \A r \in Task : r # t => pc'[r] \notin {"send", "sent", "flush"}
        BY <1>1 DEF Places
    <2> QED
        BY <1>1, <2>1, <2>2
<1>6. Counted'
    <2>1. \A r \in Task : (InFlush(r)' => InFlush(r)) /\ (Pending(r)' => Pending(r))
        BY <1>1 DEF InFlush, Pending
    <2> QED
        BY <1>1, <2>1 DEF StreamInv, Counted
<1> QED
    BY <1>2, <1>4, <1>5, <1>6 DEF StreamInv

-----------------------------------------------------------------------------
(* The refinement.                                                         *)

LEMMA WireSteps ==
    ASSUME TypeOK, [Next]_vars
    PROVE  wire' = wire \/ (conn.state = "up" /\ \E t \in Task : Transmit(t))
<1>1. ASSUME NEW t \in Task, Sends(t)
      PROVE  wire' = wire \/ (conn.state = "up" /\ Transmit(t))
    BY <1>1 DEF Sends, Transmit, Drained, CloseSent, SendFailed
<1>2. ASSUME NEW t \in {"open", "user"}, Flushes(t) PROVE wire' = wire
    BY <1>2 DEF Flushes, FlushEvent, FlushEos, FlushEnd, FlushSent
<1>3. CASE Opens
    BY <1>3 DEF Opens, OpenBegin, OpenSent, OpenAccepted, OpenUnregistered, OpenRefused,
                OpenTimeout, OpenFlush, OpenCancelled
<1>4. CASE Writes \/ Finishes \/ UserAbort
    BY <1>4 DEF Writes, WriteCall, WriteBody, Finishes, FinishCall, FinishEnding,
                FinishJoin, FinishEos, FinishReturn, FinishTimeout, UserAbort
<1>5. ASSUME NEW t \in Cancellers \cup {"user"}, Cancels(t) PROVE wire' = wire
    BY <1>5 DEF Cancels, CancelCall, CancelJoin, CancelGiveUp
<1>6. CASE ReaderSteps \/ ConnClose \/ ConnLost \/ TvAnswer \/ TvAck \/ TvClose
           \/ Terminated \/ UNCHANGED vars
    BY <1>6 DEF ReaderSteps, ReaderResponse, ReaderAck, ReaderClose, ConnClose,
                ConnLost, TvAnswer, TvAck, TvClose, TvStep, Terminated, vars
<1>7. ASSUME NEW t \in Cancellers, CancelAbort(t) PROVE wire' = wire
    BY <1>7 DEF CancelAbort
<1> QED
    BY <1>1, <1>2, <1>3, <1>4, <1>5, <1>6, <1>7 DEF Next

\* What is promised, as long as the connection has not failed.
Kept == conn.state = "up" => StreamInv

LEMMA KeptStep ==
    ASSUME ~Backpressure, TypeOK, AudioInv, OrderInv, SmoothInv, Kept, [Next]_vars
    PROVE  Kept'
<1> SUFFICES ASSUME conn'.state = "up" PROVE StreamInv'
    BY DEF Kept
<1>1. conn.state = "up" /\ Places /\ CloseInv /\ StreamInv
    BY ConnUp DEF SmoothInv, Kept
<1>2. ASSUME NEW t \in Task, Sends(t) PROVE StreamInv'
    <2>1. ~Drained(t) /\ ~SendFailed(t)
        BY <1>1 DEF Drained, SendFailed, Places
    <2> QED
        BY <1>1, <1>2, <2>1, StreamWrites, StreamNoted DEF Sends
<1>3. ~ConnClose /\ ~ConnLost
    BY DEF ConnClose, ConnLost, TypeOK
<1> QED
    BY <1>1, <1>2, <1>3, StreamFlushSteps, StreamOpens, StreamUser, StreamCancels,
       StreamReader, StreamAbort, NoAborts, StreamTv DEF Next

LEMMA KeptInitially == Init => Kept
<1> SUFFICES ASSUME Init PROVE StreamInv
    BY DEF Kept
<1>1. /\ pc["open"] = "begin" /\ \A t \in Task : pc[t] \in {"begin", "idle", "ready"}
      /\ wire = <<>> /\ session.opened = FALSE
    BY Tasks DEF Init
<1>2. ~Asked /\ ~Written("close") /\ ~EosWritten
      /\ \A t \in Task : ~InFlush(t) /\ ~Pending(t)
    BY <1>1 DEF Asked, Written, EosWritten, InFlush, Pending
<1>3. Requested /\ ClosedOnce /\ Counted /\ Placed
    BY <1>1, <1>2 DEF Requested, ClosedOnce, Counted, Placed
<1> QED
    BY <1>3 DEF StreamInv

\* The mapping, in terms of the lemmas above: now, and after a step.
PlacedPhase ==
    IF Written("close") THEN "closed"
    ELSE IF EosWritten THEN "ended" ELSE IF wire # <<>> THEN "requested" ELSE "idle"

LEMMA NextIsDue == StreamNext = Due /\ StreamNext' = Due'
BY DEF StreamNext, LastData, Due, Latest, WireData

\* The number of the first frame of the last packet.
First == IF WireData = {} THEN 0 ELSE wire[Latest(WireData)].sequence

LEMMA FirstIsFirst == StreamFirst = First /\ StreamFirst' = First'
BY DEF StreamFirst, LastData, First, Latest, WireData

LEMMA FirstSame == ASSUME wire' = wire PROVE First' = First
BY DEF First, WireData, DataBefore

LEMMA FirstOther ==
    ASSUME HasLatest, wire \in Seq(Message), NEW m \in Message,
           wire' = Append(wire, m), m.type # "data"
    PROVE  First' = First
<1>1. WireData' = WireData
    BY WireAppended
<1>2. \A i \in WireData : wire'[i] = wire[i]
    BY WireAppended DEF WireData, DataBefore
<1>3. WireData # {} => Latest(WireData) \in WireData
    BY WireAppended DEF HasLatest, WireData
<1> QED
    BY <1>1, <1>2, <1>3 DEF First

LEMMA FirstEvent ==
    ASSUME wire \in Seq(Message), NEW m \in Message,
           wire' = Append(wire, m), m.type = "data"
    PROVE  First' = m.sequence
<1>1. Latest(WireData') = Len(wire) + 1 /\ WireData' # {}
    <2>1. WireData \in SUBSET (1..Len(wire)) /\ Len(wire) \in Nat
        BY WireAppended DEF WireData, DataBefore
    <2> QED
        BY <2>1, WireAppended, LatestAdded
<1>2. wire'[Len(wire) + 1] = m
    BY WireAppended
<1> QED
    BY <1>1, <1>2 DEF First

LEMMA PhaseOf ==
    /\ Placed => StreamPhase = PlacedPhase
    /\ Placed' => StreamPhase' = PlacedPhase'
BY DEF StreamPhase, Placed, PlacedPhase

LEMMA StreamStep ==
    ASSUME ~Backpressure, TypeOK, AudioInv, OrderInv, SmoothInv, Kept, [Next]_vars
    PROVE  [Stream!Next]_<<StreamPhase, Len(wire), StreamFirst, StreamNext>>
<1>1. CASE wire' = wire
    <2>1. StreamPhase' = StreamPhase
        BY <1>1 DEF StreamPhase, Written, EosWritten
    <2>2. StreamNext' = StreamNext /\ StreamFirst' = StreamFirst
        BY <1>1, WireSame, NextIsDue, FirstSame, FirstIsFirst
    <2> QED
        BY <1>1, <2>1, <2>2
<1>2. ASSUME conn.state = "up", NEW t \in Task, Transmit(t)
      PROVE  Stream!Next
    <2> DEFINE m == call[t]
    <2>1. Places /\ CloseInv /\ StreamInv
        BY <1>2 DEF SmoothInv, Kept
    <2>2. m \in Message /\ Fits(m) /\ wire' = Append(wire, m)
        BY <1>2, <2>1, Writing
    <2> HIDE DEF m
    <2>3. HasLatest /\ Placed /\ wire \in Seq(Message)
        BY <2>1, TypeParts DEF OrderInv, StreamInv
    <2>4. /\ Placed' /\ wire' # <<>>
          /\ Written("close")' <=> m.type = "close"
          /\ EosWritten' <=> EosWritten \/ (m.type = "data" /\ m.eos)
          /\ m.type = "data" => Due' = m.sequence + m.count
          /\ m.type # "data" => Due' = Due
        BY <2>2, <2>3, Wrote
    <2>5. /\ StreamPhase = IF EosWritten THEN "ended"
                           ELSE IF wire # <<>> THEN "requested" ELSE "idle"
          /\ StreamPhase' = IF m.type = "close" THEN "closed"
                            ELSE IF EosWritten' THEN "ended" ELSE "requested"
        BY <2>2, <2>3, <2>4, PhaseOf DEF Fits, PlacedPhase
    <2>6. /\ StreamNext = Due /\ StreamNext' = Due' /\ Len(wire') = Len(wire) + 1
          /\ m.type = "data" => StreamFirst' = m.sequence
          /\ m.type # "data" => StreamFirst' = StreamFirst
        BY <2>2, <2>3, NextIsDue, FirstIsFirst, FirstOther, FirstEvent, WireAppended
    <2>7. CASE m.type = "open"
        <3>1. wire = <<>> /\ ~EosWritten
            BY <2>2, <2>7 DEF Fits, EosWritten
        <3> QED
            BY <2>4, <2>5, <2>6, <2>7, <3>1 DEF Stream!Next, Stream!Request, Stream!Message
    <2>8. CASE m.type = "close"
        BY <2>2, <2>4, <2>5, <2>6, <2>8 
        DEF Stream!Next, Stream!Close, Stream!Message, Fits
    <2>9. CASE m.type = "data"
        <3>1. ~EosWritten /\ wire # <<>>
            BY <2>2, <2>3, <2>9 DEF Fits, Placed
        <3>2. m.sequence \in Int /\ m.eos \in BOOLEAN
            BY <2>2, <2>9 DEF Message, OpenMessage
        <3>3. m.sequence = Due /\ m.count \in Nat /\ (m.count > 0 \/ m.eos)
            BY <2>2, <2>9 DEF Fits
        <3>4. /\ StreamPhase = "requested" /\ StreamNext \in Int
              /\ StreamFirst' = StreamNext /\ StreamNext' = StreamFirst' + m.count
            BY <2>4, <2>5, <2>6, <2>9, <3>1, <3>2, <3>3
        <3>5. CASE m.eos
            <4>1. StreamPhase' = "ended" /\ StreamNext' >= StreamFirst'
                BY <2>4, <2>5, <2>9, <3>3, <3>4, <3>5
            <4> QED
                BY <2>6, <3>4, <4>1 DEF Stream!Next, Stream!EndOfStream, Stream!Message
        <3>6. CASE ~m.eos
            <4>1. StreamPhase' = "requested" /\ StreamNext' > StreamFirst'
                BY <2>4, <2>5, <2>9, <3>1, <3>3, <3>4, <3>6
            <4> QED
                BY <2>6, <3>4, <4>1 DEF Stream!Next, Stream!Data, Stream!Message
        <3> QED
            BY <3>5, <3>6
    <2> QED
        BY <2>2, <2>7, <2>8, <2>9 DEF Fits
<1> QED
    BY <1>1, <1>2, WireSteps

\* Where drain() does not suspend, the session implements the stream that the
\* Apple TV is promised: one request, packets each of which is numbered from the
\* frame after the one before it, the first from 0, nothing but a close after
\* the end of stream, one close, and nothing after it.
THEOREM SessionImplementsStream ==
    ASSUME ~Backpressure PROVE Spec => ImplementsAudioStream
<1> DEFINE All == WayInv /\ RegInv /\ AudioInv /\ OrderInv /\ SmoothInv /\ Kept
<1>1. Init => All
    BY InitiallyOrdered, RegisteredInitially, SmoothInitially, KeptInitially
<1>2. TypeOK /\ LockInv /\ All /\ [Next]_vars => All'
    BY WayStep, Registration, AudioStep, OrderStep, SmoothStep, KeptStep
<1>3. TypeOK /\ All /\ [Next]_vars
          => [Stream!Next]_<<StreamPhase, Len(wire), StreamFirst, StreamNext>>
    BY StreamStep
<1>4. Init => Stream!Init
    <2>1. Init => ~Written("close") /\ ~EosWritten /\ wire = <<>>
        BY DEF Init, Written, EosWritten
    <2>2. Init => Placed /\ Due = 0 /\ First = 0 /\ Len(wire) = 0
        BY <2>1 DEF Placed, Due, First, WireData, DataBefore
    <2> QED
        BY <2>1, <2>2, PhaseOf, NextIsDue, FirstIsFirst DEF PlacedPhase, Stream!Init
<1> HIDE DEF All
<1> QED
    BY <1>1, <1>2, <1>3, <1>4, TypeCorrect, LockInvariant, PTL
    DEF Spec, ImplementsAudioStream, Stream!Spec, Stream!vars

-----------------------------------------------------------------------------
(* The life of the session: ImplementsSessionLife, for any Backpressure.   *)

\* Where a task is only once _open has stored its stream id.
NeedsOpened(t) ==
    \/ pc[t] \in {"openlock", "flush", "ended", "eoslock", "waitdone"}
    \/ /\ pc[t] \in {"send", "drain", "sent", "failed"}
       /\ call[t].type # "open" \/ t # "open"

LifeInv ==
    /\ \A t \in Task : NeedsOpened(t) => session.opened
    /\ pc["open"] = "begin" => conn.future = "none"
    /\ conn.state = "closed" => session.closed
    /\ session.closed => session.opened \/ pc["open"] = "raised" \/ conn.state = "closed"

Lives == LifeInv' /\ [Life!Next]_(Life!vars)

\* A step that leaves _open and the connection where they are.
Still(t) ==
    /\ \A r \in Task : r # t => pc'[r] = pc[r] /\ call'[r] = call[r]
    /\ session'.opened = session.opened /\ conn' = conn
    /\ NeedsOpened(t)' => session.opened
    /\ pc'["open"] = "begin" => pc["open"] = "begin"
    /\ pc'["open"] = "raised" <=> pc["open"] = "raised"

LEMMA StillKeeps ==
    ASSUME LifeInv, NEW t \in Task, Still(t), session'.closed = session.closed
    PROVE  Lives
<1>1. \A r \in Task : r # t => (NeedsOpened(r) <=> NeedsOpened(r)')
    BY DEF Still, NeedsOpened
<1>2. LifeInv'
    BY <1>1 DEF LifeInv, Still
<1>3. UNCHANGED Life!vars
    BY DEF Life!vars, LifeOpen, Still
<1> QED
    BY <1>2, <1>3 DEF Lives

LEMMA StillEnds ==
    ASSUME TypeOK, LifeInv, NEW t \in Task, Still(t), session'.closed = TRUE,
           session.opened \/ pc["open"] = "raised"
    PROVE  Lives
<1>1. session.closed \in BOOLEAN
    BY TypeParts DEF Session
<1>2. \A r \in Task : r # t => (NeedsOpened(r) <=> NeedsOpened(r)')
    BY DEF Still, NeedsOpened
<1>3. LifeInv'
    BY <1>2 DEF LifeInv, Still
<1>4. LifeOpen \in {"open", "failed"} /\ LifeOpen' = LifeOpen /\ conn' = conn
    BY DEF LifeOpen, Still
<1>5. Life!End \/ UNCHANGED Life!vars
    BY <1>1, <1>4 DEF Life!End, Life!vars
<1> QED
    BY <1>3, <1>5 DEF Lives, Life!Next

\* _open raises, and ends the session.
LEMMA OpenRaises ==
    ASSUME TypeOK, LifeInv, pc["open"] # "raised", pc'["open"] = "raised",
           \A r \in Task : r # "open" => pc'[r] = pc[r] /\ call'[r] = call[r],
           session'.closed = TRUE, session'.opened = session.opened,
           conn'.state = conn.state
    PROVE  Lives
<1>1. session.closed \in BOOLEAN
    BY TypeParts DEF Session
<1>2. \A r \in Task : NeedsOpened(r)' => NeedsOpened(r)
    BY DEF NeedsOpened
<1>3. LifeInv'
    BY <1>2 DEF LifeInv
<1>4. CASE session.opened
    <2>1. LifeOpen = "open" /\ LifeOpen' = "open"
        BY <1>4 DEF LifeOpen
    <2>2. Life!End \/ UNCHANGED Life!vars
        BY <1>1, <2>1 DEF Life!End, Life!vars
    <2> QED
        BY <1>3, <2>2 DEF Lives, Life!Next
<1>5. CASE ~session.opened
    <2>1. LifeOpen \in {"pending", "answered"} /\ LifeOpen' = "failed"
        BY <1>5 DEF LifeOpen
    <2>2. Life!Fail
        BY <2>1 DEF Life!Fail
    <2> QED
        BY <1>3, <2>2 DEF Lives, Life!Next
<1> QED
    BY <1>4, <1>5

\* A task that ends an opened session, or one whose _open has raised.
LEMMA StillCloses ==
    ASSUME TypeOK, LifeInv, NEW t \in Task, pc[t] # "send", NEW reason \in Reason,
           NEW s \in Session, SendClose(t, reason, s), conn' = conn,
           s.opened = session.opened, s.closed = session.closed,
           session.opened \/ pc["open"] = "raised",
           t = "open" => session.opened /\ pc["open"] \notin {"begin", "raised"}
    PROVE  Lives
<1>1. /\ session'.opened = session.opened
      /\ \/ Sending(t, CloseMessage(reason)) /\ session' = s
         \/ Walking(t, AfterClose(t)) /\ session'.closed = TRUE
    BY Closing DEF SameButEnd
<1>2. NeedsClose(s) => s.opened
    BY DEF NeedsClose
<1>3. CASE NeedsClose(s)
    <2>1. session' = s /\ Send(t, CloseMessage(reason)) /\ CloseMessage(reason) \in Message
        BY <1>3 DEF SendClose, CloseMessage, Message
    <2>2. Sending(t, CloseMessage(reason))
        BY <2>1, SendStarts
    <2>3. Still(t)
        BY <1>1, <1>2, <1>3, <2>2, Tasks DEF Still, Sending
    <2> QED
        BY <2>1, <2>3, StillKeeps
<1>4. CASE ~NeedsClose(s)
    <2>1. session' \in {Fail(s), MarkDone(s)} /\ Suspend(t, AfterClose(t)) /\ call' = call
        BY <1>4 DEF SendClose
    <2>2. /\ AfterClose(t) \in {"ended", "idle", "cancel", "done"}
          /\ AfterClose(t) \in Location /\ (t # "open" => AfterClose(t) # "ended")
        BY DEF AfterClose, Location
    <2>3. pc'[t] = AfterClose(t) /\ \A r \in Task : r # t => pc'[r] = pc[r]
        BY <2>1, <2>2, Moved
    <2>4. session'.closed = TRUE
        BY <2>1, Ends
    <2>5. Still(t)
        BY <1>1, <2>1, <2>2, <2>3, Tasks DEF Still, NeedsOpened
    <2> QED
        BY <2>4, <2>5, StillEnds
<1> QED
    BY <1>3, <1>4


\* The connection is closed, and the session with it.
LEMMA ConnectionEnds ==
    ASSUME TypeOK, LifeInv, conn'.state = "closed", session'.closed = TRUE,
           session'.opened = session.opened,
           pc'["reader"] \in {pc["reader"], "stopped"}, call' = call,
           \A r \in Task \ {"reader"} : pc'[r] = pc[r],
           conn'.future = IF conn.future = "pending" THEN "fail" ELSE conn.future
    PROVE  Lives
<1>1. session.closed \in BOOLEAN /\ "open" \in Task \ {"reader"}
    BY TypeParts, Tasks DEF Session
<1>2. \A r \in Task : NeedsOpened(r)' => NeedsOpened(r)
    BY DEF NeedsOpened
<1>3. LifeInv'
    BY <1>1, <1>2 DEF LifeInv
<1>4. LifeOpen' = LifeOpen
    BY <1>1 DEF LifeOpen
<1>5. Life!Disconnect \/ UNCHANGED Life!vars
    BY <1>1, <1>4 DEF Life!Disconnect, Life!vars, LifeInv
<1> QED
    BY <1>3, <1>5 DEF Lives, Life!Next

LEMMA LifeSends ==
    ASSUME TypeOK, WayInv, LifeInv, NEW t \in Task, Sends(t) PROVE Lives
<1> USE DEF Location
<1>1. "open" \in Task /\ session \in Session
    BY Tasks, TypeParts
<1>2. /\ Fail(session).closed = TRUE /\ Fail(session).opened = session.opened
      /\ MarkDone(session).closed = TRUE /\ MarkDone(session).opened = session.opened
    BY <1>1, Ends DEF SameButEnd
<1>3. CASE Transmit(t) \/ Drained(t)
    <2>1. /\ pc[t] \in {"send", "drain"} /\ pc'[t] \in {"drain", "sent", "failed"}
          /\ \A r \in Task : r # t => pc'[r] = pc[r]
          /\ UNCHANGED <<call, session, conn>>
        BY <1>3, Moved DEF Transmit, Drained
    <2>2. Still(t)
        BY <1>1, <2>1 DEF Still, NeedsOpened, LifeInv
    <2> QED
        BY <2>1, <2>2, StillKeeps
<1>4. CASE CloseSent(t)
    <2> DEFINE s == [session EXCEPT !.closeSent = TRUE]
    <2>1. s \in Session /\ s.opened = session.opened
        BY <1>1 DEF Session
    <2>2. session' \in {Fail(s), MarkDone(s)}
        BY <1>4 DEF CloseSent
    <2> HIDE DEF s
    <2>3. session'.closed = TRUE /\ session'.opened = session.opened
        BY <2>1, <2>2, Ends DEF SameButEnd
    <2>4. session.opened
        BY <1>4 DEF CloseSent, LifeInv, NeedsOpened
    <2>5. AfterClose(t) \in {"ended", "idle", "cancel", "done"}
        BY DEF AfterClose
    <2>6. /\ pc'[t] = AfterClose(t) /\ \A r \in Task : r # t => pc'[r] = pc[r]
          /\ UNCHANGED <<call, conn>> /\ pc[t] = "sent"
        BY <1>4, <2>5, Moved DEF CloseSent
    <2>7. Still(t)
        BY <1>1, <2>3, <2>4, <2>5, <2>6 DEF Still
    <2> QED
        BY <2>3, <2>4, <2>7, StillEnds
<1>5. CASE SendFailed(t) /\ t = "open"
    <2>1. /\ pc["open"] = "failed" /\ session' = Fail(session) /\ Suspend("open", "raised")
          /\ UNCHANGED <<call, conn>>
        BY <1>5, Tasks DEF SendFailed
    <2>2. pc'["open"] = "raised" /\ \A r \in Task : r # "open" => pc'[r] = pc[r]
        BY <1>1, <2>1, Moved
    <2> QED
        BY <1>2, <2>1, <2>2, OpenRaises
<1>6. CASE SendFailed(t) /\ t = "user" /\ call[t].type = "data" /\ session' = session
    <2>1. /\ pc'[t] = "cancel" /\ \A r \in Task : r # t => pc'[r] = pc[r]
          /\ UNCHANGED <<call, conn>>
        BY <1>6, Moved, Tasks DEF SendFailed, AfterClose
    <2>2. Still(t)
        BY <1>1, <1>6, <2>1, Tasks DEF Still, NeedsOpened
    <2> QED
        BY <1>6, <2>2, StillKeeps
<1>7. CASE SendFailed(t) /\ t \in Cancellers \cup {"user"} /\ call[t].type = "close"
    <2>1. /\ pc[t] = "failed" /\ session' \in {Fail(session), MarkDone(session)}
          /\ Suspend(t, AfterClose(t)) /\ UNCHANGED <<call, conn>> /\ t # "open"
        BY <1>7, Tasks DEF SendFailed
    <2>2. AfterClose(t) \in {"cancel", "done"}
        BY <1>7, Tasks DEF AfterClose
    <2>3. pc'[t] = AfterClose(t) /\ \A r \in Task : r # t => pc'[r] = pc[r]
        BY <2>1, <2>2, Moved
    <2>4. session.opened
        BY <1>7, <2>1 DEF LifeInv, NeedsOpened
    <2>5. Still(t)
        BY <1>1, <1>2, <2>1, <2>2, <2>3, <2>4 DEF Still
    <2> QED
        BY <1>2, <2>1, <2>4, <2>5, StillEnds
<1>8. CASE SendFailed(t) /\ t = "reader"
    <2>1. /\ session' = Fail(session) /\ Suspend("reader", "stopped") /\ call' = call
          /\ conn' = [state |-> "closed",
                      future |-> IF conn.future = "pending" THEN "fail" ELSE conn.future]
        BY <1>8, Tasks DEF SendFailed
    <2>2. pc'["reader"] = "stopped" /\ \A r \in Task : r # "reader" => pc'[r] = pc[r]
        BY <1>8, <2>1, Moved
    <2> QED
        BY <1>2, <2>1, <2>2, ConnectionEnds
<1> QED
    BY <1>3, <1>4, <1>5, <1>6, <1>7, <1>8 DEF Sends, SendFailed

LEMMA LifeFlushes ==
    ASSUME TypeOK, LifeInv, NEW t \in {"open", "user"}, Flushes(t) PROVE Lives
<1>1. t \in Task /\ "open" \in Task /\ session \in Session
    BY Tasks, TypeParts
<1>2. session'.opened = session.opened /\ session'.closed = session.closed
    <2>1. CASE FlushEvent(t)
        BY <1>1, <2>1, EventSent DEF Session
    <2>2. CASE FlushEos(t) \/ FlushEnd(t) \/ FlushSent(t)
        BY <1>1, <2>2 DEF FlushEos, FlushEnd, FlushSent, Session
    <2> QED
        BY <2>1, <2>2 DEF Flushes
<1>3. CASE FlushEvent(t) \/ FlushEos(t)
    <2>1. \E m \in Message : Sending(t, m)
        BY <1>1, <1>3, EventSent, EosSent
    <2>2. /\ pc[t] = "flush" /\ pc'[t] = "send" /\ conn' = conn
          /\ \A r \in Task : r # t => pc'[r] = pc[r] /\ call'[r] = call[r]
        BY <1>3, <2>1 DEF Sending, FlushEvent, FlushEos
    <2>3. Still(t)
        BY <1>1, <1>2, <2>2 DEF Still, LifeInv, NeedsOpened
    <2> QED
        BY <1>1, <1>2, <2>3, StillKeeps
<1>4. CASE FlushEnd(t) \/ FlushSent(t)
    <2>1. /\ NeedsOpened(t) /\ UNCHANGED <<call, conn>> /\ pc[t] \in {"flush", "sent"}
          /\ \E l \in {"flush", AfterFlush(t, session.force)} : Suspend(t, l) \/ Continue(t, l)
        BY <1>4 DEF FlushEnd, FlushSent, NeedsOpened
    <2>2. {"flush", AfterFlush(t, session.force)}
              \subseteq Location \ {"begin", "raised"}
        BY DEF AfterFlush, Location
    <2>3. /\ pc'[t] \notin {"begin", "raised"}
          /\ \A r \in Task : r # t => pc'[r] = pc[r]
        BY <1>1, <2>1, <2>2, Moved
    <2>4. Still(t)
        BY <1>1, <1>2, <2>1, <2>3 DEF Still, LifeInv
    <2> QED
        BY <1>1, <1>2, <2>4, StillKeeps
<1> QED
    BY <1>3, <1>4 DEF Flushes

LEMMA LifeEntering ==
    ASSUME TypeOK, LifeInv, NEW t \in {"open", "user"}, NEW force \in BOOLEAN,
           NEW s \in Session, EnterFlush(t, force, s), UNCHANGED <<call, conn>>,
           s.opened = session.opened, s.closed = session.closed,
           session.opened \/ AfterFlush(t, force) = "idle",
           pc[t] \notin {"begin", "raised"}
    PROVE  Lives
<1>1. t \in Task /\ "open" \in Task
    BY Tasks
<1>2. /\ \A r \in Task : r # t => pc'[r] = pc[r]
      /\ pc'[t] \in {"flush", AfterFlush(t, force)}
      /\ pc'[t] = "flush" => s.opened
      /\ session' = s \/ session' = [s EXCEPT !.force = force]
    BY Entering
<1>3. AfterFlush(t, force) \in {"ended", "waitdone", "idle"}
    BY DEF AfterFlush
<1>4. session'.opened = session.opened /\ session'.closed = session.closed
    BY <1>2 DEF Session
<1>5. Still(t)
    BY <1>1, <1>2, <1>3, <1>4 DEF Still, NeedsOpened
<1> QED
    BY <1>1, <1>4, <1>5, StillKeeps

\* Waiting for the io lock, or going on, without a word to the session.
LEMMA LifeWalks ==
    ASSUME TypeOK, LifeInv, NEW t \in Task, NEW l \in Location \ {"begin", "raised"},
           \/ Suspend(t, l) \/ Continue(t, l) \/ Acquire(t, "io", l),
           UNCHANGED <<call, conn>>, t = "open" => pc["open"] \notin {"begin", "raised"},
           session'.opened = session.opened, session'.closed = session.closed,
           l \in {"openlock", "flush", "ended", "eoslock", "waitdone"} => session.opened,
           l \notin {"send", "drain", "sent", "failed"}
    PROVE  Lives
<1>1. pc'[t] = l /\ \A r \in Task : r # t => pc'[r] = pc[r]
    BY Moved, Acquired
<1>2. Still(t)
    BY <1>1, Tasks DEF Still, NeedsOpened
<1> QED
    BY <1>2, StillKeeps

LEMMA LifeAccepted ==
    ASSUME TypeOK, WayInv, LifeInv, OpenAccepted PROVE Lives
<1> DEFINE s == [session EXCEPT !.opened = TRUE, !.registered = TRUE]
<1>1. /\ "open" \in Task /\ session \in Session /\ s \in Session /\ "CANCELLED" \in Reason
      /\ s.opened = TRUE /\ s.closed = session.closed /\ session.closed \in BOOLEAN
    BY Tasks, TypeParts DEF Session, Reason
<1>2. /\ pc["open"] = "await" /\ conn.future = "accept"
      /\ conn' = [conn EXCEPT !.future = "none"]
      /\ \/ SendClose("open", "CANCELLED", s)
         \/ session' = s /\ Acquire("open", "io", "openlock") /\ call' = call
    BY DEF OpenAccepted
<1> HIDE DEF s
<1>3. conn \in [state: {"up", "lost", "closed"},
                future: {"none", "pending", "accept", "reject", "fail"}]
    BY DEF TypeOK
<1>4. conn'.state = conn.state
    BY <1>2, <1>3
<1>5. /\ session'.opened = TRUE /\ session'.closed \in {session.closed, TRUE}
      /\ pc'["open"] \in {"send", "openlock", "ended"}
      /\ \A r \in Task : r # "open" => pc'[r] = pc[r] /\ call'[r] = call[r]
    <2>1. CASE SendClose("open", "CANCELLED", s)
        <3>1. /\ SameButEnd(s, session')
              /\ \/ Sending("open", CloseMessage("CANCELLED")) /\ session' = s
                 \/ Walking("open", AfterClose("open")) /\ session'.closed = TRUE
            BY <1>1, <2>1, Closing
        <3> QED
            BY <1>1, <3>1 DEF SameButEnd, Sending, Walking, AfterClose
    <2>2. CASE session' = s /\ Acquire("open", "io", "openlock") /\ call' = call
        BY <1>1, <2>2, Acquired DEF Location
    <2> QED
        BY <1>2, <2>1, <2>2
<1>6. LifeInv'
    BY <1>1, <1>4, <1>5 DEF LifeInv
<1>7. LifeOpen = "answered" /\ LifeOpen' = "open"
    BY <1>2, <1>5 DEF LifeOpen, WayInv, OpenInv, Opening
<1>8. Life!Open
    BY <1>4, <1>5, <1>7 DEF Life!Open
<1> QED
    BY <1>6, <1>8 DEF Lives, Life!Next

\* The answer is stored, and the session ends with it.
LEMMA LifeUnregistered ==
    ASSUME TypeOK, WayInv, LifeInv, OpenUnregistered PROVE Lives
<1>1. /\ "open" \in Task /\ session.closed \in BOOLEAN /\ Suspend("open", "raised")
      /\ "raised" \in Location /\ call' = call /\ pc["open"] = "await"
      /\ session'.opened = TRUE /\ session'.closed = TRUE
      /\ conn' = [conn EXCEPT !.future = "none"] /\ conn.future = "accept"
    BY Tasks, TypeParts, Unregistered DEF Session, OpenUnregistered
<1>2. pc'["open"] = "raised" /\ \A r \in Task : r # "open" => pc'[r] = pc[r]
    BY <1>1, Moved
<1>3. conn \in [state: {"up", "lost", "closed"},
                future: {"none", "pending", "accept", "reject", "fail"}]
    BY DEF TypeOK
<1>4. conn'.state = conn.state
    BY <1>1, <1>3
<1>5. LifeInv'
    BY <1>1, <1>2, <1>4 DEF LifeInv
<1>6. LifeOpen = "answered" /\ LifeOpen' = "open"
    BY <1>1 DEF LifeOpen, WayInv, OpenInv, Opening
<1>7. Life!Open
    BY <1>1, <1>4, <1>6 DEF Life!Open
<1> QED
    BY <1>5, <1>7 DEF Lives, Life!Next

LEMMA LifeOpens ==
    ASSUME TypeOK, WayInv, LifeInv, Opens PROVE Lives
<1> USE DEF Location
<1>1. /\ "open" \in Task /\ "open" \in {"open", "user"} /\ session \in Session
      /\ session.ending \in BOOLEAN
    BY Tasks, TypeParts DEF Session
<1>2. conn \in [state: {"up", "lost", "closed"},
                future: {"none", "pending", "accept", "reject", "fail"}]
    BY DEF TypeOK
<1>3. CASE OpenBegin
    <2>1. /\ Sending("open", OpenMessage) /\ session' = session /\ pc["open"] = "begin"
          /\ conn' = [conn EXCEPT !.future = "pending"]
        BY <1>1, <1>3, SendStarts DEF OpenBegin, Message
    <2>2. /\ pc'["open"] = "send" /\ call'["open"].type = "open"
          /\ \A r \in Task : r # "open" => pc'[r] = pc[r] /\ call'[r] = call[r]
          /\ conn'.state = conn.state /\ conn'.future = "pending"
        BY <1>2, <2>1 DEF Sending, OpenMessage
    <2>3. \A r \in Task : NeedsOpened(r)' => NeedsOpened(r)
        BY <2>2 DEF NeedsOpened
    <2>4. LifeInv'
        BY <2>1, <2>2, <2>3 DEF LifeInv
    <2>5. UNCHANGED Life!vars
        BY <2>1, <2>2 DEF Life!vars, LifeOpen, LifeInv
    <2> QED
        BY <2>4, <2>5 DEF Lives
<1>4. CASE OpenSent
    <2>1. /\ pc'["open"] = "await" /\ \A r \in Task : r # "open" => pc'[r] = pc[r]
          /\ UNCHANGED <<call, session, conn>> /\ pc["open"] = "sent"
        BY <1>1, <1>4, TypeParts DEF OpenSent
    <2>2. Still("open")
        BY <1>1, <2>1 DEF Still, NeedsOpened
    <2> QED
        BY <1>1, <2>1, <2>2, StillKeeps
<1>5. CASE OpenAccepted
    BY <1>5, LifeAccepted
<1>6. CASE OpenRefused \/ OpenTimeout \/ OpenCancelled
    <2>1. /\ pc["open"] \in {"await", "cancelled"} /\ Suspend("open", "raised")
          /\ session' = Fail(session) /\ conn' = [conn EXCEPT !.future = "none"]
          /\ call' = call
        BY <1>6 DEF OpenRefused, OpenTimeout, OpenCancelled
    <2>2. pc'["open"] = "raised" /\ \A r \in Task : r # "open" => pc'[r] = pc[r]
        BY <1>1, <2>1, Moved
    <2>3. /\ session'.closed = TRUE /\ session'.opened = session.opened
          /\ conn'.state = conn.state
        BY <1>1, <1>2, <2>1, Ends DEF SameButEnd
    <2> QED
        BY <2>1, <2>2, <2>3, OpenRaises
<1>7. CASE OpenFlush
    <2>1. /\ EnterFlush("open", session.ending, session) /\ UNCHANGED <<call, conn>>
          /\ pc["open"] = "openlock" /\ session.opened
        BY <1>1, <1>7 DEF OpenFlush, LifeInv, NeedsOpened
    <2> QED
        BY <1>1, <2>1, LifeEntering
<1>8. CASE OpenUnregistered
    BY <1>8, LifeUnregistered
<1> QED
    BY <1>3, <1>4, <1>5, <1>6, <1>7, <1>8 DEF Opens

LEMMA LifeUser ==
    ASSUME TypeOK, LifeInv, Writes \/ Finishes PROVE Lives
<1> USE DEF Location
<1>1. "user" \in Task /\ "user" \in {"open", "user"} /\ session \in Session /\ "open" \in Task
      /\ "user" # "open"
    BY Tasks, TypeParts
<1>2. CASE WriteCall \/ FinishCall \/ FinishReturn \/ FinishJoin
    <2>1. /\ UNCHANGED <<call, session, conn>>
          /\ \/ \E l \in {"cancel", "returned"} : Suspend("user", l)
             \/ \E l \in {"writelock", "endlock"} : Acquire("user", "io", l)
             \/ pc["open"] = "ended" /\ Acquire("user", "io", "eoslock")
        BY <1>2 DEF WriteCall, FinishCall, FinishReturn, FinishJoin, Conclude, OpenDone
    <2>2. pc["open"] = "ended" => session.opened
        BY <1>1 DEF LifeInv, NeedsOpened
    <2> QED
        BY <1>1, <2>1, <2>2, LifeWalks
<1>3. CASE WriteBody
    <2>1. /\ UNCHANGED <<call, conn>> /\ pc["user"] = "writelock"
          /\ \/ Suspend("user", "cancel") /\ session' = session
             \/ \E n \in ChunkSizes : EnterFlush("user", FALSE, Framed(session, n))
        BY <1>3 DEF WriteBody
    <2>2. \A n \in ChunkSizes : /\ Framed(session, n) \in Session
                                /\ Framed(session, n).opened = session.opened
                                /\ Framed(session, n).closed = session.closed
        BY <1>1, Framing, AudioAssumption
    <2>3. FALSE \in BOOLEAN /\ AfterFlush("user", FALSE) = "idle"
        BY DEF AfterFlush
    <2>4. CASE Suspend("user", "cancel") /\ session' = session
        BY <1>1, <2>1, <2>4, LifeWalks
    <2>5. ASSUME NEW n \in ChunkSizes, EnterFlush("user", FALSE, Framed(session, n))
          PROVE  Lives
        BY <1>1, <2>1, <2>2, <2>3, <2>5, LifeEntering
    <2> QED
        BY <2>1, <2>4, <2>5
<1>4. CASE FinishEnding
    <2>1. /\ pc'["user"] = "join" /\ \A r \in Task : r # "user" => pc'[r] = pc[r]
          /\ UNCHANGED <<call, conn>> /\ session' = [Padded(session) EXCEPT !.ending = TRUE]
        BY <1>1, <1>4, TypeParts DEF FinishEnding
    <2>2. session'.opened = session.opened /\ session'.closed = session.closed
        BY <1>1, <2>1, Padding DEF Session
    <2>3. Still("user")
        BY <1>1, <2>1, <2>2 DEF Still, NeedsOpened
    <2> QED
        BY <1>1, <2>2, <2>3, StillKeeps
<1>5. CASE FinishEos
    <2>1. /\ EnterFlush("user", TRUE, session) /\ UNCHANGED <<call, conn>>
          /\ pc["user"] = "eoslock" /\ session.opened /\ TRUE \in BOOLEAN
        BY <1>1, <1>5 DEF FinishEos, LifeInv, NeedsOpened
    <2> QED
        BY <1>1, <2>1, LifeEntering
<1>6. CASE FinishTimeout
    <2>1. /\ SendClose("user", "TIMEOUT", session) /\ conn' = conn /\ pc["user"] # "send"
          /\ session.opened /\ "TIMEOUT" \in Reason
        BY <1>1, <1>6 DEF FinishTimeout, LifeInv, NeedsOpened, Reason
    <2> QED
        BY <1>1, <2>1, StillCloses
<1> QED
    BY <1>2, <1>3, <1>4, <1>5, <1>6 DEF Writes, Finishes

LEMMA LifeCancels ==
    ASSUME TypeOK, LifeInv, NEW t \in Cancellers \cup {"user"}, Cancels(t) PROVE Lives
<1> DEFINE s == [session EXCEPT !.ending = TRUE, !.cancelled = TRUE]
<1>1. /\ t \in Task /\ t # "open" /\ session \in Session /\ s \in Session
      /\ "CANCELLED" \in Reason /\ s.opened = session.opened /\ s.closed = session.closed
      /\ "open" \in Task
    BY Tasks, TypeParts DEF Session, Reason
<1>2. OpenDone => session.opened \/ pc["open"] = "raised"
    BY <1>1 DEF OpenDone, LifeInv, NeedsOpened
<1>3. /\ conn' = conn /\ pc[t] # "send"
      /\ \/ /\ call' = call /\ session' \in {session, s}
            /\ Suspend(t, "done") \/ Suspend(t, "openwait")
         \/ /\ SendClose(t, "CANCELLED", s) \/ SendClose(t, "CANCELLED", session)
            /\ session.opened \/ OpenDone
    BY DEF Cancels, CancelCall, CancelJoin, CancelGiveUp, OpenDone
<1> HIDE DEF s
<1>4. CASE /\ call' = call /\ session' \in {session, s}
           /\ Suspend(t, "done") \/ Suspend(t, "openwait")
    <2>1. {"done", "openwait"} \subseteq Location
        BY DEF Location
    <2> QED
        BY <1>1, <1>3, <1>4, <2>1, LifeWalks
<1>5. CASE /\ SendClose(t, "CANCELLED", s) \/ SendClose(t, "CANCELLED", session)
           /\ session.opened \/ OpenDone
    BY <1>1, <1>2, <1>3, <1>5, StillCloses
<1> QED
    BY <1>3, <1>4, <1>5

LEMMA LifeReader ==
    ASSUME TypeOK, RegInv, LifeInv, ReaderSteps PROVE Lives
<1>1. /\ "reader" \in Task /\ "reader" # "open" /\ session \in Session /\ "open" \in Task
      /\ "NORMAL" \in Reason /\ "idle" \in Location
    BY Tasks, TypeParts DEF Reason, Location
<1>2. pc["reader"] = "idle" /\ conn.state # "closed"
    BY DEF ReaderSteps, ReaderResponse, ReaderAck, ReaderClose, Reads
<1>3. CASE ReaderResponse
    <2>1. /\ Suspend("reader", "idle") /\ UNCHANGED <<call, session>>
          /\ conn' = [conn EXCEPT !.future = IF @ = "pending" THEN Head(inbox) ELSE @]
          /\ Head(inbox) \in {"accept", "reject"}
        BY <1>3 DEF ReaderResponse
    <2>2. conn \in [state: {"up", "lost", "closed"},
                    future: {"none", "pending", "accept", "reject", "fail"}]
        BY DEF TypeOK
    <2>3. /\ conn'.state = conn.state
          /\ conn'.future = IF conn.future = "pending" THEN Head(inbox) ELSE conn.future
        BY <2>1, <2>2
    <2>4. pc'["reader"] = "idle" /\ \A r \in Task : r # "reader" => pc'[r] = pc[r]
        BY <1>1, <2>1, Moved
    <2>5. \A r \in Task : NeedsOpened(r)' => NeedsOpened(r)
        BY <2>1, <2>4 DEF NeedsOpened
    <2>6. LifeInv'
        BY <1>1, <2>1, <2>3, <2>4, <2>5 DEF LifeInv
    <2>7. LifeOpen' = LifeOpen \/ (LifeOpen = "pending" /\ LifeOpen' = "answered")
        BY <1>1, <2>1, <2>3, <2>4 DEF LifeOpen
    <2>8. session.closed => LifeOpen # "pending"
        BY <1>2 DEF LifeInv, LifeOpen
    <2>9. Life!Answer \/ UNCHANGED Life!vars
        BY <2>1, <2>3, <2>7, <2>8 DEF Life!Answer, Life!vars
    <2> QED
        BY <2>6, <2>9 DEF Lives, Life!Next
<1>4. CASE ReaderAck
    <2>1. /\ conn' = conn
          /\ \/ session.opened /\ SendClose("reader", "NORMAL", session)
             \/ Suspend("reader", "idle") /\ UNCHANGED <<call, session>>
        BY <1>4 DEF ReaderAck
    <2> QED
        BY <1>1, <1>2, <2>1, StillCloses, LifeWalks
<1>5. CASE ReaderClose
    <2>1. /\ Suspend("reader", "idle") /\ UNCHANGED <<call, conn>>
          /\ session' \in {session, Fail(session), MarkDone(session)}
          /\ session' # session => session.opened
        BY <1>5 DEF ReaderClose, RegInv
    <2>2. /\ Fail(session).closed = TRUE /\ Fail(session).opened = session.opened
          /\ MarkDone(session).closed = TRUE /\ MarkDone(session).opened = session.opened
        BY <1>1, Ends DEF SameButEnd
    <2>3. CASE session' = session
        BY <1>1, <2>1, <2>3, LifeWalks
    <2>4. CASE session' # session
        <3>1. pc'["reader"] = "idle" /\ \A r \in Task : r # "reader" => pc'[r] = pc[r]
            BY <1>1, <2>1, Moved
        <3>2. Still("reader")
            BY <1>1, <2>1, <2>2, <2>4, <3>1 DEF Still, NeedsOpened
        <3> QED
            BY <1>1, <2>1, <2>2, <2>4, <3>2, StillEnds
    <2> QED
        BY <2>3, <2>4
<1> QED
    BY <1>3, <1>4, <1>5 DEF ReaderSteps

LEMMA LifeAbort ==
    ASSUME TypeOK, WayInv, LifeInv, UserAbort PROVE Lives
<1>1. "user" \in Task /\ "open" \in Task /\ "user" # "open" /\ session \in Session
      /\ UNCHANGED <<call, conn>>
    BY Tasks, TypeParts DEF UserAbort
<1>2. CASE /\ pc' = [pc EXCEPT !["user"] = "cancel"]
           /\ \/ session' = session
              \/ /\ session' = Fail(session) /\ pc["user"] \in {"send", "drain"}
                 /\ call["user"].type = "close"
    <2>1. pc'["user"] = "cancel" /\ \A r \in Task : r # "user" => pc'[r] = pc[r]
        BY <1>1, <1>2, TypeParts
    <2>2. Fail(session).closed = TRUE /\ Fail(session).opened = session.opened
        BY <1>1, Ends DEF SameButEnd
    <2>3. Still("user")
        BY <1>1, <1>2, <2>1, <2>2 DEF Still, NeedsOpened
    <2>4. session' # session => session.opened
        BY <1>1, <1>2 DEF LifeInv, NeedsOpened
    <2> QED
        BY <1>1, <1>2, <2>2, <2>3, <2>4, StillKeeps, StillEnds
<1>3. CASE /\ pc' = [pc EXCEPT !["open"] = IF @ = "begin" THEN "raised" ELSE "cancelled"]
           /\ session' = session /\ ~OpenDone
    <2>1. \/ pc["open"] = "begin" /\ pc'["open"] = "raised"
          \/ pc["open"] \notin {"begin", "raised"} /\ pc'["open"] = "cancelled"
        BY <1>1, <1>3, TypeParts DEF OpenDone
    <2>2. \A r \in Task : r # "open" => pc'[r] = pc[r]
        BY <1>1, <1>3, TypeParts
    <2>3. CASE pc["open"] = "begin" /\ pc'["open"] = "raised"
        <3>1. \A r \in Task : NeedsOpened(r)' => NeedsOpened(r)
            BY <1>1, <2>2, <2>3 DEF NeedsOpened
        <3>2. LifeInv'
            BY <1>1, <1>3, <2>3, <3>1 DEF LifeInv
        <3>3. LifeOpen = "pending" /\ LifeOpen' = "failed"
            BY <1>1, <1>3, <2>3 DEF LifeOpen, LifeInv, WayInv, OpenInv, Opening
        <3>4. Life!Abort
            BY <1>1, <1>3, <3>3 DEF Life!Abort
        <3> QED
            BY <3>2, <3>4 DEF Lives, Life!Next
    <2>4. CASE pc["open"] \notin {"begin", "raised"} /\ pc'["open"] = "cancelled"
        <3>1. Still("open")
            BY <1>1, <1>3, <2>2, <2>4 DEF Still, NeedsOpened
        <3> QED
            BY <1>1, <1>3, <3>1, StillKeeps
    <2> QED
        BY <2>1, <2>3, <2>4
<1> QED
    BY <1>2, <1>3 DEF UserAbort

\* The cancel() that is cancelled was sending a close: there is a stream id.
LEMMA LifeAborted ==
    ASSUME TypeOK, LifeInv, NEW t \in Cancellers, CancelAbort(t) PROVE Lives
<1>1. /\ t \in Task /\ t \notin {"open", "user", "reader"} /\ "open" \in Task
      /\ pc[t] \in {"send", "drain"} /\ pc'[t] \in {"unsent", "done"}
      /\ \A r \in Task : r # t => pc'[r] = pc[r]
      /\ session'.closed = TRUE /\ session'.opened = session.opened
      /\ UNCHANGED <<call, conn>>
    BY Tasks, Aborted DEF SameButEnd
<1>2. session.opened
    BY <1>1 DEF LifeInv, NeedsOpened
<1>3. Still(t)
    BY <1>1 DEF Still, NeedsOpened
<1> QED
    BY <1>1, <1>2, <1>3, StillEnds

LEMMA LifeTv ==
    ASSUME TypeOK, LifeInv, \/ ConnClose \/ ConnLost \/ TvAnswer \/ TvAck \/ TvClose
                            \/ Terminated \/ UNCHANGED vars
    PROVE  Lives
<1>1. "reader" \in Task /\ session \in Session /\ "open" \in Task
    BY Tasks, TypeParts
<1>2. conn \in [state: {"up", "lost", "closed"},
                future: {"none", "pending", "accept", "reject", "fail"}]
    BY DEF TypeOK
<1>3. CASE ConnClose
    <2>1. /\ conn' = [state |-> "closed",
                      future |-> IF conn.future = "pending" THEN "fail" ELSE conn.future]
          /\ session' = IF session.closed THEN session ELSE Fail(session)
          /\ pc' = [pc EXCEPT !["reader"] = IF @ = "idle" THEN "stopped" ELSE @]
          /\ call' = call
        BY <1>3 DEF ConnClose
    <2>2. session.closed \in BOOLEAN
        BY <1>1 DEF Session
    <2>3. session'.closed = TRUE /\ session'.opened = session.opened
        BY <1>1, <2>1, <2>2, Ends DEF SameButEnd
    <2>4. /\ pc'["reader"] \in {pc["reader"], "stopped"}
          /\ \A r \in Task \ {"reader"} : pc'[r] = pc[r]
        BY <1>1, <2>1, TypeParts
    <2>5. /\ conn'.state = "closed"
          /\ conn'.future = IF conn.future = "pending" THEN "fail" ELSE conn.future
        BY <2>1
    <2> QED
        BY <2>1, <2>3, <2>4, <2>5, ConnectionEnds
<1>4. CASE ConnLost
    <2>1. /\ UNCHANGED <<pc, call, session>> /\ conn.state = "up"
          /\ conn'.state = "lost" /\ conn'.future = conn.future
        BY <1>2, <1>4 DEF ConnLost
    <2>2. LifeInv'
        BY <2>1 DEF LifeInv, NeedsOpened
    <2>3. UNCHANGED Life!vars
        BY <2>1 DEF Life!vars, LifeOpen
    <2> QED
        BY <2>2, <2>3 DEF Lives
<1>5. CASE UNCHANGED <<pc, call, session, conn>>
    <2>1. Still("reader")
        BY <1>1, <1>5 DEF Still, NeedsOpened, LifeInv
    <2> QED
        BY <1>1, <1>5, <2>1, StillKeeps
<1> QED
    BY <1>3, <1>4, <1>5 DEF TvAnswer, TvAck, TvClose, TvStep, Terminated, vars

LEMMA LifeStep == TypeOK /\ WayInv /\ RegInv /\ LifeInv /\ [Next]_vars => Lives
BY LifeSends, LifeFlushes, LifeOpens, LifeUser, LifeCancels, LifeReader, LifeAbort,
   LifeAborted, LifeTv
DEF Next

LEMMA LifeInitially == Init => LifeInv /\ Life!Init
<1> SUFFICES ASSUME Init PROVE LifeInv /\ Life!Init
    OBVIOUS
<1>1. \A t \in Task : pc[t] \in {"begin", "idle", "ready"}
    BY DEF Init
<1>2. "open" \in Task /\ pc["open"] = "begin"
    BY Tasks DEF Init
<1> QED
    BY <1>1, <1>2 DEF Init, LifeInv, NeedsOpened, Life!Init, LifeOpen

\* Whether or not drain() suspends and whichever tasks are cancelled, the
\* session leads the life SessionLife promises: it ends at most once, not before
\* _open is through with it or the connection is gone, and an answer is stored
\* or dropped, never both.
THEOREM SessionLivesAsPromised == Spec => ImplementsSessionLife
<1> DEFINE All == WayInv /\ RegInv /\ LifeInv
<1>1. Init => All /\ Life!Init
    BY LifeInitially, InitiallyOrdered, RegisteredInitially
<1>2. TypeOK /\ LockInv /\ All /\ [Next]_vars => All' /\ [Life!Next]_(Life!vars)
    BY WayStep, Registration, LifeStep DEF Lives
<1> HIDE DEF All
<1> QED
    BY <1>1, <1>2, TypeCorrect, LockInvariant, PTL
    DEF Spec, ImplementsSessionLife, Life!Spec
=============================================================================
