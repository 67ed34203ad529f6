------------------------- MODULE EndOfStreamProofs -------------------------
(***************************************************************************)
(* The end of stream covers all the audio (EosComplete of SiriSession).    *)
(*                                                                         *)
(* A cancel() that comes before finish() ends the session with a partial   *)
(* frame that nobody pads.  An end of stream that is sent all the same     *)
(* would be short, but it comes after the close that cancel() has queued   *)
(* for the send lock: the proof is about the order in that queue.          *)
(*                                                                         *)
(* Who is in that queue, and in the one of the io lock, is also what shows *)
(* that no task keeps a lock (LocksGivenBack).                             *)
(***************************************************************************)
EXTENDS SiriSessionProofs

-----------------------------------------------------------------------------
(* The order in a queue.                                                   *)

Ahead(q, S, n) == \E i \in 1..n : q[i] \in S

Once(q, t) == \A i, j \in 1..Len(q) : q[i] = t /\ q[j] = t => i = j

\* A task that leaves a queue leaves the others in order.
LEMMA LeaveOrder ==
    ASSUME NEW q \in Seq(Task), NEW t \in Task, NEW p \in 1..Len(q)
    PROVE  /\ RemoveAt(q, p) \in Seq(Task) /\ Len(RemoveAt(q, p)) = Len(q) - 1
           /\ \A i \in 1..Len(q) - 1 :
                  RemoveAt(q, p)[i] = IF i < p THEN q[i] ELSE q[i + 1]
<1> DEFINE a == SubSeq(q, 1, p - 1)
           b == SubSeq(q, p + 1, Len(q))
<1>1. /\ a \in Seq(Task) /\ Len(a) = p - 1
      /\ \A i \in 1..p - 1 : a[i] = q[i]
    OBVIOUS
<1>2. /\ b \in Seq(Task) /\ Len(b) = Len(q) - p
      /\ \A i \in 1..Len(q) - p : b[i] = q[p + i]
    OBVIOUS
<1>3. RemoveAt(q, p) = a \o b
    BY DEF RemoveAt
<1> HIDE DEF a, b
<1>4. a \o b \in Seq(Task) /\ Len(a \o b) = Len(q) - 1
    <2>1. a \in Seq(Task) /\ b \in Seq(Task)
        BY <1>1, <1>2
    <2>2. a \o b \in Seq(Task) /\ Len(a \o b) = Len(a) + Len(b)
        BY <2>1
    <2>3. Len(q) \in Nat /\ Len(a) = p - 1 /\ Len(b) = Len(q) - p
        BY <1>1, <1>2
    <2> QED
        BY <2>2, <2>3
<1>5. ASSUME NEW i \in 1..Len(q) - 1
      PROVE  (a \o b)[i] = IF i < p THEN q[i] ELSE q[i + 1]
    <2>1. CASE i < p
        BY <1>1, <1>2, <2>1
    <2>2. CASE ~(i < p)
        <3>1. (a \o b)[i] = b[i - (p - 1)]
            BY <1>1, <1>2, <2>2
        <3>2. i - (p - 1) \in 1..Len(q) - p /\ p + (i - (p - 1)) = i + 1
            BY <2>2
        <3> QED
            BY <1>2, <2>2, <3>1, <3>2
    <2> QED
        BY <2>1, <2>2
<1> QED
    BY <1>3, <1>4, <1>5

LEMMA LeaveAhead ==
    ASSUME NEW q \in Seq(Task), NEW t \in Task, NEW S, t \notin S
    PROVE  /\ Ahead(q, S, Len(q)) => Ahead(Leave(q, t), S, Len(Leave(q, t)))
           /\ \A j \in 1..Len(Leave(q, t)) : \E k \in 1..Len(q) :
                  /\ Leave(q, t)[j] = q[k]
                  /\ Ahead(q, S, k - 1) => Ahead(Leave(q, t), S, j - 1)
<1>1. CASE \A i \in 1..Len(q) : q[i] # t
    BY <1>1 DEF Leave
<1>2. CASE \E i \in 1..Len(q) : q[i] = t
    <2> DEFINE p == CHOOSE i \in 1..Len(q) : q[i] = t
               r == RemoveAt(q, p)
    <2>1. p \in 1..Len(q) /\ q[p] = t
        BY <1>2
    <2>2. Leave(q, t) = r
        BY <1>2 DEF Leave
    <2> HIDE DEF p
    <2>3. /\ r \in Seq(Task) /\ Len(r) = Len(q) - 1
          /\ \A i \in 1..Len(q) - 1 : r[i] = IF i < p THEN q[i] ELSE q[i + 1]
        BY <2>1, LeaveOrder
    <2> HIDE DEF r
    <2>4. ASSUME NEW k \in 0..Len(q), NEW j \in 0..Len(q) - 1, Ahead(q, S, k),
                 j = k \/ (k >= p /\ j = k - 1)
          PROVE  Ahead(r, S, j)
        <3>1. PICK i \in 1..k : q[i] \in S
            BY <2>4 DEF Ahead
        <3>2. i # p
            BY <2>1, <3>1
        <3>3. CASE i < p
            <4>1. i \in 1..Len(q) - 1 /\ i \in 1..j /\ r[i] = q[i]
                BY <2>1, <2>3, <2>4, <3>3
            <4> QED
                BY <3>1, <4>1 DEF Ahead
        <3>4. CASE i > p
            <4>1. i - 1 \in 1..Len(q) - 1 /\ i - 1 \in 1..j /\ r[i - 1] = q[i]
                BY <2>1, <2>3, <2>4, <3>4
            <4> QED
                BY <3>1, <4>1 DEF Ahead
        <3> QED
            BY <2>1, <3>2, <3>3, <3>4
    <2>5. Ahead(q, S, Len(q)) => Ahead(r, S, Len(r))
        BY <2>1, <2>3, <2>4
    <2>6. ASSUME NEW j \in 1..Len(r)
          PROVE  \E k \in 1..Len(q) :
                     r[j] = q[k] /\ (Ahead(q, S, k - 1) => Ahead(r, S, j - 1))
        <3>1. CASE j < p
            <4>1. j \in 1..Len(q) /\ r[j] = q[j] /\ j - 1 \in 0..Len(q) - 1
                BY <2>1, <2>3, <3>1
            <4> QED
                BY <2>4, <4>1
        <3>2. CASE j >= p
            <4>1. j + 1 \in 1..Len(q) /\ r[j] = q[j + 1] /\ j - 1 \in 0..Len(q) - 1
                  /\ j \in 0..Len(q) /\ (j + 1) - 1 = j
                BY <2>1, <2>3, <3>2
            <4>2. Ahead(q, S, j) => Ahead(r, S, j - 1)
                BY <2>1, <2>4, <3>2, <4>1
            <4> QED
                BY <4>1, <4>2
        <3> QED
            BY <2>1, <2>3, <3>1, <3>2
    <2> QED
        BY <2>2, <2>5, <2>6
<1> QED
    BY <1>1, <1>2

LEMMA LeaveOnce ==
    ASSUME NEW q \in Seq(Task), NEW t \in Task, \A r \in Task : Once(q, r)
    PROVE  /\ \A i \in 1..Len(Leave(q, t)) :
                  /\ Leave(q, t)[i] # t
                  /\ \E k \in 1..Len(q) : Leave(q, t)[i] = q[k]
           /\ \A r \in Task : Once(Leave(q, t), r)
<1>1. CASE \A i \in 1..Len(q) : q[i] # t
    BY <1>1 DEF Leave
<1>2. CASE \E i \in 1..Len(q) : q[i] = t
    <2> DEFINE p == CHOOSE i \in 1..Len(q) : q[i] = t
               r == RemoveAt(q, p)
    <2>1. p \in 1..Len(q) /\ q[p] = t
        BY <1>2
    <2>2. Leave(q, t) = r
        BY <1>2 DEF Leave
    <2> HIDE DEF p
    <2>3. /\ r \in Seq(Task) /\ Len(r) = Len(q) - 1
          /\ \A i \in 1..Len(q) - 1 : r[i] = IF i < p THEN q[i] ELSE q[i + 1]
        BY <2>1, LeaveOrder
    <2> HIDE DEF r
    <2> DEFINE at(i) == IF i < p THEN i ELSE i + 1
    <2>4. ASSUME NEW i \in 1..Len(r)
          PROVE  at(i) \in 1..Len(q) /\ at(i) # p /\ r[i] = q[at(i)]
        BY <2>1, <2>3
    <2>5. \A i, j \in 1..Len(r) : at(i) = at(j) => i = j
        BY <2>1, <2>3
    <2> HIDE DEF at
    <2>6. \A i \in 1..Len(r) : r[i] # t
        BY <2>1, <2>4 DEF Once
    <2>7. ASSUME NEW u \in Task, NEW i \in 1..Len(r), NEW j \in 1..Len(r),
                 r[i] = u, r[j] = u
          PROVE  i = j
        BY <2>4, <2>5, <2>7 DEF Once
    <2>8. \A u \in Task : Once(r, u)
        BY <2>7 DEF Once
    <2> QED
        BY <2>2, <2>4, <2>6, <2>8
<1> QED
    BY <1>1, <1>2

-----------------------------------------------------------------------------
(* How the steps move a task in the queue of the send lock.                *)

Queue == lock["send"]

\* Where a task is while it is in that queue.
Queued == {"send", "drain", "cancelled"}

Rests(t) == pc'[t] = pc[t] /\ call'[t] = call[t] /\ Queue' = Queue

Walks(t) ==
    /\ pc[t] \notin Queued /\ pc'[t] \notin Queued \cup {"sent"}
    /\ call'[t] = call[t] /\ Queue' = Queue

Joins(t) ==
    /\ pc[t] \notin Queued /\ pc'[t] = "send"
    /\ Queue' = Append(Queue, t)

Quits(t) ==
    /\ pc'[t] \notin Queued /\ call'[t] = call[t]
    /\ pc'[t] = "sent" => pc[t] = "drain"
    /\ Queue' = Leave(Queue, t)

Moves(t) ==
    /\ \A r \in Task : r # t => pc'[r] = pc[r] /\ call'[r] = call[r]
    /\ Rests(t) \/ Walks(t) \/ Joins(t) \/ Quits(t)

LEMMA WalkingMoves ==
    ASSUME NEW t \in Task, NEW l, Walking(t, l), pc[t] \notin Queued,
           l \notin Queued \cup {"sent"}
    PROVE  Moves(t)
BY DEF Walking, Moves, Walks, Queue

LEMMA SendingMoves ==
    ASSUME NEW t \in Task, NEW m, Sending(t, m), pc[t] \notin Queued
    PROVE  Moves(t) /\ Joins(t)
BY DEF Sending, Moves, Joins, Queue

LEMMA ClosingMoves ==
    ASSUME TypeOK, NEW t \in Task, NEW reason \in Reason, NEW s \in Session,
           SendClose(t, reason, s), pc[t] \notin Queued
    PROVE  Moves(t)
<1>1. AfterClose(t) \notin Queued \cup {"sent"}
    BY DEF AfterClose, Queued
<1> QED
    BY <1>1, Closing, WalkingMoves, SendingMoves

LEMMA AcquiringMoves ==
    ASSUME TypeOK, NEW t \in Task, NEW l \in Location, Acquire(t, "io", l), call' = call,
           pc[t] \notin Queued, l \notin Queued \cup {"sent"}
    PROVE  Moves(t)
BY Acquired DEF Moves, Walks, Queue

LEMMA SuspendMoves ==
    ASSUME TypeOK, NEW t \in Task, NEW l \in Location, Suspend(t, l) \/ Continue(t, l),
           call' = call, lock' = lock \/ Release(t, "io"),
           pc[t] \notin Queued, l \notin Queued \cup {"sent"}
    PROVE  Moves(t)
<1>1. Queue' = Queue
    BY Left DEF Queue
<1> QED
    BY <1>1, Moved DEF Moves, Walks

LEMMA SendsMoves ==
    ASSUME TypeOK, NEW t \in Task, Drained(t) \/ CloseSent(t) \/ SendFailed(t)
    PROVE  Moves(t)
<1>1. CASE Drained(t)
    <2>1. /\ pc[t] = "drain" /\ call' = call /\ Release(t, "send")
          /\ Continue(t, "sent") \/ Continue(t, "failed")
        BY <1>1 DEF Drained
    <2>2. /\ \A r \in Task : r # t => pc'[r] = pc[r]
          /\ pc'[t] \in {"sent", "failed"} /\ Queue' = Leave(Queue, t)
        BY <2>1, Moved, Left DEF Location, Queue
    <2> QED
        BY <2>1, <2>2 DEF Moves, Quits, Queued
<1>2. CASE CloseSent(t)
    <2>1. /\ pc[t] = "sent" /\ UNCHANGED <<call, lock>> /\ Suspend(t, AfterClose(t))
          /\ AfterClose(t) \in Location /\ AfterClose(t) \notin Queued \cup {"sent"}
        BY <1>2 DEF CloseSent, AfterClose, Location, Queued
    <2> QED
        BY <2>1, SuspendMoves DEF Queued
<1>3. CASE SendFailed(t)
    <2>1. /\ pc[t] = "failed" /\ call' = call /\ Release(t, "io")
          /\ \E l \in {"raised", "cancel", "stopped", AfterClose(t)} : Suspend(t, l)
        BY <1>3 DEF SendFailed
    <2>2. {"raised", "cancel", "stopped", AfterClose(t)}
              \subseteq Location \ (Queued \cup {"sent"})
        BY DEF AfterClose, Location, Queued
    <2> QED
        BY <2>1, <2>2, SuspendMoves DEF Queued
<1> QED
    BY <1>1, <1>2, <1>3

LEMMA FlushesMoves ==
    ASSUME TypeOK, NEW t \in {"open", "user"}, FlushEnd(t) \/ FlushSent(t)
    PROVE  Moves(t)
<1>1. /\ t \in Task /\ pc[t] \in {"flush", "sent"} /\ call' = call
      /\ lock' = lock \/ Release(t, "io")
      /\ \E l \in {"flush", AfterFlush(t, session.force)} : Suspend(t, l) \/ Continue(t, l)
    BY Tasks DEF FlushEnd, FlushSent
<1>2. {"flush", AfterFlush(t, session.force)} \subseteq Location \ (Queued \cup {"sent"})
    BY DEF AfterFlush, Location, Queued
<1> QED
    BY <1>1, <1>2, SuspendMoves DEF Queued

LEMMA EnteringMoves ==
    ASSUME TypeOK, NEW t \in {"open", "user"}, NEW force \in BOOLEAN, NEW s \in Session,
           EnterFlush(t, force, s), call' = call, pc[t] \notin Queued
    PROVE  Moves(t)
<1>1. t \in Task
    BY Tasks
<1>2. /\ Suspend(t, AfterFlush(t, force)) \/ Continue(t, "flush")
      /\ lock' = lock \/ Release(t, "io")
    BY DEF EnterFlush
<1>3. {"flush", AfterFlush(t, force)} \subseteq Location \ (Queued \cup {"sent"})
    BY DEF AfterFlush, Location, Queued
<1> QED
    BY <1>1, <1>2, <1>3, SuspendMoves

LEMMA OpensMoves ==
    ASSUME TypeOK, Opens PROVE Moves("open")
<1>1. "open" \in Task /\ "open" \in {"open", "user"}
    BY Tasks
<1>2. CASE OpenBegin
    <2>1. Sending("open", OpenMessage) /\ pc["open"] = "begin"
        BY <1>1, <1>2, SendStarts DEF OpenBegin, Message
    <2> QED
        BY <1>1, <2>1, SendingMoves DEF Queued
<1>3. CASE OpenSent
    BY <1>1, <1>3, TypeParts DEF OpenSent, Moves, Walks, Queue, Queued
<1>4. CASE OpenAccepted
    <2> DEFINE s == [session EXCEPT !.opened = TRUE, !.registered = TRUE]
    <2>1. s \in Session /\ "CANCELLED" \in Reason /\ pc["open"] \notin Queued
        BY <1>4, TypeParts DEF OpenAccepted, Session, Reason, Queued
    <2>2. \/ SendClose("open", "CANCELLED", s)
          \/ Acquire("open", "io", "openlock") /\ call' = call
        BY <1>4 DEF OpenAccepted
    <2> HIDE DEF s
    <2>3. "openlock" \in Location \ (Queued \cup {"sent"})
        BY DEF Location, Queued
    <2> QED
        BY <1>1, <2>1, <2>2, <2>3, ClosingMoves, AcquiringMoves
<1>5. CASE OpenRefused \/ OpenTimeout
    <2>1. /\ Suspend("open", "raised") /\ UNCHANGED <<call, lock>>
          /\ pc["open"] \notin Queued /\ "raised" \in Location \ (Queued \cup {"sent"})
        BY <1>5 DEF OpenRefused, OpenTimeout, Location, Queued
    <2> QED
        BY <1>1, <2>1, SuspendMoves
<1>6. CASE OpenFlush
    <2>1. /\ EnterFlush("open", session.ending, session) /\ call' = call
          /\ session \in Session /\ session.ending \in BOOLEAN
          /\ pc["open"] \notin Queued
        BY <1>6, TypeParts DEF OpenFlush, Session, Queued
    <2> QED
        BY <1>1, <2>1, EnteringMoves
<1>7. CASE OpenCancelled
    <2>1. /\ Suspend("open", "raised") /\ call' = call /\ ReleaseAll("open")
          /\ "raised" \in Location \ (Queued \cup {"sent"})
        BY <1>7 DEF OpenCancelled, Location, Queued
    <2>2. Queue' = Leave(Queue, "open")
        BY <1>1, <2>1, LeftAll DEF Queue
    <2> QED
        BY <1>1, <2>1, <2>2, Moved DEF Moves, Quits
<1>8. CASE OpenUnregistered
    <2>1. pc["open"] \notin Queued /\ "raised" \in Location \ (Queued \cup {"sent"})
        BY <1>8 DEF OpenUnregistered, Location, Queued
    <2> QED
        BY <1>1, <1>8, <2>1, Unregistered, SuspendMoves
<1> QED
    BY <1>2, <1>3, <1>4, <1>5, <1>6, <1>7, <1>8 DEF Opens

LEMMA UserMoves ==
    ASSUME TypeOK, Writes \/ Finishes PROVE Moves("user")
<1>1. "user" \in Task /\ "user" \in {"open", "user"} /\ session \in Session
    BY Tasks, TypeParts
<1>2. {"writelock", "endlock", "eoslock", "cancel", "returned", "join"}
          \subseteq Location \ (Queued \cup {"sent"})
    BY DEF Location, Queued
<1>3. CASE WriteCall \/ FinishCall \/ FinishJoin \/ FinishReturn
    <2>1. /\ call' = call /\ pc["user"] \notin Queued
          /\ \/ /\ lock' = lock
                /\ Suspend("user", "cancel") \/ Suspend("user", "returned")
             \/ \E l \in {"writelock", "endlock", "eoslock"} : Acquire("user", "io", l)
        BY <1>3 DEF WriteCall, FinishCall, FinishJoin, FinishReturn, Conclude, Queued
    <2> QED
        BY <1>1, <1>2, <2>1, SuspendMoves, AcquiringMoves
<1>4. CASE WriteBody
    <2>1. /\ call' = call /\ pc["user"] \notin Queued
          /\ \/ Release("user", "io") /\ Suspend("user", "cancel")
             \/ \E n \in ChunkSizes : EnterFlush("user", FALSE, Framed(session, n))
        BY <1>4 DEF WriteBody, Queued
    <2>2. \A n \in ChunkSizes : Framed(session, n) \in Session
        BY <1>1, Framing, AudioAssumption
    <2>3. FALSE \in BOOLEAN
        OBVIOUS
    <2> QED
        BY <1>1, <1>2, <2>1, <2>2, <2>3, SuspendMoves, EnteringMoves
<1>5. CASE FinishEnding
    <2>1. /\ pc["user"] = "endlock" /\ call' = call /\ Release("user", "io")
          /\ pc' = [pc EXCEPT !["user"] = "join"]
        BY <1>5 DEF FinishEnding
    <2>2. pc'["user"] = "join" /\ \A r \in Task : r # "user" => pc'[r] = pc[r]
        BY <1>1, <2>1, TypeParts
    <2>3. Queue' = Queue
        BY <1>1, <2>1, Left DEF Queue
    <2> QED
        BY <2>1, <2>2, <2>3 DEF Moves, Walks, Queued
<1>6. CASE FinishEos
    <2>1. /\ EnterFlush("user", TRUE, session) /\ call' = call
          /\ pc["user"] \notin Queued /\ TRUE \in BOOLEAN
        BY <1>6 DEF FinishEos, Queued
    <2> QED
        BY <1>1, <2>1, EnteringMoves
<1>7. CASE FinishTimeout
    <2>1. /\ SendClose("user", "TIMEOUT", session) /\ "TIMEOUT" \in Reason
          /\ pc["user"] \notin Queued
        BY <1>7 DEF FinishTimeout, Reason, Queued
    <2> QED
        BY <1>1, <2>1, ClosingMoves
<1> QED
    BY <1>3, <1>4, <1>5, <1>6, <1>7 DEF Writes, Finishes

LEMMA CancelsMoves ==
    ASSUME TypeOK, NEW t \in Cancellers \cup {"user"}, Cancels(t) PROVE Moves(t)
<1> DEFINE s == [session EXCEPT !.ending = TRUE, !.cancelled = TRUE]
<1>1. /\ t \in Task /\ session \in Session /\ s \in Session /\ "CANCELLED" \in Reason
      /\ {"done", "openwait"} \subseteq Location \ (Queued \cup {"sent"})
    BY Tasks, TypeParts DEF Session, Reason, Location, Queued
<1>2. pc[t] \notin Queued
    BY DEF Cancels, CancelCall, CancelJoin, CancelGiveUp, Queued
<1>3. \/ /\ UNCHANGED <<call, lock>>
         /\ Suspend(t, "done") \/ Suspend(t, "openwait")
      \/ SendClose(t, "CANCELLED", s) \/ SendClose(t, "CANCELLED", session)
    BY DEF Cancels, CancelCall, CancelJoin, CancelGiveUp
<1> HIDE DEF s
<1> QED
    BY <1>1, <1>2, <1>3, SuspendMoves, ClosingMoves

LEMMA ReaderMoves ==
    ASSUME TypeOK, ReaderSteps \/ ConnClose \/ ConnLost \/ TvAnswer \/ TvAck \/ TvClose
                   \/ Terminated \/ UNCHANGED vars
    PROVE  Moves("reader") /\ (pc'["reader"] = pc["reader"] \/ pc["reader"] = "idle")
<1>1. /\ "reader" \in Task /\ session \in Session /\ "NORMAL" \in Reason
      /\ "idle" \in Location \ (Queued \cup {"sent"})
    BY Tasks, TypeParts DEF Reason, Location, Queued
<1>2. CASE ReaderSteps
    <2>1. /\ pc["reader"] = "idle"
          /\ \/ Suspend("reader", "idle") /\ UNCHANGED <<call, lock>>
             \/ SendClose("reader", "NORMAL", session)
        BY <1>2 DEF ReaderSteps, ReaderResponse, ReaderAck, ReaderClose, Reads
    <2>2. pc["reader"] \notin Queued
        BY <2>1 DEF Queued
    <2> QED
        BY <1>1, <2>1, <2>2, SuspendMoves, ClosingMoves
<1>3. CASE ConnClose
    <2>1. /\ UNCHANGED <<call, lock>>
          /\ pc' = [pc EXCEPT !["reader"] = IF @ = "idle" THEN "stopped" ELSE @]
        BY <1>3 DEF ConnClose
    <2>2. /\ \A r \in Task : r # "reader" => pc'[r] = pc[r]
          /\ \/ pc'["reader"] = pc["reader"]
             \/ pc["reader"] = "idle" /\ pc'["reader"] = "stopped"
        BY <1>1, <2>1, TypeParts
    <2> QED
        BY <2>1, <2>2 DEF Moves, Rests, Walks, Queue, Queued
<1>4. CASE ConnLost \/ TvAnswer \/ TvAck \/ TvClose \/ Terminated \/ UNCHANGED vars
    <2>1. UNCHANGED <<pc, call, lock>>
        BY <1>4 DEF ConnLost, TvAnswer, TvAck, TvClose, TvStep, Terminated, vars
    <2> QED
        BY <2>1 DEF Moves, Rests, Queue
<1> QED
    BY <1>2, <1>3, <1>4

\* The user's task gives up where it waits: its send of a close that cancel()
\* asks for is shielded.
LEMMA AbortMoves ==
    ASSUME TypeOK, UserAbort
    PROVE  \/ /\ Moves("user") /\ pc'["user"] = "cancel"
              /\ pc["user"] = "send" => call["user"] # CloseMessage("CANCELLED")
           \/ /\ pc["user"] = "join" /\ UNCHANGED <<call, lock, session, wire, conn>>
              /\ \A r \in Task : r # "open" => pc'[r] = pc[r]
              /\ \/ pc["open"] = "begin" /\ pc'["open"] = "raised"
                 \/ pc["open"] # "begin" /\ pc'["open"] = "cancelled"
<1>1. "user" \in Task /\ "open" \in Task /\ call' = call /\ UNCHANGED <<wire, conn>>
    BY Tasks DEF UserAbort
<1>2. CASE /\ ReleaseAll("user") /\ pc' = [pc EXCEPT !["user"] = "cancel"]
           /\ (pc["user"] \in {"send", "drain"} /\ call["user"].type = "close")
                  => call["user"].reason = "TIMEOUT"
    <2>1. pc'["user"] = "cancel" /\ \A r \in Task : r # "user" => pc'[r] = pc[r]
        BY <1>1, <1>2, TypeParts
    <2>2. Queue' = Leave(Queue, "user")
        BY <1>1, <1>2, LeftAll DEF Queue
    <2> QED
        BY <1>1, <1>2, <2>1, <2>2 DEF Moves, Quits, Queued, CloseMessage
<1>3. CASE /\ pc["user"] = "join" /\ UNCHANGED <<lock, session>>
           /\ pc' = [pc EXCEPT !["open"] = IF @ = "begin" THEN "raised" ELSE "cancelled"]
    BY <1>1, <1>3, TypeParts
<1> QED
    BY <1>2, <1>3 DEF UserAbort

LEMMA AbortedMoves ==
    ASSUME TypeOK, NEW t \in Cancellers, CancelAbort(t) PROVE Moves(t)
<1>1. /\ pc'[t] \in {"unsent", "done"} /\ Queue' = Leave(Queue, t) /\ call' = call
      /\ \A r \in Task : r # t => pc'[r] = pc[r]
    BY Aborted DEF Queue
<1> QED
    BY <1>1 DEF Moves, Quits, Queued

\* A flush sends an event.
LEMMA EventMoves ==
    ASSUME TypeOK, NEW t \in {"open", "user"}, FlushEvent(t) \/ FlushEos(t)
    PROVE  Moves(t) /\ Joins(t)
<1>1. t \in Task /\ pc[t] = "flush"
    BY Tasks DEF FlushEvent, FlushEos
<1>2. \E m \in Message : Sending(t, m)
    BY <1>1, EventSent, EosSent
<1> QED
    BY <1>1, <1>2, SendingMoves DEF Queued
-----------------------------------------------------------------------------
(* A task is in the queue of the send lock only while it sends.            *)

QueueInv ==
    \A t \in Task :
        /\ Once(Queue, t)
        /\ \A i \in 1..Len(Queue) : Queue[i] = t => pc[t] \in Queued

LEMMA QueueKept ==
    ASSUME TypeOK, QueueInv, NEW t \in Task, Moves(t) PROVE QueueInv'
<1>1. Queue \in Seq(Task)
    BY TypeParts DEF Queue
<1>2. CASE Rests(t) \/ Walks(t)
    BY <1>2 DEF QueueInv, Moves, Rests, Walks, Once
<1>3. CASE Joins(t)
    <2>1. /\ Queue' = Append(Queue, t) /\ Len(Queue') = Len(Queue) + 1
          /\ Queue'[Len(Queue) + 1] = t
          /\ \A i \in 1..Len(Queue) : Queue'[i] = Queue[i] /\ Queue'[i] # t
        BY <1>1, <1>3 DEF Joins, QueueInv
    <2> DEFINE n == Len(Queue)
    <2>2. n \in Nat /\ \A i \in 1..n + 1 : i \in 1..n \/ i = n + 1
        BY <1>1
    <2> HIDE DEF n
    <2>3. ASSUME NEW r \in Task, NEW i \in 1..n + 1, NEW j \in 1..n + 1,
                 Queue'[i] = r, Queue'[j] = r
          PROVE  i = j
        BY <2>1, <2>2, <2>3 DEF QueueInv, Once, n
    <2>4. ASSUME NEW r \in Task, NEW i \in 1..n + 1, Queue'[i] = r
          PROVE  pc'[r] \in Queued
        BY <1>3, <2>1, <2>2, <2>4 DEF QueueInv, Joins, Moves, Queued, n
    <2> QED
        BY <2>1, <2>3, <2>4 DEF QueueInv, Once, n
<1>4. CASE Quits(t)
    <2>1. \A r \in Task : Once(Queue, r)
        BY DEF QueueInv
    <2>2. \A r \in Task : Once(Leave(Queue, t), r)
        BY <1>1, <2>1, LeaveOnce
    <2>3. ASSUME NEW r \in Task, NEW i \in 1..Len(Leave(Queue, t)),
                 Leave(Queue, t)[i] = r
          PROVE  pc'[r] \in Queued
        <3>1. r # t /\ \E k \in 1..Len(Queue) : Queue[k] = r
            BY <1>1, <2>1, <2>3, LeaveOnce
        <3> QED
            BY <3>1 DEF QueueInv, Moves
    <2> QED
        BY <1>4, <2>2, <2>3 DEF QueueInv, Quits, Once
<1> QED
    BY <1>2, <1>3, <1>4 DEF Moves

\* A message is written, and its sender waits for the drain or goes on.
LEMMA TransmitMoves ==
    ASSUME TypeOK, NEW t \in Task, Transmit(t)
    PROVE  /\ \A r \in Task : r # t => pc'[r] = pc[r]
           /\ pc'[t] \in {"drain", "sent", "failed"}
           /\ \/ pc'[t] = "drain" /\ Queue' = Queue
              \/ Queue' = Leave(Queue, t)
           /\ UNCHANGED <<call, session, conn>>
<1>1. \/ Release(t, "send") /\ (Continue(t, "failed") \/ Continue(t, "sent"))
      \/ Suspend(t, "drain") /\ UNCHANGED lock
    BY DEF Transmit
<1>2. UNCHANGED <<call, session, conn>>
    BY DEF Transmit
<1> QED
    BY <1>1, <1>2, Moved, Left DEF Location, Queue

LEMMA QueueStep == TypeOK /\ QueueInv /\ [Next]_vars => QueueInv'
<1> SUFFICES ASSUME TypeOK, QueueInv, [Next]_vars PROVE QueueInv'
    OBVIOUS
<1>1. "open" \in Task /\ "user" \in Task /\ "reader" \in Task
    BY Tasks
<1>2. ASSUME NEW t \in Task, Transmit(t) PROVE QueueInv'
    <2>1. pc[t] = "send"
        BY <1>2 DEF Transmit
    <2>2. CASE Queue' = Queue /\ pc'[t] = "drain"
        BY <1>2, <2>1, <2>2, TransmitMoves DEF QueueInv, Queued, Once
    <2>3. CASE Queue' = Leave(Queue, t)
        <3>1. \A r \in Task : Once(Queue, r)
            BY DEF QueueInv
        <3>2. Queue \in Seq(Task)
            BY TypeParts DEF Queue
        <3>3. \A r \in Task : Once(Leave(Queue, t), r)
            BY <3>1, <3>2, LeaveOnce
        <3>4. ASSUME NEW r \in Task, NEW i \in 1..Len(Leave(Queue, t)),
                     Leave(Queue, t)[i] = r
              PROVE  pc'[r] \in Queued
            <4>1. r # t /\ \E k \in 1..Len(Queue) : Queue[k] = r
                BY <3>1, <3>2, <3>4, LeaveOnce
            <4> QED
                BY <1>2, <4>1, TransmitMoves DEF QueueInv
        <3> QED
            BY <2>3, <3>3, <3>4 DEF QueueInv, Once
    <2> QED
        BY <1>2, <2>2, <2>3, TransmitMoves
<1>3. ASSUME NEW t \in Task, Sends(t) PROVE QueueInv'
    BY <1>2, <1>3, SendsMoves, QueueKept DEF Sends
<1>4. ASSUME NEW t \in {"open", "user"}, Flushes(t) PROVE QueueInv'
    BY <1>1, <1>4, FlushesMoves, EventMoves, QueueKept DEF Flushes
<1>5. ASSUME NEW t \in Cancellers \cup {"user"}, Cancels(t) PROVE QueueInv'
    BY <1>5, CancelsMoves, QueueKept, Tasks
<1>6. CASE UserAbort
    <2>1. CASE /\ lock' = lock /\ \A r \in Task : r # "open" => pc'[r] = pc[r]
               /\ \/ pc["open"] = "begin" /\ pc'["open"] = "raised"
                  \/ pc["open"] # "begin" /\ pc'["open"] = "cancelled"
        BY <1>1, <2>1 DEF QueueInv, Queue, Queued, Once
    <2> QED
        BY <1>1, <1>6, <2>1, AbortMoves, QueueKept
<1>7. ASSUME NEW t \in Cancellers, CancelAbort(t) PROVE QueueInv'
    BY <1>7, AbortedMoves, QueueKept, Tasks
<1> QED
    BY <1>1, <1>3, <1>4, <1>5, <1>6, <1>7, OpensMoves, UserMoves, ReaderMoves, QueueKept
    DEF Next

-----------------------------------------------------------------------------
(* A task is in the queue of the io lock only while it waits for it or     *)
(* flushes.                                                                *)

InIo(t) == pc[t] \in WaitingForLock \cup {"cancelled"} \/ InFlush(t)

IoQueue == lock["io"]

IoInv ==
    \A t \in Task :
        /\ Once(IoQueue, t)
        /\ \A i \in 1..Len(IoQueue) : IoQueue[i] = t => InIo(t)

\* A step of t queues it only where it waits, and takes it out when it leaves.
Orderly(t) ==
    /\ \A r \in Task : r # t => pc'[r] = pc[r] /\ call'[r] = call[r]
    /\ \/ IoQueue' = IoQueue /\ (InIo(t) => InIo(t)')
       \/ IoQueue' = Append(IoQueue, t) /\ ~InIo(t) /\ InIo(t)'
       \/ IoQueue' = Leave(IoQueue, t)

LEMMA IoKept ==
    ASSUME TypeOK, IoInv, NEW t \in Task, Orderly(t) PROVE IoInv'
<1>1. IoQueue \in Seq(Task) /\ \A r \in Task : Once(IoQueue, r)
    BY TypeParts DEF IoQueue, IoInv
<1>2. \A r \in Task : r # t => (InIo(r) <=> InIo(r)')
    BY DEF Orderly, InIo, InFlush
<1>3. CASE IoQueue' = IoQueue /\ (InIo(t) => InIo(t)')
    BY <1>2, <1>3 DEF IoInv, Once
<1>4. CASE IoQueue' = Append(IoQueue, t) /\ ~InIo(t) /\ InIo(t)'
    <2> DEFINE n == Len(IoQueue)
    <2>1. /\ n \in Nat /\ Len(IoQueue') = n + 1 /\ IoQueue'[n + 1] = t
          /\ \A i \in 1..n : IoQueue'[i] = IoQueue[i] /\ IoQueue'[i] # t
          /\ \A i \in 1..n + 1 : i \in 1..n \/ i = n + 1
        BY <1>1, <1>4 DEF IoInv
    <2> HIDE DEF n
    <2>2. ASSUME NEW r \in Task, NEW i \in 1..n + 1, NEW j \in 1..n + 1,
                 IoQueue'[i] = r, IoQueue'[j] = r
          PROVE  i = j
        BY <1>1, <2>1, <2>2 DEF Once, n
    <2>3. ASSUME NEW r \in Task, NEW i \in 1..n + 1, IoQueue'[i] = r
          PROVE  InIo(r)'
        BY <1>2, <1>4, <2>1, <2>3 DEF IoInv, n
    <2> QED
        BY <2>1, <2>2, <2>3 DEF IoInv, Once
<1>5. CASE IoQueue' = Leave(IoQueue, t)
    <2>1. \A r \in Task : Once(Leave(IoQueue, t), r)
        BY <1>1, LeaveOnce
    <2>2. ASSUME NEW r \in Task, NEW i \in 1..Len(Leave(IoQueue, t)),
                 Leave(IoQueue, t)[i] = r
          PROVE  InIo(r)'
        <3>1. r # t /\ \E k \in 1..Len(IoQueue) : IoQueue[k] = r
            BY <1>1, <2>2, LeaveOnce
        <3> QED
            BY <1>2, <3>1 DEF IoInv
    <2> QED
        BY <1>5, <2>1, <2>2 DEF IoInv, Once
<1> QED
    BY <1>3, <1>4, <1>5 DEF Orderly

\* Where a task neither waits for the io lock nor flushes.
Outside == Location \ (WaitingForLock \cup {"cancelled", "flush", "send", "drain",
                                            "sent", "failed"})

LEMMA OutsideIo ==
    ASSUME NEW t \in Task, pc[t] \in Outside PROVE ~InIo(t)
BY DEF Outside, InIo, InFlush

LEMMA OrderlyWalk ==
    ASSUME TypeOK, NEW t \in Task, NEW l \in Location, Suspend(t, l) \/ Continue(t, l),
           call' = call, lock' = lock \/ Release(t, "send"), ~InIo(t)
    PROVE  Orderly(t)
<1>1. IoQueue' = IoQueue
    BY Left DEF IoQueue
<1> QED
    BY <1>1, Moved DEF Orderly

LEMMA OrderlyExit ==
    ASSUME TypeOK, NEW t \in Task, NEW l \in Location, Suspend(t, l) \/ Continue(t, l),
           call' = call, Release(t, "io") \/ ReleaseAll(t)
    PROVE  Orderly(t)
<1>1. IoQueue' = Leave(IoQueue, t)
    BY Left, LeftAll DEF IoQueue
<1> QED
    BY <1>1, Moved DEF Orderly

LEMMA OrderlyQueue ==
    ASSUME TypeOK, NEW t \in Task, NEW l \in WaitingForLock, Acquire(t, "io", l),
           call' = call, ~InIo(t)
    PROVE  Orderly(t)
<1>1. l \in Location
    BY DEF WaitingForLock, Location
<1> QED
    BY <1>1, Acquired DEF Orderly, IoQueue, InIo

LEMMA OrderlyClose ==
    ASSUME TypeOK, NEW t \in Task, NEW reason \in Reason, NEW s \in Session,
           SendClose(t, reason, s), ~InIo(t)
    PROVE  Orderly(t)
<1>1. /\ \A r \in Task : r # t => pc'[r] = pc[r] /\ call'[r] = call[r]
      /\ IoQueue' = IoQueue
    BY Closing DEF Sending, Walking, IoQueue
<1> QED
    BY <1>1 DEF Orderly

LEMMA OrderlyEntry ==
    ASSUME TypeOK, NEW t \in {"open", "user"}, NEW force \in BOOLEAN, NEW s \in Session,
           EnterFlush(t, force, s), call' = call
    PROVE  Orderly(t)
<1>1. t \in Task
    BY Tasks
<1>2. CASE Release(t, "io") /\ Suspend(t, AfterFlush(t, force))
    <2>1. AfterFlush(t, force) \in Location
        BY DEF AfterFlush, Location
    <2> QED
        BY <1>1, <1>2, <2>1, OrderlyExit
<1>3. CASE Continue(t, "flush") /\ UNCHANGED lock
    <2>1. "flush" \in Location
        BY DEF Location
    <2>2. InIo(t)'
        BY <1>1, <1>3, <2>1, Moved DEF InIo, InFlush
    <2> QED
        BY <1>1, <1>3, <2>1, <2>2, Moved DEF Orderly, IoQueue
<1> QED
    BY <1>2, <1>3 DEF EnterFlush

LEMMA OrderlySends ==
    ASSUME TypeOK, NEW t \in Task, Sends(t) PROVE Orderly(t)
<1> USE DEF Location
<1>1. CASE Transmit(t) \/ Drained(t)
    <2>1. /\ \A r \in Task : r # t => pc'[r] = pc[r]
          /\ pc[t] \in {"send", "drain"} /\ pc'[t] \in {"failed", "sent", "drain"}
          /\ call' = call
        BY <1>1, Moved DEF Transmit, Drained
    <2>2. IoQueue' = IoQueue
        BY <1>1, Left DEF Transmit, Drained, IoQueue
    <2> QED
        BY <2>1, <2>2 DEF Orderly, InIo, InFlush, WaitingForLock
<1>2. CASE CloseSent(t)
    <2>1. AfterClose(t) \in Location /\ ~InIo(t)
        BY <1>2 DEF AfterClose, CloseSent, InIo, InFlush, WaitingForLock
    <2> QED
        BY <1>2, <2>1, OrderlyWalk DEF CloseSent
<1>3. CASE SendFailed(t)
    <2>1. /\ \E l \in {"raised", "cancel", "stopped", AfterClose(t)} : Suspend(t, l)
          /\ call' = call /\ Release(t, "io")
        BY <1>3 DEF SendFailed
    <2>2. {"raised", "cancel", "stopped", AfterClose(t)} \subseteq Location
        BY DEF AfterClose
    <2> QED
        BY <2>1, <2>2, OrderlyExit
<1> QED
    BY <1>1, <1>2, <1>3 DEF Sends

LEMMA OrderlyFlushes ==
    ASSUME TypeOK, NEW t \in {"open", "user"}, Flushes(t) PROVE Orderly(t)
<1>1. /\ t \in Task /\ AfterFlush(t, session.force) \in Location /\ "flush" \in Location
    BY Tasks DEF AfterFlush, Location
<1>2. CASE FlushEvent(t) \/ FlushEos(t)
    <2>1. Event.type = "data" /\ LastEvent.type = "data"
        BY DEF Event, LastEvent, DataMessage
    <2>2. \E m \in Message : Sending(t, m) /\ m.type = "data"
        BY <1>1, <1>2, <2>1, EventSent, EosSent
    <2>3. InIo(t)' /\ IoQueue' = IoQueue
        BY <2>2 DEF Sending, InIo, InFlush, IoQueue
    <2> QED
        BY <2>2, <2>3 DEF Orderly, Sending
<1>3. CASE FlushEnd(t) \/ (FlushSent(t) /\ call[t].eos)
    BY <1>1, <1>3, OrderlyExit DEF FlushEnd, FlushSent
<1>4. CASE FlushSent(t) /\ ~call[t].eos
    <2>1. /\ pc'[t] = "flush" /\ \A r \in Task : r # t => pc'[r] = pc[r]
          /\ UNCHANGED <<call, lock>>
        BY <1>1, <1>4, Moved DEF FlushSent
    <2> QED
        BY <2>1 DEF Orderly, InIo, InFlush, IoQueue
<1> QED
    BY <1>2, <1>3, <1>4 DEF Flushes

LEMMA OrderlyOpens == ASSUME TypeOK, Opens PROVE Orderly("open")
<1> USE DEF Location
<1>1. "open" \in Task /\ "open" \in {"open", "user"}
    BY Tasks
<1>2. CASE OpenBegin
    <2>1. Sending("open", OpenMessage) /\ ~InIo("open")
        BY <1>1, <1>2, SendStarts DEF OpenBegin, Message, InIo, InFlush, WaitingForLock
    <2> QED
        BY <2>1 DEF Orderly, Sending, IoQueue
<1>3. CASE OpenSent
    <2>1. /\ ~InIo("open") /\ UNCHANGED <<call, lock>>
          /\ \A r \in Task : r # "open" => pc'[r] = pc[r]
        BY <1>1, <1>3, TypeParts DEF OpenSent, InIo, InFlush, WaitingForLock
    <2> QED
        BY <2>1 DEF Orderly, IoQueue
<1>4. CASE OpenAccepted
    <2> DEFINE s == [session EXCEPT !.opened = TRUE, !.registered = TRUE]
    <2>1. s \in Session /\ "CANCELLED" \in Reason /\ ~InIo("open")
        BY <1>4, TypeParts
        DEF OpenAccepted, Session, Reason, InIo, InFlush, WaitingForLock
    <2>2. \/ SendClose("open", "CANCELLED", s)
          \/ Acquire("open", "io", "openlock") /\ call' = call
        BY <1>4 DEF OpenAccepted
    <2> HIDE DEF s
    <2>3. "openlock" \in WaitingForLock
        BY DEF WaitingForLock
    <2> QED
        BY <1>1, <2>1, <2>2, <2>3, OrderlyClose, OrderlyQueue
<1>5. CASE OpenRefused \/ OpenTimeout
    <2>1. /\ Suspend("open", "raised") /\ UNCHANGED <<call, lock>> /\ ~InIo("open")
        BY <1>5 DEF OpenRefused, OpenTimeout, InIo, InFlush, WaitingForLock
    <2> QED
        BY <1>1, <2>1, OrderlyWalk
<1>6. CASE OpenFlush
    <2>1. session \in Session /\ session.ending \in BOOLEAN
        BY TypeParts DEF Session
    <2> QED
        BY <1>1, <1>6, <2>1, OrderlyEntry DEF OpenFlush
<1>7. CASE OpenCancelled
    BY <1>1, <1>7, OrderlyExit DEF OpenCancelled
<1>8. CASE OpenUnregistered
    <2>1. ~InIo("open")
        BY <1>8 DEF OpenUnregistered, InIo, InFlush, WaitingForLock
    <2> QED
        BY <1>1, <1>8, <2>1, Unregistered, OrderlyWalk
<1> QED
    BY <1>2, <1>3, <1>4, <1>5, <1>6, <1>7, <1>8 DEF Opens

LEMMA OrderlyUser == ASSUME TypeOK, Writes \/ Finishes PROVE Orderly("user")
<1> USE DEF Location
<1>1. "user" \in Task /\ "user" \in {"open", "user"} /\ session \in Session
    BY Tasks, TypeParts
<1>2. CASE WriteCall \/ FinishCall \/ FinishJoin \/ FinishReturn
    <2>1. /\ call' = call /\ pc["user"] \in Outside
          /\ \/ /\ lock' = lock
                /\ Suspend("user", "cancel") \/ Suspend("user", "returned")
             \/ \E l \in {"writelock", "endlock", "eoslock"} : Acquire("user", "io", l)
        BY <1>2
        DEF WriteCall, FinishCall, FinishJoin, FinishReturn, Conclude, Outside, WaitingForLock
    <2>2. {"writelock", "endlock", "eoslock"} \subseteq WaitingForLock
        BY DEF WaitingForLock
    <2> QED
        BY <1>1, <2>1, <2>2, OutsideIo, OrderlyWalk, OrderlyQueue
<1>3. CASE WriteBody
    <2>1. /\ call' = call
          /\ \/ Release("user", "io") /\ Suspend("user", "cancel")
             \/ \E n \in ChunkSizes : EnterFlush("user", FALSE, Framed(session, n))
        BY <1>3 DEF WriteBody
    <2>2. FALSE \in BOOLEAN /\ \A n \in ChunkSizes : Framed(session, n) \in Session
        BY <1>1, Framing, AudioAssumption
    <2> QED
        BY <1>1, <2>1, <2>2, OrderlyExit, OrderlyEntry
<1>4. CASE FinishEnding
    <2>1. /\ call' = call /\ Release("user", "io")
          /\ \A r \in Task : r # "user" => pc'[r] = pc[r]
        BY <1>1, <1>4, TypeParts DEF FinishEnding
    <2> QED
        BY <1>1, <2>1, Left DEF Orderly, IoQueue
<1>5. CASE FinishEos
    BY <1>1, <1>5, OrderlyEntry DEF FinishEos
<1>6. CASE FinishTimeout
    <2>1. /\ SendClose("user", "TIMEOUT", session) /\ "TIMEOUT" \in Reason
          /\ ~InIo("user")
        BY <1>6 DEF FinishTimeout, Reason, InIo, InFlush, WaitingForLock
    <2> QED
        BY <1>1, <2>1, OrderlyClose
<1> QED
    BY <1>2, <1>3, <1>4, <1>5, <1>6 DEF Writes, Finishes

LEMMA OrderlyCancels ==
    ASSUME TypeOK, NEW t \in Cancellers \cup {"user"}, Cancels(t) PROVE Orderly(t)
<1> DEFINE s == [session EXCEPT !.ending = TRUE, !.cancelled = TRUE]
<1>1. /\ t \in Task /\ session \in Session /\ s \in Session /\ "CANCELLED" \in Reason
      /\ "done" \in Location /\ "openwait" \in Location
    BY Tasks, TypeParts DEF Session, Reason, Location
<1>2. ~InIo(t)
    BY DEF Cancels, CancelCall, CancelJoin, CancelGiveUp, InIo, InFlush, WaitingForLock
<1>3. \/ /\ UNCHANGED <<call, lock>>
         /\ Suspend(t, "done") \/ Suspend(t, "openwait")
      \/ SendClose(t, "CANCELLED", s) \/ SendClose(t, "CANCELLED", session)
    BY DEF Cancels, CancelCall, CancelJoin, CancelGiveUp
<1> HIDE DEF s
<1> QED
    BY <1>1, <1>2, <1>3, OrderlyWalk, OrderlyClose

LEMMA OrderlyReader ==
    ASSUME TypeOK, ReaderSteps \/ ConnClose PROVE Orderly("reader")
<1>1. /\ "reader" \in Task /\ session \in Session /\ "NORMAL" \in Reason
      /\ "idle" \in Location
    BY Tasks, TypeParts DEF Reason, Location
<1>2. CASE ReaderSteps
    <2>1. /\ ~InIo("reader")
          /\ \/ Suspend("reader", "idle") /\ UNCHANGED <<call, lock>>
             \/ SendClose("reader", "NORMAL", session)
        BY <1>2 DEF ReaderSteps, ReaderResponse, ReaderAck, ReaderClose, Reads,
                    InIo, InFlush, WaitingForLock
    <2> QED
        BY <1>1, <2>1, OrderlyWalk, OrderlyClose
<1>3. CASE ConnClose
    <2>1. /\ UNCHANGED <<call, lock>> /\ \A r \in Task : r # "reader" => pc'[r] = pc[r]
          /\ pc'["reader"] = pc["reader"] \/ pc["reader"] = "idle"
        BY <1>1, <1>3, TypeParts DEF ConnClose
    <2> QED
        BY <2>1 DEF Orderly, InIo, InFlush, IoQueue, WaitingForLock
<1> QED
    BY <1>2, <1>3

LEMMA IoStep == TypeOK /\ IoInv /\ [Next]_vars => IoInv'
<1> SUFFICES ASSUME TypeOK, IoInv, [Next]_vars PROVE IoInv'
    OBVIOUS
<1>1. "open" \in Task /\ "user" \in Task /\ "reader" \in Task
    BY Tasks
<1>2. CASE UNCHANGED <<pc, call, lock>>
    BY <1>2 DEF IoInv, IoQueue, InIo, InFlush, Once
<1>3. CASE ConnLost \/ TvAnswer \/ TvAck \/ TvClose \/ Terminated \/ UNCHANGED vars
    BY <1>2, <1>3 DEF ConnLost, TvAnswer, TvAck, TvClose, TvStep, Terminated, vars
<1>4. CASE UserAbort
    <2>1. CASE ReleaseAll("user") /\ pc' = [pc EXCEPT !["user"] = "cancel"]
        <3>1. /\ \A r \in Task : r # "user" => pc'[r] = pc[r]
              /\ call' = call /\ IoQueue' = Leave(IoQueue, "user")
            BY <1>1, <1>4, <2>1, TypeParts, LeftAll DEF UserAbort, IoQueue
        <3> QED
            BY <1>1, <3>1, IoKept DEF Orderly
    <2>2. CASE lock' = lock /\ pc' = [pc EXCEPT !["open"] = IF @ = "begin" THEN "raised"
                                                           ELSE "cancelled"]
        <3>1. /\ \A r \in Task : r # "open" => pc'[r] = pc[r]
              /\ pc["open"] = "begin" \/ pc'["open"] = "cancelled"
              /\ call' = call
            BY <1>1, <1>4, <2>2, TypeParts DEF UserAbort
        <3> QED
            BY <1>1, <2>2, <3>1, IoKept DEF Orderly, IoQueue, InIo, InFlush, WaitingForLock
    <2> QED
        BY <1>4, <2>1, <2>2 DEF UserAbort
<1>5. ASSUME NEW t \in Task, Sends(t) PROVE IoInv'
    BY <1>5, OrderlySends, IoKept
<1>6. ASSUME NEW t \in {"open", "user"}, Flushes(t) PROVE IoInv'
    BY <1>1, <1>6, OrderlyFlushes, IoKept
<1>7. ASSUME NEW t \in Cancellers \cup {"user"}, Cancels(t) PROVE IoInv'
    BY <1>7, OrderlyCancels, IoKept, Tasks
<1>8. CASE Opens \/ Writes \/ Finishes \/ ReaderSteps \/ ConnClose
    BY <1>1, <1>8, OrderlyOpens, OrderlyUser, OrderlyReader, IoKept
<1>9. ASSUME NEW t \in Cancellers, CancelAbort(t) PROVE IoInv'
    <2>1. /\ t \in Task /\ \A r \in Task : r # t => pc'[r] = pc[r]
          /\ call' = call /\ IoQueue' = Leave(IoQueue, t)
        BY <1>9, Aborted DEF IoQueue
    <2> QED
        BY <2>1, IoKept DEF Orderly
<1> QED
    BY <1>3, <1>4, <1>5, <1>6, <1>7, <1>8, <1>9 DEF Next

\* No lock is leaked and the two locks are always taken in the same order, on
\* every way out of write(), finish(), cancel() and _open, the exceptions and
\* the cancellations of their tasks included.
THEOREM LocksAreGivenBack == Spec => []LocksGivenBack
<1>1. Init => QueueInv /\ IoInv
    BY DEF Init, QueueInv, IoInv, Queue, IoQueue, Once
<1>2. TypeOK /\ QueueInv /\ IoInv => LocksGivenBack
    <2> SUFFICES ASSUME TypeOK, QueueInv, IoInv PROVE LocksGivenBack
        OBVIOUS
    <2>1. Queue \in Seq(Task) /\ IoQueue \in Seq(Task)
        BY TypeParts DEF Queue, IoQueue
    <2>2. \A q \in Seq(Task) : \A t \in ToSet(q) : t \in Task /\ \E i \in 1..Len(q) : q[i] = t
        BY DEF ToSet
    <2> QED
        BY <2>1, <2>2 DEF LocksGivenBack, QueueInv, IoInv, InIo, Queue, IoQueue, Queued
<1>3. TypeOK /\ (QueueInv /\ IoInv) /\ [Next]_vars => (QueueInv /\ IoInv)'
    BY QueueStep, IoStep
<1> QED
    BY <1>1, <1>2, <1>3, TypeCorrect, PTL DEF Spec

-----------------------------------------------------------------------------
(* What comes after a close in the queue stays after it.                   *)

\* The tasks whose close, asked for by cancel(), waits for the send lock.
Closers == {c \in Task : pc[c] = "send" /\ call[c] = CloseMessage("CANCELLED")}

Warned == Ahead(Queue, Closers, Len(Queue))

Behind(t) == \A j \in 1..Len(Queue) : Queue[j] = t => Ahead(Queue, Closers, j - 1)

LEMMA ClosersKept ==
    ASSUME NEW t \in Task, t \notin Closers \/ Rests(t),
           \A r \in Task : r # t => pc'[r] = pc[r] /\ call'[r] = call[r]
    PROVE  Closers \subseteq Closers'
BY DEF Closers, Rests

LEMMA WarnedKept ==
    ASSUME TypeOK, NEW t \in Task, t \notin Closers \/ Rests(t),
           \A r \in Task : r # t => pc'[r] = pc[r] /\ call'[r] = call[r],
           Queue' \in {Queue, Append(Queue, t), Leave(Queue, t)}
    PROVE  /\ Warned => Warned'
           /\ \A r \in Task : r # t /\ Behind(r) => Behind(r)'
<1>1. Queue \in Seq(Task) /\ Closers \subseteq Closers'
    BY ClosersKept, TypeParts DEF Queue
<1>2. \A q, n : Ahead(q, Closers, n) => Ahead(q, Closers', n)
    BY <1>1 DEF Ahead
<1>3. CASE Queue' = Queue
    BY <1>2, <1>3 DEF Warned, Behind
<1>4. CASE Queue' = Append(Queue, t)
    <2>1. /\ Len(Queue') = Len(Queue) + 1 /\ Queue'[Len(Queue) + 1] = t
          /\ \A i \in 1..Len(Queue) : Queue'[i] = Queue[i]
        BY <1>1, <1>4
    <2> DEFINE n == Len(Queue)
    <2>2. n \in Nat /\ \A i \in 1..n + 1 : i \in 1..n \/ i = n + 1
        BY <1>1
    <2>3. ASSUME NEW k \in 0..n, Ahead(Queue, Closers, k)
          PROVE  Ahead(Queue', Closers', k)
        <3>1. PICK i \in 1..k : Queue[i] \in Closers
            BY <2>3 DEF Ahead
        <3>2. i \in 1..n /\ Queue'[i] \in Closers'
            BY <1>1, <2>1, <2>2, <3>1
        <3> QED
            BY <3>2 DEF Ahead
    <2> HIDE DEF n
    <2>4. Warned => Warned'
        <3>1. ASSUME Ahead(Queue', Closers', n) PROVE Warned'
            BY <2>1, <2>2, <3>1 DEF Warned, Ahead, n
        <3> QED
            BY <2>2, <2>3, <3>1 DEF Warned, n
    <2>5. ASSUME NEW r \in Task, r # t, Behind(r) PROVE Behind(r)'
        <3>1. ASSUME NEW j \in 1..n + 1, Queue'[j] = r
              PROVE  Ahead(Queue', Closers', j - 1)
            <4>1. j \in 1..n /\ Queue[j] = r /\ j - 1 \in 0..n
                BY <2>1, <2>2, <2>5, <3>1 DEF n
            <4> QED
                BY <2>3, <2>5, <4>1 DEF Behind, n
        <3> QED
            BY <2>1, <3>1 DEF Behind, n
    <2> QED
        BY <2>4, <2>5
<1>5. CASE Queue' = Leave(Queue, t) /\ t \notin Closers
    <2> DEFINE q == Leave(Queue, t)
    <2>1. Queue' = q
        BY <1>5
    <2>2. /\ Ahead(Queue, Closers, Len(Queue)) => Ahead(q, Closers, Len(q))
          /\ \A j \in 1..Len(q) : \E k \in 1..Len(Queue) :
                 /\ q[j] = Queue[k]
                 /\ Ahead(Queue, Closers, k - 1) => Ahead(q, Closers, j - 1)
        BY <1>1, <1>5, LeaveAhead
    <2> HIDE DEF q
    <2> QED
        BY <1>2, <2>1, <2>2 DEF Warned, Behind
<1> QED
    BY <1>3, <1>4, <1>5 DEF Rests

LEMMA JoinsBehind ==
    ASSUME TypeOK, QueueInv, NEW t \in Task, Moves(t), Joins(t)
    PROVE  /\ Warned => Behind(t)'
           /\ call'[t] = CloseMessage("CANCELLED") => Warned'
<1>1. Queue \in Seq(Task) /\ t \notin Closers /\ Closers \subseteq Closers'
    BY ClosersKept, TypeParts DEF Queue, Moves, Joins, Queued, Closers
<1>2. /\ Len(Queue') = Len(Queue) + 1 /\ Queue'[Len(Queue) + 1] = t
      /\ \A i \in 1..Len(Queue) : Queue'[i] = Queue[i] /\ Queue[i] # t
    BY <1>1 DEF Joins, QueueInv
<1> DEFINE n == Len(Queue)
<1>3. n \in Nat /\ (\A i \in 1..n + 1 : i \in 1..n \/ i = n + 1) /\ n + 1 - 1 = n
    BY <1>1
<1> HIDE DEF n
<1>4. Warned => Ahead(Queue', Closers', n)
    BY <1>1, <1>2 DEF Warned, Ahead, n
<1>5. \A j \in 1..n + 1 : Queue'[j] = t => j = n + 1
    BY <1>2, <1>3 DEF n
<1>6. Warned => Behind(t)'
    BY <1>2, <1>3, <1>4, <1>5 DEF Behind, n
<1>7. ASSUME call'[t] = CloseMessage("CANCELLED") PROVE Warned'
    <2>1. t \in Closers' /\ n + 1 \in 1..n + 1 /\ Queue'[n + 1] = t /\ Len(Queue') = n + 1
        BY <1>2, <1>3, <1>7 DEF Closers, Joins, n
    <2> QED
        BY <2>1 DEF Warned, Ahead
<1> QED
    BY <1>6, <1>7

-----------------------------------------------------------------------------
(* The fields of the session that most steps leave alone.                  *)

Settled ==
    /\ session'.pcm = session.pcm /\ session'.written = session.written
    /\ session'.ending = session.ending /\ session'.cancelled = session.cancelled
    /\ session'.opened = session.opened /\ session'.registered = session.registered
    /\ session'.closeSent = session.closeSent

LEMMA SettledEnd ==
    ASSUME session \in Session, session' \in {session, Fail(session), MarkDone(session)}
    PROVE  Settled
BY DEF Settled, Fail, MarkDone, Session

LEMMA SettledSends ==
    ASSUME TypeOK, NEW t \in Task, Transmit(t) \/ Drained(t) \/ SendFailed(t)
    PROVE  Settled
<1>1. session' \in {session, Fail(session), MarkDone(session)}
    BY DEF Transmit, Drained, SendFailed
<1> QED
    BY <1>1, TypeParts, SettledEnd

LEMMA SettledFlushes ==
    ASSUME TypeOK, NEW t \in {"open", "user"}, Flushes(t) PROVE Settled
<1>1. t \in Task /\ session \in Session
    BY Tasks, TypeParts
<1>2. CASE FlushEvent(t)
    BY <1>1, <1>2, EventSent DEF Settled, Session
<1>3. CASE FlushEos(t) \/ FlushEnd(t) \/ FlushSent(t)
    BY <1>1, <1>3 DEF FlushEos, FlushEnd, FlushSent, Settled, Session
<1> QED
    BY <1>2, <1>3 DEF Flushes

LEMMA SettledEntering ==
    ASSUME NEW t, NEW force \in BOOLEAN, EnterFlush(t, force, session), session \in Session
    PROVE  Settled
BY DEF EnterFlush, Settled, Session

LEMMA SettledOpens ==
    ASSUME TypeOK, \/ OpenBegin \/ OpenSent \/ OpenRefused \/ OpenTimeout
                   \/ OpenCancelled \/ OpenFlush
    PROVE  Settled
<1>1. session \in Session /\ session.ending \in BOOLEAN
    BY TypeParts DEF Session
<1>2. CASE OpenFlush
    BY <1>1, <1>2, SettledEntering DEF OpenFlush
<1>3. CASE OpenBegin \/ OpenSent \/ OpenRefused \/ OpenTimeout \/ OpenCancelled
    <2>1. session' \in {session, Fail(session)}
        BY <1>3 DEF OpenBegin, OpenSent, OpenRefused, OpenTimeout, OpenCancelled
    <2> QED
        BY <1>1, <2>1, SettledEnd
<1> QED
    BY <1>2, <1>3

LEMMA SettledUser ==
    ASSUME TypeOK, \/ WriteCall \/ FinishCall \/ FinishJoin \/ FinishEos
                   \/ FinishReturn \/ FinishTimeout \/ UserAbort
    PROVE  Settled
<1>1. "user" \in Task /\ session \in Session /\ "TIMEOUT" \in Reason /\ TRUE \in BOOLEAN
    BY Tasks, TypeParts DEF Reason
<1>2. CASE FinishEos
    BY <1>1, <1>2, SettledEntering DEF FinishEos
<1>3. CASE FinishTimeout
    BY <1>1, <1>3, Closing DEF FinishTimeout, SameButEnd, Settled
<1>4. CASE WriteCall \/ FinishCall \/ FinishJoin \/ FinishReturn \/ UserAbort
    <2>1. session' \in {session, Fail(session)}
        BY <1>4 DEF WriteCall, FinishCall, FinishJoin, FinishReturn, UserAbort
    <2> QED
        BY <1>1, <2>1, SettledEnd
<1> QED
    BY <1>2, <1>3, <1>4

LEMMA SettledCancels ==
    ASSUME TypeOK, NEW t \in Task, CancelJoin(t) \/ CancelGiveUp(t) PROVE Settled
<1>1. session \in Session /\ "CANCELLED" \in Reason
    BY TypeParts DEF Reason
<1>2. SendClose(t, "CANCELLED", session) \/ session' = session
    BY DEF CancelJoin, CancelGiveUp
<1> QED
    BY <1>1, <1>2, Closing DEF SameButEnd, Settled

LEMMA SettledReader ==
    ASSUME TypeOK, ReaderSteps \/ ConnClose \/ ConnLost \/ TvAnswer \/ TvAck \/ TvClose
                   \/ Terminated \/ UNCHANGED vars
    PROVE  Settled
<1>1. "reader" \in Task /\ session \in Session /\ "NORMAL" \in Reason
    BY Tasks, TypeParts DEF Reason
<1>2. \/ SendClose("reader", "NORMAL", session)
      \/ session' \in {session, Fail(session), MarkDone(session)}
    BY DEF ReaderSteps, ReaderResponse, ReaderAck, ReaderClose, ConnClose, ConnLost,
           TvAnswer, TvAck, TvClose, TvStep, Terminated, vars
<1> QED
    BY <1>1, <1>2, Closing, SettledEnd DEF SameButEnd, Settled
-----------------------------------------------------------------------------
(* The invariant.                                                          *)

\* No close has been sent as long as none is on a wire that works.
UnsentInv ==
    NoClose /\ conn.state = "up" =>
        /\ ~session.closeSent
        /\ \A t \in Task : pc[t] \in {"drain", "sent"} => call[t].type # "close"

\* What has been written is encoded, but for the partial frame.
CutInv == session.written <= session.encoded * FrameUnits + session.pcm

\* An end of stream takes the last frame.
LastInv ==
    \A t \in {"open", "user"} : Pending(t) /\ call[t].eos => session.frames = 0

EosEnding == EosWritten => session.ending

\* No cancel() has been cancelled with its close still in the queue.
NoneUnsent == \A c \in Cancellers : pc[c] # "unsent"

\* The session ends with a partial frame that nobody will pad.
Broken == session.ending /\ session.pcm # 0 /\ NoneUnsent

\* A flush that ends the stream is under way, or may still be entered.
Forced == (InFlush("open") \/ InFlush("user")) /\ session.force
Streaming ==
    /\ session.opened /\ ~session.closed
    /\ pc["open"] \notin {"cancelled", "raised"}

\* Then the close that cancel() asked for comes before the end of stream.
BrokenInv ==
    Broken /\ NoClose /\ conn.state = "up" =>
        /\ session.cancelled
        /\ \A t \in {"open", "user"} : Pending(t) /\ call[t].eos => Behind(t)
        /\ Forced \/ Streaming => Warned

\* The end of stream covers the audio that was written.
EosFull ==
    \A i \in DOMAIN wire :
        (/\ wire[i].type = "data" /\ wire[i].eos
         /\ \A j \in 1 .. i : wire[j].type # "close") =>
            /\ (wire[i].sequence + wire[i].count) * FrameUnits >= session.written
            /\ session.pcm = 0

FullInv == NoneUnsent => EosFull

EndInv ==
    /\ QueueInv /\ UnsentInv /\ CutInv /\ LastInv /\ EosEnding /\ BrokenInv
    /\ FullInv

\* A close that is given up stays so: who has given it up does nothing more.
StillSent == NoneUnsent' => NoneUnsent

LEMMA UnsentStays == ASSUME TypeOK, [Next]_vars PROVE StillSent
<1>1. /\ Cancellers \subseteq Task /\ "open" \in Task /\ "user" \in Task
      /\ "reader" \in Task /\ \A c \in Cancellers : c \notin {"open", "user", "reader"}
    BY Tasks
<1>2. ASSUME NEW t \in Task, \A r \in Task : r # t => pc'[r] = pc[r],
             t \in {"open", "user", "reader"} \/ pc[t] # "unsent"
      PROVE  StillSent
    BY <1>1, <1>2 DEF StillSent, NoneUnsent
<1>3. ASSUME NEW t \in Task, Sends(t) PROVE StillSent
    <2>1. pc[t] # "unsent"
        BY <1>3 DEF Sends, Transmit, Drained, CloseSent, SendFailed
    <2>2. \A r \in Task : r # t => pc'[r] = pc[r]
        BY <1>3, TransmitMoves, SendsMoves DEF Sends, Moves
    <2> QED
        BY <1>2, <2>1, <2>2
<1>4. ASSUME NEW t \in {"open", "user"}, Flushes(t) PROVE StillSent
    BY <1>1, <1>2, <1>4, FlushesMoves, EventMoves DEF Flushes, Moves
<1>5. ASSUME NEW t \in Cancellers \cup {"user"}, Cancels(t) PROVE StillSent
    <2>1. t \in Task /\ pc[t] # "unsent"
        BY <1>1, <1>5 DEF Cancels, CancelCall, CancelJoin, CancelGiveUp
    <2> QED
        BY <1>2, <1>5, <2>1, CancelsMoves DEF Moves
<1>6. ASSUME NEW t \in Cancellers, CancelAbort(t) PROVE StillSent
    <2>1. t \in Task /\ pc[t] # "unsent"
        BY <1>1, <1>6 DEF CancelAbort
    <2> QED
        BY <1>2, <1>6, <2>1, AbortedMoves DEF Moves
<1>7. CASE UserAbort
    BY <1>1, <1>2, <1>7, AbortMoves DEF Moves
<1>8. CASE Opens \/ Writes \/ Finishes
    BY <1>1, <1>2, <1>8, OpensMoves, UserMoves DEF Moves
<1>9. CASE ReaderSteps \/ ConnClose \/ ConnLost \/ TvAnswer \/ TvAck \/ TvClose
               \/ Terminated \/ UNCHANGED vars
    BY <1>1, <1>2, <1>9, ReaderMoves DEF Moves
<1> QED
    BY <1>3, <1>4, <1>5, <1>6, <1>7, <1>8, <1>9 DEF Next

\* A step that writes neither audio nor messages.
Keeps ==
    /\ session'.frames = session.frames /\ session'.encoded = session.encoded
    /\ session'.pcm = session.pcm /\ session'.written = session.written
    /\ session.ending => session'.ending
    /\ session.cancelled => session'.cancelled
    /\ session.closed => session'.closed
    /\ wire' = wire /\ (conn'.state = "up" => conn.state = "up")

LEMMA EndKept ==
    ASSUME TypeOK, EndInv, NEW t \in Task, Moves(t), Keeps, StillSent,
           t \notin Closers \/ Rests(t) \/ ~NoneUnsent',
           t \in {"open", "user"} => ~Pending(t)',
           session'.ending = session.ending \/ BrokenInv',
           session'.closeSent = session.closeSent
               \/ (pc[t] = "sent" /\ call[t].type = "close"),
           Broken /\ NoClose /\ conn.state = "up" =>
               /\ Forced' => Forced \/ Warned
               /\ Streaming' =>
                      \/ Streaming
                      \/ Joins(t) /\ call'[t] = CloseMessage("CANCELLED")
    PROVE  EndInv'
<1>1. NoClose' <=> NoClose
    BY DEF Keeps, NoClose
<1>2. QueueInv'
    BY QueueKept DEF EndInv
<1>3. UnsentInv'
    <2>1. ASSUME NoClose, conn.state = "up", NEW r \in Task, pc'[r] \in {"drain", "sent"}
          PROVE  call'[r].type # "close"
        <3>1. CASE r # t
            BY <2>1, <3>1 DEF EndInv, UnsentInv, Moves
        <3>2. CASE r = t
            <4>1. ~Joins(t) /\ ~Walks(t)
                BY <2>1, <3>2 DEF Joins, Walks, Queued
            <4> QED
                BY <2>1, <3>2, <4>1 DEF EndInv, UnsentInv, Moves, Rests, Quits, Queued
        <3> QED
            BY <3>1, <3>2
    <2>2. NoClose /\ conn.state = "up" => ~session'.closeSent
        BY DEF EndInv, UnsentInv
    <2> QED
        BY <1>1, <2>1, <2>2 DEF UnsentInv, Keeps
<1>4. CutInv' /\ EosEnding' /\ FullInv'
    BY DEF EndInv, CutInv, EosEnding, EosWritten, FullInv, EosFull, StillSent, Keeps
<1>5. \A r \in {"open", "user"} : Pending(r)' =>
          /\ r # t /\ r \in Task /\ Pending(r) /\ call'[r] = call[r]
    BY Tasks DEF Pending, Moves
<1>6. LastInv'
    BY <1>5 DEF EndInv, LastInv, Keeps
<1>7. /\ Queue' \in {Queue, Append(Queue, t), Leave(Queue, t)}
      /\ \A r \in Task : r # t => pc'[r] = pc[r] /\ call'[r] = call[r]
    BY DEF Moves, Rests, Walks, Joins, Quits
<1>8. ASSUME session'.ending = session.ending PROVE BrokenInv'
    <2> SUFFICES ASSUME Broken', NoClose', conn'.state = "up"
                 PROVE  /\ session'.cancelled
                        /\ \A r \in {"open", "user"} :
                               Pending(r)' /\ call'[r].eos => Behind(r)'
                        /\ Forced' \/ Streaming' => Warned'
        BY DEF BrokenInv
    <2>1. /\ Broken /\ NoClose /\ conn.state = "up"
          /\ t \notin Closers \/ Rests(t)
        BY <1>1, <1>8 DEF Broken, StillSent, Keeps
    <2>2. /\ session.cancelled /\ (Forced \/ Streaming => Warned)
          /\ \A r \in {"open", "user"} : Pending(r) /\ call[r].eos => Behind(r)
        BY <2>1 DEF EndInv, BrokenInv
    <2>3. session'.cancelled
        BY <2>2 DEF Keeps
    <2>4. \A r \in {"open", "user"} : Pending(r)' /\ call'[r].eos => Behind(r)'
        BY <1>5, <1>7, <2>1, <2>2, WarnedKept
    <2>5. Forced' \/ Streaming' => Warned'
        BY <1>7, <2>1, <2>2, WarnedKept, JoinsBehind DEF EndInv
    <2> QED
        BY <2>3, <2>4, <2>5
<1> QED
    BY <1>2, <1>3, <1>4, <1>6, <1>8 DEF EndInv

\* The same for most of the steps.
LEMMA EndPlain ==
    ASSUME TypeOK, EndInv, NEW t \in Task, Moves(t), Plain(t), StillSent,
           t \notin Closers \/ Rests(t) \/ ~NoneUnsent',
           t \in {"open", "user"} /\ InFlush(t)' => InFlush(t) /\ pc'[t] # "send",
           session'.pcm = session.pcm, session'.written = session.written,
           session'.ending = session.ending \/ BrokenInv',
           session.cancelled => session'.cancelled,
           session'.closeSent = session.closeSent
               \/ (pc[t] = "sent" /\ call[t].type = "close"),
           Broken /\ NoClose /\ conn.state = "up" =>
               \/ session'.opened = session.opened
               \/ Joins(t) /\ call'[t] = CloseMessage("CANCELLED"),
           pc["open"] \in {"cancelled", "raised"}
               => pc'["open"] \in {"cancelled", "raised"}
    PROVE  EndInv'
<1>1. Keeps
    BY DEF Keeps, Plain, SameData
<1>2. t \in {"open", "user"} => ~Pending(t)'
    BY DEF Pending, InFlush
<1>3. Forced' => Forced
    <2>1. \A r \in {"open", "user"} : r # t => (InFlush(r)' <=> InFlush(r))
        BY Tasks DEF Moves, InFlush
    <2> QED
        BY <2>1 DEF Forced, Plain, SameData
<1>4. Streaming' => Streaming \/ session'.opened # session.opened
    BY DEF Streaming, Plain, SameData
<1>5. Broken /\ NoClose /\ conn.state = "up" =>
          /\ Forced' => Forced \/ Warned
          /\ Streaming' =>
                 \/ Streaming
                 \/ Joins(t) /\ call'[t] = CloseMessage("CANCELLED")
    BY <1>3, <1>4
<1> QED
    BY <1>1, <1>2, <1>5, EndKept
-----------------------------------------------------------------------------
(* The steps.                                                              *)

LEMMA OpenStays ==
    ASSUME NEW t \in Task, Moves(t), t # "open" \/ pc["open"] \notin {"cancelled", "raised"}
    PROVE  pc["open"] \in {"cancelled", "raised"}
               => pc'["open"] \in {"cancelled", "raised"}
BY Tasks DEF Moves

LEMMA EndSends ==
    ASSUME TypeOK, EndInv, StillSent, NEW t \in Task, Drained(t) \/ CloseSent(t) \/ SendFailed(t)
    PROVE  EndInv'
<1>1. /\ pc[t] \in {"drain", "sent", "failed"} /\ call' = call
      /\ t \notin Closers /\ Moves(t) /\ Plain(t)
    BY SendsMoves, PlainSends DEF Drained, CloseSent, SendFailed, Closers
<1>2. pc["open"] \in {"cancelled", "raised"} => pc'["open"] \in {"cancelled", "raised"}
    BY <1>1, OpenStays
<1>3. CASE Drained(t) \/ SendFailed(t)
    <2>1. pc'[t] # "send" /\ (InFlush(t)' => InFlush(t))
        <3>1. CASE Drained(t)
            <4>1. pc'[t] \in {"sent", "failed"} /\ pc[t] = "drain"
                BY <3>1, Moved DEF Drained, Location
            <4> QED
                BY <1>1, <4>1 DEF InFlush
        <3>2. CASE SendFailed(t)
            <4>1. /\ \E l \in {"raised", "cancel", "stopped", AfterClose(t)} : Suspend(t, l)
                  /\ {"raised", "cancel", "stopped", AfterClose(t)}
                         \subseteq {"raised", "cancel", "stopped", "ended", "idle", "done"}
                BY <3>2 DEF SendFailed, AfterClose
            <4>2. pc'[t] \in {"raised", "cancel", "stopped", "ended", "idle", "done"}
                BY <4>1, Moved DEF Location
            <4> QED
                BY <4>2 DEF InFlush
        <3> QED
            BY <1>3, <3>1, <3>2
    <2>2. Settled
        BY <1>3, SettledSends
    <2> QED
        BY <1>1, <1>2, <2>1, <2>2, EndPlain DEF Settled
<1>4. CASE CloseSent(t)
    <2>1. /\ session'.pcm = session.pcm /\ session'.written = session.written
          /\ session'.ending = session.ending /\ session'.opened = session.opened
          /\ session'.cancelled = session.cancelled
        BY <1>4, TypeParts DEF CloseSent, Fail, MarkDone, Session
    <2>2. /\ Suspend(t, AfterClose(t)) /\ AfterClose(t) \in {"ended", "idle", "cancel", "done"}
          /\ pc[t] = "sent" /\ call[t].type = "close"
        BY <1>4 DEF CloseSent, AfterClose
    <2>3. pc'[t] \in {"ended", "idle", "cancel", "done"}
        BY <2>2, Moved DEF Location
    <2>4. ~InFlush(t)'
        BY <2>3 DEF InFlush
    <2> QED
        BY <1>1, <1>2, <2>1, <2>2, <2>4, EndPlain
<1> QED
    BY <1>3, <1>4

LEMMA EndReader ==
    ASSUME TypeOK, EndInv, StillSent,
           ReaderSteps \/ ConnClose \/ ConnLost \/ TvAnswer \/ TvAck \/ TvClose
               \/ Terminated \/ UNCHANGED vars
    PROVE  EndInv'
<1>1. "reader" \in Task /\ "reader" \notin {"open", "user"}
    BY Tasks
<1>2. /\ Moves("reader") /\ (pc'["reader"] = pc["reader"] \/ pc["reader"] = "idle")
      /\ Plain("reader") /\ Settled
    BY ReaderMoves, PlainReader, SettledReader
<1>3. "reader" \notin Closers \/ Rests("reader")
    BY <1>2 DEF Closers, Moves, Walks, Joins, Quits, Queued
<1>4. pc["open"] \in {"cancelled", "raised"} => pc'["open"] \in {"cancelled", "raised"}
    BY <1>1, <1>2, OpenStays
<1> QED
    BY <1>1, <1>2, <1>3, <1>4, EndPlain DEF Settled

LEMMA EndCancels ==
    ASSUME TypeOK, AudioInv, EndInv, StillSent, NEW t \in Cancellers \cup {"user"}, Cancels(t)
    PROVE  EndInv'
<1> DEFINE s == [session EXCEPT !.ending = TRUE, !.cancelled = TRUE]
<1>1. /\ t \in Task /\ t # "open" /\ Moves(t) /\ Plain(t)
      /\ session \in Session /\ s \in Session /\ "CANCELLED" \in Reason
    BY Tasks, CancelsMoves, PlainCancels, TypeParts DEF Session, Reason
<1>2. pc["open"] \in {"cancelled", "raised"} => pc'["open"] \in {"cancelled", "raised"}
    BY <1>1, OpenStays
<1>3. t \notin Closers /\ pc[t] \notin {"sent", "drain"}
    BY DEF Cancels, CancelCall, CancelJoin, CancelGiveUp, Closers
<1>4. ~InFlush(t)'
    BY CancelMoves DEF InFlush
<1>5. CASE CancelJoin(t) \/ CancelGiveUp(t)
    <2>1. Settled
        BY <1>1, <1>5, SettledCancels
    <2> QED
        BY <1>1, <1>2, <1>3, <1>4, <2>1, EndPlain DEF Settled
<1>6. CASE CancelCall(t)
    <2>1. \/ UNCHANGED session /\ session.closed
          \/ session' = s /\ ~session.opened /\ ~session.closed
          \/ SendClose(t, "CANCELLED", s) /\ ~session.closed
        BY <1>6 DEF CancelCall
    <2>2. /\ s.pcm = session.pcm /\ s.written = session.written /\ s.ending
          /\ s.cancelled /\ s.opened = session.opened /\ s.closed = session.closed
          /\ s.closeSent = session.closeSent
        BY <1>1 DEF Session
    <2> HIDE DEF s
    <2>3. /\ session'.pcm = session.pcm /\ session'.written = session.written
          /\ session'.opened = session.opened
          /\ session'.closeSent = session.closeSent
          /\ session.cancelled => session'.cancelled
          /\ session.ending => session'.ending
          /\ session' = session \/ session'.cancelled
        BY <1>1, <2>1, <2>2, Closing DEF SameButEnd
    <2>4. CASE session'.ending = session.ending
        BY <1>1, <1>2, <1>3, <1>4, <2>3, <2>4, EndPlain
    <2>5. CASE session'.ending # session.ending
        <3>1. ~session.ending /\ session'.cancelled /\ session' # session
            BY <1>1, <2>3, <2>5, TypeParts DEF Session
        <3>2. ASSUME NEW r \in {"open", "user"}, Pending(r)' PROVE ~call'[r].eos
            <4>1. r # t /\ r \in Task
                BY <1>4, <3>2, Tasks DEF Pending, InFlush
            <4> QED
                BY <1>1, <3>1, <3>2, <4>1 DEF AudioInv, EndingInv, Pending, Moves
        <3>3. ~Forced'
            BY <1>1, <3>1 DEF Forced, Plain, SameData, AudioInv, EndingInv
        <3>4. ASSUME Streaming', NoClose, conn.state = "up" PROVE Warned'
            <4>1. /\ SendClose(t, "CANCELLED", s) /\ s.opened /\ ~s.closeSent
                  /\ conn.state # "closed"
                BY <2>1, <2>2, <2>3, <3>1, <3>4 DEF Streaming, EndInv, UnsentInv
            <4>2. Send(t, CloseMessage("CANCELLED"))
                BY <4>1 DEF SendClose, NeedsClose
            <4>3. CloseMessage("CANCELLED") \in Message
                BY <1>1 DEF CloseMessage, Message
            <4>4. pc[t] \notin Queued
                BY <1>6 DEF CancelCall, Queued
            <4>5. Joins(t) /\ call'[t] = CloseMessage("CANCELLED")
                BY <1>1, <4>2, <4>3, <4>4, SendStarts, SendingMoves DEF Sending
            <4> QED
                BY <1>1, <4>5, JoinsBehind DEF EndInv
        <3>5. NoClose' /\ conn'.state = "up" => NoClose /\ conn.state = "up"
            BY <1>1 DEF Plain, NoClose
        <3>6. BrokenInv'
            BY <3>1, <3>2, <3>3, <3>4, <3>5 DEF BrokenInv
        <3> QED
            BY <1>1, <1>2, <1>3, <1>4, <2>3, <3>6, EndPlain
    <2> QED
        BY <2>4, <2>5
<1> QED
    BY <1>5, <1>6 DEF Cancels
LEMMA EndTransmit ==
    ASSUME TypeOK, LockInv, AudioInv, OrderInv, EndInv, StillSent, NEW t \in Task,
           Transmit(t)
    PROVE  EndInv'
<1>1. /\ \A r \in Task : r # t => pc'[r] = pc[r] /\ call'[r] = call[r]
      /\ pc[t] = "send" /\ pc'[t] \in {"drain", "sent", "failed"}
      /\ Queue' \in {Queue, Leave(Queue, t)}
      /\ UNCHANGED <<call, session, conn>>
    BY TransmitMoves DEF Transmit
<1>2. QueueInv'
    BY QueueStep DEF Next, Sends, EndInv
<1>3. CutInv'
    BY <1>1 DEF EndInv, CutInv
<1>4. \A r \in {"open", "user"} : Pending(r)' =>
          r # t /\ r \in Task /\ Pending(r) /\ call'[r] = call[r]
    BY <1>1, Tasks DEF Pending
<1>5. LastInv'
    BY <1>1, <1>4 DEF EndInv, LastInv
<1>6. CASE conn.state # "up"
    <2>1. wire' = wire
        BY <1>6 DEF Transmit
    <2>2. UnsentInv' /\ BrokenInv'
        BY <1>1, <1>6 DEF UnsentInv, BrokenInv
    <2>3. EosEnding' /\ FullInv'
        BY <1>1, <2>1 DEF EndInv, EosEnding, EosWritten, FullInv, EosFull, StillSent
    <2> QED
        BY <1>2, <1>3, <1>5, <2>2, <2>3 DEF EndInv
<1>7. CASE conn.state = "up"
    <2>1. wire' = Append(wire, call[t])
        BY <1>7 DEF Transmit
    <2> DEFINE n == Len(wire)
    <2>2. /\ wire \in Seq(Message) /\ n \in Nat /\ DOMAIN wire = 1..n
          /\ DOMAIN wire' = 1..n + 1 /\ wire'[n + 1] = call[t]
          /\ \A i \in 1..n : wire'[i] = wire[i]
          /\ \A i \in 1..n + 1 : i \in 1..n \/ i = n + 1
          /\ call[t] \in Message
        BY <2>1, TypeParts
    <2> HIDE DEF n
    <2>3. NoClose' => NoClose /\ call[t].type # "close"
        BY <2>2 DEF NoClose
    <2>4. UnsentInv'
        BY <1>1, <2>3 DEF EndInv, UnsentInv
    <2>5. EosEnding'
        <3>1. EosWritten' => EosWritten \/ (call[t].type = "data" /\ call[t].eos)
            BY <2>2 DEF EosWritten
        <3> QED
            BY <1>1, <3>1 DEF EndInv, EosEnding, AudioInv, EndingInv
    <2>6. ASSUME call[t].type = "data", call[t].eos, NoClose, NoneUnsent
          PROVE  /\ session.pcm = 0
                 /\ (call[t].sequence + call[t].count) * FrameUnits >= session.written
        <3>1. t \in {"open", "user"} /\ session.ending /\ Pending(t)
            BY <1>1, <2>6 DEF AudioInv, OnlyFlushers, EndingInv, Pending
        <3>2. session.pcm = 0
            <4>1. Queue \in Seq(Task) /\ 1 \in 1..Len(Queue) /\ Queue[1] = t
                BY TypeParts DEF Transmit, Holds, Queue
            <4>2. ~Behind(t)
                BY <4>1 DEF Behind, Ahead
            <4> QED
                BY <1>7, <2>6, <3>1, <4>2 DEF EndInv, BrokenInv, Broken
        <3>3. /\ call[t].sequence = Due /\ session.sequence = Due + call[t].count
              /\ session.frames = 0
            BY <1>7, <2>6, <3>1 DEF OrderInv, DueInv, FlusherInv, EndInv, LastInv
        <3>4. call[t].sequence + call[t].count = session.encoded
            BY <3>3, TypeParts DEF AudioInv, Numbered, Session
        <3>5. session.encoded * FrameUnits >= session.written
            <4>1. /\ session.written <= session.encoded * FrameUnits + session.pcm
                  /\ FrameUnits \in Nat /\ session.encoded \in Nat /\ session.written \in Nat
                BY AudioAssumption, TypeParts DEF EndInv, CutInv, Session
            <4> QED
                BY <3>2, <4>1
        <3> QED
            BY <3>2, <3>4, <3>5
    <2>7. FullInv'
        <3> SUFFICES ASSUME NoneUnsent,
                            NEW i \in DOMAIN wire', wire'[i].type = "data", wire'[i].eos,
                            \A j \in 1..i : wire'[j].type # "close"
                     PROVE  /\ session.pcm = 0
                            /\ (wire'[i].sequence + wire'[i].count) * FrameUnits
                                   >= session.written
            BY <1>1 DEF FullInv, EosFull, StillSent
        <3>1. CASE i \in 1..n
            <4>1. wire[i] = wire'[i] /\ \A j \in 1..i : j \in 1..n /\ wire[j] = wire'[j]
                BY <2>2, <3>1
            <4> QED
                BY <2>2, <3>1, <4>1 DEF EndInv, FullInv, EosFull
        <3>2. CASE i = n + 1
            <4>1. NoClose
                BY <2>2, <3>2 DEF NoClose
            <4> QED
                BY <2>2, <2>6, <3>2, <4>1
        <3> QED
            BY <2>2, <3>1, <3>2
    <2>8. BrokenInv'
        <3> SUFFICES ASSUME Broken', NoClose', conn'.state = "up"
                     PROVE  /\ session'.cancelled
                            /\ \A r \in {"open", "user"} :
                                   Pending(r)' /\ call'[r].eos => Behind(r)'
                            /\ Forced' \/ Streaming' => Warned'
            BY DEF BrokenInv
        <3>1. /\ session.cancelled /\ (Forced \/ Streaming => Warned)
              /\ \A r \in {"open", "user"} : Pending(r) /\ call[r].eos => Behind(r)
            BY <1>1, <1>7, <2>3 DEF EndInv, BrokenInv, Broken, StillSent
        <3>2. t \notin Closers
            BY <2>3 DEF Closers, CloseMessage
        <3>3. Forced' => Forced
            BY <1>1, Tasks DEF Forced, InFlush
        <3>4. Streaming' => Streaming
            BY <1>1, Tasks DEF Streaming
        <3> QED
            BY <1>1, <1>4, <3>1, <3>2, <3>3, <3>4, WarnedKept
    <2> QED
        BY <1>2, <1>3, <1>5, <2>4, <2>5, <2>7, <2>8 DEF EndInv
<1> QED
    BY <1>6, <1>7
\* A flush sends an event: if it ends the stream, it queues behind the close.
LEMMA EndEvent ==
    ASSUME TypeOK, LockInv, WayInv, EndInv, StillSent, NEW t \in {"open", "user"},
           Moves(t), Joins(t), InFlush(t), call'[t].type = "data", Settled,
           call'[t].eos => session.force /\ session'.frames = 0,
           session'.encoded = session.encoded, session'.force = session.force,
           session'.closed = session.closed, UNCHANGED <<wire, conn>>
    PROVE  EndInv'
<1>1. PICK u \in {"open", "user"} : u # t
    OBVIOUS
<1>2. t \in Task /\ u \in Task /\ pc'[u] = pc[u] /\ call'[u] = call[u] /\ ~InFlush(u)
    BY <1>1, Tasks, OneFlusher DEF Moves
<1>3. QueueInv' /\ (NoClose' <=> NoClose)
    BY <1>2, QueueKept DEF EndInv, NoClose
<1>4. UnsentInv'
    BY <1>2, <1>3 DEF EndInv, UnsentInv, Settled, Moves, Joins
<1>5. CutInv' /\ EosEnding' /\ FullInv'
    BY DEF EndInv, CutInv, EosEnding, EosWritten, FullInv, EosFull, StillSent, Settled
<1>6. ~Pending(u)'
    BY <1>2 DEF Pending, InFlush
<1>7. LastInv'
    BY <1>1, <1>6 DEF LastInv
<1>8. pc[t] \notin {"cancelled", "raised"} /\ t \notin Closers
    BY <1>2 DEF InFlush, Closers, CloseMessage
<1>9. BrokenInv'
    <2> SUFFICES ASSUME Broken', NoClose', conn'.state = "up"
                 PROVE  /\ session'.cancelled
                        /\ \A r \in {"open", "user"} :
                               Pending(r)' /\ call'[r].eos => Behind(r)'
                        /\ Forced' \/ Streaming' => Warned'
        BY DEF BrokenInv
    <2>1. session.cancelled /\ (Forced \/ Streaming => Warned)
        BY <1>3 DEF EndInv, BrokenInv, Broken, StillSent, Settled
    <2>2. call'[t].eos => Behind(t)'
        BY <1>2, <2>1, JoinsBehind DEF EndInv, Forced
    <2>3. Warned => Warned'
        BY <1>2, <1>8, WarnedKept DEF Moves, Joins
    <2>4. Forced' \/ Streaming' => Forced \/ Streaming
        BY <1>1, <1>2, <1>8 DEF Forced, Streaming, Settled
    <2> QED
        BY <1>1, <1>6, <2>1, <2>2, <2>3, <2>4 DEF Settled
<1> QED
    BY <1>3, <1>4, <1>5, <1>7, <1>9 DEF EndInv

LEMMA EndFlushes ==
    ASSUME TypeOK, LockInv, WayInv, EndInv, StillSent, NEW t \in {"open", "user"},
           Flushes(t)
    PROVE  EndInv'
<1>1. /\ t \in Task /\ Settled /\ session \in Session
      /\ AfterFlush(t, session.force) \in {"ended", "idle", "waitdone"}
      /\ AfterFlush(t, session.force) \in Location /\ "flush" \in Location
    BY Tasks, SettledFlushes, TypeParts DEF AfterFlush, Location
<1>2. pc[t] \in {"flush", "sent"} /\ InFlush(t) /\ t \notin Closers
    BY <1>1 DEF Flushes, FlushEvent, FlushEos, FlushEnd, FlushSent, InFlush, Closers
<1>3. CASE FlushEvent(t)
    <2>1. Sending(t, Event) /\ Moves(t) /\ Joins(t) /\ Count \in Nat
        BY <1>1, <1>3, EventSent, EventMoves
    <2>2. Event.type = "data" /\ (Event.eos <=> session.force /\ session.frames = Count)
        BY DEF Event, DataMessage
    <2>3. /\ session'.frames = session.frames - Count
          /\ session'.encoded = session.encoded /\ session'.force = session.force
          /\ session'.closed = session.closed
        BY <1>1, <1>3, EventSent DEF Session
    <2>4. session.frames = Count => session'.frames = 0
        BY <2>1, <2>3
    <2>5. UNCHANGED <<wire, conn>> /\ call'[t] = Event
        BY <1>3, <2>1 DEF FlushEvent, Sending
    <2>6. call'[t].type = "data" /\ (call'[t].eos => session.force /\ session'.frames = 0)
        BY <2>2, <2>4, <2>5
    <2> QED
        BY <1>1, <1>2, <2>1, <2>3, <2>5, <2>6, EndEvent
<1>4. CASE FlushEos(t)
    <2>1. Sending(t, LastEvent) /\ Moves(t) /\ Joins(t)
        BY <1>1, <1>4, EosSent, EventMoves
    <2>2. /\ session' = session /\ UNCHANGED <<wire, conn>>
          /\ session.force /\ session.frames = 0
        BY <1>4 DEF FlushEos
    <2>3. call'[t].type = "data"
        BY <2>1 DEF Sending, LastEvent, DataMessage
    <2> QED
        BY <1>1, <1>2, <2>1, <2>2, <2>3, EndEvent
<1>5. CASE FlushEnd(t) \/ FlushSent(t)
    <2>1. Moves(t)
        BY <1>5, FlushesMoves
    <2>2. pc'[t] \in {"flush", "ended", "idle", "waitdone"}
        BY <1>1, <1>5, Moved DEF FlushEnd, FlushSent
    <2>3. pc["open"] \in {"cancelled", "raised"} => pc'["open"] \in {"cancelled", "raised"}
        BY <1>1, <1>2, <2>1, OpenStays
    <2>4. CASE FlushEnd(t) \/ (FlushSent(t) /\ ~call[t].eos)
        BY <1>1, <1>2, <2>1, <2>2, <2>3, <2>4, PlainFlushes, EndPlain DEF Settled
    <2>5. CASE FlushSent(t) /\ call[t].eos
        <3>1. /\ session' = [session EXCEPT !.eosSent = TRUE] /\ UNCHANGED <<wire, conn>>
              /\ Suspend(t, AfterFlush(t, session.force))
            BY <2>5 DEF FlushSent
        <3>2. /\ session'.frames = session.frames /\ session'.encoded = session.encoded
              /\ session'.force = session.force /\ session'.closed = session.closed
            BY <1>1, <3>1 DEF Session
        <3>3. Keeps
            BY <1>1, <3>1, <3>2 DEF Keeps, Settled
        <3>4. pc'[t] \in {"ended", "idle", "waitdone"}
            BY <1>1, <3>1, Moved
        <3>5. ~InFlush(t)' /\ ~Pending(t)'
            BY <3>4 DEF InFlush, Pending
        <3>6. Forced' => Forced
            <4>1. \A r \in {"open", "user"} : r # t => (InFlush(r)' <=> InFlush(r))
                BY <2>1, Tasks DEF Moves, InFlush
            <4> QED
                BY <3>2, <3>5, <4>1 DEF Forced
        <3>7. Streaming' => Streaming
            BY <1>1, <2>3, <3>2 DEF Streaming, Settled
        <3> QED
            BY <1>1, <1>2, <2>1, <3>3, <3>5, <3>6, <3>7, EndKept DEF Settled
    <2> QED
        BY <1>5, <2>4, <2>5
<1> QED
    BY <1>3, <1>4, <1>5 DEF Flushes
\* A flush that ends the stream is entered behind the close.
LEMMA EndEntering ==
    ASSUME TypeOK, EndInv, StillSent, NEW t \in {"open", "user"}, NEW force \in BOOLEAN,
           EnterFlush(t, force, session), UNCHANGED <<call, wire, conn>>,
           pc[t] \in {"openlock", "eoslock"},
           ~session.closed => pc["open"] \notin {"cancelled", "raised"}
    PROVE  EndInv'
<1>1. t \in Task /\ session \in Session /\ pc[t] \notin Queued
    BY Tasks, TypeParts DEF Queued
<1>2. Moves(t) /\ Settled
    BY <1>1, EnteringMoves, SettledEntering
<1>3. /\ \/ pc'[t] = "flush" /\ session.opened /\ ~session.closed
         \/ pc'[t] \in {"ended", "idle", "waitdone"} /\ session' = session
      /\ session' \in {session, [session EXCEPT !.force = force]}
    BY Entering, <1>1 DEF AfterFlush
<1>4. /\ session'.frames = session.frames /\ session'.encoded = session.encoded
      /\ session'.closed = session.closed
    BY <1>1, <1>3 DEF Session
<1>5. Keeps
    BY <1>2, <1>4 DEF Keeps, Settled
<1>6. pc["open"] \in {"cancelled", "raised"} => pc'["open"] \in {"cancelled", "raised"}
    BY <1>1, <1>2, OpenStays
<1>7. Streaming' => Streaming
    BY <1>2, <1>4, <1>6 DEF Streaming, Settled
<1>8. ~Pending(t)' /\ t \notin Closers
    BY <1>3 DEF Pending, Closers
<1>9. Forced' => Forced \/ Streaming
    <2>1. CASE pc'[t] = "flush" /\ session.opened /\ ~session.closed
        BY <2>1 DEF Streaming
    <2>2. CASE pc'[t] \in {"ended", "idle", "waitdone"} /\ session' = session
        <3>1. \A r \in {"open", "user"} : r # t => (InFlush(r)' <=> InFlush(r))
            BY <1>2, Tasks DEF Moves, InFlush
        <3>2. ~InFlush(t)'
            BY <2>2 DEF InFlush
        <3> QED
            BY <2>2, <3>1, <3>2 DEF Forced
    <2> QED
        BY <1>3, <2>1, <2>2
<1>10. Broken /\ NoClose /\ conn.state = "up" => (Forced' => Forced \/ Warned)
    BY <1>9 DEF EndInv, BrokenInv
<1> QED
    BY <1>1, <1>2, <1>5, <1>7, <1>8, <1>10, EndKept DEF Settled

LEMMA EndOpens ==
    ASSUME TypeOK, EndInv, StillSent, Opens PROVE EndInv'
<1>1. /\ "open" \in Task /\ "open" \in {"open", "user"} /\ session \in Session
      /\ Moves("open")
    BY Tasks, TypeParts, OpensMoves
<1>2. CASE OpenFlush
    <2>1. /\ EnterFlush("open", session.ending, session) /\ UNCHANGED <<call, wire, conn>>
          /\ pc["open"] = "openlock" /\ session.ending \in BOOLEAN
        BY <1>1, <1>2 DEF OpenFlush, Session
    <2> QED
        BY <1>1, <2>1, EndEntering
<1>3. CASE OpenBegin \/ OpenSent \/ OpenRefused \/ OpenTimeout \/ OpenCancelled
    <2>1. Plain("open") /\ Settled
        BY <1>3, PlainOpens, SettledOpens
    <2>2. /\ pc["open"] # "send"
          /\ \/ pc'["open"] \in {"await", "raised"}
             \/ pc'["open"] = "send" /\ call'["open"].type = "open"
        <3>1. CASE OpenBegin
            <4>1. Sending("open", OpenMessage)
                BY <1>1, <3>1, SendStarts DEF OpenBegin, Message
            <4> QED
                BY <3>1, <4>1 DEF OpenBegin, Sending, OpenMessage
        <3>2. CASE OpenSent
            BY <1>1, <3>2, TypeParts DEF OpenSent
        <3>3. CASE OpenRefused \/ OpenTimeout \/ OpenCancelled
            <4>1. Suspend("open", "raised") /\ "raised" \in Location
                BY <3>3 DEF OpenRefused, OpenTimeout, OpenCancelled, Location
            <4> QED
                BY <1>1, <3>3, <4>1, Moved DEF OpenRefused, OpenTimeout, OpenCancelled
        <3> QED
            BY <1>3, <3>1, <3>2, <3>3
    <2>3. ~InFlush("open")' /\ "open" \notin Closers
        BY <2>2 DEF InFlush, Closers
    <2>4. pc["open"] \in {"cancelled", "raised"} => pc'["open"] \in {"cancelled", "raised"}
        <3>1. CASE OpenCancelled
            <4>1. Suspend("open", "raised") /\ "raised" \in Location
                BY <3>1 DEF OpenCancelled, Location
            <4> QED
                BY <1>1, <4>1, Moved
        <3>2. CASE OpenBegin \/ OpenSent \/ OpenRefused \/ OpenTimeout
            BY <3>2 DEF OpenBegin, OpenSent, OpenRefused, OpenTimeout
        <3> QED
            BY <1>3, <3>1, <3>2
    <2> QED
        BY <1>1, <2>1, <2>3, <2>4, EndPlain DEF Settled
<1>4. CASE OpenAccepted
    <2> DEFINE s == [session EXCEPT !.opened = TRUE, !.registered = TRUE]
    <2>1. /\ s \in Session /\ "CANCELLED" \in Reason /\ pc["open"] = "await"
          /\ s.pcm = session.pcm /\ s.written = session.written
          /\ s.ending = session.ending /\ s.cancelled = session.cancelled
          /\ s.closeSent = session.closeSent /\ s.opened
        BY <1>1, <1>4 DEF OpenAccepted, Session, Reason
    <2>2. \/ session.cancelled /\ SendClose("open", "CANCELLED", s)
          \/ ~session.cancelled /\ session' = s /\ Acquire("open", "io", "openlock")
        BY <1>4 DEF OpenAccepted
    <2> HIDE DEF s
    <2>3. Plain("open")
        BY <1>4, PlainOpens
    <2>4. /\ session'.pcm = session.pcm /\ session'.written = session.written
          /\ session'.ending = session.ending /\ session'.cancelled = session.cancelled
          /\ session'.closeSent = session.closeSent
        BY <1>1, <2>1, <2>2, Closing DEF SameButEnd
    <2>5. \/ pc'["open"] \in {"ended", "openlock"}
          \/ pc'["open"] = "send" /\ call'["open"].type = "close"
        <3>1. CASE SendClose("open", "CANCELLED", s)
            <4>1. \/ Sending("open", CloseMessage("CANCELLED"))
                  \/ Walking("open", AfterClose("open"))
                BY <1>1, <2>1, <3>1, Closing
            <4> QED
                BY <4>1 DEF Sending, Walking, CloseMessage, AfterClose
        <3>2. CASE Acquire("open", "io", "openlock")
            BY <1>1, <3>2, Acquired DEF Location
        <3> QED
            BY <2>2, <3>1, <3>2
    <2>6. ~InFlush("open")' /\ "open" \notin Closers
        BY <2>1, <2>5 DEF InFlush, Closers
    <2>7. ASSUME Broken, NoClose, conn.state = "up"
          PROVE  Joins("open") /\ call'["open"] = CloseMessage("CANCELLED")
        <3>1. session.cancelled /\ ~session.closeSent
            BY <2>7 DEF EndInv, BrokenInv, UnsentInv
        <3>2. NeedsClose(s)
            BY <2>1, <2>7, <3>1 DEF NeedsClose
        <3>3. Send("open", CloseMessage("CANCELLED"))
            BY <2>2, <3>1, <3>2 DEF SendClose
        <3>4. CloseMessage("CANCELLED") \in Message
            BY <2>1 DEF CloseMessage, Message
        <3>5. pc["open"] \notin Queued
            BY <2>1 DEF Queued
        <3> QED
            BY <1>1, <3>3, <3>4, <3>5, SendStarts, SendingMoves DEF Sending
    <2> QED
        BY <1>1, <2>1, <2>3, <2>4, <2>6, <2>7, EndPlain
<1>5. CASE OpenUnregistered
    <2>1. pc'["open"] = "raised" /\ pc["open"] = "await"
        BY <1>1, <1>5, Unregistered, Moved
    <2>2. ~InFlush("open")' /\ ~Pending("open")' /\ "open" \notin Closers
        BY <2>1 DEF InFlush, Pending, Closers
    <2>3. /\ session'.frames = session.frames /\ session'.encoded = session.encoded
          /\ session'.pcm = session.pcm /\ session'.written = session.written
          /\ session'.ending = session.ending /\ session'.cancelled = session.cancelled
          /\ session'.closeSent = session.closeSent /\ session'.force = session.force
          /\ session'.closed /\ wire' = wire /\ conn'.state = conn.state
        <3> DEFINE r == [session EXCEPT !.opened = TRUE]
        <3>1. SameButEnd(r, session') /\ session'.closed
            BY <1>5, Unregistered
        <3>2. /\ r.frames = session.frames /\ r.encoded = session.encoded
              /\ r.pcm = session.pcm /\ r.written = session.written
              /\ r.ending = session.ending /\ r.cancelled = session.cancelled
              /\ r.closeSent = session.closeSent /\ r.force = session.force
            BY <1>1 DEF Session
        <3>3. wire' = wire /\ conn'.state = conn.state
            BY <1>5, TypeParts DEF OpenUnregistered
        <3> HIDE DEF r
        <3> QED
            BY <3>1, <3>2, <3>3 DEF SameButEnd
    <2>4. Keeps /\ ~Streaming'
        BY <2>3 DEF Keeps, Streaming
    <2>5. Forced' => Forced
        <3>1. InFlush("user")' <=> InFlush("user")
            BY <1>1, Tasks DEF Moves, InFlush
        <3> QED
            BY <2>2, <2>3, <3>1 DEF Forced
    <2> QED
        BY <1>1, <2>2, <2>3, <2>4, <2>5, EndKept
<1> QED
    BY <1>2, <1>3, <1>4, <1>5 DEF Opens

LEMMA Division ==
    ASSUME NEW a \in Nat, NEW d \in Nat \ {0}
    PROVE  a = d * (a \div d) + (a % d)
OBVIOUS

\* The chunk is cut into frames, and nothing of it is lost.
LEMMA FramingCut ==
    ASSUME NEW s \in Session, NEW n \in Nat,
           s.written <= s.encoded * FrameUnits + s.pcm
    PROVE  Framed(s, n).written <= Framed(s, n).encoded * FrameUnits + Framed(s, n).pcm
<1> DEFINE k == (s.pcm + n) \div FrameUnits
           p == (s.pcm + n) % FrameUnits
<1>1. /\ s.pcm \in Nat /\ FrameUnits \in Nat \ {0} /\ s.encoded \in Nat
      /\ s.written \in Nat
    BY AudioAssumption DEF Session
<1>2. k \in Nat /\ p \in Nat
    BY <1>1
<1>3. s.pcm + n = FrameUnits * k + p
    <2>1. s.pcm + n \in Nat
        BY <1>1
    <2> QED
        BY <1>1, <2>1, Division
<1> HIDE DEF k, p
<1>4. Framed(s, n) = [s EXCEPT !.written = @ + n, !.pcm = p, !.frames = @ + k,
                               !.encoded = @ + k]
    BY DEF Framed, k, p
<1>5. /\ Framed(s, n).written = s.written + n /\ Framed(s, n).pcm = p
      /\ Framed(s, n).encoded = s.encoded + k
    BY <1>4 DEF Session
<1>6. (s.encoded + k) * FrameUnits = s.encoded * FrameUnits + FrameUnits * k
    BY <1>1, <1>2
<1>7. s.encoded * FrameUnits \in Nat /\ FrameUnits * k \in Nat
    BY <1>1, <1>2
<1>8. s.written + n <= s.encoded * FrameUnits + (s.pcm + n)
    BY <1>1, <1>7
<1> QED
    BY <1>1, <1>2, <1>3, <1>5, <1>6, <1>7, <1>8

\* A step before the session ends that may add audio.
LEMMA EndAdds ==
    ASSUME TypeOK, AudioInv, EndInv, StillSent, Moves("user"), ~session.ending,
           UNCHANGED <<call, wire, conn>>, CutInv', BrokenInv',
           pc'["user"] \notin {"send", "drain", "sent"},
           session'.closeSent = session.closeSent
    PROVE  EndInv'
<1>1. "user" \in Task
    BY Tasks
<1>2. QueueInv' /\ (NoClose' <=> NoClose)
    BY <1>1, QueueKept DEF EndInv, NoClose
<1>3. UnsentInv'
    BY <1>1, <1>2 DEF EndInv, UnsentInv, Moves
<1>4. LastInv'
    BY Tasks DEF LastInv, Pending, AudioInv, EndingInv
<1>5. ~EosWritten
    BY DEF EndInv, EosEnding
<1>6. EosEnding' /\ FullInv'
    BY <1>5 DEF EosEnding, FullInv, EosFull, EosWritten
<1> QED
    BY <1>2, <1>3, <1>4, <1>6 DEF EndInv

LEMMA EndWrites ==
    ASSUME TypeOK, AudioInv, EndInv, StillSent, Writes PROVE EndInv'
<1>1. /\ "user" \in Task /\ "user" \in {"open", "user"} /\ session \in Session
      /\ ChunkSizes \subseteq Nat /\ Moves("user")
    BY Tasks, TypeParts, AudioAssumption, UserMoves
<1>2. pc["user"] \in {"idle", "writelock"} /\ "user" \notin Closers
    BY DEF Writes, WriteCall, WriteBody, Closers
<1>3. pc["open"] \in {"cancelled", "raised"} => pc'["open"] \in {"cancelled", "raised"}
    BY <1>1, OpenStays
<1>4. CASE WriteCall
    <2>1. pc'["user"] = "writelock"
        BY <1>1, <1>4, Acquired DEF WriteCall, Location
    <2>2. ~InFlush("user")' /\ Plain("user") /\ Settled
        BY <1>4, <2>1, PlainUser, SettledUser DEF InFlush
    <2> QED
        BY <1>1, <1>2, <1>3, <2>2, EndPlain DEF Settled
<1>5. CASE WriteBody
    <2>1. UNCHANGED <<call, wire, conn>>
        BY <1>5 DEF WriteBody
    <2>2. CASE Suspend("user", "cancel") /\ UNCHANGED session
        <3>1. /\ pc'["user"] = "cancel" /\ \A r \in Task : r # "user" => pc'[r] = pc[r]
            BY <1>1, <2>2, Moved DEF Location
        <3>2. Plain("user") /\ ~InFlush("user")' /\ Settled
            BY <2>1, <2>2, <3>1 DEF Plain, SameData, InFlush, Settled
        <3> QED
            BY <1>1, <1>2, <1>3, <3>2, EndPlain DEF Settled
    <2>3. CASE /\ ~session.ending
               /\ \E n \in ChunkSizes : EnterFlush("user", FALSE, Framed(session, n))
        <3>1. PICK n \in Nat : EnterFlush("user", FALSE, Framed(session, n))
            BY <1>1, <2>3
        <3> DEFINE s == Framed(session, n)
        <3>2. s \in Session /\ ~s.ending /\ s.closeSent = session.closeSent
            <4>1. s \in Session /\ ~s.ending
                BY <1>1, <2>3, Framing
            <4>2. s.closeSent = session.closeSent
                BY <1>1 DEF Framed, Session
            <4> QED
                BY <4>1, <4>2
        <3>3. s.written <= s.encoded * FrameUnits + s.pcm
            BY <1>1, FramingCut DEF EndInv, CutInv
        <3>4. FALSE \in BOOLEAN /\ EnterFlush("user", FALSE, s)
            BY <3>1
        <3> HIDE DEF s
        <3>5. /\ session' \in {s, [s EXCEPT !.force = FALSE]}
              /\ pc'["user"] \in {"flush", "idle"}
            BY <1>1, <3>2, <3>4, Entering DEF AfterFlush
        <3>6. /\ ~session'.ending /\ session'.closeSent = session.closeSent
              /\ session'.written = s.written /\ session'.encoded = s.encoded
              /\ session'.pcm = s.pcm
            BY <3>2, <3>5 DEF Session
        <3>7. CutInv' /\ BrokenInv'
            BY <3>3, <3>6 DEF CutInv, BrokenInv, Broken
        <3>8. pc'["user"] \notin {"send", "drain", "sent"}
            BY <3>5
        <3> QED
            BY <1>1, <2>1, <2>3, <3>6, <3>7, <3>8, EndAdds
    <2> QED
        BY <1>5, <2>2, <2>3 DEF WriteBody
<1> QED
    BY <1>4, <1>5 DEF Writes
\* The partial frame is padded.
LEMMA PaddingCut ==
    ASSUME NEW s \in Session, ~s.ending, s.written <= s.encoded * FrameUnits + s.pcm
    PROVE  /\ Padded(s).pcm = 0 /\ Padded(s).closeSent = s.closeSent
           /\ Padded(s).written <= Padded(s).encoded * FrameUnits
<1>1. /\ s.pcm \in 0..FrameUnits - 1 /\ FrameUnits \in Nat \ {0} /\ s.encoded \in Nat
      /\ s.written \in Nat /\ s.frames \in Nat
    BY AudioAssumption DEF Session
<1>2. s.encoded * FrameUnits \in Nat
    BY <1>1
<1>3. CASE s.pcm = 0
    BY <1>1, <1>2, <1>3 DEF Padded
<1>4. CASE s.pcm # 0
    <2>1. Padded(s) = [s EXCEPT !.pcm = 0, !.frames = @ + 1, !.encoded = @ + 1]
        BY <1>4 DEF Padded
    <2>2. /\ Padded(s).pcm = 0 /\ Padded(s).written = s.written
          /\ Padded(s).encoded = s.encoded + 1 /\ Padded(s).closeSent = s.closeSent
        BY <2>1 DEF Session
    <2>3. (s.encoded + 1) * FrameUnits = s.encoded * FrameUnits + FrameUnits
        BY <1>1
    <2>4. s.written <= s.encoded * FrameUnits + FrameUnits
        BY <1>1, <1>2
    <2> QED
        BY <2>2, <2>3, <2>4
<1> QED
    BY <1>3, <1>4

LEMMA EndFinishes ==
    ASSUME TypeOK, WayInv, AudioInv, EndInv, StillSent, Finishes PROVE EndInv'
<1>1. /\ "user" \in Task /\ "user" \in {"open", "user"} /\ session \in Session
      /\ Moves("user")
    BY Tasks, TypeParts, UserMoves
<1>2. "user" \notin Closers
    BY DEF Finishes, FinishCall, FinishEnding, FinishJoin, FinishEos, FinishReturn,
           FinishTimeout, Closers
<1>3. pc["open"] \in {"cancelled", "raised"} => pc'["open"] \in {"cancelled", "raised"}
    BY <1>1, OpenStays
<1>4. CASE FinishCall \/ FinishJoin \/ FinishReturn \/ FinishTimeout
    <2>1. ~InFlush("user")'
        <3>1. CASE FinishCall \/ FinishJoin \/ FinishReturn
            <4>1. \E l \in {"cancel", "returned", "endlock", "eoslock"} :
                      Suspend("user", l) \/ Acquire("user", "io", l)
                BY <3>1 DEF FinishCall, FinishJoin, FinishReturn, Conclude
            <4>2. pc'["user"] \in {"cancel", "returned", "endlock", "eoslock"}
                BY <1>1, <4>1, Moved, Acquired DEF Location
            <4> QED
                BY <4>2 DEF InFlush
        <3>2. CASE FinishTimeout
            <4>1. SendClose("user", "TIMEOUT", session) /\ "TIMEOUT" \in Reason
                BY <3>2 DEF FinishTimeout, Reason
            <4>2. \/ Sending("user", CloseMessage("TIMEOUT"))
                  \/ Walking("user", AfterClose("user"))
                BY <1>1, <4>1, Closing
            <4>3. \/ pc'["user"] = "send" /\ call'["user"].type = "close"
                  \/ pc'["user"] = "cancel"
                BY <4>2 DEF Sending, Walking, CloseMessage, AfterClose
            <4> QED
                BY <4>3 DEF InFlush
        <3> QED
            BY <1>4, <3>1, <3>2
    <2>2. Plain("user") /\ Settled
        BY <1>4, PlainUser, SettledUser
    <2> QED
        BY <1>1, <1>2, <1>3, <2>1, <2>2, EndPlain DEF Settled
<1>5. CASE FinishEos
    <2>1. /\ EnterFlush("user", TRUE, session) /\ UNCHANGED <<call, wire, conn>>
          /\ pc["user"] = "eoslock" /\ TRUE \in BOOLEAN
        BY <1>5 DEF FinishEos
    <2>2. ~session.closed => pc["open"] \notin {"cancelled", "raised"}
        BY <2>1 DEF WayInv, RaiseInv, Aborting
    <2> QED
        BY <1>1, <2>1, <2>2, EndEntering
<1>6. CASE FinishEnding
    <2>1. /\ pc["user"] = "endlock" /\ UNCHANGED <<call, wire, conn>>
          /\ session' = [Padded(session) EXCEPT !.ending = TRUE]
          /\ pc' = [pc EXCEPT !["user"] = "join"]
        BY <1>6 DEF FinishEnding
    <2>2. pc'["user"] = "join"
        BY <1>1, <2>1, TypeParts
    <2>3. ~Pending("user")' /\ ~InFlush("user")'
        BY <2>2 DEF Pending, InFlush
    <2>4. CASE session.ending
        <3>1. session' = session
            <4>1. Padded(session) = session
                BY <2>4 DEF Padded
            <4> QED
                BY <1>1, <2>1, <2>4, <4>1 DEF Session
        <3>2. Keeps
            BY <2>1, <3>1 DEF Keeps
        <3>3. Forced' => Forced
            <4>1. InFlush("open")' <=> InFlush("open")
                BY Tasks, <1>1 DEF Moves, InFlush
            <4> QED
                BY <2>3, <3>1, <4>1 DEF Forced
        <3>4. Streaming' => Streaming
            BY <1>3, <3>1 DEF Streaming
        <3> QED
            BY <1>1, <1>2, <2>3, <3>1, <3>2, <3>3, <3>4, EndKept
    <2>5. CASE ~session.ending
        <3>1. /\ Padded(session).pcm = 0 /\ Padded(session).closeSent = session.closeSent
              /\ Padded(session).written <= Padded(session).encoded * FrameUnits
              /\ Padded(session) \in Session
            BY <1>1, <2>5, PaddingCut, Padding DEF EndInv, CutInv
        <3>2. /\ session'.pcm = 0 /\ session'.closeSent = session.closeSent
              /\ session'.written = Padded(session).written
              /\ session'.encoded = Padded(session).encoded
            BY <2>1, <3>1 DEF Session
        <3>3. CutInv'
            <4>1. Padded(session).encoded \in Nat /\ FrameUnits \in Nat
                BY <3>1, AudioAssumption DEF Session
            <4>2. Padded(session).encoded * FrameUnits \in Nat
                BY <4>1
            <4>3. session'.encoded * FrameUnits + session'.pcm
                      = Padded(session).encoded * FrameUnits
                BY <3>2, <4>2
            <4> QED
                BY <3>1, <3>2, <4>3 DEF CutInv
        <3>4. BrokenInv'
            BY <3>2 DEF BrokenInv, Broken
        <3>5. pc'["user"] \notin {"send", "drain", "sent"}
            BY <2>2
        <3> QED
            BY <1>1, <2>1, <2>5, <3>2, <3>3, <3>4, <3>5, EndAdds
    <2> QED
        BY <2>4, <2>5
<1> QED
    BY <1>4, <1>5, <1>6 DEF Finishes

LEMMA EndAbort ==
    ASSUME TypeOK, EndInv, StillSent, UserAbort PROVE EndInv'
<1>1. "open" \in Task /\ "user" \in Task
    BY Tasks
<1>2. CASE /\ Moves("user") /\ pc'["user"] = "cancel"
           /\ pc["user"] = "send" => call["user"] # CloseMessage("CANCELLED")
    <2>1. Plain("user") /\ Settled
        BY <1>1, <1>2, PlainAbort, SettledUser DEF Plain
    <2>2. ~InFlush("user")' /\ "user" \notin Closers
        BY <1>2 DEF InFlush, Closers
    <2>3. pc["open"] \in {"cancelled", "raised"} => pc'["open"] \in {"cancelled", "raised"}
        BY <1>1, <1>2, OpenStays
    <2> QED
        BY <1>1, <1>2, <2>1, <2>2, <2>3, EndPlain DEF Settled
<1>3. CASE /\ pc["user"] = "join" /\ UNCHANGED <<call, lock, session, wire, conn>>
           /\ \A r \in Task : r # "open" => pc'[r] = pc[r]
           /\ pc'["open"] \in {"raised", "cancelled"}
    <2>1. QueueInv'
        BY QueueStep DEF Next, EndInv
    <2>2. NoClose' <=> NoClose
        BY <1>3 DEF NoClose
    <2>3. UnsentInv'
        BY <1>3, <2>2 DEF EndInv, UnsentInv
    <2>4. CutInv' /\ EosEnding' /\ FullInv'
        BY <1>3 DEF EndInv, CutInv, EosEnding, EosWritten, FullInv, EosFull, StillSent
    <2>5. pc'["user"] = "join" /\ \A r \in {"open", "user"} : ~Pending(r)' /\ ~InFlush(r)'
        BY <1>1, <1>3 DEF Pending, InFlush
    <2>6. LastInv' /\ ~Forced' /\ ~Streaming'
        BY <1>3, <2>5 DEF LastInv, Forced, Streaming
    <2>7. BrokenInv'
        BY <1>3, <2>2, <2>5, <2>6 DEF EndInv, BrokenInv, Broken, StillSent
    <2> QED
        BY <2>1, <2>3, <2>4, <2>6, <2>7 DEF EndInv
<1> QED
    BY <1>2, <1>3, AbortMoves

\* The close that an aborted cancel() takes out of the queue was the one that
\* the end of stream waited behind: the invariant then promises nothing more.
LEMMA EndAborted ==
    ASSUME TypeOK, EndInv, StillSent, NEW t \in Cancellers, CancelAbort(t) PROVE EndInv'
<1>1. /\ t \in Task \ {"open", "user"} /\ Moves(t) /\ Plain(t)
    BY AbortedMoves, PlainAborted
<1>2. /\ pc[t] \in {"send", "drain"} /\ (pc[t] = "send" => pc'[t] = "unsent")
      /\ SameButEnd(session, session')
    BY Aborted
<1>3. t \notin Closers \/ ~NoneUnsent'
    BY <1>2 DEF Closers, NoneUnsent
<1>4. pc["open"] \in {"cancelled", "raised"} => pc'["open"] \in {"cancelled", "raised"}
    BY <1>1, OpenStays
<1> QED
    BY <1>1, <1>2, <1>3, <1>4, EndPlain DEF SameButEnd

LEMMA EndStep ==
    TypeOK /\ LockInv /\ WayInv /\ AudioInv /\ OrderInv /\ EndInv /\ [Next]_vars => EndInv'
<1> SUFFICES ASSUME TypeOK, LockInv, WayInv, AudioInv, OrderInv, EndInv, [Next]_vars
             PROVE  EndInv'
    OBVIOUS
<1>1. StillSent
    BY UnsentStays
<1>2. ASSUME NEW t \in Task, Sends(t) PROVE EndInv'
    BY <1>1, <1>2, EndTransmit, EndSends DEF Sends
<1> QED
    BY <1>1, <1>2, EndFlushes, EndOpens, EndWrites, EndFinishes, EndCancels, EndReader,
       EndAbort, EndAborted DEF Next

LEMMA EndInitially == Init => EndInv
<1> SUFFICES ASSUME Init PROVE EndInv
    OBVIOUS
<1>1. /\ Queue = <<>> /\ wire = <<>> /\ session.ending = FALSE
      /\ session.closeSent = FALSE /\ session.written = 0 /\ session.encoded = 0
      /\ session.pcm = 0
    BY DEF Init, Queue
<1>2. \A t \in Task : pc[t] \in {"begin", "idle", "ready"}
    BY DEF Init
<1>3. QueueInv
    BY <1>1 DEF QueueInv, Once
<1>4. UnsentInv /\ LastInv
    BY <1>1, <1>2, Tasks DEF UnsentInv, LastInv, Pending
<1>5. CutInv
    BY <1>1, AudioAssumption DEF CutInv
<1>6. EosEnding /\ FullInv /\ BrokenInv
    BY <1>1 DEF EosEnding, EosWritten, FullInv, EosFull, BrokenInv, Broken
<1> QED
    BY <1>3, <1>4, <1>5, <1>6 DEF EndInv

\* An end of stream that is written before any close covers all the audio the
\* caller wrote, the last partial frame padded: for chunks of any size, and
\* whoever cancels the session between the last write() and finish(), unless
\* that cancel() is cancelled while its close waits for the send lock.
THEOREM EosIsComplete == Spec => []EosComplete
<1> DEFINE Ended == WayInv /\ AudioInv /\ OrderInv /\ EndInv
<1>1. Init => Ended
    BY InitiallyOrdered, EndInitially
<1>2. TypeOK /\ LockInv /\ Ended /\ [Next]_vars => Ended'
    BY WayStep, AudioStep, OrderStep, EndStep
<1>3. Ended => EosComplete
    BY DEF EndInv, FullInv, EosFull, NoneUnsent, EosComplete
<1> HIDE DEF Ended
<1> QED
    BY <1>1, <1>2, <1>3, TypeCorrect, LockInvariant, PTL DEF Spec
=============================================================================
