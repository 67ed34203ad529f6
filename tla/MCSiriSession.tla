--------------------------- MODULE MCSiriSession ---------------------------
(***************************************************************************)
(* Small instances of SiriSession for TLC, and the mappings under which it *)
(* implements AudioStream and SessionLife.                                 *)
(***************************************************************************)
EXTENDS SiriSession, TLC

Symmetry == Permutations(Cancellers)

LastData ==
    LET all == DataBefore(Len(wire))
    IN  wire[CHOOSE i \in all : \A j \in all : j <= i]

\* A second request, data after the end or anything after a close is a phase
\* that AudioStream does not have.
Misplaced(m, earlier) ==
    \/ m.type = "open"
    \/ earlier.type = "close"
    \/ m.type = "data" /\ earlier.type = "data" /\ earlier.eos

StreamPhase ==
    IF \E i, j \in DOMAIN wire : i < j /\ Misplaced(wire[j], wire[i]) THEN "broken"
    ELSE IF Written("close") THEN "closed"
    ELSE IF EosWritten THEN "ended"
    ELSE IF wire # <<>> THEN "requested" ELSE "idle"

StreamFirst == IF DataBefore(Len(wire)) = {} THEN 0 ELSE LastData.sequence

StreamNext ==
    IF DataBefore(Len(wire)) = {} THEN 0
    ELSE LastData.sequence + LastData.count

Stream == INSTANCE AudioStream
              WITH phase <- StreamPhase, messages <- Len(wire),
                   first <- StreamFirst, next <- StreamNext

\* The session implements the stream the Apple TV is promised, as long as no
\* send suspends: the closed and _close_sent flags are tested and the message
\* written without another task in between.
ImplementsAudioStream == Stream!Spec

LifeOpen ==
    IF session.opened THEN "open"
    ELSE IF pc["open"] = "raised" THEN "failed"
    ELSE IF conn.future = "accept" THEN "answered" ELSE "pending"

Life == INSTANCE SessionLife
            WITH open <- LifeOpen, closed <- session.closed,
                 connected <- conn.state # "closed"

\* Whatever sends suspend and tasks are cancelled, the session leads the life
\* that start_siri() and its callers reckon with: no task ends it while _open
\* is still to answer, no connection ends without ending it, it ends once.
ImplementsSessionLife == Life!Spec
=============================================================================
