---------------------------- MODULE SessionLife ----------------------------
(***************************************************************************)
(* What a Siri session promises to those who only hold it: abstract        *)
(* specification.  Its dataSend/open is answered, and then stored by _open *)
(* or lost; the session ends only once that is settled, or with its        *)
(* connection, and it ends once.  Whoever waits for `closed' may rely on   *)
(* it.  Implemented by SiriSession, where a session is a set of tasks, and *)
(* by each session of SiriAccess, where it is what start_siri() returned.  *)
(***************************************************************************)

VARIABLES
    open,       \* pending, answered, open (its stream id is stored), or failed
    closed,     \* SiriSession.closed
    connected   \* whether its connection is open

vars == <<open, closed, connected>>

Init == open = "pending" /\ closed = FALSE /\ connected = TRUE

\* An answer that is accepted comes while the session is wanted.
Answer ==
    /\ open = "pending" /\ ~closed
    /\ open' = "answered"
    /\ UNCHANGED <<closed, connected>>

\* _open stores the stream id; it may find the session cancelled, or the id taken.
Open ==
    /\ open = "answered" /\ open' = "open"
    /\ closed' \in {closed, TRUE}
    /\ UNCHANGED connected

\* Rejected, timed out, or cancelled: _open ends the session as it raises.
Fail ==
    /\ open \in {"pending", "answered"} /\ open' = "failed"
    /\ closed' = TRUE
    /\ UNCHANGED connected

\* The task of _open is cancelled before its first step: nothing ends the
\* session but the cancel() of whoever cancelled it.
Abort ==
    /\ open = "pending" /\ open' = "failed"
    /\ UNCHANGED <<closed, connected>>

End ==
    /\ open \in {"open", "failed"} /\ ~closed
    /\ closed' = TRUE
    /\ UNCHANGED <<open, connected>>

Disconnect ==
    /\ connected /\ connected' = FALSE
    /\ closed' = TRUE
    /\ UNCHANGED open

Next == Answer \/ Open \/ Fail \/ Abort \/ End \/ Disconnect

Spec == Init /\ [][Next]_vars

=============================================================================
