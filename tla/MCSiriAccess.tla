---------------------------- MODULE MCSiriAccess ----------------------------
(***************************************************************************)
(* Small instances of SiriAccess for TLC, and the mappings under which it  *)
(* implements SessionLife and UtteranceLock.                               *)
(***************************************************************************)
EXTENDS SiriAccess, TLC

Symmetry ==
    Permutations(Caller) \cup Permutations(StreamId) \cup Permutations(Conn)
        \cup Permutations(Recoverer)

-----------------------------------------------------------------------------
(* Each session lives as SessionLife says.                                 *)

LifeOpen(s) ==
    CASE sessions[s].open = "none" -> "pending"
      [] sessions[s].open = "done" ->
            IF sessions[s].stream = None THEN "failed" ELSE "open"
      [] OTHER -> sessions[s].open

OnConnection(s) == sessions[s].open = "none" \/ sessions[s].conn = hds_connection

Life(s) == INSTANCE SessionLife
           WITH open <- LifeOpen(s), closed <- sessions[s].closed,
                connected <- OnConnection(s)

\* Each session of start_siri() has the life of a SiriSession, whatever the
\* lock, the registry, recover_hds() and stop() do with it: it does not end
\* while its request is open and its connection stands, and it never outlives
\* that connection.
SessionsLive ==
    /\ \A s \in Caller : Life(s)!Init
    /\ [][\A s \in Caller : [Life(s)!Next]_(Life(s)!vars)]_vars

-----------------------------------------------------------------------------
(* The calls of start_siri() take turns as UtteranceLock says.             *)

Speaking ==
    IF \E s \in Caller : Live(s) THEN CHOOSE s \in Caller : Live(s) ELSE None

Turns == INSTANCE UtteranceLock WITH speaking <- Speaking, waiting <- lock.waiters

\* One utterance at a time, first come first served: whoever waits for the lock
\* is overtaken by nobody, neither by a call that comes when the lock has just
\* been released, nor when others ahead of it time out, nor through recovery,
\* stop and restart.
TurnsAreTaken == Turns!Spec
=============================================================================
