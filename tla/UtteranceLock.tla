--------------------------- MODULE UtteranceLock ---------------------------
(***************************************************************************)
(* What the callers of start_siri() are promised of each other: abstract   *)
(* specification.  One of them speaks at a time, and they come to speak    *)
(* in the order in which they asked, except for those that give up or are  *)
(* refused when their turn comes.  Implemented by SiriAccess.              *)
(***************************************************************************)
EXTENDS Naturals, Sequences

CONSTANTS Caller, None

VARIABLES
    speaking,   \* whose utterance is in progress, or None
    waiting     \* who waits for it to be over, in order

vars == <<speaking, waiting>>

Init == speaking = None /\ waiting = <<>>

\* Whoever cannot begin at once queues up, also behind an utterance that is
\* over and whose watching task has not run yet.
Join(c) ==
    /\ \A i \in DOMAIN waiting : waiting[i] # c
    /\ waiting' = Append(waiting, c)
    /\ UNCHANGED speaking

\* Nobody else's place changes.
Leave(c) ==
    /\ \E i \in DOMAIN waiting :
        /\ waiting[i] = c
        /\ waiting' = [j \in 1..Len(waiting) - 1 |->
                           IF j < i THEN waiting[j] ELSE waiting[j + 1]]
    /\ UNCHANGED speaking

Begin(c) ==
    /\ speaking = None
    /\ \/ waiting = <<>> /\ UNCHANGED waiting
       \/ waiting # <<>> /\ Head(waiting) = c /\ waiting' = Tail(waiting)
    /\ speaking' = c

End == speaking # None /\ speaking' = None /\ UNCHANGED waiting

Next == (\E c \in Caller : Join(c) \/ Leave(c) \/ Begin(c)) \/ End

Spec == Init /\ [][Next]_vars

=============================================================================
