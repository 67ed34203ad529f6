---------------------------- MODULE AudioStream ----------------------------
(***************************************************************************)
(* What the Apple TV is promised of one dataSend stream, message by        *)
(* message: it is requested once, the frames of its packets are numbered   *)
(* from 0 without a gap or a repeat, nothing but a close follows the end   *)
(* of stream, and nothing at all follows the close.                        *)
(***************************************************************************)
EXTENDS Naturals

VARIABLES
    phase,     \* how far the stream has come
    messages,  \* how many messages have been written
    first,     \* the number of the first frame of the last packet, if any
    next       \* the number of the frame after the last packet

vars == <<phase, messages, first, next>>

Init == phase = "idle" /\ messages = 0 /\ first = 0 /\ next = 0

Message(from, to) ==
    /\ phase \in from /\ phase' = to
    /\ messages' = messages + 1

Request == Message({"idle"}, "requested") /\ UNCHANGED <<first, next>>

Data ==
    /\ Message({"requested"}, "requested")
    /\ first' = next /\ next' > first'

\* The last packet may be empty.
EndOfStream ==
    /\ Message({"requested"}, "ended")
    /\ first' = next /\ next' >= first'

Close == Message({"requested", "ended"}, "closed") /\ UNCHANGED <<first, next>>

Next == Request \/ Data \/ EndOfStream \/ Close

Spec == Init /\ [][Next]_vars
=============================================================================
