-------------------------- MODULE HdsServerProofs --------------------------
(***************************************************************************)
(* The safety properties of HdsServer for every number of HAP sessions,    *)
(* data stream sessions and TCP connections.                               *)
(***************************************************************************)
EXTENDS HdsServer, FiniteSetTheorems, TLAPS

-----------------------------------------------------------------------------
(* Types.                                                                  *)

\* Every step keeps the types.
LEMMA TypeStep == TypeOK /\ [Next]_vars => TypeOK'
<1> SUFFICES ASSUME TypeOK, [Next]_vars PROVE TypeOK'
    OBVIOUS
<1> USE DEF TypeOK, stream
<1>1. ASSUME NEW c \in Client, HapConnect(c) \/ HapLost(c)
      PROVE  TypeOK'
    BY <1>1 DEF HapConnect, HapLost, CloseForClient, RemovePrepared, Closed, Of
<1>2. ASSUME NEW c \in Client, NEW s \in Session, Prepare(c, s)
      PROVE  TypeOK'
    BY <1>2, ServerAssumption DEF Prepare, Of
<1>3. ASSUME NEW x \in Tcp, NEW s \in Session, Connect(x, s)
      PROVE  TypeOK'
    BY <1>3 DEF Connect
<1>4. ASSUME NEW x \in Tcp, Accept(x) \/ Reject(x) \/ ConnectionClosed(x)
      PROVE  TypeOK'
    BY <1>4 DEF Accept, Reject, ConnectionClosed, RemovePrepared, Closed
<1>5. ASSUME NEW s \in Session, ExpirePrepared(s)
      PROVE  TypeOK'
    BY <1>5 DEF ExpirePrepared
<1>6. CASE Start \/ StopBegin \/ StopEnd \/ CloseAll
    BY <1>6 DEF Start, StopBegin, StopEnd, CloseAll, RemovePrepared, Closed
<1>7. CASE UNCHANGED vars
    BY <1>7 DEF vars
<1> QED
    BY <1>1, <1>2, <1>3, <1>4, <1>5, <1>6, <1>7 DEF Next, ClientStep, TcpStep

LEMMA TypeInit == Init => TypeOK
BY DEF Init, TypeOK

\* The server's fields keep their types, and only sessions that were prepared
\* are pending or presented.
THEOREM TypeCorrect == Spec => []TypeOK
BY TypeInit, TypeStep, PTL DEF Spec

-----------------------------------------------------------------------------
(* Keys are used once.  The property is inductive with the types: a session*)
(* that is prepared is fresh, so no connection presents its keys yet.      *)

LEMMA KeysStep == TypeOK /\ KeysUsedOnce /\ [Next]_vars => KeysUsedOnce'
<1> SUFFICES ASSUME TypeOK, KeysUsedOnce, [Next]_vars PROVE KeysUsedOnce'
    OBVIOUS
<1> USE DEF KeysUsedOnce, Claimed, stream
<1>1. ASSUME NEW c \in Client, HapConnect(c) \/ HapLost(c)
      PROVE  KeysUsedOnce'
    BY <1>1 DEF HapConnect, HapLost, CloseForClient, RemovePrepared, Closed, TypeOK
<1>2. ASSUME NEW c \in Client, NEW s \in Session, Prepare(c, s)
      PROVE  KeysUsedOnce'
    <2>1. \A x \in Tcp : Claimed(x) => key[x] # s
        BY <1>2 DEF Prepare, TypeOK
    <2>2. UNCHANGED stream /\ prepared' \subseteq prepared \cup {s}
        BY <1>2 DEF Prepare
    <2> QED
        BY <2>1, <2>2
<1>3. ASSUME NEW x \in Tcp, NEW s \in Session, Connect(x, s)
      PROVE  KeysUsedOnce'
    BY <1>3 DEF Connect, TypeOK
<1>4. ASSUME NEW x \in Tcp, Accept(x) \/ Reject(x) \/ ConnectionClosed(x)
      PROVE  KeysUsedOnce'
    BY <1>4 DEF Accept, Reject, ConnectionClosed, RemovePrepared, Closed, TypeOK
<1>5. ASSUME NEW s \in Session, ExpirePrepared(s)
      PROVE  KeysUsedOnce'
    BY <1>5 DEF ExpirePrepared
<1>6. CASE Start \/ StopBegin \/ StopEnd \/ CloseAll
    BY <1>6 DEF Start, StopBegin, StopEnd, CloseAll, RemovePrepared, Closed, TypeOK
<1>7. CASE UNCHANGED vars
    BY <1>7 DEF vars
<1> QED
    BY <1>1, <1>2, <1>3, <1>4, <1>5, <1>6, <1>7 DEF Next, ClientStep, TcpStep

\* No two connections, at the same time or one after the other, ever use the
\* keys of one prepared session, whatever frames are presented and when.
THEOREM KeysAreUsedOnce == Spec => []KeysUsedOnce
<1>1. Init => KeysUsedOnce
    BY DEF Init, KeysUsedOnce, Claimed
<1> QED
    BY <1>1, TypeInit, TypeStep, KeysStep, PTL DEF Spec

-----------------------------------------------------------------------------
(* Data streams of HAP sessions that are gone.                             *)

LEMMA StreamsStep ==
    TypeOK /\ OpenAreListed /\ StreamsHaveHapSession /\ [Next]_vars
        => StreamsHaveHapSession'
<1> SUFFICES ASSUME TypeOK, OpenAreListed, StreamsHaveHapSession, [Next]_vars
             PROVE  StreamsHaveHapSession'
    OBVIOUS
<1> USE DEF StreamsHaveHapSession, stream
<1>1. ASSUME NEW c \in Client, HapConnect(c)
      PROVE  StreamsHaveHapSession'
    BY <1>1 DEF HapConnect
<1>2. ASSUME NEW c \in Client, HapLost(c)
      PROVE  StreamsHaveHapSession'
    BY <1>2 DEF HapLost, CloseForClient, RemovePrepared, Closed, Of, TypeOK,
                OpenAreListed
<1>3. ASSUME NEW c \in Client, NEW s \in Session, Prepare(c, s)
      PROVE  StreamsHaveHapSession'
    <2>1. /\ c \in hap /\ client_addr[s] = NoClient
          /\ client_addr' = [client_addr EXCEPT ![s] = c]
          /\ prepared' \subseteq prepared \cup {s}
          /\ UNCHANGED <<hap, tcp, key>>
        BY <1>3 DEF Prepare
    <2>2. \A x \in Tcp : tcp[x] = "open" => key[x] \in Session /\ key[x] # s
        BY <2>1 DEF TypeOK
    <2>3. prepared \subseteq Session /\ s \notin prepared
        BY <2>1 DEF TypeOK
    <2> QED
        BY <2>1, <2>2, <2>3 DEF TypeOK
<1>4. ASSUME NEW x \in Tcp, NEW s \in Session, Connect(x, s)
      PROVE  StreamsHaveHapSession'
    BY <1>4 DEF Connect, TypeOK
<1>5. ASSUME NEW x \in Tcp, Accept(x) \/ Reject(x) \/ ConnectionClosed(x)
      PROVE  StreamsHaveHapSession'
    BY <1>5 DEF Accept, Reject, ConnectionClosed, RemovePrepared, Closed, TypeOK
<1>6. ASSUME NEW s \in Session, ExpirePrepared(s)
      PROVE  StreamsHaveHapSession'
    BY <1>6 DEF ExpirePrepared
<1>7. CASE Start \/ StopBegin \/ StopEnd \/ CloseAll
    BY <1>7 DEF Start, StopBegin, StopEnd, CloseAll, RemovePrepared, Closed, TypeOK
<1>8. CASE UNCHANGED vars
    BY <1>8 DEF vars
<1> QED
    BY <1>1, <1>2, <1>3, <1>4, <1>5, <1>6, <1>7, <1>8 DEF Next, ClientStep, TcpStep

-----------------------------------------------------------------------------
(* What is open is listed.  stop() clears the list without looking, so the *)
(* list has to be empty by then: nothing that is still being accepted can  *)
(* claim a session, not even one that is prepared while stop() waits.      *)

StopInv ==
    server # "up" =>
        /\ connections = {}
        /\ \A x \in Tcp : tcp[x] = "accepting" => key[x] \notin prepared

LEMMA ListedStep ==
    TypeOK /\ OpenAreListed /\ StopInv /\ [Next]_vars => (OpenAreListed /\ StopInv)'
<1> SUFFICES ASSUME TypeOK, OpenAreListed, StopInv, [Next]_vars
             PROVE  (OpenAreListed /\ StopInv)'
    OBVIOUS
<1> USE DEF OpenAreListed, StopInv, stream
<1>1. ASSUME NEW c \in Client, HapConnect(c) \/ HapLost(c)
      PROVE  (OpenAreListed /\ StopInv)'
    BY <1>1 DEF HapConnect, HapLost, CloseForClient, RemovePrepared, Closed, TypeOK
<1>2. ASSUME NEW c \in Client, NEW s \in Session, Prepare(c, s)
      PROVE  (OpenAreListed /\ StopInv)'
    <2>1. /\ client_addr[s] = NoClient
          /\ prepared' \subseteq prepared \cup {s}
          /\ UNCHANGED <<tcp, key, connections, server>>
        BY <1>2 DEF Prepare
    <2>2. \A x \in Tcp : tcp[x] = "accepting" => key[x] # s
        BY <2>1 DEF TypeOK
    <2> QED
        BY <2>1, <2>2
<1>3. ASSUME NEW x \in Tcp, NEW s \in Session, Connect(x, s)
      PROVE  (OpenAreListed /\ StopInv)'
    BY <1>3 DEF Connect, TypeOK
<1>4. ASSUME NEW x \in Tcp, Accept(x)
      PROVE  (OpenAreListed /\ StopInv)'
    BY <1>4 DEF Accept, RemovePrepared, TypeOK
<1>5. ASSUME NEW x \in Tcp, Reject(x) \/ ConnectionClosed(x)
      PROVE  (OpenAreListed /\ StopInv)'
    BY <1>5 DEF Reject, ConnectionClosed, Closed, TypeOK
<1>6. ASSUME NEW s \in Session, ExpirePrepared(s)
      PROVE  (OpenAreListed /\ StopInv)'
    BY <1>6 DEF ExpirePrepared
<1>7. CASE Start \/ StopBegin \/ StopEnd \/ CloseAll
    BY <1>7 DEF Start, StopBegin, StopEnd, CloseAll, RemovePrepared, Closed, TypeOK
<1>8. CASE UNCHANGED vars
    BY <1>8 DEF vars
<1> QED
    BY <1>1, <1>2, <1>3, <1>4, <1>5, <1>6, <1>7, <1>8 DEF Next, ClientStep, TcpStep

LEMMA ListedInit == Init => OpenAreListed /\ StopInv
BY DEF Init, OpenAreListed, StopInv

\* Whatever is open can be closed, and stop() leaves nothing open.
THEOREM OpenConnectionsAreListed == Spec => []OpenAreListed
BY TypeInit, TypeStep, ListedInit, ListedStep, PTL DEF Spec

\* No data stream, pending or open, outlives its HAP session.
THEOREM StreamsEndWithHapSession == Spec => []StreamsHaveHapSession
<1>1. Init => StreamsHaveHapSession
    BY DEF Init, StreamsHaveHapSession
<1> QED
    BY <1>1, TypeInit, TypeStep, ListedInit, ListedStep, StreamsStep, PTL DEF Spec

-----------------------------------------------------------------------------
(* Pending sessions.                                                       *)

\* Removing sessions keeps the bound and leaves one at most per HAP session.
LEMMA PendingShrinks ==
    ASSUME TypeOK, PendingBounded, NEW S, S \subseteq prepared
    PROVE  IsFiniteSet(S) /\ Cardinality(S) \in Nat /\ Cardinality(S) <= MaxPrepared
<1>1. IsFiniteSet(prepared)
    BY ServerAssumption, FS_Subset DEF TypeOK
<1>2. /\ Cardinality(S) \in Nat /\ Cardinality(prepared) \in Nat
      /\ Cardinality(S) <= Cardinality(prepared)
    BY <1>1, FS_Subset, FS_CardinalityType
<1> QED
    BY <1>1, <1>2, FS_Subset, ServerAssumption DEF PendingBounded

LEMMA PendingStep == TypeOK /\ PendingBounded /\ [Next]_vars => PendingBounded'
<1> SUFFICES ASSUME TypeOK, PendingBounded, [Next]_vars PROVE PendingBounded'
    OBVIOUS
<1>1. ASSUME prepared' \subseteq prepared, UNCHANGED client_addr
      PROVE  PendingBounded'
    BY <1>1, PendingShrinks DEF PendingBounded
<1>2. ASSUME NEW c \in Client, NEW s \in Session, Prepare(c, s)
      PROVE  PendingBounded'
    <2> DEFINE others == prepared \ Of(prepared, c)
    <2>1. /\ client_addr[s] = NoClient
          /\ client_addr' = [client_addr EXCEPT ![s] = c]
          /\ prepared' = others \cup {s}
          /\ Cardinality(others) < MaxPrepared
        BY <1>2 DEF Prepare
    <2>2. s \notin prepared /\ prepared \subseteq Session
        BY <2>1 DEF TypeOK
    <2>3. Cardinality(prepared') <= MaxPrepared
        <3>1. IsFiniteSet(others) /\ Cardinality(others) \in Nat
            BY PendingShrinks
        <3>2. Cardinality(others \cup {s}) = Cardinality(others) + 1
            BY <2>2, <3>1, FS_AddElement
        <3> QED
            BY <2>1, <3>1, <3>2, ServerAssumption
    <2>4. \A t \in others : client_addr[t] # c /\ t \in prepared /\ t # s
        BY <2>2 DEF Of
    <2>5. \A t \in others : client_addr'[t] = client_addr[t]
        BY <2>1, <2>2, <2>4 DEF TypeOK
    <2>6. client_addr'[s] = c
        BY <2>1 DEF TypeOK
    <2>7. ASSUME NEW t \in prepared', NEW u \in prepared',
                 client_addr'[t] = client_addr'[u]
          PROVE  t = u
        <3> HIDE DEF others
        <3> QED
            BY <2>1, <2>4, <2>5, <2>6, <2>7 DEF PendingBounded
    <2> QED
        BY <2>3, <2>7 DEF PendingBounded
<1>3. ASSUME NEW c \in Client, HapConnect(c) \/ HapLost(c)
      PROVE  PendingBounded'
    BY <1>1, <1>3 DEF HapConnect, HapLost, CloseForClient, RemovePrepared
<1>4. CASE TcpStep
    BY <1>1, <1>4 DEF TcpStep, Connect, Accept, Reject, ConnectionClosed, RemovePrepared
<1>5. CASE \E s \in Session : ExpirePrepared(s)
    BY <1>1, <1>5 DEF ExpirePrepared
<1>6. CASE Start \/ StopBegin \/ StopEnd \/ CloseAll
    BY <1>1, <1>6 DEF Start, StopBegin, StopEnd, CloseAll, RemovePrepared
<1>7. CASE UNCHANGED vars
    BY <1>1, <1>7 DEF vars
<1> QED
    BY <1>2, <1>3, <1>4, <1>5, <1>6, <1>7 DEF Next, ClientStep

\* Setup requests never pile up beyond the bound, with one session at most for
\* each HAP session.
THEOREM PendingIsBounded == Spec => []PendingBounded
<1>1. Init => PendingBounded
    BY FS_EmptySet, ServerAssumption DEF Init, PendingBounded
<1> QED
    BY <1>1, TypeInit, TypeStep, PendingStep, PTL DEF Spec

=============================================================================
