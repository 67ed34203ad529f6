----------------------------- MODULE HdsServer -----------------------------
(***************************************************************************)
(* HDSServer (hds.py): the data stream sessions prepared for HAP sessions, *)
(* and the TCP connections that claim them.  The keys of a session exist   *)
(* from its preparation on; whoever presents a first frame under them gets *)
(* the connection, and both nonce counters start at zero.                  *)
(*                                                                         *)
(* Every handler is one action.  _accept awaits the first frame, stop()    *)
(* the listening socket and the connections: each is two.                  *)
(***************************************************************************)
EXTENDS Naturals, FiniteSets

CONSTANTS
    Client,       \* HAP sessions
    Session,      \* data stream sessions that may be prepared
    Tcp,          \* TCP connections
    MaxPrepared,  \* MAX_PREPARED_SESSIONS
    NoClient, NoSession

ASSUME ServerAssumption ==
    /\ IsFiniteSet(Session)
    /\ NoClient \notin Client
    /\ NoSession \notin Session
    /\ MaxPrepared \in Nat \ {0}

VARIABLES
    hap,          \* HAP sessions that are connected
    client_addr,  \* the HAP session each data stream session was prepared for
    prepared,     \* the sessions nobody has claimed yet
    timers,       \* the sessions whose expiry timer is armed
    tcp,          \* what has become of each TCP connection
    key,          \* the session under whose keys it sends its first frame
    connections,  \* HDSServer.connections
    server        \* "down", "up", or in the middle of stop()

stream == <<tcp, key>>
vars == <<hap, client_addr, prepared, timers, tcp, key, connections, server>>

-----------------------------------------------------------------------------

Of(S, c) == {s \in S : client_addr[s] = c}

\* _remove_prepared, for the sessions in S.
RemovePrepared(S) ==
    /\ prepared' = prepared \ S
    /\ timers' = timers \ S

\* HDSConnection.close() and _connection_closed, for the connections in X.
Closed(X) ==
    /\ tcp' = [x \in Tcp |-> IF x \in X /\ tcp[x] = "open" THEN "closed" ELSE tcp[x]]
    /\ connections' = connections \ X

Start ==
    /\ server = "down" /\ server' = "up"
    /\ UNCHANGED <<hap, client_addr, prepared, timers, stream, connections>>

\* Mutants of Prepare: the HAP session is not recorded; no timer; the session
\* that is replaced stays.
PrepareUnowned(c, s) ==
    /\ server # "down" /\ c \in hap
    /\ client_addr[s] = NoClient
    /\ Cardinality(prepared) < MaxPrepared
    /\ prepared' = prepared \cup {s}
    /\ timers' = timers \cup {s}
    /\ UNCHANGED <<hap, client_addr, stream, connections, server>>
PrepareUntimed(c, s) ==
    /\ server # "down" /\ c \in hap
    /\ client_addr[s] = NoClient
    /\ LET others == prepared \ Of(prepared, c)
       IN  /\ Cardinality(others) < MaxPrepared
           /\ client_addr' = [client_addr EXCEPT ![s] = c]
           /\ prepared' = others \cup {s}
           /\ timers' = timers \ Of(prepared, c)
    /\ UNCHANGED <<hap, stream, connections, server>>
PrepareAnother(c, s) ==
    /\ server # "down" /\ c \in hap
    /\ client_addr[s] = NoClient
    /\ Cardinality(prepared \ Of(prepared, c)) < MaxPrepared
    /\ client_addr' = [client_addr EXCEPT ![s] = c]
    /\ prepared' = prepared \cup {s}
    /\ timers' = timers \cup {s}
    /\ UNCHANGED <<hap, stream, connections, server>>

\* SetupDataStreamTransport: the session replaces those prepared for the same
\* HAP session.  It is refused while too many others are pending.
Prepare(c, s) ==
    /\ server # "down" /\ c \in hap
    /\ client_addr[s] = NoClient
    /\ LET others == prepared \ Of(prepared, c)
       IN  /\ Cardinality(others) < MaxPrepared
           /\ client_addr' = [client_addr EXCEPT ![s] = c]
           /\ prepared' = others \cup {s}
           /\ timers' = (timers \ Of(prepared, c)) \cup {s}
    /\ UNCHANGED <<hap, stream, connections, server>>

\* The timer of a session, and _expire_prepared.
ExpirePrepared(s) ==
    /\ s \in timers
    /\ timers' = timers \ {s}
    /\ prepared' = prepared \ {s}
    /\ UNCHANGED <<hap, client_addr, stream, connections, server>>

-----------------------------------------------------------------------------
(* TCP connections.                                                        *)

\* The Apple TV connects once it has the answer to its setup request, perhaps
\* again with the same keys; the server waits for the first frame.
Connect(x, s) ==
    /\ server = "up" /\ tcp[x] = "unused" /\ client_addr[s] # NoClient
    /\ tcp' = [tcp EXCEPT ![x] = "accepting"]
    /\ key' = [key EXCEPT ![x] = s]
    /\ UNCHANGED <<hap, client_addr, prepared, timers, connections, server>>

\* Mutants of Accept: the claimed session can be claimed again; the connection
\* is not entered in the set of connections.
AcceptAgain(x) ==
    /\ tcp[x] = "accepting" /\ key[x] \in prepared
    /\ tcp' = [tcp EXCEPT ![x] = "open"]
    /\ connections' = connections \cup {x}
    /\ UNCHANGED <<hap, client_addr, prepared, timers, key, server>>
AcceptUnlisted(x) ==
    /\ tcp[x] = "accepting" /\ key[x] \in prepared
    /\ RemovePrepared({key[x]})
    /\ tcp' = [tcp EXCEPT ![x] = "open"]
    /\ UNCHANGED <<hap, client_addr, key, connections, server>>

\* The first frame decrypts under the keys of a pending session.
Accept(x) ==
    /\ tcp[x] = "accepting" /\ key[x] \in prepared
    /\ RemovePrepared({key[x]})
    /\ tcp' = [tcp EXCEPT ![x] = "open"]
    /\ connections' = connections \cup {x}
    /\ UNCHANGED <<hap, client_addr, key, server>>

\* It does not, or does not arrive in time.
Reject(x) ==
    /\ tcp[x] = "accepting"
    /\ tcp' = [tcp EXCEPT ![x] = "rejected"]
    /\ UNCHANGED <<hap, client_addr, prepared, timers, key, connections, server>>

\* The connection ends by itself, or the whoami handler closes it.
ConnectionClosed(x) ==
    /\ tcp[x] = "open"
    /\ Closed({x})
    /\ UNCHANGED <<hap, client_addr, prepared, timers, key, server>>

-----------------------------------------------------------------------------
(* Closing for one HAP session, for all of them, and for good.             *)

HapConnect(c) ==
    /\ c \notin hap
    /\ hap' = hap \cup {c}
    /\ UNCHANGED <<client_addr, prepared, timers, stream, connections, server>>

\* Mutant of CloseForClient: pending sessions are left to their timers.
CloseForClientOpen(c) ==
    /\ Closed({x \in connections : client_addr[key[x]] = c})
    /\ UNCHANGED <<prepared, timers>>

\* close_for_client
CloseForClient(c) ==
    /\ RemovePrepared(Of(prepared, c))
    /\ Closed({x \in connections : client_addr[key[x]] = c})

\* The HAP session is lost.
HapLost(c) ==
    /\ c \in hap
    /\ hap' = hap \ {c}
    /\ CloseForClient(c)
    /\ UNCHANGED <<client_addr, key, server>>

\* close_all, on RESET of the target list and in recover_hds().
CloseAll ==
    /\ RemovePrepared(prepared)
    /\ Closed(connections)
    /\ UNCHANGED <<hap, client_addr, key, server>>

StopBegin ==
    /\ server = "up" /\ server' = "stopping"
    /\ RemovePrepared(prepared)
    /\ Closed(connections)
    /\ UNCHANGED <<hap, client_addr, key>>

\* The rest of stop(); HAP sessions may have prepared new sessions meanwhile,
\* and connections that were being accepted may have gone on.
StopEnd ==
    /\ server = "stopping" /\ server' = "down"
    /\ connections' = {}
    /\ UNCHANGED <<hap, client_addr, prepared, timers, stream>>

-----------------------------------------------------------------------------

Init ==
    /\ hap = {}
    /\ client_addr = [s \in Session |-> NoClient]
    /\ prepared = {} /\ timers = {}
    /\ tcp = [x \in Tcp |-> "unused"]
    /\ key = [x \in Tcp |-> NoSession]
    /\ connections = {}
    /\ server = "down"

ClientStep ==
    \E c \in Client :
        HapConnect(c) \/ HapLost(c) \/ \E s \in Session : Prepare(c, s)

TcpStep ==
    \E x \in Tcp :
        \/ \E s \in Session : Connect(x, s)
        \/ Accept(x) \/ Reject(x) \/ ConnectionClosed(x)

Next ==
    \/ ClientStep \/ TcpStep
    \/ \E s \in Session : ExpirePrepared(s)
    \/ Start \/ StopBegin \/ StopEnd \/ CloseAll

Spec == Init /\ [][Next]_vars

\* The event loop runs the timers that are due: call_later, asyncio.timeout.
Fairness ==
    /\ \A s \in Session : WF_vars(ExpirePrepared(s))
    /\ \A x \in Tcp : WF_vars(Reject(x))

FairSpec == Spec /\ Fairness

-----------------------------------------------------------------------------
(* Properties                                                              *)

\* Every variable stays in its type, and a session that is pending or has been
\* presented by a connection was prepared for some HAP session.
TypeOK ==
    /\ hap \subseteq Client
    /\ client_addr \in [Session -> Client \cup {NoClient}]
    /\ prepared \subseteq {s \in Session : client_addr[s] # NoClient}
    /\ timers \subseteq Session
    /\ tcp \in [Tcp -> {"unused", "accepting", "open", "closed", "rejected"}]
    /\ key \in [Tcp -> Session \cup {NoSession}]
    /\ \A x \in Tcp : tcp[x] # "unused" =>
            key[x] \in {s \in Session : client_addr[s] # NoClient}
    /\ connections \subseteq Tcp
    /\ server \in {"down", "up", "stopping"}

Claimed(x) == tcp[x] \in {"open", "closed"}

\* The keys of a session never back two connections, nor stay claimable once
\* one has them: its nonce counters, which start at zero, never start again.
KeysUsedOnce ==
    \A x \in Tcp : Claimed(x) =>
        /\ key[x] \notin prepared
        /\ \A y \in Tcp : Claimed(y) /\ key[x] = key[y] => x = y

\* A data stream does not outlive the HAP session whose Pair Verify secret it
\* is keyed with, be it pending or open, whenever its first frame comes.
StreamsHaveHapSession ==
    /\ \A s \in prepared : client_addr[s] \in hap
    /\ \A x \in Tcp : tcp[x] = "open" => client_addr[key[x]] \in hap

\* Whatever is open can be reached by close_for_client, close_all and stop(),
\* and nothing is open when stop() has returned: connections that were being
\* accepted, and sessions prepared, while it waited do not slip through.
OpenAreListed ==
    /\ \A x \in Tcp : tcp[x] = "open" <=> x \in connections
    /\ server = "down" => connections = {}

\* A HAP session has one pending session at most, and setup requests cannot
\* pile up beyond MAX_PREPARED_SESSIONS.
PendingBounded ==
    /\ \A s, t \in prepared : client_addr[s] = client_addr[t] => s = t
    /\ Cardinality(prepared) <= MaxPrepared

\* Neither a prepared session that nobody claims nor a TCP connection that
\* sends nothing stays for ever.
PendingEnds ==
    /\ \A s \in Session : s \in prepared ~> s \notin prepared
    /\ \A x \in Tcp : tcp[x] = "accepting" ~> tcp[x] # "accepting"

=============================================================================
