--------------------------- MODULE TargetControl ---------------------------
(***************************************************************************)
(* The HomeKit side of AppleTVHomeKitRemote (remote.py): the configured    *)
(* Apple TV targets, the selected one, the HAP session that activated it,  *)
(* the HDS connections that said whoami, the Siri session as far as those  *)
(* events end it, and the file the targets are saved in.                   *)
(*                                                                         *)
(* Every handler runs on the event loop without awaiting, so a handler is  *)
(* one action.  One that raises before it has changed anything is none.    *)
(* What HAP sessions are told of all this is in Characteristics.           *)
(***************************************************************************)
EXTENDS Naturals, FiniteSets

CONSTANTS
    Target,      \* the 32-bit identifiers of the Apple TVs
    Client,      \* HAP sessions
    Owner,       \* the Apple TV behind each HAP session
    Conn,        \* HDS connections
    Button,      \* configured buttons
    MaxTargets,  \* _MAX_TARGETS
    NoClient, NoConn

ASSUME TargetAssumption ==
    /\ Target \subseteq Nat \ {0} /\ IsFiniteSet(Target)
    /\ Owner \in [Client -> Target]
    /\ NoClient \notin Client
    /\ NoConn \notin Conn
    /\ MaxTargets \in Nat

VARIABLES
    targets,            \* keys of self.targets
    buttons,            \* the buttons of each target
    active_identifier,  \* the selected target, or 0
    active_client,      \* the HAP session that set Active, or NoClient
    hap,                \* the HAP sessions that are connected
    hds,                \* the HDS connections
    hds_connections,    \* connections by the target they identified as
    siri,               \* the Siri session in progress
    disk,               \* targets.json
    dirty               \* whether the last save failed

memory == <<targets, buttons, active_identifier>>
saved == <<disk, dirty>>
vars == <<targets, buttons, active_identifier, active_client, hap, hds,
          hds_connections, siri, disk, dirty>>

NoSession == [live |-> FALSE, cancelling |-> FALSE, stranded |-> FALSE,
              target |-> 0, conn |-> NoConn]

NoHds == [state |-> "absent", client |-> NoClient, target |-> 0, whoami |-> 0]

\* Mutant of Lowest: None for the missing default, where the code has 0.
LowestOrNone(S) == IF S = {} THEN NoConn ELSE CHOOSE t \in S : \A u \in S : t <= u

Lowest(S) == IF S = {} THEN 0 ELSE CHOOSE t \in S : \A u \in S : t <= u

-----------------------------------------------------------------------------
(* Helpers of the handlers.                                                *)

\* _schedule_session_cancel: a task that will call session.cancel().
Cancelled(s) == IF s.live THEN [s EXCEPT !.cancelling = TRUE] ELSE s

\* _save_targets replaces the file as a whole, or raises and leaves it alone.
Save(ok) ==
    /\ disk' = IF ok THEN [targets |-> targets', buttons |-> buttons',
                           active |-> active_identifier'] ELSE disk
    /\ dirty' = ~ok

\* set_active_identifier, for an identifier other than the selected one.  The
\* save comes before the session is cancelled: if it raises, nothing cancels.
Select(t, ok) ==
    /\ active_identifier' = t
    /\ active_client' = NoClient
    /\ Save(ok)

\* Mutant of SelectSession: compared with the identifier already replaced.
SelectSessionLate(s, ok) ==
    IF s.live /\ s.target = active_identifier'
    THEN IF ok THEN Cancelled(s) ELSE [s EXCEPT !.stranded = TRUE]
    ELSE s

SelectSession(s, ok) ==
    IF s.live /\ s.target = active_identifier
    THEN IF ok THEN Cancelled(s) ELSE [s EXCEPT !.stranded = TRUE]
    ELSE s

\* HDSConnection.close() of the connections in C, each with its call of
\* _hds_connection_closed: it leaves the registry, and a session on it ends.
HdsClosed(C) ==
    [c \in Conn |-> IF c \in C /\ hds[c].state = "open"
                    THEN [hds[c] EXCEPT !.state = "closed"] ELSE hds[c]]

Unregistered(C) ==
    [t \in Target |->
        IF \E c \in C : hds_connections[t] = c /\ hds[c].state = "open"
                        /\ hds[c].target = t
        THEN NoConn ELSE hds_connections[t]]

SessionClosed(C) ==
    IF siri.live /\ siri.conn \in C /\ hds[siri.conn].state = "open"
    THEN NoSession ELSE siri

-----------------------------------------------------------------------------
(* hap_target_list_write: the operations of TargetControlList.             *)

Configured(t, B) ==
    /\ targets' = targets \cup {t}
    /\ buttons' = [buttons EXCEPT ![t] = B]

\* Mutant of ListAdd: the first target is selected after the save.
ListAddSavedFirst(t, B, ok) ==
    /\ t \in targets \/ Cardinality(targets) < MaxTargets
    /\ Configured(t, B)
    /\ active_identifier' = IF active_identifier = 0 THEN t ELSE active_identifier
    /\ disk' = IF ok THEN [targets |-> targets', buttons |-> buttons',
                           active |-> active_identifier] ELSE disk
    /\ dirty' = ~ok
    /\ UNCHANGED <<active_client, hap, hds, hds_connections, siri>>

ListAdd(t, B, ok) ==
    /\ t \in targets \/ Cardinality(targets) < MaxTargets
    /\ Configured(t, B)
    /\ active_identifier' = IF active_identifier = 0 THEN t ELSE active_identifier
    /\ Save(ok)
    /\ UNCHANGED <<active_client, hap, hds, hds_connections, siri>>

ListUpdate(t, B, ok) ==
    /\ t \in targets
    /\ Configured(t, buttons[t] \cup B)
    /\ UNCHANGED active_identifier
    /\ Save(ok)
    /\ UNCHANGED <<active_client, hap, hds, hds_connections, siri>>

\* REMOVE with buttons removes buttons; without, the target itself, whose
\* connection is popped before it is closed.
ListRemoveButtons(t, B, ok) ==
    /\ t \in targets /\ B # {}
    /\ Configured(t, buttons[t] \ B)
    /\ UNCHANGED active_identifier
    /\ Save(ok)
    /\ UNCHANGED <<active_client, hap, hds, hds_connections, siri>>

\* Mutant of ListRemove: the removed target stays selected.
ListRemoveSelected(t, ok) ==
    /\ t \in targets
    /\ targets' = targets \ {t}
    /\ buttons' = [buttons EXCEPT ![t] = {}]
    /\ hds' = HdsClosed({hds_connections[t]})
    /\ hds_connections' = [hds_connections EXCEPT ![t] = NoConn]
    /\ siri' = SessionClosed({hds_connections[t]})
    /\ UNCHANGED <<active_identifier, active_client>>
    /\ Save(ok)
    /\ UNCHANGED hap

ListRemove(t, ok) ==
    /\ t \in targets
    /\ targets' = targets \ {t}
    /\ buttons' = [buttons EXCEPT ![t] = {}]
    /\ hds' = HdsClosed({hds_connections[t]})
    /\ hds_connections' = [hds_connections EXCEPT ![t] = NoConn]
    /\ LET s == SessionClosed({hds_connections[t]})
       IN  IF active_identifier = t
           THEN /\ Select(Lowest(targets'), ok)
                /\ siri' = SelectSession(s, ok)
           ELSE /\ siri' = s
                /\ UNCHANGED <<active_identifier, active_client>>
                /\ Save(ok)
    /\ UNCHANGED hap

ListReset(ok) ==
    /\ targets' = {}
    /\ buttons' = [t \in Target |-> {}]
    /\ hds' = HdsClosed(Conn)
    /\ hds_connections' = [t \in Target |-> NoConn]
    /\ active_identifier' = 0
    /\ active_client' = NoClient
    /\ siri' = Cancelled(SessionClosed(Conn))
    /\ Save(ok)
    /\ UNCHANGED hap

\* LIST saves what has not changed.
ListList(ok) ==
    /\ UNCHANGED memory /\ Save(ok)
    /\ UNCHANGED <<active_client, hap, hds, hds_connections, siri>>

\* Any administrator that is connected may write the list.
TargetListWrite ==
    /\ hap # {}
    /\ \E ok \in BOOLEAN :
          \/ \E t \in Target : \E B \in SUBSET Button :
                 ListAdd(t, B, ok) \/ ListUpdate(t, B, ok)
                 \/ ListRemoveButtons(t, B, ok)
          \/ \E t \in Target : ListRemove(t, ok)
          \/ ListReset(ok)
          \/ ListList(ok)

-----------------------------------------------------------------------------
(* Selecting a target, and the Active characteristic.                      *)

\* hap_active_identifier_write, POST /active, and the first step of press()
\* and start_siri() with another target; those two then raise, because no
\* HAP session has activated the new target yet.
SetActiveIdentifier(t, ok) ==
    /\ t \in targets \cup {0} /\ t # active_identifier
    /\ UNCHANGED <<targets, buttons>>
    /\ Select(t, ok)
    /\ siri' = SelectSession(siri, ok)
    /\ UNCHANGED <<hap, hds, hds_connections>>

\* hap_active_write(1): from any HAP session, whichever target is selected.
Activate(c) ==
    /\ c \in hap /\ active_identifier # 0
    /\ active_client' = c
    /\ UNCHANGED <<memory, hap, hds, hds_connections, siri, saved>>

\* hap_active_write(0)
Deactivate(c) ==
    /\ c \in hap /\ active_identifier # 0
    /\ active_client \in {NoClient, c}
    /\ active_client' = NoClient
    /\ siri' = Cancelled(siri)
    /\ UNCHANGED <<memory, hap, hds, hds_connections, saved>>

-----------------------------------------------------------------------------
(* HAP sessions.                                                           *)

HapConnect(c) ==
    /\ c \notin hap
    /\ hap' = hap \cup {c}
    /\ UNCHANGED <<memory, active_client, hds, hds_connections, siri, saved>>

\* Mutant of HapLost: the session that activated Target Control is not
\* forgotten.
HapLostStillActive(c) ==
    /\ c \in hap
    /\ hap' = hap \ {c}
    /\ LET mine == {d \in Conn : hds[d].client = c}
       IN  /\ hds' = HdsClosed(mine)
           /\ hds_connections' = Unregistered(mine)
           /\ siri' = Cancelled(SessionClosed(mine))
    /\ UNCHANGED <<memory, active_client, saved>>

\* _hap_connection_lost, with HDSServer.close_for_client.
HapLost(c) ==
    /\ c \in hap
    /\ hap' = hap \ {c}
    /\ LET mine == {d \in Conn : hds[d].client = c}
       IN  /\ hds' = HdsClosed(mine)
           /\ hds_connections' = Unregistered(mine)
           /\ IF active_client = c
              THEN /\ active_client' = NoClient
                   /\ siri' = Cancelled(SessionClosed(mine))
              ELSE /\ siri' = SessionClosed(mine)
                   /\ UNCHANGED active_client
    /\ UNCHANGED <<memory, saved>>

-----------------------------------------------------------------------------
(* HDS connections: accepted for a HAP session, identified by whoami.      *)

Unused(c) ==
    /\ hds[c].state # "open" /\ hds[c].whoami = 0
    /\ \A t \in Target : hds_connections[t] # c
    /\ siri.conn # c

HdsAccept(c, client) ==
    /\ Unused(c) /\ client \in hap
    /\ hds' = [hds EXCEPT ![c] = [state |-> "open", client |-> client,
                                  target |-> 0, whoami |-> 0]]
    /\ UNCHANGED <<memory, active_client, hap, hds_connections, siri, saved>>

\* The Apple TV's whoami has arrived; the reader has yet to dispatch it, which
\* it does even if the connection is closed in between.
HdsWhoamiArrives(c) ==
    /\ hds[c].state = "open" /\ hds[c].whoami = 0
    /\ hds' = [hds EXCEPT ![c].whoami = Owner[hds[c].client]]
    /\ UNCHANGED <<memory, active_client, hap, hds_connections, siri, saved>>

\* Mutant of HdsWhoami: the connection that is replaced is left open.
HdsWhoamiBoth(c) ==
    /\ hds[c].whoami # 0
    /\ LET t == hds[c].whoami
           closing == IF t \notin targets THEN {c} ELSE {}
       IN  /\ hds' = [HdsClosed(closing) EXCEPT ![c].target = t, ![c].whoami = 0]
           /\ hds_connections' = IF t \notin targets THEN hds_connections
                                 ELSE [hds_connections EXCEPT ![t] = c]
           /\ siri' = SessionClosed(closing)
    /\ UNCHANGED <<memory, active_client, hap, saved>>

\* _handle_message and _hds_whoami
HdsWhoami(c) ==
    /\ hds[c].whoami # 0
    /\ LET t == hds[c].whoami
           closing == IF t \notin targets THEN {c} ELSE {hds_connections[t]} \ {c}
       IN  /\ hds' = [HdsClosed(closing) EXCEPT ![c].target = t, ![c].whoami = 0]
           /\ hds_connections' = IF t \notin targets THEN hds_connections
                                 ELSE [hds_connections EXCEPT ![t] = c]
           /\ siri' = SessionClosed(closing)
    /\ UNCHANGED <<memory, active_client, hap, saved>>

\* The connection ends by itself.
HdsLost(c) ==
    /\ hds[c].state = "open"
    /\ hds' = HdsClosed({c})
    /\ hds_connections' = Unregistered({c})
    /\ siri' = SessionClosed({c})
    /\ UNCHANGED <<memory, active_client, hap, saved>>

\* recover_hds: every connection is closed and forgotten.
CloseHds ==
    /\ hds' = HdsClosed(Conn)
    /\ hds_connections' = [t \in Target |-> NoConn]
    /\ siri' = SessionClosed(Conn)
    /\ UNCHANGED <<memory, active_client, hap, saved>>

-----------------------------------------------------------------------------
(* The Siri session, as far as this module looks into it.                  *)

SiriStart ==
    /\ ~siri.live
    /\ active_identifier # 0 /\ active_client # NoClient
    /\ LET c == hds_connections[active_identifier]
       IN  /\ c # NoConn /\ hds[c].state = "open"
           /\ siri' = [NoSession EXCEPT !.live = TRUE,
                                        !.target = active_identifier, !.conn = c]
    /\ UNCHANGED <<memory, active_client, hap, hds, hds_connections, saved>>

\* Finished, failed, or the scheduled cancel has run.
SiriEnd ==
    /\ siri.live
    /\ siri' = NoSession
    /\ UNCHANGED <<memory, active_client, hap, hds, hds_connections, saved>>

-----------------------------------------------------------------------------
(* stop(), after which start() may run again in the same process; and the  *)
(* start of a process, the first or after a crash: _load_targets.          *)

\* The HAP driver's sessions and the connections of the HDS server are closed.
Stop ==
    /\ hap' = {}
    /\ hds' = HdsClosed(Conn)
    /\ hds_connections' = [t \in Target |-> NoConn]
    /\ active_client' = NoClient
    /\ siri' = NoSession
    /\ UNCHANGED <<memory, saved>>

LoadedActive ==
    IF disk.active \in disk.targets \cup {0} THEN disk.active
    ELSE Lowest(disk.targets)

Restart ==
    /\ targets' = disk.targets
    /\ buttons' = disk.buttons
    /\ active_identifier' = LoadedActive
    /\ active_client' = NoClient
    /\ hap' = {}
    /\ hds' = [c \in Conn |-> NoHds]
    /\ hds_connections' = [t \in Target |-> NoConn]
    /\ siri' = NoSession
    /\ dirty' = FALSE
    /\ UNCHANGED disk

Init ==
    /\ targets = {}
    /\ buttons = [t \in Target |-> {}]
    /\ active_identifier = 0
    /\ active_client = NoClient
    /\ hap = {}
    /\ hds = [c \in Conn |-> NoHds]
    /\ hds_connections = [t \in Target |-> NoConn]
    /\ siri = NoSession
    /\ disk = [targets |-> {}, buttons |-> [t \in Target |-> {}], active |-> 0]
    /\ dirty = FALSE

SelectStep ==
    \E t \in Target \cup {0} : \E ok \in BOOLEAN : SetActiveIdentifier(t, ok)

HapStep ==
    \E c \in Client :
        HapConnect(c) \/ HapLost(c) \/ Activate(c) \/ Deactivate(c)

HdsStep ==
    \E c \in Conn :
        \/ \E client \in Client : HdsAccept(c, client)
        \/ HdsWhoamiArrives(c) \/ HdsWhoami(c) \/ HdsLost(c)

Next ==
    \/ TargetListWrite \/ SelectStep \/ HapStep \/ HdsStep
    \/ SiriStart \/ SiriEnd \/ CloseHds \/ Stop \/ Restart

Spec == Init /\ [][Next]_vars

-----------------------------------------------------------------------------
(* Properties                                                              *)

HdsType == [state: {"absent", "open", "closed"}, client: Client \cup {NoClient},
            target: Target \cup {0}, whoami: Target \cup {0}]

SessionType == [live: BOOLEAN, cancelling: BOOLEAN, stranded: BOOLEAN,
                target: Target \cup {0}, conn: Conn \cup {NoConn}]

DiskType == [targets: SUBSET Target, buttons: [Target -> SUBSET Button],
             active: Target \cup {0}]

\* Every variable stays in its type, and an HDS connection that was accepted has
\* a HAP session it belongs to.
TypeOK ==
    /\ targets \subseteq Target
    /\ buttons \in [Target -> SUBSET Button]
    /\ active_identifier \in Target \cup {0}
    /\ active_client \in Client \cup {NoClient}
    /\ hap \subseteq Client
    /\ hds \in [Conn -> HdsType]
    /\ \A c \in Conn : hds[c].state # "absent" => hds[c].client \in Client
    /\ hds_connections \in [Target -> Conn \cup {NoConn}]
    /\ siri \in SessionType
    /\ disk \in DiskType
    /\ dirty \in BOOLEAN

\* The selected target is a configured one, in memory and in the file, after
\* any mix of list operations, selections, failed saves and restarts, and there
\* are never more targets than _MAX_TARGETS.
ActiveConfigured ==
    /\ active_identifier \in targets \cup {0}
    /\ disk.active \in disk.targets \cup {0}
    /\ Cardinality(targets) <= MaxTargets

\* Whoever has activated Target Control is still connected and a target is
\* selected: no button event or Siri session is attributed to a HAP session
\* that is gone.
ActiveClientConnected ==
    active_client # NoClient => active_client \in hap /\ active_identifier # 0

\* An HDS connection that is open and has identified itself as a target is the
\* one registered for it, and only configured targets have one: there is no
\* live connection of an Apple TV that nothing can reach or replace.
ConnectionsRegistered ==
    /\ \A c \in Conn : (hds[c].state = "open" /\ hds[c].target # 0)
                          => hds_connections[hds[c].target] = c
    /\ \A t \in Target : hds_connections[t] # NoConn => t \in targets

\* A Siri session is on an open connection and, unless its cancellation has
\* been scheduled, to the selected and activated target: switching or losing
\* the target stops the microphone stream to the old one.  The exception is a
\* selection whose save raised, which skips the cancellation.
SessionFollowsTarget ==
    siri.live =>
        /\ siri.conn \in Conn /\ hds[siri.conn].state = "open"
        /\ siri.cancelling \/ siri.stranded
           \/ (siri.target = active_identifier /\ active_client # NoClient)

\* Unless the last save has failed, the file holds what memory holds: a crash
\* after any handler that returned loses nothing, and a restart finds it.
Durable ==
    ~dirty => disk = [targets |-> targets, buttons |-> buttons,
                      active |-> active_identifier]

=============================================================================
