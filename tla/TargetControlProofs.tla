------------------------ MODULE TargetControlProofs ------------------------
(***************************************************************************)
(* Proofs that the invariants of TargetControl hold for every set of       *)
(* targets, HAP sessions, HDS connections and buttons.  Characteristics    *)
(* implements TargetControl, so that they hold with HAP sessions that      *)
(* read, write and are notified; and every session that listens knows the  *)
(* values, for any number of them.                                         *)
(***************************************************************************)
EXTENDS Characteristics, FiniteSetTheorems, WellFoundedInduction, TLAPS

\* The target chosen in place of a removed one is one of the targets left.
LEMMA LowestType ==
    ASSUME NEW S, S \subseteq Target
    PROVE  Lowest(S) \in S \cup {0}
<1>1. CASE S = {}
    BY <1>1 DEF Lowest
<1>2. CASE S # {}
    <2> DEFINE R == OpToRel(<, Nat)
    <2>1. S \subseteq Nat
        BY TargetAssumption
    <2>2. IsWellFoundedOn(R, Nat)
        BY NatLessThanWellFounded
    <2>3. \E t \in S : \A u \in S : <<u, t>> \notin R
        <3> HIDE DEF R
        <3> QED
            BY <1>2, <2>1, <2>2, WFMin
    <2>4. \A t, u \in Nat : u < t => <<u, t>> \in R
        BY DEF OpToRel
    <2>5. \E t \in S : \A u \in S : t <= u
        <3>1. PICK t \in S : \A u \in S : <<u, t>> \notin R
            BY <2>3
        <3> HIDE DEF R
        <3>2. \A u \in S : ~ (u < t)
            BY <2>1, <2>4, <3>1
        <3>3. \A u \in S : t <= u
            BY <2>1, <3>2
        <3> QED
            BY <3>3
    <2> QED
        BY <1>2, <2>5 DEF Lowest
<1> QED
    BY <1>1, <1>2

-----------------------------------------------------------------------------
(* Type correctness.                                                       *)

\* Closing connections keeps the types of what it changes.
LEMMA ClosingTypes ==
    ASSUME TypeOK, NEW C
    PROVE  /\ HdsClosed(C) \in [Conn -> HdsType]
           /\ \A c \in Conn : HdsClosed(C)[c].state # "absent"
                                 => HdsClosed(C)[c].client \in Client
           /\ Unregistered(C) \in [Target -> Conn \cup {NoConn}]
           /\ SessionClosed(C) \in SessionType
           /\ NoSession \in SessionType
<1>1. \A c \in Conn : [hds[c] EXCEPT !.state = "closed"] \in HdsType
    BY DEF TypeOK, HdsType
<1>2. HdsClosed(C) \in [Conn -> HdsType]
    BY <1>1 DEF TypeOK, HdsClosed
<1>3. \A c \in Conn : HdsClosed(C)[c].state # "absent"
                         => HdsClosed(C)[c].client \in Client
    BY DEF TypeOK, HdsClosed, HdsType
<1>4. Unregistered(C) \in [Target -> Conn \cup {NoConn}]
    BY DEF TypeOK, Unregistered
<1>5. NoSession \in SessionType
    BY DEF NoSession, SessionType
<1> QED
    BY <1>2, <1>3, <1>4, <1>5 DEF SessionClosed, TypeOK

LEMMA CancelledType ==
    ASSUME NEW s \in SessionType, NEW ok
    PROVE  Cancelled(s) \in SessionType /\ SelectSession(s, ok) \in SessionType
BY DEF Cancelled, SelectSession, SessionType

\* A save keeps the type of the file when memory has its type afterwards.
LEMMA SaveType ==
    ASSUME TypeOK, NEW ok \in BOOLEAN, Save(ok),
           targets' \subseteq Target, buttons' \in [Target -> SUBSET Button],
           active_identifier' \in Target \cup {0}
    PROVE  disk' \in DiskType /\ dirty' \in BOOLEAN
BY DEF Save, TypeOK, DiskType

\* The initial state has the types.
LEMMA TypeInit == Init => TypeOK
<1> SUFFICES ASSUME Init PROVE TypeOK
    OBVIOUS
<1>1. NoHds \in HdsType /\ NoHds.state = "absent"
    BY DEF NoHds, HdsType
<1>2. NoSession \in SessionType
    BY DEF NoSession, SessionType
<1>3. disk \in DiskType
    BY DEF Init, DiskType
<1> QED
    BY <1>1, <1>2, <1>3 DEF Init, TypeOK

\* Writes of TargetControlList keep the types.
LEMMA TypeList == TypeOK /\ TargetListWrite => TypeOK'
<1> SUFFICES ASSUME TypeOK, TargetListWrite PROVE TypeOK'
    OBVIOUS
<1>1. ASSUME NEW ok \in BOOLEAN, NEW t \in Target, NEW B \in SUBSET Button,
             ListAdd(t, B, ok) \/ ListUpdate(t, B, ok) \/ ListRemoveButtons(t, B, ok)
      PROVE  TypeOK'
    BY <1>1, SaveType DEF ListAdd, ListUpdate, ListRemoveButtons, Configured,
                          TypeOK
<1>2. ASSUME NEW ok \in BOOLEAN, NEW t \in Target, ListRemove(t, ok)
      PROVE  TypeOK'
    <2>1. /\ hds' \in [Conn -> HdsType]
          /\ \A c \in Conn : hds'[c].state # "absent" => hds'[c].client \in Client
        BY <1>2, ClosingTypes DEF ListRemove
    <2>2. targets' \subseteq Target /\ buttons' \in [Target -> SUBSET Button]
        BY <1>2 DEF ListRemove, TypeOK
    <2>3. /\ active_identifier' \in Target \cup {0}
          /\ active_client' \in Client \cup {NoClient}
        BY <1>2, <2>2, LowestType DEF ListRemove, Select, TypeOK
    <2>4. disk' \in DiskType /\ dirty' \in BOOLEAN
        BY <1>2, <2>2, <2>3, SaveType DEF ListRemove, Select
    <2>5. siri' \in SessionType
        BY <1>2, ClosingTypes, CancelledType DEF ListRemove
    <2> QED
        BY <1>2, <2>1, <2>2, <2>3, <2>4, <2>5 DEF ListRemove, TypeOK
<1>3. ASSUME NEW ok \in BOOLEAN, ListReset(ok)
      PROVE  TypeOK'
    <2>1. disk' \in DiskType /\ dirty' \in BOOLEAN
        BY <1>3, SaveType DEF ListReset
    <2>2. siri' \in SessionType
        BY <1>3, ClosingTypes, CancelledType DEF ListReset
    <2> QED
        BY <1>3, <2>1, <2>2, ClosingTypes DEF ListReset, TypeOK
<1>4. ASSUME NEW ok \in BOOLEAN, ListList(ok)
      PROVE  TypeOK'
    BY <1>4, SaveType DEF ListList, TypeOK, memory
<1> QED
    BY <1>1, <1>2, <1>3, <1>4 DEF TargetListWrite

\* Selecting a target keeps the types.
LEMMA TypeSelect == TypeOK /\ SelectStep => TypeOK'
<1> SUFFICES ASSUME TypeOK, NEW t \in targets \cup {0}, NEW ok \in BOOLEAN,
                    Select(t, ok), siri' = SelectSession(siri, ok),
                    UNCHANGED <<targets, buttons>>,
                    UNCHANGED <<hap, hds, hds_connections>>
             PROVE  TypeOK'
    BY DEF SelectStep, SetActiveIdentifier
<1>1. siri' \in SessionType
    BY CancelledType DEF TypeOK
<1>2. disk' \in DiskType /\ dirty' \in BOOLEAN
    BY SaveType DEF Select, TypeOK
<1> QED
    BY <1>1, <1>2 DEF Select, TypeOK

\* So do the steps of HAP sessions.
LEMMA TypeHap == TypeOK /\ HapStep => TypeOK'
<1> SUFFICES ASSUME TypeOK, NEW c \in Client,
                    \/ HapConnect(c) \/ HapLost(c) 
                    \/ Activate(c) \/ Deactivate(c)
             PROVE  TypeOK'
    BY DEF HapStep
<1>1. CASE HapConnect(c) \/ Activate(c)
    BY <1>1 DEF HapConnect, Activate, TypeOK, memory, saved
<1>2. CASE Deactivate(c)
    BY <1>2, CancelledType DEF Deactivate, TypeOK, memory, saved
<1>3. CASE HapLost(c)
    <2> DEFINE mine == {d \in Conn : hds[d].client = c}
    <2>1. siri' \in SessionType
        BY <1>3, ClosingTypes, CancelledType DEF HapLost
    <2>2. /\ hds' \in [Conn -> HdsType]
          /\ \A d \in Conn : hds'[d].state # "absent" => hds'[d].client \in Client
          /\ hds_connections' \in [Target -> Conn \cup {NoConn}]
        BY <1>3, ClosingTypes DEF HapLost
    <2> QED
        BY <1>3, <2>1, <2>2 DEF HapLost, TypeOK, memory, saved
<1> QED
    BY <1>1, <1>2, <1>3

\* So do the steps of HDS connections.
LEMMA TypeHds == TypeOK /\ HdsStep => TypeOK'
<1> SUFFICES ASSUME TypeOK, NEW c \in Conn,
                    \/ \E client \in Client : HdsAccept(c, client)
                    \/ HdsWhoamiArrives(c) \/ HdsWhoami(c) \/ HdsLost(c)
             PROVE  TypeOK'
    BY DEF HdsStep
<1>1. ASSUME NEW client \in Client, HdsAccept(c, client)
      PROVE  TypeOK'
    BY <1>1 DEF HdsAccept, TypeOK, HdsType, memory, saved
<1>2. CASE HdsWhoamiArrives(c)
    <2>1. Owner[hds[c].client] \in Target
        BY <1>2, TargetAssumption DEF HdsWhoamiArrives, TypeOK
    <2> QED
        BY <1>2, <2>1 DEF HdsWhoamiArrives, TypeOK, HdsType, memory, saved
<1>3. CASE HdsWhoami(c)
    <2> DEFINE t == hds[c].whoami
               closing == IF t \notin targets THEN {c} ELSE {hds_connections[t]} \ {c}
               closed == HdsClosed(closing)
    <2>1. t \in Target
        BY <1>3 DEF HdsWhoami, TypeOK, HdsType
    <2>2. /\ closed \in [Conn -> HdsType]
          /\ \A d \in Conn : closed[d].state # "absent" => closed[d].client \in Client
          /\ SessionClosed(closing) \in SessionType
        BY ClosingTypes
    <2>3. hds' = [closed EXCEPT ![c].target = t, ![c].whoami = 0]
        BY <1>3 DEF HdsWhoami
    <2>4. /\ hds' \in [Conn -> HdsType]
          /\ \A d \in Conn : hds'[d].state # "absent" => hds'[d].client \in Client
        <3> HIDE DEF closed, t
        <3> QED
            BY <2>1, <2>2, <2>3 DEF HdsType
    <2>5. hds_connections' \in [Target -> Conn \cup {NoConn}]
        BY <1>3, <2>1 DEF HdsWhoami, TypeOK
    <2>6. siri' \in SessionType
        BY <1>3, <2>2 DEF HdsWhoami
    <2> QED
        BY <1>3, <2>4, <2>5, <2>6 DEF HdsWhoami, TypeOK, memory, saved
<1>4. CASE HdsLost(c)
    BY <1>4, ClosingTypes DEF HdsLost, TypeOK, memory, saved
<1> QED
    BY <1>1, <1>2, <1>3, <1>4

\* What a restart selects is a target of the file, or none.
LEMMA LoadedType ==
    ASSUME TypeOK
    PROVE  /\ disk.targets \subseteq Target
           /\ disk.buttons \in [Target -> SUBSET Button]
           /\ LoadedActive \in disk.targets \cup {0}
<1>1. /\ disk.targets \subseteq Target
      /\ disk.buttons \in [Target -> SUBSET Button]
    BY DEF TypeOK, DiskType
<1> QED
    BY <1>1, LowestType DEF LoadedActive

\* Every step keeps the types.
LEMMA TypeStep == TypeOK /\ [Next]_vars => TypeOK'
<1> SUFFICES ASSUME TypeOK, [Next]_vars PROVE TypeOK'
    OBVIOUS
<1>1. CASE SiriStart
    <2>1. siri' \in SessionType
        BY <1>1 DEF SiriStart, NoSession, SessionType, TypeOK
    <2> QED
        BY <1>1, <2>1 DEF SiriStart, TypeOK, memory, saved
<1>2. CASE SiriEnd
    BY <1>2, ClosingTypes DEF SiriEnd, TypeOK, memory, saved
<1>3. CASE CloseHds \/ Stop
    BY <1>3, ClosingTypes DEF CloseHds, Stop, TypeOK, memory, saved
<1>4. CASE Restart
    <2>1. NoHds \in HdsType /\ NoHds.state = "absent"
        BY DEF NoHds, HdsType
    <2> QED
        BY <1>4, <2>1, LoadedType, ClosingTypes DEF Restart, TypeOK
<1>5. CASE UNCHANGED vars
    BY <1>5 DEF vars, TypeOK
<1> QED
    BY <1>1, <1>2, <1>3, <1>4, <1>5, TypeList, TypeSelect, TypeHap, TypeHds DEF Next

\* TypeOK for every value of the constants: remote.py never stores anything
\* else in its fields or in the file, however its handlers interleave.
THEOREM TypeCorrect == Spec => []TypeOK
BY TypeInit, TypeStep, PTL DEF Spec

-----------------------------------------------------------------------------
(* The selected target is configured, and so is the one in the file.  A    *)
(* restart takes both from the file, so the bound on the number of targets *)
(* has to hold of the file too.                                            *)

ActiveInv == ActiveConfigured /\ Cardinality(disk.targets) <= MaxTargets

\* What is saved satisfies the invariant if memory does.
LEMMA ActiveSaved ==
    ASSUME TypeOK, ActiveInv, NEW ok \in BOOLEAN, Save(ok),
           active_identifier' \in targets' \cup {0},
           Cardinality(targets') <= MaxTargets
    PROVE  ActiveInv'
BY DEF ActiveInv, ActiveConfigured, Save, TypeOK, DiskType

\* A set of targets and its subsets can be counted.
LEMMA TargetsCount ==
    ASSUME NEW S, S \subseteq Target
    PROVE  /\ IsFiniteSet(S) /\ Cardinality(S) \in Nat
           /\ \A t \in S : Cardinality(S \cup {t}) = Cardinality(S)
           /\ \A t : t \notin S => Cardinality(S \cup {t}) = Cardinality(S) + 1
           /\ \A t : Cardinality(S \ {t}) <= Cardinality(S)
<1>1. IsFiniteSet(S)
    BY TargetAssumption, FS_Subset
<1>2. Cardinality(S) \in Nat
    BY <1>1, FS_CardinalityType
<1>3. \A t \in S : S \cup {t} = S
    OBVIOUS
<1>4. \A t : t \notin S => Cardinality(S \cup {t}) = Cardinality(S) + 1
    BY <1>1, FS_AddElement
<1>5. \A t : Cardinality(S \ {t}) <= Cardinality(S)
    BY <1>1, FS_Subset
<1> QED
    BY <1>1, <1>2, <1>3, <1>4, <1>5

\* Every step keeps the invariant.
LEMMA ActiveStep == TypeOK /\ ActiveInv /\ [Next]_vars => ActiveInv'
<1> SUFFICES ASSUME TypeOK, ActiveInv, [Next]_vars PROVE ActiveInv'
    OBVIOUS
<1>1. ASSUME NEW ok \in BOOLEAN, NEW t \in Target, NEW B \in SUBSET Button,
             ListAdd(t, B, ok)
      PROVE  ActiveInv'
    <2>1. Cardinality(targets \cup {t}) <= MaxTargets
        <3>1. CASE t \in targets
            BY <3>1, TargetsCount DEF TypeOK, ActiveInv, ActiveConfigured
        <3>2. CASE t \notin targets
            <4>1. Cardinality(targets) < MaxTargets
                BY <1>1, <3>2 DEF ListAdd
            <4>2. /\ Cardinality(targets) \in Nat
                  /\ Cardinality(targets \cup {t}) = Cardinality(targets) + 1
                BY <3>2, TargetsCount DEF TypeOK
            <4>3. MaxTargets \in Nat
                BY TargetAssumption
            <4> QED
                BY <4>1, <4>2, <4>3
        <3> QED
            BY <3>1, <3>2
    <2>2. active_identifier' \in targets' \cup {0}
        BY <1>1 DEF ListAdd, Configured, ActiveInv, ActiveConfigured
    <2> QED
        BY <1>1, <2>1, <2>2, ActiveSaved DEF ListAdd, Configured
<1>2. ASSUME NEW ok \in BOOLEAN, NEW t \in Target, NEW B \in SUBSET Button,
             ListUpdate(t, B, ok) \/ ListRemoveButtons(t, B, ok)
      PROVE  ActiveInv'
    <2>1. targets' = targets /\ active_identifier' = active_identifier /\ Save(ok)
        BY <1>2 DEF ListUpdate, ListRemoveButtons, Configured
    <2> QED
        BY <2>1, ActiveSaved DEF ActiveInv, ActiveConfigured
<1>3. ASSUME NEW ok \in BOOLEAN, NEW t \in Target, ListRemove(t, ok)
      PROVE  ActiveInv'
    <2>1. targets' = targets \ {t} /\ Save(ok)
        BY <1>3 DEF ListRemove, Select
    <2>2. Cardinality(targets') <= MaxTargets
        <3>1. Cardinality(targets) <= MaxTargets /\ MaxTargets \in Nat
            BY TargetAssumption DEF ActiveInv, ActiveConfigured
        <3>2. targets \subseteq Target /\ targets \ {t} \subseteq Target
            BY DEF TypeOK
        <3>3. /\ Cardinality(targets) \in Nat /\ Cardinality(targets \ {t}) \in Nat
              /\ Cardinality(targets \ {t}) <= Cardinality(targets)
            BY <3>2, TargetsCount
        <3> QED
            BY <2>1, <3>1, <3>3
    <2>3. Lowest(targets') \in targets' \cup {0}
        BY <2>1, LowestType DEF TypeOK
    <2>4. active_identifier' \in targets' \cup {0}
        BY <1>3, <2>1, <2>3 DEF ListRemove, Select, ActiveInv, ActiveConfigured
    <2> QED
        BY <2>1, <2>2, <2>4, ActiveSaved
<1>4. ASSUME NEW ok \in BOOLEAN, ListReset(ok)
      PROVE  ActiveInv'
    <2>1. Cardinality(targets') <= MaxTargets
        BY <1>4, FS_EmptySet, TargetAssumption DEF ListReset
    <2> QED
        BY <1>4, <2>1, ActiveSaved DEF ListReset
<1>5. ASSUME NEW ok \in BOOLEAN, ListList(ok)
      PROVE  ActiveInv'
    BY <1>5, ActiveSaved DEF ListList, memory, ActiveInv, ActiveConfigured
<1>6. CASE TargetListWrite
    BY <1>1, <1>2, <1>3, <1>4, <1>5, <1>6 DEF TargetListWrite
<1>7. CASE SelectStep
    <2>1. PICK t \in targets \cup {0}, ok \in BOOLEAN :
              targets' = targets /\ active_identifier' = t /\ Save(ok)
        BY <1>7 DEF SelectStep, SetActiveIdentifier, Select
    <2> QED
        BY <2>1, ActiveSaved DEF ActiveInv, ActiveConfigured
<1>8. CASE Restart
    BY <1>8, LoadedType DEF Restart, ActiveInv, ActiveConfigured
<1>9. CASE \/ HapStep \/ HdsStep \/ SiriStart \/ SiriEnd \/ CloseHds \/ Stop
           \/ UNCHANGED vars
    <2>1. UNCHANGED <<memory, saved>>
        BY <1>9 DEF HapStep, HapConnect, HapLost, Activate, Deactivate,
            HdsStep, HdsAccept, HdsWhoamiArrives, HdsWhoami, HdsLost, SiriStart,
            SiriEnd, CloseHds, Stop, vars, memory, saved
    <2> QED
        BY <2>1 DEF memory, saved, ActiveInv, ActiveConfigured
<1> QED
    BY <1>6, <1>7, <1>8, <1>9 DEF Next

\* The selected target is configured and the number of targets bounded, in
\* every reachable state and for every set of targets and every bound.
THEOREM ActiveIsConfigured == Spec => []ActiveConfigured
<1>1. Init => ActiveInv
    BY FS_EmptySet, TargetAssumption DEF Init, ActiveInv, ActiveConfigured
<1>2. ActiveInv => ActiveConfigured
    BY DEF ActiveInv
<1> QED
    BY <1>1, <1>2, TypeInit, TypeStep, ActiveStep, PTL DEF Spec

-----------------------------------------------------------------------------
(* The file holds what memory holds, unless the last save raised.          *)

\* Every step keeps Durable.  A restart selects what the file says, because
\* the file never selects a target it does not configure.
LEMMA DurableStep == TypeOK /\ ActiveInv /\ Durable /\ [Next]_vars => Durable'
<1> SUFFICES ASSUME TypeOK, ActiveInv, Durable, [Next]_vars PROVE Durable'
    OBVIOUS
<1>1. CASE TargetListWrite \/ SelectStep
    <2>1. PICK ok \in BOOLEAN : Save(ok)
        BY <1>1 DEF TargetListWrite, ListAdd, ListUpdate, ListRemoveButtons,
            ListRemove, ListReset, ListList, SelectStep,
            SetActiveIdentifier, Select
    <2> QED
        BY <2>1 DEF Save, Durable
<1>2. CASE Restart
    <2>1. LoadedActive = disk.active
        BY DEF LoadedActive, ActiveInv, ActiveConfigured
    <2>2. disk = [targets |-> disk.targets, buttons |-> disk.buttons,
                  active |-> disk.active]
        BY DEF TypeOK, DiskType
    <2> QED
        BY <1>2, <2>1, <2>2 DEF Restart, Durable
<1>3. CASE \/ HapStep \/ HdsStep \/ SiriStart \/ SiriEnd \/ CloseHds \/ Stop
           \/ UNCHANGED vars
    <2>1. UNCHANGED <<memory, saved>>
        BY <1>3 DEF HapStep, HapConnect, HapLost, Activate, Deactivate,
            HdsStep, HdsAccept, HdsWhoamiArrives, HdsWhoami, HdsLost, SiriStart,
            SiriEnd, CloseHds, Stop, vars, memory, saved
    <2> QED
        BY <2>1 DEF memory, saved, Durable
<1> QED
    BY <1>1, <1>2, <1>3 DEF Next

\* A crash after a handler that returned loses nothing, for every set of
\* targets and buttons.
THEOREM SavedIsDurable == Spec => []Durable
<1>1. Init => ActiveInv
    BY FS_EmptySet, TargetAssumption DEF Init, ActiveInv, ActiveConfigured
<1>2. Init => Durable
    BY DEF Init, Durable
<1> QED
    BY <1>1, <1>2, TypeInit, TypeStep, ActiveStep, DurableStep, PTL DEF Spec

-----------------------------------------------------------------------------
(* Whoever activated Target Control is still connected.                    *)

LEMMA ClientStep ==
    TypeOK /\ ActiveClientConnected /\ [Next]_vars => ActiveClientConnected'
<1> SUFFICES ASSUME TypeOK, ActiveClientConnected, [Next]_vars
             PROVE  ActiveClientConnected'
    OBVIOUS
<1>1. CASE TargetListWrite
    BY <1>1, TargetAssumption
    DEF TargetListWrite, ListAdd, ListUpdate, ListRemoveButtons, ListRemove,
        ListReset, ListList, Select, ActiveClientConnected, memory
<1>2. CASE SelectStep
    BY <1>2 DEF SelectStep, SetActiveIdentifier, Select, ActiveClientConnected
<1>3. CASE HapStep
    BY <1>3 DEF HapStep, HapConnect, HapLost, Activate, Deactivate,
                ActiveClientConnected, memory, TypeOK
<1>4. CASE Stop \/ Restart
    BY <1>4 DEF Stop, Restart, ActiveClientConnected
<1>5. CASE HdsStep \/ SiriStart \/ SiriEnd \/ CloseHds \/ UNCHANGED vars
    <2>1. UNCHANGED <<memory, active_client, hap>>
        BY <1>5 DEF HdsStep, HdsAccept, HdsWhoamiArrives, HdsWhoami, HdsLost,
            SiriStart, SiriEnd, CloseHds, vars, memory
    <2> QED
        BY <2>1 DEF memory, ActiveClientConnected
<1> QED
    BY <1>1, <1>2, <1>3, <1>4, <1>5 DEF Next

\* No button event or Siri session is attributed to a HAP session that is
\* gone, for every set of HAP sessions.
THEOREM ActiveClientIsConnected == Spec => []ActiveClientConnected
<1>1. Init => ActiveClientConnected
    BY DEF Init, ActiveClientConnected
<1> QED
    BY <1>1, TypeInit, TypeStep, ClientStep, PTL DEF Spec

-----------------------------------------------------------------------------
(* An identified open connection is the one registered for its target.     *)

\* Closing connections leaves every other one as it is, and open connections
\* are open afterwards only if they were not closed.
LEMMA ClosingHds ==
    ASSUME TypeOK, NEW C, NEW c \in Conn
    PROVE  /\ HdsClosed(C)[c].target = hds[c].target
           /\ HdsClosed(C)[c].client = hds[c].client
           /\ HdsClosed(C)[c].whoami = hds[c].whoami
           /\ HdsClosed(C)[c].state = "open" <=> hds[c].state = "open" /\ c \notin C
BY DEF TypeOK, HdsClosed, HdsType

\* Closing connections of the registry takes out only those that are closed.
LEMMA ClosingRegistered ==
    ASSUME TypeOK, ConnectionsRegistered, NEW C, C \subseteq Conn
    PROVE  /\ \A c \in Conn :
                (HdsClosed(C)[c].state = "open" /\ hds[c].target # 0)
                    => Unregistered(C)[hds[c].target] = c
           /\ \A t \in Target : Unregistered(C)[t] # NoConn => t \in targets
<1>1. \A c \in Conn : hds[c].target \in Target \cup {0}
    BY DEF TypeOK, HdsType
<1> QED
    BY <1>1, ClosingHds, TargetAssumption DEF ConnectionsRegistered, Unregistered

LEMMA RegisteredStep ==
    TypeOK /\ ConnectionsRegistered /\ [Next]_vars => ConnectionsRegistered'
<1> SUFFICES ASSUME TypeOK, ConnectionsRegistered, [Next]_vars
             PROVE  ConnectionsRegistered'
    OBVIOUS
<1>1. ASSUME NEW ok \in BOOLEAN, NEW t \in Target, NEW B \in SUBSET Button,
             ListAdd(t, B, ok) \/ ListUpdate(t, B, ok) \/ ListRemoveButtons(t, B, ok)
      PROVE  ConnectionsRegistered'
    BY <1>1 DEF ListAdd, ListUpdate, ListRemoveButtons, Configured,
                ConnectionsRegistered
<1>2. ASSUME NEW ok \in BOOLEAN, NEW t \in Target, ListRemove(t, ok)
      PROVE  ConnectionsRegistered'
    <2>1. /\ hds' = HdsClosed({hds_connections[t]})
          /\ hds_connections' = [hds_connections EXCEPT ![t] = NoConn]
          /\ targets' = targets \ {t}
        BY <1>2 DEF ListRemove
    <2>2. \A c \in Conn : hds'[c].state = "open" =>
              /\ hds[c].state = "open" /\ c # hds_connections[t]
              /\ hds'[c].target = hds[c].target
        BY <2>1, ClosingHds
    <2>3. \A c \in Conn : hds[c].target \in Target \cup {0}
        BY DEF TypeOK, HdsType
    <2>4. hds_connections \in [Target -> Conn \cup {NoConn}]
        BY DEF TypeOK
    <2>5. ASSUME NEW c \in Conn, hds'[c].state = "open", hds'[c].target # 0
          PROVE  hds_connections'[hds'[c].target] = c
        <3>1. /\ hds[c].state = "open" /\ c # hds_connections[t]
              /\ hds'[c].target = hds[c].target
            BY <2>2, <2>5
        <3>2. /\ hds[c].target \in Target
              /\ hds_connections[hds[c].target] = c
            BY <2>3, <2>5, <3>1 DEF ConnectionsRegistered
        <3>3. hds[c].target # t
            BY <3>1, <3>2
        <3> QED
            BY <2>1, <2>4, <3>1, <3>2, <3>3
    <2>6. ASSUME NEW u \in Target, hds_connections'[u] # NoConn
          PROVE  u \in targets'
        BY <2>1, <2>4, <2>6 DEF ConnectionsRegistered
    <2> QED
        BY <2>5, <2>6 DEF ConnectionsRegistered
<1>3. ASSUME NEW ok \in BOOLEAN, ListReset(ok)
      PROVE  ConnectionsRegistered'
    <2>1. \A c \in Conn : hds'[c].state # "open"
        BY <1>3, ClosingHds DEF ListReset
    <2> QED
        BY <1>3, <2>1 DEF ListReset, ConnectionsRegistered
<1>4. ASSUME NEW ok \in BOOLEAN, ListList(ok)
      PROVE  ConnectionsRegistered'
    BY <1>4 DEF ListList, memory, ConnectionsRegistered
<1>5. CASE TargetListWrite
    BY <1>1, <1>2, <1>3, <1>4, <1>5 DEF TargetListWrite
<1>6. CASE \E c \in Client : HapLost(c)
    <2>1. PICK c \in Client : HapLost(c)
        BY <1>6
    <2> DEFINE mine == {d \in Conn : hds[d].client = c}
    <2>2. /\ hds' = HdsClosed(mine) /\ hds_connections' = Unregistered(mine)
          /\ targets' = targets
        BY <2>1 DEF HapLost, memory
    <2> QED
        BY <2>2, ClosingRegistered, ClosingHds DEF ConnectionsRegistered
<1>7. ASSUME NEW c \in Conn, NEW client \in Client, HdsAccept(c, client)
      PROVE  ConnectionsRegistered'
    BY <1>7 DEF HdsAccept, ConnectionsRegistered, TypeOK, memory
<1>8. ASSUME NEW c \in Conn, HdsWhoamiArrives(c)
      PROVE  ConnectionsRegistered'
    BY <1>8 DEF HdsWhoamiArrives, ConnectionsRegistered, TypeOK, HdsType, memory
<1>9. ASSUME NEW c \in Conn, HdsWhoami(c)
      PROVE  ConnectionsRegistered'
    <2> DEFINE t == hds[c].whoami
               closing == IF t \notin targets THEN {c} ELSE {hds_connections[t]} \ {c}
               closed == HdsClosed(closing)
    <2>1. /\ t \in Target /\ t # 0 /\ targets' = targets
          /\ hds' = [closed EXCEPT ![c].target = t, ![c].whoami = 0]
          /\ hds_connections' = IF t \notin targets THEN hds_connections
                                ELSE [hds_connections EXCEPT ![t] = c]
        BY <1>9 DEF HdsWhoami, TypeOK, HdsType, memory
    <2>2. closed \in [Conn -> HdsType]
        BY ClosingTypes
    <2>3. \A d \in Conn : closed[d].state = "open"
              => hds[d].state = "open" /\ d \notin closing /\ closed[d].target = hds[d].target
        BY ClosingHds
    <2>5. t \in targets => closing = {hds_connections[t]} \ {c}
        OBVIOUS
    <2>7. t \notin targets => c \in closing
        OBVIOUS
    <2>8. hds_connections \in [Target -> Conn \cup {NoConn}]
        BY DEF TypeOK
    <2>9. \A d \in Conn : hds[d].target \in Target \cup {0}
        BY DEF TypeOK, HdsType
    <2> HIDE DEF closed, closing, t
    <2>4. ASSUME NEW d \in Conn
          PROVE  /\ hds'[d].state = closed[d].state
                 /\ hds'[d].target = IF d = c THEN t ELSE closed[d].target
        BY <2>1, <2>2 DEF HdsType
    <2>6. ASSUME NEW d \in Conn, hds'[d].state = "open", hds'[d].target # 0
          PROVE  hds_connections'[hds'[d].target] = d
        <3>1. closed[d].state = "open"
            BY <2>4, <2>6
        <3>2. /\ hds[d].state = "open" /\ d \notin closing
              /\ closed[d].target = hds[d].target
            BY <2>3, <3>1
        <3>3. CASE d = c
            <4>1. hds'[d].target = t /\ t \in targets
                BY <2>4, <2>7, <3>2, <3>3
            <4> QED
                BY <2>1, <2>8, <3>3, <4>1
        <3>4. CASE d # c
            <4>1. hds'[d].target = hds[d].target
                BY <2>4, <3>2, <3>4
            <4>2. hds[d].target \in Target /\ hds_connections[hds[d].target] = d
                BY <2>6, <2>9, <3>2, <4>1 DEF ConnectionsRegistered
            <4>3. t \in targets => hds[d].target # t
                BY <2>5, <3>2, <3>4, <4>2
            <4> QED
                BY <2>1, <2>8, <4>1, <4>2, <4>3
        <3> QED
            BY <3>3, <3>4
    <2>10. \A u \in Target : hds_connections'[u] # NoConn => u \in targets'
        BY <2>1, <2>8 DEF ConnectionsRegistered
    <2> QED
        BY <2>6, <2>10 DEF ConnectionsRegistered
<1>10. ASSUME NEW c \in Conn, HdsLost(c)
       PROVE  ConnectionsRegistered'
    <2>1. /\ hds' = HdsClosed({c}) /\ hds_connections' = Unregistered({c})
          /\ targets' = targets
        BY <1>10 DEF HdsLost, memory
    <2> QED
        BY <2>1, ClosingRegistered, ClosingHds DEF ConnectionsRegistered
<1>11. CASE HdsStep
    BY <1>7, <1>8, <1>9, <1>10, <1>11 DEF HdsStep
<1>12. CASE Restart
    BY <1>12 DEF Restart, NoHds, ConnectionsRegistered
<1>13. CASE CloseHds \/ Stop
    <2>1. \A c \in Conn : hds'[c].state # "open"
        BY <1>13, ClosingHds DEF CloseHds, Stop
    <2> QED
        BY <1>13, <2>1 DEF CloseHds, Stop, ConnectionsRegistered
<1>14. CASE \/ SelectStep \/ SiriStart \/ SiriEnd \/ UNCHANGED vars
            \/ \E c \in Client : HapConnect(c) \/ Activate(c) \/ Deactivate(c)
    <2>1. UNCHANGED <<targets, hds, hds_connections>>
        BY <1>14 DEF SelectStep, SetActiveIdentifier, HapConnect, Activate, Deactivate,
            SiriStart, SiriEnd, CloseHds, vars, memory
    <2> QED
        BY <2>1 DEF ConnectionsRegistered
<1> QED
    BY <1>5, <1>6, <1>11, <1>12, <1>14, <1>13 DEF Next, HapStep

\* No live identified connection is ever out of the registry's reach, for every
\* number of connections and Apple TVs, a whoami that is dispatched after its
\* connection was closed included.
THEOREM ConnectionsAreRegistered == Spec => []ConnectionsRegistered
<1>1. Init => ConnectionsRegistered
    BY DEF Init, NoHds, ConnectionsRegistered
<1> QED
    BY <1>1, TypeInit, TypeStep, RegisteredStep, PTL DEF Spec

-----------------------------------------------------------------------------
(* A live Siri session is on an open connection, to the selected target.   *)

\* A session that survives the closing of connections is untouched, and its
\* connection was not among them.
LEMMA SessionSurvives ==
    ASSUME TypeOK, SessionFollowsTarget, NEW C, SessionClosed(C).live
    PROVE  /\ SessionClosed(C) = siri /\ siri.live
           /\ siri.conn \in Conn
           /\ HdsClosed(C)[siri.conn].state = "open"
<1>1. SessionClosed(C) = siri /\ siri.live
    BY DEF SessionClosed, NoSession
<1>2. siri.conn \in Conn /\ hds[siri.conn].state = "open"
    BY <1>1 DEF SessionFollowsTarget
<1>3. siri.conn \notin C
    BY <1>1, <1>2 DEF SessionClosed, NoSession
<1> QED
    BY <1>1, <1>2, <1>3, ClosingHds

\* A cancellation that is scheduled leaves a session where it is, and a
\* selection cancels or strands the session of the target it takes away.
LEMMA SessionCancelled ==
    ASSUME NEW s \in SessionType, s.live
    PROVE  /\ Cancelled(s).live /\ Cancelled(s).conn = s.conn
           /\ Cancelled(s).cancelling
           /\ \A ok \in BOOLEAN :
                /\ SelectSession(s, ok).conn = s.conn
                /\ \/ SelectSession(s, ok).cancelling
                   \/ SelectSession(s, ok).stranded
                   \/ SelectSession(s, ok) = s /\ s.target # active_identifier
BY DEF Cancelled, SelectSession, SessionType

\* Without a session there is nothing to cancel.
LEMMA SessionOver ==
    ASSUME NEW s, ~s.live, NEW ok
    PROVE  Cancelled(s) = s /\ SelectSession(s, ok) = s
BY DEF Cancelled, SelectSession

LEMMA FollowsStep ==
    /\ TypeOK /\ SessionFollowsTarget /\ ActiveClientConnected
    /\ [Next]_vars
    => SessionFollowsTarget'
<1> SUFFICES ASSUME TypeOK, SessionFollowsTarget, ActiveClientConnected, [Next]_vars
             PROVE  SessionFollowsTarget'
    OBVIOUS
<1>1. siri \in SessionType /\ \A C : SessionClosed(C) \in SessionType
    BY ClosingTypes DEF TypeOK
<1>2. ASSUME NEW ok \in BOOLEAN, NEW t \in Target, NEW B \in SUBSET Button,
             ListAdd(t, B, ok) \/ ListUpdate(t, B, ok) \/ ListRemoveButtons(t, B, ok)
      PROVE  SessionFollowsTarget'
    <2>1. UNCHANGED <<siri, hds, active_client>>
        BY <1>2 DEF ListAdd, ListUpdate, ListRemoveButtons
    <2>2. active_client # NoClient => active_identifier' = active_identifier
        BY <1>2 DEF ListAdd, ListUpdate, ListRemoveButtons, ActiveClientConnected
    <2> QED
        BY <2>1, <2>2 DEF SessionFollowsTarget
<1>3. ASSUME NEW ok \in BOOLEAN, NEW t \in Target, ListRemove(t, ok)
      PROVE  SessionFollowsTarget'
    <2> DEFINE C == {hds_connections[t]}
               s == SessionClosed(C)
    <2>1. hds' = HdsClosed(C) /\ s \in SessionType
        BY <1>1, <1>3 DEF ListRemove
    <2>2. s.live => /\ s = siri /\ siri.live
                    /\ siri.conn \in Conn /\ hds'[siri.conn].state = "open"
        BY <2>1, SessionSurvives
    <2>3. /\ active_identifier = t => siri' = SelectSession(s, ok)
          /\ active_identifier # t => siri' = s /\ UNCHANGED <<active_identifier, active_client>>
        BY <1>3 DEF ListRemove, Select
    <2> HIDE DEF s
    <2>4. CASE ~s.live
        BY <2>3, <2>4, SessionOver DEF SessionFollowsTarget
    <2>5. CASE s.live /\ active_identifier = t
        <3>1. /\ siri'.conn = s.conn
              /\ \/ siri'.cancelling \/ siri'.stranded
                 \/ siri' = s /\ s.target # active_identifier
            BY <2>1, <2>3, <2>5, SessionCancelled
        <3> QED
            BY <2>2, <2>5, <3>1 DEF SessionFollowsTarget
    <2>6. CASE s.live /\ active_identifier # t
        BY <2>2, <2>3, <2>6 DEF SessionFollowsTarget
    <2> QED
        BY <2>4, <2>5, <2>6
<1>4. ASSUME NEW ok \in BOOLEAN, ListReset(ok)
      PROVE  SessionFollowsTarget'
    <2>1. hds' = HdsClosed(Conn) /\ siri' = Cancelled(SessionClosed(Conn))
        BY <1>4 DEF ListReset
    <2>2. ~SessionClosed(Conn).live
        BY SessionSurvives, ClosingHds
    <2> QED
        BY <2>1, <2>2, SessionOver DEF SessionFollowsTarget
<1>5. ASSUME NEW ok \in BOOLEAN, ListList(ok)
      PROVE  SessionFollowsTarget'
    BY <1>5 DEF ListList, memory, SessionFollowsTarget
<1>6. CASE TargetListWrite
    BY <1>2, <1>3, <1>4, <1>5, <1>6 DEF TargetListWrite
<1>7. CASE SelectStep
    <2>1. PICK ok \in BOOLEAN : siri' = SelectSession(siri, ok) /\ hds' = hds
        BY <1>7 DEF SelectStep, SetActiveIdentifier
    <2>2. CASE ~siri.live
        BY <2>1, <2>2, SessionOver DEF SessionFollowsTarget
    <2>3. CASE siri.live
        <3>1. /\ siri'.conn = siri.conn
              /\ \/ siri'.cancelling \/ siri'.stranded
                 \/ siri' = siri /\ siri.target # active_identifier
            BY <1>1, <2>1, <2>3, SessionCancelled
        <3> QED
            BY <2>1, <2>3, <3>1 DEF SessionFollowsTarget
    <2> QED
        BY <2>2, <2>3
<1>8. ASSUME NEW c \in Client, Deactivate(c)
      PROVE  SessionFollowsTarget'
    <2>1. siri' = Cancelled(siri) /\ hds' = hds
        BY <1>8 DEF Deactivate
    <2>2. CASE ~siri.live
        BY <2>1, <2>2, SessionOver DEF SessionFollowsTarget
    <2>3. CASE siri.live
        BY <1>1, <2>1, <2>3, SessionCancelled DEF SessionFollowsTarget
    <2> QED
        BY <2>2, <2>3
<1>9. ASSUME NEW c \in Client, HapLost(c)
      PROVE  SessionFollowsTarget'
    <2> DEFINE C == {d \in Conn : hds[d].client = c}
               s == SessionClosed(C)
    <2>1. hds' = HdsClosed(C) /\ s \in SessionType
        BY <1>1, <1>9 DEF HapLost
    <2>2. s.live => /\ s = siri /\ siri.live
                    /\ siri.conn \in Conn /\ hds'[siri.conn].state = "open"
        BY <2>1, SessionSurvives
    <2>3. \/ siri' = Cancelled(s)
          \/ siri' = s /\ UNCHANGED <<active_identifier, active_client>>
        BY <1>9 DEF HapLost, memory
    <2> HIDE DEF s
    <2>4. CASE ~s.live
        BY <2>3, <2>4, SessionOver DEF SessionFollowsTarget
    <2>5. CASE s.live /\ siri' = Cancelled(s)
        <3>1. siri'.conn = s.conn /\ siri'.cancelling
            BY <2>1, <2>5, SessionCancelled
        <3> QED
            BY <2>2, <2>5, <3>1 DEF SessionFollowsTarget
    <2>6. CASE s.live /\ siri' = s /\ UNCHANGED <<active_identifier, active_client>>
        BY <2>2, <2>6 DEF SessionFollowsTarget
    <2> QED
        BY <2>3, <2>4, <2>5, <2>6
<1>10. ASSUME NEW c \in Client, HapConnect(c) \/ Activate(c)
       PROVE  SessionFollowsTarget'
    <2>1. /\ UNCHANGED <<siri, hds, active_identifier>>
          /\ active_client' = active_client \/ active_client' \in Client
        BY <1>10 DEF HapConnect, Activate, memory
    <2> QED
        BY <2>1, TargetAssumption DEF SessionFollowsTarget
<1>11. CASE HapStep
    BY <1>8, <1>9, <1>10, <1>11 DEF HapStep
<1>12. ASSUME NEW c \in Conn,
              \/ \E client \in Client : HdsAccept(c, client)
              \/ HdsWhoamiArrives(c)
       PROVE  SessionFollowsTarget'
    <2>1. UNCHANGED <<siri, active_identifier, active_client>>
        BY <1>12 DEF HdsAccept, HdsWhoamiArrives, memory
    <2>2. \A d \in Conn : d = siri.conn /\ hds[d].state = "open" => hds'[d].state = "open"
        BY <1>12 DEF HdsAccept, HdsWhoamiArrives, Unused, TypeOK, HdsType
    <2> QED
        BY <2>1, <2>2 DEF SessionFollowsTarget
<1>13. ASSUME NEW c \in Conn, HdsWhoami(c) \/ HdsLost(c)
       PROVE  SessionFollowsTarget'
    <2>1. UNCHANGED <<active_identifier, active_client>>
        BY <1>13 DEF HdsWhoami, HdsLost, memory
    <2>2. PICK C : /\ siri' = SessionClosed(C)
                   /\ \A d \in Conn : hds'[d].state = HdsClosed(C)[d].state
        <3>1. CASE HdsLost(c)
            BY <3>1 DEF HdsLost
        <3>2. CASE HdsWhoami(c)
            <4> DEFINE t == hds[c].whoami
                       closing == IF t \notin targets THEN {c}
                                  ELSE {hds_connections[t]} \ {c}
                       closed == HdsClosed(closing)
            <4>1. /\ hds' = [closed EXCEPT ![c].target = t, ![c].whoami = 0]
                  /\ siri' = SessionClosed(closing)
                BY <3>2 DEF HdsWhoami
            <4>2. closed \in [Conn -> HdsType]
                BY ClosingTypes
            <4>3. \A d \in Conn : hds'[d].state = closed[d].state
                <5> HIDE DEF closed, t
                <5> QED
                    BY <4>1, <4>2 DEF HdsType
            <4> HIDE DEF closing
            <4> QED
                BY <4>1, <4>3
        <3> QED
            BY <1>13, <3>1, <3>2
    <2>3. siri'.live => /\ siri' = siri /\ siri.live
                        /\ siri.conn \in Conn
                        /\ hds'[siri.conn].state = "open"
        BY <2>2, SessionSurvives
    <2> QED
        BY <2>1, <2>3 DEF SessionFollowsTarget
<1>14. CASE HdsStep
    BY <1>12, <1>13, <1>14 DEF HdsStep
<1>15. CASE SiriStart
    <2> DEFINE c == hds_connections[active_identifier]
    <2>1. /\ c # NoConn /\ hds[c].state = "open" /\ active_identifier # 0
          /\ siri' = [NoSession EXCEPT !.live = TRUE,
                          !.target = active_identifier, !.conn = c]
          /\ active_client # NoClient
          /\ UNCHANGED <<hds, active_identifier, active_client>>
        BY <1>15 DEF SiriStart, memory
    <2>2. c \in Conn
        BY <2>1 DEF TypeOK
    <2> HIDE DEF c
    <2>3. siri'.conn = c /\ siri'.target = active_identifier
        BY <2>1 DEF NoSession
    <2> QED
        BY <2>1, <2>2, <2>3 DEF SessionFollowsTarget
<1>16. CASE SiriEnd \/ Stop \/ Restart
    BY <1>16 DEF SiriEnd, Stop, Restart, NoSession, SessionFollowsTarget
<1>17. CASE CloseHds
    <2>1. siri' = SessionClosed(Conn) /\ ~SessionClosed(Conn).live
        BY <1>17, SessionSurvives, ClosingHds DEF CloseHds
    <2> QED
        BY <2>1 DEF SessionFollowsTarget
<1>18. CASE UNCHANGED vars
    BY <1>18 DEF vars, SessionFollowsTarget
<1> QED
    BY <1>6, <1>7, <1>11, <1>14, <1>15, <1>16, <1>17, <1>18
    DEF Next

\* A live Siri session is on an open connection and, unless its cancellation is
\* scheduled or was skipped by a failed save, to the selected, activated target.
THEOREM SessionFollowsItsTarget == Spec => []SessionFollowsTarget
<1>1. Init => ActiveClientConnected /\ SessionFollowsTarget
    BY DEF Init, NoSession, ActiveClientConnected, SessionFollowsTarget
<1> QED
    BY <1>1, TypeInit, TypeStep, ClientStep, FollowsStep, PTL DEF Spec


-----------------------------------------------------------------------------
(* The refinement.                                                         *)

\* Every step is one of TargetControl, or changes none of its variables.
LEMMA CharStepRefines == [CharNext]_<<vars, charVars>> => [Next]_vars
<1> SUFFICES ASSUME [CharNext]_<<vars, charVars>>
             PROVE  [Next]_vars
    OBVIOUS
<1>1. CASE CharTargetListWrite
    <2>1. TargetListWrite
        BY <1>1 DEF CharTargetListWrite, TargetListWrite, CharListAdd,
                    CharListRemove, CharListReset
    <2> QED
        BY <2>1 DEF Next
<1>2. CASE CharSelect
    <2>1. SelectStep
        BY <1>2 DEF CharSelect, SelectStep
    <2> QED
        BY <2>1 DEF Next
<1>3. CASE CharHapStep
    <2>1. PICK c \in Client :
              \/ HapConnect(c) \/ CharHapLost(c) \/ Read(c)
              \/ ActiveSent(c) \/ CharActivate(c) \/ CharDeactivate(c)
              \/ \E t \in Target \cup {0} :
                     WriteIdentifier(c, t) \/ WriteIdentifierFails(c, t)
        BY <1>3 DEF CharHapStep
    <2>2. CASE HapConnect(c) \/ CharHapLost(c) \/ CharDeactivate(c)
        BY <2>2 DEF CharHapLost, CharDeactivate, HapStep, Next
    <2>3. CASE Read(c) \/ ActiveSent(c)
        BY <2>3 DEF Read, ActiveSent
    <2>4. CASE CharActivate(c)
        <3>1. Activate(c) \/ UNCHANGED vars
            BY <2>4 DEF CharActivate
        <3> QED
            BY <3>1 DEF HapStep, Next
    <2>5. ASSUME NEW t \in Target \cup {0},
                 WriteIdentifier(c, t) \/ WriteIdentifierFails(c, t)
          PROVE  [Next]_vars
        <3>1. UNCHANGED vars \/ \E ok \in BOOLEAN : SetActiveIdentifier(t, ok)
            BY <2>5 DEF WriteIdentifier, WriteIdentifierFails
        <3> QED
            BY <2>5, <3>1 DEF SelectStep, Next
    <2> QED
        BY <2>1, <2>2, <2>3, <2>4, <2>5
<1>4. CASE CharHdsStep
    BY <1>4 DEF CharHdsStep, Next
<1>5. CASE PressStep
    BY <1>5 DEF PressStep, PressDown, PressUp, PressRaises
<1>6. CASE CharStop \/ CharRestart
    BY <1>6 DEF CharStop, CharRestart, Next
<1>7. CASE UNCHANGED <<vars, charVars>>
    BY <1>7
<1> QED
    BY <1>1, <1>2, <1>3, <1>4, <1>5, <1>6, <1>7 DEF CharNext

\* The behaviours of Characteristics are behaviours of TargetControl.
THEOREM CharacteristicsImplement == CharSpec => Spec
<1>1. CharInit => Init
    BY DEF CharInit
<1> QED
    BY <1>1, CharStepRefines, PTL DEF CharSpec, Spec

-----------------------------------------------------------------------------
(* What a step does to the characteristics, and for whom.                  *)

Quiet == UNCHANGED <<chars, listening, active_identifier, active_client>>

\* set_active_identifier with a target v, a list operation that selects v.
SelectedStep(v) ==
    /\ Selected(v) /\ UNCHANGED listening
    /\ active_identifier' = v /\ active_client' = NoClient

FirstStep(v) ==
    /\ active_identifier_char' = SetValue(active_identifier_char, v)
    /\ rolled_back' = StillRolledBack(v)
    /\ UNCHANGED <<active_char, listening, active_client>>
    /\ active_identifier' = v

WriteStep(c, v) ==
    /\ active_identifier_char' = ClientUpdateValue(active_identifier_char, c, v)
    /\ rolled_back' = StillRolledBack(v)
    /\ UNCHANGED listening
    /\ active_identifier' = v
    /\ \/ UNCHANGED <<active_char, active_client>>
       \/ active_char' = SetValue(active_char, 0) /\ active_client' = NoClient

FailStep ==
    /\ rolled_back' = TRUE
    /\ UNCHANGED <<active_identifier_char, listening>>
    /\ active_char' = SetValue(active_char, 0) /\ active_client' = NoClient

ActiveStepOf(c) ==
    /\ UNCHANGED <<active_identifier_char, rolled_back, listening,
                   active_identifier>>
    /\ \/ active_client' = c
          /\ active_char' = ClientUpdateValue(active_char, c, 1)
       \/ active_client' = NoClient
          /\ active_char' = ClientUpdateValue(active_char, c, 0)

LostStep(c) ==
    /\ active_identifier_char' = Forget(active_identifier_char, {c})
    /\ listening' = listening \ {c}
    /\ UNCHANGED <<rolled_back, active_identifier>>
    /\ \/ /\ active_client' = NoClient
          /\ active_char' = Forget(SetValue(active_char, 0), {c})
       \/ /\ UNCHANGED active_client
          /\ active_char' = Forget(active_char, {c})

OverStep ==
    /\ listening' = {}
    /\ active_identifier_char' \in {NewChar, Forget(active_identifier_char, Client)}
    /\ active_char' \in {NewChar, Forget(active_char, Client)}
    /\ rolled_back' \in {rolled_back, FALSE}

\* One of these is what every step is.
LEMMA KindsOfSteps ==
    ASSUME [CharNext]_<<vars, charVars>>, TypeOK
    PROVE  \/ Quiet \/ FailStep \/ OverStep
           \/ \E v \in Target \cup {0} : SelectedStep(v) \/ FirstStep(v)
           \/ \E c \in Client : \/ Read(c) \/ ActiveStepOf(c) \/ LostStep(c)
                                \/ \E v \in Target \cup {0} : WriteStep(c, v)
<1>1. CASE CharTargetListWrite
    <2>1. PICK ok \in BOOLEAN :
              \/ \E t \in Target : \E B \in SUBSET Button :
                    \/ CharListAdd(t, B, ok)
                    \/ ListUpdate(t, B, ok) /\ UNCHANGED charVars
                    \/ ListRemoveButtons(t, B, ok) /\ UNCHANGED charVars
              \/ \E t \in Target : CharListRemove(t, ok)
              \/ CharListReset(ok)
              \/ ListList(ok) /\ UNCHANGED charVars
        BY <1>1 DEF CharTargetListWrite
    <2>2. ASSUME NEW t \in Target, NEW B \in SUBSET Button, CharListAdd(t, B, ok)
          PROVE  Quiet \/ FirstStep(t)
        <3>1. active_identifier' = (IF active_identifier = 0 THEN t
                                    ELSE active_identifier)
              /\ UNCHANGED active_client
            BY <2>2 DEF CharListAdd, ListAdd
        <3>2. UNCHANGED listening
            BY <2>2 DEF CharListAdd, sessions
        <3>3. CASE active_identifier = 0
            BY <2>2, <3>1, <3>2, <3>3 DEF CharListAdd, FirstStep
        <3>4. CASE active_identifier # 0
            BY <2>2, <3>1, <3>2, <3>4 DEF CharListAdd, Quiet
        <3> QED
            BY <3>3, <3>4
    <2>3. ASSUME NEW t \in Target, NEW B \in SUBSET Button,
                 ListUpdate(t, B, ok) \/ ListRemoveButtons(t, B, ok),
                 UNCHANGED charVars
          PROVE  Quiet
        BY <2>3 DEF ListUpdate, ListRemoveButtons, Quiet, charVars, sessions
    <2>4. ASSUME NEW t \in Target, CharListRemove(t, ok)
          PROVE  Quiet \/ \E v \in Target \cup {0} : SelectedStep(v)
        <3>1. UNCHANGED listening /\ targets' \subseteq Target
            BY <2>4 DEF CharListRemove, ListRemove, sessions, TypeOK
        <3>2. CASE active_identifier = t
            <4>1. Selected(Lowest(targets'))
                BY <2>4, <3>2 DEF CharListRemove
            <4>2. Select(Lowest(targets'), ok)
                BY <2>4, <3>2 DEF CharListRemove, ListRemove
            <4>3. Lowest(targets') \in Target \cup {0}
                BY <3>1, LowestType
            <4> QED
                BY <3>1, <4>1, <4>2, <4>3 DEF SelectedStep, Select
        <3>3. CASE active_identifier # t
            BY <2>4, <3>1, <3>3 DEF CharListRemove, ListRemove, Quiet
        <3> QED
            BY <3>2, <3>3
    <2>5. ASSUME CharListReset(ok)
          PROVE  SelectedStep(0)
        BY <2>5 DEF CharListReset, ListReset, SelectedStep, sessions
    <2>6. ASSUME ListList(ok), UNCHANGED charVars
          PROVE  Quiet
        BY <2>6 DEF ListList, Quiet, charVars, sessions, memory
    <2> QED
        BY <2>1, <2>2, <2>3, <2>4, <2>5, <2>6
<1>2. CASE CharSelect
    <2>1. PICK v \in Target \cup {0}, ok \in BOOLEAN :
              SetActiveIdentifier(v, ok) /\ Selected(v) /\ UNCHANGED sessions
        BY <1>2 DEF CharSelect
    <2>2. SelectedStep(v)
        BY <2>1 DEF SetActiveIdentifier, Select, SelectedStep, sessions
    <2> QED
        BY <2>2
<1>3. CASE CharHapStep
    <2>1. PICK c \in Client :
              \/ HapConnect(c) /\ UNCHANGED charVars
              \/ CharHapLost(c) \/ Read(c)
              \/ ActiveSent(c) \/ CharActivate(c) \/ CharDeactivate(c)
              \/ \E t \in Target \cup {0} :
                     WriteIdentifier(c, t) \/ WriteIdentifierFails(c, t)
        BY <1>3 DEF CharHapStep
    <2>2. CASE HapConnect(c) /\ UNCHANGED charVars
        BY <2>2 DEF HapConnect, Quiet, charVars, sessions, memory
    <2>3. CASE CharHapLost(c)
        <3>1. UNCHANGED active_identifier
            BY <2>3 DEF CharHapLost, HapLost, memory
        <3>2. CASE active_client = c
            <4>1. active_client' = NoClient
                BY <2>3, <3>2 DEF CharHapLost, HapLost
            <4> QED
                BY <2>3, <3>1, <3>2, <4>1 DEF CharHapLost, LostStep
        <3>3. CASE active_client # c
            <4>1. UNCHANGED active_client
                BY <2>3, <3>3 DEF CharHapLost, HapLost
            <4> QED
                BY <2>3, <3>1, <3>3, <4>1 DEF CharHapLost, LostStep
        <3> QED
            BY <3>2, <3>3
    <2>4. CASE ActiveSent(c)
        BY <2>4 DEF ActiveSent, Quiet, vars
    <2>5. CASE CharActivate(c)
        <3>1. UNCHANGED <<active_identifier_char, rolled_back, listening>>
            BY <2>5 DEF CharActivate
        <3>2. CASE active_identifier = 0
            <4>1. UNCHANGED <<vars, active_char>>
                BY <2>5, <3>2 DEF CharActivate
            <4> QED
                BY <3>1, <4>1 DEF Quiet, vars, chars
        <3>3. CASE active_identifier # 0
            <4>1. Activate(c) /\ active_char' = ClientUpdateValue(active_char, c, 1)
                BY <2>5, <3>3 DEF CharActivate
            <4> QED
                BY <3>1, <4>1 DEF Activate, memory, ActiveStepOf
        <3> QED
            BY <3>2, <3>3
    <2>6. CASE CharDeactivate(c)
        <3>1. active_client' = NoClient /\ UNCHANGED active_identifier
            BY <2>6 DEF CharDeactivate, Deactivate, memory
        <3> QED
            BY <2>6, <3>1 DEF CharDeactivate, ActiveStepOf, sessions
    <2>7. ASSUME NEW t \in Target \cup {0}, WriteIdentifier(c, t)
          PROVE  WriteStep(c, t)
        <3>1. /\ active_identifier_char' =
                    ClientUpdateValue(active_identifier_char, c, t)
              /\ rolled_back' = StillRolledBack(t)
              /\ UNCHANGED listening
            BY <2>7 DEF WriteIdentifier, sessions
        <3>2. CASE t = active_identifier /\ UNCHANGED <<vars, active_char>>
            BY <3>1, <3>2 DEF WriteStep, vars
        <3>3. CASE SetActiveIdentifier(t, TRUE)
                   /\ active_char' = SetValue(active_char, 0)
            BY <3>1, <3>3 DEF WriteStep, SetActiveIdentifier, Select
        <3> QED
            BY <2>7, <3>2, <3>3 DEF WriteIdentifier
    <2>8. ASSUME NEW t \in Target \cup {0}, WriteIdentifierFails(c, t)
          PROVE  FailStep
        BY <2>8 DEF WriteIdentifierFails, FailStep, SetActiveIdentifier, Select,
                    sessions
    <2> QED
        BY <2>1, <2>2, <2>3, <2>4, <2>5, <2>6, <2>7, <2>8
<1>4. CASE CharHdsStep
    <2>1. UNCHANGED charVars
        BY <1>4 DEF CharHdsStep
    <2>2. HdsStep => UNCHANGED <<active_identifier, active_client>>
        BY DEF HdsStep, HdsAccept, HdsWhoamiArrives, HdsWhoami, HdsLost, memory
    <2>3. SiriStart \/ SiriEnd \/ CloseHds
            => UNCHANGED <<active_identifier, active_client>>
        BY DEF SiriStart, SiriEnd, CloseHds, memory
    <2> QED
        BY <1>4, <2>1, <2>2, <2>3 DEF CharHdsStep, Quiet, charVars, sessions
<1>5. CASE PressStep
    BY <1>5 DEF PressStep, PressDown, PressUp, PressRaises, Quiet, vars, sessions
<1>6. CASE CharStop
    BY <1>6 DEF CharStop, OverStep
<1>7. CASE CharRestart
    BY <1>7 DEF CharRestart, OverStep
<1>8. CASE UNCHANGED <<vars, charVars>>
    BY <1>8 DEF Quiet, vars, charVars, sessions
<1> QED
    BY <1>1, <1>2, <1>3, <1>4, <1>5, <1>6, <1>7, <1>8 DEF CharNext

-----------------------------------------------------------------------------
(* Type correctness.                                                       *)

\* The methods of a characteristic keep its type.
LEMMA CharTypes ==
    ASSUME NEW V, NEW char \in CharType(V), NEW v \in V, NEW c \in Client,
           NEW C, 0 \in V, V \subseteq Nat
    PROVE  /\ NewChar \in CharType(V)
           /\ SetValue(char, v) \in CharType(V)
           /\ ClientUpdateValue(char, c, v) \in CharType(V)
           /\ GetValue(char, c, v) \in CharType(V)
           /\ Forget(char, C) \in CharType(V)
<1>1. char.value \in V /\ char.told \in [Client -> V]
    BY DEF CharType
<1>2. NewChar \in CharType(V)
    BY DEF NewChar, CharType
<1>3. SetValue(char, v) \in CharType(V)
    <2>1. [d \in Client |-> IF d \in listening /\ char.value # v
                            THEN v ELSE char.told[d]] \in [Client -> V]
        BY <1>1
    <2> QED
        BY <2>1 DEF SetValue, CharType
<1>4. ClientUpdateValue(char, c, v) \in CharType(V)
    <2>1. [d \in Client |-> IF d \in listening /\ (d = c \/ char.value # v)
                            THEN v ELSE char.told[d]] \in [Client -> V]
        BY <1>1
    <2> QED
        BY <2>1 DEF ClientUpdateValue, CharType
<1>5. GetValue(char, c, v) \in CharType(V)
    BY <1>1 DEF GetValue, CharType
<1>6. Forget(char, C) \in CharType(V)
    <2>1. [d \in Client |-> IF d \in C THEN 0 ELSE char.told[d]] \in [Client -> V]
        BY <1>1
    <2> QED
        BY <1>1, <2>1 DEF Forget, CharType
<1> QED
    BY <1>2, <1>3, <1>4, <1>5, <1>6

\* The part of CharTypeOK about the characteristics themselves.
ValuesType ==
    /\ active_identifier_char \in CharType(Target \cup {0})
    /\ active_char \in CharType({0, 1})
    /\ rolled_back \in BOOLEAN

LEMMA ValuesTypeStep ==
    ASSUME TypeOK, CharTypeOK, [CharNext]_<<vars, charVars>>
    PROVE  ValuesType'
<1> DEFINE T == Target \cup {0}
<1>1. /\ active_identifier_char \in CharType(T) /\ active_char \in CharType({0, 1})
      /\ rolled_back \in BOOLEAN
    BY DEF CharTypeOK
<1>2. T \subseteq Nat /\ 0 \in T
    BY TargetAssumption
<1>3. {0, 1} \subseteq Nat /\ 0 \in {0, 1} /\ 1 \in {0, 1}
    OBVIOUS
<1>4. active_identifier \in T /\ ActiveValue \in {0, 1}
    BY DEF TypeOK, ActiveValue
<1>5. /\ NewChar \in CharType(T) /\ NewChar \in CharType({0, 1})
      /\ \A v \in T : SetValue(active_identifier_char, v) \in CharType(T)
      /\ \A v \in {0, 1} : SetValue(active_char, v) \in CharType({0, 1})
    <2>1. CASE Client = {}
        <3>1. \A x : [c \in Client |-> x] \in [Client -> T]
                     /\ [c \in Client |-> x] \in [Client -> {0, 1}]
            BY <2>1
        <3> QED
            BY <1>2, <1>3, <2>1 DEF NewChar, SetValue, CharType
    <2>2. CASE Client # {}
        BY <1>1, <1>2, <1>3, <2>2, CharTypes
    <2> QED
        BY <2>1, <2>2
<1>6. \A c \in Client :
         /\ \A v \in T : ClientUpdateValue(active_identifier_char, c, v) \in CharType(T)
         /\ \A v \in {0, 1} : ClientUpdateValue(active_char, c, v) \in CharType({0, 1})
         /\ GetValue(active_identifier_char, c, active_identifier) \in CharType(T)
         /\ GetValue(active_char, c, ActiveValue) \in CharType({0, 1})
         /\ Forget(active_identifier_char, {c}) \in CharType(T)
         /\ Forget(active_char, {c}) \in CharType({0, 1})
         /\ Forget(SetValue(active_char, 0), {c}) \in CharType({0, 1})
    BY <1>1, <1>2, <1>3, <1>4, <1>5, CharTypes
<1>7. /\ Forget(active_identifier_char, Client) \in CharType(T)
      /\ Forget(active_char, Client) \in CharType({0, 1})
    <2>1. /\ [c \in Client |-> IF c \in Client THEN 0
                 ELSE active_identifier_char.told[c]] \in [Client -> T]
          /\ [c \in Client |-> IF c \in Client THEN 0
                 ELSE active_char.told[c]] \in [Client -> {0, 1}]
        BY <1>2
    <2>2. active_identifier_char.value \in T /\ active_char.value \in {0, 1}
        BY <1>1 DEF CharType
    <2> QED
        BY <2>1, <2>2 DEF Forget, CharType
<1>8. \A v \in T : StillRolledBack(v) \in BOOLEAN
    BY <1>1 DEF StillRolledBack
<1> HIDE DEF T
<1>9. CASE Quiet
    BY <1>1, <1>9 DEF Quiet, chars, ValuesType, T
<1>10. CASE FailStep
    BY <1>1, <1>5, <1>10 DEF FailStep, ValuesType, T
<1>11. CASE OverStep
    BY <1>1, <1>5, <1>7, <1>11 DEF OverStep, ValuesType, T
<1>12. ASSUME NEW v \in T, SelectedStep(v) \/ FirstStep(v)
       PROVE  ValuesType'
    BY <1>1, <1>5, <1>8, <1>12 DEF SelectedStep, FirstStep, Selected, ValuesType, T
<1>13. ASSUME NEW c \in Client, Read(c)
       PROVE  ValuesType'
    <2>1. rolled_back' \in BOOLEAN
        BY <1>13 DEF Read
    <2> QED
        BY <1>6, <1>13, <2>1 DEF Read, ValuesType, T
<1>14. ASSUME NEW c \in Client, ActiveStepOf(c) \/ LostStep(c)
       PROVE  ValuesType'
    BY <1>1, <1>6, <1>14 DEF ActiveStepOf, LostStep, ValuesType, T
<1>15. ASSUME NEW c \in Client, NEW v \in T, WriteStep(c, v)
       PROVE  ValuesType'
    BY <1>1, <1>5, <1>6, <1>8, <1>15 DEF WriteStep, ValuesType, T
<1> QED
    BY <1>9, <1>10, <1>11, <1>12, <1>13, <1>14, <1>15, KindsOfSteps DEF T

\* Who listens is connected, and who activates listens.
LEMMA SessionsStep ==
    ASSUME TypeOK, CharTypeOK, [CharNext]_<<vars, charVars>>
    PROVE  /\ activating' \subseteq listening' /\ listening' \subseteq hap'
           /\ presses' \in [Presser -> Target \cup {0}]
<1> DEFINE Same == UNCHANGED <<listening, activating, presses, hap>>
<1>1. /\ activating \subseteq listening /\ listening \subseteq hap
      /\ presses \in [Presser -> Target \cup {0}]
    BY DEF CharTypeOK
<1>2. CASE CharTargetListWrite
    <2>1. CharTargetListWrite => UNCHANGED hap
        BY DEF CharTargetListWrite, CharListAdd, CharListRemove, CharListReset,
               ListAdd, ListUpdate, ListRemoveButtons, ListRemove, ListReset,
               ListList
    <2>2. CharTargetListWrite => UNCHANGED <<sessions, presses>>
        BY DEF CharTargetListWrite, CharListAdd, CharListRemove, CharListReset,
               charVars
    <2> QED
        BY <1>1, <1>2, <2>1, <2>2 DEF sessions
<1>3. CASE CharSelect
    <2>1. UNCHANGED <<hap, sessions, presses>>
        BY <1>3 DEF CharSelect, SetActiveIdentifier
    <2> QED
        BY <1>1, <2>1 DEF sessions
<1>4. CASE CharHapStep
    <2>1. PICK c \in Client :
              \/ HapConnect(c) /\ UNCHANGED charVars
              \/ CharHapLost(c) \/ Read(c)
              \/ ActiveSent(c) \/ CharActivate(c) \/ CharDeactivate(c)
              \/ \E t \in Target \cup {0} :
                     WriteIdentifier(c, t) \/ WriteIdentifierFails(c, t)
        BY <1>4 DEF CharHapStep
    <2>2. CASE HapConnect(c) /\ UNCHANGED charVars
        BY <1>1, <2>2 DEF HapConnect, charVars, sessions
    <2>3. CASE CharHapLost(c)
        BY <1>1, <2>3 DEF CharHapLost, HapLost
    <2>4. CASE Read(c)
        BY <1>1, <2>4 DEF Read, vars
    <2>5. CASE ActiveSent(c)
        BY <1>1, <2>5 DEF ActiveSent, vars
    <2>6. CASE CharActivate(c)
        <3>1. UNCHANGED hap
            BY <2>6 DEF CharActivate, Activate, vars
        <3> QED
            BY <1>1, <2>6, <3>1 DEF CharActivate
    <2>7. CASE CharDeactivate(c)
        BY <1>1, <2>7 DEF CharDeactivate, Deactivate, sessions
    <2>8. ASSUME NEW t \in Target \cup {0},
                 WriteIdentifier(c, t) \/ WriteIdentifierFails(c, t)
          PROVE  UNCHANGED <<hap, sessions, presses>>
        BY <2>8 DEF WriteIdentifier, WriteIdentifierFails, SetActiveIdentifier,
                    vars
    <2> QED
        BY <1>1, <2>1, <2>2, <2>3, <2>4, <2>5, <2>6, <2>7, <2>8 DEF sessions
<1>5. CASE CharHdsStep
    <2>1. UNCHANGED hap
        BY <1>5 DEF CharHdsStep, HdsStep, HdsAccept, HdsWhoamiArrives, HdsWhoami,
                    HdsLost, SiriStart, SiriEnd, CloseHds
    <2>2. UNCHANGED charVars
        BY <1>5 DEF CharHdsStep
    <2> QED
        BY <1>1, <2>1, <2>2 DEF charVars, sessions
<1>6. CASE PressStep
    <2>1. PICK p \in Presser : PressDown(p) \/ PressUp(p) \/ PressRaises(p)
        BY <1>6 DEF PressStep
    <2>2. UNCHANGED <<hap, sessions>>
        BY <2>1 DEF PressDown, PressUp, PressRaises, vars
    <2>3. presses' = [presses EXCEPT ![p] = active_identifier]
          \/ presses' = [presses EXCEPT ![p] = 0]
        BY <2>1 DEF PressDown, PressUp, PressRaises
    <2>4. active_identifier \in Target \cup {0}
        BY DEF TypeOK
    <2> QED
        BY <1>1, <2>2, <2>3, <2>4 DEF sessions
<1>7. CASE CharStop
    BY <1>1, <1>7 DEF CharStop, Stop
<1>8. CASE CharRestart
    BY <1>8 DEF CharRestart, Restart
<1>9. CASE UNCHANGED <<vars, charVars>>
    BY <1>1, <1>9 DEF vars, charVars, sessions
<1> QED
    BY <1>2, <1>3, <1>4, <1>5, <1>6, <1>7, <1>8, <1>9 DEF CharNext

\* Every variable stays in its type, here and in TargetControl.
THEOREM CharTypeCorrect == CharSpec => [](TypeOK /\ CharTypeOK)
<1>1. CharInit => TypeOK /\ CharTypeOK
    <2>1. CharInit => TypeOK
        BY TypeInit DEF CharInit
    <2>2. /\ [c \in Client |-> 0] \in [Client -> Target \cup {0}]
          /\ [c \in Client |-> 0] \in [Client -> {0, 1}]
          /\ [p \in Presser |-> 0] \in [Presser -> Target \cup {0}]
        OBVIOUS
    <2>3. NewChar \in CharType(Target \cup {0}) /\ NewChar \in CharType({0, 1})
        BY <2>2 DEF NewChar, CharType
    <2>4. CharInit => CharTypeOK
        BY <2>2, <2>3 DEF CharInit, CharTypeOK
    <2> QED
        BY <2>1, <2>4
<1>2. ASSUME TypeOK, CharTypeOK, [CharNext]_<<vars, charVars>>
      PROVE  TypeOK' /\ CharTypeOK'
    <2>1. TypeOK'
        BY <1>2, CharStepRefines, TypeStep
    <2>2. CharTypeOK'
        BY <1>2, ValuesTypeStep, SessionsStep DEF CharTypeOK, ValuesType
    <2> QED
        BY <2>1, <2>2
<1> QED
    BY <1>1, <1>2, PTL DEF CharSpec

-----------------------------------------------------------------------------
(* What sessions know.                                                     *)

\* The characteristic holds the value that its listeners were told.  Without
\* it IdentifierKnown and ActiveKnown are not inductive: set_value notifies
\* nobody of a value that the characteristic already has.
Known(char, v) ==
    \A c \in listening : char.value = v /\ char.told[c] = v

IdentifierInv == ~rolled_back => Known(active_identifier_char, active_identifier)

ActiveCharInv == Known(active_char, ActiveValue)

\* Whoever listens is told v, or has been; also after a write of v by c.
LEMMA Told ==
    ASSUME listening \subseteq Client, NEW char, NEW v,
           char.value # v \/ Known(char, v)
    PROVE  /\ SetValue(char, v).value = v
           /\ \A d \in listening : SetValue(char, v).told[d] = v
BY DEF SetValue, Known

LEMMA ToldByWrite ==
    ASSUME listening \subseteq Client, NEW char, NEW v, NEW c \in Client,
           char.value # v \/ Known(char, v)
    PROVE  /\ ClientUpdateValue(char, c, v).value = v
           /\ \A d \in listening : ClientUpdateValue(char, c, v).told[d] = v
BY DEF ClientUpdateValue, Known

\* A session that is gone takes nothing from what the others know.
LEMMA Forgotten ==
    ASSUME listening \subseteq Client, NEW char, NEW c
    PROVE  /\ Forget(char, {c}).value = char.value
           /\ \A d \in listening \ {c} : Forget(char, {c}).told[d] = char.told[d]
BY DEF Forget

LEMMA IdentifierStep ==
    ASSUME TypeOK, CharTypeOK, IdentifierInv, [CharNext]_<<vars, charVars>>
    PROVE  IdentifierInv'
<1> DEFINE char == active_identifier_char
<1>1. listening \subseteq Client
    BY DEF CharTypeOK, TypeOK
<1>2. char.told \in [Client -> Target \cup {0}]
    BY DEF CharTypeOK, CharType
<1> SUFFICES ASSUME ~rolled_back', NEW d \in listening'
             PROVE  /\ char'.value = active_identifier'
                    /\ char'.told[d] = active_identifier'
    BY DEF IdentifierInv, Known
<1>3. CASE Quiet
    BY <1>3 DEF Quiet, chars, IdentifierInv, Known
<1>4. CASE FailStep
    BY <1>4 DEF FailStep
<1>5. CASE OverStep
    BY <1>5 DEF OverStep
<1>6. ASSUME NEW v \in Target \cup {0}, SelectedStep(v) \/ FirstStep(v)
      PROVE  char'.value = active_identifier' /\ char'.told[d] = active_identifier'
    <2>1. /\ active_identifier' = v /\ listening' = listening
          /\ char' = SetValue(char, v) /\ ~StillRolledBack(v)
        BY <1>6 DEF SelectedStep, FirstStep, Selected
    <2>2. char.value # v \/ Known(char, v)
        BY <1>1, <2>1 DEF StillRolledBack, IdentifierInv, Known
    <2> QED
        BY <1>1, <2>1, <2>2, Told
<1>7. ASSUME NEW c \in Client, NEW v \in Target \cup {0}, WriteStep(c, v)
      PROVE  char'.value = active_identifier' /\ char'.told[d] = active_identifier'
    <2>1. /\ active_identifier' = v /\ listening' = listening
          /\ char' = ClientUpdateValue(char, c, v) /\ ~StillRolledBack(v)
        BY <1>7 DEF WriteStep
    <2>2. char.value # v \/ Known(char, v)
        BY <1>1, <2>1 DEF StillRolledBack, IdentifierInv, Known
    <2> QED
        BY <1>1, <2>1, <2>2, ToldByWrite
<1>8. ASSUME NEW c \in Client, Read(c)
      PROVE  char'.value = active_identifier' /\ char'.told[d] = active_identifier'
    <2>1. /\ UNCHANGED active_identifier /\ listening' = listening \cup {c}
          /\ char' = GetValue(char, c, active_identifier)
          /\ rolled_back => listening \ {c} = {}
        BY <1>8 DEF Read, vars
    <2>2. CASE d = c
        BY <1>2, <2>1, <2>2 DEF GetValue
    <2>3. CASE d # c
        <3>1. d \in listening /\ ~rolled_back
            BY <2>1, <2>3
        <3> QED
            BY <1>1, <1>2, <2>1, <2>3, <3>1 DEF GetValue, IdentifierInv, Known
    <2> QED
        BY <2>2, <2>3
<1>9. ASSUME NEW c \in Client, ActiveStepOf(c)
      PROVE  char'.value = active_identifier' /\ char'.told[d] = active_identifier'
    BY <1>9 DEF ActiveStepOf, IdentifierInv, Known
<1>10. ASSUME NEW c \in Client, LostStep(c)
       PROVE  char'.value = active_identifier' /\ char'.told[d] = active_identifier'
    <2>1. /\ char' = Forget(char, {c}) /\ listening' = listening \ {c}
          /\ UNCHANGED <<rolled_back, active_identifier>>
        BY <1>10 DEF LostStep
    <2> QED
        BY <1>1, <2>1, Forgotten DEF IdentifierInv, Known
<1> QED
    BY <1>3, <1>4, <1>5, <1>6, <1>7, <1>8, <1>9, <1>10, KindsOfSteps

\* However targets are selected, every session that listens knows the selected
\* one, unless a write of it was rolled back.
THEOREM IdentifierIsKnown == CharSpec => []IdentifierKnown
<1>1. CharInit => IdentifierInv
    BY DEF CharInit, IdentifierInv, Known
<1>2. TypeOK /\ CharTypeOK /\ IdentifierInv /\ [CharNext]_<<vars, charVars>>
        => IdentifierInv'
    BY IdentifierStep
<1>3. IdentifierInv => IdentifierKnown
    BY DEF IdentifierInv, IdentifierKnown, Known
<1> QED
    BY <1>1, <1>2, <1>3, CharTypeCorrect, PTL DEF CharSpec

LEMMA ActiveCharStep ==
    ASSUME TypeOK, CharTypeOK, ActiveCharInv, [CharNext]_<<vars, charVars>>
    PROVE  ActiveCharInv'
<1> DEFINE char == active_char
<1>1. listening \subseteq Client
    BY DEF CharTypeOK, TypeOK
<1>2. char.told \in [Client -> {0, 1}]
    BY DEF CharTypeOK, CharType
<1> SUFFICES ASSUME NEW d \in listening'
             PROVE  char'.value = ActiveValue' /\ char'.told[d] = ActiveValue'
    BY DEF ActiveCharInv, Known
<1>3. active_client' = NoClient => ActiveValue' = 0
    BY DEF ActiveValue
<1>4. UNCHANGED active_client => UNCHANGED ActiveValue
    BY DEF ActiveValue
<1>5. \A v : char.value # v \/ Known(char, v)
    BY DEF ActiveCharInv, Known
<1>6. ASSUME NEW C \in SUBSET Client, listening' = C, C = listening,
             char' = SetValue(char, 0), active_client' = NoClient
      PROVE  char'.value = ActiveValue' /\ char'.told[d] = ActiveValue'
    BY <1>1, <1>3, <1>5, <1>6, Told
<1>7. CASE Quiet
    BY <1>4, <1>7 DEF Quiet, chars, ActiveCharInv, Known
<1>8. CASE FailStep
    BY <1>1, <1>6, <1>8 DEF FailStep
<1>9. CASE OverStep
    BY <1>9 DEF OverStep
<1>10. ASSUME NEW v \in Target \cup {0}, SelectedStep(v) \/ FirstStep(v)
       PROVE  char'.value = ActiveValue' /\ char'.told[d] = ActiveValue'
    <2>1. CASE SelectedStep(v)
        BY <1>1, <1>6, <2>1 DEF SelectedStep, Selected
    <2>2. CASE FirstStep(v)
        BY <1>4, <2>2 DEF FirstStep, ActiveCharInv, Known
    <2> QED
        BY <1>10, <2>1, <2>2
<1>11. ASSUME NEW c \in Client, NEW v \in Target \cup {0}, WriteStep(c, v)
       PROVE  char'.value = ActiveValue' /\ char'.told[d] = ActiveValue'
    <2>1. CASE UNCHANGED <<active_char, active_client>>
        BY <1>4, <1>11, <2>1 DEF WriteStep, ActiveCharInv, Known
    <2>2. CASE char' = SetValue(char, 0) /\ active_client' = NoClient
        BY <1>1, <1>6, <1>11, <2>2 DEF WriteStep
    <2> QED
        BY <1>11, <2>1, <2>2 DEF WriteStep
<1>12. ASSUME NEW c \in Client, Read(c)
       PROVE  char'.value = ActiveValue' /\ char'.told[d] = ActiveValue'
    <2>1. /\ UNCHANGED active_client /\ listening' = listening \cup {c}
          /\ char' = GetValue(char, c, ActiveValue)
        BY <1>12 DEF Read, vars
    <2> QED
        BY <1>1, <1>2, <1>4, <2>1 DEF GetValue, ActiveCharInv, Known
<1>13. ASSUME NEW c \in Client, ActiveStepOf(c)
       PROVE  char'.value = ActiveValue' /\ char'.told[d] = ActiveValue'
    <2>1. listening' = listening
        BY <1>13 DEF ActiveStepOf
    <2>2. CASE active_client' = c /\ char' = ClientUpdateValue(char, c, 1)
        <3>1. ActiveValue' = 1
            BY <2>2, TargetAssumption DEF ActiveValue
        <3> QED
            BY <1>1, <1>5, <2>1, <2>2, <3>1, ToldByWrite
    <2>3. CASE active_client' = NoClient /\ char' = ClientUpdateValue(char, c, 0)
        BY <1>1, <1>3, <1>5, <2>1, <2>3, ToldByWrite
    <2> QED
        BY <1>13, <2>2, <2>3 DEF ActiveStepOf
<1>14. ASSUME NEW c \in Client, LostStep(c)
       PROVE  char'.value = ActiveValue' /\ char'.told[d] = ActiveValue'
    <2>1. listening' = listening \ {c}
        BY <1>14 DEF LostStep
    <2>2. CASE active_client' = NoClient
               /\ char' = Forget(SetValue(char, 0), {c})
        <3>1. SetValue(char, 0).value = 0 /\ SetValue(char, 0).told[d] = 0
            BY <1>1, <1>5, <2>1, Told
        <3>2. /\ char'.value = SetValue(char, 0).value
              /\ char'.told[d] = SetValue(char, 0).told[d]
            BY <1>1, <2>1, <2>2, Forgotten
        <3> QED
            BY <1>3, <2>2, <3>1, <3>2
    <2>3. CASE UNCHANGED active_client /\ char' = Forget(char, {c})
        BY <1>1, <1>4, <2>1, <2>3, Forgotten DEF ActiveCharInv, Known
    <2> QED
        BY <1>14, <2>2, <2>3 DEF LostStep
<1> QED
    BY <1>7, <1>8, <1>9, <1>10, <1>11, <1>12, <1>13, <1>14, KindsOfSteps

\* Every session that listens knows whether Target Control is active.
THEOREM ActiveIsKnown == CharSpec => []ActiveKnown
<1>1. CharInit => ActiveCharInv
    BY DEF CharInit, ActiveCharInv, Known
<1>2. TypeOK /\ CharTypeOK /\ ActiveCharInv /\ [CharNext]_<<vars, charVars>>
        => ActiveCharInv'
    BY ActiveCharStep
<1>3. ActiveCharInv => ActiveKnown
    BY DEF ActiveCharInv, ActiveKnown, Known
<1> QED
    BY <1>1, <1>2, <1>3, CharTypeCorrect, PTL DEF CharSpec

\* With sessions that read, write and are notified, too, the file holds what
\* memory holds unless the last save has failed.
THEOREM CharDurable == CharSpec => []Durable
BY CharacteristicsImplement, SavedIsDurable

=============================================================================
