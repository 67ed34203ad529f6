-------------------------- MODULE Characteristics --------------------------
(***************************************************************************)
(* TargetControl as HAP sessions see it: the values of the characteristics *)
(* ActiveIdentifier and Active (hap.py), the notifications of them, writes *)
(* by a session whose setter may raise, and the button events of press().  *)
(*                                                                         *)
(* Each action of TargetControl is conjoined with what its handler does to *)
(* the characteristics; press() awaits between its two events and is two.  *)
(* set_value, notify and the getters are HAP-python's, as hap.py uses them.*)
(***************************************************************************)
EXTENDS TargetControl

CONSTANT Presser     \* calls of press()

VARIABLES
    active_identifier_char,  \* ActiveIdentifier: its value, what sessions know
    active_char,             \* Active: the same
    listening,               \* sessions that have read both and subscribed
    activating,              \* Apple TVs whose Active = 1 is under way
    rolled_back,             \* see WriteIdentifierFails
    presses                  \* the target that saw each press() go down, or 0

chars == <<active_identifier_char, active_char, rolled_back>>
sessions == <<listening, activating>>
charVars == <<chars, sessions, presses>>

-----------------------------------------------------------------------------
(* What the methods of Characteristic do to one: _value, and what each     *)
(* session that listens was last told of it.                               *)

\* A new characteristic has the least value of its format.
NewChar == [value |-> 0, told |-> [c \in Client |-> 0]]

\* Characteristic.set_value: everybody is notified, if it changes the value.
SetValue(char, v) ==
    [value |-> v,
     told  |-> [c \in Client |-> IF c \in listening /\ char.value # v
                                 THEN v ELSE char.told[c]]]

\* Mutant of ClientUpdateValue: the new value is compared with itself.
ClientUpdateSilent(char, c, v) ==
    [value |-> v,
     told  |-> [char.told EXCEPT ![c] = IF c \in listening THEN v ELSE @]]

\* client_update_value, when the setter returns: the sender is not notified,
\* it knows what it wrote.
ClientUpdateValue(char, c, v) ==
    [value |-> v,
     told  |-> [d \in Client |-> IF d \in listening /\ (d = c \/ char.value # v)
                                 THEN v ELSE char.told[d]]]

\* A read goes to the getter and leaves its answer in the characteristic;
\* nobody is notified of that.
GetValue(char, c, v) == [value |-> v, told |-> [char.told EXCEPT ![c] = v]]

Forget(char, C) ==
    [value |-> char.value,
     told  |-> [c \in Client |-> IF c \in C THEN 0 ELSE char.told[c]]]

ActiveValue == IF active_client = NoClient THEN 0 ELSE 1

\* A session that has missed a value rolled back learns the next that differs
\* from the one the characteristic was rolled back to.
StillRolledBack(v) == rolled_back /\ active_identifier_char.value = v

\* The characteristics as set_active_identifier and RESET set them.
Selected(v) ==
    /\ active_identifier_char' = SetValue(active_identifier_char, v)
    /\ active_char' = SetValue(active_char, 0)
    /\ rolled_back' = StillRolledBack(v)

-----------------------------------------------------------------------------
(* The target list, and selections that no HAP session has written.        *)

CharListAdd(t, B, ok) ==
    /\ ListAdd(t, B, ok)
    /\ IF active_identifier = 0
       THEN /\ active_identifier_char' = SetValue(active_identifier_char, t)
            /\ rolled_back' = StillRolledBack(t)
            /\ UNCHANGED active_char
       ELSE UNCHANGED chars
    /\ UNCHANGED <<sessions, presses>>

CharListRemove(t, ok) ==
    /\ ListRemove(t, ok)
    /\ IF active_identifier = t THEN Selected(Lowest(targets'))
       ELSE UNCHANGED chars
    /\ UNCHANGED <<sessions, presses>>

CharListReset(ok) ==
    ListReset(ok) /\ Selected(0) /\ UNCHANGED <<sessions, presses>>

CharTargetListWrite ==
    /\ hap # {}
    /\ \E ok \in BOOLEAN :
          \/ \E t \in Target : \E B \in SUBSET Button :
                \/ CharListAdd(t, B, ok)
                \/ ListUpdate(t, B, ok) /\ UNCHANGED charVars
                \/ ListRemoveButtons(t, B, ok) /\ UNCHANGED charVars
          \/ \E t \in Target : CharListRemove(t, ok)
          \/ CharListReset(ok)
          \/ ListList(ok) /\ UNCHANGED charVars

\* POST /active, press() and start_siri() with another target.
CharSelect ==
    \E t \in Target \cup {0} : \E ok \in BOOLEAN :
        /\ SetActiveIdentifier(t, ok)
        /\ Selected(t)
        /\ UNCHANGED <<sessions, presses>>

-----------------------------------------------------------------------------
(* HAP sessions: reads, and writes of the two characteristics.             *)

\* The session reads both characteristics and subscribes to them.
Read(c) ==
    /\ c \in hap
    /\ listening' = listening \cup {c}
    /\ active_identifier_char' =
            GetValue(active_identifier_char, c, active_identifier)
    /\ active_char' = GetValue(active_char, c, ActiveValue)
    /\ rolled_back' = (rolled_back /\ listening \ {c} # {})
    /\ UNCHANGED <<vars, activating, presses>>

\* hap_active_identifier_write.  The characteristic has the new value when the
\* setter runs, so its set_value notifies nobody; the writer's peers are
\* notified afterwards.
WriteIdentifier(c, t) ==
    /\ c \in hap
    /\ \/ t = active_identifier /\ UNCHANGED <<vars, active_char>>
       \/ SetActiveIdentifier(t, TRUE) /\ active_char' = SetValue(active_char, 0)
    /\ active_identifier_char' = ClientUpdateValue(active_identifier_char, c, t)
    /\ rolled_back' = StillRolledBack(t)
    /\ UNCHANGED <<sessions, presses>>

\* The save raises: the characteristic gets its old value back, but the target
\* stays selected, and no session is told.
WriteIdentifierFails(c, t) ==
    /\ c \in hap
    /\ SetActiveIdentifier(t, FALSE)
    /\ active_char' = SetValue(active_char, 0)
    /\ rolled_back' = TRUE
    /\ UNCHANGED <<active_identifier_char, sessions, presses>>

\* An Apple TV writes Active = 1 when the last it was told is its own name.
ActiveSent(c) ==
    /\ c \in listening \ activating
    /\ active_identifier_char.told[c] = Owner[c]
    /\ activating' = activating \cup {c}
    /\ UNCHANGED <<vars, chars, listening, presses>>

\* The write arrives: hap_active_write(1), refused while no target is selected.
CharActivate(c) ==
    /\ c \in activating
    /\ activating' = activating \ {c}
    /\ IF active_identifier = 0
       THEN UNCHANGED <<vars, active_char>>
       ELSE Activate(c) /\ active_char' = ClientUpdateValue(active_char, c, 1)
    /\ UNCHANGED <<active_identifier_char, rolled_back, listening, presses>>

CharDeactivate(c) ==
    /\ Deactivate(c)
    /\ active_char' = ClientUpdateValue(active_char, c, 0)
    /\ UNCHANGED <<active_identifier_char, rolled_back, sessions, presses>>

\* Mutant of CharHapLost: Active is not set back.
CharHapLostSilent(c) ==
    /\ HapLost(c)
    /\ active_identifier_char' = Forget(active_identifier_char, {c})
    /\ active_char' = Forget(active_char, {c})
    /\ listening' = listening \ {c}
    /\ activating' = activating \ {c}
    /\ UNCHANGED <<rolled_back, presses>>

\* Mutant of CharHapLost: a write that is under way outlives its session.
CharHapLostActivating(c) ==
    /\ HapLost(c)
    /\ active_identifier_char' = Forget(active_identifier_char, {c})
    /\ active_char' = Forget(active_char, {c})
    /\ listening' = listening \ {c}
    /\ UNCHANGED <<activating, rolled_back, presses>>

\* A session that is lost is told nothing more.
CharHapLost(c) ==
    /\ HapLost(c)
    /\ active_identifier_char' = Forget(active_identifier_char, {c})
    /\ active_char' = Forget(IF active_client = c THEN SetValue(active_char, 0)
                             ELSE active_char, {c})
    /\ listening' = listening \ {c}
    /\ activating' = activating \ {c}
    /\ UNCHANGED <<rolled_back, presses>>

-----------------------------------------------------------------------------
(* press(): _send_button twice, with a sleep in between.                   *)

CanSend == active_identifier # 0 /\ active_client # NoClient

PressDown(p) ==
    /\ presses[p] = 0 /\ CanSend
    /\ presses' = [presses EXCEPT ![p] = active_identifier]
    /\ UNCHANGED <<vars, chars, sessions>>

\* The release names the target selected now.
PressUp(p) ==
    /\ presses[p] # 0 /\ CanSend
    /\ presses' = [presses EXCEPT ![p] = 0]
    /\ UNCHANGED <<vars, chars, sessions>>

\* There is none, or none that is active: press() raises.
PressRaises(p) ==
    /\ presses[p] # 0 /\ ~CanSend
    /\ presses' = [presses EXCEPT ![p] = 0]
    /\ UNCHANGED <<vars, chars, sessions>>

-----------------------------------------------------------------------------
(* stop() and start() in the same process, and a new process.              *)

\* The characteristics outlive stop(); whether the loss of the session that
\* was active still sets Active back depends on which of the two comes first.
CharStop ==
    /\ Stop
    /\ active_identifier_char' = Forget(active_identifier_char, Client)
    /\ \/ active_char' = Forget(active_char, Client)
       \/ active_char' = NewChar
    /\ listening' = {} /\ activating' = {}
    /\ UNCHANGED <<rolled_back, presses>>

CharRestart ==
    /\ Restart
    /\ active_identifier_char' = NewChar /\ active_char' = NewChar
    /\ rolled_back' = FALSE
    /\ listening' = {} /\ activating' = {}
    /\ presses' = [p \in Presser |-> 0]

CharInit ==
    /\ Init
    /\ active_identifier_char = NewChar /\ active_char = NewChar
    /\ rolled_back = FALSE
    /\ listening = {} /\ activating = {}
    /\ presses = [p \in Presser |-> 0]

CharHapStep ==
    \E c \in Client :
        \/ HapConnect(c) /\ UNCHANGED charVars
        \/ CharHapLost(c) \/ Read(c)
        \/ ActiveSent(c) \/ CharActivate(c) \/ CharDeactivate(c)
        \/ \E t \in Target \cup {0} :
               WriteIdentifier(c, t) \/ WriteIdentifierFails(c, t)

CharHdsStep ==
    (HdsStep \/ SiriStart \/ SiriEnd \/ CloseHds) /\ UNCHANGED charVars

PressStep == \E p \in Presser : PressDown(p) \/ PressUp(p) \/ PressRaises(p)

CharNext ==
    \/ CharTargetListWrite \/ CharSelect \/ CharHapStep \/ CharHdsStep
    \/ PressStep \/ CharStop \/ CharRestart

CharSpec == CharInit /\ [][CharNext]_<<vars, charVars>>

-----------------------------------------------------------------------------
(* Properties                                                              *)

CharType(V) == [value: V, told: [Client -> V]]

\* Every variable stays in its type, and only a session that is connected and
\* listens has a write of Active under way.
CharTypeOK ==
    /\ active_identifier_char \in CharType(Target \cup {0})
    /\ active_char \in CharType({0, 1})
    /\ activating \subseteq listening /\ listening \subseteq hap
    /\ rolled_back \in BOOLEAN
    /\ presses \in [Presser -> Target \cup {0}]

\* Every session that listens knows which target is selected, whoever has
\* selected it and by which way: list operation, request, or write.  The
\* exception are writes whose save raised, until the value changes again.
IdentifierKnown ==
    ~rolled_back => \A c \in listening :
                        active_identifier_char.told[c] = active_identifier

\* Every session that listens knows whether Target Control is active, also
\* when it was deactivated by a selection, a failed save or a lost session.
ActiveKnown == \A c \in listening : active_char.told[c] = ActiveValue

siri_ready ==
    /\ active_identifier # 0 /\ active_client # NoClient
    /\ LET c == hds_connections[active_identifier]
       IN  c # NoConn /\ hds[c].state = "open"

\* README.md: "siri_ready requires all of the following: a selected target, the
\* Apple TV having set Target Control Active, and a live HDS connection".  The
\* code breaks this: any HAP session may set Active, also that of an Apple TV
\* that has not yet learnt that another target was selected.
SiriReadyMeansActivated ==
    siri_ready => Owner[active_client] = active_identifier

\* README.md: POST /press/<BUTTON> will "Press and release a remote button".
\* The target that saw the button go down is the one that sees it come up.  The
\* code breaks this: the release is sent to the target selected when the hold
\* is over.
PressReleased ==
    [][\A p \in Presser :
           PressUp(p) => presses[p] = active_identifier]_<<vars, charVars>>

=============================================================================
