----------------------------- MODULE MCTargets -----------------------------
(***************************************************************************)
(* The target list over sets of targets that grow by one in a step: what   *)
(* the readers make of the bytes is compared with the targets.             *)
(***************************************************************************)
EXTENDS MCTlv8, TargetConfiguration

CONSTANTS
    MaxTargets,   \* targets of an input
    Samples       \* which targets there may be

Byte == 0..255
Word == {n \in Nat : n < 65536}

Button == [button_type: Word, button_name: Seq(Byte) \cup {None}]

\* What may be stored: whatever _parse_target returns.
IsTarget(t) ==
    /\ DOMAIN t = {"target_identifier", "target_name", "target_category", "buttons"}
    /\ t.target_identifier \in Nat \ {0} /\ t.target_identifier \div 65536 \in Word
    /\ t.target_name # None => /\ t.target_name \in Seq(Byte)
                               /\ Len(t.target_name) \in 1..MaxTargetNameBytes
    /\ t.target_category \in Word \cup {None}
    /\ t.buttons = [id \in DOMAIN t.buttons |-> t.buttons[id]]
    /\ \A id \in DOMAIN t.buttons : id \in Byte /\ t.buttons[id] \in Button

ASSUME SamplesAssumption == \A t \in Samples : IsTarget(t)

\* ADD by the hub: a target with another identifier than those there are.
AddTarget ==
    /\ input.of = "targets" /\ Cardinality(input.targets) < MaxTargets
    /\ \E t \in Samples :
          /\ \A s \in input.targets : s.target_identifier # t.target_identifier
          /\ input' = [input EXCEPT !.targets = @ \cup {t}]

TargetsInit == input = [of |-> "targets", targets |-> {}]

TargetsSpec == TargetsInit /\ [][AddTarget]_input

-----------------------------------------------------------------------------
(* Property                                                                *)

\* The target list reads back as the targets that are stored, all of them and
\* in the order of their identifiers: names, types and ids with the button they
\* belong to.  It has nothing between two targets, so one that fills its last
\* segment is not told from the next.
TargetsReadBack ==
    input.of = "targets" =>
        LET sorted == SortedTargets(input.targets)
            list == DecodeList(target_list_value(input.targets),
                               TC_LIST_TARGET_CONFIGURATION)
        IN  /\ \A t \in input.targets :
                  /\ ParseTarget(TargetValue(t)) = Returns(Readable(t))
                  /\ \E k \in DOMAIN sorted : sorted[k] = t
            /\ Separated(TargetListEntries(input.targets)) =>
                  list = Returns([k \in DOMAIN sorted |->
                      [tag \in {TC_LIST_TARGET_CONFIGURATION} |->
                          TargetValue(sorted[k])]])
=============================================================================
