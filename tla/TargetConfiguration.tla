------------------------ MODULE TargetConfiguration ------------------------
(***************************************************************************)
(* The target list of remote.py as TLV8: target_list_value writes all      *)
(* targets, _parse_target reads one configuration.                         *)
(*                                                                         *)
(* A target is [target_identifier, target_name, target_category, buttons]; *)
(* buttons maps ids to [button_type, button_name].  Names are sequences of *)
(* bytes; Base64 and UTF-8 are left out, which lose nothing.               *)
(***************************************************************************)
EXTENDS Tlv8

CONSTANT None    \* a name, category or configuration that is absent

MaxTargetNameBytes == 255

\* The tags of constants.py.
TC_LIST_TARGET_CONFIGURATION == 2
TARGET_IDENTIFIER == 1
TARGET_NAME == 2
TARGET_CATEGORY == 3
TARGET_BUTTON_CONFIGURATION == 4
BUTTON_CONFIGURATION_ID == 1
BUTTON_CONFIGURATION_TYPE == 2
BUTTON_CONFIGURATION_NAME == 3

-----------------------------------------------------------------------------
\* The members of a finite set of numbers in ascending order.
Sorted(S) ==
    [k \in 1..Cardinality(S) |->
        CHOOSE x \in S : Cardinality({y \in S : y < x}) = k - 1]

Optional(tag, given, bytes) == IF given THEN << <<tag, bytes>> >> ELSE <<>>

\* One button; a name that is empty is not written.
ButtonEntries(id, button) ==
    << <<BUTTON_CONFIGURATION_ID, <<id>> >>,
       <<BUTTON_CONFIGURATION_TYPE, U16(button.button_type)>> >>
    \o Optional(BUTTON_CONFIGURATION_NAME,
                button.button_name \notin {None, <<>>}, button.button_name)

ButtonsEntries(buttons) ==
    LET ids == Sorted(DOMAIN buttons)
    IN  FlattenSeq([k \in DOMAIN ids |-> ButtonEntries(ids[k], buttons[ids[k]])])

TargetEntries(t) ==
    << <<TARGET_IDENTIFIER, U32(t.target_identifier)>> >>
    \o Optional(TARGET_NAME, t.target_name # None, t.target_name)
    \o Optional(TARGET_CATEGORY, t.target_category # None, U16(t.target_category))
    \o Optional(TARGET_BUTTON_CONFIGURATION, DOMAIN t.buttons # {},
                Encode(ButtonsEntries(t.buttons)))

TargetValue(t) == Encode(TargetEntries(t))

\* The targets in the order of their identifiers.
SortedTargets(targets) ==
    LET ids == Sorted({t.target_identifier : t \in targets})
    IN  [k \in DOMAIN ids |-> CHOOSE t \in targets : t.target_identifier = ids[k]]

TargetListEntries(targets) ==
    LET sorted == SortedTargets(targets)
    IN  [k \in DOMAIN sorted |->
            <<TC_LIST_TARGET_CONFIGURATION, TargetValue(sorted[k])>>]

target_list_value(targets) == Encode(TargetListEntries(targets))

-----------------------------------------------------------------------------
Reads(mapping, tag, width) ==
    tag \in DOMAIN mapping /\ Len(mapping[tag]) = width

ValidButton(entry) ==
    /\ Reads(entry, BUTTON_CONFIGURATION_ID, 1)
    /\ Reads(entry, BUTTON_CONFIGURATION_TYPE, 2)

ParsedButton(entry) ==
    [button_type |-> read_u16(entry[BUTTON_CONFIGURATION_TYPE]),
     button_name |-> IF BUTTON_CONFIGURATION_NAME \in DOMAIN entry
                     THEN entry[BUTTON_CONFIGURATION_NAME] ELSE None]

\* The buttons that entries are of; of two with one id the later counts.
ParsedButtons(entries) ==
    LET Id(k) == entries[k][BUTTON_CONFIGURATION_ID][1]
        Latest(id) == CHOOSE k \in DOMAIN entries :
                          /\ Id(k) = id
                          /\ \A j \in k+1..Len(entries) : Id(j) # id
    IN  IF \E k \in DOMAIN entries : ~ValidButton(entries[k]) THEN Raises
        ELSE Returns([id \in {Id(k) : k \in DOMAIN entries} |->
                          ParsedButton(entries[Latest(id)])])

ParseButtons(data) ==
    LET list == DecodeList(data, BUTTON_CONFIGURATION_ID)
    IN  IF list.ok THEN ParsedButtons(list.value) ELSE Raises

ParseTarget(raw) ==
    LET decoded == Decode(raw)
        data == decoded.value
        Has(tag) == tag \in DOMAIN data
        buttons == IF Has(TARGET_BUTTON_CONFIGURATION)
                   THEN ParseButtons(data[TARGET_BUTTON_CONFIGURATION])
                   ELSE Returns(<<>>)
    IN  IF ~decoded.ok \/ ~Reads(data, TARGET_IDENTIFIER, 4) THEN Raises
        ELSE IF \/ read_u32(data[TARGET_IDENTIFIER]) = 0
                \/ Has(TARGET_NAME) /\ Len(data[TARGET_NAME])
                                            \notin 1..MaxTargetNameBytes
                \/ Has(TARGET_CATEGORY) /\ Len(data[TARGET_CATEGORY]) # 2
                \/ ~buttons.ok
        THEN Raises
        ELSE Returns(
            [target_identifier |-> read_u32(data[TARGET_IDENTIFIER]),
             target_name |-> IF Has(TARGET_NAME) THEN data[TARGET_NAME]
                             ELSE None,
             target_category |-> IF Has(TARGET_CATEGORY)
                                 THEN read_u16(data[TARGET_CATEGORY]) ELSE None,
             buttons |-> buttons.value])

-----------------------------------------------------------------------------
\* The target as one reads it back: an empty button name is none.
Readable(t) ==
    [t EXCEPT !.buttons =
        [id \in DOMAIN t.buttons |->
            IF t.buttons[id].button_name = <<>>
            THEN [t.buttons[id] EXCEPT !.button_name = None]
            ELSE t.buttons[id]]]
=============================================================================
