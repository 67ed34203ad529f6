------------------------------ MODULE MCCodecs ------------------------------
(***************************************************************************)
(* The readers and writers of bytes over bounded inputs.  An input grows   *)
(* by one entry (MCTlv8), target (MCTargets), value or wrapping in a step; *)
(* properties compare what a reader makes of its bytes with what went in.  *)
(***************************************************************************)
EXTENDS MCTargets, HdsMessage

CONSTANT MaxCount  \* items of an array

-----------------------------------------------------------------------------
(* The targets that are tried: one with much to write, one with little.    *)

Bytes(length) == [j \in 1..length |-> (64 + j) % 256]

ButtonSets ==
    UNION {[ids -> [button_type: {1, 258},
                    button_name: {None, <<>>, Bytes(3)}]] : ids \in {{}, {3}}}
    \cup {[id \in {3, 200} |->
              [button_type |-> id,
               button_name |-> IF id = n THEN Bytes(5) ELSE None]] :
              n \in {0, 3, 200}}

Targets(id, categories, buttons) ==
    [target_identifier: {id}, target_category: categories, buttons: buttons,
     target_name: {None} \cup {Bytes(n) : n \in 1..4}]

SampleTargets ==
    Targets(70000, {None, 7, 300}, ButtonSets) \cup Targets(2, {None}, {<<>>})

-----------------------------------------------------------------------------
(* HDS: documents and messages.                                            *)

Data(n) == PlainBytes("data", Bytes(n))
Numbers == {-1, 0, 38, 39, 40, -2, 127, 128, -128, -129, 32767, 32768,
            -32768, -32769, 2147483647, -2147483647}

Common == {PlainInt(38), [kind |-> "int8", n |-> 38], [kind |-> "null"],
           [kind |-> "bool", b |-> TRUE], Text(<<1>>), Data(1)}

Atoms ==
    Common \cup {PlainInt(n) : n \in Numbers}
    \cup {[kind |-> k, n |-> n] : k \in IntKinds, n \in {-1, 5, 128}}
    \cup {PlainBytes(k, Bytes(Fixed[k].width)) :
             k \in {"uuid", "date", "float32", "float64"}}
    \cup {[kind |-> "bool", b |-> FALSE]}
    \cup {Text(Bytes(n)) : n \in {0, 32, 33, 255, 256}}
    \cup {Data(n) : n \in {0, 32, 33, 255, 256}}

\* Texts whose length takes four bytes, or just not.
LongTexts == {Text(Bytes(n)) : n \in {65535, 65536}}

\* The first values of a container are texts of their own; then comes any
\* value, if no other container is around, and a common one or the last again.
AtomAfter(doc) ==
    LET frames == Building(doc)[Len(doc)]
        top == Last(frames)
        only == Len(frames) = 2
        common == Common \cup ({Last(doc)} \cap Atom)
    IN  IF doc = <<>> THEN LongTexts \cup Atoms
        ELSE IF AwaitsKey(top)
        THEN {Text(<<100, Len(doc)>>)}
             \cup {v \in Common : only /\ top.left = 2 /\ v \notin Range(doc)}
        ELSE IF top.left = 1 /\ only THEN common
        ELSE IF top.left = 1 THEN common \cap {Text(<<1>>), Last(doc)}
        ELSE IF top.left = 1 + Container[top.kind].values /\ only THEN Atoms
        ELSE {Text(<<Len(doc)>>)}

\* Containers come before all other values than keys, first in containers of
\* at most two items.
OpeningAfter(doc) ==
    LET frames == Building(doc)[Len(doc)]
        top == Last(frames)
    IN  {c \in [kind: DOMAIN Container, count: 0..MaxCount] :
            /\ c.kind = "dict" => c.count <= MaxPairs + 1
            /\ Len(frames) <= MaxDepth + 1
            /\ Len(frames) > 1 => /\ top.of.count <= 2
                                  /\ Len(top.values) = Container[top.kind].values - 1}

AddValue ==
    /\ input.of = "document"
    /\ LET doc == input.doc
           frames == Building(doc)[Len(doc)]
       IN  \E v \in AtomAfter(doc) \cup OpeningAfter(doc)
                    \cup {End(Last(frames).of)} :
              /\ Follows(frames, v)
              /\ input' = [input EXCEPT !.doc = Append(@, v)]

\* The last topics just fit the header of an event, request or response.
Topic == {Bytes(n) : n \in {0, 4} \cup 195..236}

Bodies(topic) ==
    {Dict(<<>>), Dict(<<Event, Text(topic), Status, Int64(0)>>),
     Dict(<<Protocol, Text(<<1>>), Id, Data(40)>>)}

Message ==
    /\ input.of = "none"
    /\ \E kind \in {Event, Request, Response} : \E topic \in Topic :
       \E message \in Bodies(topic) : \E id \in {0, 40, 2147483647} :
       \E status \in {0, 6} :
          /\ kind = Event => id = 0
          /\ kind # Response => status = 0
          /\ input' = [of |-> "message", kind |-> kind, protocol |-> Bytes(8),
                       topic |-> topic, message |-> message,
                       id |-> IF kind = Event THEN Nothing ELSE id,
                       status |-> IF kind = Response THEN status ELSE Nothing]

-----------------------------------------------------------------------------
Init ==
    \/ EntriesInit \/ TargetsInit
    \/ input = [of |-> "none"] \/ input = [of |-> "document", doc |-> <<>>]

Next == AddEntry \/ AddTarget \/ AddValue \/ Message

Spec == Init /\ [][Next]_input

-----------------------------------------------------------------------------
(* Properties                                                              *)

\* The decoder knows the tag of every value but one that the encoder writes.
Recognised(doc) == \A k \in DOMAIN doc : doc[k] # PlainInt(39)

\* A document as the values it was made of, references resolved.
HdsRoundTrip(doc) ==
    LET encoded == HdsEncode(doc)
        decoded == HdsDecode(encoded.buf)
    IN  IF WithinDepth(doc, MaxDepth) /\ \A k \in DOMAIN doc : Writable(doc[k])
        THEN /\ encoded.ok /\ decoded.ok = Recognised(doc)
             /\ decoded.ok => decoded.value = Plain(doc)
        ELSE ~encoded.ok

\* The bytes of a document, when some are missing or one is too many.
HdsWhole(doc) ==
    HdsEncode(doc).ok =>
        LET data == HdsEncode(doc).buf
            cuts == IF Len(data) <= 32 THEN 0..Len(data) - 1
                    ELSE {1, Len(data) - 1}
        IN  /\ \A n \in cuts : ~HdsDecode(SubSeq(data, 1, n)).ok
            /\ ~HdsDecode(Append(data, NULL)).ok

\* A document is read back as it was written, and only as a whole: one that is
\* nested too deeply is not written, one that ends too early or goes on after
\* its value is refused, and so is one with an integer whose tag is unknown.
DocumentsReadBack ==
    input.of = "document" /\ IsDocument(input.doc) =>
        HdsRoundTrip(input.doc) /\ HdsWhole(input.doc)

\* What the encoder writes, the decoder reads: the package has "an HDS
\* serializer/deserializer supporting the scalar, string/data, list, dictionary
\* and compression forms" (README.md:207).
WrittenIsRead ==
    input.of = "document" /\ IsDocument(input.doc) /\ HdsEncode(input.doc).ok =>
        HdsDecode(HdsEncode(input.doc).buf).ok

Sent(m) ==
    Payload(CASE m.kind = Event -> EventHeader(m.protocol, m.topic)
              [] m.kind = Request -> RequestHeader(m.protocol, m.topic, m.id)
              [] m.kind = Response ->
                     ResponseHeader(m.protocol, m.topic, m.id, m.status),
            m.message)

\* A message that is sent is dispatched as what it was sent as: its header is
\* found at its length, and neither part refers to the other.
MessageRoundTrip ==
    input.of = "message" /\ Sent(input).ok =>
        DecodeMessage(Sent(input).bytes) =
            [ok |-> TRUE, kind |-> input.kind,
             protocol |-> Text(input.protocol), topic |-> Text(input.topic),
             message |-> Plain(input.message),
             id |-> input.id, status |-> input.status]
=============================================================================
