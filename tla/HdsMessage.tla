----------------------------- MODULE HdsMessage -----------------------------
(***************************************************************************)
(* The payload of a frame of an HDSConnection (hds.py): a header and a     *)
(* message, each a dictionary encoded on its own.  Encryption is left out. *)
(***************************************************************************)
EXTENDS HdsCodec

CONSTANTS
    MaxHeader,    \* 255, the most its length byte holds
    MaxPayload    \* MAX_PAYLOAD_LENGTH

ASSUME LengthAssumption == MaxHeader \in 0..255 /\ MaxPayload \in Nat

Text(bytes) == PlainBytes("text", bytes)

\* The keys of a header; one letter stands for each name, at its length.
Name(length, letter) == Text([k \in 1..length |-> letter])
Protocol == Name(8, 80)
Event == Name(5, 69)
Request == Name(7, 81)
Response == Name(8, 82)
Id == Name(2, 73)
Status == Name(6, 83)

Int64(n) == [kind |-> "int64", n |-> n]

\* A dictionary whose keys and values are atoms, as they alternate.
Dict(values) ==
    LET c == [kind |-> "dict", count |-> Len(values) \div 2]
    IN  <<c>> \o values \o <<End(c)>>

\* The headers of send_event, send_request and send_response.
EventHeader(protocol, topic) ==
    Dict(<<Protocol, Text(protocol), Event, Text(topic)>>)

RequestHeader(protocol, topic, id) ==
    Dict(<<Protocol, Text(protocol), Request, Text(topic), Id, Int64(id)>>)

ResponseHeader(protocol, topic, id, status) ==
    Dict(<<Protocol, Text(protocol), Response, Text(topic),
           Id, Int64(id), Status, Int64(status)>>)

\* Mutant of Payload: one Encoder writes both dictionaries.
PayloadShared(header, message) ==
    LET first == HdsEncode(header)
        both == Encoding(message, first)[Len(message)]
    IN  [ok |-> both.ok /\ Len(first.buf) <= MaxHeader,
         bytes |-> <<Len(first.buf)>> \o both.buf]

\* The payload that _send writes, ok unless it raises.
Payload(header, message) ==
    LET first == HdsEncode(header)
        second == HdsEncode(message)
        bytes == <<Len(first.buf)>> \o first.buf \o second.buf
    IN  [ok |-> /\ first.ok /\ second.ok
                /\ Len(first.buf) <= MaxHeader /\ Len(bytes) <= MaxPayload,
         bytes |-> bytes]

-----------------------------------------------------------------------------
Has(d, key) == key \in DOMAIN d.mapping

Get(d, key) == d.mapping[key]

Nothing == [kind |-> "null"]

\* What _decode_message makes of a header and a message, ok unless it raises;
\* kinds and the keys that name them are the same texts.
MessageOf(header, message) ==
    LET kinds == {k \in {Event, Request, Response} : Has(header, k)}
        kind == IF Event \in kinds THEN Event
                ELSE IF Request \in kinds THEN Request ELSE Response
        needed == {Protocol} \cup
                  (CASE kind = Event -> {}
                     [] kind = Request -> {Id}
                     [] kind = Response -> {Id, Status})
        Needed(key) == IF key \in needed THEN Get(header, key).n ELSE Nothing
    IN  IF \/ header.kind # "dict" \/ message.kind # "dict"
           \/ kinds = {} \/ \E key \in needed : ~Has(header, key)
           \/ Get(header, Protocol) = Text(<<>>)
        THEN [ok |-> FALSE]
        ELSE [ok |-> TRUE, kind |-> kind, protocol |-> Get(header, Protocol),
              topic |-> Get(header, kind), message |-> message,
              id |-> Needed(Id), status |-> Needed(Status)]

DecodeMessage(payload) ==
    LET split == 1 + payload[1]
        first == HdsDecode(SubSeq(payload, 2, split))
        second == HdsDecode(SubSeq(payload, split + 1, Len(payload)))
    IN  IF payload = <<>> \/ split > Len(payload) \/ ~first.ok \/ ~second.ok
        THEN [ok |-> FALSE]
        ELSE MessageOf(first.value, second.value)
=============================================================================
