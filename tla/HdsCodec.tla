------------------------------ MODULE HdsCodec ------------------------------
(***************************************************************************)
(* hds_codec.py: a value as bytes, with references to values that went     *)
(* before, and the value read back.                                        *)
(*                                                                         *)
(* A document is the list of what the encoder comes to: atoms, and for a   *)
(* container the container itself, its values and its end.  Keys and       *)
(* values of a dictionary alternate.  Encoder and decoder call themselves  *)
(* for the values of a container: the calls that wait for values are a     *)
(* stack of frames here, the caller of encode or decode the lowest.        *)
(***************************************************************************)
EXTENDS Integers, SequencesExt

CONSTANTS
    MaxDepth,     \* MAX_DEPTH
    References,   \* 48, how many values a reference can name
    MaxItems,     \* 12, the most items of an array without a terminator
    MaxPairs      \* 14, the most entries of such a dictionary

ASSUME LimitsAssumption ==
    /\ MaxDepth \in Nat \ {0}
    /\ References \in 1..48 /\ MaxItems \in 1..14 /\ MaxPairs \in 1..14

\* The tags that begin a range, or stand alone.
TRUE_TAG == 1
FALSE_TAG == 2
TERMINATOR == 3
NULL == 4
INTEGER_0 == 8
INTEGER_39 == 46
COMPRESS == 160
COMPRESS_END == COMPRESS + References - 1

\* Kinds of a fixed size: the tag and the number of bytes.
Fixed == [uuid    |-> [tag |-> 5,  width |-> 16],
          date    |-> [tag |-> 6,  width |-> 8],
          int8    |-> [tag |-> 48, width |-> 1],
          int16   |-> [tag |-> 49, width |-> 2],
          int32   |-> [tag |-> 50, width |-> 4],
          int64   |-> [tag |-> 51, width |-> 8],
          float32 |-> [tag |-> 53, width |-> 4],
          float64 |-> [tag |-> 54, width |-> 8]]

\* Kinds with a length: the tag of length 0, that of MaxShort is the last; the
\* tag of those that end at a byte, and the byte.
Short == [text |-> [tag |-> 64,  open |-> 111, by |-> 0],
          data |-> [tag |-> 112, open |-> 159, by |-> TERMINATOR]]
MaxShort == 32

\* The sizes of numbers and lengths, and the wrappers of the former.
Widths == <<1, 2, 4, 8>>
Wrappers == <<"int8", "int16", "int32", "int64">>
IntKinds == {"int8", "int16", "int32", "int64"}

\* Containers: the tag of none, that of more than max items, and how many
\* values an item is.
Container ==
    [array |-> [tag |-> 208, open |-> 223, max |-> MaxItems, values |-> 1],
     dict  |-> [tag |-> 224, open |-> 239, max |-> MaxPairs, values |-> 2]]

-----------------------------------------------------------------------------
(* Documents.                                                              *)

Atom ==
    [kind: {"null"}] \cup [kind: {"bool"}, b: BOOLEAN]
    \cup [kind: {"int"} \cup IntKinds, n: Int]
    \cup [kind: DOMAIN Short, bytes: Seq(0..255)]
    \cup {v \in [kind: DOMAIN Fixed \ IntKinds, bytes: Seq(0..255)] :
             Len(v.bytes) = Fixed[v.kind].width}

PlainInt(n) == [kind |-> "int", n |-> n]
PlainBytes(kind, bytes) == [kind |-> kind, bytes |-> bytes]

\* A container with count items, and the end of one.
Opening == [kind: DOMAIN Container, count: Nat]
End(c) == [kind |-> "end", of |-> c]

Total(c) == c.count * Container[c.kind].values
Counted(c) == c.count <= Container[c.kind].max

\* What waits for a value takes one.
Receive(frames, v) ==
    Append(Front(frames), [Last(frames) EXCEPT !.values = Append(@, v),
                                               !.left = @ - 1])

AwaitsKey(frame) == frame.kind = "dict" /\ Len(frame.values) % 2 = 0

-----------------------------------------------------------------------------
(* The Python value that a document stands for.                            *)

\* str(uuid.UUID(...)): 36 characters.
UuidText(bytes) == PlainBytes("text", bytes \o [k \in 1..20 |-> 45])

\* What _value makes of the bytes of a kind of fixed size: a date is a float.
FixedValue(kind, bytes) ==
    CASE kind = "uuid" -> UuidText(bytes)
      [] kind = "date" -> PlainBytes("float64", bytes)
      [] OTHER -> PlainBytes(kind, bytes)

PlainAtom(v) ==
    IF v.kind \in IntKinds THEN PlainInt(v.n)
    ELSE IF v.kind \in DOMAIN Fixed THEN FixedValue(v.kind, v.bytes)
    ELSE v

\* Keys of a dictionary that Python holds for the same.
KeyOf(v) == IF v.kind = "bool" THEN PlainInt(IF v.b THEN 1 ELSE 0) ELSE v

\* The values of an array; the mapping of a dictionary from keys to values,
\* given as they alternate.
MakeContainer(kind, values) ==
    LET Key(k) == KeyOf(values[2 * k - 1])
        indices == 1..Len(values) \div 2
        Latest(key) == CHOOSE k \in indices :
                           /\ Key(k) = key
                           /\ \A j \in indices : j > k => Key(j) # key
    IN  IF kind = "array" THEN [kind |-> "array", items |-> values]
        ELSE [kind |-> "dict",
              mapping |-> [key \in {Key(k) : k \in indices} |->
                               values[2 * Latest(key)]]]

Frame(c) == [kind |-> c.kind, of |-> c, left |-> Total(c), values |-> <<>>]

\* A frame for all of the document, which is one value.
Whole == [kind |-> "array", count |-> 1]

\* Whether a document goes on with v.  Lists and dictionaries are no keys.
Follows(frames, v) ==
    LET top == Last(frames)
    IN  \/ v = End(top.of) /\ Len(frames) > 1 /\ top.left = 0
        \/ v \in Atom /\ top.left > 0
        \/ v \in Opening /\ top.left > 0 /\ ~AwaitsKey(top)

Complete(frames) == Len(frames) = 1 /\ frames[1].left = 0

BuildNext(frames, v) ==
    CASE v.kind = "end" ->
            Receive(Front(frames),
                    MakeContainer(v.of.kind, Last(frames).values))
      [] v.kind \in DOMAIN Container -> Append(frames, Frame(v))
      [] OTHER -> Receive(frames, PlainAtom(v))

\* The frames after the first k of a document.
Building(doc) ==
    LET frames[k \in 0..Len(doc)] ==
            IF k = 0 THEN <<Frame(Whole)>> ELSE BuildNext(frames[k - 1], doc[k])
    IN  frames

IsDocument(doc) ==
    /\ \A k \in DOMAIN doc : Follows(Building(doc)[k - 1], doc[k])
    /\ Complete(Building(doc)[Len(doc)])

Plain(doc) == Building(doc)[Len(doc)][1].values[1]

\* No container of the document is in more than that many, itself among them.
WithinDepth(doc, depth) ==
    \A k \in DOMAIN doc : Len(Building(doc)[k]) <= depth + 1

-----------------------------------------------------------------------------
(* Encoder: [ok, buf, seen, depth]                                         *)

Emit(e, bytes) == [e EXCEPT !.buf = @ \o bytes]
Track(e, v) == [e EXCEPT !.seen = Append(@, v)]

\* n without its lowest bytes, up to width of them.
Shifts(n, width) ==
    LET rest[k \in 0..width] == IF k = 0 THEN n ELSE rest[k - 1] \div 256
    IN  rest

\* struct.pack: little-endian, two's complement.
Pack(n, width) == [k \in 1..width |-> Shifts(n, width)[k - 1] % 256]

\* Whether that is n again, with its highest byte one of top.
Fits(n, width, top) == Shifts(n, width)[width - 1] \in top
SIGNED == -128..127
UNSIGNED == 0..255

\* The least of the widths that n fits.
Least(n, top) ==
    CHOOSE p \in DOMAIN Widths :
        /\ Fits(n, Widths[p], top)
        /\ \A q \in 1..p - 1 : ~Fits(n, Widths[q], top)

\* The tag of n bytes, and n itself if the tag does not say it.
Header(n, tag) ==
    IF n <= MaxShort THEN <<tag + n>>
    ELSE LET p == Least(n, UNSIGNED)
         IN  <<tag + MaxShort + p>> \o Pack(n, Widths[p])

\* The bytes of a value that is not a reference.
Literal(v) ==
    IF v.kind \in IntKinds
    THEN <<Fixed[v.kind].tag>> \o Pack(v.n, Fixed[v.kind].width)
    ELSE IF v.kind \in DOMAIN Fixed
    THEN <<Fixed[v.kind].tag>> \o v.bytes
    ELSE Header(Len(v.bytes), Short[v.kind].tag) \o v.bytes

\* Mutant of Compress: the limit is one too high.
CompressBeyond(e, v) ==
    LET index == SelectInSeq(e.seen, LAMBDA w : w = v) - 1
    IN  IF index < 0 THEN Emit(Track(e, v), Literal(v))
        ELSE IF COMPRESS + index <= COMPRESS_END + 1
             THEN Emit(e, <<COMPRESS + index>>)
        ELSE Emit(e, Literal(v))

\* A value seen before goes out as its place, if that can be written; one
\* whose place cannot is written again, and not counted again.
Compress(e, v) ==
    LET index == SelectInSeq(e.seen, LAMBDA w : w = v) - 1
    IN  IF index < 0 THEN Emit(Track(e, v), Literal(v))
        ELSE IF COMPRESS + index <= COMPRESS_END
             THEN Emit(e, <<COMPRESS + index>>)
        ELSE Emit(e, Literal(v))

IsSmall(v) == v.kind = "int" /\ v.n \in -1..39

\* A larger integer becomes the least of the wrappers that holds it.
Wrapped(v) ==
    IF v.kind # "int" THEN v
    ELSE [kind |-> Wrappers[Least(v.n, SIGNED)], n |-> v.n]

\* Neither struct.pack nor _integer nor _length raises.
Writable(v) ==
    /\ v.kind = "int" => \E p \in DOMAIN Widths : Fits(v.n, Widths[p], SIGNED)
    /\ v.kind \in IntKinds => Fits(v.n, Fixed[v.kind].width, SIGNED)
    /\ v.kind \in DOMAIN Short =>
           \E p \in DOMAIN Widths : Fits(Len(v.bytes), Widths[p], UNSIGNED)

\* Literals that are one byte are counted among those seen, but never go out
\* as a reference; nulls and containers are not counted.
EncodeAtom(e, v) ==
    CASE v.kind = "null" -> Emit(e, <<NULL>>)
      [] v.kind = "bool" ->
            Track(Emit(e, <<IF v.b THEN TRUE_TAG ELSE FALSE_TAG>>), v)
      [] IsSmall(v) -> Track(Emit(e, <<INTEGER_0 + v.n>>), v)
      [] ~IsSmall(v) /\ v.kind \notin {"null", "bool"} ->
            IF Writable(v) THEN Compress(e, Wrapped(v))
            ELSE [e EXCEPT !.ok = FALSE]

EncodeOpening(e, c) ==
    IF e.depth >= MaxDepth THEN [e EXCEPT !.ok = FALSE]
    ELSE [Emit(e, <<IF Counted(c) THEN Container[c.kind].tag + c.count
                    ELSE Container[c.kind].open>>)
             EXCEPT !.depth = @ + 1]

EncodeEnd(e, c) ==
    [Emit(e, IF Counted(c) THEN <<>> ELSE <<TERMINATOR>>)
        EXCEPT !.depth = @ - 1]

EncodeNext(e, v) ==
    IF ~e.ok THEN e
    ELSE CASE v.kind = "end" -> EncodeEnd(e, v.of)
           [] v.kind \in DOMAIN Container -> EncodeOpening(e, v)
           [] OTHER -> EncodeAtom(e, v)

NewEncoder == [ok |-> TRUE, buf |-> <<>>, seen |-> <<>>, depth |-> 0]

\* The encoder after the first k of a document.
Encoding(doc, encoder) ==
    LET e[k \in 0..Len(doc)] ==
            IF k = 0 THEN encoder ELSE EncodeNext(e[k - 1], doc[k])
    IN  e

HdsEncode(doc) == Encoding(doc, NewEncoder)[Len(doc)]

-----------------------------------------------------------------------------
(* Decoder: [ok, i, seen, value, frames], value the answer of the last     *)
(* call.  A container that ends at a terminator has less than 0 left.      *)

Fail(d) == [d EXCEPT !.ok = FALSE]
Answer(d, v) == [d EXCEPT !.value = v]
Seen(d, v) == [d EXCEPT !.value = v, !.seen = Append(@, v)]
Terminator == [kind |-> "terminator"]

Take(data, d, count) ==
    IF ~d.ok \/ d.i + count > Len(data) THEN Fail(d)
    ELSE [d EXCEPT !.i = @ + count,
                   !.value = SubSeq(data, d.i + 1, d.i + count)]

\* The number that bytes are, from its highest byte down.
Number(bytes, top) ==
    LET from[k \in 1..Len(bytes)] ==
            IF k = Len(bytes) THEN top ELSE bytes[k] + 256 * from[k + 1]
    IN  from[1]

Unsigned(bytes) == Number(bytes, Last(bytes))

\* struct.unpack: the top byte has the sign.
Signed(bytes) ==
    Number(bytes, IF Last(bytes) < 128 THEN Last(bytes) ELSE Last(bytes) - 256)

DecodeFixed(data, d, kind) ==
    LET taken == Take(data, d, Fixed[kind].width)
    IN  IF ~taken.ok THEN taken
        ELSE Seen(taken, IF kind \in IntKinds THEN PlainInt(Signed(taken.value))
                         ELSE FixedValue(kind, taken.value))

\* A text or data that ends at a byte.
DecodeTerminated(data, d, kind) ==
    LET ends == {j \in d.i + 1..Len(data) : data[j] = Short[kind].by}
        end == CHOOSE j \in ends : \A k \in ends : j <= k
    IN  IF ends = {} THEN Fail(d)
        ELSE Seen([d EXCEPT !.i = end],
                  PlainBytes(kind, SubSeq(data, d.i + 1, end - 1)))

\* A text or data whose tag is offset more than that of length 0.
DecodeBytes(data, d, kind, offset) ==
    LET length == Take(data, d, Widths[offset - MaxShort])
        taken == IF offset <= MaxShort THEN Take(data, d, offset)
                 ELSE IF length.ok
                      THEN Take(data, length, Unsigned(length.value))
                 ELSE length
    IN  IF ~taken.ok THEN taken ELSE Seen(taken, PlainBytes(kind, taken.value))

DecodeReference(d, index) ==
    IF index >= Len(d.seen) THEN Fail(d) ELSE Answer(d, d.seen[index + 1])

\* The kind that a tag is of, in a set, if there is one.
FixedOf(tag) == {k \in DOMAIN Fixed : tag = Fixed[k].tag}
ShortOf(tag) == {k \in DOMAIN Short :
                     tag - Short[k].tag \in 0..MaxShort + Len(Widths)}
OpenOf(tag) == {k \in DOMAIN Short : tag = Short[k].open}
ContainerOf(tag) ==
    {k \in DOMAIN Container : tag \in Container[k].tag..Container[k].open}
The(kinds) == CHOOSE k \in kinds : TRUE

\* A tag that is not of a container; a terminator is a value here.
DecodeAtom(data, d, tag) ==
    CASE tag = NULL -> Answer(d, [kind |-> "null"])
      [] tag = TERMINATOR -> Answer(d, Terminator)
      [] tag \in {TRUE_TAG, FALSE_TAG} ->
            Seen(d, [kind |-> "bool", b |-> tag = TRUE_TAG])
      [] tag \in INTEGER_0 - 1..INTEGER_39 -> Seen(d, PlainInt(tag - INTEGER_0))
      [] FixedOf(tag) # {} -> DecodeFixed(data, d, The(FixedOf(tag)))
      [] ShortOf(tag) # {} ->
            DecodeBytes(data, d, The(ShortOf(tag)),
                        tag - Short[The(ShortOf(tag))].tag)
      [] OpenOf(tag) # {} -> DecodeTerminated(data, d, The(OpenOf(tag)))
      [] tag \in COMPRESS..COMPRESS_END -> DecodeReference(d, tag - COMPRESS)
      [] OTHER -> Fail(d)

DecodeOpening(d, kind, tag) ==
    [d EXCEPT !.frames =
        Append(@, [kind |-> kind, values |-> <<>>,
                   left |-> IF tag = Container[kind].open THEN -1
                            ELSE (tag - Container[kind].tag)
                                 * Container[kind].values])]

\* The answer goes to the call that waits for it; result[key] = ... raises.
Deliver(d) ==
    IF AwaitsKey(Last(d.frames)) /\ d.value.kind \in DOMAIN Container
    THEN Fail(d)
    ELSE [d EXCEPT !.frames = Receive(@, d.value)]

Close(d) ==
    LET top == Last(d.frames)
    IN  Deliver([d EXCEPT !.frames = Front(@),
                          !.value = MakeContainer(top.kind, top.values)])

\* A terminator ends a container in the place of an item.
DeliverAtom(d) ==
    LET top == Last(d.frames)
        between == Len(top.values) % Container[top.kind].values = 0
    IN  IF ~d.ok THEN d
        ELSE IF d.value = Terminator /\ top.left < 0 /\ between THEN Close(d)
        ELSE Deliver(d)

DecodeValue(data, d) ==
    LET taken == Take(data, d, 1)
        tag == taken.value[1]
    IN  IF Len(d.frames) > MaxDepth + 1 \/ ~taken.ok THEN Fail(d)
        ELSE IF ContainerOf(tag) = {}
             THEN DeliverAtom(DecodeAtom(data, taken, tag))
        ELSE DecodeOpening(taken, The(ContainerOf(tag)), tag)

Stopped(d) == ~d.ok \/ Complete(d.frames)

DecodeNext(data, d) ==
    IF Stopped(d) THEN d
    ELSE IF Last(d.frames).left = 0 THEN Close(d) ELSE DecodeValue(data, d)

\* decode waits for one value.
NewDecoder ==
    [ok |-> TRUE, i |-> 0, seen |-> <<>>, value |-> Terminator,
     frames |-> <<[kind |-> "array", left |-> 1, values |-> <<>>]>>]

\* The decoder after k values and ends of containers.
Decoding(data) ==
    LET d[k \in 0..2 * Len(data) + 1] ==
            IF k = 0 THEN NewDecoder ELSE DecodeNext(data, d[k - 1])
    IN  d

\* The value that data is, no more and no less; ok is whether there is one.
\* Every value has a byte, and every end was a container that has one.
HdsDecode(data) ==
    LET stop == CHOOSE k \in 0..2 * Len(data) + 1 : Stopped(Decoding(data)[k])
        d == Decoding(data)[stop]
    IN  IF ~d.ok \/ d.value = Terminator \/ d.i # Len(data) THEN Fail(d) ELSE d
=============================================================================
