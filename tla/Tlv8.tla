------------------------------- MODULE Tlv8 -------------------------------
(***************************************************************************)
(* tlv8.py: entries <<tag, value>> as bytes, and what its readers make of  *)
(* bytes.  A value is the sequence of its bytes; one longer than MaxChunk  *)
(* goes out in segments of the same tag.                                   *)
(***************************************************************************)
EXTENDS Integers, SequencesExt

CONSTANT MaxChunk    \* TLV_MAX_CHUNK

ASSUME MaxChunkAssumption == MaxChunk \in 2..255

\* What a reader returns, or that it raises ValueError.
Returns(v) == [ok |-> TRUE, value |-> v]
Raises == [ok |-> FALSE]

-----------------------------------------------------------------------------
(* Writing                                                                 *)

\* The parts of a value, of MaxChunk bytes each but for the last.
Chunks(value) ==
    LET End(k) ==
            IF k * MaxChunk < Len(value) THEN k * MaxChunk ELSE Len(value)
    IN  IF value = <<>> THEN << <<>> >>
        ELSE [k \in 1..(Len(value) + MaxChunk - 1) \div MaxChunk |->
                 SubSeq(value, (k - 1) * MaxChunk + 1, End(k))]

\* The segments <<tag, chunk>> of an entry.
EntrySegments(entry) ==
    LET chunks == Chunks(entry[2])
    IN  [k \in DOMAIN chunks |-> <<entry[1], chunks[k]>>]

Segmented(entries) ==
    FlattenSeq([i \in DOMAIN entries |-> EntrySegments(entries[i])])

\* Segments as bytes: each after its tag and its length.
Extended(segs) ==
    FlattenSeq([i \in DOMAIN segs |-> <<segs[i][1], Len(segs[i][2])>> \o segs[i][2]])

Encode(entries) == Extended(Segmented(entries))

\* Numbers of two and four bytes, the lowest first; the callers' values fit.
U16(n) == <<n % 256, (n \div 256) % 256>>
U32(n) == U16(n % 65536) \o U16(n \div 65536)

read_u16(bytes) == bytes[1] + 256 * bytes[2]
read_u32(bytes) ==
    bytes[1] + 256 * bytes[2] + 65536 * bytes[3] + 16777216 * bytes[4]

-----------------------------------------------------------------------------
(* Reading                                                                 *)

\* Mutant of Segments: a value that is cut off is taken as far as it goes.
SegmentsLenient(data) ==
    LET End(i) == IF i + 2 + data[i + 2] < Len(data) THEN i + 2 + data[i + 2]
                  ELSE Len(data)
        from[i \in 0..Len(data)] ==
            IF i = Len(data) THEN Returns(<<>>)
            ELSE IF i + 2 > Len(data) THEN Raises
            ELSE LET rest == from[End(i)]
                 IN  IF ~rest.ok THEN Raises
                     ELSE Returns(<< <<data[i + 1], SubSeq(data, i + 3, End(i))>> >>
                                  \o rest.value)
    IN  from[0]

\* The segments of data, those of one value not yet joined: from[i] is what is
\* read when i bytes are behind.
Segments(data) ==
    LET End(i) == i + 2 + data[i + 2]
        from[i \in 0..Len(data)] ==
            IF i = Len(data) THEN Returns(<<>>)
            ELSE IF i + 2 > Len(data) \/ End(i) > Len(data) THEN Raises
            ELSE LET rest == from[End(i)]
                 IN  IF ~rest.ok THEN Raises
                     ELSE Returns(<< <<data[i + 1], SubSeq(data, i + 3, End(i))>> >>
                                  \o rest.value)
    IN  from[0]

\* Segment i continues the one before it, as far as a reader can tell.
Continues(segs, i) ==
    i > 1 /\ segs[i][1] = segs[i - 1][1] /\ Len(segs[i - 1][2]) = MaxChunk

\* The value that segment k adds to what is known of its tag.
Adds(segs, k, known, continued) ==
    LET tag == segs[k][1]
        begun == IF continued THEN known[tag] ELSE <<>>
    IN  [t \in DOMAIN known \cup {tag} |->
            IF t = tag THEN begun \o segs[k][2] ELSE known[t]]

\* Mutant of Collapse: segments of one tag are joined wherever they are.
CollapseAll(segs) ==
    LET result[k \in 0..Len(segs)] ==
            IF k = 0 THEN <<>>
            ELSE Adds(segs, k, result[k - 1], segs[k][1] \in DOMAIN result[k - 1])
    IN  result[Len(segs)]

\* The mapping from tags to values: a segment either continues the value of
\* its tag or replaces it.
Collapse(segs) ==
    LET result[k \in 0..Len(segs)] ==
            IF k = 0 THEN <<>>
            ELSE Adds(segs, k, result[k - 1], Continues(segs, k))
    IN  result[Len(segs)]

Decode(data) ==
    LET segs == Segments(data)
    IN  IF segs.ok THEN Returns(Collapse(segs.value)) ELSE Raises

\* Mutant of StartsItem: every segment of the separator's tag starts an item.
StartsAlways(segs, i, separator) == segs[i][1] = separator

\* Segment i is the first of an item of a list.
StartsItem(segs, i, separator) ==
    segs[i][1] = separator /\ ~Continues(segs, i)

\* Segment k begins a group or goes to the one before it.
Grouped(segs, k, groups, starts) ==
    IF starts THEN Append(groups, <<segs[k]>>)
    ELSE [groups EXCEPT ![Len(groups)] = Append(@, segs[k])]

\* The segments of each item of a list.
Groups(segs, separator) ==
    LET groups[k \in 0..Len(segs)] ==
            IF k = 0 THEN <<>>
            ELSE Grouped(segs, k, groups[k - 1],
                         k = 1 \/ StartsItem(segs, k, separator))
    IN  groups[Len(segs)]

\* The items of a list, each beginning with the separator's tag: its segments
\* are written again and decoded by themselves.
DecodeList(data, separator) ==
    LET segs == Segments(data)
        groups == Groups(segs.value, separator)
    IN  IF segs.ok
        THEN Returns([k \in DOMAIN groups |-> Decode(Extended(groups[k])).value])
        ELSE Raises

-----------------------------------------------------------------------------
(* What the readers are expected to make of what was written.              *)

\* A value whose last segment is full cannot be told from one that goes on:
\* no other of its tag may follow it directly.
Separated(entries) ==
    \A i \in 2..Len(entries) :
        LET before == entries[i - 1]
        IN  before[1] = entries[i][1] =>
                before[2] = <<>> \/ Len(before[2]) % MaxChunk # 0

\* The last entry of a tag counts.
Meaning(entries) ==
    [tag \in {entries[i][1] : i \in DOMAIN entries} |->
        entries[SelectLastInSeq(entries, LAMBDA e : e[1] = tag)][2]]

\* How many items the first i entries belong to: one starts with the first
\* entry and with each of the separator's tag.
ItemOf(entries, separator, i) ==
    Cardinality({j \in 1..i : j = 1 \/ entries[j][1] = separator})

\* The entries of item k, of those up to entry m.
Item(entries, separator, m, k) ==
    LET part == {i \in 1..m : ItemOf(entries, separator, i) = k}
    IN  SubSeq(entries, Min(part), Max(part))

Items(entries, separator) ==
    LET last == Len(entries)
    IN  [k \in 1..ItemOf(entries, separator, last) |->
            Meaning(Item(entries, separator, last, k))]

=============================================================================
