------------------------------- MODULE MCTlv8 -------------------------------
(***************************************************************************)
(* TLV8 over inputs that grow by one entry in a step: what its readers     *)
(* make of the bytes is compared with what went in.                        *)
(***************************************************************************)
EXTENDS Tlv8

CONSTANTS
    MaxEntries,   \* TLV8 entries of an input
    Lengths       \* of their values

ASSUME LengthsAssumption == Lengths \subseteq Nat

VARIABLE input    \* what is encoded: its .of says which fields it has

\* Entries have one of two tags, one of them the separator of lists.
Separator == 1

\* No two values of an input have a byte in common.
AddEntry ==
    /\ input.of = "entries" /\ Len(input.entries) < MaxEntries
    /\ \E tag \in {Separator, 2} : \E length \in Lengths :
          LET value == [j \in 1..length |-> 16 * Len(input.entries) + j]
          IN  input' = [input EXCEPT !.entries = Append(@, <<tag, value>>)]

EntriesInit == input = [of |-> "entries", entries |-> <<>>]

EntriesSpec == EntriesInit /\ [][AddEntry]_input

-----------------------------------------------------------------------------
(* Properties                                                              *)

\* decode gives back the last value of each tag whole, however many segments
\* it took, and decode_list splits at every separator and nowhere else: no
\* segment of a long value starts an item of its own.  Only values that no
\* reader could tell apart are out.
TlvRoundTrip ==
    input.of = "entries" /\ Separated(input.entries) =>
        LET data == Encode(input.entries)
        IN  /\ Decode(data) = Returns(Meaning(input.entries))
            /\ DecodeList(data, Separator) = Returns(Items(input.entries, Separator))

\* Bytes that end too early are refused, or read as the segments that came
\* whole; never as a segment that is shorter than was written.
CutOffNoticed ==
    input.of = "entries" =>
        LET data == Encode(input.entries)
        IN  \A n \in 0..Len(data) :
               LET read == Segments(SubSeq(data, 1, n))
               IN  read.ok => IsPrefix(read.value, Segments(data).value)
=============================================================================
