--------------------------- MODULE HdsCodecProofs ---------------------------
(***************************************************************************)
(* What TLAPS proves of hds_codec.py and of the payloads of hds.py, for    *)
(* every document and message.                                             *)
(*                                                                         *)
(* The proofs follow the encoder and the decoder value by value.  Lockstep *)
(* says that after k values of a document the encoder has written bytes    *)
(* from which the decoder gets to where the document is: its frames mirror *)
(* those of the document, and its table of values that were seen agrees    *)
(* with the encoder's as far as a reference can reach.  A kind of value,   *)
(* the beginning of a container and the end of one each keep that; so it   *)
(* holds at the end, where the one value left is the one that was encoded. *)
(***************************************************************************)
EXTENDS MCCodecs, SequenceTheorems, WellFoundedInduction, TLAPS

-----------------------------------------------------------------------------
(* Recursions: what the recursive functions of HdsCodec are at each place. *)

\* A set that has 0 and the successor of each of its numbers has them all.
LEMMA Induction ==
    ASSUME NEW P, 0 \in P, \A n \in Nat : n \in P => n + 1 \in P
    PROVE  Nat \subseteq P
<1> DEFINE rest == Nat \ P
<1> SUFFICES ASSUME rest # {} PROVE FALSE
    OBVIOUS
<1>1. PICK x \in rest : \A y \in rest : <<y, x>> \notin OpToRel(<, Nat)
    BY NatLessThanWellFounded, WFMin
<1>2. x # 0 /\ x - 1 \in Nat /\ x - 1 < x
    OBVIOUS
<1>3. x - 1 \notin rest
    BY <1>1, <1>2 DEF OpToRel
<1> QED
    BY <1>2, <1>3

\* f is what Building says for the first n values.
Builds(f, doc, n) ==
    f = [k \in 0..n |-> IF k = 0 THEN <<Frame(Whole)>>
                        ELSE BuildNext(f[k - 1], doc[k])]

\* The frames of one value more follow from those before.
LEMMA BuildsNext ==
    ASSUME NEW doc, NEW n \in Nat, NEW f, Builds(f, doc, n)
    PROVE  \E g : Builds(g, doc, n + 1)
<1> DEFINE g == [k \in 0..n + 1 |->
                    IF k = n + 1 THEN BuildNext(f[n], doc[n + 1]) ELSE f[k]]
           h == [k \in 0..n + 1 |->
                    IF k = 0 THEN <<Frame(Whole)>> ELSE BuildNext(g[k - 1], doc[k])]
<1>1. ASSUME NEW k \in 0..n + 1 PROVE g[k] = h[k]
    <2>1. CASE k = n + 1
        <3>1. k # 0 /\ k - 1 = n /\ n \in 0..n + 1 /\ n # n + 1
            BY <2>1
        <3>2. g[n] = f[n]
            BY <3>1
        <3> QED
            BY <2>1, <3>1, <3>2
    <2>2. CASE k \in 0..n
        <3>1. g[k] = f[k]
            BY <2>2
        <3>2. f[k] = IF k = 0 THEN <<Frame(Whole)>> ELSE BuildNext(f[k - 1], doc[k])
            BY <2>2 DEF Builds
        <3>3. k # 0 => g[k - 1] = f[k - 1]
            BY <2>2
        <3>4. h[k] = IF k = 0 THEN <<Frame(Whole)>> ELSE BuildNext(g[k - 1], doc[k])
            OBVIOUS
        <3> HIDE DEF g, h
        <3> QED
            BY <3>1, <3>2, <3>3, <3>4
    <2> QED
        BY <2>1, <2>2
<1>2. g = h
    BY <1>1
<1> QED
    BY <1>2 DEF Builds

\* So the recursion of Building is answered for any number of values.
LEMMA BuildsExists ==
    ASSUME NEW doc, NEW n \in Nat
    PROVE  \E f : Builds(f, doc, n)
<1> DEFINE P == {m \in Nat : \E f : Builds(f, doc, m)}
<1>1. 0 \in P
    <2> DEFINE f == [k \in 0..0 |-> <<Frame(Whole)>>]
    <2>1. f = [k \in 0..0 |-> IF k = 0 THEN <<Frame(Whole)>>
                             ELSE BuildNext(f[k - 1], doc[k])]
        OBVIOUS
    <2>2. Builds(f, doc, 0)
        BY <2>1 DEF Builds
    <2> QED
        BY <2>2
<1>2. ASSUME NEW m \in Nat, m \in P PROVE m + 1 \in P
    BY <1>2, BuildsNext
<1> HIDE DEF P
<1>3. Nat \subseteq P
    BY <1>1, <1>2, Induction
<1> QED
    BY <1>3 DEF P

\* The frames of a document, one value after the other.
LEMMA BuildingIs ==
    ASSUME NEW doc, Len(doc) \in Nat
    PROVE  /\ Building(doc)[0] = <<Frame(Whole)>>
           /\ \A k \in 1..Len(doc) :
                  Building(doc)[k] = BuildNext(Building(doc)[k - 1], doc[k])
<1>1. \E f : Builds(f, doc, Len(doc))
    BY BuildsExists
<1>2. Builds(Building(doc), doc, Len(doc))
    BY <1>1 DEF Builds, Building
<1> QED
    BY <1>2 DEF Builds

\* f is what Encoding says for the first n values.
Encodes(f, doc, encoder, n) ==
    f = [k \in 0..n |-> IF k = 0 THEN encoder
                        ELSE EncodeNext(f[k - 1], doc[k])]

\* The encoder after one value more follows from the encoder before.
LEMMA EncodesNext ==
    ASSUME NEW doc, NEW encoder, NEW n \in Nat, NEW f, Encodes(f, doc, encoder, n)
    PROVE  \E g : Encodes(g, doc, encoder, n + 1)
<1> DEFINE g == [k \in 0..n + 1 |->
                    IF k = n + 1 THEN EncodeNext(f[n], doc[n + 1]) ELSE f[k]]
           h == [k \in 0..n + 1 |->
                    IF k = 0 THEN encoder ELSE EncodeNext(g[k - 1], doc[k])]
<1>1. ASSUME NEW k \in 0..n + 1 PROVE g[k] = h[k]
    <2>1. CASE k = n + 1
        <3>1. k # 0 /\ k - 1 = n /\ n \in 0..n + 1 /\ n # n + 1
            BY <2>1
        <3>2. g[n] = f[n]
            BY <3>1
        <3> QED
            BY <2>1, <3>1, <3>2
    <2>2. CASE k \in 0..n
        <3>1. g[k] = f[k]
            BY <2>2
        <3>2. f[k] = IF k = 0 THEN encoder ELSE EncodeNext(f[k - 1], doc[k])
            BY <2>2 DEF Encodes
        <3>3. k # 0 => g[k - 1] = f[k - 1]
            BY <2>2
        <3>4. h[k] = IF k = 0 THEN encoder ELSE EncodeNext(g[k - 1], doc[k])
            OBVIOUS
        <3> HIDE DEF g, h
        <3> QED
            BY <3>1, <3>2, <3>3, <3>4
    <2> QED
        BY <2>1, <2>2
<1>2. g = h
    BY <1>1
<1> QED
    BY <1>2 DEF Encodes

\* So the recursion of Encoding is answered for any number of values.
LEMMA EncodesExists ==
    ASSUME NEW doc, NEW encoder, NEW n \in Nat
    PROVE  \E f : Encodes(f, doc, encoder, n)
<1> DEFINE P == {m \in Nat : \E f : Encodes(f, doc, encoder, m)}
<1>1. 0 \in P
    <2> DEFINE f == [k \in 0..0 |-> encoder]
    <2>1. f = [k \in 0..0 |-> IF k = 0 THEN encoder
                             ELSE EncodeNext(f[k - 1], doc[k])]
        OBVIOUS
    <2>2. Encodes(f, doc, encoder, 0)
        BY <2>1 DEF Encodes
    <2> QED
        BY <2>2
<1>2. ASSUME NEW m \in Nat, m \in P PROVE m + 1 \in P
    BY <1>2, EncodesNext
<1> HIDE DEF P
<1>3. Nat \subseteq P
    BY <1>1, <1>2, Induction
<1> QED
    BY <1>3 DEF P

\* The encoder, one value after the other.
LEMMA EncodingIs ==
    ASSUME NEW doc, NEW encoder, Len(doc) \in Nat
    PROVE  /\ Encoding(doc, encoder)[0] = encoder
           /\ \A k \in 1..Len(doc) :
                  Encoding(doc, encoder)[k] = EncodeNext(Encoding(doc, encoder)[k - 1], doc[k])
<1>1. \E f : Encodes(f, doc, encoder, Len(doc))
    BY EncodesExists
<1>2. Encodes(Encoding(doc, encoder), doc, encoder, Len(doc))
    BY <1>1 DEF Encodes, Encoding
<1> QED
    BY <1>2 DEF Encodes

\* f is what Decoding says for the first n values.
Decodes(f, data, n) ==
    f = [k \in 0..n |-> IF k = 0 THEN NewDecoder
                        ELSE DecodeNext(data, f[k - 1])]

\* The decoder after one call more follows from the decoder before.
LEMMA DecodesNext ==
    ASSUME NEW data, NEW n \in Nat, NEW f, Decodes(f, data, n)
    PROVE  \E g : Decodes(g, data, n + 1)
<1> DEFINE g == [k \in 0..n + 1 |->
                    IF k = n + 1 THEN DecodeNext(data, f[n]) ELSE f[k]]
           h == [k \in 0..n + 1 |->
                    IF k = 0 THEN NewDecoder ELSE DecodeNext(data, g[k - 1])]
<1>1. ASSUME NEW k \in 0..n + 1 PROVE g[k] = h[k]
    <2>1. CASE k = n + 1
        <3>1. k # 0 /\ k - 1 = n /\ n \in 0..n + 1 /\ n # n + 1
            BY <2>1
        <3>2. g[n] = f[n]
            BY <3>1
        <3> QED
            BY <2>1, <3>1, <3>2
    <2>2. CASE k \in 0..n
        <3>1. g[k] = f[k]
            BY <2>2
        <3>2. f[k] = IF k = 0 THEN NewDecoder ELSE DecodeNext(data, f[k - 1])
            BY <2>2 DEF Decodes
        <3>3. k # 0 => g[k - 1] = f[k - 1]
            BY <2>2
        <3>4. h[k] = IF k = 0 THEN NewDecoder ELSE DecodeNext(data, g[k - 1])
            OBVIOUS
        <3> HIDE DEF g, h
        <3> QED
            BY <3>1, <3>2, <3>3, <3>4
    <2> QED
        BY <2>1, <2>2
<1>2. g = h
    BY <1>1
<1> QED
    BY <1>2 DEF Decodes

\* So the recursion of Decoding is answered for any number of calls.
LEMMA DecodesExists ==
    ASSUME NEW data, NEW n \in Nat
    PROVE  \E f : Decodes(f, data, n)
<1> DEFINE P == {m \in Nat : \E f : Decodes(f, data, m)}
<1>1. 0 \in P
    <2> DEFINE f == [k \in 0..0 |-> NewDecoder]
    <2>1. f = [k \in 0..0 |-> IF k = 0 THEN NewDecoder
                             ELSE DecodeNext(data, f[k - 1])]
        OBVIOUS
    <2>2. Decodes(f, data, 0)
        BY <2>1 DEF Decodes
    <2> QED
        BY <2>2
<1>2. ASSUME NEW m \in Nat, m \in P PROVE m + 1 \in P
    BY <1>2, DecodesNext
<1> HIDE DEF P
<1>3. Nat \subseteq P
    BY <1>1, <1>2, Induction
<1> QED
    BY <1>3 DEF P

\* The decoder, one call after the other.
LEMMA DecodingIs ==
    ASSUME NEW data, (2 * Len(data) + 1) \in Nat
    PROVE  /\ Decoding(data)[0] = NewDecoder
           /\ \A k \in 1..(2 * Len(data) + 1) :
                  Decoding(data)[k] = DecodeNext(data, Decoding(data)[k - 1])
<1>1. \E f : Decodes(f, data, (2 * Len(data) + 1))
    BY DecodesExists
<1>2. Decodes(Decoding(data), data, (2 * Len(data) + 1))
    BY <1>1 DEF Decodes, Decoding
<1> QED
    BY <1>2 DEF Decodes

\* f is what Shifts says for the first n values.
Shifted(f, x, width, n) ==
    f = [k \in 0..n |-> IF k = 0 THEN x
                        ELSE f[k - 1] \div 256]

\* A number without one byte more follows from the number before.
LEMMA ShiftedNext ==
    ASSUME NEW x, NEW width, NEW n \in Nat, NEW f, Shifted(f, x, width, n)
    PROVE  \E g : Shifted(g, x, width, n + 1)
<1> DEFINE g == [k \in 0..n + 1 |->
                    IF k = n + 1 THEN f[n] \div 256 ELSE f[k]]
           h == [k \in 0..n + 1 |->
                    IF k = 0 THEN x ELSE g[k - 1] \div 256]
<1>1. ASSUME NEW k \in 0..n + 1 PROVE g[k] = h[k]
    <2>1. CASE k = n + 1
        <3>1. k # 0 /\ k - 1 = n /\ n \in 0..n + 1 /\ n # n + 1
            BY <2>1
        <3>2. g[n] = f[n]
            BY <3>1
        <3> QED
            BY <2>1, <3>1, <3>2
    <2>2. CASE k \in 0..n
        <3>1. g[k] = f[k]
            BY <2>2
        <3>2. f[k] = IF k = 0 THEN x ELSE f[k - 1] \div 256
            BY <2>2 DEF Shifted
        <3>3. k # 0 => g[k - 1] = f[k - 1]
            BY <2>2
        <3>4. h[k] = IF k = 0 THEN x ELSE g[k - 1] \div 256
            OBVIOUS
        <3> HIDE DEF g, h
        <3> QED
            BY <3>1, <3>2, <3>3, <3>4
    <2> QED
        BY <2>1, <2>2
<1>2. g = h
    BY <1>1
<1> QED
    BY <1>2 DEF Shifted

\* So the recursion of Shifts is answered for any number of bytes.
LEMMA ShiftedExists ==
    ASSUME NEW x, NEW width, NEW n \in Nat
    PROVE  \E f : Shifted(f, x, width, n)
<1> DEFINE P == {m \in Nat : \E f : Shifted(f, x, width, m)}
<1>1. 0 \in P
    <2> DEFINE f == [k \in 0..0 |-> x]
    <2>1. f = [k \in 0..0 |-> IF k = 0 THEN x
                             ELSE f[k - 1] \div 256]
        OBVIOUS
    <2>2. Shifted(f, x, width, 0)
        BY <2>1 DEF Shifted
    <2> QED
        BY <2>2
<1>2. ASSUME NEW m \in Nat, m \in P PROVE m + 1 \in P
    BY <1>2, ShiftedNext
<1> HIDE DEF P
<1>3. Nat \subseteq P
    BY <1>1, <1>2, Induction
<1> QED
    BY <1>3 DEF P

\* A number, one byte less after the other.
LEMMA ShiftsIs ==
    ASSUME NEW x, NEW width, width \in Nat
    PROVE  /\ Shifts(x, width)[0] = x
           /\ \A k \in 1..width :
                  Shifts(x, width)[k] = Shifts(x, width)[k - 1] \div 256
<1>1. \E f : Shifted(f, x, width, width)
    BY ShiftedExists
<1>2. Shifted(Shifts(x, width), x, width, width)
    BY <1>1 DEF Shifted, Shifts
<1> QED
    BY <1>2 DEF Shifted

-----------------------------------------------------------------------------
(* Numbers: what is packed is unpacked.                                    *)

\* A number and what is left of it are integers; each byte is what the next
\* shift drops.
LEMMA ShiftsAre ==
    ASSUME NEW n \in Int, NEW width \in Nat
    PROVE  /\ Shifts(n, width)[0] = n
           /\ \A k \in 0..width : Shifts(n, width)[k] \in Int
           /\ \A k \in 1..width :
                 Shifts(n, width)[k] = Shifts(n, width)[k - 1] \div 256
<1> DEFINE rest == Shifts(n, width)
           P == {k \in Nat : k <= width => rest[k] \in Int}
<1>1. rest[0] = n /\ \A k \in 1..width : rest[k] = rest[k - 1] \div 256
    BY ShiftsIs
<1> HIDE DEF rest
<1>2. 0 \in P
    BY <1>1
<1>3. ASSUME NEW k \in Nat, k \in P PROVE k + 1 \in P
    <2> SUFFICES ASSUME k + 1 <= width PROVE rest[k + 1] \in Int
        OBVIOUS
    <2>1. k + 1 \in 1..width /\ (k + 1) - 1 = k /\ rest[k] \in Int
        BY <1>3
    <2> QED
        BY <1>1, <2>1
<1> HIDE DEF P
<1>4. Nat \subseteq P
    BY <1>2, <1>3, Induction
<1>5. \A k \in 0..width : rest[k] \in Int
    BY <1>4 DEF P
<1> QED
    BY <1>1, <1>5 DEF rest

\* A number is packed into as many bytes as it is said.
LEMMA PackIs ==
    ASSUME NEW n \in Int, NEW width \in Nat
    PROVE  /\ Pack(n, width) \in Seq(0..255) /\ Len(Pack(n, width)) = width
           /\ \A k \in 1..width :
                 Pack(n, width)[k] = Shifts(n, width)[k - 1] % 256
<1>1. \A k \in 1..width : Shifts(n, width)[k - 1] \in Int
    BY ShiftsAre
<1>2. \A k \in 1..width : Shifts(n, width)[k - 1] % 256 \in 0..255
    BY <1>1
<1>3. Pack(n, width) \in [1..width -> 0..255]
    BY <1>2 DEF Pack
<1>4. Pack(n, width) \in Seq(0..255) /\ Len(Pack(n, width)) = width
    BY <1>3
<1> QED
    BY <1>4 DEF Pack

\* from is the number that bytes are, from each of them on.
NumbersFrom(from, bytes, top) ==
    from = [k \in 1..Len(bytes) |->
               IF k = Len(bytes) THEN top ELSE bytes[k] + 256 * from[k + 1]]

\* Bytes that a number is packed into are that number, if the highest is known.
LEMMA NumberReadBack ==
    ASSUME NEW n \in Int, NEW width \in Nat \ {0}
    PROVE  Number(Pack(n, width), Shifts(n, width)[width - 1]) = n
<1> DEFINE rest == Shifts(n, width)
           bytes == Pack(n, width)
           top == rest[width - 1]
<1>1. /\ rest[0] = n /\ \A k \in 0..width : rest[k] \in Int
      /\ \A k \in 1..width : rest[k] = rest[k - 1] \div 256
    BY ShiftsAre
<1>2. /\ Len(bytes) = width
      /\ \A k \in 1..width : bytes[k] = rest[k - 1] % 256
    BY PackIs
<1> HIDE DEF rest, bytes
<1>3. ASSUME NEW k \in 1..width, k # width
      PROVE  rest[k - 1] = bytes[k] + 256 * rest[k]
    <2> DEFINE r == rest[k - 1]
    <2>1. r \in Int
        BY <1>1, <1>3
    <2>2. rest[k] = r \div 256 /\ bytes[k] = r % 256
        BY <1>1, <1>2
    <2> HIDE DEF r
    <2>3. r = (r % 256) + 256 * (r \div 256)
        BY <2>1
    <2> QED
        BY <2>2, <2>3 DEF r
<1>4. \E from : NumbersFrom(from, bytes, top)
    <2> DEFINE g == [k \in 1..width |-> rest[k - 1]]
               h == [k \in 1..width |->
                        IF k = width THEN top ELSE bytes[k] + 256 * g[k + 1]]
    <2>1. ASSUME NEW k \in 1..width PROVE g[k] = h[k]
        <3>1. CASE k = width
            BY <3>1
        <3>2. CASE k # width
            <4>1. k + 1 \in 1..width /\ (k + 1) - 1 = k
                BY <3>2
            <4>2. g[k + 1] = rest[k]
                BY <4>1
            <4> QED
                BY <1>3, <3>2, <4>2
        <3> QED
            BY <3>1, <3>2
    <2>2. g = h
        BY <2>1
    <2>3. Len(bytes) = width
        BY <1>2
    <2>4. h = [k \in 1..Len(bytes) |->
                  IF k = Len(bytes) THEN top ELSE bytes[k] + 256 * g[k + 1]]
        BY <2>3
    <2> HIDE DEF g, h
    <2>5. NumbersFrom(g, bytes, top)
        BY <2>2, <2>4 DEF NumbersFrom
    <2> QED
        BY <2>5
<1>5. ASSUME NEW from, NumbersFrom(from, bytes, top) PROVE from[1] = n
    <2> DEFINE P == {j \in Nat : j < width => from[width - j] = rest[(width - j) - 1]}
    <2>1. \A k \in 1..width : from[k] = IF k = width THEN top
                                        ELSE bytes[k] + 256 * from[k + 1]
        BY <1>2, <1>5 DEF NumbersFrom
    <2>2. 0 \in P
        BY <2>1
    <2>3. ASSUME NEW j \in Nat, j \in P PROVE j + 1 \in P
        <3> SUFFICES ASSUME j + 1 < width
                     PROVE  from[width - (j + 1)] = rest[(width - (j + 1)) - 1]
            OBVIOUS
        <3> DEFINE k == width - (j + 1)
        <3>1. k \in 1..width /\ k # width /\ k + 1 = width - j /\ (width - j) - 1 = k
            OBVIOUS
        <3>2. from[k + 1] = rest[k]
            BY <2>3, <3>1
        <3> HIDE DEF k
        <3>3. from[k] = bytes[k] + 256 * rest[k]
            BY <2>1, <3>1, <3>2
        <3>4. from[k] = rest[k - 1]
            BY <1>3, <3>1, <3>3
        <3> QED
            BY <3>4 DEF k
    <2> HIDE DEF P
    <2>4. Nat \subseteq P
        BY <2>2, <2>3, Induction
    <2>5. width - 1 \in Nat /\ width - 1 < width /\ width - (width - 1) = 1
        OBVIOUS
    <2>6. from[1] = rest[0]
        BY <2>4, <2>5 DEF P
    <2> QED
        BY <1>1, <2>6
<1> HIDE DEF top
<1>6. Number(bytes, top) = n
    BY <1>4, <1>5 DEF Number, NumbersFrom
<1> QED
    BY <1>6 DEF top, bytes, rest

\* struct.unpack after struct.pack, with a sign and without.
LEMMA SignedReadBack ==
    ASSUME NEW n \in Int, NEW width \in Nat \ {0}, Fits(n, width, SIGNED)
    PROVE  Signed(Pack(n, width)) = n
<1> DEFINE r == Shifts(n, width)[width - 1]
           bytes == Pack(n, width)
<1>1. Last(bytes) = r % 256
    <2>1. /\ Len(bytes) = width
          /\ \A k \in 1..width : bytes[k] = Shifts(n, width)[k - 1] % 256
        BY PackIs
    <2>2. width \in 1..width
        OBVIOUS
    <2> HIDE DEF bytes
    <2>3. bytes[width] = Shifts(n, width)[width - 1] % 256
        BY <2>1, <2>2
    <2> QED
        BY <2>1, <2>3 DEF Last
<1>2. r \in -128..127
    BY DEF Fits, SIGNED
<1>3. Number(bytes, r) = n
    BY NumberReadBack
<1> HIDE DEF r, bytes
<1>4. r = IF Last(bytes) < 128 THEN Last(bytes) ELSE Last(bytes) - 256
    BY <1>1, <1>2
<1> QED
    BY <1>3, <1>4 DEF Signed, bytes

\* struct.unpack after struct.pack for a length, which has no sign (_length).
LEMMA UnsignedReadBack ==
    ASSUME NEW n \in Int, NEW width \in Nat \ {0}, Fits(n, width, UNSIGNED)
    PROVE  Unsigned(Pack(n, width)) = n
<1> DEFINE r == Shifts(n, width)[width - 1]
           bytes == Pack(n, width)
<1>1. Last(bytes) = r % 256
    <2>1. /\ Len(bytes) = width
          /\ \A k \in 1..width : bytes[k] = Shifts(n, width)[k - 1] % 256
        BY PackIs
    <2>2. width \in 1..width
        OBVIOUS
    <2> HIDE DEF bytes
    <2>3. bytes[width] = Shifts(n, width)[width - 1] % 256
        BY <2>1, <2>2
    <2> QED
        BY <2>1, <2>3 DEF Last
<1>2. r \in 0..255
    BY DEF Fits, UNSIGNED
<1>3. Number(bytes, r) = n
    BY NumberReadBack
<1> HIDE DEF r, bytes
<1>4. r = Last(bytes)
    BY <1>1, <1>2
<1> QED
    BY <1>3, <1>4 DEF Unsigned, bytes

-----------------------------------------------------------------------------
(* Tags: what each is dispatched to.                                       *)

FixedKinds == {"uuid", "date", "int8", "int16", "int32", "int64", "float32", "float64"}

\* The tags and sizes of values of a fixed size (Tag, hds_codec.py).
LEMMA FixedAre ==
    /\ DOMAIN Fixed = FixedKinds
    /\ Fixed["uuid"] = [tag |-> 5, width |-> 16]
    /\ Fixed["date"] = [tag |-> 6, width |-> 8]
    /\ Fixed["int8"] = [tag |-> 48, width |-> 1]
    /\ Fixed["int16"] = [tag |-> 49, width |-> 2]
    /\ Fixed["int32"] = [tag |-> 50, width |-> 4]
    /\ Fixed["int64"] = [tag |-> 51, width |-> 8]
    /\ Fixed["float32"] = [tag |-> 53, width |-> 4]
    /\ Fixed["float64"] = [tag |-> 54, width |-> 8]
BY DEF Fixed, FixedKinds

\* No two kinds of a fixed size have a tag in common, and none is between those
\* of the small integers.
LEMMA FixedTags ==
    /\ DOMAIN Fixed = FixedKinds
    /\ \A k \in FixedKinds : /\ Fixed[k].tag \in Nat /\ Fixed[k].tag \in 5..54
                             /\ Fixed[k].tag # 47 /\ ~(Fixed[k].tag \in 7..46)
                             /\ Fixed[k].width \in Nat \ {0}
    /\ \A j, k \in FixedKinds : Fixed[j].tag = Fixed[k].tag => j = k
<1>1. \A k \in FixedKinds : /\ Fixed[k].tag \in Nat /\ Fixed[k].tag \in 5..54
                             /\ Fixed[k].tag # 47 /\ ~(Fixed[k].tag \in 7..46)
                             /\ Fixed[k].width \in Nat \ {0}
    BY FixedAre DEF FixedKinds
<1>2. \A j, k \in FixedKinds : Fixed[j].tag = Fixed[k].tag => j = k
    BY FixedAre DEF FixedKinds
<1> QED
    BY <1>1, <1>2, FixedAre

\* The tags of texts and data (Tag, hds_codec.py).
LEMMA ShortAre ==
    /\ DOMAIN Short = {"text", "data"}
    /\ Short["text"] = [tag |-> 64, open |-> 111, by |-> 0]
    /\ Short["data"] = [tag |-> 112, open |-> 159, by |-> 3]
BY DEF Short, TERMINATOR

\* The tags of lists and dictionaries (Tag, hds_codec.py).
LEMMA ContainerAre ==
    /\ DOMAIN Container = {"array", "dict"}
    /\ Container["array"].tag = 208 /\ Container["array"].open = 223
    /\ Container["array"].max = MaxItems /\ Container["array"].values = 1
    /\ Container["dict"].tag = 224 /\ Container["dict"].open = 239
    /\ Container["dict"].max = MaxPairs /\ Container["dict"].values = 2
BY DEF Container

\* The kinds of a tag are told by its range.
LEMMA TagRanges ==
    ASSUME NEW tag \in Int
    PROVE  /\ FixedOf(tag) # {} => tag \in 5..6 \/ tag \in 48..54
           /\ ShortOf(tag) # {} => tag \in 64..100 \/ tag \in 112..148
           /\ OpenOf(tag) # {} => tag = 111 \/ tag = 159
           /\ ContainerOf(tag) # {} => tag \in 208..239
<1>1. FixedOf(tag) # {} => tag \in 5..6 \/ tag \in 48..54
    BY FixedAre DEF FixedOf, FixedKinds
<1>2. ShortOf(tag) # {} => tag \in 64..100 \/ tag \in 112..148
    <2>1. MaxShort + Len(Widths) = 36
        BY DEF MaxShort, Widths
    <2> QED
        BY <2>1, ShortAre DEF ShortOf
<1>3. OpenOf(tag) # {} => tag = 111 \/ tag = 159
    BY ShortAre DEF OpenOf
<1>4. ContainerOf(tag) # {} => tag \in 208..239
    BY ContainerAre DEF ContainerOf
<1> QED
    BY <1>1, <1>2, <1>3, <1>4

\* The tag of a kind of a fixed size is dispatched to its size (_value).
LEMMA FixedDispatch ==
    ASSUME NEW data, NEW d, NEW kind \in FixedKinds
    PROVE  DecodeAtom(data, d, Fixed[kind].tag) = DecodeFixed(data, d, kind)
<1> DEFINE tag == Fixed[kind].tag
<1>1. FixedOf(tag) = {kind}
    BY FixedTags DEF FixedOf
<1>2. tag \in 5..6 \/ tag \in 48..54
    BY FixedAre DEF FixedKinds
<1>3. The(FixedOf(tag)) = kind
    BY <1>1 DEF The
<1>4. ShortOf(tag) = {} /\ OpenOf(tag) = {} /\ ~(tag \in COMPRESS..COMPRESS_END)
    <2>1. tag \in Int /\ tag < 64
        BY <1>2
    <2> QED
        BY <2>1, TagRanges, LimitsAssumption DEF COMPRESS, COMPRESS_END
<1> HIDE DEF tag
<1>5. /\ tag # NULL /\ tag # TERMINATOR /\ ~(tag \in {TRUE_TAG, FALSE_TAG})
      /\ ~(tag \in INTEGER_0 - 1..INTEGER_39) /\ FixedOf(tag) # {}
    BY <1>1, <1>2 DEF NULL, TERMINATOR, TRUE_TAG, FALSE_TAG, INTEGER_0, INTEGER_39
<1>6. DecodeAtom(data, d, tag) = DecodeFixed(data, d, The(FixedOf(tag)))
    BY ONLY <1>4, <1>5 DEF DecodeAtom
<1> QED
    BY <1>3, <1>6 DEF tag
\* A tag of a text or data is dispatched to its offset, which is a length, or
\* says how many bytes the length has (_value).
LEMMA ShortDispatch ==
    ASSUME NEW data, NEW d, NEW kind \in DOMAIN Short, NEW offset \in 0..36
    PROVE  DecodeAtom(data, d, Short[kind].tag + offset)
               = DecodeBytes(data, d, kind, offset)
<1> DEFINE tag == Short[kind].tag + offset
<1>1. ShortOf(tag) = {kind}
    <2>1. \A k \in DOMAIN Short : tag - Short[k].tag \in 0..36 <=> k = kind
        BY ShortAre
    <2>2. MaxShort + Len(Widths) = 36
        BY DEF MaxShort, Widths
    <2> QED
        BY <2>1, <2>2 DEF ShortOf
<1>2. The(ShortOf(tag)) = kind
    BY <1>1 DEF The
<1>3. tag \in 64..148 /\ tag - Short[kind].tag = offset
    BY ShortAre
<1> HIDE DEF tag
<1>4. FixedOf(tag) = {}
    <2>1. tag \in Int /\ tag > 54
        BY <1>3
    <2> QED
        BY <2>1, TagRanges
<1>5. /\ tag # NULL /\ tag # TERMINATOR /\ ~(tag \in {TRUE_TAG, FALSE_TAG})
      /\ ~(tag \in INTEGER_0 - 1..INTEGER_39) /\ ShortOf(tag) # {}
    BY <1>1, <1>3 DEF NULL, TERMINATOR, TRUE_TAG, FALSE_TAG, INTEGER_0, INTEGER_39
<1>6. OpenOf(tag) = {} /\ ~(tag \in COMPRESS..COMPRESS_END)
    <2>1. tag \in Int /\ tag # 111 /\ tag # 159 /\ tag < 160
        BY <1>3, ShortAre DEF tag
    <2> QED
        BY <2>1, TagRanges, LimitsAssumption DEF COMPRESS, COMPRESS_END
<1>7. DecodeAtom(data, d, tag)
          = DecodeBytes(data, d, The(ShortOf(tag)), tag - Short[The(ShortOf(tag))].tag)
    BY ONLY <1>4, <1>5, <1>6 DEF DecodeAtom
<1> QED
    BY <1>2, <1>3, <1>7 DEF tag

\* The tag of a reference is dispatched to the table (_value).
LEMMA ReferenceDispatch ==
    ASSUME NEW data, NEW d, NEW index \in 0..References - 1
    PROVE  DecodeAtom(data, d, COMPRESS + index) = DecodeReference(d, index)
<1> DEFINE tag == COMPRESS + index
<1>1. /\ tag \in Int /\ tag >= 160 /\ tag \in COMPRESS..COMPRESS_END
      /\ tag - COMPRESS = index
    BY LimitsAssumption DEF COMPRESS, COMPRESS_END
<1> HIDE DEF tag
<1>2. FixedOf(tag) = {} /\ ShortOf(tag) = {} /\ OpenOf(tag) = {}
    BY <1>1, TagRanges
<1>3. /\ tag # NULL /\ tag # TERMINATOR /\ ~(tag \in {TRUE_TAG, FALSE_TAG})
      /\ ~(tag \in INTEGER_0 - 1..INTEGER_39)
    BY <1>1 DEF NULL, TERMINATOR, TRUE_TAG, FALSE_TAG, INTEGER_0, INTEGER_39
<1>4. DecodeAtom(data, d, tag) = DecodeReference(d, tag - COMPRESS)
    BY ONLY <1>1, <1>2, <1>3 DEF DecodeAtom
<1> QED
    BY <1>1, <1>4 DEF tag

\* The tags of few bits say their value themselves.
LEMMA LiteralDispatch ==
    ASSUME NEW data, NEW d
    PROVE  /\ DecodeAtom(data, d, NULL) = Answer(d, [kind |-> "null"])
           /\ DecodeAtom(data, d, TERMINATOR) = Answer(d, Terminator)
           /\ DecodeAtom(data, d, TRUE_TAG) = Seen(d, [kind |-> "bool", b |-> TRUE])
           /\ DecodeAtom(data, d, FALSE_TAG) = Seen(d, [kind |-> "bool", b |-> FALSE])
<1> DEFINE tags == {NULL, TERMINATOR, TRUE_TAG, FALSE_TAG}
<1>1. ASSUME NEW tag \in tags
      PROVE  /\ FixedOf(tag) = {} /\ ShortOf(tag) = {} /\ OpenOf(tag) = {}
             /\ ~(tag \in COMPRESS..COMPRESS_END)
             /\ ~(tag \in INTEGER_0 - 1..INTEGER_39)
    <2>1. tag \in 1..4
        BY DEF NULL, TERMINATOR, TRUE_TAG, FALSE_TAG
    <2> QED
        BY <2>1, TagRanges, LimitsAssumption
        DEF COMPRESS, COMPRESS_END, INTEGER_0, INTEGER_39
<1>2. /\ NULL # TERMINATOR /\ NULL \notin {TRUE_TAG, FALSE_TAG}
      /\ TERMINATOR \notin {TRUE_TAG, FALSE_TAG} /\ TRUE_TAG # FALSE_TAG
    BY DEF NULL, TERMINATOR, TRUE_TAG, FALSE_TAG
<1> QED
    BY ONLY <1>1, <1>2 DEF DecodeAtom

\* So do those of small integers, of which the decoder knows all but one.
LEMMA SmallDispatch ==
    ASSUME NEW data, NEW d, NEW n \in -1..39
    PROVE  DecodeAtom(data, d, INTEGER_0 + n)
               = IF n = 39 THEN Fail(d) ELSE Seen(d, PlainInt(n))
<1> DEFINE tag == INTEGER_0 + n
<1>1. tag \in 7..47 /\ tag - INTEGER_0 = n
    BY DEF INTEGER_0
<1>2. tag \in INTEGER_0 - 1..INTEGER_39 <=> n # 39
    BY DEF INTEGER_0, INTEGER_39
<1> HIDE DEF tag
<1>3. /\ FixedOf(tag) = {} /\ ShortOf(tag) = {} /\ OpenOf(tag) = {}
      /\ ~(tag \in COMPRESS..COMPRESS_END)
    BY <1>1, TagRanges, LimitsAssumption DEF COMPRESS, COMPRESS_END
<1>4. tag # NULL /\ tag # TERMINATOR /\ ~(tag \in {TRUE_TAG, FALSE_TAG})
    BY <1>1 DEF NULL, TERMINATOR, TRUE_TAG, FALSE_TAG
<1>5. n # 39 => DecodeAtom(data, d, tag) = Seen(d, PlainInt(tag - INTEGER_0))
    BY ONLY <1>2, <1>3, <1>4 DEF DecodeAtom
<1>6. n = 39 => DecodeAtom(data, d, tag) = Fail(d)
    BY ONLY <1>2, <1>3, <1>4 DEF DecodeAtom
<1> QED
    BY <1>1, <1>5, <1>6 DEF tag

-----------------------------------------------------------------------------
(* Data: the decoder at a place in it.                                     *)

\* The decoder d after i bytes, as long as nothing has failed.
At(d, i, seen, value, frames) ==
    /\ DOMAIN d = {"ok", "i", "seen", "value", "frames"}
    /\ d.ok = TRUE /\ d.i = i /\ d.seen = seen /\ d.value = value
    /\ d.frames = frames

\* bytes are in data after i, as far as data goes.
Agree(data, i, bytes) ==
    \A j \in 1..Len(bytes) : i + j <= Len(data) => data[i + j] = bytes[j]

\* Two pieces that are one after the other are each where they are.
LEMMA AgreeConcat ==
    ASSUME NEW data \in Seq(Int), NEW i \in Nat,
           NEW a \in Seq(Int), NEW b \in Seq(Int), Agree(data, i, a \o b)
    PROVE  Agree(data, i, a) /\ Agree(data, i + Len(a), b)
<1>1. /\ Len(a) \in Nat /\ Len(b) \in Nat /\ Len(a \o b) = Len(a) + Len(b)
      /\ \A j \in 1..Len(a) : (a \o b)[j] = a[j]
      /\ \A j \in 1..Len(b) : (a \o b)[Len(a) + j] = b[j]
    BY ConcatProperties
<1>2. ASSUME NEW j \in 1..Len(a), i + j <= Len(data) PROVE data[i + j] = a[j]
    <2>1. j \in 1..Len(a \o b)
        BY <1>1
    <2> QED
        BY <2>1, <1>1, <1>2 DEF Agree
<1>3. ASSUME NEW j \in 1..Len(b), (i + Len(a)) + j <= Len(data)
      PROVE  data[(i + Len(a)) + j] = b[j]
    <2>1. Len(a) + j \in 1..Len(a \o b) /\ i + (Len(a) + j) = (i + Len(a)) + j
        BY <1>1
    <2>2. (a \o b)[Len(a) + j] = b[j]
        BY <1>1
    <2>3. data[i + (Len(a) + j)] = (a \o b)[Len(a) + j]
        BY <2>1, <1>3 DEF Agree
    <2> QED
        BY <2>1, <2>2, <2>3
<1> QED
    BY <1>2, <1>3 DEF Agree

\* What an answer does to the decoder, counted in its table or not.
LEMMA Answers ==
    ASSUME NEW d, NEW i, NEW seen, NEW value, NEW frames,
           At(d, i, seen, value, frames), NEW v
    PROVE  /\ At(Seen(d, v), i, Append(seen, v), v, frames)
           /\ At(Answer(d, v), i, seen, v, frames)
           /\ ~Fail(d).ok
BY DEF At, Seen, Answer, Fail

\* A piece that data has in full is what is cut out of it.
LEMMA PieceIs ==
    ASSUME NEW data \in Seq(Int), NEW i \in Nat,
           NEW bytes \in Seq(Int), Agree(data, i, bytes),
           i + Len(bytes) <= Len(data)
    PROVE  SubSeq(data, i + 1, i + Len(bytes)) = bytes
<1> DEFINE s == SubSeq(data, i + 1, i + Len(bytes))
<1>1. Len(bytes) \in Nat /\ Len(data) \in Nat
    OBVIOUS
<1>2. /\ s \in Seq(Int) /\ Len(s) = Len(bytes)
      /\ \A j \in 1..Len(bytes) : s[j] = data[i + j]
    <2>1. /\ i + 1 \in Int /\ i + Len(bytes) \in Int
          /\ \A k \in i + 1..i + Len(bytes) : k \in 1..Len(data)
        BY <1>1
    <2>2. \A k \in i + 1..i + Len(bytes) : data[k] \in Int
        BY <2>1, ElementOfSeq
    <2>3. Len(s) = Len(bytes)
        BY <1>1, <2>1
    <2> QED
        BY <1>1, <2>1, <2>2, <2>3
<1>3. ASSUME NEW j \in 1..Len(bytes) PROVE s[j] = bytes[j]
    <2>1. i + j <= Len(data)
        BY <1>1
    <2>2. data[i + j] = bytes[j]
        BY <2>1 DEF Agree
    <2> QED
        BY <1>2, <2>2
<1> HIDE DEF s
<1>4. s = bytes
    BY <1>2, <1>3, SeqEqual
<1> QED
    BY <1>4 DEF s

\* The next bytes of the data are those of a piece, or are missing.
LEMMA TakeAgrees ==
    ASSUME NEW data \in Seq(Int), NEW i \in Nat, NEW seen, NEW value, NEW frames,
           NEW d, At(d, i, seen, value, frames),
           NEW bytes \in Seq(Int), Agree(data, i, bytes)
    PROVE  IF i + Len(bytes) <= Len(data)
           THEN At(Take(data, d, Len(bytes)), i + Len(bytes), seen, bytes, frames)
           ELSE ~Take(data, d, Len(bytes)).ok
<1>1. d.ok = TRUE /\ d.i = i /\ ~Fail(d).ok
    BY Answers DEF At
<1>2. CASE i + Len(bytes) <= Len(data)
    <2>1. SubSeq(data, d.i + 1, d.i + Len(bytes)) = bytes
        BY <1>1, <1>2, PieceIs
    <2>2. Take(data, d, Len(bytes)) = [d EXCEPT !.i = @ + Len(bytes), !.value = bytes]
        <3>1. ~(~d.ok \/ d.i + Len(bytes) > Len(data))
            BY <1>1, <1>2
        <3> QED
            BY <2>1, <3>1 DEF Take
    <2>3. At([d EXCEPT !.i = @ + Len(bytes), !.value = bytes],
             i + Len(bytes), seen, bytes, frames)
        BY DEF At
    <2> QED
        BY <1>2, <2>2, <2>3
<1>3. CASE ~(i + Len(bytes) <= Len(data))
    <2>1. d.i + Len(bytes) > Len(data)
        BY <1>1, <1>3
    <2>2. Take(data, d, Len(bytes)) = Fail(d)
        BY <2>1 DEF Take
    <2> QED
        BY <1>1, <1>3, <2>2
<1> QED
    BY <1>2, <1>3

-----------------------------------------------------------------------------
(* Pieces: what the decoder reads of them.                                 *)

\* A number or length has one of four sizes, none of them 0.
LEMMA WidthsAre ==
    /\ DOMAIN Widths = 1..4 /\ Len(Widths) = 4
    /\ \A p \in 1..4 : Widths[p] \in Nat \ {0}
BY DEF Widths

\* The least of the sizes that a number fits is one that it fits.
LEMMA LeastFits ==
    ASSUME NEW n, NEW top, \E p \in DOMAIN Widths : Fits(n, Widths[p], top)
    PROVE  Least(n, top) \in 1..4 /\ Fits(n, Widths[Least(n, top)], top)
<1> DEFINE fit == {p \in 1..4 : Fits(n, Widths[p], top)}
<1>1. \E p \in fit : \A q \in fit : p <= q
    <2>1. fit # {} /\ fit \subseteq 1..4
        BY WidthsAre
    <2> HIDE DEF fit
    <2>2. CASE 1 \in fit
        BY <2>1, <2>2
    <2>3. CASE 1 \notin fit /\ 2 \in fit
        <3>1. \A q \in fit : 2 <= q
            BY <2>1, <2>3
        <3> QED
            BY <2>3, <3>1
    <2>4. CASE 1 \notin fit /\ 2 \notin fit /\ 3 \in fit
        <3>1. \A q \in fit : 3 <= q
            BY <2>1, <2>4
        <3> QED
            BY <2>4, <3>1
    <2>5. CASE 1 \notin fit /\ 2 \notin fit /\ 3 \notin fit
        <3>1. \A q \in fit : q = 4
            BY <2>1, <2>5
        <3>2. PICK q \in fit : TRUE
            BY <2>1
        <3>3. \A r \in fit : q <= r
            BY <3>1, <3>2
        <3> QED
            BY <3>2, <3>3
    <2> QED
        BY <2>2, <2>3, <2>4, <2>5
<1>2. PICK p \in fit : \A q \in fit : p <= q
    BY <1>1
<1>3. p \in DOMAIN Widths /\ Fits(n, Widths[p], top)
    BY <1>2, WidthsAre
<1>4. \A q \in 1..p - 1 : ~Fits(n, Widths[q], top)
    <2> SUFFICES ASSUME NEW q \in 1..p - 1, Fits(n, Widths[q], top) PROVE FALSE
        OBVIOUS
    <2>1. q \in fit /\ ~(p <= q)
        BY <1>2
    <2> QED
        BY <1>2, <2>1
<1> QED
    BY <1>3, <1>4, WidthsAre DEF Least

\* r is the decoder after length bytes more, with v as its answer and the
\* newest value of its table, or has failed if they are not there.
Read(r, data, i, length, v, seen, frames) ==
    IF i + length <= Len(data) THEN At(r, i + length, Append(seen, v), v, frames)
    ELSE ~r.ok

\* The bytes of a value of a fixed size are read as that value.
LEMMA FixedRead ==
    ASSUME NEW data \in Seq(Int), NEW i \in Nat, NEW seen, NEW value, NEW frames,
           NEW d, At(d, i, seen, value, frames),
           NEW kind \in FixedKinds, NEW bytes \in Seq(Int),
           Len(bytes) = Fixed[kind].width, Agree(data, i, bytes)
    PROVE  Read(DecodeFixed(data, d, kind), data, i, Len(bytes),
                IF kind \in IntKinds THEN PlainInt(Signed(bytes))
                ELSE FixedValue(kind, bytes), seen, frames)
<1> DEFINE taken == Take(data, d, Len(bytes))
           V(b) == IF kind \in IntKinds THEN PlainInt(Signed(b))
                   ELSE FixedValue(kind, b)
<1>1. DecodeFixed(data, d, kind) = IF ~taken.ok THEN taken ELSE Seen(taken, V(taken.value))
    BY DEF DecodeFixed
<1>2. CASE i + Len(bytes) <= Len(data)
    <2>1. At(taken, i + Len(bytes), seen, bytes, frames)
        BY <1>2, TakeAgrees
    <2>2. taken.ok = TRUE /\ taken.value = bytes
        BY <2>1 DEF At
    <2>3. DecodeFixed(data, d, kind) = Seen(taken, V(bytes))
        BY <1>1, <2>2
    <2> HIDE DEF taken, V
    <2>4. At(Seen(taken, V(bytes)), i + Len(bytes), Append(seen, V(bytes)), V(bytes), frames)
        BY <2>1, Answers
    <2> QED
        BY <1>2, <2>3, <2>4 DEF Read, V
<1>3. CASE ~(i + Len(bytes) <= Len(data))
    <2>1. ~taken.ok
        BY <1>3, TakeAgrees
    <2> QED
        BY <1>1, <1>3, <2>1 DEF Read
<1> QED
    BY <1>2, <1>3

\* The bytes of a text or data are read as that text or data.
LEMMA BytesRead ==
    ASSUME NEW data \in Seq(Int), NEW i \in Nat, NEW seen, NEW value, NEW frames,
           NEW d, At(d, i, seen, value, frames),
           NEW kind, NEW bytes \in Seq(Int), Agree(data, i, bytes), NEW r,
           LET taken == Take(data, d, Len(bytes))
           IN  r = IF ~taken.ok THEN taken
                   ELSE Seen(taken, PlainBytes(kind, taken.value))
    PROVE  Read(r, data, i, Len(bytes), PlainBytes(kind, bytes), seen, frames)
<1> DEFINE taken == Take(data, d, Len(bytes))
           V(b) == PlainBytes(kind, b)
<1>1. r = IF ~taken.ok THEN taken ELSE Seen(taken, V(taken.value))
    OBVIOUS
<1>2. CASE i + Len(bytes) <= Len(data)
    <2>1. At(taken, i + Len(bytes), seen, bytes, frames)
        BY <1>2, TakeAgrees
    <2>2. taken.ok = TRUE /\ taken.value = bytes
        BY <2>1 DEF At
    <2>3. r = Seen(taken, V(bytes))
        BY <1>1, <2>2
    <2> HIDE DEF taken, V
    <2>4. At(Seen(taken, V(bytes)), i + Len(bytes), Append(seen, V(bytes)), V(bytes), frames)
        BY <2>1, Answers
    <2> QED
        BY <1>2, <2>3, <2>4 DEF Read, V
<1>3. CASE ~(i + Len(bytes) <= Len(data))
    <2>1. ~taken.ok
        BY <1>3, TakeAgrees
    <2> QED
        BY <1>1, <1>3, <2>1 DEF Read
<1> QED
    BY <1>2, <1>3

\* Up to MaxShort bytes, whose number is in the tag.
LEMMA ShortRead ==
    ASSUME NEW data \in Seq(Int), NEW i \in Nat, NEW seen, NEW value, NEW frames,
           NEW d, At(d, i, seen, value, frames),
           NEW kind, NEW bytes \in Seq(Int), Len(bytes) <= MaxShort,
           Agree(data, i, bytes)
    PROVE  Read(DecodeBytes(data, d, kind, Len(bytes)), data, i, Len(bytes),
                PlainBytes(kind, bytes), seen, frames)
<1>1. LET taken == Take(data, d, Len(bytes))
      IN  DecodeBytes(data, d, kind, Len(bytes))
            = IF ~taken.ok THEN taken
              ELSE Seen(taken, PlainBytes(kind, taken.value))
    BY DEF DecodeBytes
<1> QED
    BY <1>1, BytesRead

\* Bytes after their number.
LEMMA LongRead ==
    ASSUME NEW data \in Seq(Int), NEW i \in Nat, NEW seen, NEW value, NEW frames,
           NEW d, At(d, i, seen, value, frames),
           NEW kind, NEW bytes \in Seq(Int), NEW p \in 1..4,
           Fits(Len(bytes), Widths[p], UNSIGNED),
           NEW length, length = Pack(Len(bytes), Widths[p]),
           Agree(data, i, length \o bytes)
    PROVE  Read(DecodeBytes(data, d, kind, MaxShort + p), data, i,
                Widths[p] + Len(bytes), PlainBytes(kind, bytes), seen, frames)
<1> DEFINE w == Widths[p]
           first == Take(data, d, w)
           taken == Take(data, first, Unsigned(first.value))
           r == DecodeBytes(data, d, kind, MaxShort + p)
<1>1. w \in Nat \ {0} /\ Len(bytes) \in Nat /\ Len(bytes) \in Int
    BY WidthsAre
<1>2. /\ length \in Seq(0..255) /\ Len(length) = w
      /\ Unsigned(length) = Len(bytes)
    <2>1. Pack(Len(bytes), w) \in Seq(0..255) /\ Len(Pack(Len(bytes), w)) = w
        <3> HIDE DEF w
        <3> QED
            BY ONLY <1>1, PackIs
    <2>2. Unsigned(Pack(Len(bytes), w)) = Len(bytes)
        BY <1>1, UnsignedReadBack
    <2> QED
        BY <2>1, <2>2
<1>3. length \in Seq(Int)
    <2>1. 0..255 \subseteq Int
        OBVIOUS
    <2> HIDE DEF w
    <2> QED
        BY ONLY <1>2, <2>1, SeqMonotonic
<1>4. Agree(data, i, length) /\ Agree(data, i + w, bytes)
    BY <1>2, <1>3, AgreeConcat
<1>5. /\ first.ok => r = IF ~taken.ok THEN taken
                         ELSE Seen(taken, PlainBytes(kind, taken.value))
      /\ ~first.ok => r = first
    <2>1. (MaxShort + p) - MaxShort = p /\ ~(MaxShort + p <= MaxShort)
        BY DEF MaxShort
    <2> QED
        BY <2>1 DEF DecodeBytes
<1> HIDE DEF r
<1>6. CASE i + w <= Len(data)
    <2>1. At(first, i + w, seen, length, frames)
        BY <1>1, <1>2, <1>3, <1>4, <1>6, TakeAgrees
    <2>2. first.ok = TRUE /\ first.value = length
        BY <2>1 DEF At
    <2>3. taken = Take(data, first, Len(bytes))
        BY <1>2, <2>2
    <2>4. LET t == Take(data, first, Len(bytes))
          IN  r = IF ~t.ok THEN t ELSE Seen(t, PlainBytes(kind, t.value))
        BY <1>5, <2>2, <2>3
    <2> HIDE DEF first, taken, w
    <2>5. Read(r, data, i + w, Len(bytes), PlainBytes(kind, bytes), seen, frames)
        BY <1>1, <1>4, <2>1, <2>4, BytesRead
    <2>6. (i + w) + Len(bytes) = i + (w + Len(bytes))
        BY <1>1
    <2>7. Read(r, data, i, w + Len(bytes), PlainBytes(kind, bytes), seen, frames)
        BY <2>5, <2>6 DEF Read
    <2> QED
        BY <2>7 DEF r, w
<1>7. CASE ~(i + w <= Len(data))
    <2>1. ~first.ok
        BY <1>1, <1>2, <1>3, <1>4, <1>7, TakeAgrees
    <2>2. ~(i + (w + Len(bytes)) <= Len(data)) /\ ~r.ok
        BY <1>1, <1>5, <1>7, <2>1
    <2> QED
        BY <2>2 DEF Read, r
<1> QED
    BY <1>6, <1>7

-----------------------------------------------------------------------------
(* Literals: values that are written in full.                              *)

\* A tag and the bytes after it, read with the table ds, give v and leave the
\* table ds2, wherever in the data they are; if bytes are missing, that fails.
Yields(tag, rest, ds, ds2, v) ==
    \A data \in Seq(Int) : \A i \in 0..Len(data) : \A value, frames, d :
        At(d, i, ds, value, frames) /\ Agree(data, i, rest) =>
            IF i + Len(rest) <= Len(data)
            THEN At(DecodeAtom(data, d, tag), i + Len(rest), ds2, v, frames)
            ELSE ~DecodeAtom(data, d, tag).ok

\* A value that is written in full, and can be.
IsNumber(w) == /\ w.kind \in IntKinds /\ w.n \in Int
               /\ Fits(w.n, Fixed[w.kind].width, SIGNED)
IsFixed(w) == /\ w.kind \in FixedKinds \ IntKinds /\ w.bytes \in Seq(0..255)
              /\ Len(w.bytes) = Fixed[w.kind].width
IsShort(w) == /\ w.kind \in DOMAIN Short /\ w.bytes \in Seq(0..255)
              /\ w = PlainBytes(w.kind, w.bytes)
              /\ \E p \in DOMAIN Widths : Fits(Len(w.bytes), Widths[p], UNSIGNED)

\* What a literal comes to.
IsWritten(bytes, v) ==
    \E tag \in 0..207 : \E rest \in Seq(Int) :
        /\ bytes = <<tag>> \o rest
        /\ \A ds : Yields(tag, rest, ds, Append(ds, v), v)

\* Bytes are integers.
LEMMA IntSeq == ASSUME NEW s \in Seq(0..255) PROVE s \in Seq(Int)
<1>1. 0..255 \subseteq Int
    OBVIOUS
<1> QED
    BY <1>1, SeqMonotonic

\* The numbers are kinds of a fixed size, texts and data are not.
LEMMA KindsAre ==
    /\ IntKinds \subseteq FixedKinds
    /\ \A k \in DOMAIN Short : k \notin FixedKinds
    /\ DOMAIN Fixed = FixedKinds
BY FixedTags, ShortAre DEF IntKinds, FixedKinds

\* A tag of a fixed size and its bytes are read as the value they stand for.
LEMMA FixedWritten ==
    ASSUME NEW kind \in FixedKinds, NEW bytes \in Seq(Int),
           Len(bytes) = Fixed[kind].width, NEW v,
           v = IF kind \in IntKinds THEN PlainInt(Signed(bytes))
               ELSE FixedValue(kind, bytes)
    PROVE  IsWritten(<<Fixed[kind].tag>> \o bytes, v)
<1> DEFINE tag == Fixed[kind].tag
<1>1. tag \in 0..207
    BY FixedTags
<1>2. ASSUME NEW ds PROVE Yields(tag, bytes, ds, Append(ds, v), v)
    <2> SUFFICES ASSUME NEW data \in Seq(Int), NEW i \in 0..Len(data), NEW value,
                        NEW frames, NEW d, At(d, i, ds, value, frames),
                        Agree(data, i, bytes)
                 PROVE  IF i + Len(bytes) <= Len(data)
                        THEN At(DecodeAtom(data, d, tag), i + Len(bytes),
                                Append(ds, v), v, frames)
                        ELSE ~DecodeAtom(data, d, tag).ok
        BY DEF Yields
    <2>0. i \in Nat
        OBVIOUS
    <2>1. DecodeAtom(data, d, tag) = DecodeFixed(data, d, kind)
        BY FixedDispatch
    <2>2. Read(DecodeFixed(data, d, kind), data, i, Len(bytes), v, ds, frames)
        BY <2>0, FixedRead
    <2> QED
        BY <2>1, <2>2 DEF Read
<1> QED
    BY <1>1, <1>2 DEF IsWritten

\* A number in one of the wrappers is written as what is read as that number.
LEMMA NumberWritten ==
    ASSUME NEW w, IsNumber(w)
    PROVE  IsWritten(Literal(w), PlainAtom(w))
<1> DEFINE width == Fixed[w.kind].width
           bytes == Pack(w.n, width)
<1>1. w.kind \in FixedKinds /\ w.kind \in IntKinds /\ w.n \in Int
    BY KindsAre DEF IsNumber
<1>2. width \in Nat \ {0}
    BY <1>1, FixedTags
<1>3. bytes \in Seq(0..255) /\ Len(bytes) = width
    <2> HIDE DEF width
    <2> QED
        BY <1>1, <1>2, PackIs
<1>4. Signed(bytes) = w.n
    BY <1>1, <1>2, SignedReadBack DEF IsNumber
<1>5. bytes \in Seq(Int)
    BY <1>3, IntSeq
<1>6. Literal(w) = <<Fixed[w.kind].tag>> \o bytes
    BY <1>1 DEF Literal
<1>7. PlainAtom(w) = PlainInt(Signed(bytes))
    BY <1>1, <1>4 DEF PlainAtom
<1> HIDE DEF bytes
<1> QED
    BY <1>1, <1>3, <1>5, <1>6, <1>7, FixedWritten DEF width

\* So is a uuid, a date or a float: as what Python makes of its bytes.
LEMMA FixedLiteralWritten ==
    ASSUME NEW w, IsFixed(w)
    PROVE  IsWritten(Literal(w), PlainAtom(w))
<1>1. /\ w.kind \in FixedKinds /\ w.kind \notin IntKinds
      /\ w.bytes \in Seq(Int) /\ Len(w.bytes) = Fixed[w.kind].width
    BY IntSeq DEF IsFixed
<1>2. Literal(w) = <<Fixed[w.kind].tag>> \o w.bytes
    BY <1>1, KindsAre DEF Literal
<1>3. PlainAtom(w) = FixedValue(w.kind, w.bytes)
    BY <1>1, KindsAre DEF PlainAtom
<1> QED
    BY <1>1, <1>2, <1>3, FixedWritten

\* So is a text or data of any length that can be written: in its tag, or in
\* one, two, four or eight bytes.
LEMMA ShortWritten ==
    ASSUME NEW w, IsShort(w)
    PROVE  IsWritten(Literal(w), PlainAtom(w))
<1> DEFINE kind == w.kind
           bytes == w.bytes
           n == Len(bytes)
           p == Least(n, UNSIGNED)
           tag == IF n <= MaxShort THEN Short[kind].tag + n
                  ELSE Short[kind].tag + MaxShort + p
           rest == IF n <= MaxShort THEN bytes ELSE Pack(n, Widths[p]) \o bytes
<1>1. /\ kind \in DOMAIN Short /\ bytes \in Seq(Int) /\ n \in Nat /\ n \in Int
      /\ w = PlainBytes(kind, bytes)
    BY IntSeq DEF IsShort
<1>2. Short[kind].tag \in {64, 112}
    BY <1>1, ShortAre
<1>3. p \in 1..4 /\ Fits(n, Widths[p], UNSIGNED)
    BY LeastFits DEF IsShort
<1>4. PlainAtom(w) = PlainBytes(kind, bytes)
    BY <1>1, KindsAre DEF PlainAtom
<1>5. Literal(w) = Header(n, Short[kind].tag) \o bytes
    BY <1>1, KindsAre DEF Literal
<1>6. CASE n <= MaxShort
    <2> DEFINE t == Short[kind].tag + n
    <2>1. t \in 0..207 /\ n \in 0..36
        <3> DEFINE base == Short[kind].tag
        <3>1. base \in {64, 112} /\ n \in Nat /\ n <= 32
            BY <1>1, <1>2, <1>6 DEF MaxShort
        <3> HIDE DEF base, n
        <3>2. base + n \in 0..207 /\ n \in 0..36
            BY ONLY <3>1
        <3> QED
            BY <3>2 DEF base
    <2>2. Literal(w) = <<t>> \o bytes
        BY <1>5, <1>6 DEF Header
    <2>3. ASSUME NEW ds PROVE Yields(t, bytes, ds, Append(ds, PlainAtom(w)), PlainAtom(w))
        <3> SUFFICES ASSUME NEW data \in Seq(Int), NEW i \in 0..Len(data), NEW value,
                            NEW frames, NEW d, At(d, i, ds, value, frames),
                            Agree(data, i, bytes)
                     PROVE  IF i + n <= Len(data)
                            THEN At(DecodeAtom(data, d, t), i + n,
                                    Append(ds, PlainAtom(w)), PlainAtom(w), frames)
                            ELSE ~DecodeAtom(data, d, t).ok
            BY DEF Yields
        <3>0. i \in Nat
            OBVIOUS
        <3>1. DecodeAtom(data, d, t) = DecodeBytes(data, d, kind, n)
            BY <1>1, <2>1, ShortDispatch
        <3>2. Read(DecodeBytes(data, d, kind, n), data, i, n,
                   PlainBytes(kind, bytes), ds, frames)
            BY <1>1, <1>6, <3>0, ShortRead
        <3> QED
            BY <1>4, <3>1, <3>2 DEF Read
    <2> HIDE DEF t
    <2> QED
        BY <1>1, <2>1, <2>2, <2>3 DEF IsWritten
<1>7. CASE ~(n <= MaxShort)
    <2> DEFINE length == Pack(n, Widths[p])
               t == Short[kind].tag + (MaxShort + p)
               r == length \o bytes
    <2>1. /\ t \in 0..207 /\ MaxShort + p \in 0..36
          /\ Short[kind].tag + MaxShort + p = t
        <3> DEFINE base == Short[kind].tag
        <3>1. base \in {64, 112} /\ p \in 1..4
            BY <1>2, <1>3
        <3> HIDE DEF base, p
        <3>2. /\ base + (MaxShort + p) \in 0..207 /\ MaxShort + p \in 0..36
              /\ base + MaxShort + p = base + (MaxShort + p)
            BY ONLY <3>1 DEF MaxShort
        <3> QED
            BY <3>2 DEF base
    <2>2. /\ length \in Seq(Int) /\ Len(length) = Widths[p] /\ Widths[p] \in Nat
          /\ r \in Seq(Int) /\ Len(r) = Widths[p] + n
        <3> DEFINE width == Widths[p]
        <3>1. width \in Nat
            BY <1>3, WidthsAre
        <3>2. Pack(n, width) \in Seq(0..255) /\ Len(Pack(n, width)) = width
            <4> HIDE DEF width, n
            <4> QED
                BY ONLY <1>1, <3>1, PackIs
        <3>3. length \in Seq(Int) /\ Len(length) = width
            BY <3>2, IntSeq
        <3> HIDE DEF length, p, width
        <3>4. r \in Seq(Int) /\ Len(r) = width + n
            BY ONLY <1>1, <3>3, ConcatProperties
        <3> QED
            BY <3>1, <3>3, <3>4 DEF width
    <2>3. Literal(w) = <<t>> \o r
        <3>1. Literal(w) = (<<Short[kind].tag + MaxShort + p>> \o length) \o bytes
            BY <1>5, <1>7 DEF Header
        <3> HIDE DEF length, t, p
        <3>2. t \in Int
            BY <2>1
        <3>3. <<t>> \in Seq(Int)
            BY <3>2
        <3>4. (<<t>> \o length) \o bytes = <<t>> \o (length \o bytes)
            <4> HIDE DEF bytes
            <4> QED
                BY ONLY <1>1, <2>2, <3>3, ConcatAssociative
        <3> QED
            BY <2>1, <3>1, <3>4
    <2>4. ASSUME NEW ds PROVE Yields(t, r, ds, Append(ds, PlainAtom(w)), PlainAtom(w))
        <3> SUFFICES ASSUME NEW data \in Seq(Int), NEW i \in 0..Len(data), NEW value,
                            NEW frames, NEW d, At(d, i, ds, value, frames),
                            Agree(data, i, r)
                     PROVE  IF i + Len(r) <= Len(data)
                            THEN At(DecodeAtom(data, d, t), i + Len(r),
                                    Append(ds, PlainAtom(w)), PlainAtom(w), frames)
                            ELSE ~DecodeAtom(data, d, t).ok
            BY DEF Yields
        <3>0. i \in Nat
            OBVIOUS
        <3>1. DecodeAtom(data, d, t) = DecodeBytes(data, d, kind, MaxShort + p)
            BY <1>1, <2>1, ShortDispatch
        <3>2. Read(DecodeBytes(data, d, kind, MaxShort + p), data, i,
                   Widths[p] + n, PlainBytes(kind, bytes), ds, frames)
            BY <1>1, <1>3, <3>0, LongRead
        <3> QED
            BY <1>4, <2>2, <3>1, <3>2 DEF Read
    <2> HIDE DEF t, r
    <2> QED
        BY <2>1, <2>2, <2>3, <2>4 DEF IsWritten
<1> QED
    BY <1>6, <1>7

-----------------------------------------------------------------------------
(* Lists, and the tables of values that were seen.                         *)

\* A sequence, of whatever.
IsList(s) == Len(s) \in Nat /\ s = [j \in 1..Len(s) |-> s[j]]

\* A list has a length.
LEMMA ListLen ==
    ASSUME NEW s, IsList(s)
    PROVE  Len(s) \in Nat
BY DEF IsList

\* The limits of the codec are numbers within its ranges of tags.
LEMMA LimitsAre ==
    /\ MaxDepth \in Nat \ {0} /\ References \in Nat /\ References \in 1..48
    /\ MaxItems \in 1..14 /\ MaxPairs \in 1..14
BY LimitsAssumption

\* A list whose members are all of a set is a sequence of that set.
LEMMA ListSeq ==
    ASSUME NEW s, IsList(s), NEW T, \A j \in 1..Len(s) : s[j] \in T
    PROVE  s \in Seq(T)
<1>1. s \in [1..Len(s) -> T] /\ Len(s) \in Nat
    BY DEF IsList
<1> QED
    BY <1>1, SeqDef

\* A sequence is a list.
LEMMA SeqList ==
    ASSUME NEW T, NEW s \in Seq(T)
    PROVE  IsList(s)
BY LenProperties DEF IsList

\* A list with one member more.
LEMMA AppendIs ==
    ASSUME NEW s, IsList(s), NEW v
    PROVE  /\ IsList(Append(s, v)) /\ Len(Append(s, v)) = Len(s) + 1
           /\ \A j \in 1..Len(s) : Append(s, v)[j] = s[j]
           /\ Append(s, v)[Len(s) + 1] = v
<1> DEFINE T == {s[j] : j \in 1..Len(s)} \cup {v}
<1>1. s \in Seq(T) /\ v \in T
    <2>1. \A j \in 1..Len(s) : s[j] \in T
        OBVIOUS
    <2> HIDE DEF T
    <2>2. s \in Seq(T)
        BY <2>1, ListSeq
    <2> QED
        BY <2>2 DEF T
<1> HIDE DEF T
<1>2. /\ Append(s, v) \in Seq(T) /\ Len(Append(s, v)) = Len(s) + 1
      /\ \A j \in 1..Len(s) : Append(s, v)[j] = s[j]
      /\ Append(s, v)[Len(s) + 1] = v
    BY <1>1, AppendProperties
<1>3. IsList(Append(s, v))
    BY <1>2, SeqList
<1> QED
    BY <1>2, <1>3

\* A set of numbers that is not empty has a least one.
LEMMA SmallestIn ==
    ASSUME NEW I, I \subseteq Nat, I # {}
    PROVE  \E m \in I : \A j \in I : m <= j
<1>1. PICK m \in I : \A y \in I : <<y, m>> \notin OpToRel(<, Nat)
    BY NatLessThanWellFounded, WFMin
<1>2. \A y \in I : ~(y < m)
    BY <1>1 DEF OpToRel
<1>3. \A y \in I : m <= y
    BY <1>2
<1> QED
    BY <1>3

\* The place of a value in the table is none, or one that has the value
\* (_compress).
LEMMA PlaceIs ==
    ASSUME NEW s, Len(s) \in Nat, NEW v
    PROVE  LET p == SelectInSeq(s, LAMBDA w : w = v)
           IN  p = 0 \/ (p \in 1..Len(s) /\ s[p] = v)
<1> DEFINE I == {j \in 1..Len(s) : s[j] = v}
<1>1. SelectInSeq(s, LAMBDA w : w = v) = IF I # {} THEN Min(I) ELSE 0
    BY DEF SelectInSeq
<1>2. ASSUME I # {} PROVE Min(I) \in I
    <2>1. I \subseteq Nat
        OBVIOUS
    <2>2. PICK m \in I : TRUE
        BY <1>2

    <2>3. \E m0 \in I : \A j \in I : m0 <= j
        <3> HIDE DEF I
        <3> QED
            BY <2>1, <1>2, SmallestIn
    <2> QED
        BY <2>3 DEF Min
<1> QED
    BY <1>1, <1>2

\* The table of the decoder has the values of the encoder's, as far as they
\* can be referred to; beyond that it may have more.
InStep(es, ds) ==
    /\ IsList(es) /\ IsList(ds) /\ Len(es) <= Len(ds)
    /\ Len(es) < References => Len(ds) = Len(es)
    /\ \A j \in 1..References : j <= Len(es) => ds[j] = PlainAtom(es[j])

\* The tables stay in step when both count a value.
LEMMA TrackedByBoth ==
    ASSUME NEW es, NEW ds, InStep(es, ds), NEW w
    PROVE  InStep(Append(es, w), Append(ds, PlainAtom(w)))
<1> DEFINE es2 == Append(es, w)
           ds2 == Append(ds, PlainAtom(w))
<1>1. /\ Len(es) \in Nat /\ Len(ds) \in Nat /\ References \in Nat
      /\ Len(es) <= Len(ds) /\ (Len(es) < References => Len(ds) = Len(es))
    <2>1. /\ IsList(es) /\ IsList(ds)
          /\ Len(es) <= Len(ds) /\ (Len(es) < References => Len(ds) = Len(es))
        BY DEF InStep
    <2> QED
        BY <2>1, ListLen, LimitsAre
<1>2. /\ IsList(es2) /\ Len(es2) = Len(es) + 1
      /\ \A j \in 1..Len(es) : es2[j] = es[j]
      /\ es2[Len(es) + 1] = w
    BY AppendIs DEF InStep
<1>3. /\ IsList(ds2) /\ Len(ds2) = Len(ds) + 1
      /\ \A j \in 1..Len(ds) : ds2[j] = ds[j]
      /\ ds2[Len(ds) + 1] = PlainAtom(w)
    BY AppendIs DEF InStep
<1> HIDE DEF es2, ds2
<1>4. ASSUME NEW j \in 1..References, j <= Len(es2)
      PROVE  ds2[j] = PlainAtom(es2[j])
    <2>1. CASE j <= Len(es)
        <3>1. j \in 1..Len(es) /\ j \in 1..Len(ds)
            BY <1>1, <2>1
        <3>2. ds[j] = PlainAtom(es[j])
            BY <2>1 DEF InStep
        <3> QED
            BY <1>2, <1>3, <3>1, <3>2
    <2>2. CASE ~(j <= Len(es))
        <3>1. j = Len(es) + 1 /\ Len(ds) = Len(es)
            BY <1>1, <1>2, <1>4, <2>2
        <3> QED
            BY <1>2, <1>3, <3>1
    <2> QED
        BY <2>1, <2>2
<1>5. /\ Len(es2) <= Len(ds2)
      /\ Len(es2) < References => Len(ds2) = Len(es2)
    BY <1>1, <1>2, <1>3
<1> QED
    BY <1>2, <1>3, <1>4, <1>5 DEF InStep, es2, ds2

\* They stay in step when only the decoder counts it, if the table of the
\* encoder already has all that a reference can name (_compress, _track).
LEMMA TrackedByOne ==
    ASSUME NEW es, NEW ds, InStep(es, ds), Len(es) >= References, NEW v
    PROVE  InStep(es, Append(ds, v))
<1> DEFINE ds2 == Append(ds, v)
<1>1. /\ Len(es) \in Nat /\ Len(ds) \in Nat /\ References \in Nat
      /\ Len(es) <= Len(ds) /\ IsList(es)
    <2>1. /\ IsList(es) /\ IsList(ds) /\ Len(es) <= Len(ds)
        BY DEF InStep
    <2> QED
        BY <2>1, ListLen, LimitsAre
<1>2. /\ IsList(ds2) /\ Len(ds2) = Len(ds) + 1
      /\ \A j \in 1..Len(ds) : ds2[j] = ds[j]
    BY AppendIs DEF InStep
<1> HIDE DEF ds2
<1>3. ASSUME NEW j \in 1..References, j <= Len(es)
      PROVE  ds2[j] = PlainAtom(es[j])
    <2>1. j \in 1..Len(ds)
        BY <1>1, <1>3
    <2>2. ds[j] = PlainAtom(es[j])
        BY <1>3 DEF InStep
    <2> QED
        BY <1>2, <2>1, <2>2
<1>4. Len(es) <= Len(ds2) /\ ~(Len(es) < References)
    BY <1>1, <1>2
<1> QED
    BY <1>1, <1>2, <1>3, <1>4 DEF InStep, ds2

\* The encoder e, as long as nothing has failed.
Enc(e, buf, seen, depth) ==
    /\ DOMAIN e = {"ok", "buf", "seen", "depth"}
    /\ e.ok = TRUE /\ e.buf = buf /\ e.seen = seen /\ e.depth = depth

\* What emitting and counting a value do to the encoder.
LEMMA Emits ==
    ASSUME NEW e, NEW buf, NEW seen, NEW depth, Enc(e, buf, seen, depth),
           NEW bytes, NEW v
    PROVE  /\ Enc(Emit(e, bytes), buf \o bytes, seen, depth)
           /\ Enc(Track(Emit(e, bytes), v), buf \o bytes, Append(seen, v), depth)
           /\ Enc(Emit(Track(e, v), bytes), buf \o bytes, Append(seen, v), depth)
<1>1. Enc(Emit(e, bytes), buf \o bytes, seen, depth)
    BY DEF Enc, Emit
<1>2. Enc(Track(Emit(e, bytes), v), buf \o bytes, Append(seen, v), depth)
    BY DEF Enc, Emit, Track
<1>3. Enc(Emit(Track(e, v), bytes), buf \o bytes, Append(seen, v), depth)
    BY DEF Enc, Emit, Track
<1> QED
    BY <1>1, <1>2, <1>3

\* The encoder after an atom, and the tag and bytes it has written: they are
\* read as the atom, or refused if it is 39.
Stepped(e2, buf, ds, depth, v) ==
    \E tag \in 0..207 : \E rest \in Seq(Int) : \E es2, ds2 :
        /\ Enc(e2, buf \o (<<tag>> \o rest), es2, depth)
        /\ InStep(es2, ds2)
        /\ IF v = PlainInt(39) THEN \A data, d : DecodeAtom(data, d, tag) = Fail(d)
           ELSE Yields(tag, rest, ds, ds2, PlainAtom(v))

\* The kinds of atoms, and what each is made of.
LEMMA AtomKinds ==
    ASSUME NEW v \in Atom
    PROVE  \/ v = [kind |-> "null"]
           \/ v.b \in BOOLEAN /\ v = [kind |-> "bool", b |-> v.b]
           \/ v.n \in Int /\ v = PlainInt(v.n)
           \/ v.kind \in IntKinds /\ v.n \in Int
           \/ /\ v.kind \in DOMAIN Short /\ v.bytes \in Seq(0..255)
              /\ v = PlainBytes(v.kind, v.bytes)
           \/ /\ v.kind \in FixedKinds \ IntKinds /\ v.bytes \in Seq(0..255)
              /\ Len(v.bytes) = Fixed[v.kind].width
<1>1. CASE v \in [kind: {"null"}]
    BY <1>1
<1>2. CASE v \in [kind: {"bool"}, b: BOOLEAN]
    BY <1>2
<1>3. CASE v \in [kind: {"int"} \cup IntKinds, n: Int]
    <2>1. v.kind \in {"int"} \cup IntKinds /\ v.n \in Int /\ v = [kind |-> v.kind, n |-> v.n]
        BY <1>3
    <2> QED
        BY <2>1 DEF PlainInt
<1>4. CASE v \in [kind: DOMAIN Short, bytes: Seq(0..255)]
    BY <1>4 DEF PlainBytes
<1>5. CASE v \in {w \in [kind: DOMAIN Fixed \ IntKinds, bytes: Seq(0..255)] :
                     Len(w.bytes) = Fixed[w.kind].width}
    <2>1. /\ v.kind \in DOMAIN Fixed \ IntKinds /\ v.bytes \in Seq(0..255)
          /\ Len(v.bytes) = Fixed[v.kind].width
        BY <1>5
    <2> QED
        BY <2>1, KindsAre
<1> QED
    BY <1>1, <1>2, <1>3, <1>4, <1>5 DEF Atom

-----------------------------------------------------------------------------
(* References: values that are written once.                               *)

IsLiteral(w) == IsNumber(w) \/ IsFixed(w) \/ IsShort(w)

\* A literal that can be written is written as what is read as its value.
LEMMA LiteralWritten ==
    ASSUME NEW w, IsLiteral(w)
    PROVE  IsWritten(Literal(w), PlainAtom(w))
BY NumberWritten, FixedLiteralWritten, ShortWritten DEF IsLiteral

\* The wrapper of a size has numbers of that size.
LEMMA WrappersAre ==
    ASSUME NEW p \in 1..4
    PROVE  Wrappers[p] \in IntKinds /\ Fixed[Wrappers[p]].width = Widths[p]
<1>1. p = 1 \/ p = 2 \/ p = 3 \/ p = 4
    OBVIOUS
<1>2. /\ Wrappers[1] = "int8" /\ Wrappers[2] = "int16" /\ Wrappers[3] = "int32"
      /\ Wrappers[4] = "int64"
    BY DEF Wrappers
<1>3. Widths[1] = 1 /\ Widths[2] = 2 /\ Widths[3] = 4 /\ Widths[4] = 8
    BY DEF Widths
<1>4. /\ Fixed["int8"].width = 1 /\ Fixed["int16"].width = 2
      /\ Fixed["int32"].width = 4 /\ Fixed["int64"].width = 8
    BY FixedAre
<1> QED
    BY <1>1, <1>2, <1>3, <1>4 DEF IntKinds

\* What Compress is given.
LEMMA WrappedIs ==
    ASSUME NEW v \in Atom, v.kind \notin {"null", "bool"}, Writable(v)
    PROVE  IsLiteral(Wrapped(v)) /\ PlainAtom(Wrapped(v)) = PlainAtom(v)
<1>1. CASE v.n \in Int /\ v = PlainInt(v.n)
    <2> DEFINE p == Least(v.n, SIGNED)
    <2>1. v.kind = "int"
        BY <1>1 DEF PlainInt
    <2>2. \E q \in DOMAIN Widths : Fits(v.n, Widths[q], SIGNED)
        BY <2>1 DEF Writable
    <2>3. p \in 1..4 /\ Fits(v.n, Widths[p], SIGNED)
        BY <2>2, LeastFits
    <2> HIDE DEF p
    <2> DEFINE w == [kind |-> Wrappers[p], n |-> v.n]
    <2>4. Wrapped(v) = w
        BY <2>1 DEF Wrapped, p
    <2>5. w.kind = Wrappers[p] /\ w.n = v.n
        OBVIOUS
    <2> HIDE DEF w
    <2>6. w.kind \in IntKinds /\ w.n \in Int /\ Fixed[w.kind].width = Widths[p]
        BY <1>1, <2>3, <2>5, WrappersAre
    <2>7. IsNumber(w)
        BY <2>3, <2>5, <2>6 DEF IsNumber
    <2>8. PlainAtom(w) = PlainInt(v.n)
        BY <2>5, <2>6 DEF PlainAtom
    <2>9. PlainAtom(v) = v
        <3>1. "int" \notin IntKinds /\ "int" \notin DOMAIN Fixed
            BY FixedAre DEF IntKinds, FixedKinds
        <3> QED
            BY <2>1, <3>1 DEF PlainAtom
    <2> QED
        BY <1>1, <2>4, <2>7, <2>8, <2>9 DEF IsLiteral
<1>2. CASE v.kind \in IntKinds /\ v.n \in Int
    <2>1. v.kind # "int" /\ v.kind \notin DOMAIN Short
        BY <1>2, KindsAre DEF IntKinds
    <2>2. Wrapped(v) = v /\ Fits(v.n, Fixed[v.kind].width, SIGNED)
        BY <1>2, <2>1 DEF Wrapped, Writable
    <2> QED
        BY <1>2, <2>2 DEF IsLiteral, IsNumber
<1>3. CASE /\ v.kind \in DOMAIN Short /\ v.bytes \in Seq(0..255)
           /\ v = PlainBytes(v.kind, v.bytes)
    <2>1. v.kind # "int" /\ v.kind \notin IntKinds
        BY <1>3, KindsAre, ShortAre DEF IntKinds
    <2>2. Wrapped(v) = v
        BY <2>1 DEF Wrapped
    <2>3. \E p \in DOMAIN Widths : Fits(Len(v.bytes), Widths[p], UNSIGNED)
        BY <1>3, <2>1 DEF Writable
    <2> QED
        BY <1>3, <2>2, <2>3 DEF IsLiteral, IsShort
<1>4. CASE /\ v.kind \in FixedKinds \ IntKinds /\ v.bytes \in Seq(0..255)
           /\ Len(v.bytes) = Fixed[v.kind].width
    <2>1. v.kind # "int"
        BY <1>4 DEF FixedKinds
    <2> QED
        BY <1>4, <2>1 DEF Wrapped, IsLiteral, IsFixed
<1>5. ~(v = [kind |-> "null"]) /\ ~(v.b \in BOOLEAN /\ v = [kind |-> "bool", b |-> v.b])
    <2>1. ASSUME v = [kind |-> "null"] PROVE FALSE
        BY <2>1
    <2>2. ASSUME v = [kind |-> "bool", b |-> v.b] PROVE FALSE
        <3>1. v.kind = "bool"
            BY <2>2
        <3> QED
            BY <3>1
    <2> QED
        BY <2>1, <2>2
<1> QED
    BY <1>1, <1>2, <1>3, <1>4, <1>5, AtomKinds

\* A reference, or a value for the first time, or one that cannot be referred to.
LEMMA CompressStep ==
    ASSUME NEW e, NEW buf, NEW es, NEW ds, NEW depth, Enc(e, buf, es, depth),
           InStep(es, ds), NEW w, IsLiteral(w), NEW v, v # PlainInt(39),
           PlainAtom(w) = PlainAtom(v)
    PROVE  Stepped(Compress(e, w), buf, ds, depth, v)
<1> DEFINE place == SelectInSeq(e.seen, LAMBDA x : x = w)
<1>1. e.seen = es /\ IsList(es) /\ Len(es) \in Nat /\ IsList(ds) /\ Len(ds) \in Nat
    BY ListLen DEF Enc, InStep
<1>2. place = 0 \/ (place \in 1..Len(es) /\ es[place] = w)
    <2>1. Len(e.seen) \in Nat
        BY <1>1
    <2>2. place = 0 \/ (place \in 1..Len(e.seen) /\ e.seen[place] = w)
        BY ONLY <2>1, PlaceIs
    <2> QED
        BY <1>1, <2>2
<1>3. Compress(e, w) =
        IF place - 1 < 0 THEN Emit(Track(e, w), Literal(w))
        ELSE IF COMPRESS + (place - 1) <= COMPRESS_END
             THEN Emit(e, <<COMPRESS + (place - 1)>>)
        ELSE Emit(e, Literal(w))
    BY DEF Compress
<1>4. PICK tag \in 0..207 : \E rest \in Seq(Int) :
          /\ Literal(w) = <<tag>> \o rest
          /\ \A s : Yields(tag, rest, s, Append(s, PlainAtom(w)), PlainAtom(w))
    BY LiteralWritten DEF IsWritten
<1>5. PICK rest \in Seq(Int) :
          /\ Literal(w) = <<tag>> \o rest
          /\ \A s : Yields(tag, rest, s, Append(s, PlainAtom(w)), PlainAtom(w))
    BY <1>4
<1>6. Yields(tag, rest, ds, Append(ds, PlainAtom(w)), PlainAtom(v))
    BY <1>5
<1> HIDE DEF place
<1>7. CASE place = 0
    <2>1. Compress(e, w) = Emit(Track(e, w), Literal(w))
        BY <1>3, <1>7
    <2>2. Enc(Emit(Track(e, w), Literal(w)), buf \o (<<tag>> \o rest), Append(es, w), depth)
        BY <1>5, Emits
    <2>3. InStep(Append(es, w), Append(ds, PlainAtom(w)))
        BY TrackedByBoth
    <2> QED
        BY <1>6, <2>1, <2>2, <2>3 DEF Stepped
<1>8. CASE place # 0 /\ COMPRESS + (place - 1) <= COMPRESS_END
    <2> DEFINE index == place - 1
               t == COMPRESS + index
    <2>1. /\ place \in 1..Len(es) /\ es[place] = w /\ place \in 1..References
          /\ index \in 0..References - 1 /\ place = index + 1
        BY <1>1, <1>2, <1>8, LimitsAre DEF COMPRESS, COMPRESS_END
    <2>2. t \in 0..207
        BY <2>1, LimitsAre DEF COMPRESS
    <2>3. Compress(e, w) = Emit(e, <<t>>)
        BY <1>3, <1>8, <2>1
    <2>4. <<t>> = <<t>> \o <<>> /\ <<>> \in Seq(Int) /\ Len(<<>>) = 0
        BY <2>2
    <2>5. ds[place] = PlainAtom(v) /\ index < Len(ds)
        <3>1. Len(es) <= Len(ds) /\ ds[place] = PlainAtom(es[place])
            BY <2>1 DEF InStep
        <3> QED
            BY <1>1, <2>1, <3>1
    <2>6. Yields(t, <<>>, ds, ds, PlainAtom(v))
        <3> SUFFICES ASSUME NEW data \in Seq(Int), NEW i \in 0..Len(data), NEW value,
                            NEW frames, NEW d, At(d, i, ds, value, frames),
                            Agree(data, i, <<>>)
                     PROVE  IF i + Len(<<>>) <= Len(data)
                            THEN At(DecodeAtom(data, d, t), i + Len(<<>>), ds,
                                    PlainAtom(v), frames)
                            ELSE ~DecodeAtom(data, d, t).ok
            BY DEF Yields
        <3>1. DecodeAtom(data, d, t) = DecodeReference(d, index)
            BY <2>1, ReferenceDispatch
        <3>2. d.seen = ds /\ ~(index >= Len(ds))
            BY <1>1, <2>1, <2>5 DEF At
        <3>3. DecodeReference(d, index) = Answer(d, PlainAtom(v))
            BY <2>1, <2>5, <3>2 DEF DecodeReference
        <3> HIDE DEF t, index
        <3>4. At(Answer(d, PlainAtom(v)), i, ds, PlainAtom(v), frames)
            BY Answers
        <3>5. i + Len(<<>>) = i /\ i <= Len(data)
            BY <2>4
        <3> QED
            BY <3>1, <3>3, <3>4, <3>5
    <2>7. Enc(Emit(e, <<t>>), buf \o <<t>>, es, depth)
        BY Emits
    <2> HIDE DEF t
    <2> QED
        BY <2>2, <2>3, <2>4, <2>6, <2>7 DEF Stepped
<1>9. CASE place # 0 /\ ~(COMPRESS + (place - 1) <= COMPRESS_END)
    <2>1. Compress(e, w) = Emit(e, Literal(w))
        BY <1>1, <1>2, <1>3, <1>9
    <2>2. Len(es) >= References
        BY <1>1, <1>2, <1>9, LimitsAre DEF COMPRESS, COMPRESS_END
    <2>3. Enc(Emit(e, Literal(w)), buf \o (<<tag>> \o rest), es, depth)
        BY <1>5, Emits
    <2>4. InStep(es, Append(ds, PlainAtom(w)))
        BY <2>2, TrackedByOne
    <2> QED
        BY <1>6, <2>1, <2>3, <2>4 DEF Stepped
<1> QED
    BY <1>7, <1>8, <1>9

-----------------------------------------------------------------------------
(* Atoms: what the encoder writes of one.                                  *)

\* One byte that is a value, counted or not.
LEMMA ByteStep ==
    ASSUME NEW e2, NEW buf, NEW es, NEW ds, NEW depth, NEW v, NEW tag \in 0..207,
           NEW es2, NEW ds2, Enc(e2, buf \o <<tag>>, es2, depth), InStep(es2, ds2),
           v # PlainInt(39), NEW w, PlainAtom(v) = w,
           \A data, i, value, frames, d :
               At(d, i, ds, value, frames) => At(DecodeAtom(data, d, tag), i, ds2, w, frames)
    PROVE  Stepped(e2, buf, ds, depth, v)
<1>1. <<tag>> = <<tag>> \o <<>> /\ <<>> \in Seq(Int) /\ Len(<<>>) = 0
    OBVIOUS
<1>2. Yields(tag, <<>>, ds, ds2, w)
    <2> SUFFICES ASSUME NEW data \in Seq(Int), NEW i \in 0..Len(data), NEW value,
                        NEW frames, NEW d, At(d, i, ds, value, frames)
                 PROVE  IF i + Len(<<>>) <= Len(data)
                        THEN At(DecodeAtom(data, d, tag), i + Len(<<>>), ds2, w, frames)
                        ELSE ~DecodeAtom(data, d, tag).ok
        BY DEF Yields
    <2>1. i + Len(<<>>) = i /\ i <= Len(data)
        BY <1>1
    <2>2. At(DecodeAtom(data, d, tag), i, ds2, w, frames)
        OBVIOUS
    <2> QED
        BY <2>1, <2>2
<1> QED
    BY <1>1, <1>2 DEF Stepped

\* An atom that can be written is written as what is read as it, with tables
\* that stay in step; the integer 39 is written as what is refused.
LEMMA AtomStep ==
    ASSUME NEW e, NEW buf, NEW es, NEW ds, NEW depth, Enc(e, buf, es, depth),
           InStep(es, ds), NEW v \in Atom, Writable(v)
    PROVE  Stepped(EncodeAtom(e, v), buf, ds, depth, v)
<1>1. CASE v = [kind |-> "null"]
    <2>1. v.kind = "null"
        BY <1>1
    <2>2. EncodeAtom(e, v) = Emit(e, <<NULL>>)
        BY <2>1 DEF EncodeAtom, IsSmall
    <2>3. Enc(Emit(e, <<NULL>>), buf \o <<NULL>>, es, depth)
        BY Emits
    <2>4. PlainAtom(v) = v
        BY <2>1, FixedAre DEF PlainAtom, IntKinds, FixedKinds
    <2>5. v # PlainInt(39) /\ NULL \in 0..207
        <3>1. PlainInt(39).kind = "int"
            BY DEF PlainInt
        <3> QED
            BY <2>1, <3>1 DEF NULL
    <2>6. ASSUME NEW data, NEW i, NEW value, NEW frames, NEW d, At(d, i, ds, value, frames)
          PROVE  At(DecodeAtom(data, d, NULL), i, ds, v, frames)
        BY <1>1, <2>6, LiteralDispatch, Answers
    <2> QED
        BY <2>2, <2>3, <2>4, <2>5, <2>6, ByteStep
<1>2. CASE v.b \in BOOLEAN /\ v = [kind |-> "bool", b |-> v.b]
    <2> DEFINE tag == IF v.b THEN TRUE_TAG ELSE FALSE_TAG
    <2>1. v.kind = "bool"
        BY <1>2
    <2>2. EncodeAtom(e, v) = Track(Emit(e, <<tag>>), v)
        BY <2>1 DEF EncodeAtom, IsSmall
    <2>3. Enc(Track(Emit(e, <<tag>>), v), buf \o <<tag>>, Append(es, v), depth)
        BY Emits
    <2>4. PlainAtom(v) = v
        BY <2>1, FixedAre DEF PlainAtom, IntKinds, FixedKinds
    <2>5. v # PlainInt(39) /\ tag \in 0..207
        <3>1. PlainInt(39).kind = "int"
            BY DEF PlainInt
        <3> QED
            BY <2>1, <3>1 DEF TRUE_TAG, FALSE_TAG
    <2>6. InStep(Append(es, v), Append(ds, v))
        BY <2>4, TrackedByBoth
    <2>7. ASSUME NEW data, NEW d PROVE DecodeAtom(data, d, tag) = Seen(d, v)
        <3>1. CASE v.b = TRUE
            <4>1. v = [kind |-> "bool", b |-> TRUE] /\ tag = TRUE_TAG
                BY <1>2, <3>1
            <4> QED
                BY <4>1, LiteralDispatch
        <3>2. CASE v.b = FALSE
            <4>1. v = [kind |-> "bool", b |-> FALSE] /\ tag = FALSE_TAG
                BY <1>2, <3>2
            <4> QED
                BY <4>1, LiteralDispatch
        <3> QED
            BY <1>2, <3>1, <3>2
    <2> HIDE DEF tag
    <2>8. ASSUME NEW data, NEW i, NEW value, NEW frames, NEW d, At(d, i, ds, value, frames)
          PROVE  At(DecodeAtom(data, d, tag), i, Append(ds, v), v, frames)
        BY <2>7, <2>8, Answers
    <2> QED
        BY <2>2, <2>3, <2>4, <2>5, <2>6, <2>8, ByteStep
<1>3. CASE v.n \in Int /\ v = PlainInt(v.n) /\ IsSmall(v)
    <2> DEFINE tag == INTEGER_0 + v.n
    <2>1. v.kind = "int" /\ v.n \in -1..39
        BY <1>3 DEF IsSmall
    <2>2. EncodeAtom(e, v) = Track(Emit(e, <<tag>>), v)
        BY <1>3, <2>1 DEF EncodeAtom
    <2>3. Enc(Track(Emit(e, <<tag>>), v), buf \o <<tag>>, Append(es, v), depth)
        BY Emits
    <2>4. PlainAtom(v) = v
        <3>1. "int" \notin IntKinds /\ "int" \notin DOMAIN Fixed
            BY FixedAre DEF IntKinds, FixedKinds
        <3> QED
            BY <2>1, <3>1 DEF PlainAtom
    <2>5. tag \in 0..207
        BY <2>1 DEF INTEGER_0
    <2>6. InStep(Append(es, v), Append(ds, v))
        BY <2>4, TrackedByBoth
    <2>7. v = PlainInt(39) <=> v.n = 39
        BY <1>3 DEF PlainInt
    <2>8. ASSUME NEW data, NEW d
          PROVE  DecodeAtom(data, d, tag) = IF v.n = 39 THEN Fail(d) ELSE Seen(d, v)
        BY <1>3, <2>1, SmallDispatch
    <2> HIDE DEF tag
    <2>9. CASE v.n = 39
        <3>1. <<tag>> = <<tag>> \o <<>> /\ <<>> \in Seq(Int)
            BY <2>5
        <3>2. \A data, d : DecodeAtom(data, d, tag) = Fail(d)
            BY <2>8, <2>9
        <3> QED
            BY <2>2, <2>3, <2>5, <2>6, <2>7, <2>9, <3>1, <3>2 DEF Stepped
    <2>10. CASE v.n # 39
        <3>1. ASSUME NEW data, NEW i, NEW value, NEW frames, NEW d,
                     At(d, i, ds, value, frames)
              PROVE  At(DecodeAtom(data, d, tag), i, Append(ds, v), v, frames)
            BY <2>8, <2>10, <3>1, Answers
        <3> QED
            BY <2>2, <2>3, <2>4, <2>5, <2>6, <2>7, <2>10, <3>1, ByteStep
    <2> QED
        BY <2>9, <2>10
<1>4. CASE ~IsSmall(v) /\ v.kind \notin {"null", "bool"}
    <2>1. EncodeAtom(e, v) = Compress(e, Wrapped(v))
        BY <1>4 DEF EncodeAtom
    <2>2. IsLiteral(Wrapped(v)) /\ PlainAtom(Wrapped(v)) = PlainAtom(v)
        BY <1>4, WrappedIs
    <2>3. v # PlainInt(39)
        BY <1>4 DEF IsSmall, PlainInt
    <2> QED
        BY <2>1, <2>2, <2>3, CompressStep
<1>5. \/ v = [kind |-> "null"]
      \/ v.b \in BOOLEAN /\ v = [kind |-> "bool", b |-> v.b]
      \/ v.n \in Int /\ v = PlainInt(v.n) /\ IsSmall(v)
      \/ ~IsSmall(v) /\ v.kind \notin {"null", "bool"}
    <2>1. CASE v.n \in Int /\ v = PlainInt(v.n)
        <3>1. v.kind = "int"
            BY <2>1 DEF PlainInt
        <3> QED
            BY <2>1, <3>1
    <2>2. CASE v.kind \in IntKinds \cup DOMAIN Short \cup FixedKinds
        BY <2>2, ShortAre DEF IntKinds, FixedKinds, IsSmall
    <2> QED
        BY <2>1, <2>2, AtomKinds
<1> QED
    BY <1>1, <1>2, <1>3, <1>4, <1>5

-----------------------------------------------------------------------------
(* Frames of a document.                                                   *)

\* A list without its last member.
LEMMA FrontIs ==
    ASSUME NEW s, IsList(s), Len(s) >= 1
    PROVE  /\ IsList(Front(s)) /\ Len(Front(s)) = Len(s) - 1
           /\ \A j \in 1..Len(s) - 1 : Front(s)[j] = s[j]
<1> DEFINE T == {s[j] : j \in 1..Len(s)}
           n == Len(s)
<1>1. \A j \in 1..n : s[j] \in T
    OBVIOUS
<1> HIDE DEF T
<1>2. s \in Seq(T) /\ n \in Nat
    BY <1>1, ListSeq, ListLen
<1>3. Front(s) = SubSeq(s, 1, n - 1)
    BY DEF Front
<1>4. \A j \in 1..n - 1 : s[j] \in T
    BY <1>1, <1>2
<1>5. /\ SubSeq(s, 1, n - 1) \in Seq(T)
      /\ Len(SubSeq(s, 1, n - 1)) = n - 1
      /\ \A j \in 1..n - 1 : SubSeq(s, 1, n - 1)[j] = s[j]
    <2> HIDE DEF n
    <2>1. n - 1 \in Nat /\ 1 \in Int
        <3>1. n >= 1
            BY DEF n
        <3> QED
            BY <1>2, <3>1
    <2>2. Len(SubSeq(s, 1, n - 1)) = n - 1
        BY <1>2, <2>1
    <2>3. \A j \in 1..n - 1 : SubSeq(s, 1, n - 1)[j] = s[j]
        BY <1>2, <2>1
    <2>4. SubSeq(s, 1, n - 1) \in Seq(T)
        BY <1>2, <1>4, <2>1
    <2> QED
        BY <2>2, <2>3, <2>4
<1> QED
    BY <1>3, <1>5, SeqList

\* A value that is received goes to the last of the frames.
LEMMA ReceiveIs ==
    ASSUME NEW fr, IsList(fr), Len(fr) >= 1, NEW v
    PROVE  /\ IsList(Receive(fr, v)) /\ Len(Receive(fr, v)) = Len(fr)
           /\ \A j \in 1..Len(fr) - 1 : Receive(fr, v)[j] = fr[j]
           /\ Receive(fr, v)[Len(fr)]
                = [Last(fr) EXCEPT !.values = Append(@, v), !.left = @ - 1]
<1> DEFINE top == [Last(fr) EXCEPT !.values = Append(@, v), !.left = @ - 1]
           front == Front(fr)
<1>1. Receive(fr, v) = Append(front, top)
    BY DEF Receive
<1>2. /\ IsList(front) /\ Len(front) = Len(fr) - 1 /\ Len(fr) \in Nat
      /\ \A j \in 1..Len(fr) - 1 : front[j] = fr[j]
    BY FrontIs, ListLen
<1> HIDE DEF top, front
<1>3. /\ IsList(Append(front, top)) /\ Len(Append(front, top)) = Len(front) + 1
      /\ \A j \in 1..Len(front) : Append(front, top)[j] = front[j]
      /\ Append(front, top)[Len(front) + 1] = top
    BY <1>2, AppendIs
<1>4. Len(front) + 1 = Len(fr) /\ 1..Len(front) = 1..Len(fr) - 1
    BY <1>2
<1> QED
    BY <1>1, <1>2, <1>3, <1>4 DEF top

\* A frame of a document; one that another is above waits for a container.
IsFrame(b) ==
    /\ DOMAIN b = {"kind", "of", "left", "values"}
    /\ b.of \in Opening /\ b.kind = b.of.kind /\ b.left \in Nat
    /\ IsList(b.values) /\ Len(b.values) + b.left = Total(b.of)

Waits(b) == b.left > 0 /\ ~AwaitsKey(b)

AreFrames(fr) ==
    /\ IsList(fr) /\ Len(fr) >= 1 /\ fr[1].of = Whole
    /\ \A j \in 1..Len(fr) : IsFrame(fr[j]) /\ (j < Len(fr) => Waits(fr[j]))

\* How many values a list or dictionary has.
LEMMA OpeningIs ==
    ASSUME NEW c \in Opening
    PROVE  /\ c.kind \in {"array", "dict"} /\ c.count \in Nat
           /\ c.kind \in DOMAIN Container
           /\ Total(c) \in Nat
           /\ Total(c) = IF c.kind = "array" THEN c.count ELSE c.count * 2
<1>1. c.kind \in DOMAIN Container /\ c.count \in Nat
    BY DEF Opening
<1>2. c.kind \in {"array", "dict"}
    BY <1>1, ContainerAre
<1>3. CASE c.kind = "array"
    BY <1>1, <1>3, ContainerAre DEF Total
<1>4. CASE c.kind = "dict"
    BY <1>1, <1>4, ContainerAre DEF Total
<1> QED
    BY <1>1, <1>2, <1>3, <1>4

\* What waits for the whole document is a list of one value.
LEMMA WholeIs ==
    /\ Whole \in Opening /\ Total(Whole) = 1 /\ Counted(Whole)
    /\ Whole.kind = "array"
<1>1. Whole \in Opening
    BY ContainerAre DEF Whole, Opening
<1>2. Whole.kind = "array" /\ Whole.count = 1
    BY DEF Whole
<1>3. Counted(Whole)
    BY <1>2, ContainerAre, LimitsAre DEF Counted
<1> QED
    BY <1>1, <1>2, <1>3, OpeningIs

\* The frame of a container, before any of its values.
LEMMA FrameIs ==
    ASSUME NEW c \in Opening
    PROVE  /\ IsFrame(Frame(c)) /\ Frame(c).of = c /\ Frame(c).kind = c.kind
           /\ Frame(c).left = Total(c) /\ Frame(c).values = <<>>
<1>1. /\ DOMAIN Frame(c) = {"kind", "of", "left", "values"}
      /\ Frame(c).of = c /\ Frame(c).kind = c.kind
      /\ Frame(c).left = Total(c) /\ Frame(c).values = <<>>
    BY DEF Frame
<1>2. IsList(<<>>) /\ Len(<<>>) = 0
    BY SeqList, EmptySeq
<1>3. Total(c) \in Nat
    BY OpeningIs
<1> QED
    BY <1>1, <1>2, <1>3 DEF IsFrame

\* The frame of the whole document, before any value.
LEMMA FirstFrames ==
    /\ AreFrames(<<Frame(Whole)>>)
    /\ Len(<<Frame(Whole)>>) = 1 /\ <<Frame(Whole)>>[1] = Frame(Whole)
<1> DEFINE b == Frame(Whole)
<1>1. IsFrame(b) /\ b.of = Whole
    BY FrameIs, WholeIs
<1> HIDE DEF b
<1>2. <<b>> \in Seq({b}) /\ Len(<<b>>) = 1 /\ <<b>>[1] = b
    OBVIOUS
<1>3. IsList(<<b>>)
    BY <1>2, SeqList
<1> QED
    BY <1>1, <1>2, <1>3 DEF AreFrames, b

\* The last of the frames of a document is one of them.
LEMMA LastIs ==
    ASSUME NEW fr, AreFrames(fr)
    PROVE  /\ IsList(fr) /\ Len(fr) \in Nat /\ Len(fr) >= 1
           /\ Last(fr) = fr[Len(fr)] /\ IsFrame(Last(fr))
BY ListLen DEF AreFrames, Last

\* The frames of a document stay such when the last of them takes a value; the
\* first value of the lowest is that of the document.
LEMMA FramesReceive ==
    ASSUME NEW fr, AreFrames(fr), Last(fr).left > 0, NEW v
    PROVE  /\ AreFrames(Receive(fr, v)) /\ Len(Receive(fr, v)) = Len(fr)
           /\ Len(fr) = 1 /\ Receive(fr, v)[1].left = 0 =>
                 Receive(fr, v)[1].values[1] = v
<1> DEFINE n == Len(fr)
           b == Last(fr)
           top == [b EXCEPT !.values = Append(@, v), !.left = @ - 1]
           gr == Receive(fr, v)
<1>1. n \in Nat /\ n >= 1 /\ b = fr[n] /\ IsFrame(b) /\ b.left > 0 /\ IsList(fr)
    BY LastIs
<1>2. /\ IsList(gr) /\ Len(gr) = n /\ gr[n] = top
      /\ \A j \in 1..n - 1 : gr[j] = fr[j]
    BY <1>1, ReceiveIs
<1>3. /\ DOMAIN b = {"kind", "of", "left", "values"}
      /\ b.of \in Opening /\ b.kind = b.of.kind /\ b.left \in Nat
      /\ IsList(b.values) /\ Len(b.values) + b.left = Total(b.of)
    BY <1>1 DEF IsFrame
<1> HIDE DEF b, gr
<1>4. /\ DOMAIN top = {"kind", "of", "left", "values"}
      /\ top.of = b.of /\ top.kind = b.kind /\ top.left = b.left - 1
      /\ top.values = Append(b.values, v)
    BY <1>3
<1>5. /\ IsList(Append(b.values, v)) /\ Len(Append(b.values, v)) = Len(b.values) + 1
      /\ Append(b.values, v)[Len(b.values) + 1] = v
    BY <1>3, AppendIs
<1> HIDE DEF top
<1>6. IsFrame(top)
    <2>1. top.left \in Nat /\ Len(top.values) + top.left = Total(top.of)
        <3>1. Len(b.values) \in Nat
            BY <1>3, ListLen
        <3>2. top.left = b.left - 1 /\ Len(top.values) = Len(b.values) + 1
            BY <1>4, <1>5
        <3>3. top.left \in Nat
            BY <1>1, <1>3, <3>2
        <3>4. Len(top.values) + top.left = Len(b.values) + b.left
            BY <1>3, <3>1, <3>2
        <3> QED
            BY <1>3, <1>4, <3>3, <3>4
    <2> QED
        BY <1>3, <1>4, <1>5, <2>1 DEF IsFrame
<1>7. ASSUME NEW j \in 1..n
      PROVE  IsFrame(gr[j]) /\ (j < n => Waits(gr[j]))
    <2>1. CASE j = n
        BY <1>1, <1>2, <1>6, <2>1
    <2>2. CASE j \in 1..n - 1
        <3>1. j < n /\ gr[j] = fr[j]
            BY <1>1, <1>2, <2>2
        <3> QED
            BY <3>1 DEF AreFrames
    <2> QED
        BY <1>1, <2>1, <2>2
<1>8. gr[1].of = Whole
    <2>1. CASE n = 1
        BY <1>1, <1>2, <1>4, <2>1 DEF AreFrames
    <2>2. CASE n # 1
        <3>1. gr[1] = fr[1]
            BY <1>1, <1>2, <2>2
        <3> QED
            BY <3>1 DEF AreFrames
    <2> QED
        BY <2>1, <2>2
<1>9. ASSUME n = 1, gr[1].left = 0 PROVE gr[1].values[1] = v
    <2>1. gr[1] = top /\ b.of = Whole /\ b.left = 1
        BY <1>1, <1>2, <1>3, <1>4, <1>9 DEF AreFrames
    <2>2. Len(b.values) = 0
        BY <1>3, <2>1, WholeIs, ListLen
    <2> QED
        BY <1>4, <1>5, <2>1, <2>2
<1> QED
    BY <1>1, <1>2, <1>7, <1>8, <1>9 DEF AreFrames, gr

-----------------------------------------------------------------------------
(* Frames of the decoder.                                                  *)

\* They stay such when a container opens where a value may come.
LEMMA FramesAppend ==
    ASSUME NEW fr, AreFrames(fr), Waits(Last(fr)), NEW c \in Opening
    PROVE  /\ AreFrames(Append(fr, Frame(c)))
           /\ Len(Append(fr, Frame(c))) = Len(fr) + 1
<1> DEFINE n == Len(fr)
           b == Frame(c)
           gr == Append(fr, b)
<1>1. n \in Nat /\ n >= 1 /\ Last(fr) = fr[n] /\ IsList(fr)
    BY LastIs
<1>2. IsFrame(b)
    BY FrameIs
<1> HIDE DEF b
<1>3. /\ IsList(gr) /\ Len(gr) = n + 1 /\ gr[n + 1] = b
      /\ \A j \in 1..n : gr[j] = fr[j]
    BY <1>1, AppendIs
<1> HIDE DEF gr
<1>4. ASSUME NEW j \in 1..n + 1
      PROVE  IsFrame(gr[j]) /\ (j < n + 1 => Waits(gr[j]))
    <2>1. CASE j = n + 1
        BY <1>1, <1>2, <1>3, <2>1
    <2>2. CASE j \in 1..n
        <3>1. gr[j] = fr[j] /\ IsFrame(fr[j]) /\ (j < n => Waits(fr[j]))
            BY <1>3, <2>2 DEF AreFrames
        <3>2. j = n => Waits(fr[j])
            BY <1>1
        <3> QED
            BY <1>1, <2>2, <3>1, <3>2
    <2> QED
        BY <1>1, <2>1, <2>2
<1>5. gr[1].of = Whole
    BY <1>1, <1>3 DEF AreFrames
<1> QED
    BY <1>1, <1>3, <1>4, <1>5 DEF AreFrames, gr, b

\* They stay such when the last is closed, and the one below waits for it.
LEMMA FramesFront ==
    ASSUME NEW fr, AreFrames(fr), Len(fr) > 1
    PROVE  /\ AreFrames(Front(fr)) /\ Len(Front(fr)) = Len(fr) - 1
           /\ Waits(Last(Front(fr)))
<1> DEFINE n == Len(fr)
           gr == Front(fr)
<1>1. n \in Nat /\ n > 1 /\ IsList(fr)
    BY LastIs
<1>2. /\ IsList(gr) /\ Len(gr) = n - 1
      /\ \A j \in 1..n - 1 : gr[j] = fr[j]
    BY <1>1, FrontIs
<1> HIDE DEF gr
<1>3. ASSUME NEW j \in 1..n - 1
      PROVE  IsFrame(gr[j]) /\ Waits(gr[j])
    <2>1. gr[j] = fr[j] /\ j < n /\ j \in 1..n
        BY <1>1, <1>2
    <2> QED
        BY <2>1 DEF AreFrames
<1>4. gr[1] = fr[1] /\ fr[1].of = Whole /\ n - 1 \in 1..n - 1 /\ n - 1 >= 1
    BY <1>1, <1>2 DEF AreFrames
<1>5. Last(gr) = gr[n - 1]
    BY <1>2 DEF Last
<1>6. Waits(Last(gr))
    BY <1>3, <1>4, <1>5
<1> QED
    BY <1>2, <1>3, <1>4, <1>6 DEF AreFrames, gr

\* A frame of the decoder and one of the document.  A container that ends at a
\* terminator counts from -1 down.
Mirrors(f, b) ==
    /\ DOMAIN f = {"kind", "left", "values"}
    /\ f.kind = b.kind /\ f.values = b.values
    /\ f.left = IF Counted(b.of) THEN b.left ELSE b.left - Total(b.of) - 1

Mirrored(df, bf) ==
    /\ IsList(df) /\ Len(df) = Len(bf)
    /\ \A j \in 1..Len(df) : Mirrors(df[j], bf[j])

\* The last frames of the decoder and of the document match.
LEMMA MirroredLast ==
    ASSUME NEW df, NEW bf, AreFrames(bf), Mirrored(df, bf)
    PROVE  /\ Mirrors(Last(df), Last(bf)) /\ Len(df) \in Nat /\ Len(df) >= 1
           /\ AwaitsKey(Last(df)) = AwaitsKey(Last(bf))
           /\ Last(df) = df[Len(df)]
<1>1. /\ Len(bf) \in Nat /\ Len(bf) >= 1 /\ Last(bf) = bf[Len(bf)]
    BY LastIs
<1>2. Len(df) = Len(bf) /\ Last(df) = df[Len(df)]
    BY DEF Last, Mirrored
<1>3. Mirrors(Last(df), Last(bf))
    BY <1>1, <1>2 DEF Mirrored
<1> QED
    BY <1>1, <1>2, <1>3 DEF Mirrors, AwaitsKey

Taken(f, v) == [f EXCEPT !.values = Append(@, v), !.left = @ - 1]

\* A value that is received is taken by the last of the frames.
LEMMA ReceiveTakes ==
    ASSUME NEW fr, IsList(fr), Len(fr) >= 1, NEW v
    PROVE  /\ IsList(Receive(fr, v)) /\ Len(Receive(fr, v)) = Len(fr)
           /\ \A j \in 1..Len(fr) - 1 : Receive(fr, v)[j] = fr[j]
           /\ Receive(fr, v)[Len(fr)] = Taken(Last(fr), v)
BY ReceiveIs DEF Taken

\* The frames of both sides match after both take a value.
LEMMA MirroredReceive ==
    ASSUME NEW df, NEW bf, AreFrames(bf), Mirrored(df, bf), NEW v
    PROVE  Mirrored(Receive(df, v), Receive(bf, v))
<1> DEFINE n == Len(bf)
           f == Last(df)
           b == Last(bf)
           f2 == Taken(f, v)
           b2 == Taken(b, v)
           dg == Receive(df, v)
           bg == Receive(bf, v)
<1>1. /\ n \in Nat /\ n >= 1 /\ IsList(bf) /\ IsFrame(b)
      /\ IsList(df) /\ Len(df) = n /\ Mirrors(f, b)
    BY LastIs, MirroredLast DEF Mirrored
<1>2. /\ IsList(dg) /\ Len(dg) = n /\ dg[n] = f2
      /\ \A j \in 1..n - 1 : dg[j] = df[j]
    <2>1. IsList(df) /\ Len(df) >= 1 /\ Len(df) = n
        BY <1>1
    <2>2. /\ IsList(dg) /\ Len(dg) = Len(df) /\ dg[Len(df)] = f2
          /\ \A j \in 1..Len(df) - 1 : dg[j] = df[j]
        BY <2>1, ReceiveTakes
    <2> HIDE DEF f2, dg
    <2> QED
        BY <2>1, <2>2
<1>3. /\ Len(bg) = n /\ bg[n] = b2
      /\ \A j \in 1..n - 1 : bg[j] = bf[j]
    BY <1>1, ReceiveTakes
<1> HIDE DEF f, b, dg, bg
<1>4. Mirrors(f2, b2)
    <2>1. /\ b2.of = b.of /\ b2.kind = b.kind /\ b2.left = b.left - 1
          /\ b2.values = Append(b.values, v) /\ b.left \in Nat /\ Total(b.of) \in Nat
        BY <1>1, OpeningIs DEF IsFrame, Taken
    <2>2. /\ f2.kind = f.kind /\ f2.left = f.left - 1
          /\ f2.values = Append(f.values, v) /\ DOMAIN f2 = DOMAIN f
        BY <1>1 DEF Mirrors, Taken
    <2> HIDE DEF f2, b2
    <2>3. f2.left = IF Counted(b2.of) THEN b2.left ELSE b2.left - Total(b2.of) - 1
        BY <1>1, <2>1, <2>2 DEF Mirrors
    <2> QED
        BY <1>1, <2>1, <2>2, <2>3 DEF Mirrors
<1> HIDE DEF f2, b2
<1>5. ASSUME NEW j \in 1..n PROVE Mirrors(dg[j], bg[j])
    <2>1. CASE j = n
        BY <1>2, <1>3, <1>4, <2>1
    <2>2. CASE j \in 1..n - 1
        <3>1. dg[j] = df[j] /\ bg[j] = bf[j]
            BY <1>2, <1>3, <2>2
        <3> QED
            BY <1>1, <3>1 DEF Mirrored
    <2> QED
        BY <1>1, <2>1, <2>2
<1> QED
    BY <1>2, <1>3, <1>5 DEF Mirrored, dg, bg

\* They match after a container opens on both.
LEMMA MirroredAppend ==
    ASSUME NEW df, NEW bf, AreFrames(bf), Mirrored(df, bf), NEW f, NEW b, Mirrors(f, b)
    PROVE  Mirrored(Append(df, f), Append(bf, b))
<1> DEFINE n == Len(bf)
           dg == Append(df, f)
           bg == Append(bf, b)
<1>1. /\ n \in Nat /\ IsList(bf) /\ IsList(df) /\ Len(df) = n
    BY LastIs DEF Mirrored
<1>2. /\ IsList(dg) /\ Len(dg) = n + 1 /\ dg[n + 1] = f
      /\ \A j \in 1..n : dg[j] = df[j]
    BY <1>1, AppendIs
<1>3. /\ Len(bg) = n + 1 /\ bg[n + 1] = b
      /\ \A j \in 1..n : bg[j] = bf[j]
    BY <1>1, AppendIs
<1> HIDE DEF dg, bg
<1>4. ASSUME NEW j \in 1..n + 1 PROVE Mirrors(dg[j], bg[j])
    <2>1. CASE j = n + 1
        BY <1>2, <1>3, <2>1
    <2>2. CASE j \in 1..n
        <3>1. dg[j] = df[j] /\ bg[j] = bf[j]
            BY <1>2, <1>3, <2>2
        <3> QED
            BY <1>1, <2>2, <3>1 DEF Mirrored
    <2> QED
        BY <1>1, <2>1, <2>2
<1> QED
    BY <1>2, <1>3, <1>4 DEF Mirrored, dg, bg

\* They match after one is closed on both.
LEMMA MirroredFront ==
    ASSUME NEW df, NEW bf, AreFrames(bf), Mirrored(df, bf)
    PROVE  Mirrored(Front(df), Front(bf))
<1> DEFINE n == Len(bf)
           dg == Front(df)
           bg == Front(bf)
<1>1. /\ n \in Nat /\ n >= 1 /\ IsList(bf) /\ IsList(df) /\ Len(df) = n
    BY LastIs DEF Mirrored
<1>2. /\ IsList(dg) /\ Len(dg) = n - 1
      /\ \A j \in 1..n - 1 : dg[j] = df[j]
    BY <1>1, FrontIs
<1>3. /\ Len(bg) = n - 1
      /\ \A j \in 1..n - 1 : bg[j] = bf[j]
    BY <1>1, FrontIs
<1> HIDE DEF dg, bg
<1>4. ASSUME NEW j \in 1..n - 1 PROVE Mirrors(dg[j], bg[j])
    <2>1. dg[j] = df[j] /\ bg[j] = bf[j] /\ j \in 1..n
        BY <1>1, <1>2, <1>3
    <2> QED
        BY <1>1, <2>1 DEF Mirrored
<1> QED
    BY <1>2, <1>3, <1>4 DEF Mirrored, dg, bg

-----------------------------------------------------------------------------
(* Answers: what the decoder does with one.                                *)

\* The kinds that no value has which goes to a frame.
LEMMA AtomIs ==
    ASSUME NEW v \in Atom
    PROVE  /\ v.kind # "end" /\ v.kind \notin DOMAIN Container
           /\ PlainAtom(v).kind \notin DOMAIN Container
           /\ PlainAtom(v) # Terminator
<1>1. v.kind \in {"null", "bool", "int"} \cup FixedKinds \cup DOMAIN Short
    <2>1. CASE v.kind \in IntKinds \cup DOMAIN Short \cup FixedKinds
        BY <2>1, KindsAre
    <2>2. CASE v = [kind |-> "null"]
        BY <2>2
    <2>3. CASE v.b \in BOOLEAN /\ v = [kind |-> "bool", b |-> v.b]
        BY <2>3
    <2>4. CASE v.n \in Int /\ v = PlainInt(v.n)
        BY <2>4 DEF PlainInt
    <2> QED
        BY <2>1, <2>2, <2>3, <2>4, AtomKinds
<1>2. v.kind # "end" /\ v.kind \notin DOMAIN Container
    BY <1>1, ShortAre, ContainerAre DEF FixedKinds
<1>3. PlainAtom(v).kind \notin DOMAIN Container \cup {"terminator"}
    <2>1. CASE v.kind \in IntKinds
        <3>1. PlainAtom(v).kind = "int"
            BY <2>1 DEF PlainAtom, PlainInt
        <3> QED
            BY <3>1, ContainerAre
    <2>2. CASE v.kind \notin IntKinds /\ v.kind \in DOMAIN Fixed
        <3>1. PlainAtom(v) = FixedValue(v.kind, v.bytes)
            BY <2>2 DEF PlainAtom
        <3>2. CASE v.kind = "uuid"
            <4>1. PlainAtom(v).kind = "text"
                BY <3>1, <3>2 DEF FixedValue, UuidText, PlainBytes
            <4> QED
                BY <4>1, ContainerAre
        <3>3. CASE v.kind = "date"
            <4>1. PlainAtom(v).kind = "float64"
                BY <3>1, <3>3 DEF FixedValue, PlainBytes
            <4> QED
                BY <4>1, ContainerAre
        <3>4. CASE v.kind # "uuid" /\ v.kind # "date"
            <4>1. PlainAtom(v).kind = v.kind
                BY <3>1, <3>4 DEF FixedValue, PlainBytes
            <4> QED
                BY <1>1, <1>2, <4>1, ShortAre DEF FixedKinds
        <3> QED
            BY <3>2, <3>3, <3>4
    <2>3. CASE v.kind \notin IntKinds /\ v.kind \notin DOMAIN Fixed
        <3>1. PlainAtom(v) = v
            BY <2>3 DEF PlainAtom
        <3> QED
            BY <1>1, <1>2, <3>1, ShortAre DEF FixedKinds
    <2> QED
        BY <2>1, <2>2, <2>3
<1>4. Terminator.kind = "terminator"
    BY DEF Terminator
<1> QED
    BY <1>2, <1>3, <1>4

\* A container that is made is a list or dictionary, and no terminator.
LEMMA MadeIs ==
    ASSUME NEW kind \in {"array", "dict"}, NEW values
    PROVE  /\ MakeContainer(kind, values).kind \in DOMAIN Container
           /\ MakeContainer(kind, values) # Terminator
<1>1. MakeContainer(kind, values).kind \in {"array", "dict"}
    BY DEF MakeContainer
<1>2. Terminator.kind = "terminator"
    BY DEF Terminator
<1> QED
    BY <1>1, <1>2, ContainerAre

\* An answer goes to the frame that waits, unless it is a list or dictionary
\* where a key is due (result[key] = ... in _value).
LEMMA DeliverIs ==
    ASSUME NEW d, NEW i, NEW ds, NEW v, NEW df, At(d, i, ds, v, df),
           AwaitsKey(Last(df)) => v.kind \notin DOMAIN Container
    PROVE  At(Deliver(d), i, ds, v, Receive(df, v))
<1>1. d.frames = df /\ d.value = v
    BY DEF At
<1>2. Deliver(d) = [d EXCEPT !.frames = Receive(@, d.value)]
    BY <1>1 DEF Deliver
<1> DEFINE g == Receive(df, v)
<1>3. [d EXCEPT !.frames = Receive(@, d.value)] = [d EXCEPT !.frames = g]
    BY <1>1
<1> HIDE DEF g
<1>4. At([d EXCEPT !.frames = g], i, ds, v, g)
    BY DEF At
<1> QED
    BY <1>2, <1>3, <1>4 DEF g

\* A container that is closed is delivered to the frame below it.
LEMMA CloseIs ==
    ASSUME NEW d, NEW i, NEW ds, NEW value, NEW df, At(d, i, ds, value, df),
           ~AwaitsKey(Last(Front(df))),
           NEW m, m = MakeContainer(Last(df).kind, Last(df).values)
    PROVE  At(Close(d), i, ds, m, Receive(Front(df), m))
<1> DEFINE front == Front(df)
           c == [d EXCEPT !.frames = front, !.value = m]
<1>1. d.frames = df
    BY DEF At
<1>2. Close(d) = Deliver(c)
    BY <1>1 DEF Close
<1> HIDE DEF front
<1>3. At(c, i, ds, m, front)
    BY DEF At
<1> HIDE DEF c
<1>4. ~AwaitsKey(Last(front))
    BY DEF front
<1>5. At(Deliver(c), i, ds, m, Receive(front, m))
    BY <1>3, <1>4, DeliverIs
<1> QED
    BY <1>2, <1>5 DEF front

\* The decoder d after i bytes, with the table ds, is where the document is
\* that has the frames bf.
Matches(d, i, ds, bf) ==
    \E value, df :
        /\ At(d, i, ds, value, df) /\ Mirrored(df, bf)
        /\ Complete(bf) => value = bf[1].values[1] /\ value # Terminator

\* The decoder goes on as long as the document is not complete.
LEMMA NotStopped ==
    ASSUME NEW bf, AreFrames(bf), NEW df, Mirrored(df, bf), ~Complete(bf),
           NEW d, NEW i, NEW ds, NEW value, At(d, i, ds, value, df)
    PROVE  ~Stopped(d)
<1>1. d.ok = TRUE /\ d.frames = df
    BY DEF At
<1>2. ASSUME Complete(df) PROVE FALSE
    <2>1. Len(df) = 1 /\ df[1].left = 0 /\ Len(bf) = 1
        BY <1>2 DEF Complete, Mirrored
    <2>2. Mirrors(df[1], bf[1]) /\ bf[1].of = Whole
        BY <2>1 DEF Mirrored, AreFrames
    <2>3. bf[1].left = 0
        BY <2>1, <2>2, WholeIs DEF Mirrors
    <2> QED
        BY <2>1, <2>3 DEF Complete
<1> QED
    BY <1>1, <1>2 DEF Stopped

\* What is left tells the decoder whether a value comes.
LEMMA LeftIs ==
    ASSUME NEW bf, AreFrames(bf), NEW df, Mirrored(df, bf)
    PROVE  /\ Counted(Last(bf).of) => Last(df).left = Last(bf).left
           /\ ~Counted(Last(bf).of) => Last(df).left < 0
           /\ Last(bf).left > 0 => Last(df).left # 0
<1> DEFINE f == Last(df)
           b == Last(bf)
<1>1. Mirrors(f, b) /\ IsFrame(b)
    BY MirroredLast, LastIs
<1>2. b.left \in Nat /\ Len(b.values) + b.left = Total(b.of) /\ Len(b.values) \in Nat
    BY <1>1, ListLen DEF IsFrame
<1>3. f.left = IF Counted(b.of) THEN b.left ELSE b.left - Total(b.of) - 1
    BY <1>1 DEF Mirrors
<1> HIDE DEF f, b
<1> DEFINE fl == f.left
           bl == b.left
           total == Total(b.of)
           n == Len(b.values)
<1>4. /\ bl \in Nat /\ n \in Nat /\ n + bl = total
      /\ fl = IF Counted(b.of) THEN bl ELSE bl - total - 1
    BY <1>2, <1>3
<1> HIDE DEF fl, bl, total, n
<1>5. Counted(b.of) => fl = bl
    BY <1>4
<1>6. ~Counted(b.of) => fl < 0
    BY <1>4
<1>7. bl > 0 => fl # 0
    BY <1>4
<1> QED
    BY <1>5, <1>6, <1>7 DEF f, b, fl, bl

\* The step of the decoder at a value: its tag is taken.
LEMMA TagTaken ==
    ASSUME NEW data \in Seq(Int), NEW i \in Nat, NEW d, NEW ds, NEW value, NEW df,
           At(d, i, ds, value, df), NEW bf, AreFrames(bf), Mirrored(df, bf),
           ~Complete(bf), Last(df).left # 0, Len(bf) <= MaxDepth + 1,
           NEW tag \in Int, Agree(data, i, <<tag>>)
    PROVE  IF i + 1 <= Len(data)
           THEN \E taken : /\ At(taken, i + 1, ds, <<tag>>, df)
                           /\ DecodeNext(data, d) =
                                IF ContainerOf(tag) = {}
                                THEN DeliverAtom(DecodeAtom(data, taken, tag))
                                ELSE DecodeOpening(taken, The(ContainerOf(tag)), tag)
           ELSE ~DecodeNext(data, d).ok
<1> DEFINE taken == Take(data, d, 1)
<1>1. /\ <<tag>> \in Seq(Int) /\ Len(<<tag>>) = 1 /\ <<tag>>[1] = tag
    OBVIOUS
<1>2. IF i + 1 <= Len(data) THEN At(taken, i + 1, ds, <<tag>>, df) ELSE ~taken.ok
    <2>1. IF i + Len(<<tag>>) <= Len(data)
          THEN At(Take(data, d, Len(<<tag>>)), i + Len(<<tag>>), ds, <<tag>>, df)
          ELSE ~Take(data, d, Len(<<tag>>)).ok
        BY <1>1, TakeAgrees
    <2> QED
        BY <1>1, <2>1
<1>3. DecodeNext(data, d) = DecodeValue(data, d)
    <2>1. ~Stopped(d)
        BY NotStopped
    <2>2. d.frames = df
        BY DEF At
    <2> QED
        BY <2>1, <2>2 DEF DecodeNext
<1>4. ~(Len(d.frames) > MaxDepth + 1)
    <2>1. d.frames = df /\ Len(df) = Len(bf) /\ Len(bf) \in Nat
        BY LastIs DEF At, Mirrored
    <2> QED
        BY <2>1, LimitsAre
<1>5. CASE i + 1 <= Len(data)
    <2>1. At(taken, i + 1, ds, <<tag>>, df)
        BY <1>2, <1>5
    <2>2. taken.ok = TRUE /\ taken.value = <<tag>>
        BY <2>1 DEF At
    <2>3. DecodeValue(data, d) =
             IF ContainerOf(tag) = {}
             THEN DeliverAtom(DecodeAtom(data, taken, tag))
             ELSE DecodeOpening(taken, The(ContainerOf(tag)), tag)
        BY <1>1, <1>4, <2>2 DEF DecodeValue
    <2> HIDE DEF taken
    <2> QED
        BY <1>3, <1>5, <2>1, <2>3
<1>6. CASE ~(i + 1 <= Len(data))
    <2>1. ~taken.ok
        BY <1>2, <1>6
    <2>2. DecodeValue(data, d) = Fail(d)
        BY <2>1 DEF DecodeValue
    <2> QED
        BY <1>3, <1>6, <2>2, Answers
<1> QED
    BY <1>5, <1>6

-----------------------------------------------------------------------------
(* Encoder and decoder at an atom.                                         *)

\* The tag and the bytes after it are read as the atom v, or refused if it is
\* 39.
ReadAs(tag, rest, ds, ds2, v) ==
    IF v = PlainInt(39) THEN \A data, d : DecodeAtom(data, d, tag) = Fail(d)
    ELSE Yields(tag, rest, ds, ds2, PlainAtom(v))

\* Where the decoder gets to by bytes that are for the value v, the document
\* going on from bf to bf2; nowhere if a byte is missing or v is 39.
ReadsOn(i, bytes, ds, ds2, bf, bf2, v) ==
    \A data \in Seq(Int) : \A d :
        i <= Len(data) /\ Matches(d, i, ds, bf) /\ Agree(data, i, bytes) =>
            IF i + Len(bytes) <= Len(data) /\ v # PlainInt(39)
            THEN Matches(DecodeNext(data, d), i + Len(bytes), ds2, bf2)
            ELSE ~DecodeNext(data, d).ok

\* Encoder and decoder at the next of a document.  A value has a byte, and an
\* end was a container that has one.
Joint(e, buf, ds, bf, v) ==
    \E bytes \in Seq(Int) : \E es2, ds2 :
        /\ Enc(EncodeNext(e, v), buf \o bytes, es2, Len(BuildNext(bf, v)) - 1)
        /\ InStep(es2, ds2)
        /\ Len(BuildNext(bf, v)) + 1 <= Len(bf) + 2 * Len(bytes)
        /\ ReadsOn(Len(buf), bytes, ds, ds2, bf, BuildNext(bf, v), v)

\* What a value does to the frames of both sides.
LEMMA ReceivedByBoth ==
    ASSUME NEW bf, AreFrames(bf), Last(bf).left > 0, NEW df, Mirrored(df, bf),
           NEW d, NEW i, NEW ds, NEW v, At(d, i, ds, v, Receive(df, v)), v # Terminator
    PROVE  Matches(d, i, ds, Receive(bf, v))
<1> DEFINE bg == Receive(bf, v)
           dg == Receive(df, v)
<1>1. Mirrored(dg, bg)
    BY MirroredReceive
<1>2. ASSUME Complete(bg) PROVE v = bg[1].values[1]
    <2>1. Len(bg) = 1 /\ bg[1].left = 0
        BY <1>2 DEF Complete
    <2>2. Len(bg) = Len(bf)
        BY FramesReceive
    <2> QED
        BY <2>1, <2>2, FramesReceive
<1> HIDE DEF bg, dg
<1>3. At(d, i, ds, v, dg)
    BY DEF dg
<1>4. Matches(d, i, ds, bg)
    BY <1>1, <1>2, <1>3 DEF Matches
<1> QED
    BY <1>4 DEF bg

\* An atom that was read is delivered; one that was not is an error.
LEMMA DeliverAtomIs ==
    ASSUME NEW d
    PROVE  /\ ~d.ok => ~DeliverAtom(d).ok
           /\ d.ok /\ d.value # Terminator => DeliverAtom(d) = Deliver(d)
BY DEF DeliverAtom

\* A tag and bytes that are read as an atom bring the decoder to where the
\* document is after that atom.
LEMMA AtomReads ==
    ASSUME NEW i \in Nat, NEW tag \in 0..207, NEW rest \in Seq(Int), NEW ds, NEW ds2,
           NEW v \in Atom, ReadAs(tag, rest, ds, ds2, v),
           NEW bf, AreFrames(bf), Last(bf).left > 0, Len(bf) <= MaxDepth + 1
    PROVE  ReadsOn(i, <<tag>> \o rest, ds, ds2, bf, Receive(bf, PlainAtom(v)), v)
<1> DEFINE bytes == <<tag>> \o rest
           w == PlainAtom(v)
           bg == Receive(bf, w)
<1>1. /\ tag \in Int /\ <<tag>> \in Seq(Int) /\ Len(<<tag>>) = 1
      /\ Len(rest) \in Nat /\ Len(bytes) = 1 + Len(rest)
    BY ConcatProperties
<1>2. w.kind \notin DOMAIN Container /\ w # Terminator
    BY AtomIs
<1> HIDE DEF bytes, w, bg
<1>3. ContainerOf(tag) = {}
    <2>1. ~(tag \in 208..239)
        OBVIOUS
    <2> QED
        BY ONLY <1>1, <2>1, TagRanges
<1>4. ~Complete(bf)
    BY LastIs DEF Complete
<1>5. ASSUME NEW data \in Seq(Int), NEW d, i <= Len(data), Matches(d, i, ds, bf),
             Agree(data, i, bytes)
      PROVE  IF i + Len(bytes) <= Len(data) /\ v # PlainInt(39)
             THEN Matches(DecodeNext(data, d), i + Len(bytes), ds2, bg)
             ELSE ~DecodeNext(data, d).ok
    <2>1. PICK value, df : At(d, i, ds, value, df) /\ Mirrored(df, bf)
        BY <1>5 DEF Matches
    <2>2. Agree(data, i, <<tag>>) /\ Agree(data, i + 1, rest)
        <3>1. Agree(data, i, <<tag>>) /\ Agree(data, i + Len(<<tag>>), rest)
            BY <1>1, <1>5, AgreeConcat DEF bytes
        <3> QED
            BY <1>1, <3>1
    <2>3. Last(df).left # 0
        BY <2>1, LeftIs
    <2>4. CASE i + 1 <= Len(data)
        <3>1. PICK taken : /\ At(taken, i + 1, ds, <<tag>>, df)
                           /\ DecodeNext(data, d) = DeliverAtom(DecodeAtom(data, taken, tag))
            BY <1>1, <1>3, <1>4, <2>1, <2>2, <2>3, <2>4, TagTaken
        <3> DEFINE a == DecodeAtom(data, taken, tag)
        <3>2. CASE v = PlainInt(39)
            <4>1. ~a.ok
                <5>1. a = Fail(taken)
                    BY <3>2 DEF ReadAs
                <5> QED
                    BY <3>1, <5>1, Answers
            <4> HIDE DEF a
            <4>2. ~DeliverAtom(a).ok
                BY <4>1, DeliverAtomIs
            <4> QED
                BY <3>1, <3>2, <4>2 DEF a
        <3>3. CASE v # PlainInt(39)
            <4>1. IF (i + 1) + Len(rest) <= Len(data)
                  THEN At(a, (i + 1) + Len(rest), ds2, w, df) ELSE ~a.ok
                <5>1. i + 1 \in 0..Len(data)
                    BY <2>4
                <5> QED
                    BY <2>2, <3>1, <3>3, <5>1 DEF ReadAs, Yields, w
            <4> HIDE DEF a
            <4>2. (i + 1) + Len(rest) = i + Len(bytes)
                BY <1>1
            <4>3. CASE i + Len(bytes) <= Len(data)
                <5>1. At(a, i + Len(bytes), ds2, w, df)
                    BY <4>1, <4>2, <4>3
                <5>2. DeliverAtom(a) = Deliver(a)
                    BY <1>2, <5>1, DeliverAtomIs DEF At
                <5>3. At(Deliver(a), i + Len(bytes), ds2, w, Receive(df, w))
                    BY <1>2, <5>1, DeliverIs
                <5>4. Matches(Deliver(a), i + Len(bytes), ds2, bg)
                    BY <1>2, <2>1, <5>3, ReceivedByBoth DEF bg
                <5> QED
                    BY <3>1, <3>3, <4>3, <5>2, <5>4 DEF a
            <4>4. CASE ~(i + Len(bytes) <= Len(data))
                <5>1. ~DeliverAtom(a).ok
                    BY <4>1, <4>2, <4>4, DeliverAtomIs
                <5> QED
                    BY <3>1, <4>4, <5>1 DEF a
            <4> QED
                BY <4>3, <4>4
        <3> QED
            BY <3>2, <3>3
    <2>5. CASE ~(i + 1 <= Len(data))
        <3>1. ~DecodeNext(data, d).ok
            BY <1>1, <1>4, <2>1, <2>2, <2>3, <2>5, TagTaken
        <3>2. ~(i + Len(bytes) <= Len(data))
            BY <1>1, <2>5 DEF bytes
        <3> QED
            BY <3>1, <3>2
    <2> QED
        BY <2>4, <2>5
<1> QED
    BY <1>5 DEF ReadsOn, bytes, w, bg

\* Encoder and decoder agree on an atom.
LEMMA JointAtom ==
    ASSUME NEW e, NEW buf \in Seq(Int), NEW es, NEW ds, NEW bf, AreFrames(bf),
           Len(bf) <= MaxDepth + 1, Enc(e, buf, es, Len(bf) - 1), InStep(es, ds),
           NEW v \in Atom, Writable(v), Last(bf).left > 0
    PROVE  /\ Joint(e, buf, ds, bf, v)
           /\ AreFrames(BuildNext(bf, v)) /\ Len(BuildNext(bf, v)) = Len(bf)
<1> DEFINE w == PlainAtom(v)
           bg == Receive(bf, w)
<1>1. v.kind # "end" /\ v.kind \notin DOMAIN Container
    BY AtomIs
<1>2. BuildNext(bf, v) = bg
    BY <1>1 DEF BuildNext
<1>3. AreFrames(bg) /\ Len(bg) = Len(bf) /\ Len(bf) \in Nat
    BY FramesReceive, LastIs
<1>4. EncodeNext(e, v) = EncodeAtom(e, v)
    BY <1>1 DEF EncodeNext, Enc
<1>5. Stepped(EncodeAtom(e, v), buf, ds, Len(bf) - 1, v)
    BY AtomStep
<1>6. PICK tag, rest, es2, ds2 :
          /\ tag \in 0..207 /\ rest \in Seq(Int)
          /\ Enc(EncodeAtom(e, v), buf \o (<<tag>> \o rest), es2, Len(bf) - 1)
          /\ InStep(es2, ds2) /\ ReadAs(tag, rest, ds, ds2, v)
    BY <1>5 DEF Stepped, ReadAs
<1> DEFINE bytes == <<tag>> \o rest
<1>7. bytes \in Seq(Int) /\ Len(bytes) >= 1
    <2>1. <<tag>> \in Seq(Int) /\ Len(<<tag>>) = 1 /\ Len(rest) \in Nat
        BY <1>6
    <2> QED
        BY <1>6, <2>1, ConcatProperties
<1>8. ReadsOn(Len(buf), bytes, ds, ds2, bf, bg, v)
    <2>1. Len(buf) \in Nat
        OBVIOUS
    <2> QED
        BY <1>6, <2>1, AtomReads
<1> HIDE DEF bytes, bg
<1>9. Len(bg) + 1 <= Len(bf) + 2 * Len(bytes)
    BY <1>3, <1>7
<1>10. Enc(EncodeNext(e, v), buf \o bytes, es2, Len(BuildNext(bf, v)) - 1)
    BY <1>2, <1>3, <1>4, <1>6 DEF bytes
<1>11. Joint(e, buf, ds, bf, v)
    BY <1>2, <1>6, <1>7, <1>8, <1>9, <1>10 DEF Joint
<1> QED
    BY <1>2, <1>3, <1>11

-----------------------------------------------------------------------------
(* Encoder and decoder at the beginning of a container.                    *)

\* The tag of a list or dictionary says its kind, and how many values it has or
\* that a terminator ends it (_list and _dict).
LEMMA OpeningTag ==
    ASSUME NEW c \in Opening, NEW tag,
           tag = IF Counted(c) THEN Container[c.kind].tag + c.count
                 ELSE Container[c.kind].open
    PROVE  /\ tag \in Int /\ ContainerOf(tag) = {c.kind}
           /\ Counted(c) => tag # Container[c.kind].open
           /\ Counted(c) => (tag - Container[c.kind].tag) * Container[c.kind].values
                              = Total(c)
           /\ ~Counted(c) => tag = Container[c.kind].open
<1> DEFINE n == c.count
<1>1. c.kind \in {"array", "dict"} /\ n \in Nat
    BY OpeningIs
<1> HIDE DEF n
<1>2. CASE c.kind = "array"
    <2>1. Counted(c) <=> n <= MaxItems
        BY <1>2, ContainerAre DEF Counted, n
    <2>2. tag = IF n <= MaxItems THEN 208 + n ELSE 223
        BY <1>2, <2>1, ContainerAre DEF n
    <2>3. n <= MaxItems => n <= 14
        BY <1>1, LimitsAre
    <2>4. tag \in 208..223 /\ tag \in Int /\ (n <= MaxItems => tag # 223 /\ tag - 208 = n)
        BY <1>1, <2>2, <2>3
    <2>5. ContainerOf(tag) = {"array"}
        BY <2>4, ContainerAre DEF ContainerOf
    <2>6. Total(c) = n
        BY <1>2, OpeningIs DEF n
    <2> QED
        BY <1>1, <1>2, <2>1, <2>2, <2>4, <2>5, <2>6, ContainerAre
<1>3. CASE c.kind = "dict"
    <2>1. Counted(c) <=> n <= MaxPairs
        BY <1>3, ContainerAre DEF Counted, n
    <2>2. tag = IF n <= MaxPairs THEN 224 + n ELSE 239
        BY <1>3, <2>1, ContainerAre DEF n
    <2>3. n <= MaxPairs => n <= 14
        BY <1>1, LimitsAre
    <2>4. tag \in 224..239 /\ tag \in Int /\ (n <= MaxPairs => tag # 239 /\ tag - 224 = n)
        BY <1>1, <2>2, <2>3
    <2>5. ContainerOf(tag) = {"dict"}
        BY <2>4, ContainerAre DEF ContainerOf
    <2>6. Total(c) = n * 2
        BY <1>3, OpeningIs DEF n
    <2> QED
        BY <1>1, <1>3, <2>1, <2>2, <2>4, <2>5, <2>6, ContainerAre
<1> QED
    BY <1>1, <1>2, <1>3

\* That tag brings the decoder to where the document is in the container.
LEMMA OpeningReads ==
    ASSUME NEW i \in Nat, NEW ds, NEW bf, AreFrames(bf), Waits(Last(bf)),
           Len(bf) <= MaxDepth + 1, NEW c \in Opening, NEW tag,
           tag = IF Counted(c) THEN Container[c.kind].tag + c.count
                 ELSE Container[c.kind].open
    PROVE  ReadsOn(i, <<tag>>, ds, ds, bf, Append(bf, Frame(c)), c)
<1> DEFINE b == Frame(c)
           bg == Append(bf, b)
           kind == c.kind
           left == IF tag = Container[kind].open THEN -1
                   ELSE (tag - Container[kind].tag) * Container[kind].values
           f == [kind |-> kind, values |-> <<>>, left |-> left]
<1>1. /\ tag \in Int /\ ContainerOf(tag) = {kind}
      /\ Counted(c) => tag # Container[c.kind].open
      /\ Counted(c) => (tag - Container[c.kind].tag) * Container[c.kind].values
                         = Total(c)
      /\ ~Counted(c) => tag = Container[c.kind].open
    BY OpeningTag
<1>2. left = IF Counted(c) THEN Total(c) ELSE -1
    BY <1>1
<1> HIDE DEF left
<1>3. The(ContainerOf(tag)) = kind /\ ContainerOf(tag) # {}
    BY <1>1 DEF The
<1>4. Mirrors(f, b)
    <2>1. /\ b.of = c /\ b.kind = kind /\ b.left = Total(c) /\ b.values = <<>>
          /\ Total(c) \in Nat
        BY FrameIs, OpeningIs
    <2>2. f.left = IF Counted(c) THEN Total(c) ELSE Total(c) - Total(c) - 1
        BY <1>2, <2>1
    <2> HIDE DEF b
    <2> QED
        BY <2>1, <2>2 DEF Mirrors
<1>5. ASSUME NEW d
      PROVE  DecodeOpening(d, kind, tag) = [d EXCEPT !.frames = Append(@, f)]
    BY DEF DecodeOpening, left
<1> HIDE DEF f, b, kind
<1>6. c # PlainInt(39)
    <2>1. PlainInt(39).kind = "int"
        BY DEF PlainInt
    <2> QED
        BY <2>1, OpeningIs
<1>7. Len(bg) = Len(bf) + 1 /\ Len(bf) \in Nat /\ Len(bf) >= 1
    BY LastIs, FramesAppend DEF b
<1>8. ~Complete(bf) /\ ~Complete(bg)
    BY <1>7, LastIs DEF Complete, Waits
<1> HIDE DEF bg
<1>9. ASSUME NEW data \in Seq(Int), NEW d, i <= Len(data), Matches(d, i, ds, bf),
             Agree(data, i, <<tag>>)
      PROVE  IF i + Len(<<tag>>) <= Len(data) /\ c # PlainInt(39)
             THEN Matches(DecodeNext(data, d), i + Len(<<tag>>), ds, bg)
             ELSE ~DecodeNext(data, d).ok
    <2>1. PICK value, df : At(d, i, ds, value, df) /\ Mirrored(df, bf)
        BY <1>9 DEF Matches
    <2>2. Last(df).left # 0
        BY <2>1, LeftIs DEF Waits
    <2>3. Len(<<tag>>) = 1
        OBVIOUS
    <2>4. CASE i + 1 <= Len(data)
        <3>1. PICK taken : /\ At(taken, i + 1, ds, <<tag>>, df)
                           /\ DecodeNext(data, d) = DecodeOpening(taken, kind, tag)
            BY <1>1, <1>3, <1>8, <1>9, <2>1, <2>2, <2>4, TagTaken
        <3> DEFINE dg == Append(df, f)
                   d2 == [taken EXCEPT !.frames = dg]
        <3>2. DecodeOpening(taken, kind, tag) = d2
            BY <1>5, <3>1 DEF At
        <3> HIDE DEF dg
        <3>3. At(d2, i + 1, ds, <<tag>>, dg)
            BY <3>1 DEF At
        <3>4. Mirrored(dg, bg)
            BY <1>4, <2>1, MirroredAppend DEF dg, bg
        <3> HIDE DEF d2
        <3>5. Matches(d2, i + 1, ds, bg)
            BY <1>8, <3>3, <3>4 DEF Matches
        <3> QED
            BY <1>6, <2>3, <2>4, <3>1, <3>2, <3>5
    <2>5. CASE ~(i + 1 <= Len(data))
        <3>1. ~DecodeNext(data, d).ok
            BY <1>1, <1>8, <1>9, <2>1, <2>2, <2>5, TagTaken
        <3> QED
            BY <2>3, <2>5, <3>1
    <2> QED
        BY <2>4, <2>5
<1> QED
    BY <1>9 DEF ReadsOn, bg, b

\* Encoder and decoder agree on the beginning of a container.
LEMMA JointOpening ==
    ASSUME NEW e, NEW buf \in Seq(Int), NEW es, NEW ds, NEW bf, AreFrames(bf),
           Len(bf) <= MaxDepth, Enc(e, buf, es, Len(bf) - 1), InStep(es, ds),
           NEW c \in Opening, Waits(Last(bf))
    PROVE  /\ Joint(e, buf, ds, bf, c)
           /\ AreFrames(BuildNext(bf, c)) /\ Len(BuildNext(bf, c)) = Len(bf) + 1
<1> DEFINE tag == IF Counted(c) THEN Container[c.kind].tag + c.count
                  ELSE Container[c.kind].open
           n == Len(bf)
           bytes == <<tag>>
           bg == Append(bf, Frame(c))
<1>1. c.kind \in {"array", "dict"} /\ c.kind \in DOMAIN Container
    BY OpeningIs
<1>2. BuildNext(bf, c) = bg
    BY <1>1 DEF BuildNext
<1>3. AreFrames(bg) /\ Len(bg) = n + 1 /\ n \in Nat
    BY FramesAppend, LastIs
<1>4. tag \in Int
    BY OpeningTag
<1>5. bytes \in Seq(Int) /\ Len(bytes) = 1
    BY <1>4
<1>6. ReadsOn(Len(buf), bytes, ds, ds, bf, bg, c)
    <2>1. Len(buf) \in Nat /\ Len(bf) <= MaxDepth + 1
        BY <1>3, LimitsAre
    <2> QED
        BY <2>1, OpeningReads
<1>7. EncodeNext(e, c) = EncodeOpening(e, c)
    BY <1>1 DEF EncodeNext, Enc
<1>8. EncodeOpening(e, c) = [Emit(e, bytes) EXCEPT !.depth = @ + 1]
    <2>1. ~(e.depth >= MaxDepth)
        BY <1>3, LimitsAre DEF Enc
    <2> QED
        BY <2>1 DEF EncodeOpening
<1> HIDE DEF bytes, tag, bg, n
<1>9. Enc(EncodeNext(e, c), buf \o bytes, es, Len(bg) - 1)
    <2>1. Enc(Emit(e, bytes), buf \o bytes, es, n - 1)
        BY Emits DEF n
    <2> DEFINE g == Emit(e, bytes)
               g2 == [g EXCEPT !.depth = @ + 1]
    <2> HIDE DEF g
    <2>2. Enc(g2, buf \o bytes, es, (n - 1) + 1)
        BY <2>1 DEF Enc, g
    <2>3. (n - 1) + 1 = Len(bg) - 1
        BY <1>3
    <2> QED
        BY <1>7, <1>8, <2>2, <2>3 DEF g
<1>10. Len(bg) + 1 <= Len(bf) + 2 * Len(bytes)
    BY <1>3, <1>5 DEF n
<1>11. Joint(e, buf, ds, bf, c)
    BY <1>2, <1>5, <1>6, <1>9, <1>10 DEF Joint
<1> QED
    BY <1>2, <1>3, <1>11 DEF n

-----------------------------------------------------------------------------
(* Encoder and decoder at the end of a container.                          *)

\* The end of a container is not a value.
LEMMA EndIs ==
    ASSUME NEW c \in Opening
    PROVE  /\ End(c).kind = "end" /\ End(c).of = c
           /\ End(c) # PlainInt(39)
           /\ End(c) \notin Atom /\ End(c) \notin Opening
<1>1. End(c).kind = "end" /\ End(c).of = c
    BY DEF End
<1>2. PlainInt(39).kind = "int"
    BY DEF PlainInt
<1> QED
    BY <1>1, <1>2, AtomIs, OpeningIs

\* A container that is full, closed on both sides.
LEMMA ClosedByBoth ==
    ASSUME NEW bf, AreFrames(bf), Len(bf) > 1, NEW df, Mirrored(df, bf),
           NEW d, NEW i, NEW ds, NEW value, At(d, i, ds, value, df)
    PROVE  Matches(Close(d), i, ds,
                   Receive(Front(bf), MakeContainer(Last(bf).of.kind, Last(bf).values)))
<1> DEFINE b == Last(bf)
           m == MakeContainer(b.of.kind, b.values)
           front == Front(bf)
<1>1. IsFrame(b) /\ Mirrors(Last(df), b)
    BY LastIs, MirroredLast
<1>2. m = MakeContainer(Last(df).kind, Last(df).values)
    BY <1>1 DEF IsFrame, Mirrors
<1>3. m # Terminator
    BY <1>1, OpeningIs, MadeIs DEF IsFrame
<1>4. AreFrames(front) /\ Waits(Last(front)) /\ Mirrored(Front(df), front)
    BY FramesFront, MirroredFront
<1> HIDE DEF m, front
<1>5. ~AwaitsKey(Last(Front(df))) /\ Last(front).left > 0
    BY <1>4, MirroredLast DEF Waits
<1>6. At(Close(d), i, ds, m, Receive(Front(df), m))
    BY <1>2, <1>5, CloseIs
<1>7. Matches(Close(d), i, ds, Receive(front, m))
    BY <1>3, <1>4, <1>5, <1>6, ReceivedByBoth
<1> QED
    BY <1>7 DEF m, front

\* Nothing is half read at the end of a container.
LEMMA BetweenIs ==
    ASSUME NEW b, IsFrame(b), b.left = 0, NEW f, Mirrors(f, b)
    PROVE  Len(f.values) % Container[f.kind].values = 0
<1> DEFINE n == b.of.count
           l == Len(b.values)
<1>1. /\ b.of \in Opening /\ b.kind = b.of.kind /\ f.kind = b.kind
      /\ f.values = b.values /\ l = Total(b.of)
    <2>1. Len(b.values) \in Nat
        BY ListLen DEF IsFrame
    <2> QED
        BY <2>1 DEF IsFrame, Mirrors
<1>2. n \in Nat /\ b.of.kind \in {"array", "dict"}
    BY <1>1, OpeningIs
<1> HIDE DEF n, l
<1>3. CASE b.of.kind = "array"
    <2>1. l = n /\ l % 1 = 0
        BY <1>1, <1>2, <1>3, OpeningIs DEF n
    <2> QED
        BY <1>1, <1>3, <2>1, ContainerAre DEF l
<1>4. CASE b.of.kind = "dict"
    <2>1. l = n * 2
        BY <1>1, <1>2, <1>4, OpeningIs DEF n
    <2>2. l % 2 = 0
        BY <1>2, <2>1
    <2> QED
        BY <1>1, <1>4, <2>2, ContainerAre DEF l
<1> QED
    BY <1>2, <1>3, <1>4

\* A container that was counted down, or whose terminator comes, is closed.
LEMMA EndReads ==
    ASSUME NEW i \in Nat, NEW ds, NEW bf, AreFrames(bf), Len(bf) > 1,
           Len(bf) <= MaxDepth + 1, Last(bf).left = 0, NEW c, c = Last(bf).of,
           NEW bytes, bytes = IF Counted(c) THEN <<>> ELSE <<TERMINATOR>>,
           NEW bg,
           bg = Receive(Front(bf), MakeContainer(Last(bf).of.kind, Last(bf).values))
    PROVE  ReadsOn(i, bytes, ds, ds, bf, bg, End(c))
<1>1. ~Complete(bf) /\ IsFrame(Last(bf)) /\ c \in Opening
    BY LastIs DEF Complete, IsFrame
<1>2. End(c) # PlainInt(39)
    BY <1>1, EndIs
<1>3. ASSUME NEW data \in Seq(Int), NEW d, i <= Len(data), Matches(d, i, ds, bf),
             Agree(data, i, bytes)
      PROVE  IF i + Len(bytes) <= Len(data) /\ End(c) # PlainInt(39)
             THEN Matches(DecodeNext(data, d), i + Len(bytes), ds, bg)
             ELSE ~DecodeNext(data, d).ok
    <2>1. PICK value, df : At(d, i, ds, value, df) /\ Mirrored(df, bf)
        BY <1>3 DEF Matches
    <2>2. d.frames = df /\ Mirrors(Last(df), Last(bf))
        BY <2>1, MirroredLast DEF At
    <2>3. CASE Counted(c)
        <3>1. Last(df).left = 0
            BY <2>1, <2>3, LeftIs
        <3>2. ~Stopped(d)
            BY <1>1, <2>1, NotStopped
        <3>3. DecodeNext(data, d) = Close(d)
            BY <2>2, <3>1, <3>2 DEF DecodeNext
        <3>4. Matches(Close(d), i, ds, bg)
            BY <2>1, ClosedByBoth
        <3>5. bytes = <<>> /\ Len(bytes) = 0 /\ i + Len(bytes) = i
            BY <2>3
        <3> QED
            BY <1>2, <1>3, <3>3, <3>4, <3>5
    <2>4. CASE ~Counted(c)
        <3>1. Last(df).left < 0 /\ Last(df).left # 0
            <4>1. Last(df).left < 0
                BY <2>1, <2>4, LeftIs
            <4>2. Last(df).left # 0
                <5>1. ASSUME NEW x, x < 0, x = 0 PROVE FALSE
                    BY <5>1
                <5> QED
                    BY <4>1, <5>1
            <4> QED
                BY <4>1, <4>2
        <3>2. bytes = <<TERMINATOR>> /\ TERMINATOR \in Int /\ Len(bytes) = 1
            BY <2>4 DEF TERMINATOR
        <3>3. ContainerOf(TERMINATOR) = {}
            BY TagRanges DEF TERMINATOR
        <3>4. CASE i + 1 <= Len(data)
            <4>1. PICK taken : /\ At(taken, i + 1, ds, <<TERMINATOR>>, df)
                               /\ DecodeNext(data, d) =
                                    DeliverAtom(DecodeAtom(data, taken, TERMINATOR))
                BY <1>1, <1>3, <2>1, <3>1, <3>2, <3>3, <3>4, TagTaken
            <4> DEFINE a == Answer(taken, Terminator)
            <4>2. DecodeAtom(data, taken, TERMINATOR) = a
                BY LiteralDispatch
            <4>3. At(a, i + 1, ds, Terminator, df)
                BY <4>1, Answers
            <4> HIDE DEF a
            <4>4. a.ok = TRUE /\ a.value = Terminator /\ a.frames = df
                BY <4>3 DEF At
            <4>5. Len(Last(df).values) % Container[Last(df).kind].values = 0
                BY <1>1, <2>2, BetweenIs
            <4>6. DeliverAtom(a) = Close(a)
                BY <3>1, <4>4, <4>5 DEF DeliverAtom
            <4>7. Matches(Close(a), i + 1, ds, bg)
                BY <2>1, <4>3, ClosedByBoth
            <4> QED
                BY <1>2, <3>2, <3>4, <4>1, <4>2, <4>6, <4>7
        <3>5. CASE ~(i + 1 <= Len(data))
            <4>1. ~DecodeNext(data, d).ok
                BY <1>1, <1>3, <2>1, <3>1, <3>2, <3>3, <3>5, TagTaken
            <4> QED
                BY <3>2, <3>5, <4>1
        <3> QED
            BY <3>4, <3>5
    <2> QED
        BY <2>3, <2>4
<1> QED
    BY <1>3 DEF ReadsOn

\* Encoder and decoder agree on the end of a container.
LEMMA JointEnd ==
    ASSUME NEW e, NEW buf \in Seq(Int), NEW es, NEW ds, NEW bf, AreFrames(bf),
           Len(bf) <= MaxDepth + 1, Enc(e, buf, es, Len(bf) - 1), InStep(es, ds),
           Len(bf) > 1, Last(bf).left = 0, NEW v, v = End(Last(bf).of)
    PROVE  /\ Joint(e, buf, ds, bf, v)
           /\ AreFrames(BuildNext(bf, v)) /\ Len(BuildNext(bf, v)) = Len(bf) - 1
<1> DEFINE c == Last(bf).of
           n == Len(bf)
           bytes == IF Counted(c) THEN <<>> ELSE <<TERMINATOR>>
           m == MakeContainer(c.kind, Last(bf).values)
           bg == Receive(Front(bf), m)
<1>1. c \in Opening /\ n \in Nat
    BY LastIs DEF IsFrame
<1>2. v.kind = "end" /\ v.of = c /\ v.kind \notin DOMAIN Container
    BY <1>1, EndIs, ContainerAre
<1>3. BuildNext(bf, v) = bg
    BY <1>2 DEF BuildNext
<1>4. AreFrames(bg) /\ Len(bg) = n - 1
    <2>1. AreFrames(Front(bf)) /\ Len(Front(bf)) = n - 1 /\ Last(Front(bf)).left > 0
        BY FramesFront DEF Waits
    <2> HIDE DEF m
    <2> QED
        BY <2>1, FramesReceive
<1>5. bytes \in Seq(Int) /\ Len(bytes) \in Nat
    BY DEF TERMINATOR
<1>6. ReadsOn(Len(buf), bytes, ds, ds, bf, bg, v)
    <2>1. Len(buf) \in Nat
        OBVIOUS
    <2> QED
        BY <2>1, EndReads
<1>7. EncodeNext(e, v) = EncodeEnd(e, c)
    BY <1>2 DEF EncodeNext, Enc
<1>8. EncodeEnd(e, c) = [Emit(e, bytes) EXCEPT !.depth = @ - 1]
    BY DEF EncodeEnd
<1> HIDE DEF bytes, c, bg, n
<1>9. Enc(EncodeNext(e, v), buf \o bytes, es, Len(bg) - 1)
    <2>1. Enc(Emit(e, bytes), buf \o bytes, es, n - 1)
        BY Emits DEF n
    <2> DEFINE g == Emit(e, bytes)
               g2 == [g EXCEPT !.depth = @ - 1]
    <2> HIDE DEF g
    <2>2. Enc(g2, buf \o bytes, es, (n - 1) - 1)
        BY <2>1 DEF Enc, g
    <2>3. (n - 1) - 1 = Len(bg) - 1
        BY <1>4
    <2> QED
        BY <1>7, <1>8, <2>2, <2>3 DEF g
<1>10. Len(bg) + 1 <= Len(bf) + 2 * Len(bytes)
    <2> DEFINE l == Len(bytes)
    <2>1. l \in Nat
        BY <1>5
    <2> HIDE DEF l
    <2>2. Len(bg) + 1 <= n + 2 * l
        BY <1>1, <1>4, <2>1
    <2> QED
        BY <2>2 DEF l, n
<1>11. Joint(e, buf, ds, bf, v)
    BY <1>3, <1>5, <1>6, <1>9, <1>10 DEF Joint
<1> QED
    BY <1>3, <1>4, <1>11 DEF n

-----------------------------------------------------------------------------
(* What the encoder refuses.                                               *)

\* Only numbers, texts and data can be too large to be written.
LEMMA NotWritable ==
    ASSUME NEW v, ~Writable(v)
    PROVE  /\ v.kind \in {"int"} \cup IntKinds \cup DOMAIN Short
           /\ v \in Atom => ~IsSmall(v)
<1>1. v.kind \in {"int"} \cup IntKinds \cup DOMAIN Short
    BY DEF Writable
<1>2. ASSUME v \in Atom, IsSmall(v) PROVE FALSE
    <2>1. v.kind = "int" /\ v.n \in -1..39 /\ v.n \in Int
        BY <1>2 DEF IsSmall
    <2>2. v.kind \notin IntKinds /\ v.kind \notin DOMAIN Short
        BY <2>1, ShortAre DEF IntKinds
    <2>3. Shifts(v.n, 1)[0] = v.n
        BY <2>1, ShiftsAre
    <2>4. Widths[1] = 1 /\ 1 \in DOMAIN Widths
        BY WidthsAre DEF Widths
    <2>5. Fits(v.n, Widths[1], SIGNED)
        BY <2>1, <2>3, <2>4 DEF Fits, SIGNED
    <2> QED
        BY <2>2, <2>4, <2>5 DEF Writable
<1> QED
    BY <1>1, <1>2

\* The encoder raises at an atom that is too large.
LEMMA RefusesAtom ==
    ASSUME NEW e, NEW buf, NEW es, NEW depth, Enc(e, buf, es, depth),
           NEW v \in Atom, ~Writable(v)
    PROVE  ~EncodeNext(e, v).ok
<1>1. v.kind # "end" /\ v.kind \notin DOMAIN Container
    BY AtomIs
<1>2. EncodeNext(e, v) = EncodeAtom(e, v)
    BY <1>1 DEF EncodeNext, Enc
<1>3. v.kind \notin {"null", "bool"} /\ ~IsSmall(v)
    BY NotWritable, ShortAre DEF IntKinds
<1>4. EncodeAtom(e, v) = [e EXCEPT !.ok = FALSE]
    BY <1>3 DEF EncodeAtom
<1>5. [e EXCEPT !.ok = FALSE].ok = FALSE
    BY DEF Enc
<1> QED
    BY <1>2, <1>4, <1>5

\* The encoder raises at a container that is nested too deeply.
LEMMA RefusesOpening ==
    ASSUME NEW e, NEW buf, NEW es, Enc(e, buf, es, MaxDepth), NEW c \in Opening
    PROVE  ~EncodeNext(e, c).ok
<1>1. c.kind \in {"array", "dict"} /\ c.kind \in DOMAIN Container
    BY OpeningIs
<1>2. EncodeNext(e, c) = EncodeOpening(e, c)
    BY <1>1 DEF EncodeNext, Enc
<1>3. e.depth >= MaxDepth
    BY LimitsAre DEF Enc
<1>4. EncodeOpening(e, c) = [e EXCEPT !.ok = FALSE]
    BY <1>3 DEF EncodeOpening
<1>5. [e EXCEPT !.ok = FALSE].ok = FALSE
    BY DEF Enc
<1> QED
    BY <1>2, <1>4, <1>5

\* How a document goes on.
LEMMA FollowsCases ==
    ASSUME NEW bf, AreFrames(bf), NEW v, Follows(bf, v)
    PROVE  \/ v \in Atom /\ Last(bf).left > 0
           \/ v \in Opening /\ Waits(Last(bf))
           \/ Len(bf) > 1 /\ Last(bf).left = 0 /\ v = End(Last(bf).of)
BY DEF Follows, Waits

\* A document that goes on has frames, one more if a container opens.
LEMMA BuildNextIs ==
    ASSUME NEW bf, AreFrames(bf), NEW v, Follows(bf, v)
    PROVE  /\ AreFrames(BuildNext(bf, v)) /\ Len(BuildNext(bf, v)) \in Nat
           /\ IF v \in Opening THEN Len(BuildNext(bf, v)) = Len(bf) + 1
              ELSE Len(BuildNext(bf, v)) <= Len(bf)
<1>1. CASE v \in Atom /\ Last(bf).left > 0
    <2>1. v.kind # "end" /\ v.kind \notin DOMAIN Container
        BY <1>1, AtomIs
    <2>2. BuildNext(bf, v) = Receive(bf, PlainAtom(v)) /\ v \notin Opening
        BY <2>1, OpeningIs DEF BuildNext
    <2>3. /\ AreFrames(Receive(bf, PlainAtom(v)))
          /\ Len(Receive(bf, PlainAtom(v))) = Len(bf) /\ Len(bf) \in Nat
        BY <1>1, FramesReceive, LastIs
    <2> QED
        BY <2>2, <2>3
<1>2. CASE v \in Opening /\ Waits(Last(bf))
    <2>1. v.kind \in {"array", "dict"} /\ v.kind \in DOMAIN Container
        BY <1>2, OpeningIs
    <2>2. BuildNext(bf, v) = Append(bf, Frame(v))
        BY <2>1 DEF BuildNext
    <2>3. /\ AreFrames(Append(bf, Frame(v)))
          /\ Len(Append(bf, Frame(v))) = Len(bf) + 1 /\ Len(bf) \in Nat
        BY <1>2, FramesAppend, LastIs
    <2> QED
        BY <1>2, <2>2, <2>3
<1>3. CASE Len(bf) > 1 /\ Last(bf).left = 0 /\ v = End(Last(bf).of)
    <2> DEFINE m == MakeContainer(v.of.kind, Last(bf).values)
               front == Front(bf)
    <2>1. Last(bf).of \in Opening
        BY LastIs DEF IsFrame
    <2>2. v.kind = "end" /\ v \notin Opening /\ v.kind \notin DOMAIN Container
        BY <1>3, <2>1, EndIs, ContainerAre
    <2>3. BuildNext(bf, v) = Receive(front, m)
        BY <2>2 DEF BuildNext
    <2>4. /\ AreFrames(front) /\ Len(front) = Len(bf) - 1
          /\ Last(front).left > 0 /\ Len(bf) \in Nat
        BY <1>3, FramesFront, LastIs DEF Waits
    <2> HIDE DEF m, front
    <2>5. AreFrames(Receive(front, m)) /\ Len(Receive(front, m)) = Len(front)
        BY <2>4, FramesReceive
    <2>6. Len(front) \in Nat /\ Len(front) <= Len(bf)
        BY <1>3, <2>4
    <2> QED
        BY <2>2, <2>3, <2>5, <2>6
<1> QED
    BY <1>1, <1>2, <1>3, FollowsCases

\* A document, or what comes first of one.
IsBegun(doc) ==
    /\ Len(doc) \in Nat
    /\ \A k \in 1..Len(doc) : Follows(Building(doc)[k - 1], doc[k])

\* A document has frames after each of its values.
LEMMA FramesOf ==
    ASSUME NEW doc, IsBegun(doc)
    PROVE  \A k \in 0..Len(doc) : AreFrames(Building(doc)[k])
<1> DEFINE n == Len(doc)
           B(k) == Building(doc)[k]
           P == {k \in Nat : k <= n => AreFrames(B(k))}
<1>1. /\ n \in Nat /\ B(0) = <<Frame(Whole)>>
      /\ \A k \in 1..n : B(k) = BuildNext(B(k - 1), doc[k])
    BY BuildingIs DEF IsBegun
<1>2. \A k \in 1..n : Follows(B(k - 1), doc[k])
    BY DEF IsBegun
<1> HIDE DEF n, B
<1>3. 0 \in P
    BY <1>1, FirstFrames
<1>4. ASSUME NEW k \in Nat, k \in P PROVE k + 1 \in P
    <2> SUFFICES ASSUME k + 1 <= n PROVE AreFrames(B(k + 1))
        OBVIOUS
    <2>1. k + 1 \in 1..n /\ (k + 1) - 1 = k /\ AreFrames(B(k))
        BY <1>1, <1>4
    <2>2. B(k + 1) = BuildNext(B(k), doc[k + 1]) /\ Follows(B(k), doc[k + 1])
        <3>1. /\ B(k + 1) = BuildNext(B((k + 1) - 1), doc[k + 1])
              /\ Follows(B((k + 1) - 1), doc[k + 1])
            BY <1>1, <1>2, <2>1
        <3> QED
            BY <2>1, <3>1
    <2> QED
        BY <2>1, <2>2, BuildNextIs
<1> HIDE DEF P
<1>5. Nat \subseteq P
    BY <1>3, <1>4, Induction
<1>6. ASSUME NEW k \in 0..n PROVE AreFrames(B(k))
    <2>1. k \in Nat /\ k <= n
        BY <1>1
    <2> QED
        BY <1>5, <2>1 DEF P
<1> QED
    BY <1>6 DEF B, n

-----------------------------------------------------------------------------
(* Lockstep.                                                               *)

\* The encoder takes the j-th of a document, after those before.
Fine(doc, j) == Writable(doc[j]) /\ Len(Building(doc)[j]) <= MaxDepth + 1
AllFine(doc, k) == \A j \in 1..k : Fine(doc, j)
AllKnown(doc, k) == \A j \in 1..k : doc[j] # PlainInt(39)

\* Encoder and decoder agree on whatever a document goes on with.
LEMMA JointNext ==
    ASSUME NEW e, NEW buf \in Seq(Int), NEW es, NEW ds, NEW bf, AreFrames(bf),
           Len(bf) <= MaxDepth + 1, Enc(e, buf, es, Len(bf) - 1), InStep(es, ds),
           NEW v, Follows(bf, v), Writable(v), Len(BuildNext(bf, v)) <= MaxDepth + 1
    PROVE  Joint(e, buf, ds, bf, v)
<1>1. CASE v \in Atom /\ Last(bf).left > 0
    BY <1>1, JointAtom
<1>2. CASE v \in Opening /\ Waits(Last(bf))
    <2>1. Len(BuildNext(bf, v)) = Len(bf) + 1 /\ Len(bf) \in Nat
        BY <1>2, BuildNextIs, LastIs
    <2>2. Len(bf) <= MaxDepth
        BY <2>1, LimitsAre
    <2> QED
        BY <1>2, <2>2, JointOpening
<1>3. CASE Len(bf) > 1 /\ Last(bf).left = 0 /\ v = End(Last(bf).of)
    BY <1>3, JointEnd
<1> QED
    BY <1>1, <1>2, <1>3, FollowsCases

\* The encoder raises at what is too large or nested too deeply.
LEMMA RefusesNext ==
    ASSUME NEW e, NEW buf, NEW es, NEW bf, AreFrames(bf),
           Len(bf) <= MaxDepth + 1, Enc(e, buf, es, Len(bf) - 1),
           NEW v, Follows(bf, v),
           ~(Writable(v) /\ Len(BuildNext(bf, v)) <= MaxDepth + 1)
    PROVE  ~EncodeNext(e, v).ok
<1>1. CASE ~Writable(v)
    <2>1. v \notin Opening
        <3>1. v.kind \in {"int"} \cup IntKinds \cup DOMAIN Short
            BY <1>1, NotWritable
        <3> QED
            BY <3>1, OpeningIs, ShortAre DEF IntKinds
    <2>2. v # End(Last(bf).of)
        <3>1. v.kind \in {"int"} \cup IntKinds \cup DOMAIN Short
            BY <1>1, NotWritable
        <3>2. End(Last(bf).of).kind = "end"
            BY DEF End
        <3> QED
            BY <3>1, <3>2, ShortAre DEF IntKinds
    <2>3. v \in Atom
        BY <2>1, <2>2, FollowsCases
    <2> QED
        BY <1>1, <2>3, RefusesAtom
<1>2. CASE ~(Len(BuildNext(bf, v)) <= MaxDepth + 1)
    <2> DEFINE m == Len(BuildNext(bf, v))
               n == Len(bf)
    <2>1. m \in Nat /\ n \in Nat /\ (v \in Opening => m = n + 1) /\ (v \notin Opening => m <= n)
        BY BuildNextIs, LastIs
    <2>2. n <= MaxDepth + 1 /\ ~(m <= MaxDepth + 1)
        BY <1>2
    <2> HIDE DEF m, n
    <2>3. v \in Opening /\ n - 1 = MaxDepth
        BY <2>1, <2>2, LimitsAre
    <2> QED
        BY <2>3, RefusesOpening DEF n
<1> QED
    BY <1>1, <1>2

\* The decoder after k, of data that goes on or ends too early.
Decoded(doc, k, buf, ds) ==
    \A data \in Seq(Int) :
        Agree(data, 0, buf) /\ k <= 2 * Len(data) + 1 =>
            IF Len(buf) <= Len(data) /\ AllKnown(doc, k)
            THEN Matches(Decoding(data)[k], Len(buf), ds, Building(doc)[k])
            ELSE ~Decoding(data)[k].ok

\* What was written before stays.
BytesStay(doc, k, buf) ==
    \A j \in 0..k : \A data \in Seq(Int) :
        Agree(data, 0, buf) => Agree(data, 0, Encoding(doc, NewEncoder)[j].buf)

\* The encoder has written all k, and a decoder of that is where the document is.
Written(doc, k) ==
    \E buf \in Seq(Int) : \E es, ds :
        /\ Enc(Encoding(doc, NewEncoder)[k], buf, es, Len(Building(doc)[k]) - 1)
        /\ InStep(es, ds)
        /\ k + Len(Building(doc)[k]) - 1 <= 2 * Len(buf)
        /\ Len(Building(doc)[k]) <= MaxDepth + 1
        /\ Decoded(doc, k, buf, ds) /\ BytesStay(doc, k, buf)

\* It has, or has raised at one of them.
Lockstep(doc, k) ==
    IF AllFine(doc, k) THEN Written(doc, k)
    ELSE ~Encoding(doc, NewEncoder)[k].ok

\* Encoder and decoder are in lockstep before the first value.
LEMMA FirstLockstep ==
    ASSUME NEW doc, IsBegun(doc)
    PROVE  Lockstep(doc, 0)
<1> DEFINE bf == <<Frame(Whole)>>
           df == <<[kind |-> "array", left |-> 1, values |-> <<>>]>>
<1>1. Building(doc)[0] = bf /\ Encoding(doc, NewEncoder)[0] = NewEncoder
    BY BuildingIs, EncodingIs DEF IsBegun
<1>2. AreFrames(bf) /\ Len(bf) = 1 /\ bf[1] = Frame(Whole)
    BY FirstFrames
<1>3. ~Complete(bf)
    <2>1. bf[1].left = 1
        BY <1>2, FrameIs, WholeIs
    <2> QED
        BY <2>1 DEF Complete
<1>4. Enc(NewEncoder, <<>>, <<>>, 0)
    BY DEF NewEncoder, Enc
<1>5. InStep(<<>>, <<>>)
    <2>1. IsList(<<>>) /\ Len(<<>>) = 0
        BY SeqList, EmptySeq
    <2> QED
        BY <2>1 DEF InStep
<1>6. Mirrored(df, bf)
    <2> DEFINE f == [kind |-> "array", left |-> 1, values |-> <<>>]
    <2>1. Mirrors(f, Frame(Whole))
        <3>1. /\ Frame(Whole).of = Whole /\ Frame(Whole).kind = "array"
              /\ Frame(Whole).left = 1 /\ Frame(Whole).values = <<>>
            BY FrameIs, WholeIs
        <3> QED
            BY <3>1, WholeIs DEF Mirrors
    <2> HIDE DEF f
    <2>2. <<f>> \in Seq({f}) /\ Len(<<f>>) = 1 /\ <<f>>[1] = f
        OBVIOUS
    <2>3. IsList(<<f>>)
        BY <2>2, SeqList
    <2>4. Mirrored(<<f>>, bf)
        BY <1>2, <2>1, <2>2, <2>3 DEF Mirrored
    <2> QED
        BY <2>4 DEF f
<1>7. At(NewDecoder, 0, <<>>, Terminator, df)
    BY DEF NewDecoder, At
<1> HIDE DEF bf, df
<1>8. Matches(NewDecoder, 0, <<>>, bf)
    BY <1>3, <1>6, <1>7 DEF Matches
<1>9. Decoded(doc, 0, <<>>, <<>>)
    <2>1. ASSUME NEW data \in Seq(Int)
          PROVE  IF Len(<<>>) <= Len(data) /\ AllKnown(doc, 0)
                 THEN Matches(Decoding(data)[0], Len(<<>>), <<>>, Building(doc)[0])
                 ELSE ~Decoding(data)[0].ok
        <3>1. 2 * Len(data) + 1 \in Nat /\ Len(<<>>) = 0 /\ Len(data) \in Nat
            OBVIOUS
        <3>2. Decoding(data)[0] = NewDecoder
            BY <3>1, DecodingIs
        <3>3. AllKnown(doc, 0)
            BY DEF AllKnown
        <3> QED
            BY <1>1, <1>8, <3>1, <3>2, <3>3
    <2> QED
        BY <2>1 DEF Decoded
<1>10. BytesStay(doc, 0, <<>>)
    <2>1. NewEncoder.buf = <<>>
        BY DEF NewEncoder
    <2> QED
        BY <1>1, <2>1 DEF BytesStay
<1>11. AllFine(doc, 0)
    BY DEF AllFine
<1>12. <<>> \in Seq(Int) /\ Len(<<>>) = 0
    OBVIOUS
<1>13. Written(doc, 0)
    <2>1. Len(bf) - 1 = 0 /\ 0 + Len(bf) - 1 <= 2 * Len(<<>>) /\ Len(bf) <= MaxDepth + 1
        BY <1>2, <1>12, LimitsAre DEF bf
    <2> QED
        BY <1>1, <1>4, <1>5, <1>9, <1>10, <1>12, <2>1 DEF Written
<1> QED
    BY <1>11, <1>13 DEF Lockstep

\* The decoder stays where it has failed.
LEMMA StaysFailed ==
    ASSUME NEW data, NEW d, ~d.ok
    PROVE  ~DecodeNext(data, d).ok
BY DEF DecodeNext, Stopped

\* The decoder gets from where one value ends to where the next does.
LEMMA NextDecoded ==
    ASSUME NEW doc, NEW k \in Nat, NEW buf \in Seq(Int), NEW bytes \in Seq(Int),
           NEW ds, NEW ds2, Decoded(doc, k, buf, ds),
           Building(doc)[k + 1] = BuildNext(Building(doc)[k], doc[k + 1]),
           ReadsOn(Len(buf), bytes, ds, ds2, Building(doc)[k],
                 BuildNext(Building(doc)[k], doc[k + 1]), doc[k + 1])
    PROVE  Decoded(doc, k + 1, buf \o bytes, ds2)
<1> DEFINE buf2 == buf \o bytes
           bg == Building(doc)[k + 1]
           l == Len(buf)
           l2 == Len(buf2)
           v == doc[k + 1]
<1>1. l \in Nat /\ Len(bytes) \in Nat /\ l2 = l + Len(bytes)
    BY ConcatProperties
<1>2. AllKnown(doc, k + 1) <=> AllKnown(doc, k) /\ v # PlainInt(39)
    <2>1. k + 1 \in 1..k + 1 /\ \A j \in 1..k + 1 : j \in 1..k \/ j = k + 1
        OBVIOUS
    <2>2. \A j \in 1..k : j \in 1..k + 1
        OBVIOUS
    <2> QED
        BY <2>1, <2>2 DEF AllKnown
<1> SUFFICES ASSUME NEW data \in Seq(Int), Agree(data, 0, buf2),
                    k + 1 <= 2 * Len(data) + 1
             PROVE  IF l2 <= Len(data) /\ AllKnown(doc, k + 1)
                    THEN Matches(Decoding(data)[k + 1], l2, ds2, bg)
                    ELSE ~Decoding(data)[k + 1].ok
    BY DEF Decoded
<1>3. Len(data) \in Nat /\ 2 * Len(data) + 1 \in Nat
    OBVIOUS
<1>4. Agree(data, 0, buf) /\ Agree(data, l, bytes)
    <2>1. Agree(data, 0, buf) /\ Agree(data, 0 + Len(buf), bytes)
        BY AgreeConcat
    <2> QED
        BY <1>1, <2>1
<1>5. k <= 2 * Len(data) + 1
    BY <1>3
<1> DEFINE d == Decoding(data)[k]
<1>6. Decoding(data)[k + 1] = DecodeNext(data, d)
    <2> DEFINE N == 2 * Len(data) + 1
    <2>1. N \in Nat /\ k + 1 <= N
        BY <1>3
    <2> HIDE DEF N
    <2>2. k + 1 \in 1..N /\ (k + 1) - 1 = k
        BY <2>1
    <2>3. Decoding(data)[k + 1] = DecodeNext(data, Decoding(data)[(k + 1) - 1])
        BY <1>3, <2>2, DecodingIs DEF N
    <2> QED
        BY <2>2, <2>3
<1>7. IF l <= Len(data) /\ AllKnown(doc, k)
      THEN Matches(d, l, ds, Building(doc)[k]) ELSE ~d.ok
    BY <1>4, <1>5 DEF Decoded
<1> HIDE DEF buf2, bg, l, l2, v, d
<1>8. CASE l <= Len(data) /\ AllKnown(doc, k)
    <2>1. IF l + Len(bytes) <= Len(data) /\ v # PlainInt(39)
          THEN Matches(DecodeNext(data, d), l + Len(bytes), ds2, bg)
          ELSE ~DecodeNext(data, d).ok
        BY <1>4, <1>7, <1>8 DEF ReadsOn, l, v, bg
    <2> QED
        BY <1>1, <1>2, <1>6, <1>8, <2>1
<1>9. CASE ~(l <= Len(data) /\ AllKnown(doc, k))
    <2>1. ~DecodeNext(data, d).ok
        BY <1>7, <1>9, StaysFailed
    <2>2. ~(l2 <= Len(data) /\ AllKnown(doc, k + 1))
        BY <1>1, <1>2, <1>3, <1>9
    <2> QED
        BY <1>6, <2>1, <2>2
<1> QED
    BY <1>8, <1>9

\* What was written stays when more is.
LEMMA NextBytesStay ==
    ASSUME NEW doc, NEW k \in Nat, NEW buf \in Seq(Int), NEW bytes \in Seq(Int),
           BytesStay(doc, k, buf),
           Encoding(doc, NewEncoder)[k + 1].buf = buf \o bytes
    PROVE  BytesStay(doc, k + 1, buf \o bytes)
<1> SUFFICES ASSUME NEW j \in 0..k + 1, NEW data \in Seq(Int),
                    Agree(data, 0, buf \o bytes)
             PROVE  Agree(data, 0, Encoding(doc, NewEncoder)[j].buf)
    BY DEF BytesStay
<1>1. Agree(data, 0, buf)
    BY AgreeConcat
<1>2. CASE j = k + 1
    BY <1>2
<1>3. CASE j \in 0..k
    BY <1>1, <1>3 DEF BytesStay
<1> QED
    BY <1>2, <1>3

\* Encoder and decoder stay in lockstep at the next value of a document.
LEMMA NextLockstep ==
    ASSUME NEW doc, IsBegun(doc), NEW k \in Nat, k + 1 <= Len(doc), Lockstep(doc, k)
    PROVE  Lockstep(doc, k + 1)
<1> DEFINE bf == Building(doc)[k]
           e == Encoding(doc, NewEncoder)[k]
           v == doc[k + 1]
           bg == Building(doc)[k + 1]
           e2 == Encoding(doc, NewEncoder)[k + 1]
<1>1. Len(doc) \in Nat /\ k + 1 \in 1..Len(doc) /\ (k + 1) - 1 = k /\ k \in 0..Len(doc)
    BY DEF IsBegun
<1>2. bg = BuildNext(bf, v) /\ e2 = EncodeNext(e, v)
    <2>1. /\ bg = BuildNext(Building(doc)[(k + 1) - 1], v)
          /\ e2 = EncodeNext(Encoding(doc, NewEncoder)[(k + 1) - 1], v)
        BY <1>1, BuildingIs, EncodingIs
    <2> QED
        BY <1>1, <2>1
<1>3. Follows(bf, v) /\ AreFrames(bf)
    <2>1. Follows(Building(doc)[(k + 1) - 1], v)
        BY <1>1 DEF IsBegun
    <2> QED
        BY <1>1, <2>1, FramesOf
<1>4. Len(bf) \in Nat /\ Len(bg) \in Nat /\ AreFrames(bg)
    BY <1>2, <1>3, LastIs, BuildNextIs
<1>5. AllFine(doc, k + 1) <=>
          AllFine(doc, k) /\ Writable(v) /\ Len(bg) <= MaxDepth + 1
    <2>1. k + 1 \in 1..k + 1 /\ \A j \in 1..k + 1 : j \in 1..k \/ j = k + 1
        OBVIOUS
    <2>2. \A j \in 1..k : j \in 1..k + 1
        OBVIOUS
    <2> QED
        BY <2>1, <2>2 DEF AllFine, Fine
<1> HIDE DEF bf, e, v, bg, e2
<1>6. CASE ~AllFine(doc, k)
    <2>1. ~e.ok
        BY <1>6 DEF Lockstep, e
    <2>2. e2 = e
        BY <1>2, <2>1 DEF EncodeNext
    <2> QED
        BY <1>5, <1>6, <2>1, <2>2 DEF Lockstep, e2
<1>7. CASE AllFine(doc, k)
    <2>1. Written(doc, k)
        BY <1>7 DEF Lockstep
    <2>2. PICK buf, es, ds :
              /\ buf \in Seq(Int) /\ Enc(e, buf, es, Len(bf) - 1) /\ InStep(es, ds)
              /\ k + Len(bf) - 1 <= 2 * Len(buf)
              /\ Len(bf) <= MaxDepth + 1
              /\ Decoded(doc, k, buf, ds) /\ BytesStay(doc, k, buf)
        BY <2>1 DEF Written, e, bf
    <2>3. CASE ~(Writable(v) /\ Len(bg) <= MaxDepth + 1)
        <3>1. ~e2.ok
            BY <1>2, <1>3, <2>2, <2>3, RefusesNext
        <3> QED
            BY <1>5, <2>3, <3>1 DEF Lockstep, e2
    <2>4. CASE Writable(v) /\ Len(bg) <= MaxDepth + 1
        <3>1. Joint(e, buf, ds, bf, v)
            BY <1>2, <1>3, <2>2, <2>4, JointNext
        <3>2. PICK bytes, es2, ds2 :
                  /\ bytes \in Seq(Int) /\ Enc(e2, buf \o bytes, es2, Len(bg) - 1)
                  /\ InStep(es2, ds2)
                  /\ Len(bg) + 1 <= Len(bf) + 2 * Len(bytes)
                  /\ ReadsOn(Len(buf), bytes, ds, ds2, bf, BuildNext(bf, v), v)
            BY <1>2, <3>1 DEF Joint
        <3> DEFINE buf2 == buf \o bytes
        <3>3. buf2 \in Seq(Int) /\ Len(buf2) = Len(buf) + Len(bytes)
            BY <2>2, <3>2, ConcatProperties
        <3>4. Decoded(doc, k + 1, buf2, ds2)
            BY <1>2, <2>2, <3>2, NextDecoded DEF bf, v, bg
        <3>5. BytesStay(doc, k + 1, buf2)
            <4>1. e2.buf = buf2
                BY <3>2 DEF Enc
            <4> QED
                BY <2>2, <3>2, <4>1, NextBytesStay DEF e2
        <3> HIDE DEF buf2
        <3>6. (k + 1) + Len(bg) - 1 <= 2 * Len(buf2)
            <4> DEFINE a == Len(bf)
                       b == Len(bg)
                       l == Len(buf)
                       m == Len(bytes)
            <4>1. a \in Nat /\ b \in Nat /\ l \in Nat /\ m \in Nat
                BY <1>4, <2>2, <3>2
            <4>2. k + a - 1 <= 2 * l /\ b + 1 <= a + 2 * m
                BY <2>2, <3>2
            <4> HIDE DEF a, b, l, m
            <4>3. (k + 1) + b - 1 <= 2 * (l + m)
                BY <4>1, <4>2
            <4> QED
                BY <3>3, <4>3 DEF b, l, m
        <3>7. Enc(e2, buf2, es2, Len(bg) - 1) /\ InStep(es2, ds2)
            BY <3>2 DEF buf2
        <3>8. Written(doc, k + 1)
            BY <2>4, <3>3, <3>4, <3>5, <3>6, <3>7 DEF Written, e2, bg
        <3> QED
            BY <1>5, <1>7, <2>4, <3>8 DEF Lockstep
    <2> QED
        BY <2>3, <2>4
<1> QED
    BY <1>6, <1>7

\* So they are in lockstep after each value of a document.
LEMMA LockstepIs ==
    ASSUME NEW doc, IsBegun(doc), NEW k \in 0..Len(doc)
    PROVE  Lockstep(doc, k)
<1> DEFINE n == Len(doc)
           P == {m \in Nat : m <= n => Lockstep(doc, m)}
<1>1. n \in Nat
    BY DEF IsBegun
<1> HIDE DEF n
<1>2. 0 \in P
    BY FirstLockstep
<1>3. ASSUME NEW m \in Nat, m \in P PROVE m + 1 \in P
    <2> SUFFICES ASSUME m + 1 <= n PROVE Lockstep(doc, m + 1)
        OBVIOUS
    <2>1. Lockstep(doc, m)
        BY <1>1, <1>3
    <2> QED
        BY <2>1, NextLockstep DEF n
<1> HIDE DEF P
<1>4. Nat \subseteq P
    BY <1>2, <1>3, Induction
<1>5. k \in Nat /\ k <= n
    BY <1>1 DEF n
<1> QED
    BY <1>4, <1>5 DEF P

-----------------------------------------------------------------------------
(* The whole of a document.                                                *)

\* A decoder is one even where it has failed.
IsDecoder(d) == DOMAIN d = {"ok", "i", "seen", "value", "frames"}

\* What the parts of a call do to a decoder leaves it one.
LEMMA DecoderSteps ==
    ASSUME NEW d, IsDecoder(d)
    PROVE  /\ IsDecoder(Fail(d)) /\ Fail(d).ok = FALSE
           /\ \A v : IsDecoder(Answer(d, v)) /\ IsDecoder(Seen(d, v))
           /\ \A data, count : IsDecoder(Take(data, d, count))
           /\ \A j : IsDecoder([d EXCEPT !.i = j])
           /\ \A f : IsDecoder([d EXCEPT !.frames = f])
           /\ \A f, v : IsDecoder([d EXCEPT !.frames = f, !.value = v])
<1>1. IsDecoder(Fail(d)) /\ Fail(d).ok = FALSE
    BY DEF IsDecoder, Fail
<1>2. ASSUME NEW v PROVE IsDecoder(Answer(d, v)) /\ IsDecoder(Seen(d, v))
    BY DEF IsDecoder, Answer, Seen
<1>3. ASSUME NEW data, NEW count PROVE IsDecoder(Take(data, d, count))
    <2> DEFINE s == SubSeq(data, d.i + 1, d.i + count)
    <2>1. IsDecoder([d EXCEPT !.i = @ + count, !.value = s])
        BY DEF IsDecoder
    <2> QED
        BY <1>1, <2>1 DEF Take
<1>4. ASSUME NEW j PROVE IsDecoder([d EXCEPT !.i = j])
    BY DEF IsDecoder
<1>5. ASSUME NEW f PROVE IsDecoder([d EXCEPT !.frames = f])
    BY DEF IsDecoder
<1>6. ASSUME NEW f, NEW v PROVE IsDecoder([d EXCEPT !.frames = f, !.value = v])
    BY DEF IsDecoder
<1> QED
    BY <1>1, <1>2, <1>3, <1>4, <1>5, <1>6

\* So does an atom, known or not.
LEMMA DecoderAtom ==
    ASSUME NEW data, NEW d, IsDecoder(d), NEW tag
    PROVE  IsDecoder(DecodeAtom(data, d, tag))
<1>1. ASSUME NEW kind PROVE IsDecoder(DecodeFixed(data, d, kind))
    <2> DEFINE taken == Take(data, d, Fixed[kind].width)
               v == IF kind \in IntKinds THEN PlainInt(Signed(taken.value))
                    ELSE FixedValue(kind, taken.value)
    <2>1. IsDecoder(taken)
        BY DecoderSteps
    <2>2. DecodeFixed(data, d, kind) = IF ~taken.ok THEN taken ELSE Seen(taken, v)
        BY DEF DecodeFixed
    <2> HIDE DEF taken, v
    <2> QED
        BY <2>1, <2>2, DecoderSteps
<1>2. ASSUME NEW kind, NEW offset PROVE IsDecoder(DecodeBytes(data, d, kind, offset))
    <2> DEFINE length == Take(data, d, Widths[offset - MaxShort])
               taken == IF offset <= MaxShort THEN Take(data, d, offset)
                        ELSE IF length.ok
                             THEN Take(data, length, Unsigned(length.value))
                        ELSE length
    <2>1. IsDecoder(length)
        BY DecoderSteps
    <2>2. DecodeBytes(data, d, kind, offset) =
            IF ~taken.ok THEN taken ELSE Seen(taken, PlainBytes(kind, taken.value))
        BY DEF DecodeBytes
    <2> HIDE DEF length
    <2>3. IsDecoder(taken)
        BY <2>1, DecoderSteps
    <2> HIDE DEF taken
    <2> QED
        BY <2>2, <2>3, DecoderSteps
<1>3. ASSUME NEW kind PROVE IsDecoder(DecodeTerminated(data, d, kind))
    <2> DEFINE ends == {j \in d.i + 1..Len(data) : data[j] = Short[kind].by}
               end == CHOOSE j \in ends : \A k \in ends : j <= k
               g == [d EXCEPT !.i = end]
               v == PlainBytes(kind, SubSeq(data, d.i + 1, end - 1))
    <2>1. DecodeTerminated(data, d, kind) = IF ends = {} THEN Fail(d) ELSE Seen(g, v)
        BY DEF DecodeTerminated
    <2> HIDE DEF ends, end, v
    <2>2. IsDecoder(g)
        BY DecoderSteps
    <2> HIDE DEF g
    <2> QED
        BY <2>1, <2>2, DecoderSteps
<1>4. ASSUME NEW index PROVE IsDecoder(DecodeReference(d, index))
    BY DecoderSteps DEF DecodeReference
<1> DEFINE r == DecodeAtom(data, d, tag)
<1>5. \/ \E v : r = Answer(d, v) \/ r = Seen(d, v)
      \/ \E kind : r = DecodeFixed(data, d, kind)
      \/ \E kind, offset : r = DecodeBytes(data, d, kind, offset)
      \/ \E kind : r = DecodeTerminated(data, d, kind)
      \/ \E index : r = DecodeReference(d, index)
      \/ r = Fail(d)
    BY DEF DecodeAtom
<1> HIDE DEF r
<1>6. IsDecoder(r)
    BY <1>1, <1>2, <1>3, <1>4, <1>5, DecoderSteps
<1> QED
    BY <1>6 DEF r

\* So does a call.
LEMMA DecoderNext ==
    ASSUME NEW data, NEW d, IsDecoder(d)
    PROVE  IsDecoder(DecodeNext(data, d))
<1>1. ASSUME NEW g, IsDecoder(g) PROVE IsDecoder(Deliver(g))
    <2>1. IsDecoder([g EXCEPT !.frames = Receive(g.frames, g.value)])
        BY <1>1, DecoderSteps
    <2> QED
        BY <1>1, <2>1, DecoderSteps DEF Deliver
<1>2. ASSUME NEW g, IsDecoder(g) PROVE IsDecoder(Close(g))
    <2> DEFINE m == MakeContainer(Last(g.frames).kind, Last(g.frames).values)
               h == [g EXCEPT !.frames = Front(g.frames), !.value = m]
    <2>1. IsDecoder(h)
        BY <1>2, DecoderSteps
    <2>2. Close(g) = Deliver(h)
        BY DEF Close
    <2> HIDE DEF h
    <2> QED
        BY <1>1, <2>1, <2>2
<1>3. ASSUME NEW g, IsDecoder(g) PROVE IsDecoder(DeliverAtom(g))
    BY <1>1, <1>2, <1>3 DEF DeliverAtom
<1>4. IsDecoder(DecodeValue(data, d))
    <2> DEFINE taken == Take(data, d, 1)
               tag == taken.value[1]
    <2>1. IsDecoder(taken)
        BY DecoderSteps
    <2>2. \/ DecodeValue(data, d) = Fail(d)
          \/ DecodeValue(data, d) = DeliverAtom(DecodeAtom(data, taken, tag))
          \/ DecodeValue(data, d) = DecodeOpening(taken, The(ContainerOf(tag)), tag)
        BY DEF DecodeValue
    <2> HIDE DEF taken, tag
    <2>3. IsDecoder(DeliverAtom(DecodeAtom(data, taken, tag)))
        BY <1>3, <2>1, DecoderAtom
    <2>4. ASSUME NEW kind PROVE IsDecoder(DecodeOpening(taken, kind, tag))
        <3> DEFINE f == [kind |-> kind, values |-> <<>>,
                         left |-> IF tag = Container[kind].open THEN -1
                                  ELSE (tag - Container[kind].tag)
                                       * Container[kind].values]
        <3> DEFINE frames == Append(taken.frames, f)
                   g == [taken EXCEPT !.frames = frames]
        <3>1. DecodeOpening(taken, kind, tag) = g
            BY DEF DecodeOpening
        <3> HIDE DEF frames
        <3>2. IsDecoder(g)
            BY <2>1, DecoderSteps
        <3> HIDE DEF g
        <3> QED
            BY <3>1, <3>2
    <2> QED
        BY <2>2, <2>3, <2>4, DecoderSteps
<1> QED
    BY <1>2, <1>4 DEF DecodeNext

\* So it is one after any number of calls, whatever the data is.
LEMMA DecodersAre ==
    ASSUME NEW data \in Seq(Int), NEW k \in 0..2 * Len(data) + 1
    PROVE  IsDecoder(Decoding(data)[k])
<1> DEFINE N == 2 * Len(data) + 1
           D(m) == Decoding(data)[m]
           P == {m \in Nat : m <= N => IsDecoder(D(m))}
<1>1. N \in Nat /\ D(0) = NewDecoder /\ \A m \in 1..N : D(m) = DecodeNext(data, D(m - 1))
    <2>1. N \in Nat
        OBVIOUS
    <2> QED
        BY <2>1, DecodingIs
<1>2. k \in Nat /\ k <= N
    OBVIOUS
<1> HIDE DEF N, D
<1>3. 0 \in P
    BY <1>1 DEF NewDecoder, IsDecoder
<1>4. ASSUME NEW m \in Nat, m \in P PROVE m + 1 \in P
    <2> SUFFICES ASSUME m + 1 <= N PROVE IsDecoder(D(m + 1))
        OBVIOUS
    <2>1. m + 1 \in 1..N /\ (m + 1) - 1 = m /\ m <= N
        BY <1>1
    <2>2. D(m + 1) = DecodeNext(data, D((m + 1) - 1))
        BY <1>1, <2>1
    <2>3. IsDecoder(D(m))
        BY <1>4, <2>1
    <2> QED
        BY <2>1, <2>2, <2>3, DecoderNext
<1> HIDE DEF P
<1>5. Nat \subseteq P
    BY <1>3, <1>4, Induction
<1>6. IsDecoder(D(k))
    BY <1>2, <1>5 DEF P
<1> QED
    BY <1>6 DEF D

\* Once the decoder has stopped, nothing changes.
LEMMA StaysStopped ==
    ASSUME NEW data \in Seq(Int), NEW k \in 0..2 * Len(data) + 1,
           Stopped(Decoding(data)[k])
    PROVE  \A m \in k..2 * Len(data) + 1 : Decoding(data)[m] = Decoding(data)[k]
<1> DEFINE N == 2 * Len(data) + 1
           D(m) == Decoding(data)[m]
           P == {m \in Nat : k + m <= N => D(k + m) = D(k)}
<1>1. N \in Nat /\ \A m \in 1..N : D(m) = DecodeNext(data, D(m - 1))
    <2>1. N \in Nat
        OBVIOUS
    <2> QED
        BY <2>1, DecodingIs
<1>2. k \in Nat /\ Stopped(D(k))
    OBVIOUS
<1>3. DecodeNext(data, D(k)) = D(k)
    BY <1>2 DEF DecodeNext
<1> HIDE DEF N, D
<1>4. 0 \in P
    BY <1>2
<1>5. ASSUME NEW m \in Nat, m \in P PROVE m + 1 \in P
    <2> SUFFICES ASSUME k + (m + 1) <= N PROVE D(k + (m + 1)) = D(k)
        OBVIOUS
    <2>1. k + (m + 1) \in 1..N /\ (k + (m + 1)) - 1 = k + m /\ k + m <= N
        BY <1>1, <1>2
    <2>2. D(k + (m + 1)) = DecodeNext(data, D((k + (m + 1)) - 1))
        BY <1>1, <2>1
    <2>3. D(k + m) = D(k)
        BY <1>5, <2>1
    <2> QED
        BY <1>3, <2>1, <2>2, <2>3
<1> HIDE DEF P
<1>6. Nat \subseteq P
    BY <1>4, <1>5, Induction
<1>7. ASSUME NEW m \in k..N PROVE D(m) = D(k)
    <2>1. m - k \in Nat /\ k + (m - k) = m /\ m <= N
        BY <1>1, <1>2
    <2>2. k + (m - k) <= N => D(k + (m - k)) = D(k)
        BY <1>6, <2>1 DEF P
    <2> QED
        BY <2>1, <2>2
<1> QED
    BY <1>7 DEF N, D

\* What HdsDecode takes for its result is what any stop of the decoder says.
LEMMA StopIs ==
    ASSUME NEW data \in Seq(Int), NEW k \in 0..2 * Len(data) + 1,
           NEW d, d = Decoding(data)[k], Stopped(d)
    PROVE  HdsDecode(data) =
             IF ~d.ok \/ d.value = Terminator \/ d.i # Len(data) THEN Fail(d) ELSE d
<1> DEFINE N == 2 * Len(data) + 1
           D(m) == Decoding(data)[m]
           stop == CHOOSE m \in 0..N : Stopped(D(m))
<1>1. N \in Nat /\ k \in 0..N
    OBVIOUS
<1>2. stop \in 0..N /\ Stopped(D(stop))
    <2>1. \E m \in 0..N : Stopped(D(m))
        BY <1>1
    <2> HIDE DEF N, D
    <2> QED
        BY <2>1
<1>3. HdsDecode(data) =
        IF ~D(stop).ok \/ D(stop).value = Terminator \/ D(stop).i # Len(data)
        THEN Fail(D(stop)) ELSE D(stop)
    BY DEF HdsDecode
<1> HIDE DEF stop
<1>4. D(stop) = d
    <2>1. CASE stop <= k
        <3>1. k \in stop..N
            BY <1>1, <1>2, <2>1
        <3> QED
            BY <1>2, <3>1, StaysStopped
    <2>2. CASE ~(stop <= k)
        <3>1. stop \in k..N
            BY <1>1, <1>2, <2>2
        <3> QED
            BY <1>1, <3>1, StaysStopped
    <2> QED
        BY <2>1, <2>2
<1> QED
    BY <1>3, <1>4

\* A document as a list of its own.
IsWholeDocument(doc) ==
    IsBegun(doc) /\ Complete(Building(doc)[Len(doc)])

\* A document that the encoder takes is read back from its bytes, and from
\* nothing that only begins with them, or with which they begin.
LEMMA DocumentDecoded ==
    ASSUME NEW doc, IsWholeDocument(doc), AllFine(doc, Len(doc))
    PROVE  \E buf \in Seq(Int) :
              /\ HdsEncode(doc).ok = TRUE /\ HdsEncode(doc).buf = buf
              /\ \A data \in Seq(Int) : Agree(data, 0, buf) =>
                    IF Len(data) = Len(buf) /\ AllKnown(doc, Len(doc))
                    THEN HdsDecode(data).ok = TRUE /\ HdsDecode(data).value = Plain(doc)
                    ELSE HdsDecode(data).ok = FALSE
<1> DEFINE n == Len(doc)
           bf == Building(doc)[n]
<1>1. n \in Nat /\ IsBegun(doc) /\ Complete(bf)
    BY DEF IsWholeDocument, IsBegun
<1>2. Len(bf) = 1 /\ bf[1].left = 0
    BY <1>1 DEF Complete
<1>3. Written(doc, n)
    <2>1. n \in 0..Len(doc)
        BY <1>1
    <2>2. Lockstep(doc, n)
        BY <1>1, <2>1, LockstepIs
    <2> QED
        BY <2>2 DEF Lockstep
<1>4. PICK buf, es, ds :
          /\ buf \in Seq(Int) /\ Enc(Encoding(doc, NewEncoder)[n], buf, es, Len(bf) - 1)
          /\ n + Len(bf) - 1 <= 2 * Len(buf)
          /\ Decoded(doc, n, buf, ds) /\ BytesStay(doc, n, buf)
    BY <1>3 DEF Written
<1>5. HdsEncode(doc).ok = TRUE /\ HdsEncode(doc).buf = buf
    BY <1>4 DEF HdsEncode, Enc
<1>6. n <= 2 * Len(buf)
    <2> DEFINE l == Len(buf)
    <2>1. l \in Nat /\ n + 1 - 1 <= 2 * l
        BY <1>2, <1>4
    <2> HIDE DEF l, n
    <2>2. n <= 2 * l
        BY <1>1, <2>1
    <2> QED
        BY <2>2 DEF l
<1> HIDE DEF bf, n
<1>7. ASSUME NEW data \in Seq(Int), Agree(data, 0, buf)
      PROVE  IF Len(data) = Len(buf) /\ AllKnown(doc, n)
             THEN HdsDecode(data).ok = TRUE /\ HdsDecode(data).value = Plain(doc)
             ELSE HdsDecode(data).ok = FALSE
    <2> DEFINE N == 2 * Len(data) + 1
    <2>1. N \in Nat /\ Len(data) \in Nat /\ Len(buf) \in Nat
        BY <1>4
    <2>2. CASE n <= N
        <3> DEFINE d == Decoding(data)[n]
        <3>1. n \in 0..2 * Len(data) + 1
            BY <1>1, <2>1, <2>2
        <3>2. IF Len(buf) <= Len(data) /\ AllKnown(doc, n)
              THEN Matches(d, Len(buf), ds, bf) ELSE ~d.ok
            BY <1>4, <1>7, <2>2 DEF Decoded, bf
        <3> HIDE DEF d
        <3>3. CASE Len(buf) <= Len(data) /\ AllKnown(doc, n)
            <4>1. PICK value, df :
                      /\ At(d, Len(buf), ds, value, df) /\ Mirrored(df, bf)
                      /\ value = bf[1].values[1] /\ value # Terminator
                BY <1>1, <3>2, <3>3 DEF Matches, bf
            <4>2. Stopped(d)
                <5>1. AreFrames(bf)
                    <6>1. n \in 0..Len(doc)
                        BY <1>1 DEF n
                    <6> QED
                        BY <1>1, <6>1, FramesOf DEF bf
                <5>2. Len(df) = 1 /\ Mirrors(df[1], bf[1]) /\ bf[1].of = Whole
                    BY <1>2, <4>1, <5>1 DEF Mirrored, AreFrames, bf
                <5>3. df[1].left = 0
                    BY <1>2, <5>2, WholeIs DEF Mirrors, bf
                <5> QED
                    BY <4>1, <5>2, <5>3 DEF At, Stopped, Complete
            <4>3. /\ d.ok = TRUE /\ d.value # Terminator /\ d.i = Len(buf)
                  /\ d.value = Plain(doc)
                BY <4>1 DEF At, Plain, bf, n
            <4>4. HdsDecode(data) = IF Len(buf) # Len(data) THEN Fail(d) ELSE d
                BY <3>1, <4>2, <4>3, StopIs DEF d
            <4>5. Fail(d).ok = FALSE
                BY <4>1 DEF Fail, At
            <4> QED
                BY <3>3, <4>3, <4>4, <4>5
        <3>4. CASE ~(Len(buf) <= Len(data) /\ AllKnown(doc, n))
            <4>1. ~d.ok
                BY <3>2, <3>4
            <4>2. HdsDecode(data) = Fail(d)
                BY <3>1, <4>1, StopIs DEF d, Stopped
            <4>3. Fail(d).ok = FALSE
                BY <3>1, DecodersAre, DecoderSteps DEF d
            <4> QED
                BY <2>1, <3>4, <4>2, <4>3
        <3> QED
            BY <3>3, <3>4
    <2>3. CASE ~(n <= N)
        <3> DEFINE d == Decoding(data)[N]
                   b == Building(doc)[N]
        <3>1. N \in 0..Len(doc) /\ N \in 0..n /\ N \in 0..2 * Len(data) + 1
            BY <1>1, <2>1, <2>3 DEF n
        <3>2. AllFine(doc, N)
            <4>1. \A j \in 1..N : j \in 1..Len(doc)
                BY <3>1
            <4> QED
                BY <4>1 DEF AllFine
        <3> HIDE DEF N, d, b
        <3>3. Written(doc, N)
            <4>1. Lockstep(doc, N)
                BY <1>1, <3>1, LockstepIs
            <4> QED
                BY <3>2, <4>1 DEF Lockstep
        <3>4. PICK before, es0, ds0 :
                  /\ before \in Seq(Int) /\ Enc(Encoding(doc, NewEncoder)[N], before, es0, Len(b) - 1)
                  /\ N + Len(b) - 1 <= 2 * Len(before)
                  /\ Decoded(doc, N, before, ds0)
            BY <3>3 DEF Written, b
        <3>5. Len(b) \in Nat /\ Len(b) >= 1
            BY <1>1, <3>1, FramesOf, LastIs DEF b
        <3>6. ~(Len(before) <= Len(data))
            <4> DEFINE l == Len(before)
                       m == Len(data)
                       x == Len(b)
            <4>1. l \in Nat /\ m \in Nat /\ x \in Nat /\ x >= 1 /\ N = 2 * m + 1
                  /\ N + x - 1 <= 2 * l
                BY <3>4, <3>5 DEF N
            <4> HIDE DEF l, m, x
            <4>2. ~(l <= m)
                BY <4>1
            <4> QED
                BY <4>2 DEF l, m
        <3>7. Agree(data, 0, before)
            BY <1>4, <1>7, <3>1, <3>4 DEF BytesStay, Enc
        <3>8. ~d.ok
            <4>1. N <= 2 * Len(data) + 1
                BY <2>1 DEF N
            <4> QED
                BY <3>4, <3>6, <3>7, <4>1 DEF Decoded, d
        <3>9. HdsDecode(data) = Fail(d)
            BY <3>1, <3>8, StopIs DEF d, Stopped
        <3>10. Fail(d).ok = FALSE
            BY <3>1, DecodersAre, DecoderSteps DEF d
        <3>11. Len(data) # Len(buf)
            <4> DEFINE l == Len(buf)
                       m == Len(data)
            <4>1. l \in Nat /\ m \in Nat /\ n <= 2 * l /\ ~(n <= 2 * m + 1)
                BY <1>6, <2>1, <2>3 DEF N
            <4> HIDE DEF l, m
            <4>2. l # m
                BY <1>1, <4>1
            <4> QED
                BY <4>2 DEF l, m
        <3> QED
            BY <3>9, <3>10, <3>11
    <2> QED
        BY <2>2, <2>3
<1> QED
    BY <1>4, <1>5, <1>7 DEF n

-----------------------------------------------------------------------------
(* Every document.                                                         *)

\* Some of the bytes agree with all of them, as far as they go.
LEMMA StrictPrefix ==
    ASSUME NEW buf \in Seq(Int), NEW n \in 0..Len(buf)
    PROVE  /\ SubSeq(buf, 1, n) \in Seq(Int) /\ Len(SubSeq(buf, 1, n)) = n
           /\ Agree(SubSeq(buf, 1, n), 0, buf)
<1> DEFINE s == SubSeq(buf, 1, n)
<1>1. Len(buf) \in Nat /\ n \in Nat /\ n <= Len(buf)
    OBVIOUS
<1>2. /\ s \in Seq(Int) /\ Len(s) = n
      /\ \A j \in 1..n : s[j] = buf[j]
    <2>1. \A j \in 1..n : j \in 1..Len(buf) /\ buf[j] \in Int
        BY <1>1, ElementOfSeq
    <2> QED
        BY <1>1, <2>1
<1> HIDE DEF s
<1>3. ASSUME NEW j \in 1..Len(buf), 0 + j <= Len(s) PROVE s[0 + j] = buf[j]
    <2>1. j \in 1..n /\ 0 + j = j
        BY <1>1, <1>2, <1>3
    <2> QED
        BY <1>2, <2>1
<1> QED
    BY <1>2, <1>3 DEF Agree, s

\* So do the bytes and one more.
LEMMA OneMore ==
    ASSUME NEW buf \in Seq(Int), NEW b \in Int
    PROVE  /\ Append(buf, b) \in Seq(Int) /\ Len(Append(buf, b)) = Len(buf) + 1
           /\ Agree(Append(buf, b), 0, buf)
<1> DEFINE s == Append(buf, b)
<1>1. /\ s \in Seq(Int) /\ Len(s) = Len(buf) + 1 /\ Len(buf) \in Nat
      /\ \A j \in 1..Len(buf) : s[j] = buf[j]
    OBVIOUS
<1> HIDE DEF s
<1>2. ASSUME NEW j \in 1..Len(buf), 0 + j <= Len(s) PROVE s[0 + j] = buf[j]
    <2>1. 0 + j = j
        BY <1>1
    <2> QED
        BY <1>1, <2>1
<1> QED
    BY <1>1, <1>2 DEF Agree, s

\* A document that the encoder takes is read back as the value it stands for,
\* whatever it is, unless 39 is in it; it is refused if any number of bytes is
\* missing, or if there is one more.  One that is nested too deeply, or has a
\* value that no length or width is for, is not written (Encoder and Decoder,
\* hds_codec.py).
THEOREM EveryDocument ==
    ASSUME NEW doc, IsWholeDocument(doc)
    PROVE  IF AllFine(doc, Len(doc))
           THEN /\ HdsEncode(doc).ok = TRUE /\ HdsEncode(doc).buf \in Seq(Int)
                /\ HdsDecode(HdsEncode(doc).buf).ok = AllKnown(doc, Len(doc))
                /\ AllKnown(doc, Len(doc)) =>
                       HdsDecode(HdsEncode(doc).buf).value = Plain(doc)
                /\ \A n \in 0..Len(HdsEncode(doc).buf) - 1 :
                       ~HdsDecode(SubSeq(HdsEncode(doc).buf, 1, n)).ok
                /\ \A b \in Int : ~HdsDecode(Append(HdsEncode(doc).buf, b)).ok
           ELSE ~HdsEncode(doc).ok
<1> DEFINE n == Len(doc)
           known == AllKnown(doc, n)
<1>1. CASE AllFine(doc, n)
    <2>1. PICK buf :
              /\ buf \in Seq(Int)
              /\ HdsEncode(doc).ok = TRUE /\ HdsEncode(doc).buf = buf
              /\ \A data \in Seq(Int) : Agree(data, 0, buf) =>
                    IF Len(data) = Len(buf) /\ known
                    THEN HdsDecode(data).ok = TRUE /\ HdsDecode(data).value = Plain(doc)
                    ELSE HdsDecode(data).ok = FALSE
        BY <1>1, DocumentDecoded
    <2>2. Agree(buf, 0, buf) /\ known \in BOOLEAN /\ Len(buf) \in Nat
        BY <2>1 DEF Agree, AllKnown
    <2> HIDE DEF known
    <2>3. HdsDecode(buf).ok = known /\ (known => HdsDecode(buf).value = Plain(doc))
        BY <2>1, <2>2
    <2>4. ASSUME NEW m \in 0..Len(buf) - 1 PROVE ~HdsDecode(SubSeq(buf, 1, m)).ok
        <3> DEFINE s == SubSeq(buf, 1, m)
        <3>1. m \in 0..Len(buf) /\ m # Len(buf)
            BY <2>2
        <3>2. s \in Seq(Int) /\ Len(s) = m /\ Agree(s, 0, buf)
            BY <2>1, <3>1, StrictPrefix
        <3> HIDE DEF s
        <3>3. HdsDecode(s).ok = FALSE
            BY <2>1, <3>1, <3>2
        <3> QED
            BY <3>3 DEF s
    <2>5. ASSUME NEW b \in Int PROVE ~HdsDecode(Append(buf, b)).ok
        <3> DEFINE s == Append(buf, b)
        <3>1. s \in Seq(Int) /\ Len(s) = Len(buf) + 1 /\ Agree(s, 0, buf)
            BY <2>1, OneMore
        <3> HIDE DEF s
        <3>2. HdsDecode(s).ok = FALSE
            BY <2>1, <2>2, <3>1
        <3> QED
            BY <3>2 DEF s
    <2> QED
        BY <1>1, <2>1, <2>3, <2>4, <2>5 DEF known
<1>2. CASE ~AllFine(doc, n)
    <2>1. Lockstep(doc, n)
        BY LockstepIs DEF IsWholeDocument, IsBegun
    <2>2. ~HdsEncode(doc).ok
        BY <1>2, <2>1 DEF Lockstep, HdsEncode
    <2> QED
        BY <1>2, <2>2
<1> QED
    BY <1>1, <1>2

\* The places of a list.
LEMMA ListDomain ==
    ASSUME NEW doc, IsList(doc)
    PROVE  DOMAIN doc = 1..Len(doc)
BY DEF IsList

\* A document is read back as it was written, and only as a whole: HdsRoundTrip
\* and HdsWhole for every document (Encoder and Decoder, hds_codec.py).
LEMMA ReadsBack ==
    ASSUME NEW doc, IsList(doc), IsDocument(doc)
    PROVE  HdsRoundTrip(doc) /\ HdsWhole(doc)
<1> DEFINE n == Len(doc)
           buf == HdsEncode(doc).buf
<1>1. DOMAIN doc = 1..n /\ n \in Nat
    BY ListDomain, ListLen
<1>2. IsWholeDocument(doc) /\ IsBegun(doc)
    BY <1>1 DEF IsDocument, IsWholeDocument, IsBegun
<1>3. AllFine(doc, n) <=>
          WithinDepth(doc, MaxDepth) /\ \A k \in DOMAIN doc : Writable(doc[k])
    BY <1>1 DEF WithinDepth, AllFine, Fine
<1>4. AllKnown(doc, n) = Recognised(doc)
    BY <1>1 DEF AllKnown, Recognised
<1>5. CASE AllFine(doc, n)
    <2>1. /\ HdsEncode(doc).ok = TRUE /\ buf \in Seq(Int)
          /\ HdsDecode(buf).ok = Recognised(doc)
          /\ Recognised(doc) => HdsDecode(buf).value = Plain(doc)
          /\ \A m \in 0..Len(buf) - 1 : ~HdsDecode(SubSeq(buf, 1, m)).ok
          /\ \A b \in Int : ~HdsDecode(Append(buf, b)).ok
        BY <1>2, <1>4, <1>5, EveryDocument
    <2> HIDE DEF n
    <2>2. HdsRoundTrip(doc)
        BY <1>3, <1>5, <2>1 DEF HdsRoundTrip
    <2>3. HdsWhole(doc)
        <3> DEFINE cuts == IF Len(buf) <= 32 THEN 0..Len(buf) - 1
                           ELSE {1, Len(buf) - 1}
        <3>1. \A m \in cuts : m \in 0..Len(buf) - 1
            <4>1. Len(buf) \in Nat
                BY <2>1
            <4> QED
                BY <4>1
        <3>2. NULL \in Int
            BY DEF NULL
        <3>3. \A m \in cuts : ~HdsDecode(SubSeq(buf, 1, m)).ok
            <4> HIDE DEF cuts, buf
            <4> QED
                BY <2>1, <3>1
        <3>4. ~HdsDecode(Append(buf, NULL)).ok
            BY <2>1, <3>2
        <3> QED
            BY <3>3, <3>4 DEF HdsWhole
    <2> QED
        BY <2>2, <2>3
<1>6. CASE ~AllFine(doc, n)
    <2>1. ~HdsEncode(doc).ok
        BY <1>2, <1>6, EveryDocument
    <2>2. HdsRoundTrip(doc)
        BY <1>3, <1>6, <2>1 DEF HdsRoundTrip
    <2>3. HdsWhole(doc)
        BY <2>1 DEF HdsWhole
    <2> QED
        BY <2>2, <2>3
<1> QED
    BY <1>5, <1>6

\* A document that goes on has the frames it had.
LEMMA BuildingOn ==
    ASSUME NEW doc, IsList(doc), NEW v
    PROVE  \A k \in 0..Len(doc) : Building(Append(doc, v))[k] = Building(doc)[k]
<1> DEFINE n == Len(doc)
           doc2 == Append(doc, v)
           P == {k \in Nat : k <= n => Building(doc2)[k] = Building(doc)[k]}
<1>1. /\ n \in Nat /\ Len(doc2) = n + 1 /\ Len(doc2) \in Nat
      /\ \A k \in 1..n : doc2[k] = doc[k]
    BY ListLen, AppendIs
<1>2. /\ Building(doc)[0] = <<Frame(Whole)>> /\ Building(doc2)[0] = <<Frame(Whole)>>
      /\ \A k \in 1..n :
            Building(doc)[k] = BuildNext(Building(doc)[k - 1], doc[k])
    BY <1>1, BuildingIs
<1>3. \A k \in 1..n : Building(doc2)[k] = BuildNext(Building(doc2)[k - 1], doc2[k])
    <2>1. \A k \in 1..Len(doc2) :
             Building(doc2)[k] = BuildNext(Building(doc2)[k - 1], doc2[k])
        BY <1>1, BuildingIs
    <2> HIDE DEF doc2
    <2>2. \A k \in 1..n : k \in 1..Len(doc2)
        BY <1>1
    <2> QED
        BY <2>1, <2>2
<1> HIDE DEF n, doc2
<1>4. 0 \in P
    BY <1>2
<1>5. ASSUME NEW k \in Nat, k \in P PROVE k + 1 \in P
    <2> SUFFICES ASSUME k + 1 <= n
                 PROVE  Building(doc2)[k + 1] = Building(doc)[k + 1]
        OBVIOUS
    <2>1. k + 1 \in 1..n /\ (k + 1) - 1 = k /\ k <= n
        BY <1>1
    <2>2. /\ Building(doc2)[k + 1] = BuildNext(Building(doc2)[(k + 1) - 1], doc2[k + 1])
          /\ Building(doc)[k + 1] = BuildNext(Building(doc)[(k + 1) - 1], doc[k + 1])
          /\ doc2[k + 1] = doc[k + 1]
        BY <1>1, <1>2, <1>3, <2>1
    <2>3. Building(doc2)[k] = Building(doc)[k]
        BY <1>5, <2>1
    <2> QED
        BY <2>1, <2>2, <2>3
<1> HIDE DEF P
<1>6. Nat \subseteq P
    BY <1>4, <1>5, Induction
<1>7. ASSUME NEW k \in 0..n PROVE Building(doc2)[k] = Building(doc)[k]
    <2>1. k \in Nat /\ k <= n
        BY <1>1
    <2> QED
        BY <1>6, <2>1 DEF P
<1> QED
    BY <1>7 DEF n, doc2

\* What an input is while it grows: a document that may go on.
DocumentBegun ==
    /\ "of" \in DOMAIN input
    /\ input.of = "document" =>
          /\ DOMAIN input = {"of", "doc"}
          /\ IsList(input.doc) /\ IsBegun(input.doc)

\* A document that has begun and goes on has begun.
LEMMA BegunOn ==
    ASSUME NEW doc, IsList(doc), IsBegun(doc), NEW v,
           Follows(Building(doc)[Len(doc)], v)
    PROVE  IsList(Append(doc, v)) /\ IsBegun(Append(doc, v))
<1> DEFINE n == Len(doc)
           doc2 == Append(doc, v)
<1>1. /\ IsList(doc2) /\ Len(doc2) = n + 1 /\ n \in Nat
      /\ doc2[n + 1] = v /\ \A k \in 1..n : doc2[k] = doc[k]
    BY AppendIs, ListLen
<1>2. \A k \in 0..n : Building(doc2)[k] = Building(doc)[k]
    BY BuildingOn
<1>3. \A k \in 1..n : Follows(Building(doc)[k - 1], doc[k])
    BY DEF IsBegun
<1>4. Follows(Building(doc)[n], v)
    OBVIOUS
<1> HIDE DEF n, doc2
<1>5. ASSUME NEW k \in 1..n + 1 PROVE Follows(Building(doc2)[k - 1], doc2[k])
    <2>1. CASE k = n + 1
        <3>1. k - 1 = n /\ n \in 0..n
            BY <1>1, <2>1
        <3> QED
            BY <1>1, <1>2, <1>4, <2>1, <3>1
    <2>2. CASE k \in 1..n
        <3>1. k - 1 \in 0..n
            BY <1>1, <2>2
        <3> QED
            BY <1>1, <1>2, <1>3, <2>2, <3>1
    <2> QED
        BY <1>1, <2>1, <2>2
<1> QED
    BY <1>1, <1>5 DEF IsBegun, doc2

-----------------------------------------------------------------------------
(* The documents of the model.                                             *)

\* What is encoded is a document at each of its values (MCCodecs, AddValue).
THEOREM DocumentsBegun == Spec => []DocumentBegun
<1>1. Init => DocumentBegun
    <2>1. ASSUME input = [of |-> "document", doc |-> <<>>] PROVE DocumentBegun
        <3>1. IsList(<<>>) /\ Len(<<>>) = 0
            BY SeqList, EmptySeq
        <3>2. IsBegun(<<>>)
            BY <3>1 DEF IsBegun
        <3>3. DOMAIN input = {"of", "doc"} /\ input.doc = <<>>
            BY <2>1
        <3> QED
            BY <3>1, <3>2, <3>3 DEF DocumentBegun
    <2>2. ASSUME \/ input = [of |-> "none"]
                 \/ input = [of |-> "entries", entries |-> <<>>]
                 \/ input = [of |-> "targets", targets |-> {}]
          PROVE  "of" \in DOMAIN input /\ input.of # "document"
        BY <2>2
    <2> QED
        BY <2>1, <2>2 DEF Init, EntriesInit, TargetsInit, DocumentBegun
<1>2. ASSUME DocumentBegun, [Next]_input PROVE DocumentBegun'
    <2>1. CASE AddEntry
        <3>1. PICK entries : input' = [input EXCEPT !.entries = entries]
            BY <2>1 DEF AddEntry
        <3>2. "of" \in DOMAIN input' /\ input'.of = "entries"
            BY <1>2, <2>1, <3>1 DEF DocumentBegun, AddEntry
        <3> QED
            BY <3>2 DEF DocumentBegun
    <2>2. CASE AddTarget
        <3>1. PICK targets : input' = [input EXCEPT !.targets = targets]
            BY <2>2 DEF AddTarget
        <3>2. "of" \in DOMAIN input' /\ input'.of = "targets"
            BY <1>2, <2>2, <3>1 DEF DocumentBegun, AddTarget
        <3> QED
            BY <3>2 DEF DocumentBegun
    <2>3. CASE AddValue
        <3>1. PICK v : /\ Follows(Building(input.doc)[Len(input.doc)], v)
                       /\ input' = [input EXCEPT !.doc = Append(@, v)]
            BY <2>3 DEF AddValue
        <3> DEFINE doc2 == Append(input.doc, v)
        <3>2. /\ DOMAIN input = {"of", "doc"} /\ input.of = "document"
              /\ IsList(input.doc) /\ IsBegun(input.doc)
            BY <1>2, <2>3 DEF DocumentBegun, AddValue
        <3>3. IsList(doc2) /\ IsBegun(doc2)
            BY <3>1, <3>2, BegunOn
        <3>4. input' = [input EXCEPT !.doc = doc2]
            BY <3>1
        <3> HIDE DEF doc2
        <3>5. DOMAIN input' = {"of", "doc"} /\ input'.of = "document" /\ input'.doc = doc2
            BY <3>2, <3>4
        <3> QED
            BY <3>3, <3>5 DEF DocumentBegun
    <2>4. CASE Message
        <3>1. "of" \in DOMAIN input' /\ input'.of = "message"
            BY <2>4 DEF Message
        <3> QED
            BY <3>1 DEF DocumentBegun
    <2>5. CASE UNCHANGED input
        BY <1>2, <2>5 DEF DocumentBegun
    <2> QED
        BY <1>2, <2>1, <2>2, <2>3, <2>4, <2>5 DEF Next
<1> QED
    BY <1>1, <1>2, PTL DEF Spec

\* A document is read back as it was written, and only as a whole: one that is
\* nested too deeply is not written, one that ends too early or goes on after
\* its value is refused, and so is one with an integer whose tag is unknown
\* (Encoder and Decoder, hds_codec.py).
THEOREM DocumentsAreReadBack == Spec => []DocumentsReadBack
<1>1. DocumentBegun => DocumentsReadBack
    BY ReadsBack DEF DocumentBegun, DocumentsReadBack
<1> QED
    BY <1>1, DocumentsBegun, PTL

-----------------------------------------------------------------------------
(* Dictionaries of atoms.                                                  *)

\* The frames of a dictionary of as many as values says, k of them in.
InDict(fr, c, values, k) ==
    /\ IsList(fr) /\ Len(fr) = 2 /\ fr[1] = Frame(Whole)
    /\ DOMAIN fr[2] = {"kind", "of", "left", "values"}
    /\ fr[2].kind = "dict" /\ fr[2].of = c /\ fr[2].left = Len(values) - k
    /\ IsList(fr[2].values) /\ Len(fr[2].values) = k
    /\ \A j \in 1..k : fr[2].values[j] = PlainAtom(values[j])

\* A dictionary goes on with its next atom, a key or a value.
LEMMA InDictNext ==
    ASSUME NEW values, Len(values) \in Nat, NEW c, NEW k \in Nat, k < Len(values),
           values[k + 1] \in Atom, NEW fr, InDict(fr, c, values, k)
    PROVE  /\ Follows(fr, values[k + 1])
           /\ InDict(BuildNext(fr, values[k + 1]), c, values, k + 1)
<1> DEFINE n == Len(values)
           v == values[k + 1]
           w == PlainAtom(v)
           b == fr[2]
           gr == Receive(fr, w)
           b2 == Taken(b, w)
<1>1. /\ IsList(fr) /\ Len(fr) = 2 /\ Last(fr) = b /\ fr[1] = Frame(Whole)
      /\ DOMAIN b = {"kind", "of", "left", "values"}
      /\ b.kind = "dict" /\ b.of = c /\ b.left = n - k
      /\ IsList(b.values) /\ Len(b.values) = k
      /\ \A j \in 1..k : b.values[j] = PlainAtom(values[j])
    BY DEF InDict, Last
<1>2. v.kind # "end" /\ v.kind \notin DOMAIN Container
    BY AtomIs
<1>3. BuildNext(fr, v) = gr
    BY <1>2 DEF BuildNext
<1>4. Follows(fr, v)
    <2>1. b.left > 0
        BY <1>1
    <2> QED
        BY <1>1, <2>1 DEF Follows
<1> HIDE DEF b, n
<1>5. IsList(gr) /\ Len(gr) = 2 /\ gr[1] = fr[1] /\ gr[2] = b2
    <2>1. Len(fr) >= 1 /\ 1 \in 1..Len(fr) - 1
        BY <1>1
    <2>2. /\ IsList(gr) /\ Len(gr) = Len(fr)
          /\ \A j \in 1..Len(fr) - 1 : gr[j] = fr[j]
          /\ gr[Len(fr)] = Taken(Last(fr), w)
        BY <1>1, <2>1, ReceiveTakes
    <2> HIDE DEF gr, b2
    <2> QED
        BY <1>1, <2>1, <2>2 DEF b2
<1>6. /\ DOMAIN b2 = {"kind", "of", "left", "values"}
      /\ b2.kind = b.kind /\ b2.of = b.of /\ b2.left = b.left - 1
      /\ b2.values = Append(b.values, w)
    BY <1>1 DEF Taken
<1> HIDE DEF gr, b2
<1>7. /\ IsList(b2.values) /\ Len(b2.values) = k + 1
      /\ b2.values[k + 1] = w /\ \A j \in 1..k : b2.values[j] = b.values[j]
    BY <1>1, <1>6, AppendIs
<1>8. \A j \in 1..k + 1 : b2.values[j] = PlainAtom(values[j])
    <2> SUFFICES ASSUME NEW j \in 1..k + 1 PROVE b2.values[j] = PlainAtom(values[j])
        OBVIOUS
    <2>1. CASE j = k + 1
        BY <1>7, <2>1
    <2>2. CASE j \in 1..k
        BY <1>1, <1>7, <2>2
    <2> QED
        BY <2>1, <2>2
<1>9. b2.left = n - (k + 1)
    BY <1>1, <1>6 DEF n
<1>10. InDict(gr, c, values, k + 1)
    BY <1>1, <1>5, <1>6, <1>7, <1>8, <1>9 DEF InDict, n
<1> QED
    BY <1>3, <1>4, <1>10

\* After the last it ends, and is the mapping that the atoms make.
LEMMA InDictEnd ==
    ASSUME NEW values, Len(values) \in Nat, NEW c \in Opening, c.kind = "dict",
           NEW fr, InDict(fr, c, values, Len(values))
    PROVE  /\ Follows(fr, End(c))
           /\ Complete(BuildNext(fr, End(c)))
           /\ BuildNext(fr, End(c))[1].values[1] =
                MakeContainer("dict", [j \in 1..Len(values) |-> PlainAtom(values[j])])
<1> DEFINE n == Len(values)
           b == fr[2]
           plain == [j \in 1..n |-> PlainAtom(values[j])]
           m == MakeContainer("dict", plain)
           front == Front(fr)
           gr == Receive(front, m)
           first == Frame(Whole)
<1>1. /\ IsList(fr) /\ Len(fr) = 2 /\ Last(fr) = b /\ fr[1] = first
      /\ b.of = c /\ b.left = n - n
      /\ IsList(b.values) /\ Len(b.values) = n
      /\ \A j \in 1..n : b.values[j] = PlainAtom(values[j])
    BY DEF InDict, Last
<1>2. End(c).kind = "end" /\ End(c).of = c /\ End(c).kind \notin DOMAIN Container
    BY EndIs, ContainerAre
<1>3. b.values = plain
    BY <1>1 DEF IsList
<1>4. BuildNext(fr, End(c)) = gr
    BY <1>1, <1>2, <1>3 DEF BuildNext
<1>5. Follows(fr, End(c))
    <2>1. b.left = 0
        BY <1>1
    <2> QED
        BY <1>1, <2>1 DEF Follows
<1> HIDE DEF b, n, plain, m
<1> HIDE DEF first
<1>6. IsList(front) /\ Len(front) = 1 /\ front[1] = first
    <2>1. Len(fr) >= 1 /\ 1 \in 1..Len(fr) - 1 /\ Len(fr) - 1 = 1
        BY <1>1
    <2>2. /\ IsList(front) /\ Len(front) = Len(fr) - 1
          /\ \A j \in 1..Len(fr) - 1 : front[j] = fr[j]
        BY <1>1, <2>1, FrontIs
    <2> HIDE DEF front
    <2> QED
        BY <1>1, <2>1, <2>2
<1> HIDE DEF front
<1>7. Len(gr) = 1 /\ gr[1] = Taken(first, m)
    <2>1. Len(gr) = Len(front) /\ gr[Len(front)] = Taken(Last(front), m)
        BY <1>6, ReceiveTakes
    <2>2. Last(front) = first
        BY <1>6 DEF Last
    <2> HIDE DEF gr
    <2> QED
        BY <1>6, <2>1, <2>2
<1>8. /\ DOMAIN first = {"kind", "of", "left", "values"}
      /\ first.left = 1 /\ first.values = <<>>
    BY FrameIs, WholeIs DEF IsFrame, first
<1> HIDE DEF gr
<1>9. gr[1].left = 0 /\ gr[1].values = Append(<<>>, m)
    BY <1>7, <1>8 DEF Taken
<1>10. Append(<<>>, m)[1] = m
    <2>1. <<>> \in Seq({m}) /\ Len(<<>>) = 0
        OBVIOUS
    <2> QED
        BY <2>1
<1>11. Complete(gr) /\ gr[1].values[1] = m
    BY <1>7, <1>9, <1>10 DEF Complete
<1> QED
    BY <1>4, <1>5, <1>11 DEF m, plain, n

\* A dictionary of atoms is a document.
LEMMA DictIs ==
    ASSUME NEW values \in Seq(Atom), NEW p \in Nat, Len(values) = 2 * p
    PROVE  /\ IsList(Dict(values)) /\ IsWholeDocument(Dict(values))
           /\ Plain(Dict(values)) =
                MakeContainer("dict", [j \in 1..Len(values) |-> PlainAtom(values[j])])
           /\ (\A j \in 1..Len(values) : values[j] # PlainInt(39)) =>
                 AllKnown(Dict(values), Len(Dict(values)))
<1> DEFINE n == Len(values)
           c == [kind |-> "dict", count |-> n \div 2]
           doc == <<c>> \o values \o <<End(c)>>
<1>1. /\ n \in Nat /\ n \div 2 = p /\ c \in Opening /\ c.kind = "dict"
      /\ Total(c) = n
    <2>1. n \in Nat /\ n \div 2 = p
        OBVIOUS
    <2>2. c.kind = "dict" /\ c.count = p
        BY <2>1
    <2>3. c \in Opening
        BY <2>1, ContainerAre DEF Opening
    <2>4. Total(c) = p * 2
        BY <2>2, <2>3, OpeningIs
    <2> QED
        BY <2>1, <2>2, <2>3, <2>4
<1>2. Dict(values) = doc
    BY DEF Dict
<1> HIDE DEF c
<1>3. /\ IsList(doc) /\ Len(doc) = n + 2
      /\ doc[1] = c /\ \A k \in 1..n : doc[k + 1] = values[k]
      /\ doc[n + 2] = End(c)
    <2> DEFINE T == Atom \cup {c, End(c)}
               a == <<c>> \o values
               e == <<End(c)>>
    <2>1. <<c>> \in Seq(T) /\ values \in Seq(T) /\ e \in Seq(T)
        <3>1. Atom \subseteq T /\ c \in T /\ End(c) \in T
            OBVIOUS
        <3>2. values \in Seq(T)
            BY <3>1, SeqMonotonic
        <3> HIDE DEF T
        <3> QED
            BY <3>1, <3>2
    <2>2. Len(<<c>>) = 1 /\ <<c>>[1] = c /\ Len(e) = 1 /\ e[1] = End(c)
        OBVIOUS
    <2> HIDE DEF T
    <2>3. /\ a \in Seq(T) /\ Len(a) = 1 + n
          /\ a[1] = c /\ \A k \in 1..n : a[1 + k] = values[k]
        <3>1. /\ a \in Seq(T) /\ Len(a) = Len(<<c>>) + Len(values)
              /\ \A k \in 1..Len(<<c>>) : a[k] = <<c>>[k]
              /\ \A k \in 1..Len(values) : a[Len(<<c>>) + k] = values[k]
            BY <2>1, ConcatProperties
        <3> HIDE DEF a
        <3> QED
            BY <2>2, <3>1
    <2> HIDE DEF a, e
    <2>4. /\ a \o e \in Seq(T) /\ Len(a \o e) = Len(a) + Len(e)
          /\ \A k \in 1..Len(a) : (a \o e)[k] = a[k]
          /\ \A k \in 1..Len(e) : (a \o e)[Len(a) + k] = e[k]
        <3>1. a \in Seq(T) /\ e \in Seq(T)
            BY <2>1, <2>3
        <3> QED
            BY ONLY <3>1, ConcatProperties
    <2>5. doc = a \o e
        BY DEF a, e
    <2> HIDE DEF doc
    <2>6. IsList(doc)
        BY <2>4, <2>5, SeqList
    <2>7. Len(doc) = n + 2 /\ doc[n + 2] = End(c) /\ doc[1] = c
        <3>1. 1 \in 1..Len(a) /\ 1 \in 1..Len(e) /\ Len(a) + 1 = n + 2
            BY <1>1, <2>2, <2>3
        <3>2. (a \o e)[1] = a[1] /\ (a \o e)[Len(a) + 1] = e[1]
            BY <2>4, <3>1
        <3> QED
            BY <2>2, <2>3, <2>4, <2>5, <3>1, <3>2
    <2>8. ASSUME NEW k \in 1..n PROVE doc[k + 1] = values[k]
        <3>1. k + 1 \in 1..Len(a) /\ k + 1 = 1 + k
            BY <1>1, <2>3
        <3> QED
            BY <2>3, <2>4, <2>5, <3>1
    <2> QED
        BY <2>6, <2>7, <2>8
<1> HIDE DEF doc
<1>4. \A k \in 1..n : values[k] \in Atom
    BY ElementOfSeq
<1> DEFINE B(k) == Building(doc)[k]
<1>5. /\ B(0) = <<Frame(Whole)>>
      /\ \A k \in 1..n + 2 : B(k) = BuildNext(B(k - 1), doc[k])
    <2>1. Len(doc) \in Nat
        BY <1>1, <1>3
    <2> QED
        BY <1>3, <2>1, BuildingIs
<1> HIDE DEF B, n
<1>6. Follows(B(0), c) /\ InDict(B(1), c, values, 0)
    <2> DEFINE first == Frame(Whole)
               b == Frame(c)
               fr == <<first>>
    <2>1. /\ IsList(fr) /\ Len(fr) = 1 /\ fr[1] = first /\ Last(fr) = first
        BY FirstFrames DEF AreFrames, Last
    <2>2. first.left = 1 /\ first.kind = "array"
        BY FrameIs, WholeIs
    <2> HIDE DEF first, fr, b
    <2>3. Follows(fr, c)
        <3>1. ~AwaitsKey(first) /\ first.left > 0
            BY <2>2 DEF AwaitsKey
        <3> QED
            BY <1>1, <2>1, <3>1 DEF Follows
    <2>4. B(1) = Append(fr, b)
        <3>1. 1 \in 1..n + 2 /\ 1 - 1 = 0
            BY <1>1
        <3>2. B(1) = BuildNext(B(1 - 1), doc[1])
            BY <1>5, <3>1
        <3>3. B(1) = BuildNext(fr, c)
            BY <1>3, <1>5, <3>1, <3>2 DEF fr, first
        <3> QED
            BY <1>1, <3>3, ContainerAre DEF BuildNext, b
    <2>5. /\ DOMAIN b = {"kind", "of", "left", "values"}
          /\ b.kind = "dict" /\ b.of = c /\ b.left = n /\ b.values = <<>>
        BY <1>1, FrameIs DEF IsFrame, b
    <2> DEFINE g == Append(fr, b)
    <2>6. IsList(g) /\ Len(g) = 2 /\ g[1] = first /\ g[2] = b
        <3>1. 1 \in 1..Len(fr) /\ Len(fr) + 1 = 2
            BY <2>1
        <3>2. /\ IsList(g) /\ Len(g) = Len(fr) + 1 /\ g[Len(fr) + 1] = b
              /\ \A j \in 1..Len(fr) : g[j] = fr[j]
            <4>1. IsList(fr)
                BY <2>1
            <4> QED
                BY ONLY <4>1, AppendIs
        <3> HIDE DEF g
        <3> QED
            BY <2>1, <3>1, <3>2
    <2> HIDE DEF g
    <2>7. IsList(<<>>) /\ Len(<<>>) = 0
        BY SeqList, EmptySeq
    <2>8. n = n - 0
        BY <1>1
    <2>9. InDict(B(1), c, values, 0)
        <3>2. B(1) = g
            BY <2>4 DEF g
        <3>3. g[2] = b /\ b.values = <<>> /\ b.left = Len(values) - 0
            BY <2>5, <2>6, <2>8 DEF n
        <3>4. \A j \in 1..0 : g[2].values[j] = PlainAtom(values[j])
            OBVIOUS
        <3>5. InDict(g, c, values, 0)
            BY <2>5, <2>6, <2>7, <3>3, <3>4 DEF InDict, first
        <3> QED
            BY <3>2, <3>5
    <2> QED
        BY <1>5, <2>3, <2>9 DEF fr, first
<1> DEFINE P == {k \in Nat : k <= n => InDict(B(k + 1), c, values, k)}
<1>7. ASSUME NEW k \in Nat, k < n, InDict(B(k + 1), c, values, k)
      PROVE  Follows(B(k + 1), doc[k + 2]) /\ InDict(B(k + 2), c, values, k + 1)
    <2>1. k + 1 \in 1..n /\ k + 2 \in 1..n + 2 /\ (k + 2) - 1 = k + 1 /\ (k + 1) + 1 = k + 2
        BY <1>1, <1>7
    <2>2. doc[k + 2] = values[k + 1] /\ values[k + 1] \in Atom
        <3>1. doc[(k + 1) + 1] = values[k + 1]
            BY <1>3, <2>1 DEF n
        <3> QED
            BY <1>4, <2>1, <3>1 DEF n
    <2>3. B(k + 2) = BuildNext(B(k + 1), values[k + 1])
        <3>1. B(k + 2) = BuildNext(B((k + 2) - 1), doc[k + 2])
            BY <1>5, <2>1
        <3> QED
            BY <2>1, <2>2, <3>1
    <2> QED
        BY <1>1, <1>7, <2>2, <2>3, InDictNext DEF n
<1>8. 0 \in P
    BY <1>6
<1>9. ASSUME NEW k \in Nat, k \in P PROVE k + 1 \in P
    <2> SUFFICES ASSUME k + 1 <= n PROVE InDict(B((k + 1) + 1), c, values, k + 1)
        OBVIOUS
    <2>1. k < n /\ (k + 1) + 1 = k + 2
        BY <1>1
    <2>2. InDict(B(k + 1), c, values, k)
        BY <1>1, <1>9, <2>1
    <2> QED
        BY <1>7, <2>1, <2>2
<1> HIDE DEF P
<1>10. Nat \subseteq P
    BY <1>8, <1>9, Induction
<1>11. ASSUME NEW k \in Nat, k <= n PROVE InDict(B(k + 1), c, values, k)
    BY <1>10, <1>11 DEF P
<1>12. /\ Follows(B(n + 1), End(c)) /\ Complete(B(n + 2))
       /\ B(n + 2)[1].values[1] =
            MakeContainer("dict", [j \in 1..n |-> PlainAtom(values[j])])
    <2>1. InDict(B(n + 1), c, values, n)
        BY <1>1, <1>11
    <2>2. B(n + 2) = BuildNext(B(n + 1), End(c))
        <3>1. n + 2 \in 1..n + 2 /\ (n + 2) - 1 = n + 1
            BY <1>1
        <3> QED
            BY <1>3, <1>5, <3>1 DEF n
    <2> QED
        BY <1>1, <2>1, <2>2, InDictEnd DEF n
<1>13. IsBegun(doc)
    <2>1. Len(doc) = n + 2 /\ Len(doc) \in Nat
        BY <1>1, <1>3 DEF n
    <2>2. ASSUME NEW k \in 1..n + 2 PROVE Follows(B(k - 1), doc[k])
        <3>1. CASE k = 1
            BY <1>3, <1>6, <3>1
        <3>2. CASE k = n + 2
            <4>1. k - 1 = n + 1 /\ doc[k] = End(c)
                BY <1>1, <1>3, <3>2 DEF n
            <4> QED
                BY <1>12, <4>1
        <3>3. CASE k # 1 /\ k # n + 2
            <4> DEFINE j == k - 2
            <4>1. j \in Nat /\ j < n /\ j + 2 = k /\ j + 1 = k - 1
                BY <1>1, <3>3
            <4> HIDE DEF j
            <4>2. InDict(B(j + 1), c, values, j)
                BY <1>1, <1>11, <4>1
            <4>3. Follows(B(j + 1), doc[j + 2])
                BY <1>7, <4>1, <4>2
            <4> QED
                BY <4>1, <4>3
        <3> QED
            BY <3>1, <3>2, <3>3
    <2> QED
        BY <2>1, <2>2 DEF IsBegun, B
<1>14. IsWholeDocument(doc)
    <2>1. Len(doc) = n + 2
        BY <1>3 DEF n
    <2> QED
        BY <1>12, <1>13, <2>1 DEF IsWholeDocument, B
<1>15. Plain(doc) = MakeContainer("dict", [j \in 1..n |-> PlainAtom(values[j])])
    <2>1. Len(doc) = n + 2
        BY <1>3 DEF n
    <2> QED
        BY <1>12, <2>1 DEF Plain, B
<1>16. ASSUME \A j \in 1..n : values[j] # PlainInt(39)
       PROVE  AllKnown(doc, Len(doc))
    <2>1. PlainInt(39).kind = "int" /\ c # PlainInt(39) /\ End(c) # PlainInt(39)
        <3>1. PlainInt(39).kind = "int"
            BY DEF PlainInt
        <3> QED
            BY <1>1, <3>1, EndIs
    <2>2. ASSUME NEW k \in 1..n + 2 PROVE doc[k] # PlainInt(39)
        <3>1. CASE k = 1
            BY <1>3, <2>1, <3>1
        <3>2. CASE k = n + 2
            BY <1>3, <2>1, <3>2 DEF n
        <3>3. CASE k # 1 /\ k # n + 2
            <4> DEFINE j == k - 1
            <4>1. j \in 1..n /\ j + 1 = k
                BY <1>1, <3>3
            <4> HIDE DEF j
            <4>2. doc[j + 1] = values[j]
                BY <1>3, <4>1 DEF n
            <4> QED
                BY <1>16, <4>1, <4>2
        <3> QED
            BY <3>1, <3>2, <3>3
    <2>3. Len(doc) = n + 2
        BY <1>3 DEF n
    <2> QED
        BY <2>2, <2>3 DEF AllKnown
<1> QED
    BY <1>2, <1>3, <1>14, <1>15, <1>16 DEF n

-----------------------------------------------------------------------------
(* Headers.                                                                *)

\* The values of a dictionary alternate with keys, p distinct texts.
AreNamed(vals, p) ==
    /\ p \in Nat /\ Len(vals) = 2 * p
    /\ \A k \in 1..p : vals[2 * k - 1].kind = "text"
    /\ \A j, k \in 1..p : vals[2 * j - 1] = vals[2 * k - 1] => j = k

\* That is what they are in c.
HasNamed(c, vals, p) ==
    /\ c.kind = "dict"
    /\ \A k \in 1..p : /\ Has(c, vals[2 * k - 1])
                       /\ Get(c, vals[2 * k - 1]) = vals[2 * k]
    /\ \A key : Has(c, key) => \E k \in 1..p : key = vals[2 * k - 1]

\* Distinct texts as keys are looked up with the values that follow them.
LEMMA MappingIs ==
    ASSUME NEW vals, NEW p, AreNamed(vals, p)
    PROVE  HasNamed(MakeContainer("dict", vals), vals, p)
<1> DEFINE c == MakeContainer("dict", vals)
<1>a. /\ p \in Nat /\ Len(vals) = 2 * p
      /\ \A k \in 1..p : vals[2 * k - 1].kind = "text"
      /\ \A j, k \in 1..p : vals[2 * j - 1] = vals[2 * k - 1] => j = k
    BY DEF AreNamed
<1> DEFINE Key(k) == KeyOf(vals[2 * k - 1])
           indices == 1..Len(vals) \div 2
           IsLatest(k, key) == /\ Key(k) = key
                               /\ \A j \in indices : j > k => Key(j) # key
           Latest(key) == CHOOSE k \in indices : IsLatest(k, key)
           keys == {Key(k) : k \in indices}
           mapping == [key \in keys |-> vals[2 * Latest(key)]]
<1>1. c = [kind |-> "dict", mapping |-> mapping]
    BY DEF MakeContainer
<1>2. indices = 1..p
    <2>1. (2 * p) \div 2 = p
        BY <1>a
    <2> QED
        BY <1>a, <2>1
<1> HIDE DEF indices
<1>3. \A k \in 1..p : Key(k) = vals[2 * k - 1]
    BY <1>a DEF KeyOf
<1> HIDE DEF Key
<1>4. ASSUME NEW k \in 1..p PROVE Latest(vals[2 * k - 1]) = k
    <2> DEFINE key == vals[2 * k - 1]
    <2>1. \A j \in indices : Key(j) = key => j = k
        BY <1>a, <1>2, <1>3
    <2>2. k \in indices /\ IsLatest(k, key)
        <3>1. \A j \in indices : j > k => Key(j) # key
            <4> SUFFICES ASSUME NEW j \in indices, j > k, Key(j) = key PROVE FALSE
                OBVIOUS
            <4>1. j = k
                BY <2>1
            <4> QED
                BY <1>a, <4>1, <1>2
        <3> QED
            BY <1>2, <1>3, <3>1
    <2>3. \A j \in indices : IsLatest(j, key) => j = k
        BY <2>1
    <2> HIDE DEF IsLatest, key
    <2>4. Latest(key) = k
        BY <2>2, <2>3
    <2> QED
        BY <2>4 DEF key
<1> HIDE DEF Latest
<1>5. c.kind = "dict" /\ c.mapping = mapping /\ DOMAIN c.mapping = keys
    BY <1>1
<1>6. ASSUME NEW k \in 1..p
      PROVE  Has(c, vals[2 * k - 1]) /\ Get(c, vals[2 * k - 1]) = vals[2 * k]
    <2> DEFINE key == vals[2 * k - 1]
    <2>1. key \in keys
        BY <1>2, <1>3
    <2> HIDE DEF keys
    <2>2. mapping[key] = vals[2 * Latest(key)] /\ Latest(key) = k
        BY <1>4, <2>1
    <2> QED
        BY <1>5, <2>1, <2>2 DEF Has, Get
<1>7. ASSUME NEW key, Has(c, key) PROVE \E k \in 1..p : key = vals[2 * k - 1]
    <2>1. key \in keys
        BY <1>5, <1>7 DEF Has
    <2> QED
        BY <1>2, <1>3, <2>1
<1> QED
    BY <1>5, <1>6, <1>7 DEF HasNamed

\* A text is an atom that is read as itself.
LEMMA TextIs ==
    ASSUME NEW bytes \in Seq(0..255)
    PROVE  /\ Text(bytes) \in Atom /\ Text(bytes).kind = "text"
           /\ PlainAtom(Text(bytes)) = Text(bytes) /\ Text(bytes) # PlainInt(39)
           /\ Text(bytes).bytes = bytes
<1>1. Text(bytes) = [kind |-> "text", bytes |-> bytes]
    BY DEF Text, PlainBytes
<1>2. Text(bytes) \in [kind: DOMAIN Short, bytes: Seq(0..255)]
    BY <1>1, ShortAre
<1>3. "text" \notin IntKinds /\ "text" \notin DOMAIN Fixed
    BY FixedAre DEF IntKinds, FixedKinds
<1>4. PlainAtom(Text(bytes)) = Text(bytes)
    BY <1>1, <1>3 DEF PlainAtom
<1>5. PlainInt(39).kind = "int"
    BY DEF PlainInt
<1> QED
    BY <1>1, <1>2, <1>4, <1>5 DEF Atom

\* The names in a header are distinct texts.
LEMMA NamesAre ==
    /\ Protocol \in Atom /\ Event \in Atom /\ Request \in Atom /\ Response \in Atom
    /\ Id \in Atom /\ Status \in Atom
    /\ \A k \in {Protocol, Event, Request, Response, Id, Status} :
          k.kind = "text" /\ PlainAtom(k) = k
    /\ Protocol \notin {Event, Request, Response, Id, Status}
    /\ Event \notin {Request, Response, Id, Status}
    /\ Request \notin {Response, Id, Status} /\ Response \notin {Id, Status}
    /\ Id # Status
<1> DEFINE Made(name, length, letter) ==
              /\ name \in Atom /\ name.kind = "text" /\ PlainAtom(name) = name
              /\ Len(name.bytes) = length /\ name.bytes[1] = letter
<1>2. ASSUME NEW length \in Nat \ {0}, NEW letter \in 0..255
      PROVE  Made(Name(length, letter), length, letter)
    <2> DEFINE bytes == [k \in 1..length |-> letter]
    <2>1. bytes \in Seq(0..255) /\ Len(bytes) = length
        OBVIOUS
    <2>2. bytes[1] = letter
        OBVIOUS
    <2>3. Name(length, letter) = Text(bytes)
        BY DEF Name
    <2> HIDE DEF bytes
    <2> QED
        BY <2>1, <2>2, <2>3, TextIs
<1>3. /\ Protocol = Name(8, 80) /\ Event = Name(5, 69) /\ Request = Name(7, 81)
      /\ Response = Name(8, 82) /\ Id = Name(2, 73) /\ Status = Name(6, 83)
    BY DEF Protocol, Event, Request, Response, Id, Status
<1>4. /\ Made(Protocol, 8, 80) /\ Made(Event, 5, 69) /\ Made(Request, 7, 81)
      /\ Made(Response, 8, 82) /\ Made(Id, 2, 73) /\ Made(Status, 6, 83)
    <2> HIDE DEF Made
    <2> QED
        BY <1>2, <1>3
<1> QED
    BY <1>4

\* A header of a kind, read back.
IsHeader(c, m) ==
    /\ c.kind = "dict"
    /\ \A k \in {Event, Request, Response} : Has(c, k) <=> k = m.kind
    /\ Has(c, Protocol) /\ Get(c, Protocol) = Text(m.protocol)
    /\ Get(c, m.kind) = Text(m.topic)
    /\ m.kind # Event => Has(c, Id) /\ Get(c, Id).n = m.id
    /\ m.kind = Response => Has(c, Status) /\ Get(c, Status).n = m.status

\* What is sent by send_event, send_request and send_response.
IsMessage(m) ==
    /\ m.kind \in {Event, Request, Response}
    /\ m.protocol \in Seq(0..255) /\ m.protocol # <<>> /\ m.topic \in Seq(0..255)
    /\ IF m.kind # Event THEN m.id \in Int ELSE m.id = Nothing
    /\ IF m.kind = Response THEN m.status \in Int ELSE m.status = Nothing
    /\ IsList(m.message) /\ IsWholeDocument(m.message)
    /\ AllKnown(m.message, Len(m.message))
    /\ Plain(m.message).kind = "dict"

\* The atoms of its header.
HeaderValues(m) ==
    CASE m.kind = Event ->
            <<Protocol, Text(m.protocol), Event, Text(m.topic)>>
      [] m.kind = Request ->
            <<Protocol, Text(m.protocol), Request, Text(m.topic), Id, Int64(m.id)>>
      [] m.kind = Response ->
            <<Protocol, Text(m.protocol), Response, Text(m.topic),
              Id, Int64(m.id), Status, Int64(m.status)>>

\* An Int64 is an atom that is read as its number.
LEMMA Int64Is ==
    ASSUME NEW n \in Int
    PROVE  /\ Int64(n) \in Atom /\ PlainAtom(Int64(n)).n = n
           /\ Int64(n) # PlainInt(39)
<1>1. Int64(n) = [kind |-> "int64", n |-> n]
    BY DEF Int64
<1>2. Int64(n) \in [kind: {"int"} \cup IntKinds, n: Int]
    BY <1>1 DEF IntKinds
<1>3. PlainAtom(Int64(n)) = PlainInt(n)
    BY <1>1 DEF PlainAtom, IntKinds
<1>4. PlainInt(39).kind = "int" /\ PlainInt(n).n = n
    BY DEF PlainInt
<1> QED
    BY <1>1, <1>2, <1>3, <1>4 DEF Atom

\* A mapping of the names of a header to its values is that header.
LEMMA HeaderMapping ==
    ASSUME NEW m, IsMessage(m), NEW p,
           p = IF m.kind = Event THEN 2 ELSE IF m.kind = Request THEN 3 ELSE 4,
           NEW vals, Len(vals) = 2 * p,
           vals[1] = Protocol, vals[2] = Text(m.protocol),
           vals[3] = m.kind, vals[4] = Text(m.topic),
           p >= 3 => vals[5] = Id /\ vals[6].n = m.id,
           p = 4 => vals[7] = Status /\ vals[8].n = m.status,
           NEW c, c = MakeContainer("dict", vals)
    PROVE  IsHeader(c, m)
<1> DEFINE kind == m.kind
           name(k) == vals[2 * k - 1]
           value(k) == vals[2 * k]
<1>1. kind \in {Event, Request, Response} /\ p \in {2, 3, 4} /\ p \in Nat
    BY DEF IsMessage
<1>2. /\ name(1) = Protocol /\ value(1) = Text(m.protocol)
      /\ name(2) = kind /\ value(2) = Text(m.topic)
      /\ p >= 3 => name(3) = Id /\ value(3).n = m.id
      /\ p = 4 => name(4) = Status /\ value(4).n = m.status
    OBVIOUS
<1>3. /\ kind # Event => p >= 3
      /\ kind = Response => p = 4
    BY NamesAre
<1> HIDE DEF kind, name, value
<1>4. ASSUME NEW k \in 1..p
      PROVE  k = 1 \/ k = 2 \/ (k = 3 /\ p >= 3) \/ (k = 4 /\ p = 4)
    BY <1>1
<1>5. \A k \in 1..p : name(k).kind = "text"
    BY <1>1, <1>2, <1>4, NamesAre
<1>6. \A j, k \in 1..p : name(j) = name(k) => j = k
    <2>1. Protocol # kind /\ kind \notin {Id, Status}
        BY <1>1, NamesAre
    <2> QED
        BY <1>2, <1>4, <2>1, NamesAre
<1>7. /\ c.kind = "dict"
      /\ \A k \in 1..p : Has(c, name(k)) /\ Get(c, name(k)) = value(k)
      /\ \A key : Has(c, key) => \E k \in 1..p : key = name(k)
    <2>1. /\ \A k \in 1..p : vals[2 * k - 1].kind = "text"
          /\ \A j, k \in 1..p : vals[2 * j - 1] = vals[2 * k - 1] => j = k
        BY <1>5, <1>6 DEF name
    <2>2. AreNamed(vals, p)
        BY <1>1, <2>1 DEF AreNamed
    <2>3. HasNamed(c, vals, p)
        BY <2>2, MappingIs
    <2> QED
        BY <2>3 DEF HasNamed, name, value
<1>8. 1 \in 1..p /\ 2 \in 1..p /\ (p >= 3 => 3 \in 1..p) /\ (p = 4 => 4 \in 1..p)
    BY <1>1
<1>9. /\ Has(c, Protocol) /\ Get(c, Protocol) = Text(m.protocol)
      /\ Has(c, kind) /\ Get(c, kind) = Text(m.topic)
      /\ p >= 3 => Has(c, Id) /\ Get(c, Id).n = m.id
      /\ p = 4 => Has(c, Status) /\ Get(c, Status).n = m.status
    BY <1>2, <1>7, <1>8
<1>10. ASSUME NEW k \in {Event, Request, Response}, Has(c, k) PROVE k = kind
    <2>1. PICK j \in 1..p : k = name(j)
        BY <1>7, <1>10
    <2>2. k \in {Protocol, kind, Id, Status}
        BY <1>2, <1>4, <2>1
    <2> QED
        BY <2>2, NamesAre
<1> QED
    BY <1>3, <1>7, <1>9, <1>10 DEF IsHeader, kind

\* The header of a message is a document, and read as the header it is.
LEMMA HeaderIs ==
    ASSUME NEW m, IsMessage(m)
    PROVE  LET header == Dict(HeaderValues(m))
           IN  /\ IsWholeDocument(header) /\ AllKnown(header, Len(header))
               /\ IsHeader(Plain(header), m)
<1> DEFINE p == IF m.kind = Event THEN 2 ELSE IF m.kind = Request THEN 3 ELSE 4
           values == HeaderValues(m)
           plain == [j \in 1..Len(values) |-> PlainAtom(values[j])]
           header == Dict(values)
<1>1. /\ m.kind \in {Event, Request, Response}
      /\ m.protocol \in Seq(0..255) /\ m.topic \in Seq(0..255)
      /\ m.kind # Event => m.id \in Int
      /\ m.kind = Response => m.status \in Int
    BY DEF IsMessage
<1> DEFINE a == Text(m.protocol)
           b == Text(m.topic)
           i == Int64(m.id)
           s == Int64(m.status)
           Fine0(x) == x \in Atom /\ x # PlainInt(39)
<1>2. /\ Fine0(a) /\ PlainAtom(a) = a /\ Fine0(b) /\ PlainAtom(b) = b
      /\ m.kind # Event => Fine0(i) /\ PlainAtom(i).n = m.id
      /\ m.kind = Response => Fine0(s) /\ PlainAtom(s).n = m.status
    BY <1>1, TextIs, Int64Is
<1>3. ASSUME NEW x \in {Protocol, Event, Request, Response, Id, Status}
      PROVE  Fine0(x) /\ PlainAtom(x) = x
    <2>1. PlainInt(39).kind = "int"
        BY DEF PlainInt
    <2> QED
        BY <2>1, NamesAre
<1> HIDE DEF a, b, i, s, Fine0
<1>4. /\ Len(values) = 2 * p /\ p \in Nat /\ \A j \in 1..Len(values) : Fine0(values[j])
      /\ values \in Seq(Atom)
      /\ values[1] = Protocol /\ values[2] = a /\ values[3] = m.kind /\ values[4] = b
      /\ p >= 3 => values[5] = Id /\ values[6] = i
      /\ p = 4 => values[7] = Status /\ values[8] = s
    <2>1. CASE m.kind = Event
        <3>1. values = <<Protocol, a, Event, b>> /\ p = 2
            BY <2>1, NamesAre DEF HeaderValues, a, b
        <3> HIDE DEF values, p
        <3>2. /\ \A j \in 1..4 : Fine0(values[j])
              /\ Len(values) = 4
            BY <1>2, <1>3, <3>1
        <3>3. values \in Seq(Atom)
            BY <1>2, <1>3, <3>1 DEF Fine0
        <3> QED
            BY <2>1, <3>1, <3>2, <3>3
    <2>2. CASE m.kind = Request
        <3>1. values = <<Protocol, a, Request, b, Id, i>> /\ p = 3
            BY <2>2, NamesAre DEF HeaderValues, a, b, i
        <3> HIDE DEF values, p
        <3>2. m.kind # Event
            BY <2>2, NamesAre
        <3>3. /\ \A j \in 1..6 : Fine0(values[j])
              /\ Len(values) = 6
            BY <1>2, <1>3, <3>1, <3>2
        <3>4. values \in Seq(Atom)
            BY <1>2, <1>3, <3>1, <3>2 DEF Fine0
        <3> QED
            BY <2>2, <3>1, <3>3, <3>4
    <2>3. CASE m.kind = Response
        <3>1. values = <<Protocol, a, Response, b, Id, i, Status, s>> /\ p = 4
            BY <2>3, NamesAre DEF HeaderValues, a, b, i, s
        <3> HIDE DEF values, p
        <3>2. m.kind # Event
            BY <2>3, NamesAre
        <3>3. /\ \A j \in 1..8 : Fine0(values[j])
              /\ Len(values) = 8
            BY <1>2, <1>3, <2>3, <3>1, <3>2
        <3>4. values \in Seq(Atom)
            BY <1>2, <1>3, <2>3, <3>1, <3>2 DEF Fine0
        <3> QED
            BY <2>3, <3>1, <3>3, <3>4
    <2> QED
        BY <1>1, <2>1, <2>2, <2>3
<1>5. p = IF m.kind = Event THEN 2 ELSE IF m.kind = Request THEN 3 ELSE 4
    OBVIOUS
<1> HIDE DEF values, p
<1>6. /\ IsWholeDocument(header)
      /\ Plain(header) = MakeContainer("dict", plain)
      /\ AllKnown(header, Len(header))
    BY <1>4, DictIs DEF Fine0
<1>7. /\ Len(plain) = 2 * p
      /\ plain[1] = Protocol /\ plain[2] = a /\ plain[3] = m.kind /\ plain[4] = b
      /\ p >= 3 => plain[5] = Id /\ plain[6].n = m.id
      /\ p = 4 => plain[7] = Status /\ plain[8].n = m.status
    <2>1. p \in {2, 3, 4} /\ (p >= 3 => m.kind # Event) /\ (p = 4 => m.kind = Response)
        BY <1>1, <1>5
    <2>2. Len(plain) = 2 * p /\ \A j \in 1..2 * p : plain[j] = PlainAtom(values[j])
        BY <1>4
    <2>3. \A j \in 1..4 : j \in 1..2 * p
        BY <2>1
    <2>4. (p >= 3 => 5 \in 1..2 * p /\ 6 \in 1..2 * p) /\ (p = 4 => 7 \in 1..2 * p /\ 8 \in 1..2 * p)
        BY <2>1
    <2> HIDE DEF plain
    <2> QED
        BY <1>1, <1>2, <1>3, <1>4, <2>1, <2>2, <2>3, <2>4
<1> HIDE DEF plain
<1>8. IsHeader(Plain(header), m)
    BY <1>5, <1>6, <1>7, HeaderMapping DEF a, b
<1> QED
    BY <1>6, <1>8 DEF values

-----------------------------------------------------------------------------
(* Every message.                                                          *)

\* What _decode_message makes of a payload whose parts are a header and a
\* dictionary.
LEMMA MessageRead ==
    ASSUME NEW m, IsMessage(m),
           NEW payload, payload # <<>>, ~(1 + payload[1] > Len(payload)),
           NEW first, first = HdsDecode(SubSeq(payload, 2, 1 + payload[1])),
           NEW second,
           second = HdsDecode(SubSeq(payload, 1 + payload[1] + 1, Len(payload))),
           first.ok = TRUE, second.ok = TRUE,
           IsHeader(first.value, m), second.value.kind = "dict"
    PROVE  DecodeMessage(payload) =
              [ok |-> TRUE, kind |-> m.kind, protocol |-> Text(m.protocol),
               topic |-> Text(m.topic), message |-> second.value,
               id |-> m.id, status |-> m.status]
<1> DEFINE header == first.value
           kinds == {k \in {Event, Request, Response} : Has(header, k)}
           kind == IF Event \in kinds THEN Event
                   ELSE IF Request \in kinds THEN Request ELSE Response
           needed == {Protocol} \cup
                     (CASE kind = Event -> {}
                        [] kind = Request -> {Id}
                        [] kind = Response -> {Id, Status})
           Needed(key) == IF key \in needed THEN Get(header, key).n ELSE Nothing
           message == second.value
           Refused == \/ header.kind # "dict" \/ message.kind # "dict"
                      \/ kinds = {} \/ \E key \in needed : ~Has(header, key)
                      \/ Get(header, Protocol) = Text(<<>>)
<1>1. /\ m.kind \in {Event, Request, Response}
      /\ m.protocol \in Seq(0..255) /\ m.protocol # <<>>
      /\ m.kind # Event => m.id \in Int
      /\ m.kind = Event => m.id = Nothing
      /\ m.kind = Response => m.status \in Int
      /\ m.kind # Response => m.status = Nothing
    BY DEF IsMessage
<1>2. /\ header.kind = "dict"
      /\ \A k \in {Event, Request, Response} : Has(header, k) <=> k = m.kind
      /\ Has(header, Protocol) /\ Get(header, Protocol) = Text(m.protocol)
      /\ Get(header, m.kind) = Text(m.topic)
      /\ m.kind # Event => Has(header, Id) /\ Get(header, Id).n = m.id
      /\ m.kind = Response => Has(header, Status) /\ Get(header, Status).n = m.status
    BY DEF IsHeader
<1>a. DecodeMessage(payload) = MessageOf(header, message)
    BY DEF DecodeMessage
<1>b. message.kind = "dict"
    OBVIOUS
<1> HIDE DEF header, message
<1>3. MessageOf(header, message) =
         IF Refused THEN [ok |-> FALSE]
         ELSE [ok |-> TRUE, kind |-> kind, protocol |-> Get(header, Protocol),
               topic |-> Get(header, kind), message |-> message,
               id |-> Needed(Id), status |-> Needed(Status)]
    BY DEF MessageOf
<1>4. kinds = {m.kind}
    BY <1>1, <1>2
<1> HIDE DEF kinds
<1>5. kind = m.kind
    BY <1>1, <1>4, NamesAre
<1> HIDE DEF kind
<1>6. /\ m.kind = Event => needed = {Protocol}
      /\ m.kind = Request => needed = {Protocol, Id}
      /\ m.kind = Response => needed = {Protocol, Id, Status}
    BY <1>5, NamesAre
<1> HIDE DEF needed
<1>7. /\ \A key \in needed : Has(header, key)
      /\ Needed(Id) = m.id /\ Needed(Status) = m.status
    <2>1. CASE m.kind = Event
        BY <1>1, <1>2, <1>6, <2>1, NamesAre
    <2>2. CASE m.kind = Request
        BY <1>1, <1>2, <1>6, <2>2, NamesAre
    <2>3. CASE m.kind = Response
        BY <1>1, <1>2, <1>6, <2>3, NamesAre
    <2> QED
        BY <1>1, <2>1, <2>2, <2>3
<1>8. Text(m.protocol) # Text(<<>>)
    <2>1. <<>> \in Seq(0..255)
        OBVIOUS
    <2> QED
        BY <1>1, <2>1, TextIs
<1>9. ~Refused
    BY <1>2, <1>4, <1>7, <1>8, <1>b
<1> HIDE DEF Refused, Needed
<1> QED
    BY <1>2, <1>3, <1>5, <1>7, <1>9, <1>a DEF message

\* The parts of a payload are found behind its first byte, and at its length.
LEMMA PayloadParts ==
    ASSUME NEW a \in Seq(Int), NEW b \in Seq(Int)
    PROVE  LET payload == <<Len(a)>> \o a \o b IN
           /\ payload # <<>> /\ payload[1] = Len(a)
           /\ ~(1 + payload[1] > Len(payload))
           /\ SubSeq(payload, 2, 1 + payload[1]) = a
           /\ SubSeq(payload, 1 + payload[1] + 1, Len(payload)) = b
<1> DEFINE p == Len(a)
           q == Len(b)
           payload == <<Len(a)>> \o a \o b
<1>1. p \in Nat /\ q \in Nat
    OBVIOUS
<1>2. /\ payload \in Seq(Int) /\ Len(payload) = 1 + p + q
      /\ payload[1] = p
      /\ \A j \in 1..p : payload[j + 1] = a[j]
      /\ \A j \in 1..q : payload[j + 1 + p] = b[j]
    OBVIOUS
<1>3. a = [j \in 1..p |-> a[j]] /\ b = [j \in 1..q |-> b[j]]
    OBVIOUS
<1> HIDE DEF p, q
<1>4. SubSeq(payload, 2, 1 + p) = a
    <2>1. SubSeq(payload, 2, 1 + p) = [j \in 1..p |-> payload[j + 1]]
        BY <1>1, <1>2
    <2> QED
        BY <1>1, <1>2, <1>3, <2>1
<1>5. SubSeq(payload, 1 + p + 1, 1 + p + q) = b
    <2>1. SubSeq(payload, 1 + p + 1, 1 + p + q) = [j \in 1..q |-> payload[j + 1 + p]]
        BY <1>1, <1>2
    <2> QED
        BY <1>1, <1>2, <1>3, <2>1
<1>6. payload # <<>> /\ payload[1] = p /\ ~(1 + payload[1] > Len(payload))
    <2>1. Len(payload) # 0
        BY <1>1, <1>2
    <2> QED
        BY <1>1, <1>2, <2>1
<1> HIDE DEF payload
<1>7. /\ SubSeq(payload, 2, 1 + payload[1]) = a
      /\ SubSeq(payload, 1 + payload[1] + 1, Len(payload)) = b
    BY <1>2, <1>4, <1>5
<1> QED
    BY <1>6, <1>7 DEF p, payload

\* What is sent is a header of the message's kind, and the message.
LEMMA SentIs ==
    ASSUME NEW m, IsMessage(m)
    PROVE  Sent(m) = Payload(Dict(HeaderValues(m)), m.message)
<1>1. m.kind \in {Event, Request, Response}
    BY DEF IsMessage
<1>2. CASE m.kind = Event
    BY <1>2, NamesAre DEF Sent, HeaderValues, EventHeader
<1>3. CASE m.kind = Request
    BY <1>3, NamesAre DEF Sent, HeaderValues, RequestHeader
<1>4. CASE m.kind = Response
    BY <1>4, NamesAre DEF Sent, HeaderValues, ResponseHeader
<1> QED
    BY <1>1, <1>2, <1>3, <1>4

\* Every message that send_event, send_request or send_response puts in a frame
\* is dispatched by _decode_message as what it was sent as, whatever its
\* protocol, topic, numbers and dictionary are, but for a plain 39 in it
\* (HDSConnection, hds.py).
THEOREM EveryMessage ==
    ASSUME NEW m, IsMessage(m), Sent(m).ok
    PROVE  DecodeMessage(Sent(m).bytes) =
              [ok |-> TRUE, kind |-> m.kind, protocol |-> Text(m.protocol),
               topic |-> Text(m.topic), message |-> Plain(m.message),
               id |-> m.id, status |-> m.status]
<1> DEFINE header == Dict(HeaderValues(m))
           body == m.message
           a == HdsEncode(header).buf
           b == HdsEncode(body).buf
           payload == <<Len(a)>> \o a \o b
<1>1. /\ IsWholeDocument(header) /\ AllKnown(header, Len(header))
      /\ IsHeader(Plain(header), m)
    BY HeaderIs
<1>2. /\ IsWholeDocument(body) /\ AllKnown(body, Len(body))
      /\ Plain(body).kind = "dict"
    BY DEF IsMessage
<1>3. /\ HdsEncode(header).ok /\ HdsEncode(body).ok
      /\ Sent(m).bytes = payload
    <2> DEFINE first == HdsEncode(header)
               second == HdsEncode(body)
               bytes == <<Len(first.buf)>> \o first.buf \o second.buf
    <2>1. Sent(m) = [ok |-> /\ first.ok /\ second.ok
                            /\ Len(first.buf) <= MaxHeader
                            /\ Len(bytes) <= MaxPayload,
                     bytes |-> bytes]
        BY SentIs DEF Payload
    <2> HIDE DEF first, second
    <2>2. Sent(m).bytes = bytes
        <3> HIDE DEF bytes
        <3> QED
            BY <2>1
    <2>3. first.ok /\ second.ok
        <3> HIDE DEF bytes
        <3> QED
            BY <2>1
    <2> QED
        BY <2>2, <2>3 DEF first, second
<1> HIDE DEF header, body
<1>4. /\ a \in Seq(Int) /\ HdsDecode(a).ok = TRUE /\ HdsDecode(a).value = Plain(header)
    BY <1>1, <1>3, EveryDocument
<1>5. /\ b \in Seq(Int) /\ HdsDecode(b).ok = TRUE /\ HdsDecode(b).value = Plain(body)
    BY <1>2, <1>3, EveryDocument
<1> HIDE DEF a, b
<1>6. /\ payload # <<>> /\ ~(1 + payload[1] > Len(payload))
      /\ SubSeq(payload, 2, 1 + payload[1]) = a
      /\ SubSeq(payload, 1 + payload[1] + 1, Len(payload)) = b
    BY <1>4, <1>5, PayloadParts
<1> HIDE DEF payload
<1>7. DecodeMessage(payload) =
         [ok |-> TRUE, kind |-> m.kind, protocol |-> Text(m.protocol),
          topic |-> Text(m.topic), message |-> Plain(body),
          id |-> m.id, status |-> m.status]
    <2> DEFINE first == HdsDecode(a)
               second == HdsDecode(b)
    <2>1. /\ first = HdsDecode(SubSeq(payload, 2, 1 + payload[1]))
          /\ second = HdsDecode(SubSeq(payload, 1 + payload[1] + 1, Len(payload)))
        BY <1>6
    <2>2. /\ first.ok = TRUE /\ IsHeader(first.value, m)
          /\ second.ok = TRUE /\ second.value = Plain(body)
          /\ second.value.kind = "dict"
        BY <1>1, <1>2, <1>4, <1>5
    <2> HIDE DEF first, second
    <2>3. DecodeMessage(payload) =
             [ok |-> TRUE, kind |-> m.kind, protocol |-> Text(m.protocol),
              topic |-> Text(m.topic), message |-> second.value,
              id |-> m.id, status |-> m.status]
        BY ONLY <1>6, <2>1, <2>2, IsMessage(m), MessageRead
    <2> QED
        BY <2>2, <2>3
<1> QED
    BY <1>3, <1>7 DEF body

-----------------------------------------------------------------------------
(* The messages of the model.                                              *)

\* A message that is an input is one that can be sent.
MessageSent == "of" \in DOMAIN input /\ (input.of = "message" => IsMessage(input))

\* The topics and bodies that are tried are texts and dictionaries of atoms.
LEMMA BytesAre ==
    ASSUME NEW n \in Nat
    PROVE  Bytes(n) \in Seq(0..255) /\ Len(Bytes(n)) = n
<1>1. \A j \in 1..n : (64 + j) % 256 \in 0..255
    OBVIOUS
<1> QED
    BY <1>1 DEF Bytes

\* The bodies that are tried are dictionaries that can be read.
LEMMA BodiesAre ==
    ASSUME NEW topic \in Seq(0..255), NEW body \in Bodies(topic)
    PROVE  /\ IsList(body) /\ IsWholeDocument(body) /\ AllKnown(body, Len(body))
           /\ Plain(body).kind = "dict"
<1>1. ASSUME NEW values \in Seq(Atom), NEW p \in Nat, Len(values) = 2 * p,
             \A j \in 1..Len(values) : values[j] # PlainInt(39),
             body = Dict(values)
      PROVE  /\ IsList(body) /\ IsWholeDocument(body) /\ AllKnown(body, Len(body))
             /\ Plain(body).kind = "dict"
    <2> DEFINE plain == [j \in 1..Len(values) |-> PlainAtom(values[j])]
    <2>1. /\ IsList(body) /\ IsWholeDocument(body) /\ AllKnown(body, Len(body))
          /\ Plain(body) = MakeContainer("dict", plain)
        BY <1>1, DictIs
    <2> HIDE DEF plain
    <2>2. MakeContainer("dict", plain).kind = "dict"
        BY DEF MakeContainer
    <2> QED
        BY <2>1, <2>2
<1>2. ASSUME NEW x \in {Protocol, Event, Id, Status}
      PROVE  x \in Atom /\ x # PlainInt(39)
    <2>1. PlainInt(39).kind = "int"
        BY DEF PlainInt
    <2> QED
        BY <2>1, NamesAre
<1>3. /\ Text(topic) \in Atom /\ Text(topic) # PlainInt(39)
      /\ Text(<<1>>) \in Atom /\ Text(<<1>>) # PlainInt(39)
      /\ Int64(0) \in Atom /\ Int64(0) # PlainInt(39)
    <2>1. <<1>> \in Seq(0..255)
        OBVIOUS
    <2>2. Text(<<1>>) \in Atom /\ Text(<<1>>) # PlainInt(39)
        BY <2>1, TextIs
    <2>3. Text(topic) \in Atom /\ Text(topic) # PlainInt(39)
        BY TextIs
    <2>4. Int64(0) \in Atom /\ Int64(0) # PlainInt(39)
        BY Int64Is
    <2> QED
        BY <2>2, <2>3, <2>4
<1>4. Data(40) \in Atom /\ Data(40) # PlainInt(39)
    <2>1. Data(40) = [kind |-> "data", bytes |-> Bytes(40)] /\ Bytes(40) \in Seq(0..255)
        BY BytesAre DEF Data, PlainBytes
    <2>2. Data(40) \in [kind: DOMAIN Short, bytes: Seq(0..255)]
        BY <2>1, ShortAre
    <2>3. PlainInt(39).kind = "int" /\ Data(40).kind = "data"
        BY <2>1 DEF PlainInt
    <2> QED
        BY <2>2, <2>3 DEF Atom
<1>5. CASE body = Dict(<<>>)
    <2> DEFINE values == <<>>
    <2>1. /\ values \in Seq(Atom) /\ Len(values) = 2 * 0
          /\ \A j \in 1..Len(values) : values[j] # PlainInt(39)
        OBVIOUS
    <2> QED
        BY <1>1, <1>5, <2>1
<1>6. CASE body = Dict(<<Event, Text(topic), Status, Int64(0)>>)
    <2> DEFINE values == <<Event, Text(topic), Status, Int64(0)>>
    <2>1. /\ values \in Seq(Atom) /\ Len(values) = 2 * 2
          /\ \A j \in 1..Len(values) : values[j] # PlainInt(39)
        BY <1>2, <1>3
    <2> QED
        BY <1>1, <1>6, <2>1
<1>7. CASE body = Dict(<<Protocol, Text(<<1>>), Id, Data(40)>>)
    <2> DEFINE values == <<Protocol, Text(<<1>>), Id, Data(40)>>
    <2>1. /\ values \in Seq(Atom) /\ Len(values) = 2 * 2
          /\ \A j \in 1..Len(values) : values[j] # PlainInt(39)
        BY <1>2, <1>3, <1>4
    <2> QED
        BY <1>1, <1>7, <2>1
<1> QED
    BY <1>5, <1>6, <1>7 DEF Bodies

\* So what Message sends is a message of one of the three kinds.
LEMMA MessageIs ==
    ASSUME Message
    PROVE  "of" \in DOMAIN input' /\ IsMessage(input')
<1>a. PICK kind \in {Event, Request, Response} : \E topic \in Topic :
         \E message \in Bodies(topic) : \E id \in {0, 40, 2147483647} :
         \E status \in {0, 6} :
         input' = [of |-> "message", kind |-> kind, protocol |-> Bytes(8),
                   topic |-> topic, message |-> message,
                   id |-> IF kind = Event THEN Nothing ELSE id,
                   status |-> IF kind = Response THEN status ELSE Nothing]
    BY DEF Message
<1>b. PICK topic \in Topic :
         \E message \in Bodies(topic) : \E id \in {0, 40, 2147483647} :
         \E status \in {0, 6} :
         input' = [of |-> "message", kind |-> kind, protocol |-> Bytes(8),
                   topic |-> topic, message |-> message,
                   id |-> IF kind = Event THEN Nothing ELSE id,
                   status |-> IF kind = Response THEN status ELSE Nothing]
    BY <1>a
<1>1. PICK message \in Bodies(topic), id \in {0, 40, 2147483647}, status \in {0, 6} :
         input' = [of |-> "message", kind |-> kind, protocol |-> Bytes(8),
                   topic |-> topic, message |-> message,
                   id |-> IF kind = Event THEN Nothing ELSE id,
                   status |-> IF kind = Response THEN status ELSE Nothing]
    BY <1>b
<1>2. topic \in Seq(0..255)
    <2>1. PICK n \in {0, 4} \cup 195..236 : topic = Bytes(n)
        BY DEF Topic
    <2>2. n \in Nat
        OBVIOUS
    <2> QED
        BY <2>1, <2>2, BytesAre
<1>3. Bytes(8) \in Seq(0..255) /\ Bytes(8) # <<>>
    BY BytesAre
<1>4. /\ IsList(message) /\ IsWholeDocument(message)
      /\ AllKnown(message, Len(message)) /\ Plain(message).kind = "dict"
    BY <1>2, BodiesAre
<1> DEFINE text == Bytes(8)
           sent == IF kind = Event THEN Nothing ELSE id
           state == IF kind = Response THEN status ELSE Nothing
<1>5. /\ kind # Event => sent \in Int
      /\ kind = Event => sent = Nothing
      /\ kind = Response => state \in Int
      /\ kind # Response => state = Nothing
    OBVIOUS
<1> HIDE DEF text, sent, state
<1>6. /\ "of" \in DOMAIN input'
      /\ input'.kind = kind /\ input'.protocol = text /\ input'.topic = topic
      /\ input'.message = message /\ input'.id = sent /\ input'.status = state
    BY <1>1 DEF text, sent, state
<1> QED
    BY <1>2, <1>3, <1>4, <1>5, <1>6 DEF IsMessage, text

\* What is sent is a message of one of the three kinds (MCCodecs, Message).
THEOREM MessagesSent == Spec => []MessageSent
<1>1. Init => MessageSent
    <2>1. ASSUME \/ input = [of |-> "none"]
                 \/ input = [of |-> "entries", entries |-> <<>>]
                 \/ input = [of |-> "targets", targets |-> {}]
                 \/ input = [of |-> "document", doc |-> <<>>]
          PROVE  "of" \in DOMAIN input /\ input.of # "message"
        BY <2>1
    <2> QED
        BY <2>1 DEF Init, EntriesInit, TargetsInit, MessageSent
<1>2. ASSUME MessageSent, [Next]_input PROVE MessageSent'
    <2>1. CASE AddEntry
        <3>1. PICK entries : input' = [input EXCEPT !.entries = entries]
            BY <2>1 DEF AddEntry
        <3>2. "of" \in DOMAIN input' /\ input'.of = "entries"
            BY <1>2, <2>1, <3>1 DEF MessageSent, AddEntry
        <3> QED
            BY <3>2 DEF MessageSent
    <2>2. CASE AddTarget
        <3>1. PICK targets : input' = [input EXCEPT !.targets = targets]
            BY <2>2 DEF AddTarget
        <3>2. "of" \in DOMAIN input' /\ input'.of = "targets"
            BY <1>2, <2>2, <3>1 DEF MessageSent, AddTarget
        <3> QED
            BY <3>2 DEF MessageSent
    <2>3. CASE AddValue
        <3>1. PICK doc : input' = [input EXCEPT !.doc = doc]
            BY <2>3 DEF AddValue
        <3>2. "of" \in DOMAIN input' /\ input'.of = "document"
            BY <1>2, <2>3, <3>1 DEF MessageSent, AddValue
        <3> QED
            BY <3>2 DEF MessageSent
    <2>4. CASE Message
        BY <2>4, MessageIs DEF MessageSent
    <2>5. CASE UNCHANGED input
        BY <1>2, <2>5 DEF MessageSent
    <2> QED
        BY <1>2, <2>1, <2>2, <2>3, <2>4, <2>5 DEF Next
<1> QED
    BY <1>1, <1>2, PTL DEF Spec

\* A message that is sent is dispatched as what it was sent as: its header is
\* found at its length, and neither part refers to the other (_send and
\* _decode_message, hds.py).
THEOREM MessagesAreReadBack == Spec => []MessageRoundTrip
<1>1. MessageSent => MessageRoundTrip
    BY EveryMessage DEF MessageSent, MessageRoundTrip
<1> QED
    BY <1>1, MessagesSent, PTL
=============================================================================
