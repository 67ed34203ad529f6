----------------------------- MODULE Tlv8Proofs -----------------------------
(***************************************************************************)
(* What the readers of tlv8.py make of bytes its writer has written, for   *)
(* entries of any number and length and for every MaxChunk.                *)
(*                                                                         *)
(* encode writes segments one after another: SegmentsReadBack says that    *)
(* segments finds them again, EntriesReadBack that decode joins them to    *)
(* the values they were cut from, ListReadBack that decode_list splits     *)
(* them at the items they are of, CutOffRead that bytes which end too      *)
(* early are not taken for others.  Sequences that are built by a          *)
(* recursive function are described by the places where their parts lie;   *)
(* what holds at one place is carried to the next by Induction.            *)
(*                                                                         *)
(* The target list of remote.py is made of such entries: TargetReadBack    *)
(* and TargetListReadBack say that its targets are read back with all they *)
(* have, for any set of targets with identifiers of their own.             *)
(***************************************************************************)
EXTENDS MCTargets, FiniteSetTheorems, SequenceTheorems, WellFoundedInduction, TLAPS

\* What holds of 0, and of n + 1 where it holds of n, holds of every n: the
\* library's induction, for a set instead of an operator.
LEMMA Induction ==
    ASSUME NEW P, 0 \in P, \A n \in Nat : n \in P => n + 1 \in P
    PROVE  Nat \subseteq P
<1> DEFINE rest == Nat \ P
<1> SUFFICES ASSUME rest # {} PROVE FALSE
    OBVIOUS
<1>1. PICK x \in rest : \A y \in rest : <<y, x>> \notin OpToRel(<, Nat)
    BY NatLessThanWellFounded, WFMin
<1>2. x # 0 /\ x - 1 \in Nat /\ x - 1 < x
    OBVIOUS
<1>3. x - 1 \notin rest
    BY <1>1, <1>2 DEF OpToRel
<1> QED
    BY <1>2, <1>3

\* The sequences joined one after another: f[i] is the first i of them.
Joins(f, seqs, n, T) ==
    /\ f \in [0..n -> Seq(T)]
    /\ f[0] = <<>>
    /\ \A i \in 1..n : f[i] = f[i - 1] \o seqs[i]

\* A sequence more can be joined to those that are.
LEMMA JoinsNext ==
    ASSUME NEW T, NEW seqs \in Seq(Seq(T)), NEW n \in Nat, n < Len(seqs),
           NEW f, Joins(f, seqs, n, T)
    PROVE  \E g : Joins(g, seqs, n + 1, T)
<1> DEFINE more == f[n] \o seqs[n + 1]
           g == [i \in 0..n + 1 |-> IF i = n + 1 THEN more ELSE f[i]]
<1>1. seqs[n + 1] \in Seq(T) /\ f[n] \in Seq(T)
    BY DEF Joins
<1>2. more \in Seq(T)
    BY <1>1
<1>3. \A i \in 0..n : f[i] \in Seq(T)
    BY DEF Joins
<1> HIDE DEF more
<1>4. g[n + 1] = more /\ \A i \in 0..n : g[i] = f[i]
    OBVIOUS
<1>5. g \in [0..n + 1 -> Seq(T)]
    BY <1>2, <1>3
<1> HIDE DEF g
<1>6. ASSUME NEW i \in 1..n + 1 PROVE g[i] = g[i - 1] \o seqs[i]
    <2>1. CASE i = n + 1
        <3>1. g[i - 1] = f[n] /\ g[i] = more
            BY <2>1, <1>4
        <3> QED
            BY <2>1, <3>1 DEF more
    <2>2. CASE i # n + 1
        <3>1. i \in 1..n /\ g[i - 1] = f[i - 1] /\ g[i] = f[i]
            BY <2>2, <1>4
        <3>2. f[i] = f[i - 1] \o seqs[i]
            BY <3>1 DEF Joins
        <3> QED
            BY <3>1, <3>2
    <2> QED
        BY <2>1, <2>2
<1>7. g[0] = <<>>
    BY <1>4 DEF Joins
<1>8. Joins(g, seqs, n + 1, T)
    BY <1>5, <1>6, <1>7 DEF Joins
<1> QED
    BY <1>8

\* Sequences can be joined one after another.
LEMMA JoinsExist ==
    ASSUME NEW T, NEW seqs \in Seq(Seq(T))
    PROVE  \E f : Joins(f, seqs, Len(seqs), T)
<1> DEFINE P == {n \in Nat : n <= Len(seqs) => \E f : Joins(f, seqs, n, T)}
<1>1. 0 \in P
    <2> DEFINE e == [i \in 0..0 |-> <<>>]
    <2>1. e \in [0..0 -> Seq(T)] /\ e[0] = <<>>
        OBVIOUS
    <2>2. Joins(e, seqs, 0, T)
        BY <2>1 DEF Joins
    <2> QED
        BY <2>2
<1>2. ASSUME NEW n \in Nat, n \in P PROVE n + 1 \in P
    <2> SUFFICES ASSUME n + 1 <= Len(seqs) PROVE \E f : Joins(f, seqs, n + 1, T)
        OBVIOUS
    <2>1. n < Len(seqs)
        OBVIOUS
    <2>2. PICK f : Joins(f, seqs, n, T)
        BY <1>2, <2>1
    <2> QED
        BY <2>1, <2>2, JoinsNext
<1> HIDE DEF P
<1>3. Nat \subseteq P
    BY <1>1, <1>2, Induction
<1> QED
    BY <1>3 DEF P

\* The community modules' FlattenSeq joins them like this.
LEMMA FlattenJoins ==
    ASSUME NEW T, NEW seqs \in Seq(Seq(T)), NEW f, Joins(f, seqs, Len(seqs), T)
    PROVE  FlattenSeq(seqs) = f[Len(seqs)]
<1>1. CASE Len(seqs) = 0
    BY <1>1 DEF FlattenSeq, Joins
<1>2. CASE Len(seqs) # 0
    <2> DEFINE n == Len(seqs)
               Is(g) == g = [i \in 1..n |-> IF i = 1 THEN seqs[i] ELSE g[i - 1] \o seqs[i]]
               flat == CHOOSE g : Is(g)
    <2>1. FlattenSeq(seqs) = flat[n]
        BY <1>2 DEF FlattenSeq
    <2> DEFINE h == [i \in 1..n |-> f[i]]
    <2>2. \A i \in 1..n : h[i] = IF i = 1 THEN seqs[i] ELSE h[i - 1] \o seqs[i]
        <3> TAKE i \in 1..n
        <3>1. h[i] = f[i] /\ f[i] = f[i - 1] \o seqs[i]
            BY DEF Joins
        <3>2. CASE i = 1
            <4>1. f[0] = <<>> /\ seqs[1] \in Seq(T)
                BY <1>2 DEF Joins
            <4>2. <<>> \o seqs[1] = seqs[1]
                BY <4>1
            <4>3. i - 1 = 0
                BY <3>2
            <4> HIDE DEF h
            <4>4. h[i] = seqs[i]
                BY <3>1, <3>2, <4>1, <4>2, <4>3
            <4> QED
                BY <3>2, <4>4
        <3>3. CASE i # 1
            <4>1. i - 1 \in 1..n
                BY <3>3
            <4>2. h[i - 1] = f[i - 1]
                BY <4>1
            <4> HIDE DEF h
            <4> QED
                BY <3>1, <3>3, <4>2
        <3> QED
            BY <3>2, <3>3
    <2> DEFINE body == [i \in 1..n |-> IF i = 1 THEN seqs[i] ELSE h[i - 1] \o seqs[i]]
    <2>3. h = body
        <3>1. \A i \in 1..n : h[i] = body[i]
            BY <2>2
        <3> QED
            BY <3>1
    <2>4. Is(h)
        BY <2>3
    <2>5. Is(flat)
        <3> HIDE DEF Is, h
        <3> QED
            BY <2>4
    <2> HIDE DEF flat
    <2>6. \A i \in 1..n : flat[i] = IF i = 1 THEN seqs[i] ELSE flat[i - 1] \o seqs[i]
        BY <2>5
    <2> DEFINE P == {i \in Nat : i \in 1..n => flat[i] = h[i]}
    <2> HIDE DEF h
    <2>7. 0 \in P
        OBVIOUS
    <2>8. ASSUME NEW i \in Nat, i \in P PROVE i + 1 \in P
        <3> SUFFICES ASSUME i + 1 \in 1..n PROVE flat[i + 1] = h[i + 1]
            OBVIOUS
        <3>1. CASE i = 0
            BY <2>2, <2>6, <3>1
        <3>2. CASE i # 0
            <4>1. i \in 1..n /\ flat[i] = h[i] /\ (i + 1) - 1 = i /\ i + 1 # 1
                BY <2>8, <3>2
            <4> QED
                BY <2>2, <2>6, <4>1
        <3> QED
            BY <3>1, <3>2
    <2>9. Nat \subseteq P
        <3> HIDE DEF P
        <3> QED
            BY <2>7, <2>8, Induction
    <2>10. flat[n] = h[n]
        BY <1>2, <2>9
    <2> QED
        BY <1>2, <2>1, <2>10 DEF h
<1> QED
    BY <1>1, <1>2

\* What joining the next one does.
Joined(f, seqs, m) ==
    /\ Len(f[m]) \in Nat /\ Len(f[m + 1]) \in Nat /\ Len(seqs[m + 1]) \in Nat
    /\ Len(f[m + 1]) = Len(f[m]) + Len(seqs[m + 1])
    /\ \A x \in 1..Len(f[m]) : f[m + 1][x] = f[m][x]
    /\ \A x \in 1..Len(seqs[m + 1]) : f[m + 1][Len(f[m]) + x] = seqs[m + 1][x]

\* Each of the sequences is where those before it end.
LEMMA JoinsAt ==
    ASSUME NEW T, NEW seqs \in Seq(Seq(T)), NEW f, Joins(f, seqs, Len(seqs), T),
           NEW m \in Nat, m < Len(seqs)
    PROVE  Joined(f, seqs, m)
<1>1. m + 1 \in 1..Len(seqs) /\ (m + 1) - 1 = m /\ m \in 0..Len(seqs)
    OBVIOUS
<1> DEFINE a == f[m]
           b == seqs[m + 1]
<1>2. a \in Seq(T) /\ b \in Seq(T)
    <2>1. a \in Seq(T)
        BY <1>1 DEF Joins
    <2>2. b \in Seq(T)
        BY <1>1
    <2> QED
        BY <2>1, <2>2
<1>3. f[m + 1] = a \o b
    BY <1>1 DEF Joins
<1> HIDE DEF a, b
<1>4. /\ a \o b \in Seq(T) /\ Len(a \o b) = Len(a) + Len(b)
      /\ \A x \in 1..Len(a) : (a \o b)[x] = a[x]
      /\ \A x \in 1..Len(b) : (a \o b)[Len(a) + x] = b[x]
    BY <1>2, ConcatProperties
<1>5. Len(a) \in Nat /\ Len(b) \in Nat /\ Len(a \o b) \in Nat
    BY <1>2, <1>4
<1> QED
    BY <1>3, <1>4, <1>5 DEF a, b, Joined

\* What comes first stays where it is.
Before(f, i, j) ==
    /\ Len(f[i]) \in Nat /\ Len(f[j]) \in Nat /\ Len(f[i]) <= Len(f[j])
    /\ \A x \in 1..Len(f[i]) : f[j][x] = f[i][x]

\* What is joined stays as it is when more is joined to it.
LEMMA JoinsPrefix ==
    ASSUME NEW T, NEW seqs \in Seq(Seq(T)), NEW f, Joins(f, seqs, Len(seqs), T),
           NEW i \in 0..Len(seqs), NEW j \in i..Len(seqs)
    PROVE  Before(f, i, j)
<1> DEFINE Keeps(m) == /\ Len(f[i]) <= Len(f[m])
                       /\ \A x \in 1..Len(f[i]) : f[m][x] = f[i][x]
           P == {d \in Nat : i + d <= Len(seqs) => Keeps(i + d)}
<1>1. \A m \in 0..Len(seqs) : f[m] \in Seq(T) /\ Len(f[m]) \in Nat
    <2>1. f \in [0..Len(seqs) -> Seq(T)]
        BY DEF Joins
    <2>2. \A m \in 0..Len(seqs) : f[m] \in Seq(T)
        BY <2>1
    <2> QED
        BY <2>2
<1>2. 0 \in P
    BY <1>1
<1>3. ASSUME NEW d \in Nat, d \in P PROVE d + 1 \in P
    <2> SUFFICES ASSUME i + (d + 1) <= Len(seqs) PROVE Keeps(i + (d + 1))
        OBVIOUS
    <2> DEFINE m == i + d
    <2>1. m \in Nat /\ m < Len(seqs) /\ i + (d + 1) = m + 1
        OBVIOUS
    <2>2. Keeps(m)
        BY <1>3, <2>1
    <2> HIDE DEF m
    <2>3. Joined(f, seqs, m)
        BY <2>1, JoinsAt
    <2>4. Len(f[i]) \in Nat
        BY <1>1
    <2>5. Len(f[i]) <= Len(f[m + 1])
        <3> DEFINE a == Len(f[i])
                   b == Len(f[m])
                   c == Len(f[m + 1])
                   d1 == Len(seqs[m + 1])
        <3>1. a \in Nat /\ a <= b
            BY <2>2, <2>4
        <3>2. b \in Nat /\ c \in Nat /\ d1 \in Nat /\ c = b + d1
            BY <2>3 DEF Joined
        <3> HIDE DEF a, b, c, d1
        <3>3. a <= c
            BY <3>1, <3>2
        <3> QED
            BY <3>3 DEF a, c
    <2>6. Keeps(m + 1)
        <3> SUFFICES ASSUME NEW x \in 1..Len(f[i]) PROVE f[m + 1][x] = f[i][x]
            BY <2>5
        <3>1. x \in 1..Len(f[m]) /\ f[m][x] = f[i][x]
            BY <2>2, <2>3, <2>4 DEF Joined
        <3> QED
            BY <2>3, <3>1 DEF Joined
    <2> QED
        BY <2>1, <2>6
<1> HIDE DEF P
<1>4. j - i \in P
    <2>1. Nat \subseteq P
        BY <1>2, <1>3, Induction
    <2> QED
        BY <2>1
<1>5. Keeps(j)
    BY <1>4 DEF P
<1> QED
    BY <1>1, <1>5 DEF Before

\* seqs[m + 1] lies in whole behind place[m].
Lies(whole, place, seqs, m) ==
    /\ place[m] \in Nat /\ place[m + 1] \in Nat
    /\ place[m + 1] = place[m] + Len(seqs[m + 1])
    /\ place[m + 1] <= Len(whole)
    /\ \A x \in 1..Len(seqs[m + 1]) : whole[place[m] + x] = seqs[m + 1][x]

\* Every one of the sequences is found in what they are flattened to.
LEMMA FlattenHas ==
    ASSUME NEW T, NEW seqs \in Seq(Seq(T))
    PROVE  /\ FlattenSeq(seqs) \in Seq(T)
           /\ \E place \in [0..Len(seqs) -> Nat] :
                 /\ place[0] = 0 /\ place[Len(seqs)] = Len(FlattenSeq(seqs))
                 /\ \A m \in 0..Len(seqs) - 1 :
                       Lies(FlattenSeq(seqs), place, seqs, m)
<1> DEFINE n == Len(seqs)
           whole == FlattenSeq(seqs)
<1>1. n \in Nat
    OBVIOUS
<1>2. PICK f : Joins(f, seqs, n, T)
    BY JoinsExist
<1>3. whole = f[n]
    BY <1>2, FlattenJoins
<1> HIDE DEF whole, n
<1>4. \A m \in 0..n : f[m] \in Seq(T) /\ Len(f[m]) \in Nat
    BY <1>2 DEF Joins
<1> DEFINE place == [m \in 0..n |-> Len(f[m])]
<1>5. /\ place \in [0..n -> Nat] /\ whole \in Seq(T)
      /\ place[0] = 0 /\ place[n] = Len(whole)
    BY <1>1, <1>2, <1>3, <1>4 DEF Joins
<1>6. ASSUME NEW m \in 0..n - 1 PROVE Lies(whole, place, seqs, m)
    <2>1. /\ m \in Nat /\ m < n /\ m \in 0..n /\ m + 1 \in 0..n
          /\ n \in m + 1..n
        BY <1>1
    <2>2. place[m] = Len(f[m]) /\ place[m + 1] = Len(f[m + 1])
        BY <2>1
    <2>3. place[m] \in Nat /\ place[m + 1] \in Nat
        BY <1>4, <2>1, <2>2
    <2> HIDE DEF place
    <2>4. Joined(f, seqs, m)
        BY <1>2, <2>1, JoinsAt DEF n
    <2>5. Before(f, m + 1, n)
        BY <1>2, <2>1, JoinsPrefix DEF n
    <2> DEFINE b == seqs[m + 1]
               p == place[m]
               q == place[m + 1]
               l == Len(b)
    <2>6. l \in Nat /\ q = p + l /\ \A x \in 1..l : f[m + 1][p + x] = b[x]
        BY <2>2, <2>4 DEF Joined
    <2>7. q <= Len(whole) /\ \A x \in 1..q : whole[x] = f[m + 1][x]
        BY <1>3, <2>2, <2>5 DEF Before
    <2> HIDE DEF b, p, q, l
    <2>8. \A x \in 1..l : p + x \in 1..q
        BY <2>3, <2>6 DEF p, q
    <2>9. \A x \in 1..l : whole[p + x] = b[x]
        BY <2>6, <2>7, <2>8
    <2> QED
        BY <2>3, <2>6, <2>7, <2>9 DEF Lies, b, p, q, l
<1> HIDE DEF place
<1> QED
    BY <1>5, <1>6 DEF n, whole

-----------------------------------------------------------------------------
(* Segments.                                                               *)

\* What is returned is the value, and no error.
LEMMA ReturnsValue ==
    ASSUME NEW v PROVE Returns(v).ok /\ Returns(v).value = v
BY DEF Returns

\* What segments() reads behind i bytes, if it reads from[end] behind end.
Rest(from, data, i) ==
    LET end == i + 2 + data[i + 2]
    IN  IF i = Len(data) THEN Returns(<<>>)
        ELSE IF i + 2 > Len(data) \/ end > Len(data) THEN Raises
        ELSE IF ~from[end].ok THEN Raises
        ELSE Returns(<< <<data[i + 1], SubSeq(data, i + 3, end)>> >>
                     \o from[end].value)

\* What is read behind i bytes depends on later places alone.
LEMMA RestLater ==
    ASSUME NEW data \in Seq(Nat), NEW i \in 0..Len(data), NEW f, NEW g,
           \A k \in i + 1..Len(data) : f[k] = g[k]
    PROVE  Rest(f, data, i) = Rest(g, data, i)
<1>1. CASE i = Len(data) \/ i + 2 > Len(data) \/ i + 2 + data[i + 2] > Len(data)
    BY <1>1 DEF Rest
<1>2. CASE i + 2 <= Len(data) /\ i + 2 + data[i + 2] <= Len(data)
    <2>1. data[i + 2] \in Nat
        BY <1>2
    <2>2. i + 2 + data[i + 2] \in i + 1..Len(data)
        <3> DEFINE d == data[i + 2]
                   last == Len(data)
        <3>1. d \in Nat /\ last \in Nat /\ i \in Nat /\ i + 2 + d <= last
            BY <1>2, <2>1
        <3> HIDE DEF d, last
        <3>2. i + 2 + d \in i + 1..last
            BY <3>1
        <3> QED
            BY <3>2 DEF d, last
    <2>3. f[i + 2 + data[i + 2]] = g[i + 2 + data[i + 2]]
        BY <2>2
    <2> QED
        BY <2>3 DEF Rest
<1> QED
    BY <1>1, <1>2

\* The recursive function of segments exists: each place is read from those
\* behind it, from the end of the bytes on.
LEMMA ReadingExists ==
    ASSUME NEW data \in Seq(Nat)
    PROVE  \E f : f = [i \in 0..Len(data) |-> Rest(f, data, i)]
<1> DEFINE n == Len(data)
           ReadBehind(f, d) == f = [i \in n - d..n |-> Rest(f, data, i)]
           P == {d \in Nat : d <= n => \E f : ReadBehind(f, d)}
<1>1. 0 \in P
    <2> DEFINE f == [i \in n - 0..n |-> Returns(<<>>)]
    <2>1. \A i \in n - 0..n : Rest(f, data, i) = Returns(<<>>)
        BY DEF Rest
    <2>2. ReadBehind(f, 0)
        BY <2>1
    <2> HIDE DEF ReadBehind
    <2> QED
        BY <2>2
<1>2. ASSUME NEW d \in Nat, d \in P PROVE d + 1 \in P
    <2> SUFFICES ASSUME d + 1 <= n PROVE \E f : ReadBehind(f, d + 1)
        BY DEF P
    <2>1. PICK f : ReadBehind(f, d)
        BY <1>2 DEF P
    <2> DEFINE g == [i \in n - (d + 1)..n |->
                        IF i = n - (d + 1) THEN Rest(f, data, i) ELSE f[i]]
    <2> HIDE DEF n
    <2>n. n \in Nat
        BY DEF n
    <2>2. \A i \in n - d..n : g[i] = f[i] /\ f[i] = Rest(f, data, i)
        <3>1. \A i \in n - d..n : f[i] = Rest(f, data, i)
            BY <2>1
        <3>2. \A i \in n - d..n : i \in n - (d + 1)..n /\ i # n - (d + 1)
            BY <2>n
        <3> QED
            BY <3>1, <3>2
    <2>3. g[n - (d + 1)] = Rest(f, data, n - (d + 1))
        BY <2>n
    <2>4. ASSUME NEW i \in n - (d + 1)..n PROVE g[i] = Rest(g, data, i)
        <3>1. i \in 0..n /\ i + 1..n \subseteq n - d..n
            BY <2>n
        <3> HIDE DEF g
        <3>2. \A k \in i + 1..n : f[k] = g[k]
            BY <3>1, <2>2
        <3>3. Rest(f, data, i) = Rest(g, data, i)
            BY <3>1, <3>2, RestLater DEF n
        <3>4. g[i] = Rest(f, data, i)
            BY <2>2, <2>3, <2>n
        <3> QED
            BY <3>3, <3>4
    <2>5. g = [i \in n - (d + 1)..n |-> g[i]]
        OBVIOUS
    <2>6. ReadBehind(g, d + 1)
        <3> HIDE DEF g
        <3> QED
            BY <2>4, <2>5
    <2> HIDE DEF ReadBehind
    <2> QED
        BY <2>6
<1>3. n \in P
    <2> HIDE DEF P
    <2>1. Nat \subseteq P
        BY <1>1, <1>2, Induction
    <2> QED
        BY <2>1
<1>4. n - n = 0
    OBVIOUS
<1> HIDE DEF n
<1> QED
    BY <1>3, <1>4 DEF n

\* What segments() makes of data, as one may reason about it.
LEMMA SegmentsReads ==
    ASSUME NEW data \in Seq(Nat)
    PROVE  \E f : /\ \A i \in 0..Len(data) : f[i] = Rest(f, data, i)
                  /\ Segments(data) = f[0]
<1> DEFINE Is(f) == f = [i \in 0..Len(data) |-> Rest(f, data, i)]
           from == CHOOSE f : Is(f)
<1>1. Segments(data) = from[0]
    BY DEF Segments, Rest
<1>2. \E f : Is(f)
    BY ReadingExists
<1>3. Is(from)
    <2> HIDE DEF Is
    <2> QED
        BY <1>2
<1> HIDE DEF from
<1>4. \A i \in 0..Len(data) : from[i] = Rest(from, data, i)
    BY <1>3
<1> QED
    BY <1>1, <1>4

-----------------------------------------------------------------------------
(* Segments that are written are read back.                                *)

Segment == Nat \X Seq(Nat)

Header(s) == <<s[1], Len(s[2])>>

\* The bytes of a segment are its tag, its length and its value.
LEMMA HeaderFirst ==
    ASSUME NEW s \in Segment
    PROVE  LET bytes == Header(s) \o s[2]
           IN  /\ bytes \in Seq(Nat) /\ Len(bytes) = Len(s[2]) + 2
               /\ bytes[1] = s[1] /\ bytes[2] = Len(s[2])
               /\ \A x \in 1..Len(s[2]) : bytes[2 + x] = s[2][x]
<1> DEFINE h == Header(s)
           v == s[2]
<1>1. s[1] \in Nat /\ v \in Seq(Nat) /\ Len(v) \in Nat
    BY DEF Segment
<1>2. h \in Seq(Nat) /\ Len(h) = 2 /\ h[1] = s[1] /\ h[2] = Len(v)
    BY <1>1 DEF Header
<1> HIDE DEF h, v
<1>a. /\ h \o v \in Seq(Nat) /\ Len(h \o v) = Len(h) + Len(v)
      /\ \A x \in 1..Len(h) + Len(v) :
             (h \o v)[x] = IF x <= Len(h) THEN h[x] ELSE v[x - Len(h)]
    BY <1>1, <1>2, ConcatProperties
<1> DEFINE w == h \o v
<1> HIDE DEF w
<1>b. /\ w \in Seq(Nat) /\ Len(w) = Len(h) + Len(v)
      /\ \A x \in 1..Len(h) + Len(v) : w[x] = IF x <= Len(h) THEN h[x] ELSE v[x - Len(h)]
    BY <1>a DEF w
<1>3. /\ w \in Seq(Nat) /\ Len(w) = 2 + Len(v)
      /\ \A x \in 1..2 + Len(v) : w[x] = IF x <= 2 THEN h[x] ELSE v[x - 2]
    BY <1>2, <1>b
<1>4. \A x \in 1..Len(v) : 2 + x \in 1..2 + Len(v) /\ ~(2 + x <= 2) /\ (2 + x) - 2 = x
    BY <1>1
<1>5. 1 \in 1..2 + Len(v) /\ 2 \in 1..2 + Len(v)
    BY <1>1
<1>6. /\ w[1] = s[1] /\ w[2] = Len(v)
      /\ \A x \in 1..Len(v) : w[2 + x] = v[x]
    BY <1>2, <1>3, <1>4, <1>5
<1>7. Len(w) = Len(v) + 2
    BY <1>1, <1>3
<1> QED
    BY <1>3, <1>6, <1>7 DEF h, v, w

\* Every segment is found where it was written.
LEMMA ExtendedHas ==
    ASSUME NEW segs \in Seq(Segment)
    PROVE  \E place \in [0..Len(segs) -> Nat] :
              /\ Extended(segs) \in Seq(Nat)
              /\ place[0] = 0 /\ place[Len(segs)] = Len(Extended(segs))
              /\ \A m \in 0..Len(segs) - 1 :
                    LET s == segs[m + 1]
                    IN  /\ place[m + 1] = place[m] + 2 + Len(s[2])
                        /\ place[m + 1] <= Len(Extended(segs))
                        /\ Extended(segs)[place[m] + 1] = s[1]
                        /\ Extended(segs)[place[m] + 2] = Len(s[2])
                        /\ \A x \in 1..Len(s[2]) :
                              Extended(segs)[place[m] + 2 + x] = s[2][x]
<1> DEFINE n == Len(segs)
           bytes == [i \in DOMAIN segs |-> <<segs[i][1], Len(segs[i][2])>> \o segs[i][2]]
           data == Extended(segs)
<1>1. n \in Nat /\ DOMAIN segs = 1..n /\ \A i \in 1..n : segs[i] \in Segment
    OBVIOUS
<1>2. \A i \in 1..n : bytes[i] = Header(segs[i]) \o segs[i][2]
    BY <1>1 DEF Header
<1>3. \A i \in 1..n : bytes[i] \in Seq(Nat)
    BY <1>1, <1>2, HeaderFirst
<1>4. bytes \in Seq(Seq(Nat)) /\ Len(bytes) = n
    <2>1. bytes = [i \in 1..n |-> bytes[i]]
        BY <1>1
    <2> HIDE DEF bytes, n
    <2> QED
        BY <1>1, <1>3, <2>1
<1>5. data = FlattenSeq(bytes)
    BY DEF Extended
<1> HIDE DEF bytes, data, n
<1>6. data \in Seq(Nat)
    BY <1>4, <1>5, FlattenHas
<1>7. PICK place \in [0..n -> Nat] :
          /\ place[0] = 0 /\ place[n] = Len(data)
          /\ \A m \in 0..n - 1 : Lies(data, place, bytes, m)
    BY <1>4, <1>5, FlattenHas
<1>10. ASSUME NEW m \in 0..n - 1
       PROVE  LET s == segs[m + 1]
              IN  /\ place[m + 1] = place[m] + 2 + Len(s[2])
                  /\ place[m + 1] <= Len(data)
                  /\ data[place[m] + 1] = s[1]
                  /\ data[place[m] + 2] = Len(s[2])
                  /\ \A x \in 1..Len(s[2]) : data[place[m] + 2 + x] = s[2][x]
    <2> DEFINE s == segs[m + 1]
               b == bytes[m + 1]
               p == place[m]
               q == place[m + 1]
               l == Len(s[2])
    <2>1. m + 1 \in 1..n
        BY <1>1
    <2>2. s \in Segment /\ b = Header(s) \o s[2]
        BY <1>1, <1>2, <2>1
    <2>3. l \in Nat
        BY <2>2 DEF Segment
    <2>4. /\ p \in Nat /\ q = p + Len(b) /\ q <= Len(data)
          /\ \A x \in 1..Len(b) : data[p + x] = b[x]
        BY <1>7 DEF Lies
    <2> HIDE DEF s, b, p, q
    <2>5. /\ Len(b) = l + 2 /\ b[1] = s[1] /\ b[2] = l
          /\ \A x \in 1..l : b[2 + x] = s[2][x]
        BY <2>2, HeaderFirst
    <2> HIDE DEF l
    <2>6. /\ 1 \in 1..l + 2 /\ 2 \in 1..l + 2 /\ \A x \in 1..l : 2 + x \in 1..l + 2
        BY <2>3
    <2>7. \A x \in 1..l + 2 : data[p + x] = b[x]
        BY <2>4, <2>5
    <2>8. \A x \in 1..l : p + (2 + x) = p + 2 + x
        BY <2>3, <2>4
    <2>9. \A x \in 1..l : data[p + 2 + x] = s[2][x]
        BY <2>5, <2>6, <2>7, <2>8
    <2>10. data[p + 1] = s[1] /\ data[p + 2] = l
        BY <2>5, <2>6, <2>7
    <2>11. q = p + 2 + l
        BY <2>3, <2>4, <2>5
    <2> QED
        BY <2>4, <2>9, <2>10, <2>11 DEF s, l, p, q
<1> QED
    BY <1>6, <1>7, <1>10 DEF n, data

\* What is written as segments is read back as those segments.
THEOREM SegmentsReadBack ==
    ASSUME NEW segs \in Seq(Segment)
    PROVE  Segments(Extended(segs)) = Returns(segs)
<1> DEFINE n == Len(segs)
           data == Extended(segs)
<1>1. PICK place \in [0..n -> Nat] :
              /\ data \in Seq(Nat)
              /\ place[0] = 0 /\ place[n] = Len(data)
              /\ \A m \in 0..n - 1 :
                    LET s == segs[m + 1]
                    IN  /\ place[m + 1] = place[m] + 2 + Len(s[2])
                        /\ place[m + 1] <= Len(data)
                        /\ data[place[m] + 1] = s[1]
                        /\ data[place[m] + 2] = Len(s[2])
                        /\ \A x \in 1..Len(s[2]) : data[place[m] + 2 + x] = s[2][x]
    BY ExtendedHas
<1>2. n \in Nat /\ Len(data) \in Nat /\ data \in Seq(Nat)
    BY <1>1
<1> HIDE DEF data
<1>3. PICK f : /\ \A i \in 0..Len(data) : f[i] = Rest(f, data, i)
               /\ Segments(data) = f[0]
    BY <1>2, SegmentsReads
<1> DEFINE ReadBehind(m) == f[place[m]] = Returns(SubSeq(segs, m + 1, n))
           P == {d \in Nat : d <= n => ReadBehind(n - d)}
<1> DEFINE size == Len(data)
<1>a. size \in Nat
    BY <1>2
<1>b. \A i \in 0..size : f[i] = Rest(f, data, i)
    BY <1>3
<1>4. 0 \in P
    <2>1. f[size] = Returns(<<>>)
        <3>1. size \in 0..size
            <4> HIDE DEF size
            <4> QED
                BY <1>a
        <3>2. f[size] = Rest(f, data, size)
            BY <3>1, <1>b
        <3>3. Rest(f, data, size) = Returns(<<>>)
            BY DEF Rest
        <3> QED
            BY <3>2, <3>3
    <2>2. SubSeq(segs, n + 1, n) = <<>>
        BY <1>2, SubSeqEmpty
    <2>3. place[n] = size
        BY <1>1
    <2> HIDE DEF size, n
    <2>4. ReadBehind(n - 0)
        <3>1. n - 0 = n
            BY <1>2
        <3> QED
            BY <2>1, <2>2, <2>3, <3>1
    <2> QED
        BY <2>4
<1>5. ASSUME NEW d \in Nat, d \in P PROVE d + 1 \in P
    <2> SUFFICES ASSUME d + 1 <= n PROVE ReadBehind(n - (d + 1))
        OBVIOUS
    <2> DEFINE m == n - (d + 1)
               s == segs[m + 1]
               p == place[m]
               end == place[m + 1]
               v == s[2]
               l == Len(v)
    <2>1. m \in 0..n - 1 /\ m \in 0..n /\ m + 1 \in 0..n /\ n - d = m + 1
          /\ m + 1 \in 1..n /\ n \in m + 1..n
        BY <1>2
    <2>2. ReadBehind(m + 1)
        BY <1>5, <2>1
    <2> HIDE DEF m
    <2>3. /\ end = p + 2 + l /\ end <= size
          /\ data[p + 1] = s[1] /\ data[p + 2] = l
          /\ \A x \in 1..l : data[p + 2 + x] = v[x]
        BY <1>1, <2>1
    <2>4. s \in Segment /\ v \in Seq(Nat) /\ l \in Nat /\ s = <<s[1], v>>
        <3>1. s \in Segment
            BY <2>1
        <3> HIDE DEF s
        <3>2. v \in Seq(Nat) /\ s = <<s[1], v>>
            BY <3>1 DEF Segment
        <3> QED
            BY <3>1, <3>2
    <2>5. p \in Nat /\ end \in Nat
        BY <1>1, <2>1
    <2>6. f[end] = Returns(SubSeq(segs, m + 2, n))
        <3>1. (m + 1) + 1 = m + 2
            BY <2>1
        <3> QED
            BY <2>2, <3>1
    <2>c. data \in Seq(Nat) /\ size = Len(data)
        BY <1>2
    <2> HIDE DEF p, end, s, n, v, l
    <2>7. /\ p \in 0..size /\ p # size /\ ~(p + 2 > size)
          /\ p + 2 + data[p + 2] = end /\ ~(end > size)
        <3> HIDE DEF size
        <3> QED
            BY <1>a, <2>3, <2>4, <2>5
    <2>8. SubSeq(data, p + 3, end) = v
        <3> DEFINE w == SubSeq(data, p + 3, end)
        <3>1. p + 3 \in Int /\ end \in Int
            BY <2>5
        <3>a. \A i \in p + 3..end : i \in 1..size
            <4> HIDE DEF size
            <4> QED
                BY <1>a, <2>3, <2>5
        <3>e. \A i \in p + 3..end : data[i] \in Nat
            BY <3>a, <2>c
        <3>2. /\ w \in Seq(Nat) /\ Len(w) = IF p + 3 <= end THEN end - (p + 3) + 1 ELSE 0
              /\ \A i \in 1..end - (p + 3) + 1 : w[i] = data[p + 3 + i - 1]
            BY <3>1, <3>e, SubSeqProperties
        <3> HIDE DEF w, size
        <3>b. p \in Nat /\ end \in Nat /\ l \in Nat /\ end = p + 2 + l
            BY <2>3, <2>4, <2>5
        <3>c. end - (p + 3) + 1 = l
            <4> HIDE DEF p, end, l
            <4> QED
                BY <3>b
        <3>d. (IF p + 3 <= end THEN end - (p + 3) + 1 ELSE 0) = l
            <4> HIDE DEF p, end, l
            <4>1. p + 3 <= end \/ l = 0
                BY <3>b
            <4>2. l = 0 => ~(p + 3 <= end)
                BY <3>b
            <4> QED
                BY <3>c, <4>1, <4>2
        <3>3. Len(w) = l
            BY <3>2, <3>d
        <3>4. \A i \in 1..l : p + 3 + i - 1 = p + 2 + i
            BY <2>4, <2>5
        <3>5. \A i \in 1..l : w[i] = v[i]
            BY <2>3, <3>2, <3>c, <3>4
        <3>6. w = v
            <4>1. Len(v) = l
                BY DEF l
            <4> QED
                BY <2>4, <3>2, <3>3, <3>5, <4>1, SeqEqual
        <3> QED
            BY <3>6 DEF w
    <2>9. f[p] = Returns(<<s>> \o SubSeq(segs, m + 2, n))
        <3>1. f[p] = Rest(f, data, p)
            BY <1>b, <2>7
        <3>2. f[end].ok /\ f[end].value = SubSeq(segs, m + 2, n)
            BY <2>6, ReturnsValue
        <3>3. Rest(f, data, p) = Returns(<< <<data[p + 1], SubSeq(data, p + 3, end)>> >>
                                         \o f[end].value)
            BY <2>7, <3>2 DEF Rest
        <3>4. <<data[p + 1], SubSeq(data, p + 3, end)>> = s
            BY <2>3, <2>4, <2>8
        <3> QED
            BY <3>1, <3>2, <3>3, <3>4
    <2>10. <<s>> \o SubSeq(segs, m + 2, n) = SubSeq(segs, m + 1, n)
        <3>1. m + 1 \in 1..Len(segs) /\ n \in m + 1..Len(segs) /\ (m + 1) + 1 = m + 2
            BY <2>1 DEF n
        <3> QED
            BY <3>1, SubSeqRecursiveFirst DEF s
    <2>11. ReadBehind(m)
        BY <2>9, <2>10 DEF p
    <2> QED
        BY <2>11 DEF m
<1>6. ReadBehind(0)
    <2> HIDE DEF P
    <2>1. Nat \subseteq P
        BY <1>4, <1>5, Induction
    <2>2. n \in P /\ n - n = 0
        BY <1>2, <2>1
    <2> HIDE DEF n
    <2> QED
        BY <1>2, <2>2 DEF P
<1>7. SubSeq(segs, 0 + 1, n) = segs
    BY SubSeqFull
<1> QED
    BY <1>1, <1>3, <1>6, <1>7 DEF data

-----------------------------------------------------------------------------
(* The chunks of a value.                                                  *)

\* A function from 1..n is a sequence of its values.
LEMMA IsSequence ==
    ASSUME NEW S, NEW n \in Nat, NEW f, f = [k \in 1..n |-> f[k]],
           \A k \in 1..n : f[k] \in S
    PROVE  f \in Seq(S) /\ Len(f) = n
OBVIOUS

\* Division with a remainder.
LEMMA Division ==
    ASSUME NEW a \in Nat, NEW m \in Nat, m > 0
    PROVE  /\ a \div m \in Nat /\ a % m \in 0..m - 1
           /\ a = m * (a \div m) + (a % m)
OBVIOUS

\* Multiples of m are at least m apart.
LEMMA Product ==
    ASSUME NEW a \in Nat, NEW b \in Nat, NEW m \in Nat, a < b
    PROVE  a * m + m <= b * m
OBVIOUS

\* A multiple of m leaves no remainder.
LEMMA NoRemainder ==
    ASSUME NEW a \in Nat, NEW m \in Nat, m > 0
    PROVE  (a * m) % m = 0
OBVIOUS

\* How far the first k chunks go.
Reach(value, k) == IF k * MaxChunk < Len(value) THEN k * MaxChunk ELSE Len(value)

\* How many there are.
Count(value) ==
    IF value = <<>> THEN 1 ELSE (Len(value) + MaxChunk - 1) \div MaxChunk

\* What the proofs need of MaxChunk: a chunk has room.
LEMMA MaxChunkIs == MaxChunk \in Nat /\ MaxChunk > 1
BY MaxChunkAssumption

\* The last chunk is the only one that may be short.
LEMMA Counted ==
    ASSUME NEW value \in Seq(Nat)
    PROVE  /\ Count(value) \in Nat /\ Count(value) > 0
           /\ \A k \in 0..Count(value) - 1 : Reach(value, k) = k * MaxChunk
           /\ Reach(value, Count(value)) = Len(value)
<1> DEFINE l == Len(value)
           c == MaxChunk
           n == Count(value)
<1>1. l \in Nat /\ c \in Nat /\ c > 1
    BY MaxChunkIs
<1>2. CASE value = <<>>
    <2>1. n = 1 /\ l = 0
        BY <1>2 DEF Count
    <2> HIDE DEF n, l
    <2>2. n \in Nat /\ n > 0 /\ \A k \in 0..n - 1 : k = 0
        BY <2>1
    <2>3. 0 * c = 0 /\ ~(1 * c < 0)
        BY <1>1
    <2> QED
        BY <2>1, <2>2, <2>3 DEF Reach, n, l
<1>3. CASE value # <<>>
    <2>1. n = (l + c - 1) \div c /\ l > 0
        BY <1>1, <1>3 DEF Count
    <2> HIDE DEF n, l, c
    <2>2. l + c - 1 \in Nat
        BY <1>1, <2>1
    <2> DEFINE r == (l + c - 1) % c
    <2>3. n \in Nat /\ r \in 0..c - 1 /\ l + c - 1 = c * n + r
        <3> DEFINE a == l + c - 1
        <3> HIDE DEF a
        <3>1. a \in Nat
            BY <2>2 DEF a
        <3>2. /\ a \div c \in Nat /\ a % c \in 0..c - 1
              /\ a = c * (a \div c) + (a % c)
            BY <3>1, <1>1, Division
        <3> QED
            BY <2>1, <3>2 DEF a
    <2> HIDE DEF r
    <2> DEFINE t == c * n
    <2>4. t \in Nat
        BY <1>1, <2>3
    <2>a. l + c - 1 = t + r
        BY <2>3
    <2> HIDE DEF t
    <2>5. l <= t /\ t < l + c
        BY <1>1, <2>3, <2>4, <2>a
    <2>6. n > 0
        <3>1. n = 0 => t = 0
            BY <1>1 DEF t
        <3> QED
            BY <2>1, <2>3, <2>5, <3>1, <1>1, <2>4
    <2>7. t = n * c
        BY <1>1, <2>3 DEF t
    <2>8. ASSUME NEW k \in 0..n - 1 PROVE k * c < l
        <3>1. k \in Nat /\ k < n /\ k * c \in Nat
            BY <1>1, <2>3
        <3>2. k * c + c <= t
            BY <1>1, <2>3, <2>7, <3>1, Product
        <3> DEFINE kc == k * c
        <3> HIDE DEF kc
        <3>3. kc \in Nat /\ kc + c <= t
            BY <3>1, <3>2 DEF kc
        <3>4. kc < l
            BY <1>1, <2>4, <2>5, <3>3
        <3> QED
            BY <3>4 DEF kc
    <2>9. ~(n * c < l)
        BY <1>1, <2>4, <2>5, <2>7
    <2> QED
        BY <2>3, <2>6, <2>8, <2>9 DEF Reach, n, l, c
<1> QED
    BY <1>2, <1>3

\* Chunk m + 1 goes from where chunk m ends to at most MaxChunk further.
LEMMA Reached ==
    ASSUME NEW value \in Seq(Nat), NEW m \in 0..Count(value) - 1
    PROVE  /\ Reach(value, m) \in Nat /\ Reach(value, m + 1) \in Nat
           /\ Reach(value, m) <= Reach(value, m + 1)
           /\ Reach(value, m + 1) <= Len(value)
           /\ m + 1 # Count(value) =>
                  Reach(value, m + 1) = Reach(value, m) + MaxChunk
           /\ m + 1 = Count(value) /\ Reach(value, m + 1) = Reach(value, m) + MaxChunk
                  => value # <<>> /\ Len(value) % MaxChunk = 0
<1> DEFINE l == Len(value)
           c == MaxChunk
           n == Count(value)
           at(k) == Reach(value, k)
           x == m * c
           y == (m + 1) * c
<1>1. l \in Nat /\ c \in Nat /\ c > 1
    BY MaxChunkIs
<1>2. n \in Nat /\ n > 0 /\ at(n) = l /\ \A k \in 0..n - 1 : at(k) = k * c
    BY Counted
<1> HIDE DEF n, c, l
<1>3. m \in Nat /\ m \in 0..n - 1 /\ m < n
    BY <1>2 DEF n
<1>4. x \in Nat /\ y \in Nat /\ y = x + c
    BY <1>1, <1>3
<1>5. at(m) = x /\ at(m + 1) = (IF y < l THEN y ELSE l)
    BY <1>2, <1>3 DEF Reach, l, c
<1>6. at(m) = IF x < l THEN x ELSE l
    BY DEF Reach, l, c
<1> HIDE DEF x, y, at
<1>7. /\ at(m) \in Nat /\ at(m + 1) \in Nat /\ at(m) <= at(m + 1) /\ at(m + 1) <= l
    BY <1>1, <1>4, <1>5, <1>6
<1>8. ASSUME m + 1 # n PROVE at(m + 1) = at(m) + c
    <2>1. m + 1 \in 0..n - 1
        BY <1>2, <1>3, <1>8
    <2>2. at(m + 1) = y
        BY <1>2, <2>1 DEF y
    <2> QED
        BY <1>4, <1>5, <2>2
<1>9. ASSUME m + 1 = n, at(m + 1) = at(m) + c PROVE value # <<>> /\ l % c = 0
    <2>1. at(m + 1) = l
        BY <1>2, <1>9
    <2>2. l = y
        BY <1>4, <1>5, <1>9, <2>1
    <2>3. l # 0
        BY <1>1, <1>4, <2>2
    <2>4. y % c = 0
        BY <1>1, <1>3, NoRemainder DEF y
    <2> QED
        BY <2>2, <2>3, <2>4 DEF l
<1> QED
    BY <1>7, <1>8, <1>9 DEF at, c, l, n

\* What is known of chunk m + 1 of a value.
ChunkAt(value, m) ==
    LET chunk == Chunks(value)[m + 1]
    IN  /\ chunk = SubSeq(value, Reach(value, m) + 1, Reach(value, m + 1))
        /\ chunk \in Seq(Nat)
        /\ m + 1 # Count(value) => Len(chunk) = MaxChunk
        /\ m + 1 = Count(value) /\ Len(chunk) = MaxChunk =>
               value # <<>> /\ Len(value) % MaxChunk = 0

\* A value is cut into chunks, full ones but for the last.
LEMMA ChunksAre ==
    ASSUME NEW value \in Seq(Nat)
    PROVE  /\ Chunks(value) \in Seq(Seq(Nat)) /\ Len(Chunks(value)) = Count(value)
           /\ \A m \in 0..Count(value) - 1 : ChunkAt(value, m)
<1> DEFINE n == Count(value)
           chunks == Chunks(value)
<1>1. n \in Nat /\ n > 0
    BY Counted
<1>2. chunks = [k \in 1..n |-> chunks[k]]
    <2>1. CASE value = <<>>
        <3>1. n = 1 /\ chunks = << <<>> >>
            BY <2>1 DEF Count, Chunks
        <3> HIDE DEF n, chunks
        <3>2. << <<>> >> = [k \in 1..1 |-> << <<>> >>[k]]
            OBVIOUS
        <3> QED
            BY <3>1, <3>2
    <2>2. CASE value # <<>>
        BY <2>2 DEF Count, Chunks
    <2> QED
        BY <2>1, <2>2
<1>3. ASSUME NEW m \in 0..n - 1
      PROVE  chunks[m + 1] = SubSeq(value, Reach(value, m) + 1, Reach(value, m + 1))
    <2>1. m \in Nat /\ m + 1 \in 1..n /\ (m + 1) - 1 = m
        BY <1>1
    <2>2. CASE value = <<>>
        <3>1. n = 1 /\ chunks = << <<>> >> /\ Len(value) = 0
            BY <2>2 DEF Count, Chunks
        <3> HIDE DEF n, chunks
        <3>2. m = 0
            BY <3>1
        <3>3. chunks[m + 1] = <<>>
            BY <3>1, <3>2
        <3>4. Reach(value, m) = 0 /\ Reach(value, m + 1) = 0
            BY <3>1, <3>2, MaxChunkIs DEF Reach
        <3>5. SubSeq(value, 0 + 1, 0) = <<>>
            BY SubSeqEmpty
        <3> QED
            BY <3>3, <3>4, <3>5
    <2>3. CASE value # <<>>
        <3>1. chunks[m + 1] = SubSeq(value, m * MaxChunk + 1, Reach(value, m + 1))
            BY <2>1, <2>3 DEF Count, Chunks, Reach
        <3>2. Reach(value, m) = m * MaxChunk
            BY Counted
        <3> QED
            BY <3>1, <3>2
    <2> QED
        BY <2>2, <2>3
<1>4. ASSUME NEW m \in 0..n - 1 PROVE ChunkAt(value, m)
    <2> DEFINE a == Reach(value, m)
               b == Reach(value, m + 1)
               chunk == SubSeq(value, a + 1, b)
    <2>1. /\ a \in Nat /\ b \in Nat /\ a <= b /\ b <= Len(value)
          /\ m + 1 # n => b = a + MaxChunk
          /\ m + 1 = n /\ b = a + MaxChunk => value # <<>> /\ Len(value) % MaxChunk = 0
        BY Reached
    <2>2. chunks[m + 1] = chunk
        BY <1>3
    <2> HIDE DEF a, b
    <2>3. a + 1 \in Int /\ b \in Int /\ \A i \in a + 1..b : i \in 1..Len(value)
        BY <2>1
    <2>4. \A i \in a + 1..b : value[i] \in Nat
        BY <2>3
    <2>5. chunk \in Seq(Nat) /\ Len(chunk) = IF a + 1 <= b THEN b - (a + 1) + 1 ELSE 0
        BY <2>3, <2>4, SubSeqProperties
    <2>6. (IF a + 1 <= b THEN b - (a + 1) + 1 ELSE 0) = b - a
        BY <2>1
    <2>7. Len(chunk) = b - a
        BY <2>5, <2>6
    <2>8. b - a = MaxChunk <=> b = a + MaxChunk
        BY <2>1, MaxChunkIs
    <2> HIDE DEF chunk
    <2>9. /\ m + 1 # n => Len(chunk) = MaxChunk
          /\ m + 1 = n /\ Len(chunk) = MaxChunk => value # <<>> /\ Len(value) % MaxChunk = 0
        BY <2>1, <2>7, <2>8
    <2> HIDE DEF chunks, n
    <2> QED
        BY <2>2, <2>5, <2>9 DEF ChunkAt, a, b, chunk, chunks, n
<1> HIDE DEF n, chunks
<1>5. \A k \in 1..n : chunks[k] \in Seq(Nat)
    <2> TAKE k \in 1..n
    <2> DEFINE m == k - 1
    <2>1. m \in 0..n - 1 /\ m + 1 = k
        BY <1>1
    <2> HIDE DEF m
    <2> QED
        BY <1>4, <2>1 DEF ChunkAt, chunks, n
<1>6. chunks \in Seq(Seq(Nat)) /\ Len(chunks) = n
    BY <1>1, <1>2, <1>5, IsSequence
<1> QED
    BY <1>4, <1>6 DEF n, chunks

-----------------------------------------------------------------------------
(* The segments of entries.                                                *)

\* An entry is a tag and a value, as a segment is.
Entry == Segment

\* Each segment of an entry has its tag and one of its chunks.
LEMMA EntrySegmentsAre ==
    ASSUME NEW entry \in Entry
    PROVE  /\ EntrySegments(entry) \in Seq(Segment)
           /\ Len(EntrySegments(entry)) = Count(entry[2])
           /\ \A m \in 0..Count(entry[2]) - 1 :
                 EntrySegments(entry)[m + 1] = <<entry[1], Chunks(entry[2])[m + 1]>>
<1> DEFINE n == Count(entry[2])
           chunks == Chunks(entry[2])
           tag == entry[1]
           segs == EntrySegments(entry)
<1>1. tag \in Nat /\ entry[2] \in Seq(Nat)
    BY DEF Entry, Segment
<1>2. n \in Nat /\ chunks \in Seq(Seq(Nat)) /\ Len(chunks) = n
    BY <1>1, ChunksAre, Counted
<1>3. DOMAIN chunks = 1..n /\ \A k \in 1..n : chunks[k] \in Seq(Nat)
    BY <1>2
<1>4. segs = [k \in 1..n |-> <<tag, chunks[k]>>]
    BY <1>3 DEF EntrySegments
<1> HIDE DEF n, chunks, tag, segs
<1>5. \A k \in 1..n : <<tag, chunks[k]>> \in Segment
    BY <1>1, <1>3 DEF Segment, tag
<1>6. segs \in Seq(Segment) /\ Len(segs) = n
    BY <1>2, <1>4, <1>5
<1>7. \A m \in 0..n - 1 : segs[m + 1] = <<tag, chunks[m + 1]>>
    BY <1>2, <1>4
<1> QED
    BY <1>6, <1>7 DEF n, chunks, tag, segs

\* The segments of entry m + 1 lie in segs behind place[m].
EntryLies(segs, place, entries, m) ==
    LET e == entries[m + 1]
    IN  /\ place[m] \in Nat /\ place[m + 1] \in Nat
        /\ place[m + 1] = place[m] + Count(e[2])
        /\ place[m + 1] <= Len(segs)
        /\ \A k \in 0..Count(e[2]) - 1 :
              segs[place[m] + k + 1] = <<e[1], Chunks(e[2])[k + 1]>>

\* The segments of each entry are found among those of all.
LEMMA SegmentedHas ==
    ASSUME NEW entries \in Seq(Entry)
    PROVE  /\ Segmented(entries) \in Seq(Segment)
           /\ \E place \in [0..Len(entries) -> Nat] :
                 /\ place[0] = 0 /\ place[Len(entries)] = Len(Segmented(entries))
                 /\ \A m \in 0..Len(entries) - 1 :
                       EntryLies(Segmented(entries), place, entries, m)
<1> DEFINE n == Len(entries)
           parts == [i \in DOMAIN entries |-> EntrySegments(entries[i])]
           segs == Segmented(entries)
<1>1. n \in Nat /\ DOMAIN entries = 1..n /\ \A i \in 1..n : entries[i] \in Entry
    OBVIOUS
<1>2. parts = [i \in 1..n |-> EntrySegments(entries[i])]
    BY <1>1
<1>3. \A i \in 1..n : EntrySegments(entries[i]) \in Seq(Segment)
    BY <1>1, EntrySegmentsAre
<1>4. segs = FlattenSeq(parts)
    BY DEF Segmented
<1> HIDE DEF parts, n, segs
<1>5. parts \in Seq(Seq(Segment)) /\ Len(parts) = n
    BY <1>1, <1>2, <1>3
<1>6. segs \in Seq(Segment)
    BY <1>4, <1>5, FlattenHas
<1>7. PICK place \in [0..n -> Nat] :
          /\ place[0] = 0 /\ place[n] = Len(segs)
          /\ \A m \in 0..n - 1 : Lies(segs, place, parts, m)
    BY <1>4, <1>5, FlattenHas
<1>8. ASSUME NEW m \in 0..n - 1 PROVE EntryLies(segs, place, entries, m)
    <2> DEFINE e == entries[m + 1]
               part == parts[m + 1]
               count == Count(e[2])
    <2>1. m + 1 \in 1..n
        BY <1>1
    <2>2. e \in Entry /\ part = EntrySegments(e)
        BY <1>1, <1>2, <2>1
    <2>3. Lies(segs, place, parts, m)
        BY <1>7
    <2>4. /\ Len(part) = count
          /\ \A k \in 0..count - 1 : part[k + 1] = <<e[1], Chunks(e[2])[k + 1]>>
        BY <2>2, EntrySegmentsAre
    <2>5. count \in Nat
        BY <2>2, Counted DEF Entry, Segment
    <2>6. /\ place[m] \in Nat /\ place[m + 1] \in Nat
          /\ place[m + 1] = place[m] + count /\ place[m + 1] <= Len(segs)
          /\ \A x \in 1..count : segs[place[m] + x] = part[x]
        BY <2>3, <2>4 DEF Lies
    <2>a. place[m] \in Nat
        BY <2>6
    <2> HIDE DEF e, part, count
    <2>7. ASSUME NEW k \in 0..count - 1
          PROVE  segs[place[m] + k + 1] = <<e[1], Chunks(e[2])[k + 1]>>
        <3>1. k + 1 \in 1..count /\ place[m] + (k + 1) = place[m] + k + 1
            BY <2>5, <2>a
        <3>2. segs[place[m] + (k + 1)] = part[k + 1]
            BY <2>6, <3>1
        <3> QED
            BY <2>4, <3>1, <3>2
    <2> QED
        BY <2>6, <2>7 DEF EntryLies, e, count
<1> QED
    BY <1>6, <1>7, <1>8 DEF n, segs

-----------------------------------------------------------------------------
(* Joining segments.                                                       *)

\* result[k] is what the first k segments give.
Collapses(result, segs, n) ==
    /\ result[0] = <<>>
    /\ \A k \in 0..n - 1 :
          result[k + 1] = Adds(segs, k + 1, result[k], Continues(segs, k + 1))

\* Collapse adds one segment after another.
LEMMA CollapseSteps ==
    ASSUME NEW segs \in Seq(Segment)
    PROVE  \E result : /\ Collapses(result, segs, Len(segs))
                       /\ Collapse(segs) = result[Len(segs)]
<1> DEFINE n == Len(segs)
           Step(r, k) == IF k = 0 THEN <<>>
                         ELSE Adds(segs, k, r[k - 1], Continues(segs, k))
           Is(r, d) == r = [k \in 0..d |-> Step(r, k)]
           P == {d \in Nat : \E r : Is(r, d)}
           result == CHOOSE r : Is(r, n)
<1>1. n \in Nat
    OBVIOUS
<1>2. Collapse(segs) = result[n]
    BY DEF Collapse
<1> HIDE DEF n, result
<1>3. 0 \in P
    <2> DEFINE r == [k \in 0..0 |-> <<>>]
    <2>1. \A k \in 0..0 : Step(r, k) = <<>>
        OBVIOUS
    <2> HIDE DEF Step
    <2>2. Is(r, 0)
        BY <2>1
    <2> HIDE DEF Is
    <2> QED
        BY <2>2
<1>4. ASSUME NEW d \in Nat, d \in P PROVE d + 1 \in P
    <2>1. PICK r : Is(r, d)
        BY <1>4
    <2> DEFINE q == [k \in 0..d + 1 |-> IF k = d + 1 THEN Step(r, k) ELSE r[k]]
    <2>2. \A k \in 0..d : q[k] = r[k] /\ r[k] = Step(r, k)
        <3>1. \A k \in 0..d : r[k] = Step(r, k)
            <4> HIDE DEF Step
            <4> QED
                BY <2>1
        <3> HIDE DEF Step
        <3>2. \A k \in 0..d : k \in 0..d + 1 /\ k # d + 1
            OBVIOUS
        <3> QED
            BY <3>1, <3>2
    <2>3. q[d + 1] = Step(r, d + 1)
        <3> HIDE DEF Step
        <3> QED
            OBVIOUS
    <2>4. q = [k \in 0..d + 1 |-> q[k]]
        <3> HIDE DEF Step
        <3> QED
            OBVIOUS
    <2> HIDE DEF q
    <2>5. ASSUME NEW k \in 0..d + 1 PROVE q[k] = Step(q, k)
        <3>1. q[k] = Step(r, k)
            <4> HIDE DEF Step
            <4> QED
                BY <2>2, <2>3
        <3>2. Step(r, k) = Step(q, k)
            <4>1. CASE k = 0
                BY <4>1
            <4>2. CASE k # 0
                <5>1. k - 1 \in 0..d
                    BY <4>2
                <5>2. r[k - 1] = q[k - 1]
                    BY <2>2, <5>1
                <5> QED
                    BY <5>2
            <4> QED
                BY <4>1, <4>2
        <3> QED
            BY <3>1, <3>2
    <2> HIDE DEF Step
    <2>6. Is(q, d + 1)
        BY <2>4, <2>5
    <2> HIDE DEF Is
    <2> QED
        BY <2>6
<1>5. \E r : Is(r, n)
    <2> HIDE DEF Is
    <2>1. P = {d \in Nat : \E r : Is(r, d)}
        OBVIOUS
    <2> HIDE DEF P
    <2>2. Nat \subseteq P
        BY <1>3, <1>4, Induction
    <2> QED
        BY <1>1, <2>1, <2>2
<1>6. Is(result, n)
    <2> HIDE DEF Is
    <2> QED
        BY <1>5 DEF result
<1>7. \A k \in 0..n : result[k] = Step(result, k)
    <2> HIDE DEF Step
    <2> QED
        BY <1>6
<1>8. result[0] = <<>>
    BY <1>1, <1>7
<1>9. ASSUME NEW k \in 0..n - 1
      PROVE  result[k + 1] = Adds(segs, k + 1, result[k], Continues(segs, k + 1))
    <2>1. k + 1 \in 0..n /\ k + 1 # 0 /\ (k + 1) - 1 = k
        BY <1>1
    <2>2. result[k + 1] = Step(result, k + 1)
        <3> HIDE DEF Step
        <3> QED
            BY <1>7, <2>1
    <2>3. Step(result, k + 1) = Adds(segs, k + 1, result[k], Continues(segs, k + 1))
        BY <2>1
    <2> QED
        BY <2>2, <2>3
<1>10. Collapses(result, segs, n)
    BY <1>8, <1>9 DEF Collapses
<1> QED
    BY <1>2, <1>10 DEF n

-----------------------------------------------------------------------------
(* What the entries mean, one after another.                               *)

With(known, tag, value) ==
    [t \in DOMAIN known \cup {tag} |-> IF t = tag THEN value ELSE known[t]]

\* What is known after the first m entries.
Known(entries, m) ==
    [tag \in {entries[i][1] : i \in 1..m} |->
        entries[Max({i \in 1..m : entries[i][1] = tag})][2]]

\* Entry m + 1 replaces what is known of its tag.
LEMMA KnownNext ==
    ASSUME NEW entries, NEW m \in Nat
    PROVE  Known(entries, m + 1)
               = With(Known(entries, m), entries[m + 1][1], entries[m + 1][2])
<1> DEFINE tag == entries[m + 1][1]
           value == entries[m + 1][2]
           Tags(k) == {entries[i][1] : i \in 1..k}
           Where(k, t) == {i \in 1..k : entries[i][1] = t}
           known == Known(entries, m)
<1>1. \A i : i \in 1..m + 1 <=> i \in 1..m \/ i = m + 1
    OBVIOUS
<1>2. Tags(m + 1) = Tags(m) \cup {tag}
    <2>1. \A t : t \in Tags(m + 1) <=> t \in Tags(m) \/ t = tag
        BY <1>1, Zenon
    <2> HIDE DEF Tags, tag
    <2> QED
        BY <2>1
<1>3. DOMAIN known = Tags(m) /\ \A t \in Tags(m) : known[t] = entries[Max(Where(m, t))][2]
    BY DEF Known
<1>4. \A t : t # tag => Where(m + 1, t) = Where(m, t)
    BY <1>1
<1>5. Max(Where(m + 1, tag)) = m + 1
    <2> DEFINE S == Where(m + 1, tag)
    <2>1. m + 1 \in S /\ S \subseteq Nat /\ \A y \in S : m + 1 >= y
        OBVIOUS
    <2> HIDE DEF S
    <2>2. \A x \in S : (\A y \in S : x >= y) => x = m + 1
        BY <2>1
    <2> QED
        BY <2>1, <2>2 DEF Max
<1>6. Known(entries, m + 1) = [t \in Tags(m + 1) |-> entries[Max(Where(m + 1, t))][2]]
    BY DEF Known
<1> HIDE DEF Tags, Where, known
<1>7. \A t \in Tags(m + 1) :
          entries[Max(Where(m + 1, t))][2] = IF t = tag THEN value ELSE known[t]
    <2> SUFFICES ASSUME NEW t \in Tags(m + 1)
                 PROVE  entries[Max(Where(m + 1, t))][2]
                            = IF t = tag THEN value ELSE known[t]
        OBVIOUS
    <2>1. CASE t = tag
        <3>1. Max(Where(m + 1, t)) = m + 1
            BY <1>5, <2>1
        <3> QED
            BY <2>1, <3>1
    <2>2. CASE t # tag
        <3>1. Where(m + 1, t) = Where(m, t)
            BY <1>4, <2>2
        <3>2. t \in Tags(m)
            BY <1>2, <2>2
        <3> QED
            BY <1>3, <2>2, <3>1, <3>2
    <2> QED
        BY <2>1, <2>2
<1>8. Known(entries, m + 1) = [t \in Tags(m + 1) |-> IF t = tag THEN value ELSE known[t]]
    BY <1>6, <1>7
<1> QED
    BY <1>2, <1>3, <1>8 DEF With, known

\* Nothing is known of no entries.
LEMMA KnownFirst == ASSUME NEW entries PROVE Known(entries, 0) = <<>>
<1> DEFINE k == Known(entries, 0)
<1>1. k = [t \in {} |-> k[t]]
    <2>1. {entries[i][1] : i \in 1..0} = {}
        OBVIOUS
    <2> QED
        BY <2>1 DEF Known
<1> HIDE DEF k
<1>2. k = <<>>
    BY <1>1
<1> QED
    BY <1>2 DEF k

\* What is known after all entries is what they mean.
LEMMA KnownLast ==
    ASSUME NEW entries \in Seq(Entry)
    PROVE  Known(entries, Len(entries)) = Meaning(entries)
<1> DEFINE n == Len(entries)
           Tags == {entries[i][1] : i \in 1..n}
           Where(t) == {i \in 1..n : entries[i][1] = t}
<1>1. DOMAIN entries = 1..n
    OBVIOUS
<1>2. Meaning(entries) = [t \in Tags |-> entries[IF Where(t) # {} THEN Max(Where(t)) ELSE 0][2]]
    BY <1>1 DEF Meaning, SelectLastInSeq
<1>3. \A t \in Tags : Where(t) # {}
    OBVIOUS
<1>4. Known(entries, n) = [t \in Tags |-> entries[Max(Where(t))][2]]
    BY DEF Known
<1> HIDE DEF Tags, Where
<1> QED
    BY <1>2, <1>3, <1>4

\* What is set is found.
LEMMA WithGives ==
    ASSUME NEW known, NEW tag, NEW a
    PROVE  With(known, tag, a)[tag] = a
BY DEF With

\* What is set last counts.
LEMMA WithTwice ==
    ASSUME NEW known, NEW tag, NEW a, NEW b
    PROVE  With(With(known, tag, a), tag, b) = With(known, tag, b)
<1> DEFINE w == With(known, tag, a)
           D == DOMAIN known \cup {tag}
<1>1. DOMAIN w = D /\ \A t \in D : w[t] = IF t = tag THEN a ELSE known[t]
    BY DEF With
<1> HIDE DEF w
<1>2. D \cup {tag} = D
    OBVIOUS
<1>3. With(w, tag, b) = [t \in D |-> IF t = tag THEN b ELSE w[t]]
    BY <1>1, <1>2 DEF With
<1>4. With(known, tag, b) = [t \in D |-> IF t = tag THEN b ELSE known[t]]
    BY DEF With
<1> QED
    BY <1>1, <1>3, <1>4 DEF w

-----------------------------------------------------------------------------
(* The segments of separated entries are joined to what the entries mean.  *)

\* The first segment of an entry does not seem to continue the one before it:
\* here Separated is needed.
LEMMA FirstDoesNotContinue ==
    ASSUME NEW entries \in Seq(Entry), Separated(entries),
           NEW segs \in Seq(Segment), NEW place \in [0..Len(entries) -> Nat],
           place[0] = 0,
           \A m \in 0..Len(entries) - 1 : EntryLies(segs, place, entries, m),
           NEW m \in 0..Len(entries) - 1
    PROVE  ~Continues(segs, place[m] + 1)
<1> DEFINE p == place[m]
           e == entries[m + 1]
<1>1. m \in Nat /\ m + 1 \in 1..Len(entries) /\ p \in Nat
    OBVIOUS
<1>2. CASE m = 0
    BY <1>2 DEF Continues
<1>3. CASE m # 0
    <2> DEFINE i == m - 1
               b == entries[m]
               n == Count(b[2])
    <2>1. /\ i \in 0..Len(entries) - 1 /\ i + 1 = m /\ m \in 1..Len(entries)
          /\ m + 1 \in 2..Len(entries) /\ (m + 1) - 1 = m
        BY <1>1, <1>3
    <2>2. b \in Entry /\ e \in Entry
        BY <1>1, <2>1
    <2>3. b[2] \in Seq(Nat) /\ e[2] \in Seq(Nat)
        BY <2>2 DEF Entry, Segment
    <2> HIDE DEF i
    <2>4. EntryLies(segs, place, entries, i) /\ EntryLies(segs, place, entries, m)
        BY <2>1
    <2>5. n \in Nat /\ n > 0
        BY <2>3, Counted
    <2>6. /\ place[i] \in Nat /\ p = place[i] + n
          /\ \A k \in 0..n - 1 : segs[place[i] + k + 1] = <<b[1], Chunks(b[2])[k + 1]>>
        BY <2>1, <2>4 DEF EntryLies
    <2> HIDE DEF n, b, p
    <2>7. n - 1 \in 0..n - 1 /\ (n - 1) + 1 = n /\ place[i] + (n - 1) + 1 = p
        BY <2>5, <2>6
    <2>8. segs[p] = <<b[1], Chunks(b[2])[n]>>
        <3> DEFINE k == n - 1
        <3>1. k \in 0..n - 1 /\ k + 1 = n /\ place[i] + k + 1 = p
            BY <2>7
        <3> HIDE DEF k
        <3> QED
            BY <2>6, <3>1
    <2>9. ChunkAt(b[2], n - 1)
        BY <2>3, <2>7, ChunksAre DEF n
    <2>10. Len(Chunks(b[2])[n]) = MaxChunk => b[2] # <<>> /\ Len(b[2]) % MaxChunk = 0
        BY <2>7, <2>9 DEF ChunkAt, n
    <2>11. segs[p + 1][1] = e[1]
        <3>1. Count(e[2]) \in Nat /\ Count(e[2]) > 0
            BY <2>3, Counted
        <3>2. 0 \in 0..Count(e[2]) - 1 /\ p + 0 + 1 = p + 1
            BY <1>1, <3>1 DEF p
        <3>3. segs[p + 0 + 1] = <<e[1], Chunks(e[2])[0 + 1]>>
            BY <2>4, <3>2 DEF EntryLies, p
        <3> QED
            BY <3>2, <3>3
    <2>12. b[1] = e[1] => b[2] = <<>> \/ Len(b[2]) % MaxChunk # 0
        BY <2>1 DEF Separated, b
    <2>13. (p + 1) - 1 = p
        BY <1>1 DEF p
    <2> HIDE DEF e
    <2>14. ~Continues(segs, p + 1)
        BY <2>8, <2>10, <2>11, <2>12, <2>13 DEF Continues
    <2> QED
        BY <2>14 DEF p
<1> QED
    BY <1>2, <1>3

\* A segment sets the value of its tag, to what was begun and its own.
LEMMA AddsWith ==
    ASSUME NEW segs, NEW k, NEW known, NEW continued \in BOOLEAN
    PROVE  Adds(segs, k, known, continued)
               = With(known, segs[k][1],
                      (IF continued THEN known[segs[k][1]] ELSE <<>>) \o segs[k][2])
BY DEF Adds, With

\* The chunks of a value give it back, one after the other.
LEMMA ChunksJoin ==
    ASSUME NEW value \in Seq(Nat), NEW m \in 0..Count(value) - 1
    PROVE  SubSeq(value, 1, Reach(value, m)) \o Chunks(value)[m + 1]
               = SubSeq(value, 1, Reach(value, m + 1))
<1> DEFINE a == Reach(value, m)
           b == Reach(value, m + 1)
<1>1. a \in Nat /\ b \in Nat /\ a <= b /\ b <= Len(value)
    BY Reached
<1>2. Chunks(value)[m + 1] = SubSeq(value, a + 1, b)
    BY ChunksAre DEF ChunkAt
<1> HIDE DEF a, b
<1>3. 1 \in 1..Len(value) + 1 /\ a \in 1 - 1..Len(value) /\ b \in a..Len(value)
    BY <1>1
<1>4. SubSeq(value, 1, a) \o SubSeq(value, a + 1, b) = SubSeq(value, 1, b)
    BY <1>3, ConcatAdjacentSubSeq
<1> QED
    BY <1>2, <1>4 DEF a, b

\* The segments of an entry behind its first one continue it.
LEMMA RestContinues ==
    ASSUME NEW entries \in Seq(Entry), NEW segs, NEW place,
           NEW m \in 0..Len(entries) - 1, EntryLies(segs, place, entries, m),
           NEW j \in 1..Count(entries[m + 1][2]) - 1
    PROVE  Continues(segs, place[m] + j + 1)
<1> DEFINE p == place[m]
           e == entries[m + 1]
           tag == e[1]
           value == e[2]
           n == Count(value)
           k == j - 1
<1>1. e \in Entry
    OBVIOUS
<1>2. value \in Seq(Nat) /\ tag \in Nat
    BY <1>1 DEF Entry, Segment
<1>3. n \in Nat /\ n > 0
    BY <1>2, Counted
<1>4. /\ p \in Nat
      /\ \A i \in 0..n - 1 : segs[p + i + 1] = <<tag, Chunks(value)[i + 1]>>
    BY DEF EntryLies
<1>5. \A i \in 0..n - 1 : ChunkAt(value, i)
    BY <1>2, ChunksAre
<1> HIDE DEF p, tag, value
<1>6. /\ k \in 0..n - 1 /\ j \in 0..n - 1 /\ k + 1 = j /\ j # n
      /\ (p + j + 1) - 1 = p + k + 1 /\ p + j + 1 > 1
    <2>1. j \in 1..n - 1
        BY DEF value
    <2> HIDE DEF n
    <2> QED
        BY <1>3, <1>4, <2>1
<1> HIDE DEF k, n
<1>7. segs[p + j + 1] = <<tag, Chunks(value)[j + 1]>>
    BY <1>4, <1>6
<1>8. segs[p + k + 1] = <<tag, Chunks(value)[k + 1]>>
    BY <1>4, <1>6
<1>9. Len(Chunks(value)[k + 1]) = MaxChunk
    BY <1>5, <1>6 DEF ChunkAt, n
<1>10. Continues(segs, p + j + 1)
    <2> DEFINE i == p + j + 1
    <2>1. i > 1 /\ i - 1 = p + k + 1 /\ segs[i][1] = tag
        BY <1>6, <1>7
    <2> HIDE DEF i
    <2>2. Continues(segs, i)
        BY <1>8, <1>9, <2>1 DEF Continues
    <2> QED
        BY <2>2 DEF i
<1> QED
    BY <1>10 DEF p

\* All segments of an entry together set the value of its tag to the whole.
LEMMA EntryCollapses ==
    ASSUME NEW entries \in Seq(Entry), Separated(entries),
           NEW segs \in Seq(Segment), NEW place \in [0..Len(entries) -> Nat],
           place[0] = 0,
           \A m \in 0..Len(entries) - 1 : EntryLies(segs, place, entries, m),
           NEW m \in 0..Len(entries) - 1,
           NEW result, Collapses(result, segs, Len(segs)),
           result[place[m]] = Known(entries, m)
    PROVE  result[place[m + 1]] = Known(entries, m + 1)
<1> DEFINE p == place[m]
           e == entries[m + 1]
           tag == e[1]
           value == e[2]
           n == Count(value)
           known == Known(entries, m)
           Upto(k) == SubSeq(value, 1, Reach(value, k))
           Chunk(k) == Chunks(value)[k + 1]
           P == {k \in Nat : k + 1 <= n => result[p + k + 1] = With(known, tag, Upto(k + 1))}
<1>1. m \in Nat /\ m + 1 \in 1..Len(entries) /\ p \in Nat /\ e \in Entry
    OBVIOUS
<1>2. value \in Seq(Nat) /\ tag \in Nat
    BY <1>1 DEF Entry, Segment
<1>3. n \in Nat /\ n > 0
    BY <1>2, Counted
<1>4. /\ place[m + 1] = p + n /\ p + n <= Len(segs)
      /\ \A k \in 0..n - 1 : segs[p + k + 1] = <<tag, Chunk(k)>>
    BY DEF EntryLies
<1> HIDE DEF n
<1>6. ASSUME NEW k \in 0..n - 1
      PROVE  /\ p + k \in 0..Len(segs) - 1 /\ p + k + 1 = (p + k) + 1
             /\ result[p + k + 1]
                    = With(result[p + k], tag,
                           (IF Continues(segs, p + k + 1) THEN result[p + k][tag]
                            ELSE <<>>) \o Chunk(k))
    <2>1. p + k \in 0..Len(segs) - 1 /\ p + k + 1 = (p + k) + 1
        <3> DEFINE last == Len(segs)
        <3>1. k \in Nat /\ k < n /\ last \in Nat /\ p \in Nat /\ p + n <= last
            BY <1>1, <1>3, <1>4
        <3> HIDE DEF p, last
        <3>2. p + k \in 0..last - 1 /\ p + k + 1 = (p + k) + 1
            BY <1>3, <3>1
        <3> QED
            BY <3>2 DEF last
    <2> DEFINE i == p + k
               goes == Continues(segs, i + 1)
    <2>2. result[i + 1] = Adds(segs, i + 1, result[i], goes)
        BY <2>1 DEF Collapses
    <2>3. segs[i + 1] = <<tag, Chunk(k)>>
        BY <1>4, <2>1
    <2>4. goes \in BOOLEAN
        BY DEF Continues
    <2> HIDE DEF i, goes, tag, Chunk
    <2>5. Adds(segs, i + 1, result[i], goes)
              = With(result[i], segs[i + 1][1],
                     (IF goes THEN result[i][segs[i + 1][1]] ELSE <<>>) \o segs[i + 1][2])
        BY <2>4, AddsWith
    <2>6. segs[i + 1][1] = tag /\ segs[i + 1][2] = Chunk(k)
        BY <2>3
    <2>7. result[i + 1] = With(result[i], tag,
                               (IF goes THEN result[i][tag] ELSE <<>>) \o Chunk(k))
        BY <2>2, <2>5, <2>6
    <2> QED
        BY <2>1, <2>7 DEF i, goes
<1>7. \A k \in 0..n - 1 : Upto(k) \o Chunk(k) = Upto(k + 1)
    BY <1>2, ChunksJoin DEF n
<1>8. Upto(0) = <<>>
    <2>1. Reach(value, 0) = 0
        <3>1. 0 \in 0..n - 1 /\ 0 * MaxChunk = 0
            BY <1>3, MaxChunkIs
        <3> QED
            BY <1>2, <3>1, Counted DEF n
    <2> QED
        BY <2>1, SubSeqEmpty
<1>9. Upto(n) = value
    BY <1>2, Counted, SubSeqFull DEF n
<1>10. 0 \in P
    <2>1. 0 \in 0..n - 1 /\ p + 0 = p
        BY <1>1, <1>3
    <2>2. ~Continues(segs, p + 1)
        BY FirstDoesNotContinue
    <2>3. result[p + 0 + 1] = With(known, tag, <<>> \o Chunk(0))
        BY <1>6, <2>1, <2>2
    <2>4. <<>> \o Chunk(0) = Upto(0 + 1)
        BY <1>7, <1>8, <2>1
    <2> QED
        BY <2>3, <2>4
<1>11. ASSUME NEW k \in Nat, k \in P PROVE k + 1 \in P
    <2> SUFFICES ASSUME (k + 1) + 1 <= n
                 PROVE  result[p + (k + 1) + 1] = With(known, tag, Upto((k + 1) + 1))
        OBVIOUS
    <2> DEFINE j == k + 1
    <2>1. /\ k \in 0..n - 1 /\ j \in 0..n - 1 /\ j # n /\ k + 1 <= n
          /\ p + j = p + k + 1
        BY <1>1, <1>3
    <2>2. result[p + j] = With(known, tag, Upto(j))
        BY <1>11, <2>1
    <2>3. Continues(segs, p + j + 1)
        <3>1. j \in 1..n - 1
            BY <1>3, <2>1
        <3> QED
            BY <3>1, RestContinues DEF n
    <2> HIDE DEF Upto, Chunk, known, tag, p, value, P
    <2> HIDE DEF j
    <2>4. result[p + j + 1] = With(result[p + j], tag, result[p + j][tag] \o Chunk(j))
        BY <1>6, <2>1, <2>3
    <2>5. result[p + j][tag] = Upto(j)
        <3> DEFINE u == Upto(j)
        <3> HIDE DEF u
        <3>1. With(known, tag, u)[tag] = u
            BY WithGives
        <3>2. result[p + j] = With(known, tag, u)
            BY <2>2 DEF u
        <3>3. result[p + j][tag] = u
            BY <3>1, <3>2
        <3> QED
            BY <3>3 DEF u
    <2>6. result[p + j][tag] \o Chunk(j) = Upto(j + 1)
        BY <1>7, <2>1, <2>5
    <2>7. result[p + j + 1] = With(known, tag, Upto(j + 1))
        BY <2>2, <2>4, <2>6, WithTwice
    <2> QED
        BY <2>7 DEF j
<1> HIDE DEF Upto, Chunk, known, tag, p, value
<1>12. result[p + n] = With(known, tag, Upto(n))
    <2> DEFINE k == n - 1
    <2>1. k \in Nat /\ k + 1 = n
        BY <1>3
    <2>2. P = {i \in Nat : i + 1 <= n => result[p + i + 1] = With(known, tag, Upto(i + 1))}
        OBVIOUS
    <2> HIDE DEF k, P
    <2>3. Nat \subseteq P
        BY <1>10, <1>11, Induction
    <2>4. k + 1 <= n => result[p + k + 1] = With(known, tag, Upto(k + 1))
        BY <2>1, <2>2, <2>3
    <2>5. p + k + 1 = p + n /\ k + 1 <= n
        BY <1>1, <1>3, <2>1
    <2> QED
        BY <2>1, <2>4, <2>5
<1>13. Known(entries, m + 1) = With(known, tag, value)
    BY <1>1, KnownNext DEF known, tag, value
<1> QED
    BY <1>4, <1>9, <1>12, <1>13 DEF p

\* The segments of entries mean what the entries mean.
LEMMA CollapseGives ==
    ASSUME NEW entries \in Seq(Entry), Separated(entries)
    PROVE  Collapse(Segmented(entries)) = Meaning(entries)
<1> DEFINE n == Len(entries)
           segs == Segmented(entries)
<1>1. n \in Nat /\ segs \in Seq(Segment)
    BY SegmentedHas
<1>2. PICK place \in [0..n -> Nat] :
          /\ place[0] = 0 /\ place[n] = Len(segs)
          /\ \A m \in 0..n - 1 : EntryLies(segs, place, entries, m)
    BY SegmentedHas
<1> HIDE DEF segs
<1>3. PICK result : Collapses(result, segs, Len(segs)) /\ Collapse(segs) = result[Len(segs)]
    BY <1>1, CollapseSteps
<1> DEFINE P == {m \in Nat : m <= n => result[place[m]] = Known(entries, m)}
<1>4. 0 \in P
    BY <1>2, <1>3, KnownFirst DEF Collapses
<1>5. ASSUME NEW m \in Nat, m \in P PROVE m + 1 \in P
    <2> SUFFICES ASSUME m + 1 <= n PROVE result[place[m + 1]] = Known(entries, m + 1)
        OBVIOUS
    <2>1. m \in 0..n - 1 /\ result[place[m]] = Known(entries, m)
        BY <1>1, <1>5
    <2> QED
        BY <1>1, <1>2, <1>3, <2>1, EntryCollapses
<1>6. result[place[n]] = Known(entries, n)
    <2>1. P = {m \in Nat : m <= n => result[place[m]] = Known(entries, m)}
        OBVIOUS
    <2> HIDE DEF P, n
    <2>2. Nat \subseteq P
        BY <1>4, <1>5, Induction
    <2> QED
        BY <1>1, <2>1, <2>2
<1>7. Known(entries, n) = Meaning(entries)
    BY KnownLast
<1> QED
    BY <1>2, <1>3, <1>6, <1>7 DEF segs

\* Entries that are written are read back as what they mean.
THEOREM EntriesReadBack ==
    ASSUME NEW entries \in Seq(Entry), Separated(entries)
    PROVE  Decode(Encode(entries)) = Returns(Meaning(entries))
<1>1. Segmented(entries) \in Seq(Segment)
    BY SegmentedHas
<1>2. Segments(Encode(entries)) = Returns(Segmented(entries))
    BY <1>1, SegmentsReadBack DEF Encode
<1>3. Collapse(Segmented(entries)) = Meaning(entries)
    BY CollapseGives
<1> QED
    BY <1>2, <1>3, ReturnsValue DEF Decode

-----------------------------------------------------------------------------
(* Bytes that end too early.                                               *)

\* What is read behind i bytes goes on with what is read behind its end.
Reading(f, data, i) ==
    LET end == i + 2 + data[i + 2]
    IN  /\ i + 2 <= Len(data) /\ end \in i + 2..Len(data)
        /\ f[end].ok
        /\ f[i].value = << <<data[i + 1], SubSeq(data, i + 3, end)>> >> \o f[end].value

\* Where a place is read without an error, the one behind its segment is.
LEMMA ReadsOn ==
    ASSUME NEW data \in Seq(Nat), NEW f, NEW i \in 0..Len(data), i # Len(data),
           f[i] = Rest(f, data, i), f[i].ok
    PROVE  Reading(f, data, i)
<1> DEFINE end == i + 2 + data[i + 2]
<1>1. i + 2 <= Len(data)
    <2> SUFFICES ASSUME i + 2 > Len(data) PROVE FALSE
        OBVIOUS
    <2>1. f[i] = Raises
        BY DEF Rest
    <2> QED
        BY <2>1 DEF Raises
<1>2. data[i + 2] \in Nat
    BY <1>1
<1>3. end <= Len(data)
    <2> SUFFICES ASSUME end > Len(data) PROVE FALSE
        BY <1>2
    <2>1. f[i] = Raises
        BY DEF Rest
    <2> QED
        BY <2>1 DEF Raises
<1>4. f[end].ok
    <2> SUFFICES ASSUME ~f[end].ok PROVE FALSE
        OBVIOUS
    <2>1. f[i] = Raises
        BY DEF Rest
    <2> QED
        BY <2>1 DEF Raises
<1>5. f[i] = Returns(<< <<data[i + 1], SubSeq(data, i + 3, end)>> >> \o f[end].value)
    <2>1. ~(i + 2 > Len(data)) /\ ~(end > Len(data))
        BY <1>1, <1>2, <1>3
    <2> QED
        BY <1>4, <2>1 DEF Rest
<1>6. f[i].value = << <<data[i + 1], SubSeq(data, i + 3, end)>> >> \o f[end].value
    BY <1>5, ReturnsValue
<1>7. end \in i + 2..Len(data)
    BY <1>2, <1>3
<1> QED
    BY <1>1, <1>4, <1>6, <1>7 DEF Reading

\* What is read are segments.
LEMMA ReadingTyped ==
    ASSUME NEW data \in Seq(Nat), NEW f,
           \A i \in 0..Len(data) : f[i] = Rest(f, data, i)
    PROVE  \A i \in 0..Len(data) : f[i].ok => f[i].value \in Seq(Segment)
<1> DEFINE size == Len(data)
           Q == {d \in Nat : \A i \in 0..size : i + d >= size /\ f[i].ok => f[i].value \in Seq(Segment)}
<1>0. size \in Nat /\ \A i \in 0..size : f[i] = Rest(f, data, i)
    OBVIOUS
<1> HIDE DEF size
<1>1. ASSUME NEW i \in 0..size, f[i].ok, i # size,
             \A j \in i + 1..size : f[j].ok => f[j].value \in Seq(Segment)
      PROVE  f[i].value \in Seq(Segment)
    <2> DEFINE end == i + 2 + data[i + 2]
               s == <<data[i + 1], SubSeq(data, i + 3, end)>>
    <2>1. Reading(f, data, i)
        BY <1>0, <1>1, ReadsOn DEF size
    <2>2. /\ i + 2 <= size /\ end \in i + 2..size /\ f[end].ok
          /\ f[i].value = <<s>> \o f[end].value
        BY <2>1 DEF Reading, size
    <2>3. f[end].value \in Seq(Segment)
        BY <1>0, <1>1, <2>2
    <2>4. s \in Segment
        <3> HIDE DEF end
        <3>0. /\ end \in Int /\ i + 3 \in Int /\ i + 1 \in 1..size
              /\ \A x \in i + 3..end : x \in 1..size
            BY <1>0, <2>2
        <3>1. /\ end \in Int /\ i + 3 \in Int /\ data[i + 1] \in Nat
              /\ \A x \in i + 3..end : data[x] \in Nat
            BY <3>0 DEF size
        <3>2. SubSeq(data, i + 3, end) \in Seq(Nat)
            BY <3>1, SubSeqProperties
        <3> QED
            BY <3>1, <3>2 DEF Segment
    <2> HIDE DEF s, end
    <2>5. <<s>> \in Seq(Segment)
        BY <2>4
    <2>6. <<s>> \o f[end].value \in Seq(Segment)
        BY <2>3, <2>5, ConcatProperties
    <2> QED
        BY <2>2, <2>6
<1>2. f[size].value \in Seq(Segment)
    <2>1. f[size] = Returns(<<>>)
        <3>1. size \in 0..size
            BY <1>0
        <3>2. f[size] = Rest(f, data, size)
            BY <1>0, <3>1
        <3> QED
            BY <3>2 DEF Rest, size
    <2>2. <<>> \in Seq(Segment)
        OBVIOUS
    <2> QED
        BY <2>1, <2>2, ReturnsValue
<1>3. 0 \in Q
    BY <1>0, <1>2
<1>4. ASSUME NEW d \in Nat, d \in Q PROVE d + 1 \in Q
    <2> SUFFICES ASSUME NEW i \in 0..size, i + (d + 1) >= size, f[i].ok
                 PROVE  f[i].value \in Seq(Segment)
        OBVIOUS
    <2>1. \A j \in i + 1..size : j \in 0..size /\ j + d >= size
        BY <1>0
    <2>2. \A j \in i + 1..size : f[j].ok => f[j].value \in Seq(Segment)
        BY <1>4, <2>1
    <2> QED
        BY <1>1, <1>2, <2>2
<1>5. Nat \subseteq Q
    <2> HIDE DEF Q
    <2> QED
        BY <1>3, <1>4, Induction
<1>6. size \in Q
    <2> HIDE DEF Q
    <2> QED
        BY <1>0, <1>5
<1>7. \A i \in 0..size : i + size >= size
    BY <1>0
<1>8. \A i \in 0..size : f[i].ok => f[i].value \in Seq(Segment)
    BY <1>6, <1>7
<1> QED
    BY <1>8 DEF size

\* A prefix stays one behind the same element.
LEMMA PrefixAfter ==
    ASSUME NEW T, NEW s \in T, NEW a \in Seq(T), NEW b \in Seq(T), IsPrefix(a, b)
    PROVE  IsPrefix(<<s>> \o a, <<s>> \o b)
<1> DEFINE h == <<s>>
           ha == h \o a
           hb == h \o b
<1>1. h \in Seq(T) /\ Len(h) = 1
    OBVIOUS
<1> HIDE DEF h
<1>2. /\ h \o a \in Seq(T) /\ Len(h \o a) = Len(h) + Len(a)
      /\ \A i \in 1..Len(h) + Len(a) : (h \o a)[i] = IF i <= Len(h) THEN h[i] ELSE a[i - Len(h)]
    BY <1>1, ConcatProperties
<1>3. /\ h \o b \in Seq(T) /\ Len(h \o b) = Len(h) + Len(b)
      /\ \A i \in 1..Len(h) + Len(b) : (h \o b)[i] = IF i <= Len(h) THEN h[i] ELSE b[i - Len(h)]
    BY <1>1, ConcatProperties
<1>4. ha = h \o a /\ hb = h \o b
    OBVIOUS
<1> HIDE DEF ha, hb
<1> DEFINE m == Len(a)
           n == Len(b)
<1>5. /\ m \in Nat /\ n \in Nat /\ m <= n
      /\ ha \in Seq(T) /\ hb \in Seq(T) /\ Len(ha) = m + 1 /\ Len(hb) = n + 1
      /\ \A i \in 1..m + 1 : ha[i] = IF i <= 1 THEN h[i] ELSE a[i - 1]
      /\ \A i \in 1..n + 1 : hb[i] = IF i <= 1 THEN h[i] ELSE b[i - 1]
    BY <1>1, <1>2, <1>3, <1>4 DEF IsPrefix
<1>6. \A i \in 1..m : a[i] = b[i]
    <2>1. SubSeq(a, 1, m) = SubSeq(b, 1, m)
        BY DEF IsPrefix
    <2>2. \A i \in 1..m : SubSeq(b, 1, m)[i] = b[1 + i - 1] /\ 1 + i - 1 = i
        <3>1. \A i \in 1..m : b[i] \in T
            BY <1>5
        <3>2. m - 1 + 1 = m
            BY <1>5
        <3> QED
            BY <1>5, <3>1, <3>2, SubSeqProperties
    <2>3. SubSeq(a, 1, m) = a
        BY SubSeqFull
    <2> QED
        BY <2>1, <2>2, <2>3
<1> HIDE DEF m, n
<1>7. \A i \in 1..m + 1 : ha[i] = hb[i]
    <2> TAKE i \in 1..m + 1
    <2>1. i \in 1..n + 1
        BY <1>5
    <2>2. ~(i <= 1) => i - 1 \in 1..m
        BY <1>5
    <2> QED
        BY <1>5, <1>6, <2>1, <2>2
<1>8. SubSeq(ha, 1, m + 1) = SubSeq(hb, 1, m + 1)
    <2> DEFINE u == SubSeq(ha, 1, m + 1)
               v == SubSeq(hb, 1, m + 1)
    <2>1. \A i \in 1..m + 1 : ha[i] \in T /\ hb[i] \in T
        BY <1>5, <1>7
    <2>2. m + 1 \in Int /\ 1 \in Int /\ (m + 1) - 1 + 1 = m + 1 /\ 1 <= m + 1
          /\ \A i \in 1..m + 1 : 1 + i - 1 = i
        BY <1>5
    <2>3. /\ u \in Seq(T) /\ Len(u) = IF 1 <= m + 1 THEN (m + 1) - 1 + 1 ELSE 0
          /\ \A i \in 1..(m + 1) - 1 + 1 : u[i] = ha[1 + i - 1]
        BY <2>1, <2>2, SubSeqProperties
    <2>4. /\ v \in Seq(T) /\ Len(v) = IF 1 <= m + 1 THEN (m + 1) - 1 + 1 ELSE 0
          /\ \A i \in 1..(m + 1) - 1 + 1 : v[i] = hb[1 + i - 1]
        BY <2>1, <2>2, SubSeqProperties
    <2> HIDE DEF u, v
    <2>5. Len(u) = m + 1 /\ Len(v) = m + 1 /\ \A i \in 1..m + 1 : u[i] = v[i]
        BY <1>7, <2>2, <2>3, <2>4
    <2>6. u = v
        BY <2>3, <2>4, <2>5, SeqEqual
    <2> QED
        BY <2>6 DEF u, v
<1>9. IsPrefix(ha, hb)
    BY <1>5, <1>8 DEF IsPrefix
<1> QED
    BY <1>9 DEF ha, hb, h

\* Bytes that are cut off anywhere give a beginning of what they gave whole, or
\* nothing.
THEOREM CutOffRead ==
    ASSUME NEW data \in Seq(Nat), Segments(data).ok, NEW n \in 0..Len(data),
           Segments(SubSeq(data, 1, n)).ok
    PROVE  IsPrefix(Segments(SubSeq(data, 1, n)).value, Segments(data).value)
<1> DEFINE cut == SubSeq(data, 1, n)
           size == Len(data)
<1>1. size \in Nat /\ n \in Nat /\ n <= size
    OBVIOUS
<1>2. cut \in Seq(Nat) /\ Len(cut) = n /\ \A i \in 1..n : cut[i] = data[i]
    <2>1. n \in Int /\ 1 \in Int /\ n - 1 + 1 = n /\ (IF 1 <= n THEN n - 1 + 1 ELSE 0) = n
          /\ \A i \in 1..n : data[i] \in Nat /\ 1 + i - 1 = i
        BY <1>1
    <2>2. /\ cut \in Seq(Nat) /\ Len(cut) = IF 1 <= n THEN n - 1 + 1 ELSE 0
          /\ \A i \in 1..n - 1 + 1 : cut[i] = data[1 + i - 1]
        BY <2>1, SubSeqProperties
    <2> HIDE DEF cut
    <2> QED
        BY <2>1, <2>2
<1> HIDE DEF cut
<1>3. PICK f : /\ \A i \in 0..size : f[i] = Rest(f, data, i)
               /\ Segments(data) = f[0]
    BY SegmentsReads
<1>4. PICK g : /\ \A i \in 0..n : g[i] = Rest(g, cut, i)
               /\ Segments(cut) = g[0]
    BY <1>2, SegmentsReads
<1> HIDE DEF size
<1> DEFINE Good(i) == /\ g[i].value \in Seq(Segment) /\ f[i].value \in Seq(Segment)
                      /\ IsPrefix(g[i].value, f[i].value)
           P == {d \in Nat : \A i \in 0..n : i + d >= size /\ f[i].ok /\ g[i].ok => Good(i)}
<1>a. \A i \in 0..size : f[i].ok => f[i].value \in Seq(Segment)
    BY <1>3, ReadingTyped DEF size
<1>5. ASSUME NEW i \in 0..n, f[i].ok, g[i].ok,
             \A j \in i + 1..n : f[j].ok /\ g[j].ok => Good(j)
      PROVE  Good(i)
    <2>1. i \in 0..size /\ f[i].value \in Seq(Segment)
        BY <1>1, <1>5, <1>a
    <2>2. CASE i = n
        <3>1. g[i] = Returns(<<>>)
            BY <1>2, <1>4, <2>2 DEF Rest
        <3>2. g[i].value = <<>>
            BY <3>1, ReturnsValue
        <3>3. IsPrefix(<<>>, f[i].value)
            <4> DEFINE t == f[i].value
            <4>1. Len(t) \in Nat
                BY <2>1
            <4> HIDE DEF t
            <4>2. SubSeq(<<>>, 1, 0) = <<>> /\ SubSeq(t, 1, 0) = <<>>
                BY SubSeqEmpty
            <4>3. Len(<<>>) = 0
                OBVIOUS
            <4>4. IsPrefix(<<>>, t)
                BY <4>1, <4>2, <4>3 DEF IsPrefix
            <4> QED
                BY <4>4 DEF t
        <3> QED
            BY <2>1, <3>2, <3>3
    <2>3. CASE i # n
        <3> DEFINE end == i + 2 + data[i + 2]
                   s == <<data[i + 1], SubSeq(data, i + 3, end)>>
        <3>1. Reading(g, cut, i)
            BY <1>2, <1>4, <1>5, <2>3, ReadsOn
        <3>2. i # size
            BY <1>1, <2>3
        <3>3. Reading(f, data, i)
            BY <1>3, <1>5, <2>1, <3>2, ReadsOn DEF size
        <3>4. i + 2 <= n
            BY <1>2, <3>1 DEF Reading
        <3>5. cut[i + 1] = data[i + 1] /\ cut[i + 2] = data[i + 2]
            BY <1>1, <1>2, <3>4
        <3>6. /\ end \in i + 2..n /\ g[end].ok
              /\ g[i].value = << <<data[i + 1], SubSeq(cut, i + 3, end)>> >> \o g[end].value
            BY <1>2, <3>1, <3>5 DEF Reading
        <3>7. f[end].ok /\ f[i].value = <<s>> \o f[end].value
            BY <3>3 DEF Reading
        <3> DEFINE v == SubSeq(data, i + 3, end)
                   w == SubSeq(cut, i + 3, end)
        <3> HIDE DEF end
        <3>8. /\ end \in Int /\ i + 3 \in Int
              /\ \A x \in i + 3..end : x \in 1..n /\ x \in 1..size
              /\ \A x \in 1..end - (i + 3) + 1 : i + 3 + x - 1 \in i + 3..end
            BY <1>1, <3>6
        <3>9. \A x \in i + 3..end : data[x] \in Nat /\ cut[x] = data[x] /\ cut[x] \in Nat
            BY <1>2, <3>8 DEF size
        <3>10. /\ v \in Seq(Nat) /\ Len(v) = IF i + 3 <= end THEN end - (i + 3) + 1 ELSE 0
               /\ \A x \in 1..end - (i + 3) + 1 : v[x] = data[i + 3 + x - 1]
            BY <3>8, <3>9, SubSeqProperties
        <3>11. /\ w \in Seq(Nat) /\ Len(w) = IF i + 3 <= end THEN end - (i + 3) + 1 ELSE 0
               /\ \A x \in 1..end - (i + 3) + 1 : w[x] = cut[i + 3 + x - 1]
            BY <3>8, <3>9, SubSeqProperties
        <3> HIDE DEF v, w
        <3>a. (IF i + 3 <= end THEN end - (i + 3) + 1 ELSE 0) = end - (i + 3) + 1
            BY <3>6
        <3>12. Len(v) = end - (i + 3) + 1 /\ Len(w) = Len(v)
            BY <3>10, <3>11, <3>a
        <3>13. \A x \in 1..Len(v) : w[x] = v[x]
            BY <3>8, <3>9, <3>10, <3>11, <3>12
        <3>14. w = v
            BY <3>10, <3>11, <3>12, <3>13, SeqEqual
        <3>15. g[i].value = <<s>> \o g[end].value /\ s = <<data[i + 1], v>>
            BY <3>6, <3>14 DEF v, w
        <3>16. s \in Segment
            <4>1. data[i + 1] \in Nat
                BY <1>1, <3>4 DEF size
            <4> QED
                BY <3>10, <3>15, <4>1 DEF Segment
        <3> HIDE DEF s
        <3>17. Good(end)
            <4>1. end \in i + 1..n
                BY <3>6
            <4> QED
                BY <1>5, <3>6, <3>7, <4>1
        <3>18. <<s>> \in Seq(Segment)
            BY <3>16
        <3>19. <<s>> \o g[end].value \in Seq(Segment)
            BY <3>17, <3>18, ConcatProperties
        <3>20. IsPrefix(<<s>> \o g[end].value, <<s>> \o f[end].value)
            BY <3>16, <3>17, PrefixAfter
        <3> QED
            BY <2>1, <3>7, <3>15, <3>19, <3>20
    <2> QED
        BY <2>2, <2>3
<1> HIDE DEF Good
<1>6. 0 \in P
    <2> SUFFICES ASSUME NEW i \in 0..n, i + 0 >= size, f[i].ok, g[i].ok PROVE Good(i)
        OBVIOUS
    <2>1. \A j : j \notin i + 1..n
        BY <1>1
    <2> QED
        BY <1>5, <2>1
<1>7. ASSUME NEW d \in Nat, d \in P PROVE d + 1 \in P
    <2> SUFFICES ASSUME NEW i \in 0..n, i + (d + 1) >= size, f[i].ok, g[i].ok PROVE Good(i)
        OBVIOUS
    <2>1. \A j \in i + 1..n : j \in 0..n /\ j + d >= size
        BY <1>1
    <2>2. \A j \in i + 1..n : f[j].ok /\ g[j].ok => Good(j)
        BY <1>7, <2>1
    <2> QED
        BY <1>5, <2>2
<1>8. Good(0)
    <2>1. Nat \subseteq P
        <3> HIDE DEF P
        <3> QED
            BY <1>6, <1>7, Induction
    <2>a. size \in P
        <3> HIDE DEF P
        <3> QED
            BY <1>1, <2>1
    <2>2. size \in P /\ 0 \in 0..n /\ 0 + size >= size
        <3> HIDE DEF P
        <3> QED
            BY <1>1, <2>a
    <2>3. f[0].ok /\ g[0].ok
        BY <1>3, <1>4 DEF cut
    <2> QED
        BY <2>2, <2>3
<1> QED
    BY <1>3, <1>4, <1>8 DEF Good, cut

-----------------------------------------------------------------------------
(* The items of a list.                                                    *)

Starts(entries, separator, i) == i = 1 \/ entries[i][1] = separator

\* An item more begins where an entry starts one.
LEMMA ItemOfNext ==
    ASSUME NEW entries, NEW separator, NEW m \in Nat
    PROVE  /\ ItemOf(entries, separator, m) \in Nat
           /\ ItemOf(entries, separator, m + 1) = ItemOf(entries, separator, m)
                  + IF Starts(entries, separator, m + 1) THEN 1 ELSE 0
           /\ ItemOf(entries, separator, 0) = 0
<1> DEFINE S(i) == {j \in 1..i : j = 1 \/ entries[j][1] = separator}
<1>1. \A i \in Nat : IsFiniteSet(S(i)) /\ Cardinality(S(i)) \in Nat
    <2> TAKE i \in Nat
    <2>1. IsFiniteSet(1..i)
        BY FS_Interval
    <2>2. S(i) \subseteq 1..i
        OBVIOUS
    <2> QED
        BY <2>1, <2>2, FS_Subset, FS_CardinalityType
<1>2. Cardinality(S(0)) = 0
    <2>1. S(0) = {}
        OBVIOUS
    <2> QED
        BY <2>1, FS_EmptySet
<1>3. CASE Starts(entries, separator, m + 1)
    <2>1. S(m + 1) = S(m) \cup {m + 1} /\ m + 1 \notin S(m)
        BY <1>3 DEF Starts
    <2> HIDE DEF S
    <2>2. Cardinality(S(m + 1)) = Cardinality(S(m)) + 1
        BY <1>1, <2>1, FS_AddElement
    <2> QED
        BY <1>1, <1>2, <1>3, <2>2 DEF ItemOf, S
<1>4. CASE ~Starts(entries, separator, m + 1)
    <2>1. S(m + 1) = S(m)
        BY <1>4 DEF Starts
    <2> HIDE DEF S
    <2>2. Cardinality(S(m + 1)) = Cardinality(S(m)) + 0
        BY <1>1, <2>1
    <2> QED
        BY <1>1, <1>2, <1>4, <2>2 DEF ItemOf, S
<1> QED
    BY <1>3, <1>4

\* No entry is of an item behind the last.
LEMMA ItemOfGrows ==
    ASSUME NEW entries, NEW separator, NEW m \in Nat, NEW i \in 1..m
    PROVE  /\ ItemOf(entries, separator, i) \in 1..ItemOf(entries, separator, m)
<1> DEFINE S(k) == {j \in 1..k : j = 1 \/ entries[j][1] = separator}
<1>1. IsFiniteSet(S(m)) /\ IsFiniteSet(S(i))
    <2>1. IsFiniteSet(1..m) /\ IsFiniteSet(1..i)
        BY FS_Interval
    <2>2. S(m) \subseteq 1..m /\ S(i) \subseteq 1..i
        OBVIOUS
    <2> QED
        BY <2>1, <2>2, FS_Subset
<1>2. S(i) \subseteq S(m) /\ 1 \in S(i)
    OBVIOUS
<1> HIDE DEF S
<1>3. Cardinality(S(i)) <= Cardinality(S(m))
    BY <1>1, <1>2, FS_Subset
<1>4. Cardinality(S(i)) \in Nat /\ Cardinality(S(m)) \in Nat
    BY <1>1, FS_CardinalityType
<1>5. Cardinality(S(i)) # 0
    BY <1>1, <1>2, FS_EmptySet
<1> QED
    BY <1>3, <1>4, <1>5 DEF ItemOf, S

\* The least of a set is its Min.
LEMMA MinIs ==
    ASSUME NEW S, NEW x \in S, S \subseteq Nat, \A y \in S : x <= y
    PROVE  Min(S) = x
<1>1. \A z \in S : (\A y \in S : z <= y) => z = x
    OBVIOUS
<1> QED
    BY <1>1 DEF Min

\* The greatest of a set is its Max.
LEMMA MaxIs ==
    ASSUME NEW S, NEW x \in S, S \subseteq Nat, \A y \in S : x >= y
    PROVE  Max(S) = x
<1>1. \A z \in S : (\A y \in S : z >= y) => z = x
    OBVIOUS
<1> QED
    BY <1>1 DEF Max

\* A set of numbers that is not empty has a least one.
LEMMA HasLeast ==
    ASSUME NEW S, S \subseteq Nat, S # {}
    PROVE  \E x \in S : \A y \in S : x <= y
<1>1. PICK x \in S : \A y \in S : <<y, x>> \notin OpToRel(<, Nat)
    BY NatLessThanWellFounded, WFMin
<1>2. \A y \in S : ~(y < x)
    BY <1>1 DEF OpToRel
<1> QED
    BY <1>2

\* The entries that were in the item that entry m + 1 goes to.
Begun(entries, separator, m) ==
    IF Starts(entries, separator, m + 1) THEN <<>>
    ELSE Item(entries, separator, m, ItemOf(entries, separator, m))

\* What the next entry changes: nothing in the items before its own.
ItemGoes(entries, separator, m) ==
    LET now == ItemOf(entries, separator, m)
        next == ItemOf(entries, separator, m + 1)
    IN  /\ now \in Nat /\ next \in Nat /\ next > 0
        /\ next = now + IF Starts(entries, separator, m + 1) THEN 1 ELSE 0
        /\ \A k \in 1..next - 1 :
              Item(entries, separator, m + 1, k) = Item(entries, separator, m, k)
        /\ Item(entries, separator, m + 1, next)
               = Begun(entries, separator, m) \o <<entries[m + 1]>>
        /\ Begun(entries, separator, m) \in Seq(Entry)

\* The next entry is an item of its own or goes to the last one; the others
\* stay as they are.
LEMMA ItemNext ==
    ASSUME NEW entries \in Seq(Entry), NEW separator,
           NEW m \in 0..Len(entries) - 1
    PROVE  ItemGoes(entries, separator, m)
<1> DEFINE N(i) == ItemOf(entries, separator, i)
           Part(j, k) == {i \in 1..j : N(i) = k}
           starts == Starts(entries, separator, m + 1)
           e == entries[m + 1]
<1>1. m \in Nat /\ m + 1 \in Nat /\ m + 1 \in 1..Len(entries) /\ Len(entries) \in Nat
    OBVIOUS
<1>2. N(m) \in Nat /\ N(m + 1) = N(m) + (IF starts THEN 1 ELSE 0)
    BY <1>1, ItemOfNext
<1>3. \A i \in 1..m : N(i) \in 1..N(m)
    BY <1>1, ItemOfGrows
<1>4. N(m + 1) > 0
    <2>1. m + 1 \in 1..m + 1
        BY <1>1
    <2>2. N(m + 1) \in 1..N(m + 1)
        BY <1>1, <2>1, ItemOfGrows
    <2> QED
        BY <1>2, <2>2
<1>5. \A j, k : Item(entries, separator, j, k) = SubSeq(entries, Min(Part(j, k)), Max(Part(j, k)))
    BY DEF Item
<1>6. \A i : i \in 1..m + 1 <=> i \in 1..m \/ i = m + 1
    BY <1>1
<1>7. e \in Entry /\ \A i \in 1..Len(entries) : entries[i] \in Entry
    BY <1>1
<1>8. Begun(entries, separator, m) = IF starts THEN <<>> ELSE Item(entries, separator, m, N(m))
    BY DEF Begun
<1> HIDE DEF N, starts, e
<1>9. \A k \in 1..N(m + 1) - 1 :
          Item(entries, separator, m + 1, k) = Item(entries, separator, m, k)
    <2> TAKE k \in 1..N(m + 1) - 1
    <2>1. k # N(m + 1)
        BY <1>2
    <2>2. Part(m + 1, k) = Part(m, k)
        BY <1>6, <2>1
    <2> HIDE DEF Part
    <2> QED
        BY <1>5, <2>2
<1>10. CASE starts
    <2>1. N(m + 1) = N(m) + 1
        BY <1>2, <1>10
    <2>2. Part(m + 1, N(m + 1)) = {m + 1}
        <3>1. \A i \in 1..m : N(i) # N(m + 1)
            BY <1>2, <1>3, <2>1
        <3> QED
            BY <1>6, <3>1
    <2> DEFINE S == {m + 1}
    <2>3. Min(S) = m + 1 /\ Max(S) = m + 1
        <3>1. m + 1 \in S /\ S \subseteq Nat /\ \A y \in S : m + 1 <= y /\ m + 1 >= y
            BY <1>1
        <3> HIDE DEF S
        <3> QED
            BY <3>1, MinIs, MaxIs
    <2>4. Item(entries, separator, m + 1, N(m + 1)) = SubSeq(entries, m + 1, m + 1)
        <3> HIDE DEF Part
        <3> QED
            BY <1>5, <2>2, <2>3
    <2>5. SubSeq(entries, m + 1, m + 1) = <<e>> \o <<>>
        <3>1. m + 1 \in m + 1..Len(entries) /\ m + 1 < (m + 1) + 1
            BY <1>1
        <3>2. SubSeq(entries, (m + 1) + 1, m + 1) = <<>>
            BY <1>1, <3>1, SubSeqEmpty
        <3> QED
            BY <1>1, <3>1, <3>2, SubSeqRecursiveFirst DEF e
    <2>6. <<e>> \o <<>> = <<>> \o <<e>>
        <3> DEFINE h == <<e>>
        <3>1. h \in Seq(Entry)
            BY <1>7
        <3> HIDE DEF h
        <3>2. h \o <<>> = <<>> \o h
            BY <3>1, ConcatEmptySeq
        <3> QED
            BY <3>2 DEF h
    <2>7. Begun(entries, separator, m) = <<>> /\ <<>> \in Seq(Entry)
        BY <1>8, <1>10
    <2> HIDE DEF Part
    <2> QED
        BY <1>2, <1>4, <1>9, <2>4, <2>5, <2>6, <2>7 DEF ItemGoes, N, starts, e
<1>11. CASE ~starts
    <2>1. N(m + 1) = N(m) /\ m # 0
        <3>1. m # 0
            BY <1>1, <1>11 DEF starts, Starts
        <3> QED
            BY <1>2, <1>11, <3>1
    <2> DEFINE S == Part(m, N(m))
               R == Part(m + 1, N(m))
    <2>2. R = S \cup {m + 1}
        BY <1>6, <2>1
    <2>3. S \subseteq 1..m /\ m \in S
        BY <1>1, <2>1
    <2>4. S \subseteq Nat /\ S # {}
        <3> HIDE DEF S
        <3> QED
            BY <1>1, <2>3
    <2> HIDE DEF Part
    <2>5. Item(entries, separator, m, N(m)) = SubSeq(entries, Min(S), Max(S))
        BY <1>5
    <2>6. Item(entries, separator, m + 1, N(m + 1)) = SubSeq(entries, Min(R), Max(R))
        BY <1>5, <2>1
    <2> HIDE DEF S, R
    <2>7. PICK a \in S : \A y \in S : a <= y
        BY <2>4, HasLeast
    <2>8. a \in 1..m /\ \A y \in S : m >= y
        BY <2>3, <2>7
    <2>9. Min(S) = a /\ Max(S) = m
        BY <2>3, <2>4, <2>7, <2>8, MinIs, MaxIs
    <2>10. R \subseteq Nat /\ a \in R /\ m + 1 \in R /\ \A y \in R : a <= y /\ m + 1 >= y
        BY <1>1, <2>2, <2>3, <2>7, <2>8
    <2>11. Min(R) = a /\ Max(R) = m + 1
        BY <2>10, MinIs, MaxIs
    <2>12. SubSeq(entries, a, m + 1) = SubSeq(entries, a, m) \o <<e>>
        <3>1. a \in 1..Len(entries) /\ m + 1 \in a..Len(entries) /\ (m + 1) - 1 = m
            BY <1>1, <2>8
        <3> QED
            BY <3>1, SubSeqRecursiveSecond DEF e
    <2>13. SubSeq(entries, a, m) \in Seq(Entry)
        <3>1. a \in Int /\ m \in Int /\ \A i \in a..m : i \in 1..Len(entries)
            BY <1>1, <2>8
        <3> QED
            BY <1>7, <3>1, SubSeqProperties
    <2>14. Begun(entries, separator, m) = SubSeq(entries, a, m)
        BY <1>8, <1>11, <2>5, <2>9
    <2>15. Item(entries, separator, m + 1, N(m + 1))
               = Begun(entries, separator, m) \o <<e>>
        BY <2>6, <2>11, <2>12, <2>14
    <2>16. Begun(entries, separator, m) \in Seq(Entry)
        BY <2>13, <2>14
    <2>17. /\ N(m) \in Nat /\ N(m + 1) \in Nat /\ N(m + 1) > 0
           /\ N(m + 1) = N(m) + (IF starts THEN 1 ELSE 0)
           /\ \A k \in 1..N(m + 1) - 1 :
                 Item(entries, separator, m + 1, k) = Item(entries, separator, m, k)
        BY <1>2, <1>4, <1>9
    <2> QED
        BY <2>15, <2>16, <2>17 DEF ItemGoes, N, starts, e
<1> QED
    BY <1>10, <1>11

-----------------------------------------------------------------------------
(* Grouping segments.                                                      *)

\* groups[k] are the groups of the first k segments.
GroupsUpto(groups, segs, separator, n) ==
    /\ groups[0] = <<>>
    /\ \A k \in 0..n - 1 :
          groups[k + 1] = Grouped(segs, k + 1, groups[k],
                                  k + 1 = 1 \/ StartsItem(segs, k + 1, separator))

\* Groups adds one segment after another.
LEMMA GroupSteps ==
    ASSUME NEW segs \in Seq(Segment), NEW separator
    PROVE  \E groups : /\ GroupsUpto(groups, segs, separator, Len(segs))
                       /\ Groups(segs, separator) = groups[Len(segs)]
<1> DEFINE n == Len(segs)
           Step(r, k) == IF k = 0 THEN <<>>
                         ELSE Grouped(segs, k, r[k - 1],
                                   k = 1 \/ StartsItem(segs, k, separator))
           Is(r, d) == r = [k \in 0..d |-> Step(r, k)]
           P == {d \in Nat : \E r : Is(r, d)}
           groups == CHOOSE r : Is(r, n)
<1>1. n \in Nat
    OBVIOUS
<1>2. Groups(segs, separator) = groups[n]
    BY DEF Groups
<1> HIDE DEF n, groups
<1>3. 0 \in P
    <2> DEFINE r == [k \in 0..0 |-> <<>>]
    <2>1. \A k \in 0..0 : Step(r, k) = <<>>
        OBVIOUS
    <2> HIDE DEF Step
    <2>2. Is(r, 0)
        BY <2>1
    <2> HIDE DEF Is
    <2> QED
        BY <2>2
<1>4. ASSUME NEW d \in Nat, d \in P PROVE d + 1 \in P
    <2>1. PICK r : Is(r, d)
        BY <1>4
    <2> DEFINE q == [k \in 0..d + 1 |-> IF k = d + 1 THEN Step(r, k) ELSE r[k]]
    <2>2. \A k \in 0..d : q[k] = r[k] /\ r[k] = Step(r, k)
        <3>1. \A k \in 0..d : r[k] = Step(r, k)
            <4> HIDE DEF Step
            <4> QED
                BY <2>1
        <3> HIDE DEF Step
        <3>2. \A k \in 0..d : k \in 0..d + 1 /\ k # d + 1
            OBVIOUS
        <3> QED
            BY <3>1, <3>2
    <2>3. q[d + 1] = Step(r, d + 1)
        <3> HIDE DEF Step
        <3> QED
            OBVIOUS
    <2>4. q = [k \in 0..d + 1 |-> q[k]]
        <3> HIDE DEF Step
        <3> QED
            OBVIOUS
    <2> HIDE DEF q
    <2>5. ASSUME NEW k \in 0..d + 1 PROVE q[k] = Step(q, k)
        <3>1. q[k] = Step(r, k)
            <4> HIDE DEF Step
            <4> QED
                BY <2>2, <2>3
        <3>2. Step(r, k) = Step(q, k)
            <4>1. CASE k = 0
                BY <4>1
            <4>2. CASE k # 0
                <5>1. k - 1 \in 0..d
                    BY <4>2
                <5>2. r[k - 1] = q[k - 1]
                    BY <2>2, <5>1
                <5> QED
                    BY <5>2
            <4> QED
                BY <4>1, <4>2
        <3> QED
            BY <3>1, <3>2
    <2> HIDE DEF Step
    <2>6. Is(q, d + 1)
        BY <2>4, <2>5
    <2> HIDE DEF Is
    <2> QED
        BY <2>6
<1>5. \E r : Is(r, n)
    <2> HIDE DEF Is
    <2>1. P = {d \in Nat : \E r : Is(r, d)}
        OBVIOUS
    <2> HIDE DEF P
    <2>2. Nat \subseteq P
        BY <1>3, <1>4, Induction
    <2> QED
        BY <1>1, <2>1, <2>2
<1>6. Is(groups, n)
    <2> HIDE DEF Is
    <2> QED
        BY <1>5 DEF groups
<1>7. \A k \in 0..n : groups[k] = Step(groups, k)
    <2> HIDE DEF Step
    <2> QED
        BY <1>6
<1>8. groups[0] = <<>>
    BY <1>1, <1>7
<1>9. ASSUME NEW k \in 0..n - 1
      PROVE  groups[k + 1] = Grouped(segs, k + 1, groups[k],
                                  k + 1 = 1 \/ StartsItem(segs, k + 1, separator))
    <2>1. k + 1 \in 0..n /\ k + 1 # 0 /\ (k + 1) - 1 = k
        BY <1>1
    <2>2. groups[k + 1] = Step(groups, k + 1)
        <3> HIDE DEF Step
        <3> QED
            BY <1>7, <2>1
    <2>3. Step(groups, k + 1) = Grouped(segs, k + 1, groups[k],
                                  k + 1 = 1 \/ StartsItem(segs, k + 1, separator))
        BY <2>1
    <2> QED
        BY <2>2, <2>3
<1>10. GroupsUpto(groups, segs, separator, n)
    BY <1>8, <1>9 DEF GroupsUpto
<1> QED
    BY <1>2, <1>10 DEF n

\* A sequence more is joined behind the others.
LEMMA FlattenMore ==
    ASSUME NEW T, NEW seqs \in Seq(Seq(T)), NEW x \in Seq(T)
    PROVE  FlattenSeq(Append(seqs, x)) = FlattenSeq(seqs) \o x
<1> DEFINE n == Len(seqs)
           more == Append(seqs, x)
<1>1. /\ n \in Nat /\ more \in Seq(Seq(T)) /\ Len(more) = n + 1
      /\ \A i \in 1..n : more[i] = seqs[i]
      /\ more[n + 1] = x
    BY AppendProperties
<1> HIDE DEF more
<1>2. PICK f : Joins(f, more, n + 1, T)
    BY <1>1, JoinsExist
<1>3. FlattenSeq(more) = f[n + 1]
    BY <1>1, <1>2, FlattenJoins
<1> DEFINE g == [i \in 0..n |-> f[i]]
<1>4. Joins(g, seqs, n, T)
    <2> HIDE DEF n
    <2>1. \A i \in 0..n : g[i] = f[i] /\ f[i] \in Seq(T)
        BY <1>1, <1>2 DEF Joins
    <2>2. \A i \in 1..n : i \in 1..n + 1 /\ i - 1 \in 0..n /\ i \in 0..n
        BY <1>1
    <2>3. 0 \in 0..n
        BY <1>1
    <2>4. g \in [0..n -> Seq(T)]
        BY <2>1
    <2> HIDE DEF g
    <2>5. \A i \in 1..n : g[i] = g[i - 1] \o seqs[i]
        BY <1>1, <1>2, <2>1, <2>2 DEF Joins
    <2>6. g[0] = <<>>
        BY <1>2, <2>1, <2>3 DEF Joins
    <2> QED
        BY <2>4, <2>5, <2>6 DEF Joins
<1>5. g[n] = f[n]
    BY <1>1
<1>6. FlattenSeq(seqs) = f[n]
    BY <1>4, <1>5, FlattenJoins
<1>7. f[n + 1] = f[n] \o x
    <2>1. n + 1 \in 1..n + 1 /\ (n + 1) - 1 = n
        BY <1>1
    <2> QED
        BY <1>1, <1>2, <2>1 DEF Joins
<1> QED
    BY <1>3, <1>6, <1>7 DEF more

\* The segments of an entry more go behind those of the others.
LEMMA SegmentedMore ==
    ASSUME NEW entries \in Seq(Entry), NEW e \in Entry
    PROVE  /\ Segmented(<<>>) = <<>>
           /\ entries \o <<e>> \in Seq(Entry)
           /\ Segmented(entries \o <<e>>) = Segmented(entries) \o EntrySegments(e)
<1> DEFINE Parts(s) == [i \in DOMAIN s |-> EntrySegments(s[i])]
           n == Len(entries)
           more == Append(entries, e)
           parts == Parts(entries)
           es == EntrySegments(e)
<1>1. \A s : Segmented(s) = FlattenSeq(Parts(s))
    BY DEF Segmented
<1>2. Segmented(<<>>) = <<>>
    <2> DEFINE p == Parts(<<>>)
    <2>1. p = <<>>
        OBVIOUS
    <2> HIDE DEF p
    <2>2. FlattenSeq(p) = <<>>
        BY <2>1 DEF FlattenSeq
    <2> QED
        BY <1>1, <2>2 DEF p
<1>3. more = entries \o <<e>>
    BY AppendIsConcat
<1>4. /\ n \in Nat /\ more \in Seq(Entry) /\ Len(more) = n + 1
      /\ \A i \in 1..n : more[i] = entries[i]
      /\ more[n + 1] = e
    BY AppendProperties
<1>5. \A i \in 1..n : EntrySegments(entries[i]) \in Seq(Segment)
    BY EntrySegmentsAre
<1>6. es \in Seq(Segment)
    BY EntrySegmentsAre
<1> HIDE DEF more, es
<1>7. parts \in Seq(Seq(Segment)) /\ Len(parts) = n /\ \A i \in 1..n : parts[i] = EntrySegments(entries[i])
    <2>1. parts = [i \in 1..n |-> EntrySegments(entries[i])]
        OBVIOUS
    <2> HIDE DEF parts, n
    <2> QED
        BY <1>4, <1>5, <2>1
<1>8. Parts(more) = Append(parts, es)
    <2> DEFINE p == Parts(more)
               q == Append(parts, es)
    <2>1. p = [i \in 1..n + 1 |-> EntrySegments(more[i])]
        BY <1>4
    <2> HIDE DEF parts, n
    <2>2. /\ q \in Seq(Seq(Segment)) /\ Len(q) = n + 1
          /\ \A i \in 1..n : q[i] = parts[i]
          /\ q[n + 1] = es
        BY <1>6, <1>7, AppendProperties
    <2> HIDE DEF p, q
    <2>3. ASSUME NEW i \in 1..n + 1 PROVE p[i] = q[i]
        <3>1. CASE i = n + 1
            BY <1>4, <2>1, <2>2, <3>1 DEF es
        <3>2. CASE i # n + 1
            <4>1. i \in 1..n
                BY <1>4, <3>2
            <4> QED
                BY <1>4, <1>7, <2>1, <2>2, <4>1
        <3> QED
            BY <3>1, <3>2
    <2>4. p \in Seq(Seq(Segment)) /\ Len(p) = n + 1
        <3>1. \A i \in 1..n + 1 : q[i] \in Seq(Segment)
            BY <2>2
        <3>2. \A i \in 1..n + 1 : p[i] \in Seq(Segment)
            BY <2>3, <3>1
        <3>3. p = [i \in 1..n + 1 |-> p[i]] /\ n + 1 \in Nat
            BY <1>4, <2>1
        <3> HIDE DEF p
        <3> QED
            BY <3>2, <3>3, IsSequence
    <2>5. p = q
        BY <2>2, <2>3, <2>4, SeqEqual
    <2> QED
        BY <2>5 DEF p, q
<1> HIDE DEF parts
<1>9. FlattenSeq(Append(parts, es)) = FlattenSeq(parts) \o es
    BY <1>6, <1>7, FlattenMore
<1> HIDE DEF Parts
<1>10. Segmented(more) = Segmented(entries) \o es
    BY <1>1, <1>8, <1>9 DEF parts
<1> QED
    BY <1>2, <1>3, <1>4, <1>10 DEF es

\* The groups after m entries, which end at place[m]: the segments of their items.
GroupedAt(groups, place, entries, separator, m) ==
    /\ \A k \in 1..ItemOf(entries, separator, m) :
          Item(entries, separator, m, k) \in Seq(Entry)
    /\ groups[place[m]] = [k \in 1..ItemOf(entries, separator, m) |->
                              Segmented(Item(entries, separator, m, k))]

\* b groups as given by before, and a last one.
LastIs(groups, b, last, before) ==
    groups = [k \in 1..b + 1 |-> IF k = b + 1 THEN last ELSE before[k]]

\* A segment goes to the last group and leaves those before it alone.
LEMMA AppendsLast ==
    ASSUME NEW T, NEW b \in Nat, NEW last \in Seq(T), NEW s \in T,
           NEW before, \A k \in 1..b : before[k] \in Seq(T),
           NEW groups, LastIs(groups, b, last, before)
    PROVE  LastIs([groups EXCEPT ![Len(groups)] = Append(@, s)],
                  b, last \o <<s>>, before)
<1>0. groups = [k \in 1..b + 1 |-> IF k = b + 1 THEN last ELSE before[k]]
    BY DEF LastIs
<1>1. Append(last, s) = last \o <<s>>
    BY AppendIsConcat
<1>2. \A k \in 1..b + 1 : k # b + 1 => k \in 1..b
    OBVIOUS
<1>3. \A k \in 1..b + 1 : groups[k] \in Seq(T)
    BY <1>0, <1>2
<1>4. Len(groups) = b + 1
    <2>1. groups = [k \in 1..b + 1 |-> groups[k]] /\ b + 1 \in Nat
        BY <1>0
    <2>2. groups \in Seq(Seq(T)) /\ Len(groups) = b + 1
        BY <1>3, <2>1
    <2> QED
        BY <2>2
<1> DEFINE d == b + 1
           more == last \o <<s>>
<1>5. d \in 1..d /\ Append(last, s) = more
    BY <1>1
<1> HIDE DEF d, more
<1>6. groups = [k \in 1..d |-> IF k = d THEN last ELSE before[k]] /\ Len(groups) = d
    BY <1>0, <1>4 DEF d
<1>7. [groups EXCEPT ![d] = Append(@, s)] = [k \in 1..d |-> IF k = d THEN more ELSE before[k]]
    BY <1>5, <1>6
<1> QED
    BY <1>6, <1>7 DEF d, more, LastIs

\* A segment begins a group behind the others.
LEMMA AppendsNew ==
    ASSUME NEW T, NEW b \in Nat, NEW last \in T, NEW groups, NEW before,
           \A k \in 1..b : before[k] \in T, groups = [k \in 1..b |-> before[k]]
    PROVE  LastIs(Append(groups, last), b, last, before)
<1> DEFINE more == Append(groups, last)
           want == [k \in 1..b + 1 |-> IF k = b + 1 THEN last ELSE before[k]]
<1>1. groups \in Seq(T) /\ Len(groups) = b
    OBVIOUS
<1>2. /\ more \in Seq(T) /\ Len(more) = b + 1
      /\ \A i \in 1..b : more[i] = groups[i]
      /\ more[b + 1] = last
    BY <1>1, AppendProperties
<1> HIDE DEF more
<1>3. \A k \in 1..b + 1 : k # b + 1 => k \in 1..b
    OBVIOUS
<1>4. \A k \in 1..b + 1 : want[k] = more[k]
    BY <1>2, <1>3
<1>5. want \in Seq(T) /\ Len(want) = b + 1
    <2>1. \A k \in 1..b + 1 : want[k] \in T
        BY <1>3
    <2>2. want = [k \in 1..b + 1 |-> want[k]] /\ b + 1 \in Nat
        OBVIOUS
    <2> HIDE DEF want
    <2> QED
        BY <2>1, <2>2
<1> HIDE DEF want
<1>6. more = want
    BY <1>2, <1>4, <1>5, SeqEqual
<1> QED
    BY <1>6 DEF more, want, LastIs

\* Joining segments is associative.
LEMMA ConcatThree ==
    ASSUME NEW s \in Seq(Segment), NEW t \in Seq(Segment), NEW u \in Seq(Segment)
    PROVE  (s \o t) \o u = s \o (t \o u)
BY ConcatAssociative

\* The segments of the next entry go to the group of its item, which its first
\* one begins if the entry does: no other of them does.
LEMMA EntryGroups ==
    ASSUME NEW entries \in Seq(Entry), Separated(entries), NEW separator,
           NEW segs \in Seq(Segment), NEW place \in [0..Len(entries) -> Nat],
           place[0] = 0,
           \A m \in 0..Len(entries) - 1 : EntryLies(segs, place, entries, m),
           NEW m \in 0..Len(entries) - 1,
           NEW groups, GroupsUpto(groups, segs, separator, Len(segs)),
           GroupedAt(groups, place, entries, separator, m)
    PROVE  GroupedAt(groups, place, entries, separator, m + 1)
<1> DEFINE p == place[m]
           e == entries[m + 1]
           es == EntrySegments(e)
           n == Count(e[2])
           now == ItemOf(entries, separator, m)
           next == ItemOf(entries, separator, m + 1)
           b == next - 1
           begun == Begun(entries, separator, m)
           first == Segmented(begun)
           starts == Starts(entries, separator, m + 1)
           before == [k \in 1..b |-> Segmented(Item(entries, separator, m, k))]
           Midway(j) == LastIs(groups[p + j], b, first \o SubSeq(es, 1, j), before)
           P == {j \in Nat : j + 1 <= n => Midway(j + 1)}
<1>1. m \in Nat /\ m + 1 \in 1..Len(entries) /\ p \in Nat /\ e \in Entry
    OBVIOUS
<1>2. n \in Nat /\ n > 0
    <2>1. e[2] \in Seq(Nat)
        BY <1>1 DEF Entry, Segment
    <2> QED
        BY <2>1, Counted
<1>3. /\ place[m + 1] = p + n /\ p + n <= Len(segs)
      /\ \A j \in 0..n - 1 : segs[p + j + 1] = <<e[1], Chunks(e[2])[j + 1]>>
    BY DEF EntryLies
<1>4. /\ es \in Seq(Segment) /\ Len(es) = n
      /\ \A j \in 0..n - 1 : es[j + 1] = <<e[1], Chunks(e[2])[j + 1]>>
    BY <1>1, EntrySegmentsAre
<1> HIDE DEF es, n
<1>5. \A j \in 0..n - 1 : segs[p + j + 1] = es[j + 1]
    BY <1>3, <1>4
<1>6. ItemGoes(entries, separator, m)
    BY ItemNext
<1>7. /\ now \in Nat /\ next \in Nat /\ next > 0
      /\ next = now + IF starts THEN 1 ELSE 0
      /\ \A k \in 1..next - 1 :
            Item(entries, separator, m + 1, k) = Item(entries, separator, m, k)
      /\ Item(entries, separator, m + 1, next) = begun \o <<e>>
      /\ begun \in Seq(Entry)
    BY <1>6 DEF ItemGoes
<1>8. /\ \A k \in 1..now : Item(entries, separator, m, k) \in Seq(Entry)
      /\ groups[p] = [k \in 1..now |-> Segmented(Item(entries, separator, m, k))]
    BY DEF GroupedAt
<1>9. begun = IF starts THEN <<>> ELSE Item(entries, separator, m, now)
    BY DEF Begun
<1>10. first \in Seq(Segment)
    BY <1>7, SegmentedHas
<1> HIDE DEF now, next, begun, starts
<1>11. b \in Nat /\ b + 1 = next /\ 1..b \subseteq 1..now /\ now = IF starts THEN b ELSE b + 1
    BY <1>7
<1>12. \A k \in 1..b : before[k] \in Seq(Segment)
    <2> TAKE k \in 1..b
    <2>1. Item(entries, separator, m, k) \in Seq(Entry)
        BY <1>8, <1>11
    <2> QED
        BY <2>1, SegmentedHas
<1> HIDE DEF b, before, first
<1>13. ASSUME NEW j \in 0..n - 1
       PROVE  /\ p + j \in 0..Len(segs) - 1 /\ p + j + 1 = (p + j) + 1
              /\ es[j + 1] \in Segment
              /\ groups[p + j + 1]
                     = Grouped(segs, p + j + 1, groups[p + j],
                               p + j + 1 = 1 \/ StartsItem(segs, p + j + 1, separator))
              /\ segs[p + j + 1] = es[j + 1] /\ segs[p + j + 1][1] = e[1]
    <2>1. p + j \in 0..Len(segs) - 1 /\ p + j + 1 = (p + j) + 1 /\ j + 1 \in 1..n
        <3> DEFINE last == Len(segs)
        <3>1. /\ j \in Nat /\ j < n /\ n \in Nat /\ last \in Nat /\ p \in Nat
              /\ p + n <= last
            BY <1>1, <1>2, <1>3
        <3> HIDE DEF p, n, last
        <3>2. p + j \in 0..last - 1 /\ p + j + 1 = (p + j) + 1 /\ j + 1 \in 1..n
            BY <3>1
        <3> QED
            BY <3>2 DEF last
    <2> DEFINE i == p + j
    <2>2. groups[i + 1] = Grouped(segs, i + 1, groups[i],
                                  i + 1 = 1 \/ StartsItem(segs, i + 1, separator))
        BY <2>1 DEF GroupsUpto
    <2>3. es[j + 1] \in Segment
        BY <1>4, <2>1
    <2>4. segs[p + j + 1] = es[j + 1] /\ segs[p + j + 1][1] = e[1]
        <3>1. segs[p + j + 1] = <<e[1], Chunks(e[2])[j + 1]>>
            BY <1>3
        <3>2. segs[p + j + 1] = es[j + 1]
            BY <1>5
        <3> HIDE DEF p, e
        <3> QED
            BY <3>1, <3>2
    <2> QED
        BY <2>1, <2>2, <2>3, <2>4
<1>14. 0 \in P
    <2>1. 0 \in 0..n - 1 /\ p + 0 = p
        BY <1>1, <1>2
    <2> DEFINE s == es[1]
               goes == p + 1 = 1 \/ StartsItem(segs, p + 1, separator)
    <2>2. /\ s \in Segment /\ segs[p + 1] = s /\ segs[p + 1][1] = e[1]
          /\ groups[p + 1] = Grouped(segs, p + 1, groups[p], goes)
        <3>1. 0 + 1 = 1
            OBVIOUS
        <3> QED
            BY <1>13, <2>1, <3>1
    <2>3. ~Continues(segs, p + 1)
        BY FirstDoesNotContinue
    <2>4. p = 0 <=> m = 0
        <3>1. CASE m = 0
            BY <3>1
        <3>2. CASE m # 0
            <4> DEFINE i == m - 1
            <4>1. i \in 0..Len(entries) - 1 /\ i + 1 = m /\ m \in 1..Len(entries)
                BY <1>1, <3>2
            <4>2. EntryLies(segs, place, entries, i)
                BY <4>1
            <4> HIDE DEF i
            <4>3. place[i] \in Nat /\ p = place[i] + Count(entries[m][2])
                BY <4>1, <4>2 DEF EntryLies
            <4>4. Count(entries[m][2]) \in Nat /\ Count(entries[m][2]) > 0
                <5>1. entries[m] \in Entry
                    BY <4>1
                <5>2. entries[m][2] \in Seq(Nat)
                    BY <5>1 DEF Entry, Segment
                <5> QED
                    BY <5>2, Counted
            <4> QED
                BY <3>2, <4>3, <4>4
        <3> QED
            BY <3>1, <3>2
    <2>5. goes <=> starts
        <3>1. p + 1 = 1 <=> m + 1 = 1
            BY <1>1, <2>4
        <3> QED
            BY <2>2, <2>3, <3>1 DEF StartsItem, Starts, starts
    <2> HIDE DEF goes, s
    <2>6. SubSeq(es, 1, 1) = <<s>>
        <3>1. 1 \in 1..Len(es) /\ 1 \in Int /\ 1 < 1 + 1
            BY <1>2, <1>4
        <3>2. SubSeq(es, 1, 1) = <<es[1]>> \o SubSeq(es, 1 + 1, 1)
            BY <1>4, <3>1, SubSeqRecursiveFirst
        <3>3. SubSeq(es, 1 + 1, 1) = <<>>
            BY SubSeqEmpty
        <3>4. <<s>> \in Seq(Segment)
            BY <2>2
        <3> QED
            BY <3>2, <3>3, <3>4, ConcatEmptySeq DEF s
    <2>7. LastIs(groups[p + 1], b, first \o SubSeq(es, 1, 1), before)
        <3>1. CASE starts
            <4>1. now = b /\ begun = <<>>
                BY <1>9, <1>11, <3>1
            <4>2. groups[p] = [k \in 1..b |-> before[k]]
                BY <1>8, <4>1 DEF before
            <4>3. <<s>> \in Seq(Segment)
                BY <2>2
            <4>4. first \o SubSeq(es, 1, 1) = <<s>>
                <5>1. first = <<>>
                    BY <4>1, <1>7, <1>1, SegmentedMore DEF first
                <5> QED
                    BY <2>6, <4>3, <5>1, ConcatEmptySeq
            <4>5. groups[p + 1] = Append(groups[p], <<s>>)
                BY <2>2, <2>5, <3>1 DEF Grouped
            <4> DEFINE a == <<s>>
            <4> HIDE DEF a
            <4>6. LastIs(Append(groups[p], a), b, a, before)
                BY <1>11, <1>12, <4>2, <4>3, AppendsNew DEF a
            <4> QED
                BY <4>4, <4>5, <4>6 DEF a
        <3>2. CASE ~starts
            <4>1. now = b + 1 /\ begun = Item(entries, separator, m, now)
                BY <1>9, <1>11, <3>2
            <4>2. LastIs(groups[p], b, first, before)
                <5>1. \A k \in 1..b + 1 : Segmented(Item(entries, separator, m, k))
                                            = IF k = b + 1 THEN first ELSE before[k]
                    <6> TAKE k \in 1..b + 1
                    <6>1. k # b + 1 => k \in 1..b
                        BY <1>11
                    <6> QED
                        BY <4>1, <6>1 DEF first, before
                <5> QED
                    BY <1>8, <4>1, <5>1 DEF LastIs
            <4>3. groups[p + 1] = [groups[p] EXCEPT ![Len(groups[p])] = Append(@, s)]
                BY <2>2, <2>5, <3>2 DEF Grouped
            <4> DEFINE g == groups[p]
            <4> HIDE DEF g
            <4>4. LastIs([g EXCEPT ![Len(g)] = Append(@, s)], b, first \o <<s>>, before)
                <5>1. LastIs(g, b, first, before)
                    BY <4>2 DEF g
                <5> QED
                    BY <1>10, <1>11, <1>12, <2>2, <5>1, AppendsLast
            <4> QED
                BY <2>6, <4>3, <4>4 DEF g
        <3> QED
            BY <3>1, <3>2
    <2> QED
        BY <2>1, <2>7
<1>15. ASSUME NEW i \in Nat, i \in P PROVE i + 1 \in P
    <2> SUFFICES ASSUME (i + 1) + 1 <= n
                 PROVE  Midway((i + 1) + 1)
        OBVIOUS
    <2> DEFINE j == i + 1
               s == es[j + 1]
               a == first \o SubSeq(es, 1, j)
    <2>1. /\ j \in 0..n - 1 /\ j \in 1..n - 1 /\ j \in Nat /\ i + 1 <= n
          /\ p + j + 1 # 1 /\ j \in 1..n /\ j + 1 \in 1..n
          /\ j + 1 \in 1..Len(es) /\ (j + 1) - 1 = j
        BY <1>1, <1>2, <1>4
    <2>2. Midway(j)
        BY <1>15, <2>1
    <2> HIDE DEF j, P, Midway
    <2>3. Continues(segs, p + j + 1)
        BY <2>1, RestContinues DEF n
    <2>4. ~(p + j + 1 = 1 \/ StartsItem(segs, p + j + 1, separator))
        BY <2>1, <2>3 DEF StartsItem
    <2>5. /\ s \in Segment /\ segs[p + j + 1] = s
          /\ groups[p + j + 1]
                 = Grouped(segs, p + j + 1, groups[p + j],
                           p + j + 1 = 1 \/ StartsItem(segs, p + j + 1, separator))
        BY <1>13, <2>1
    <2> HIDE DEF s
    <2>6. groups[p + j + 1] = [groups[p + j] EXCEPT ![Len(groups[p + j])] = Append(@, s)]
        BY <2>4, <2>5 DEF Grouped
    <2>7. SubSeq(es, 1, j) \in Seq(Segment)
          /\ SubSeq(es, 1, j + 1) = SubSeq(es, 1, j) \o <<s>>
        <3>1. 1 \in Int /\ j \in Int /\ \A k \in 1..j : k \in 1..Len(es)
            BY <2>1
        <3>2. \A k \in 1..j : es[k] \in Segment
            BY <1>4, <3>1
        <3>3. SubSeq(es, 1, j) \in Seq(Segment)
            BY <3>1, <3>2, SubSeqProperties
        <3>4. 1 \in 1..Len(es) /\ j + 1 \in 1..Len(es)
            BY <2>1
        <3>5. SubSeq(es, 1, j + 1) = SubSeq(es, 1, (j + 1) - 1) \o <<es[j + 1]>>
            BY <1>4, <3>4, SubSeqRecursiveSecond
        <3> QED
            BY <2>1, <3>3, <3>5 DEF s
    <2>8. a \in Seq(Segment) /\ a \o <<s>> = first \o SubSeq(es, 1, j + 1)
        <3> DEFINE t == SubSeq(es, 1, j)
                   u == <<s>>
        <3>1. t \in Seq(Segment) /\ SubSeq(es, 1, j + 1) = t \o u
            BY <2>7
        <3>2. u \in Seq(Segment)
            BY <2>5
        <3>a. t \in Seq(Segment)
            BY <3>1
        <3> HIDE DEF t, u
        <3>3. (first \o t) \o u = first \o (t \o u)
            BY <1>10, <3>a, <3>2, ConcatThree
        <3>4. first \o t \in Seq(Segment)
            BY <1>10, <3>1, ConcatProperties
        <3> QED
            BY <3>1, <3>3, <3>4 DEF t, u
    <2> DEFINE g == groups[p + j]
    <2>9. LastIs(g, b, a, before)
        BY <2>2 DEF Midway
    <2> HIDE DEF g, a
    <2>10. LastIs([g EXCEPT ![Len(g)] = Append(@, s)], b, a \o <<s>>, before)
        BY <1>11, <1>12, <2>5, <2>8, <2>9, AppendsLast
    <2>11. Midway(j + 1)
        <3>1. p + (j + 1) = p + j + 1
            <4>1. p \in Nat
                BY <1>1
            <4> HIDE DEF p
            <4> QED
                BY <2>1, <4>1
        <3>2. LastIs(groups[p + j + 1], b, first \o SubSeq(es, 1, j + 1), before)
            BY <2>6, <2>8, <2>10 DEF g
        <3> QED
            BY <3>1, <3>2 DEF Midway
    <2> QED
        BY <2>11 DEF j
<1>16. Midway(n)
    <2> DEFINE j == n - 1
    <2>1. j \in Nat /\ j + 1 = n
        BY <1>2
    <2>2. P = {k \in Nat : k + 1 <= n => Midway(k + 1)}
        OBVIOUS
    <2> HIDE DEF j, P, Midway
    <2>3. Nat \subseteq P
        BY <1>14, <1>15, Induction
    <2>4. j + 1 <= n => Midway(j + 1)
        BY <2>1, <2>2, <2>3
    <2>5. j + 1 <= n
        BY <1>2, <2>1
    <2> QED
        BY <2>1, <2>4, <2>5
<1>17. SubSeq(es, 1, n) = es
    BY <1>4, SubSeqFull
<1>18. /\ begun \o <<e>> \in Seq(Entry)
       /\ Segmented(begun \o <<e>>) = first \o es
    BY <1>1, <1>7, SegmentedMore DEF first, es
<1>19. \A k \in 1..next :
           /\ Item(entries, separator, m + 1, k) \in Seq(Entry)
           /\ Segmented(Item(entries, separator, m + 1, k))
                  = IF k = b + 1 THEN first \o SubSeq(es, 1, n) ELSE before[k]
    <2> TAKE k \in 1..next
    <2>1. CASE k = next
        BY <1>7, <1>11, <1>17, <1>18, <2>1
    <2>2. CASE k # next
        <3>1. k \in 1..next - 1 /\ k \in 1..b /\ k # b + 1 /\ k \in 1..now
            BY <1>7, <1>11, <2>2 DEF b
        <3>2. Item(entries, separator, m + 1, k) = Item(entries, separator, m, k)
            BY <1>7, <3>1
        <3> QED
            BY <1>8, <3>1, <3>2 DEF before
    <2> QED
        BY <2>1, <2>2
<1>20. groups[place[m + 1]] = [k \in 1..next |-> Segmented(Item(entries, separator, m + 1, k))]
    BY <1>3, <1>11, <1>16, <1>19 DEF LastIs
<1> QED
    BY <1>19, <1>20 DEF GroupedAt, next

\* A part of separated entries is separated.
LEMMA PartSeparated ==
    ASSUME NEW entries \in Seq(Entry), Separated(entries),
           NEW a \in 1..Len(entries), NEW b \in a..Len(entries)
    PROVE  Separated(SubSeq(entries, a, b))
<1> DEFINE part == SubSeq(entries, a, b)
           n == b - a + 1
<1>1. a \in Int /\ b \in Int /\ a <= b /\ n \in Nat /\ \A i \in a..b : i \in 1..Len(entries)
    OBVIOUS
<1>2. \A i \in a..b : entries[i] \in Entry
    BY <1>1
<1>3. /\ part \in Seq(Entry) /\ Len(part) = IF a <= b THEN b - a + 1 ELSE 0
      /\ \A i \in 1..b - a + 1 : part[i] = entries[a + i - 1]
    BY <1>1, <1>2, SubSeqProperties
<1>4. Len(part) = n
    BY <1>1, <1>3
<1> HIDE DEF part
<1>5. SUFFICES ASSUME NEW i \in 2..Len(part), part[i - 1][1] = part[i][1]
               PROVE  part[i - 1][2] = <<>> \/ Len(part[i - 1][2]) % MaxChunk # 0
    BY DEF Separated, part
<1> DEFINE j == a + i - 1
<1>6. /\ i \in 1..b - a + 1 /\ i - 1 \in 1..b - a + 1 /\ j \in 2..Len(entries)
      /\ a + (i - 1) - 1 = j - 1
    BY <1>1, <1>4
<1>7. part[i] = entries[j] /\ part[i - 1] = entries[j - 1]
    BY <1>3, <1>6
<1> HIDE DEF j
<1> QED
    BY <1>5, <1>6, <1>7 DEF Separated

\* Every item is a part of the entries.
LEMMA ItemIsPart ==
    ASSUME NEW entries \in Seq(Entry), NEW separator,
           NEW k \in 1..ItemOf(entries, separator, Len(entries))
    PROVE  \E a \in 1..Len(entries) : \E b \in a..Len(entries) :
              Item(entries, separator, Len(entries), k) = SubSeq(entries, a, b)
<1> DEFINE N(i) == ItemOf(entries, separator, i)
           last == Len(entries)
           Part == {i \in 1..last : N(i) = k}
           P == {m \in Nat : k <= N(m) => \E i \in 1..m : N(i) = k}
<1>1. last \in Nat /\ N(0) = 0
    BY ItemOfNext
<1>2. 0 \in P
    BY <1>1
<1>3. ASSUME NEW m \in Nat, m \in P PROVE m + 1 \in P
    <2> SUFFICES ASSUME k <= N(m + 1) PROVE \E i \in 1..m + 1 : N(i) = k
        OBVIOUS
    <2>1. N(m) \in Nat /\ N(m + 1) = N(m) + IF Starts(entries, separator, m + 1) THEN 1 ELSE 0
        BY ItemOfNext
    <2>2. k \in Nat
        BY <1>1, ItemOfNext
    <2> HIDE DEF N
    <2>3. CASE k <= N(m)
        <3>1. PICK i \in 1..m : N(i) = k
            BY <1>3, <2>3
        <3> QED
            BY <3>1
    <2>4. CASE ~(k <= N(m))
        <3>1. k = N(m + 1) /\ m + 1 \in 1..m + 1
            BY <2>1, <2>2, <2>4
        <3> QED
            BY <3>1
    <2> QED
        BY <2>3, <2>4
<1>4. Part # {}
    <2>1. k <= N(last)
        BY <1>1, ItemOfNext
    <2>2. P = {m \in Nat : k <= N(m) => \E i \in 1..m : N(i) = k}
        OBVIOUS
    <2> HIDE DEF P, N
    <2>3. Nat \subseteq P
        BY <1>2, <1>3, Induction
    <2>4. \E i \in 1..last : N(i) = k
        BY <1>1, <2>1, <2>2, <2>3
    <2> QED
        BY <2>4
<1>5. Part \subseteq 1..last /\ Part \subseteq Nat
    BY <1>1
<1>6. Item(entries, separator, last, k) = SubSeq(entries, Min(Part), Max(Part))
    BY DEF Item
<1> HIDE DEF Part, last
<1>7. PICK a \in Part : \A y \in Part : a <= y
    BY <1>4, <1>5, HasLeast
<1>8. PICK b \in Part : \A y \in Part : b >= y
    <2> DEFINE S == {d \in Nat : last - d \in Part}
    <2>1. S # {}
        <3>1. PICK y \in Part : TRUE
            BY <1>4
        <3>2. y \in 1..last
            BY <1>5
        <3>3. last - y \in Nat /\ last - (last - y) = y
            BY <1>1, <3>2
        <3>4. last - y \in S
            BY <3>1, <3>3
        <3> QED
            BY <3>4
    <2>2. S \subseteq Nat
        OBVIOUS
    <2>3. PICK d \in S : \A y \in S : d <= y
        BY <2>1, <2>2, HasLeast
    <2>4. ASSUME NEW y \in Part PROVE last - d >= y
        <3>1. y \in 1..last
            BY <1>5
        <3>2. last - y \in Nat /\ last - (last - y) = y
            BY <1>1, <3>1
        <3>3. last - y \in S
            BY <3>2
        <3>4. d \in Nat
            BY <2>3
        <3>5. d <= last - y
            BY <2>3, <3>3
        <3> QED
            BY <1>1, <3>1, <3>4, <3>5
    <2>5. last - d \in Part
        BY <2>3
    <2> QED
        BY <2>4, <2>5
<1>9. Min(Part) = a /\ Max(Part) = b
    BY <1>5, <1>7, <1>8, MinIs, MaxIs
<1>10. a \in 1..last /\ b \in a..last
    BY <1>1, <1>5, <1>7, <1>8
<1>11. Item(entries, separator, last, k) = SubSeq(entries, a, b)
    BY <1>6, <1>9
<1> QED
    BY <1>10, <1>11 DEF last

\* The groups of segments that were written are those of the items.
LEMMA GroupsGive ==
    ASSUME NEW entries \in Seq(Entry), Separated(entries), NEW separator
    PROVE  LET n == ItemOf(entries, separator, Len(entries))
           IN  /\ \A k \in 1..n : Item(entries, separator, Len(entries), k) \in Seq(Entry)
               /\ Groups(Segmented(entries), separator)
                      = [k \in 1..n |-> Segmented(Item(entries, separator, Len(entries), k))]
<1> DEFINE last == Len(entries)
           segs == Segmented(entries)
<1>1. last \in Nat /\ segs \in Seq(Segment)
    BY SegmentedHas
<1>2. PICK place \in [0..last -> Nat] :
          /\ place[0] = 0 /\ place[last] = Len(segs)
          /\ \A m \in 0..last - 1 : EntryLies(segs, place, entries, m)
    BY SegmentedHas
<1> HIDE DEF segs
<1>3. PICK groups : /\ GroupsUpto(groups, segs, separator, Len(segs))
                    /\ Groups(segs, separator) = groups[Len(segs)]
    BY <1>1, GroupSteps
<1> DEFINE P == {m \in Nat : m <= last => GroupedAt(groups, place, entries, separator, m)}
<1>4. 0 \in P
    <2>1. ItemOf(entries, separator, 0) = 0
        BY ItemOfNext
    <2> DEFINE g == [k \in 1..0 |-> Segmented(Item(entries, separator, 0, k))]
    <2>2. g = <<>>
        OBVIOUS
    <2>3. groups[place[0]] = <<>>
        BY <1>2, <1>3 DEF GroupsUpto
    <2>4. GroupedAt(groups, place, entries, separator, 0)
        <3>1. \A k : k \notin 1..0
            OBVIOUS
        <3> QED
            BY <2>1, <2>2, <2>3, <3>1 DEF GroupedAt
    <2> QED
        BY <2>4
<1>5. ASSUME NEW m \in Nat, m \in P PROVE m + 1 \in P
    <2> SUFFICES ASSUME m + 1 <= last
                 PROVE  GroupedAt(groups, place, entries, separator, m + 1)
        OBVIOUS
    <2>1. m \in 0..last - 1 /\ GroupedAt(groups, place, entries, separator, m)
        BY <1>1, <1>5
    <2> QED
        BY <1>1, <1>2, <1>3, <2>1, EntryGroups
<1>6. GroupedAt(groups, place, entries, separator, last)
    <2>1. P = {m \in Nat : m <= last => GroupedAt(groups, place, entries, separator, m)}
        OBVIOUS
    <2> HIDE DEF P, last
    <2>2. Nat \subseteq P
        BY <1>4, <1>5, Induction
    <2> QED
        BY <1>1, <2>1, <2>2
<1> QED
    BY <1>2, <1>3, <1>6 DEF GroupedAt, segs

\* Entries that are written are read back as the items they are of.
THEOREM ListReadBack ==
    ASSUME NEW entries \in Seq(Entry), Separated(entries), NEW separator
    PROVE  DecodeList(Encode(entries), separator) = Returns(Items(entries, separator))
<1> DEFINE last == Len(entries)
           n == ItemOf(entries, separator, last)
           segs == Segmented(entries)
           TheItem(k) == Item(entries, separator, last, k)
           groups == Groups(segs, separator)
<1>1. Segments(Encode(entries)) = Returns(segs)
    <2>1. segs \in Seq(Segment)
        BY SegmentedHas
    <2> QED
        BY <2>1, SegmentsReadBack DEF Encode
<1>2. /\ \A k \in 1..n : TheItem(k) \in Seq(Entry)
      /\ groups = [k \in 1..n |-> Segmented(TheItem(k))]
    BY GroupsGive
<1>3. \A k \in 1..n : Separated(TheItem(k))
    <2> TAKE k \in 1..n
    <2>1. PICK a \in 1..Len(entries) : \E b \in a..Len(entries) :
              TheItem(k) = SubSeq(entries, a, b)
        BY ItemIsPart
    <2>2. PICK b \in a..Len(entries) : TheItem(k) = SubSeq(entries, a, b)
        BY <2>1
    <2> QED
        BY <2>2, PartSeparated
<1> HIDE DEF n, segs, groups, TheItem
<1>4. ASSUME NEW k \in 1..n
      PROVE  Decode(Extended(groups[k])).value = Meaning(TheItem(k))
    <2>1. TheItem(k) \in Seq(Entry) /\ Separated(TheItem(k))
        BY <1>2, <1>3
    <2>2. Extended(groups[k]) = Encode(TheItem(k))
        BY <1>2 DEF Encode
    <2>3. Decode(Encode(TheItem(k))) = Returns(Meaning(TheItem(k)))
        BY <2>1, EntriesReadBack
    <2> QED
        BY <2>2, <2>3, ReturnsValue
<1>5. DOMAIN groups = 1..n
    BY <1>2
<1>6. [k \in DOMAIN groups |-> Decode(Extended(groups[k])).value]
          = [k \in 1..n |-> Meaning(TheItem(k))]
    BY <1>4, <1>5
<1>7. DecodeList(Encode(entries), separator)
          = Returns([k \in DOMAIN groups |-> Decode(Extended(groups[k])).value])
    BY <1>1, ReturnsValue DEF DecodeList, groups
<1>8. Items(entries, separator) = [k \in 1..n |-> Meaning(TheItem(k))]
    BY DEF Items, n, TheItem
<1> QED
    BY <1>6, <1>7, <1>8

-----------------------------------------------------------------------------
(* The inputs that the runs are made of.                                   *)

IInv == input \in [of : {"entries"}, entries : Seq(Entry)]

\* An entry of any length is added to entries.
LEMMA AddEntryKeeps ==
    ASSUME IInv, AddEntry PROVE IInv'
<1>1. PICK tag \in {Separator, 2}, length \in Lengths :
          input' = [input EXCEPT !.entries =
                       Append(@, <<tag, [j \in 1..length |->
                                            16 * Len(input.entries) + j]>>)]
    BY DEF AddEntry
<1> DEFINE value == [j \in 1..length |-> 16 * Len(input.entries) + j]
<1>2. length \in Nat /\ Len(input.entries) \in Nat /\ tag \in Nat
    BY LengthsAssumption DEF IInv, Separator
<1>3. value \in Seq(Nat)
    BY <1>2
<1> HIDE DEF value
<1>4. <<tag, value>> \in Entry
    BY <1>2, <1>3 DEF Entry, Segment
<1>5. Append(input.entries, <<tag, value>>) \in Seq(Entry)
    BY <1>4 DEF IInv
<1>6. input' = [input EXCEPT !.entries = Append(input.entries, <<tag, value>>)]
    BY <1>1 DEF value
<1> QED
    BY <1>5, <1>6 DEF IInv

\* The entries of an input are what the theorems above speak of.
LEMMA InputsAreEntries == EntriesSpec => []IInv
<1>1. EntriesInit => IInv
    <2>1. <<>> \in Seq(Entry)
        OBVIOUS
    <2> QED
        BY <2>1 DEF EntriesInit, IInv
<1>2. IInv /\ [AddEntry]_input => IInv'
    <2> SUFFICES ASSUME IInv, [AddEntry]_input PROVE IInv'
        OBVIOUS
    <2>1. CASE AddEntry
        BY <2>1, AddEntryKeeps
    <2>2. CASE UNCHANGED input
        BY <2>2 DEF IInv
    <2> QED
        BY <2>1, <2>2
<1> QED
    BY <1>1, <1>2, PTL DEF EntriesSpec

\* What encode has written, decode and decode_list read back, whatever is
\* added to the entries and however long its values are.
THEOREM TlvReadsBack == EntriesSpec => []TlvRoundTrip
<1>1. IInv => TlvRoundTrip
    <2> SUFFICES ASSUME IInv, Separated(input.entries)
                 PROVE  /\ Decode(Encode(input.entries)) = Returns(Meaning(input.entries))
                        /\ DecodeList(Encode(input.entries), Separator)
                               = Returns(Items(input.entries, Separator))
        BY DEF TlvRoundTrip
    <2>1. input.entries \in Seq(Entry)
        BY DEF IInv
    <2> QED
        BY <2>1, EntriesReadBack, ListReadBack
<1> QED
    BY <1>1, InputsAreEntries, PTL

\* Bytes that are cut off after any of them are refused or give a beginning of
\* the segments that were written.
THEOREM CutsAreNoticed == EntriesSpec => []CutOffNoticed
<1>1. IInv => CutOffNoticed
    <2> SUFFICES ASSUME IInv, NEW n \in 0..Len(Encode(input.entries)),
                        Segments(SubSeq(Encode(input.entries), 1, n)).ok
                 PROVE  IsPrefix(Segments(SubSeq(Encode(input.entries), 1, n)).value,
                                 Segments(Encode(input.entries)).value)
        BY DEF CutOffNoticed
    <2> DEFINE data == Encode(input.entries)
    <2>1. Segmented(input.entries) \in Seq(Segment)
        BY SegmentedHas DEF IInv
    <2>2. Segments(data).ok
        BY <2>1, SegmentsReadBack, ReturnsValue DEF Encode
    <2>3. data \in Seq(Nat)
        BY <2>1, ExtendedHas DEF Encode
    <2> QED
        BY <2>2, <2>3, CutOffRead
<1> QED
    BY <1>1, InputsAreEntries, PTL

-----------------------------------------------------------------------------
(* Numbers, and the order of what is written.                              *)

\* Where the elements of two sequences lie that are joined.
LEMMA TwoJoined ==
    ASSUME NEW T, NEW a \in Seq(T), NEW b \in Seq(T)
    PROVE  /\ a \o b \in Seq(T) /\ Len(a \o b) = Len(a) + Len(b)
           /\ \A x \in 1..Len(a) : (a \o b)[x] = a[x]
           /\ \A x \in 1..Len(b) : (a \o b)[Len(a) + x] = b[x]
BY ConcatProperties

\* A word is a number of two bytes.
LEMMA Words == \A x : x \in Word <=> x \in Nat /\ x < 65536
BY DEF Word

\* Two bytes hold a number of two bytes.
LEMMA U16Reads ==
    ASSUME NEW n \in Word
    PROVE  /\ U16(n) \in Seq(Nat) /\ Len(U16(n)) = 2
           /\ read_u16(U16(n)) = n
<1> DEFINE a == n % 256
           b == n \div 256
           c == b % 256
<1>1. n \in Nat /\ n <= 65535
    BY DEF Word
<1>2. a \in Nat /\ b \in Nat /\ n = 256 * b + a /\ a >= 0
    BY <1>1, Division
<1> HIDE DEF a, b
<1>3. b <= 255
    BY <1>1, <1>2
<1>4. c = b
    BY <1>2, <1>3
<1> HIDE DEF c
<1>5. <<a, c>> \in Seq(Nat) /\ Len(<<a, c>>) = 2 /\ <<a, c>>[1] + 256 * <<a, c>>[2] = n
    BY <1>2, <1>4
<1>6. U16(n) = <<a, c>>
    BY DEF U16, a, b, c
<1> QED
    BY <1>5, <1>6 DEF read_u16

\* Two numbers are numbers.
LEMMA TwoNumbers ==
    ASSUME NEW s \in Seq(Nat), Len(s) = 2
    PROVE  s[1] \in Nat /\ s[2] \in Nat
<1>1. 1 \in 1..Len(s) /\ 2 \in 1..Len(s)
    OBVIOUS
<1> QED
    BY <1>1

\* Four bytes hold two of those.
LEMMA U32Reads ==
    ASSUME NEW n \in Nat, n \div 65536 \in Word
    PROVE  /\ U32(n) \in Seq(Nat) /\ Len(U32(n)) = 4
           /\ read_u32(U32(n)) = n
<1> DEFINE a == n % 65536
           b == n \div 65536
<1>1. a \in Word /\ b \in Word /\ n = a + 65536 * b
    <2>1. n % 65536 \in Nat /\ n % 65536 < 65536
        OBVIOUS
    <2>2. n = 65536 * (n \div 65536) + (n % 65536)
        BY Division
    <2>3. a \in Word
        BY <2>1, Words
    <2>4. b \in Word
        OBVIOUS
    <2>5. n = 65536 * b + a
        BY <2>2
    <2> HIDE DEF a, b
    <2>6. a \in Nat /\ b \in Nat
        BY <2>3, <2>4, Words
    <2> QED
        BY <2>3, <2>4, <2>5, <2>6
<1> HIDE DEF a, b
<1> DEFINE s == U16(a)
           t == U16(b)
<1>2. Len(s) = 2 /\ Len(t) = 2
    BY <1>1, U16Reads
<1>a. s \in Seq(Nat) /\ t \in Seq(Nat)
    BY <1>1, U16Reads
<1>3. s[1] + 256 * s[2] = a /\ t[1] + 256 * t[2] = b
    BY <1>1, U16Reads DEF read_u16
<1> HIDE DEF s, t
<1>4. /\ s \o t \in Seq(Nat) /\ Len(s \o t) = Len(s) + Len(t)
      /\ \A x \in 1..Len(s) : (s \o t)[x] = s[x]
      /\ \A x \in 1..Len(t) : (s \o t)[Len(s) + x] = t[x]
    BY <1>a, TwoJoined
<1>5. /\ (s \o t)[1] = s[1] /\ (s \o t)[2] = s[2]
      /\ (s \o t)[3] = t[1] /\ (s \o t)[4] = t[2]
    <2>1. 1 \in 1..2 /\ 2 \in 1..2 /\ 2 + 1 = 3 /\ 2 + 2 = 4
        OBVIOUS
    <2>2. (s \o t)[2 + 1] = t[1] /\ (s \o t)[2 + 2] = t[2]
        BY <1>2, <1>4, <2>1
    <2> QED
        BY <1>2, <1>4, <2>1, <2>2
<1>6. s[1] \in Nat /\ s[2] \in Nat /\ t[1] \in Nat /\ t[2] \in Nat
    BY <1>a, <1>2, TwoNumbers
<1>7. U32(n) = s \o t
    BY DEF U32, a, b, s, t
<1>8. read_u32(s \o t) = (s[1] + 256 * s[2]) + 65536 * (t[1] + 256 * t[2])
    <2> DEFINE w == s \o t
    <2>1. w[1] = s[1] /\ w[2] = s[2] /\ w[3] = t[1] /\ w[4] = t[2]
        BY <1>5
    <2> HIDE DEF w
    <2>2. read_u32(w) = ((w[1] + 256 * w[2]) + 65536 * w[3]) + 16777216 * w[4]
        BY DEF read_u32
    <2>3. read_u32(w) = (s[1] + 256 * s[2]) + 65536 * (t[1] + 256 * t[2])
        BY <1>6, <2>1, <2>2
    <2> QED
        BY <2>3 DEF w
<1>9. read_u32(s \o t) = n
    BY <1>1, <1>3, <1>8
<1> QED
    BY <1>2, <1>4, <1>7, <1>9

\* How many members of S are less than x.
Rank(S, x) == Cardinality({y \in S : y < x})

\* A greater member has a greater rank, so that each rank is of one member.
LEMMA RanksAre ==
    ASSUME NEW S \in SUBSET Nat, IsFiniteSet(S)
    PROVE  /\ Cardinality(S) \in Nat
           /\ \A x \in S : Rank(S, x) \in 0..Cardinality(S) - 1
           /\ \A x, y \in S : x < y => Rank(S, x) < Rank(S, y)
           /\ \A k \in 1..Cardinality(S) : \E x \in S : Rank(S, x) = k - 1
<1> DEFINE n == Cardinality(S)
           Below(x) == {y \in S : y < x}
<1>1. n \in Nat
    BY FS_CardinalityType
<1>2. ASSUME NEW x \in S
      PROVE  IsFiniteSet(Below(x)) /\ Cardinality(Below(x)) \in 0..n - 1
    <2>1. Below(x) \in SUBSET S /\ Below(x) # S
        OBVIOUS
    <2> HIDE DEF Below
    <2>2. /\ IsFiniteSet(Below(x)) /\ Cardinality(Below(x)) <= Cardinality(S)
          /\ Cardinality(S) # Cardinality(Below(x))
        BY <2>1, FS_Subset
    <2>3. Cardinality(Below(x)) \in Nat
        BY <2>2, FS_CardinalityType
    <2> QED
        BY <1>1, <2>2, <2>3
<1>3. ASSUME NEW x \in S, NEW y \in S, x < y
      PROVE  Cardinality(Below(x)) < Cardinality(Below(y))
    <2>1. x \in Nat /\ y \in Nat /\ \A z \in S : z \in Nat
        OBVIOUS
    <2>2. x \in Below(y) /\ x \notin Below(x)
        BY <1>3, <2>1
    <2>3. \A z \in S : z < x => z < y
        BY <1>3, <2>1
    <2>4. Below(x) \in SUBSET Below(y)
        BY <2>3
    <2>5. IsFiniteSet(Below(y)) /\ Cardinality(Below(x)) \in Nat /\ Cardinality(Below(y)) \in Nat
        BY <1>1, <1>2
    <2> HIDE DEF Below
    <2>6. /\ Cardinality(Below(x)) <= Cardinality(Below(y))
          /\ Cardinality(Below(y)) # Cardinality(Below(x))
        BY <2>2, <2>4, <2>5, FS_Subset
    <2> QED
        BY <2>5, <2>6
<1> DEFINE rank == [x \in S |-> Cardinality(Below(x))]
<1>4. rank \in [S -> 0..n - 1]
    BY <1>2
<1>5. ASSUME NEW x \in S, NEW y \in S, rank[x] = rank[y] PROVE x = y
    <2>1. x < y \/ y < x \/ x = y
        OBVIOUS
    <2> QED
        BY <1>2, <1>3, <1>5, <2>1
<1>6. IsFiniteSet(0..n - 1) /\ Cardinality(0..n - 1) = n
    <2>1. 0 \in Int /\ n - 1 \in Int
        BY <1>1
    <2>2. /\ IsFiniteSet(0..n - 1)
          /\ Cardinality(0..n - 1) = IF 0 > n - 1 THEN 0 ELSE n - 1 - 0 + 1
        BY <2>1, FS_Interval
    <2> QED
        BY <1>1, <2>2
<1>7. rank \in Injection(S, 0..n - 1)
    BY <1>4, <1>5 DEF Injection, IsInjective
<1>8. rank \in Surjection(S, 0..n - 1)
    BY <1>6, <1>7, FS_Injection
<1>9. \A k \in 1..n : \E x \in S : Cardinality(Below(x)) = k - 1
    <2> TAKE k \in 1..n
    <2>1. k - 1 \in 0..n - 1
        BY <1>1
    <2> QED
        BY <1>8, <2>1 DEF Surjection
<1> QED
    BY <1>1, <1>2, <1>3, <1>9 DEF Rank

\* All members come, each once and the lesser before the greater.
LEMMA SortedAre ==
    ASSUME NEW S \in SUBSET Nat, IsFiniteSet(S)
    PROVE  /\ Sorted(S) \in Seq(S) /\ Len(Sorted(S)) = Cardinality(S)
           /\ Cardinality(S) \in Nat
           /\ \A x \in S : \E k \in 1..Cardinality(S) : Sorted(S)[k] = x
           /\ \A i, j \in 1..Cardinality(S) : i < j => Sorted(S)[i] < Sorted(S)[j]
<1> DEFINE n == Cardinality(S)
           s == Sorted(S)
<1>1. /\ n \in Nat
      /\ \A x \in S : Rank(S, x) \in 0..n - 1
      /\ \A x, y \in S : x < y => Rank(S, x) < Rank(S, y)
      /\ \A k \in 1..n : \E x \in S : Rank(S, x) = k - 1
    BY RanksAre
<1>2. s = [k \in 1..n |-> CHOOSE x \in S : Rank(S, x) = k - 1]
    BY DEF Sorted, Rank
<1> HIDE DEF s, n
<1>3. ASSUME NEW k \in 1..n PROVE s[k] \in S /\ Rank(S, s[k]) = k - 1
    BY <1>1, <1>2
<1>4. s \in Seq(S) /\ Len(s) = n
    <2>1. s = [k \in 1..n |-> s[k]]
        BY <1>2
    <2> QED
        BY <1>1, <1>3, <2>1, IsSequence
<1>5. ASSUME NEW x \in S, NEW y \in S, Rank(S, x) = Rank(S, y) PROVE x = y
    <2>1. x < y \/ y < x \/ x = y
        OBVIOUS
    <2> QED
        BY <1>1, <1>5, <2>1
<1>6. \A x \in S : \E k \in 1..n : s[k] = x
    <2> TAKE x \in S
    <2> DEFINE k == Rank(S, x) + 1
    <2>1. k \in 1..n /\ k - 1 = Rank(S, x)
        BY <1>1
    <2>2. s[k] \in S /\ Rank(S, s[k]) = Rank(S, x)
        BY <1>3, <2>1
    <2>3. s[k] = x
        BY <1>5, <2>2
    <2> QED
        BY <2>1, <2>3
<1>7. ASSUME NEW i \in 1..n, NEW j \in 1..n, i < j PROVE s[i] < s[j]
    <2>1. s[i] \in S /\ s[j] \in S /\ Rank(S, s[i]) = i - 1 /\ Rank(S, s[j]) = j - 1
        BY <1>3
    <2>2. i - 1 < j - 1
        BY <1>7, <1>1
    <2> DEFINE a == s[i]
               b == s[j]
               ra == Rank(S, a)
               rb == Rank(S, b)
    <2>3. a \in S /\ b \in S /\ ra = i - 1 /\ rb = j - 1
        BY <2>1
    <2>4. b < a => rb < ra
        BY <1>1, <2>3
    <2>5. a = b => ra = rb
        OBVIOUS
    <2> HIDE DEF a, b, ra, rb
    <2>6. a \in Nat /\ b \in Nat
        BY <2>3
    <2>7. a < b
        BY <2>2, <2>3, <2>4, <2>5, <2>6
    <2> QED
        BY <2>7 DEF a, b
<1> QED
    BY <1>1, <1>4, <1>6, <1>7 DEF n, s

-----------------------------------------------------------------------------
(* Entries that are written one after another.                             *)

\* Nothing is meant by no entries.
LEMMA NothingMeant == Meaning(<<>>) = <<>> /\ <<>> \in Seq(Entry) /\ Len(<<>>) = 0
<1>1. <<>> \in Seq(Entry) /\ Len(<<>>) = 0
    OBVIOUS
<1>2. Known(<<>>, Len(<<>>)) = Meaning(<<>>)
    BY <1>1, KnownLast
<1>3. Known(<<>>, 0) = <<>>
    BY KnownFirst
<1> QED
    BY <1>1, <1>2, <1>3

\* What is known after m entries depends on those alone.
LEMMA KnownSame ==
    ASSUME NEW a, NEW b, NEW m \in Nat, \A i \in 1..m : a[i] = b[i]
    PROVE  Known(a, m) = Known(b, m)
<1> DEFINE P == {k \in Nat : k <= m => Known(a, k) = Known(b, k)}
<1>1. 0 \in P
    <2>1. Known(a, 0) = <<>> /\ Known(b, 0) = <<>>
        BY KnownFirst
    <2> QED
        BY <2>1
<1>2. ASSUME NEW k \in Nat, k \in P PROVE k + 1 \in P
    <2> SUFFICES ASSUME k + 1 <= m PROVE Known(a, k + 1) = Known(b, k + 1)
        OBVIOUS
    <2>1. a[k + 1] = b[k + 1]
        OBVIOUS
    <2>2. Known(a, k) = Known(b, k)
        BY <1>2
    <2>3. Known(a, k + 1) = With(Known(a, k), a[k + 1][1], a[k + 1][2])
        BY KnownNext
    <2>4. Known(b, k + 1) = With(Known(b, k), b[k + 1][1], b[k + 1][2])
        BY KnownNext
    <2> QED
        BY <2>1, <2>2, <2>3, <2>4
<1> HIDE DEF P
<1>3. m \in P
    BY <1>1, <1>2, Induction
<1> QED
    BY <1>3 DEF P

\* An entry more counts for its tag.
LEMMA MeaningMore ==
    ASSUME NEW s \in Seq(Entry), NEW e \in Entry
    PROVE  /\ s \o <<e>> \in Seq(Entry) /\ Len(s \o <<e>>) = Len(s) + 1
           /\ \A i \in 1..Len(s) : (s \o <<e>>)[i] = s[i]
           /\ (s \o <<e>>)[Len(s) + 1] = e
           /\ Meaning(s \o <<e>>) = With(Meaning(s), e[1], e[2])
<1> DEFINE n == Len(s)
           r == Append(s, e)
<1>1. r = s \o <<e>>
    BY AppendIsConcat
<1>2. /\ n \in Nat /\ r \in Seq(Entry) /\ Len(r) = n + 1
      /\ \A i \in 1..n : r[i] = s[i]
      /\ r[n + 1] = e
    BY AppendProperties
<1> HIDE DEF r
<1>3. Known(r, n) = Known(s, n)
    BY <1>2, KnownSame
<1>4. Known(r, n + 1) = With(Known(r, n), r[n + 1][1], r[n + 1][2])
    BY <1>2, KnownNext
<1>5. Known(s, n) = Meaning(s) /\ Known(r, Len(r)) = Meaning(r)
    BY <1>2, KnownLast
<1>6. Meaning(r) = With(Meaning(s), e[1], e[2])
    BY <1>2, <1>3, <1>4, <1>5
<1> QED
    BY <1>1, <1>2, <1>6

TagsBelow(s, tag) == \A i \in 1..Len(s) : s[i][1] < tag

\* Entries r mean what s means, but for a tag that is given or not.
Extends(r, s, tag, given, value) ==
    /\ r \in Seq(Entry) /\ Separated(r) /\ TagsBelow(r, tag + 1)
    /\ Len(s) <= Len(r) /\ \A i \in 1..Len(s) : r[i] = s[i]
    /\ \A i \in Len(s) + 1..Len(r) : r[i][1] = tag
    /\ Meaning(r) = IF given THEN With(Meaning(s), tag, value) ELSE Meaning(s)

\* An entry whose tag is higher than those before it is told from them.
LEMMA OptionalMeans ==
    ASSUME NEW s \in Seq(Entry), Separated(s), NEW tag \in Nat, TagsBelow(s, tag),
           \A i \in 1..Len(s) : s[i][1] \in Nat,
           NEW given \in BOOLEAN, NEW value, given => value \in Seq(Nat)
    PROVE  Extends(s \o Optional(tag, given, value), s, tag, given, value)
<1>1. CASE ~given
    <2>1. Optional(tag, given, value) = <<>>
        BY <1>1 DEF Optional
    <2>2. s \o <<>> = s
        BY ConcatEmptySeq
    <2>3. TagsBelow(s, tag + 1)
        BY DEF TagsBelow
    <2>4. Len(s) <= Len(s) /\ Len(s) + 1..Len(s) = {}
        OBVIOUS
    <2> QED
        BY <1>1, <2>1, <2>2, <2>3, <2>4 DEF Extends
<1>2. CASE given
    <2> DEFINE e == <<tag, value>>
               r == s \o <<e>>
               n == Len(s)
    <2>1. Optional(tag, given, value) = <<e>>
        BY <1>2 DEF Optional
    <2>2. e \in Entry /\ e[1] = tag /\ e[2] = value
        BY <1>2 DEF Entry, Segment
    <2> HIDE DEF e
    <2>3. /\ r \in Seq(Entry) /\ Len(r) = n + 1
          /\ \A i \in 1..n : r[i] = s[i]
          /\ r[n + 1] = e
          /\ Meaning(r) = With(Meaning(s), e[1], e[2])
        BY <2>2, MeaningMore
    <2> HIDE DEF r
    <2>4. n \in Nat
        OBVIOUS
    <2>5. TagsBelow(r, tag + 1)
        BY <2>2, <2>3, <2>4 DEF TagsBelow
    <2>6. Separated(r)
        <3> SUFFICES ASSUME NEW i \in 2..Len(r), r[i - 1][1] = r[i][1]
                     PROVE  r[i - 1][2] = <<>> \/ Len(r[i - 1][2]) % MaxChunk # 0
            BY DEF Separated
        <3>1. i # n + 1
            <4> SUFFICES ASSUME i = n + 1 PROVE FALSE
                OBVIOUS
            <4>1. i - 1 = n /\ n \in 1..n
                BY <2>3, <2>4
            <4>2. r[n][1] = s[n][1] /\ s[n][1] < tag /\ s[n][1] \in Nat
                BY <2>3, <4>1 DEF TagsBelow
            <4>3. r[n][1] = tag
                BY <2>2, <2>3, <4>1
            <4> QED
                BY <4>2, <4>3
        <3>2. i \in 2..n /\ i - 1 \in 1..n /\ i \in 1..n
            BY <2>3, <2>4, <3>1
        <3>3. r[i] = s[i] /\ r[i - 1] = s[i - 1]
            BY <2>3, <3>2
        <3> QED
            BY <3>2, <3>3 DEF Separated
    <2>7. n <= Len(r) /\ \A i \in n + 1..Len(r) : r[i][1] = tag
        <3>1. \A i \in n + 1..Len(r) : i = n + 1
            BY <2>3, <2>4
        <3> QED
            BY <2>2, <2>3, <2>4, <3>1
    <2> QED
        BY <1>2, <2>1, <2>2, <2>3, <2>5, <2>6, <2>7 DEF Extends, r
<1> QED
    BY <1>1, <1>2

\* The tags of entries are numbers.
LEMMA TagsAre ==
    ASSUME NEW s \in Seq(Entry)
    PROVE  \A i \in 1..Len(s) : s[i][1] \in Nat /\ s[i][2] \in Seq(Nat)
<1> TAKE i \in 1..Len(s)
<1>1. s[i] \in Entry
    OBVIOUS
<1> QED
    BY <1>1 DEF Entry, Segment

-----------------------------------------------------------------------------
(* Buttons.                                                                *)

\* A button as one reads it back.
ReadableButton(button) ==
    IF button.button_name = <<>> THEN [button EXCEPT !.button_name = None] ELSE button

\* What holds of the entries of a button.
ButtonReads(part, id, button) ==
    /\ part \in Seq(Entry) /\ Separated(part) /\ Len(part) > 1
    /\ \A i \in 1..Len(part) : part[i][1] = BUTTON_CONFIGURATION_ID <=> i = 1
    /\ ValidButton(Meaning(part))
    /\ Meaning(part)[BUTTON_CONFIGURATION_ID] = <<id>>
    /\ ParsedButton(Meaning(part)) = ReadableButton(button)

\* Bytes are numbers.
LEMMA BytesAre ==
    ASSUME NEW s \in Seq(Byte)
    PROVE  s \in Seq(Nat)
<1>1. Len(s) \in Nat /\ \A i \in 1..Len(s) : s[i] \in Byte
    BY ElementOfSeq
<1>2. s = [i \in 1..Len(s) |-> s[i]]
    OBVIOUS
<1>3. \A i \in 1..Len(s) : s[i] \in Nat
    <2>1. \A x \in Byte : x \in Nat
        BY DEF Byte
    <2> QED
        BY <1>1, <2>1
<1> QED
    BY <1>1, <1>2, <1>3, IsSequence

\* One entry and another make two.
LEMMA TwoAre ==
    ASSUME NEW T, NEW x \in T, NEW y \in T
    PROVE  <<x>> \o <<y>> = <<x, y>>
<1> DEFINE a == <<x>>
           b == <<y>>
<1>1. a \in Seq(T) /\ b \in Seq(T) /\ Len(a) = 1 /\ Len(b) = 1 /\ a[1] = x /\ b[1] = y
    OBVIOUS
<1> HIDE DEF a, b
<1>2. /\ a \o b \in Seq(T) /\ Len(a \o b) = Len(a) + Len(b)
      /\ \A i \in 1..Len(a) : (a \o b)[i] = a[i]
      /\ \A i \in 1..Len(b) : (a \o b)[Len(a) + i] = b[i]
    BY <1>1, TwoJoined
<1> DEFINE w == a \o b
<1>3. w \in Seq(T) /\ Len(w) = 2 /\ w[1] = x /\ w[2] = y
    <2>1. 1 \in 1..1 /\ 1 + 1 = 2
        OBVIOUS
    <2> QED
        BY <1>1, <1>2, <2>1
<1> HIDE DEF w
<1>4. w = <<x, y>>
    BY <1>3
<1> QED
    BY <1>4 DEF w, a, b

\* A button is read back from its entries.
LEMMA ButtonMeans ==
    ASSUME NEW id \in Byte, NEW button \in Button
    PROVE  ButtonReads(ButtonEntries(id, button), id, button)
<1> DEFINE name == button.button_name
           type == button.button_type
           named == name \notin {None, <<>>}
           ids == <<id>>
           types == U16(type)
           e1 == <<1, ids>>
           e2 == <<2, types>>
           s1 == <<e1>>
           s2 == <<e1, e2>>
           part == s2 \o Optional(3, named, name)
           m1 == With(<<>>, 1, ids)
           m2 == With(m1, 2, types)
           m3 == IF named THEN With(m2, 3, name) ELSE m2
<1>1. ids \in Seq(Nat) /\ Len(ids) = 1
    BY DEF Byte
<1>2. type \in Word /\ named \in BOOLEAN /\ (named => name \in Seq(Nat))
    <2>1. name \in Seq(Byte) \cup {None} /\ type \in Word
        BY DEF Button
    <2>2. name \in Seq(Byte) => name \in Seq(Nat)
        BY BytesAre
    <2> QED
        BY <2>1, <2>2
<1>3. types \in Seq(Nat) /\ Len(types) = 2 /\ read_u16(types) = type
    BY <1>2, U16Reads
<1>4. ButtonEntries(id, button) = part
    BY DEF ButtonEntries, BUTTON_CONFIGURATION_ID, BUTTON_CONFIGURATION_TYPE,
           BUTTON_CONFIGURATION_NAME
<1> HIDE DEF ids, types
<1>5. Extends(s1, <<>>, 1, TRUE, ids) /\ Len(s1) = 1
    <2>1. Separated(<<>>) /\ TagsBelow(<<>>, 1) /\ \A i \in 1..Len(<<>>) : <<>>[i][1] \in Nat
        BY NothingMeant DEF Separated, TagsBelow
    <2>2. Extends(<<>> \o Optional(1, TRUE, ids), <<>>, 1, TRUE, ids)
        BY <1>1, <2>1, NothingMeant, OptionalMeans
    <2>3. <<>> \o Optional(1, TRUE, ids) = s1
        BY DEF Optional
    <2> QED
        BY <2>2, <2>3
<1>6. Extends(s2, s1, 2, TRUE, types) /\ Len(s2) = 2
    <2>1. s1 \in Seq(Entry) /\ Separated(s1) /\ TagsBelow(s1, 2)
        BY <1>5 DEF Extends
    <2>2. \A i \in 1..Len(s1) : s1[i][1] \in Nat
        BY <2>1, TagsAre
    <2>3. Extends(s1 \o Optional(2, TRUE, types), s1, 2, TRUE, types)
        BY <1>3, <2>1, <2>2, OptionalMeans
    <2>4. s1 \o Optional(2, TRUE, types) = s2
        <3>1. e1 \in Entry /\ e2 \in Entry
            BY <1>1, <1>3 DEF Entry, Segment
        <3> HIDE DEF e1, e2
        <3>2. <<e1>> \o <<e2>> = <<e1, e2>>
            BY <3>1, TwoAre
        <3> QED
            BY <3>2 DEF Optional, e2
    <2> QED
        BY <2>3, <2>4
<1>7. s2[1] = e1 /\ s2[2] = e2 /\ e1[1] = 1 /\ e2[1] = 2
    OBVIOUS
<1> HIDE DEF s1, s2, named, name, type
<1>8. Extends(part, s2, 3, named, name)
    <2>1. s2 \in Seq(Entry) /\ Separated(s2) /\ TagsBelow(s2, 3)
        BY <1>6 DEF Extends
    <2>2. \A i \in 1..Len(s2) : s2[i][1] \in Nat
        BY <2>1, TagsAre
    <2> QED
        BY <1>2, <2>1, <2>2, OptionalMeans
<1> HIDE DEF part
<1>9. Meaning(part) = m3
    <2>1. Meaning(s1) = m1
        BY <1>5, NothingMeant DEF Extends
    <2>2. Meaning(s2) = m2
        BY <1>6, <2>1 DEF Extends
    <2> QED
        BY <1>8, <2>2 DEF Extends
<1>10. /\ part \in Seq(Entry) /\ Separated(part) /\ Len(part) > 1
       /\ \A i \in 1..Len(part) : part[i][1] = 1 <=> i = 1
    <2>1. /\ part \in Seq(Entry) /\ Separated(part) /\ 2 <= Len(part)
          /\ part[1] = s2[1] /\ part[2] = s2[2]
          /\ \A i \in 3..Len(part) : part[i][1] = 3
        BY <1>6, <1>8 DEF Extends
    <2>2. Len(part) \in Nat /\ Len(part) > 1
        BY <2>1
    <2>3. part[1][1] = 1 /\ part[2][1] = 2
        BY <1>7, <2>1
    <2>4. ASSUME NEW i \in 1..Len(part) PROVE i = 1 \/ i = 2 \/ i \in 3..Len(part)
        BY <2>2
    <2>5. ASSUME NEW i \in 1..Len(part) PROVE part[i][1] = 1 <=> i = 1
        BY <2>1, <2>3, <2>4
    <2> QED
        BY <2>1, <2>2, <2>5
<1>11. /\ DOMAIN m3 = IF named THEN {1, 2, 3} ELSE {1, 2}
       /\ m3[1] = ids /\ m3[2] = types /\ (named => m3[3] = name)
    <2>1. DOMAIN m1 = {1} /\ m1[1] = ids
        BY DEF With
    <2> HIDE DEF m1
    <2>2. DOMAIN m2 = {1, 2} /\ m2[1] = ids /\ m2[2] = types
        BY <2>1 DEF With
    <2> HIDE DEF m2
    <2>3. named => LET m == With(m2, 3, name)
                   IN  DOMAIN m = {1, 2, 3} /\ m[1] = ids /\ m[2] = types /\ m[3] = name
        BY <2>2 DEF With
    <2> QED
        BY <2>2, <2>3
<1> HIDE DEF m3
<1>12. ValidButton(m3)
    BY <1>1, <1>3, <1>11 DEF ValidButton, Reads, BUTTON_CONFIGURATION_ID,
       BUTTON_CONFIGURATION_TYPE
<1>13. ParsedButton(m3) = [button_type |-> type,
                           button_name |-> IF named THEN name ELSE None]
    BY <1>3, <1>11 DEF ParsedButton, BUTTON_CONFIGURATION_TYPE, BUTTON_CONFIGURATION_NAME
<1>14. ReadableButton(button) = [button_type |-> type,
                                 button_name |-> IF named THEN name ELSE None]
    <2>1. button = [button_type |-> type, button_name |-> name]
        BY DEF Button, type, name
    <2>2. ReadableButton(button)
              = IF name = <<>> THEN [button_type |-> type, button_name |-> None]
                ELSE [button_type |-> type, button_name |-> name]
        BY <2>1 DEF ReadableButton, name
    <2> QED
        BY <2>2 DEF named
<1> QED
    BY <1>4, <1>9, <1>10, <1>11, <1>12, <1>13, <1>14
       DEF ButtonReads, ids, BUTTON_CONFIGURATION_ID

-----------------------------------------------------------------------------
(* Lists that are written part by part.                                    *)

\* Of each part the first entry has the separator's tag, and no other.
AreItems(parts, separator) ==
    \A k \in 1..Len(parts) :
        /\ Len(parts[k]) > 0
        /\ \A i \in 1..Len(parts[k]) : parts[k][i][1] = separator <=> i = 1

\* All entries of a part are of item m + 1.
OfOneItem(entries, separator, parts, place, m) ==
    \A x \in 1..Len(parts[m + 1]) : ItemOf(entries, separator, place[m] + x) = m + 1

\* The entries of a part are all of the item that begins with it.
LEMMA PartCounts ==
    ASSUME NEW entries, NEW separator, NEW parts \in Seq(Seq(Entry)),
           AreItems(parts, separator), NEW place,
           NEW m \in 0..Len(parts) - 1, Lies(entries, place, parts, m),
           ItemOf(entries, separator, place[m]) = m
    PROVE  OfOneItem(entries, separator, parts, place, m)
<1> DEFINE p == place[m]
           part == parts[m + 1]
           l == Len(part)
           N(i) == ItemOf(entries, separator, i)
           P == {x \in Nat : x + 1 <= l => N(p + x + 1) = m + 1}
<1>1. m + 1 \in 1..Len(parts) /\ m \in Nat
    OBVIOUS
<1>2. part \in Seq(Entry)
    BY <1>1
<1>3. /\ l \in Nat /\ l > 0 /\ p \in Nat
      /\ \A i \in 1..l : part[i][1] = separator <=> i = 1
      /\ \A x \in 1..l : entries[p + x] = part[x]
      /\ N(p) = m
    BY <1>1, <1>2 DEF AreItems, Lies
<1>4. ASSUME NEW i \in Nat
      PROVE  N(i + 1) = N(i) + IF Starts(entries, separator, i + 1) THEN 1 ELSE 0
    BY ItemOfNext
<1> HIDE DEF p, part, l, N
<1>5. 0 \in P
    <2>1. 1 \in 1..l
        BY <1>3
    <2>2. entries[p + 1][1] = separator
        BY <1>3, <2>1
    <2>3. N(p + 1) = m + 1
        BY <1>1, <1>3, <1>4, <2>2 DEF Starts
    <2>4. p + 0 + 1 = p + 1
        BY <1>3
    <2> QED
        BY <2>3, <2>4
<1>6. ASSUME NEW x \in Nat, x \in P PROVE x + 1 \in P
    <2> SUFFICES ASSUME x + 1 + 1 <= l PROVE N(p + (x + 1) + 1) = m + 1
        OBVIOUS
    <2> DEFINE i == p + x + 1
    <2>1. i \in Nat /\ i + 1 = p + (x + 1) + 1 /\ i + 1 = p + (x + 2) /\ i + 1 # 1
        BY <1>3
    <2>2. x + 2 \in 1..l /\ x + 2 # 1 /\ x + 1 <= l
        BY <1>3
    <2>3. N(i) = m + 1
        BY <1>6, <2>2
    <2> HIDE DEF i
    <2>4. entries[i + 1][1] # separator
        BY <1>3, <2>1, <2>2
    <2>5. ~Starts(entries, separator, i + 1)
        BY <2>1, <2>4 DEF Starts
    <2>6. N(i + 1) = N(i) + 0
        BY <1>4, <2>1, <2>5
    <2> QED
        BY <1>1, <2>1, <2>3, <2>6
<1> QED
    <2>1. P = {x \in Nat : x + 1 <= l => N(p + x + 1) = m + 1}
        OBVIOUS
    <2> HIDE DEF P
    <2>2. Nat \subseteq P
        BY <1>5, <1>6, Induction
    <2>3. ASSUME NEW x \in 1..l PROVE N(p + x) = m + 1
        <3> DEFINE y == x - 1
        <3>1. y \in Nat /\ y + 1 = x /\ p + y + 1 = p + x
            BY <1>3
        <3> HIDE DEF y
        <3>2. y \in P /\ y + 1 <= l
            BY <1>3, <2>2, <3>1
        <3> QED
            BY <2>1, <3>1, <3>2
    <2> QED
        BY <2>3 DEF OfOneItem, p, part, l, N

\* Before part m + 1 there are m items.
CountsParts(entries, separator, parts, place) ==
    \A m \in 0..Len(parts) : ItemOf(entries, separator, place[m]) = m

\* Every part is an item.
LEMMA PartsCount ==
    ASSUME NEW entries, NEW separator, NEW parts \in Seq(Seq(Entry)),
           AreItems(parts, separator), NEW place \in [0..Len(parts) -> Nat], place[0] = 0,
           \A m \in 0..Len(parts) - 1 : Lies(entries, place, parts, m)
    PROVE  CountsParts(entries, separator, parts, place)
<1> DEFINE N(i) == ItemOf(entries, separator, i)
           P == {m \in Nat : m <= Len(parts) => N(place[m]) = m}
<1>1. 0 \in P
    <2>1. N(0) = 0
        BY ItemOfNext
    <2> QED
        BY <2>1
<1>2. ASSUME NEW m \in Nat, m \in P PROVE m + 1 \in P
    <2> SUFFICES ASSUME m + 1 <= Len(parts) PROVE N(place[m + 1]) = m + 1
        OBVIOUS
    <2>1. m \in 0..Len(parts) - 1 /\ m + 1 \in 1..Len(parts)
        OBVIOUS
    <2>2. N(place[m]) = m /\ Lies(entries, place, parts, m)
        BY <1>2, <2>1
    <2>3. OfOneItem(entries, separator, parts, place, m)
        BY <2>1, <2>2, PartCounts
    <2>4. parts[m + 1] \in Seq(Entry) /\ Len(parts[m + 1]) > 0
        BY <2>1 DEF AreItems
    <2>5. Len(parts[m + 1]) \in 1..Len(parts[m + 1])
        BY <2>4
    <2>6. place[m + 1] = place[m] + Len(parts[m + 1])
        BY <2>2 DEF Lies
    <2> QED
        BY <2>3, <2>5, <2>6 DEF OfOneItem
<1>3. P = {m \in Nat : m <= Len(parts) => N(place[m]) = m}
    OBVIOUS
<1> HIDE DEF P
<1>4. Nat \subseteq P
    BY <1>1, <1>2, Induction
<1>5. \A m \in 0..Len(parts) : m \in Nat /\ m <= Len(parts)
    OBVIOUS
<1> QED
    BY <1>3, <1>4, <1>5 DEF CountsParts

\* seqs[m + 1] is what is between two places.
IsBetween(whole, place, seqs, m) ==
    SubSeq(whole, place[m] + 1, place[m + 1]) = seqs[m + 1]

\* What lies behind a place ends at the next.
LEMMA LiesBetween ==
    ASSUME NEW T, NEW whole \in Seq(T), NEW place, NEW seqs \in Seq(Seq(T)),
           NEW m \in 0..Len(seqs) - 1, Lies(whole, place, seqs, m), Len(seqs[m + 1]) > 0
    PROVE  IsBetween(whole, place, seqs, m)
<1> DEFINE a == place[m]
           b == place[m + 1]
           v == seqs[m + 1]
           l == Len(v)
           w == SubSeq(whole, a + 1, b)
<1>1. m + 1 \in 1..Len(seqs)
    OBVIOUS
<1>2. v \in Seq(T)
    BY <1>1
<1>3. /\ l \in Nat /\ l > 0 /\ a \in Nat /\ b \in Nat /\ b = a + l /\ b <= Len(whole)
      /\ \A x \in 1..l : whole[a + x] = v[x]
    BY <1>2 DEF Lies
<1> HIDE DEF a, b, l, v
<1> DEFINE c == a + 1
<1>4. c \in Int /\ b \in Int /\ c <= b /\ \A i \in c..b : i \in 1..Len(whole)
    BY <1>3
<1>5. \A i \in c..b : whole[i] \in T
    BY <1>4
<1>7. b - c + 1 = l /\ \A i \in 1..l : c + i - 1 = a + i
    BY <1>3
<1> HIDE DEF c
<1>6. /\ w \in Seq(T) /\ Len(w) = IF c <= b THEN b - c + 1 ELSE 0
      /\ \A i \in 1..b - c + 1 : w[i] = whole[c + i - 1]
    <2>1. w = SubSeq(whole, c, b)
        BY DEF c
    <2> HIDE DEF w
    <2> QED
        BY <1>4, <1>5, <2>1, SubSeqProperties
<1> HIDE DEF w
<1>8. ASSUME NEW i \in 1..l PROVE w[i] = v[i]
    <2>1. c + i - 1 = a + i
        BY <1>7
    <2> QED
        BY <1>3, <1>6, <1>7, <2>1
<1>9. Len(w) = l /\ Len(v) = l
    BY <1>4, <1>6, <1>7 DEF l
<1>10. w = v
    BY <1>2, <1>6, <1>8, <1>9
<1> QED
    BY <1>10 DEF IsBetween, w, a, b, c, v

\* An item is the part it was written as.
LEMMA PartIsItem ==
    ASSUME NEW entries \in Seq(Entry), NEW separator, NEW parts \in Seq(Seq(Entry)),
           AreItems(parts, separator), NEW place \in [0..Len(parts) -> Nat], place[0] = 0,
           place[Len(parts)] = Len(entries),
           \A m \in 0..Len(parts) - 1 : Lies(entries, place, parts, m),
           NEW m \in 0..Len(parts) - 1
    PROVE  Item(entries, separator, Len(entries), m + 1) = parts[m + 1]
<1> DEFINE a == place[m]
           b == place[m + 1]
           n == Len(parts)
           l == Len(parts[m + 1])
           last == Len(entries)
           N(i) == ItemOf(entries, separator, i)
           S == {i \in 1..last : N(i) = m + 1}
<1>1. n \in Nat /\ last \in Nat /\ m \in Nat /\ m + 1 \in 1..n /\ m + 1 \in 0..n
    OBVIOUS
<1>2. parts[m + 1] \in Seq(Entry) /\ l > 0 /\ l \in Nat
    BY <1>1 DEF AreItems
<1>3. a \in Nat /\ b \in Nat /\ b = a + l /\ b <= last
    BY DEF Lies
<1>4. \A k \in 0..n : N(place[k]) = k
    <2>1. CountsParts(entries, separator, parts, place)
        BY PartsCount
    <2> QED
        BY <2>1 DEF CountsParts
<1>5. \A k \in 0..n - 1 : OfOneItem(entries, separator, parts, place, k)
    <2> TAKE k \in 0..n - 1
    <2>1. N(place[k]) = k /\ Lies(entries, place, parts, k)
        BY <1>4
    <2> QED
        BY <2>1, PartCounts
<1>6. \A x \in 1..l : N(a + x) = m + 1
    BY <1>5 DEF OfOneItem
<1>7. N(a) = m
    BY <1>4
<1>8. \A i, j \in Nat : i \in 1..j => N(i) <= N(j) /\ N(i) \in Nat /\ N(j) \in Nat
    <2> TAKE i \in Nat, j \in Nat
    <2>1. N(j) \in Nat
        BY ItemOfNext
    <2>2. i \in 1..j => N(i) \in 1..N(j)
        BY ItemOfGrows
    <2> HIDE DEF N
    <2> QED
        BY <2>1, <2>2
<1>9. m + 1 # n => N(b + 1) = m + 2
    <2> SUFFICES ASSUME m + 1 # n PROVE N(b + 1) = m + 2
        OBVIOUS
    <2>1. m + 1 \in 0..n - 1 /\ (m + 1) + 1 = m + 2 /\ m + 2 \in 1..n
        BY <1>1
    <2>2. parts[m + 2] \in Seq(Entry) /\ Len(parts[m + 2]) > 0
        BY <2>1 DEF AreItems
    <2>3. 1 \in 1..Len(parts[m + 2])
        BY <2>2
    <2> QED
        BY <1>5, <2>1, <2>3 DEF OfOneItem
<1>10. m + 1 = n => b = last
    OBVIOUS
<1> HIDE DEF a, b, l, last, n, N
<1>11. ASSUME NEW i \in 1..last PROVE i \in S <=> i \in a + 1..b
    <2>1. i \in Nat
        BY <1>1
    <2>2. ASSUME i \in a + 1..b PROVE N(i) = m + 1
        <3>1. i - a \in 1..l /\ a + (i - a) = i
            BY <1>2, <1>3, <2>1, <2>2
        <3> QED
            BY <1>6, <3>1
    <2>3. ASSUME N(i) = m + 1, i <= a PROVE FALSE
        <3>1. i \in 1..a
            BY <1>3, <2>1, <2>3
        <3> QED
            BY <1>1, <1>3, <1>7, <1>8, <2>1, <2>3, <3>1
    <2>4. ASSUME N(i) = m + 1, i > b PROVE FALSE
        <3>1. m + 1 # n
            BY <1>1, <1>3, <1>10, <2>4
        <3>2. b + 1 \in 1..i /\ b + 1 \in Nat
            BY <1>3, <2>1, <2>4
        <3> QED
            BY <1>1, <1>8, <1>9, <2>1, <2>4, <3>1, <3>2
    <2> QED
        BY <1>3, <2>1, <2>2, <2>3, <2>4
<1>12. /\ S \subseteq Nat /\ a + 1 \in S /\ b \in S
       /\ \A y \in S : a + 1 <= y /\ b >= y
    <2>1. S \subseteq 1..last
        OBVIOUS
    <2>2. a + 1 \in 1..last /\ b \in 1..last /\ a + 1 \in a + 1..b /\ b \in a + 1..b
        BY <1>1, <1>2, <1>3
    <2>3. \A y \in S : y \in 1..last /\ y \in a + 1..b
        BY <1>11, <2>1
    <2> HIDE DEF S
    <2> QED
        BY <1>3, <1>11, <2>1, <2>2, <2>3
<1>13. Item(entries, separator, last, m + 1) = SubSeq(entries, Min(S), Max(S))
    BY DEF Item, N
<1> HIDE DEF S
<1>14. Min(S) = a + 1 /\ Max(S) = b
    BY <1>12, MinIs, MaxIs
<1>15. SubSeq(entries, a + 1, b) = parts[m + 1]
    <2>1. Lies(entries, place, parts, m) /\ Len(parts[m + 1]) > 0
        BY <1>2 DEF l
    <2>2. IsBetween(entries, place, parts, m)
        BY <2>1, LiesBetween
    <2> QED
        BY <2>2 DEF IsBetween, a, b
<1> QED
    BY <1>13, <1>14, <1>15 DEF last

\* The items of what is written part by part are its parts.
LEMMA PartsAreItems ==
    ASSUME NEW entries \in Seq(Entry), NEW separator, NEW parts \in Seq(Seq(Entry)),
           AreItems(parts, separator), NEW place \in [0..Len(parts) -> Nat], place[0] = 0,
           place[Len(parts)] = Len(entries),
           \A m \in 0..Len(parts) - 1 : Lies(entries, place, parts, m)
    PROVE  Items(entries, separator) = [k \in 1..Len(parts) |-> Meaning(parts[k])]
<1> DEFINE n == Len(parts)
<1>1. ItemOf(entries, separator, Len(entries)) = n
    <2>1. n \in 0..n
        OBVIOUS
    <2>2. \A m \in 0..n : ItemOf(entries, separator, place[m]) = m
        <3>1. CountsParts(entries, separator, parts, place)
            BY PartsCount
        <3> QED
            BY <3>1 DEF CountsParts
    <2> QED
        BY <2>1, <2>2
<1>2. ASSUME NEW k \in 1..n PROVE Item(entries, separator, Len(entries), k) = parts[k]
    <2> DEFINE m == k - 1
    <2>1. m \in 0..n - 1 /\ m + 1 = k
        OBVIOUS
    <2> HIDE DEF m
    <2>2. Item(entries, separator, Len(entries), m + 1) = parts[m + 1]
        BY <2>1, PartIsItem
    <2> QED
        BY <2>1, <2>2
<1>3. Items(entries, separator)
          = [k \in 1..n |-> Meaning(Item(entries, separator, Len(entries), k))]
    BY <1>1 DEF Items
<1> QED
    BY <1>2, <1>3

\* Entry i is told from the one before it.
Told(entries, i) ==
    entries[i - 1][1] = entries[i][1] =>
        entries[i - 1][2] = <<>> \/ Len(entries[i - 1][2]) % MaxChunk # 0

\* The first m parts are separated, and the next begins with another tag.
PartsTold(entries, separator, place, m) ==
    /\ \A i \in 2..place[m] : Told(entries, i)
    /\ place[m] # 0 => entries[place[m]][1] # separator

\* A part that is separated keeps its entries told from those before it.
LEMMA NextPartTold ==
    ASSUME NEW entries, NEW separator, NEW parts \in Seq(Seq(Entry)),
           AreItems(parts, separator), NEW place,
           NEW m \in 0..Len(parts) - 1, Lies(entries, place, parts, m),
           Separated(parts[m + 1]), Len(parts[m + 1]) > 1,
           PartsTold(entries, separator, place, m)
    PROVE  PartsTold(entries, separator, place, m + 1)
<1> DEFINE p == place[m]
           q == place[m + 1]
           part == parts[m + 1]
           l == Len(part)
<1>1. m + 1 \in 1..Len(parts) /\ m \in Nat
    OBVIOUS
<1>2. part \in Seq(Entry)
    BY <1>1
<1>3. /\ l \in Nat /\ l > 1 /\ p \in Nat /\ q = p + l
      /\ \A i \in 1..l : part[i][1] = separator <=> i = 1
      /\ \A x \in 1..l : entries[p + x] = part[x]
    BY <1>1, <1>2 DEF AreItems, Lies
<1>4. \A i \in 2..l : Told(part, i)
    BY DEF Separated, Told
<1>5. /\ \A i \in 2..p : Told(entries, i)
      /\ p # 0 => entries[p][1] # separator
    BY DEF PartsTold
<1> HIDE DEF p, q, part, l
<1>6. ASSUME NEW i \in 2..q PROVE Told(entries, i)
    <2>1. CASE i <= p
        <3>1. i \in 2..p
            BY <1>3, <2>1
        <3> QED
            BY <1>5, <3>1
    <2>2. CASE i = p + 1
        <3>1. i - 1 = p /\ p # 0 /\ 1 \in 1..l
            BY <1>3, <2>2
        <3>2. entries[i][1] = separator
            BY <1>3, <2>2, <3>1
        <3> QED
            BY <1>5, <3>1, <3>2 DEF Told
    <2>3. CASE i > p + 1
        <3> DEFINE x == i - p
        <3>1. x \in 2..l /\ x \in 1..l /\ x - 1 \in 1..l /\ p + x = i /\ p + (x - 1) = i - 1
            BY <1>3, <2>3
        <3> HIDE DEF x
        <3>2. entries[i] = part[x] /\ entries[i - 1] = part[x - 1]
            BY <1>3, <3>1
        <3>3. Told(part, x)
            BY <1>4, <3>1
        <3> QED
            BY <3>2, <3>3 DEF Told
    <2> QED
        BY <1>3, <2>1, <2>2, <2>3
<1>7. entries[q][1] # separator
    <2>1. l \in 1..l /\ l # 1
        BY <1>3
    <2>2. part[l][1] # separator /\ entries[p + l] = part[l]
        BY <1>3, <2>1
    <2> QED
        BY <1>3, <2>2
<1> QED
    BY <1>6, <1>7 DEF PartsTold, q

\* Separated parts of several entries are separated as a whole.
LEMMA PartsSeparated ==
    ASSUME NEW entries, NEW separator, NEW parts \in Seq(Seq(Entry)),
           AreItems(parts, separator), NEW place \in [0..Len(parts) -> Nat], place[0] = 0,
           place[Len(parts)] = Len(entries),
           \A m \in 0..Len(parts) - 1 : Lies(entries, place, parts, m),
           \A k \in 1..Len(parts) : Separated(parts[k]) /\ Len(parts[k]) > 1
    PROVE  Separated(entries)
<1> DEFINE P == {m \in Nat : m <= Len(parts) => PartsTold(entries, separator, place, m)}
<1>1. 0 \in P
    <2>1. PartsTold(entries, separator, place, 0)
        BY DEF PartsTold
    <2> QED
        BY <2>1
<1>2. ASSUME NEW m \in Nat, m \in P PROVE m + 1 \in P
    <2> SUFFICES ASSUME m + 1 <= Len(parts)
                 PROVE  PartsTold(entries, separator, place, m + 1)
        OBVIOUS
    <2>1. m \in 0..Len(parts) - 1 /\ m + 1 \in 1..Len(parts)
        OBVIOUS
    <2>2. PartsTold(entries, separator, place, m) /\ Lies(entries, place, parts, m)
        BY <1>2, <2>1
    <2>3. Separated(parts[m + 1]) /\ Len(parts[m + 1]) > 1
        BY <2>1
    <2> QED
        BY <2>1, <2>2, <2>3, NextPartTold
<1>3. P = {m \in Nat : m <= Len(parts) => PartsTold(entries, separator, place, m)}
    OBVIOUS
<1> HIDE DEF P
<1>4. Nat \subseteq P
    BY <1>1, <1>2, Induction
<1>5. PartsTold(entries, separator, place, Len(parts))
    <2>1. Len(parts) \in Nat
        OBVIOUS
    <2> QED
        BY <1>3, <1>4, <2>1
<1> QED
    BY <1>5 DEF PartsTold, Separated, Told

\* ids names each member of D once.
NamesOnce(ids, n, D) ==
    /\ \A i, j \in 1..n : i # j => ids[i] # ids[j]
    /\ \A k \in 1..n : ids[k] \in D
    /\ \A id \in D : \E k \in 1..n : ids[k] = id

\* Entry k is read as the button with the id ids[k].
ReadAs(list, n, ids, D, Result) ==
    /\ DOMAIN list = 1..n /\ Len(list) = n
    /\ Result = [id \in D |-> Result[id]]
    /\ \A k \in 1..n : /\ ValidButton(list[k])
                       /\ list[k][1][1] = ids[k]
                       /\ ParsedButton(list[k]) = Result[ids[k]]

\* What is parsed, if each id is read once.
LEMMA ParsesButtons ==
    ASSUME NEW n \in Nat, NEW ids, NEW D, NamesOnce(ids, n, D),
           NEW list, NEW Result, ReadAs(list, n, ids, D, Result)
    PROVE  ParsedButtons(list) = Returns(Result)
<1> USE DEF NamesOnce, ReadAs
<1> DEFINE Id(k) == list[k][1][1]
           IsLatest(id, k) == Id(k) = id /\ \A j \in k+1..Len(list) : Id(j) # id
           Latest(id) == CHOOSE k \in DOMAIN list : IsLatest(id, k)
<1>1. ParsedButtons(list)
          = Returns([id \in {Id(k) : k \in DOMAIN list} |-> ParsedButton(list[Latest(id)])])
    BY DEF ParsedButtons, BUTTON_CONFIGURATION_ID
<1>2. \A k \in 1..n : Id(k) = ids[k]
    OBVIOUS
<1>3. {Id(k) : k \in DOMAIN list} = D
    BY <1>2
<1>4. ASSUME NEW id \in D PROVE ParsedButton(list[Latest(id)]) = Result[id]
    <2>1. PICK k \in 1..n : ids[k] = id
        OBVIOUS
    <2>2. \A j \in k+1..Len(list) : j \in 1..n /\ j # k
        OBVIOUS
    <2>3. IsLatest(id, k)
        BY <1>2, <2>1, <2>2
    <2> HIDE DEF IsLatest
    <2>4. Latest(id) \in DOMAIN list /\ IsLatest(id, Latest(id))
        BY <2>3
    <2> HIDE DEF Latest
    <2>5. ids[Latest(id)] = id /\ Latest(id) \in 1..n
        BY <1>2, <2>4 DEF IsLatest
    <2> QED
        BY <2>5
<1> HIDE DEF Id, Latest
<1>5. [id \in {Id(k) : k \in DOMAIN list} |-> ParsedButton(list[Latest(id)])]
          = [id \in D |-> Result[id]]
    BY <1>3, <1>4
<1> QED
    BY <1>1, <1>5

\* Buttons whose entries may be read.
IsButtons(buttons) ==
    /\ buttons = [id \in DOMAIN buttons |-> buttons[id]]
    /\ \A id \in DOMAIN buttons : id \in Byte /\ buttons[id] \in Button

\* Buttons are read back from their entries, each with its id.
LEMMA ButtonsRead ==
    ASSUME NEW buttons, IsButtons(buttons)
    PROVE  /\ Encode(ButtonsEntries(buttons)) \in Seq(Nat)
           /\ ParseButtons(Encode(ButtonsEntries(buttons)))
                  = Returns([id \in DOMAIN buttons |-> ReadableButton(buttons[id])])
<1> DEFINE D == DOMAIN buttons
           n == Cardinality(D)
           ids == Sorted(D)
           parts == [k \in DOMAIN ids |-> ButtonEntries(ids[k], buttons[ids[k]])]
           entries == ButtonsEntries(buttons)
           list == [k \in 1..n |-> Meaning(parts[k])]
           Result == [id \in D |-> ReadableButton(buttons[id])]
<1>1. D \in SUBSET Nat /\ IsFiniteSet(D)
    <2>1. D \subseteq 0..255
        BY DEF IsButtons, Byte
    <2>2. IsFiniteSet(0..255)
        <3>1. 0 \in Int /\ 255 \in Int
            OBVIOUS
        <3> QED
            BY <3>1, FS_Interval
    <2> QED
        BY <2>1, <2>2, FS_Subset
<1> HIDE DEF D
<1>2. /\ ids \in Seq(D) /\ Len(ids) = n /\ n \in Nat
      /\ \A x \in D : \E k \in 1..n : ids[k] = x
      /\ \A i, j \in 1..n : i < j => ids[i] < ids[j]
    BY <1>1, SortedAre
<1>3. DOMAIN ids = 1..n /\ \A k \in 1..n : ids[k] \in D
    BY <1>2
<1> HIDE DEF ids, n
<1>4. \A i, j \in 1..n : i # j => ids[i] # ids[j]
    <2> TAKE i, j \in 1..n
    <2>1. i < j \/ j < i \/ i = j
        BY <1>2
    <2>2. ids[i] \in Nat /\ ids[j] \in Nat
        BY <1>1, <1>3
    <2>3. i < j => ids[i] < ids[j]
        BY <1>2
    <2>4. j < i => ids[j] < ids[i]
        BY <1>2
    <2> QED
        BY <2>1, <2>2, <2>3, <2>4
<1>5. entries = FlattenSeq(parts)
    BY DEF ButtonsEntries, ids, D
<1>6. ASSUME NEW k \in 1..n PROVE ButtonReads(parts[k], ids[k], buttons[ids[k]])
    <2>1. ids[k] \in Byte /\ buttons[ids[k]] \in Button
        BY <1>3 DEF IsButtons, D
    <2>2. parts[k] = ButtonEntries(ids[k], buttons[ids[k]])
        BY <1>3
    <2> QED
        BY <2>1, <2>2, ButtonMeans
<1>7. parts = [k \in 1..n |-> parts[k]]
    BY <1>3
<1> HIDE DEF parts, entries
<1>8. \A k \in 1..n : parts[k] \in Seq(Entry)
    BY <1>6 DEF ButtonReads
<1>9. parts \in Seq(Seq(Entry)) /\ Len(parts) = n
    BY <1>2, <1>7, <1>8, IsSequence
<1>10. AreItems(parts, 1)
    BY <1>6, <1>9 DEF AreItems, ButtonReads, BUTTON_CONFIGURATION_ID
<1>11. PICK place \in [0..Len(parts) -> Nat] :
           /\ entries \in Seq(Entry)
           /\ place[0] = 0 /\ place[Len(parts)] = Len(entries)
           /\ \A m \in 0..Len(parts) - 1 : Lies(entries, place, parts, m)
    BY <1>5, <1>9, FlattenHas
<1>12. Separated(entries)
    <2>1. \A k \in 1..Len(parts) : Separated(parts[k]) /\ Len(parts[k]) > 1
        BY <1>6, <1>9 DEF ButtonReads
    <2> QED
        BY <1>9, <1>10, <1>11, <2>1, PartsSeparated
<1>13. Items(entries, 1) = list
    <2>1. Items(entries, 1) = [k \in 1..Len(parts) |-> Meaning(parts[k])]
        BY <1>9, <1>10, <1>11, PartsAreItems
    <2> QED
        BY <1>9, <2>1
<1>14. DecodeList(Encode(entries), 1) = Returns(list)
    BY <1>11, <1>12, <1>13, ListReadBack
<1>15. Encode(entries) \in Seq(Nat)
    BY <1>11, SegmentedHas, ExtendedHas DEF Encode
<1>16. DOMAIN list = 1..n /\ Len(list) = n /\ \A k \in 1..n : list[k] = Meaning(parts[k])
    <2>1. DOMAIN list = 1..n /\ \A k \in 1..n : list[k] = Meaning(parts[k])
        OBVIOUS
    <2>2. Len(list) = n
        BY <1>2, IsSequence
    <2> QED
        BY <2>1, <2>2
<1> HIDE DEF list
<1>17. \A k \in 1..n : /\ ValidButton(list[k])
                       /\ list[k][1][1] = ids[k]
                       /\ ParsedButton(list[k]) = ReadableButton(buttons[ids[k]])
    <2> TAKE k \in 1..n
    <2>1. /\ ValidButton(Meaning(parts[k])) /\ Meaning(parts[k])[1] = <<ids[k]>>
          /\ ParsedButton(Meaning(parts[k])) = ReadableButton(buttons[ids[k]])
        BY <1>6 DEF ButtonReads, BUTTON_CONFIGURATION_ID
    <2>2. list[k] = Meaning(parts[k])
        BY <1>16
    <2> HIDE DEF list
    <2> QED
        BY <2>1, <2>2
<1>18. /\ \A id \in D : Result[id] = ReadableButton(buttons[id])
       /\ Result = [id \in D |-> Result[id]]
    OBVIOUS
<1> HIDE DEF Result
<1>19. \A k \in 1..n : ParsedButton(list[k]) = Result[ids[k]]
    BY <1>3, <1>17, <1>18
<1>20. ParseButtons(Encode(entries)) = Returns(Result)
    <2>1. ParsedButtons(list) = Returns(Result)
        <3>1. NamesOnce(ids, n, D)
            BY <1>2, <1>3, <1>4 DEF NamesOnce
        <3>2. ReadAs(list, n, ids, D, Result)
            BY <1>16, <1>17, <1>18, <1>19 DEF ReadAs
        <3> QED
            BY <1>2, <3>1, <3>2, ParsesButtons
    <2>2. Returns(list).ok /\ Returns(list).value = list
        BY ReturnsValue
    <2> QED
        BY <1>14, <2>1, <2>2 DEF ParseButtons, BUTTON_CONFIGURATION_ID
<1> QED
    BY <1>15, <1>20 DEF entries, Result, D

-----------------------------------------------------------------------------
(* A target.                                                               *)

\* A tag that was not known is known if it is given.
LEMMA WithGiven ==
    ASSUME NEW known, NEW tag, tag \notin DOMAIN known, NEW given \in BOOLEAN, NEW value,
           NEW more, more = IF given THEN With(known, tag, value) ELSE known
    PROVE  /\ \A x \in DOMAIN known : x \in DOMAIN more /\ more[x] = known[x]
           /\ \A x \in DOMAIN more : x \in DOMAIN known \/ x = tag
           /\ tag \in DOMAIN more <=> given
           /\ given => more[tag] = value
<1>1. given => /\ DOMAIN more = DOMAIN known \cup {tag}
               /\ \A x \in DOMAIN more : more[x] = IF x = tag THEN value ELSE known[x]
    BY DEF With
<1>2. ~given => more = known
    OBVIOUS
<1> QED
    BY <1>1, <1>2

\* What the entries of a target mean.
TargetMeans(m, t) ==
    /\ 1 \in DOMAIN m /\ m[1] = U32(t.target_identifier)
    /\ 2 \in DOMAIN m <=> t.target_name # None
    /\ t.target_name # None => m[2] = t.target_name
    /\ 3 \in DOMAIN m <=> t.target_category # None
    /\ t.target_category # None => m[3] = U16(t.target_category)
    /\ 4 \in DOMAIN m <=> DOMAIN t.buttons # {}
    /\ DOMAIN t.buttons # {} => m[4] = Encode(ButtonsEntries(t.buttons))

\* Each entry of a target has a tag of its own.
LEMMA TargetEntriesMean ==
    ASSUME NEW t, IsTarget(t)
    PROVE  /\ TargetEntries(t) \in Seq(Entry) /\ Separated(TargetEntries(t))
           /\ TargetMeans(Meaning(TargetEntries(t)), t)
<1> DEFINE name == t.target_name
           category == t.target_category
           buttons == t.buttons
           named == name # None
           ranked == category # None
           bound == DOMAIN buttons # {}
           ids == U32(t.target_identifier)
           ranks == U16(category)
           bytes == Encode(ButtonsEntries(buttons))
           s0 == <<>>
           s1 == s0 \o Optional(1, TRUE, ids)
           s2 == s1 \o Optional(2, named, name)
           s3 == s2 \o Optional(3, ranked, ranks)
           s4 == s3 \o Optional(4, bound, bytes)
<1>1. ids \in Seq(Nat)
    BY U32Reads DEF IsTarget
<1>2. named => name \in Seq(Nat)
    BY BytesAre DEF IsTarget
<1>3. ranked => ranks \in Seq(Nat)
    BY U16Reads DEF IsTarget
<1>4. bytes \in Seq(Nat)
    <2>1. IsButtons(buttons)
        BY DEF IsTarget, IsButtons
    <2> HIDE DEF buttons
    <2> QED
        BY <2>1, ButtonsRead
<1>5. TargetEntries(t) = s4
    <2>1. Optional(1, TRUE, ids) = << <<1, ids>> >>
        BY DEF Optional
    <2>2. << <<1, ids>> >> \in Seq(Entry)
        BY <1>1 DEF Entry, Segment
    <2>3. s1 = << <<1, ids>> >>
        BY <2>1, <2>2, ConcatEmptySeq
    <2> HIDE DEF s1, ids, ranks, bytes
    <2> QED
        BY <2>3 DEF TargetEntries, TARGET_IDENTIFIER, TARGET_NAME, TARGET_CATEGORY,
           TARGET_BUTTON_CONFIGURATION, ids, ranks, bytes
<1> HIDE DEF ids, ranks, bytes
<1>6. /\ s0 \in Seq(Entry) /\ Separated(s0) /\ TagsBelow(s0, 1)
      /\ \A i \in 1..Len(s0) : s0[i][1] \in Nat
    BY NothingMeant DEF Separated, TagsBelow
<1>7. named \in BOOLEAN /\ ranked \in BOOLEAN /\ bound \in BOOLEAN
    OBVIOUS
<1> HIDE DEF named, ranked, bound, name, category, buttons, s0
<1>8. Extends(s1, s0, 1, TRUE, ids)
    BY <1>1, <1>6, OptionalMeans
<1> HIDE DEF s1
<1>9. Extends(s2, s1, 2, named, name)
    <2>1. s1 \in Seq(Entry) /\ Separated(s1) /\ TagsBelow(s1, 2)
        BY <1>8 DEF Extends
    <2>2. \A i \in 1..Len(s1) : s1[i][1] \in Nat
        BY <2>1, TagsAre
    <2> QED
        BY <1>2, <1>7, <2>1, <2>2, OptionalMeans
<1> HIDE DEF s2
<1>10. Extends(s3, s2, 3, ranked, ranks)
    <2>1. s2 \in Seq(Entry) /\ Separated(s2) /\ TagsBelow(s2, 3)
        BY <1>9 DEF Extends
    <2>2. \A i \in 1..Len(s2) : s2[i][1] \in Nat
        BY <2>1, TagsAre
    <2> QED
        BY <1>3, <1>7, <2>1, <2>2, OptionalMeans
<1> HIDE DEF s3
<1>11. Extends(s4, s3, 4, bound, bytes)
    <2>1. s3 \in Seq(Entry) /\ Separated(s3) /\ TagsBelow(s3, 4)
        BY <1>10 DEF Extends
    <2>2. \A i \in 1..Len(s3) : s3[i][1] \in Nat
        BY <2>1, TagsAre
    <2> QED
        BY <1>4, <1>7, <2>1, <2>2, OptionalMeans
<1> HIDE DEF s4
<1> DEFINE m0 == Meaning(s0)
           m1 == Meaning(s1)
           m2 == Meaning(s2)
           m3 == Meaning(s3)
           m4 == Meaning(s4)
<1>12. /\ m1 = IF TRUE THEN With(m0, 1, ids) ELSE m0
       /\ m2 = IF named THEN With(m1, 2, name) ELSE m1
       /\ m3 = IF ranked THEN With(m2, 3, ranks) ELSE m2
       /\ m4 = IF bound THEN With(m3, 4, bytes) ELSE m3
    BY <1>8, <1>9, <1>10, <1>11 DEF Extends
<1>13. DOMAIN m0 = {}
    BY NothingMeant DEF s0
<1> HIDE DEF m0, m1, m2, m3, m4
<1>14. DOMAIN m1 = {1} /\ m1[1] = ids
    BY <1>12, <1>13 DEF With
<1>15. /\ \A x \in DOMAIN m1 : x \in DOMAIN m2 /\ m2[x] = m1[x]
       /\ \A x \in DOMAIN m2 : x \in DOMAIN m1 \/ x = 2
       /\ 2 \in DOMAIN m2 <=> named
       /\ named => m2[2] = name
    BY <1>7, <1>12, <1>14, WithGiven
<1>16. /\ \A x \in DOMAIN m2 : x \in DOMAIN m3 /\ m3[x] = m2[x]
       /\ \A x \in DOMAIN m3 : x \in DOMAIN m2 \/ x = 3
       /\ 3 \in DOMAIN m3 <=> ranked
       /\ ranked => m3[3] = ranks
    <2>1. 3 \notin DOMAIN m2
        BY <1>14, <1>15
    <2> QED
        BY <1>7, <1>12, <2>1, WithGiven
<1>17. /\ \A x \in DOMAIN m3 : x \in DOMAIN m4 /\ m4[x] = m3[x]
       /\ \A x \in DOMAIN m4 : x \in DOMAIN m3 \/ x = 4
       /\ 4 \in DOMAIN m4 <=> bound
       /\ bound => m4[4] = bytes
    <2>1. 4 \notin DOMAIN m3
        BY <1>14, <1>15, <1>16
    <2> QED
        BY <1>7, <1>12, <2>1, WithGiven
<1>18. /\ 1 \in DOMAIN m4 /\ m4[1] = ids
       /\ 2 \in DOMAIN m4 <=> named
       /\ named => m4[2] = name
       /\ 3 \in DOMAIN m4 <=> ranked
       /\ ranked => m4[3] = ranks
       /\ 4 \in DOMAIN m4 <=> bound
       /\ bound => m4[4] = bytes
    BY <1>14, <1>15, <1>16, <1>17
<1>19. TargetMeans(m4, t)
    BY <1>18 DEF TargetMeans, ids, ranks, bytes, named, ranked, bound, name, category, buttons
<1> QED
    BY <1>5, <1>11, <1>19 DEF Extends, m4

\* A target is read back from its bytes, its buttons with it.
THEOREM TargetReadBack ==
    ASSUME NEW t, IsTarget(t)
    PROVE  ParseTarget(TargetValue(t)) = Returns(Readable(t))
<1> DEFINE raw == TargetValue(t)
           m == Meaning(TargetEntries(t))
           read == [id \in DOMAIN t.buttons |-> ReadableButton(t.buttons[id])]
           parsed == IF 4 \in DOMAIN m THEN ParseButtons(m[4]) ELSE Returns(<<>>)
<1>1. Decode(raw) = Returns(m)
    <2>1. TargetEntries(t) \in Seq(Entry) /\ Separated(TargetEntries(t))
        BY TargetEntriesMean
    <2> QED
        BY <2>1, EntriesReadBack DEF TargetValue
<1>2. TargetMeans(m, t)
    BY TargetEntriesMean
<1>3. Returns(m).ok /\ Returns(m).value = m
    BY ReturnsValue
<1> HIDE DEF m, raw
<1>4. parsed = Returns(read)
    <2>1. IsButtons(t.buttons)
        BY DEF IsTarget, IsButtons
    <2>2. CASE DOMAIN t.buttons # {}
        <3>1. 4 \in DOMAIN m /\ m[4] = Encode(ButtonsEntries(t.buttons))
            BY <1>2, <2>2 DEF TargetMeans
        <3> QED
            BY <2>1, <3>1, ButtonsRead
    <2>3. CASE DOMAIN t.buttons = {}
        <3>1. 4 \notin DOMAIN m
            BY <1>2, <2>3 DEF TargetMeans
        <3>2. read = <<>>
            BY <2>3
        <3> QED
            BY <3>1, <3>2
    <2> QED
        BY <2>2, <2>3
<1>5. Returns(read).ok /\ Returns(read).value = read
    BY ReturnsValue
<1>6. Readable(t) = [t EXCEPT !.buttons = read]
    BY DEF Readable, ReadableButton
<1> HIDE DEF read, parsed
<1> DEFINE result == [target_identifier |-> read_u32(m[1]),
                      target_name |-> IF 2 \in DOMAIN m THEN m[2] ELSE None,
                      target_category |-> IF 3 \in DOMAIN m THEN read_u16(m[3]) ELSE None,
                      buttons |-> parsed.value]
<1>7. /\ 1 \in DOMAIN m /\ Len(m[1]) = 4 /\ read_u32(m[1]) = t.target_identifier
      /\ t.target_identifier # 0
    <2>1. /\ Len(U32(t.target_identifier)) = 4
          /\ read_u32(U32(t.target_identifier)) = t.target_identifier
          /\ t.target_identifier # 0
        BY U32Reads DEF IsTarget
    <2> QED
        BY <1>2, <2>1 DEF TargetMeans
<1>8. 2 \in DOMAIN m => Len(m[2]) \in 1..MaxTargetNameBytes
    BY <1>2 DEF TargetMeans, IsTarget
<1>9. 3 \in DOMAIN m => Len(m[3]) = 2 /\ read_u16(m[3]) = t.target_category
    <2>1. t.target_category # None =>
              /\ Len(U16(t.target_category)) = 2
              /\ read_u16(U16(t.target_category)) = t.target_category
        BY U16Reads DEF IsTarget
    <2> QED
        BY <1>2, <2>1 DEF TargetMeans
<1>10. ParseTarget(raw) = Returns(result)
    <2>1. parsed.ok
        BY <1>4, <1>5
    <2>2. parsed = IF 4 \in DOMAIN m THEN ParseButtons(m[4]) ELSE Returns(<<>>)
        BY DEF parsed
    <2> QED
        BY <1>1, <1>3, <1>7, <1>8, <1>9, <2>1, <2>2
           DEF ParseTarget, Reads, TARGET_IDENTIFIER, TARGET_NAME, TARGET_CATEGORY,
               TARGET_BUTTON_CONFIGURATION
<1>11. result = Readable(t)
    <2> DEFINE fields == {"target_identifier", "target_name", "target_category", "buttons"}
    <2>1. result.target_identifier = t.target_identifier
        BY <1>7
    <2>2. result.target_name = t.target_name
        BY <1>2 DEF TargetMeans
    <2>3. result.target_category = t.target_category
        BY <1>2, <1>9 DEF TargetMeans
    <2>4. result.buttons = read
        BY <1>4, <1>5
    <2>5. DOMAIN result = fields /\ result = [f \in fields |-> result[f]]
        OBVIOUS
    <2> HIDE DEF result
    <2>6. DOMAIN t = fields
        BY DEF IsTarget
    <2>7. Readable(t) = [f \in fields |-> IF f = "buttons" THEN read ELSE t[f]]
        BY <1>6, <2>6
    <2>8. \A f \in fields : result[f] = IF f = "buttons" THEN read ELSE t[f]
        BY <2>1, <2>2, <2>3, <2>4
    <2> HIDE DEF fields
    <2> QED
        BY <2>5, <2>7, <2>8
<1> QED
    BY <1>10, <1>11 DEF raw

-----------------------------------------------------------------------------
(* The list of targets.                                                    *)

\* One entry means its value.
LEMMA OneMeant ==
    ASSUME NEW e \in Entry
    PROVE  Meaning(<<e>>) = [tag \in {e[1]} |-> e[2]]
<1>1. <<>> \in Seq(Entry) /\ Meaning(<<>>) = <<>>
    BY NothingMeant
<1>2. Meaning(<<>> \o <<e>>) = With(Meaning(<<>>), e[1], e[2])
    BY <1>1, MeaningMore
<1>3. <<>> \o <<e>> = <<e>>
    <2>1. <<e>> \in Seq(Entry)
        OBVIOUS
    <2> QED
        BY <2>1, ConcatEmptySeq
<1>4. Meaning(<<e>>) = With(<<>>, e[1], e[2])
    BY <1>1, <1>2, <1>3
<1>5. DOMAIN <<>> = {}
    OBVIOUS
<1> QED
    BY <1>4, <1>5 DEF With

\* Entries that all have the separator's tag are the items of the list.
LEMMA EachIsItem ==
    ASSUME NEW separator, NEW entries \in Seq(Entry),
           \A k \in 1..Len(entries) : entries[k][1] = separator
    PROVE  Items(entries, separator)
               = [k \in 1..Len(entries) |-> [tag \in {separator} |-> entries[k][2]]]
<1> DEFINE n == Len(entries)
           parts == [k \in 1..n |-> <<entries[k]>>]
           place == [m \in 0..n |-> m]
<1>1. n \in Nat /\ \A k \in 1..n : entries[k] \in Entry
    OBVIOUS
<1>2. \A k \in 1..n : parts[k] \in Seq(Entry) /\ Len(parts[k]) = 1 /\ parts[k][1] = entries[k]
    BY <1>1
<1>3. parts = [k \in 1..n |-> parts[k]]
    OBVIOUS
<1>a. \A k \in 1..n : parts[k] = <<entries[k]>>
    OBVIOUS
<1> HIDE DEF parts, n
<1>4. parts \in Seq(Seq(Entry)) /\ Len(parts) = n
    BY <1>1, <1>2, <1>3, IsSequence
<1>5. AreItems(parts, separator)
    <2> SUFFICES ASSUME NEW k \in 1..n
                 PROVE  /\ Len(parts[k]) > 0
                        /\ \A i \in 1..Len(parts[k]) : parts[k][i][1] = separator <=> i = 1
        BY <1>4 DEF AreItems
    <2>1. \A i \in 1..1 : i = 1
        OBVIOUS
    <2>2. entries[k][1] = separator
        BY DEF n
    <2> QED
        BY <1>2, <2>1, <2>2
<1>6. place \in [0..n -> Nat] /\ place[0] = 0 /\ place[n] = n
    BY <1>1
<1>7. ASSUME NEW m \in 0..n - 1 PROVE Lies(entries, place, parts, m)
    <2>1. m \in Nat /\ m + 1 \in 1..n /\ m \in 0..n /\ m + 1 \in 0..n /\ m + 1 <= n
        BY <1>1
    <2>2. place[m] = m /\ place[m + 1] = m + 1
        BY <2>1
    <2>3. Len(parts[m + 1]) = 1 /\ parts[m + 1][1] = entries[m + 1]
        BY <1>2, <2>1
    <2> HIDE DEF place
    <2>4. \A x \in 1..1 : x = 1
        OBVIOUS
    <2>5. \A x \in 1..Len(parts[m + 1]) : entries[place[m] + x] = parts[m + 1][x]
        BY <2>2, <2>3, <2>4
    <2> QED
        BY <2>1, <2>2, <2>3, <2>5 DEF Lies, n
<1> HIDE DEF place
<1>8. Items(entries, separator) = [k \in 1..n |-> Meaning(parts[k])]
    <2>1. place \in [0..Len(parts) -> Nat] /\ place[Len(parts)] = Len(entries)
        BY <1>4, <1>6 DEF n
    <2>2. \A m \in 0..Len(parts) - 1 : Lies(entries, place, parts, m)
        BY <1>4, <1>7
    <2>3. Items(entries, separator) = [k \in 1..Len(parts) |-> Meaning(parts[k])]
        BY <1>4, <1>5, <1>6, <2>1, <2>2, PartsAreItems
    <2> QED
        BY <1>4, <2>3
<1>9. \A k \in 1..n : Meaning(parts[k]) = [tag \in {separator} |-> entries[k][2]]
    <2> TAKE k \in 1..n
    <2>1. entries[k] \in Entry /\ entries[k][1] = separator
        BY <1>1 DEF n
    <2>2. Meaning(<<entries[k]>>) = [tag \in {entries[k][1]} |-> entries[k][2]]
        BY <2>1, OneMeant
    <2> QED
        BY <1>a, <2>1, <2>2
<1> QED
    BY <1>8, <1>9 DEF n

\* Targets as the hub stores them: each has an identifier of its own.
AreTargets(targets) ==
    /\ IsFiniteSet(targets)
    /\ \A t \in targets : IsTarget(t)
    /\ \A s, t \in targets : s.target_identifier = t.target_identifier => s = t

\* They are sorted, and none is left out.
LEMMA TargetsSorted ==
    ASSUME NEW targets, AreTargets(targets)
    PROVE  /\ SortedTargets(targets) \in Seq(targets)
           /\ \A t \in targets : \E k \in DOMAIN SortedTargets(targets) :
                 SortedTargets(targets)[k] = t
<1> DEFINE Id(t) == t.target_identifier
           D == {Id(t) : t \in targets}
           n == Cardinality(D)
           ids == Sorted(D)
           sorted == SortedTargets(targets)
<1>1. IsFiniteSet(D)
    <2> DEFINE f == [t \in targets |-> Id(t)]
    <2>1. f \in Surjection(targets, D)
        BY DEF Surjection
    <2>2. IsFiniteSet(targets)
        BY DEF AreTargets
    <2> HIDE DEF f, D
    <2> QED
        BY <2>1, <2>2, FS_Surjection
<1>2. D \in SUBSET Nat
    <2>1. \A t \in targets : Id(t) \in Nat
        <3> TAKE t \in targets
        <3>1. IsTarget(t)
            BY DEF AreTargets
        <3> QED
            BY <3>1 DEF IsTarget
    <2> HIDE DEF Id
    <2> QED
        BY <2>1
<1>3. \A x \in D : \E t \in targets : Id(t) = x
    OBVIOUS
<1>4. \A t \in targets : Id(t) \in D
    OBVIOUS
<1>5. sorted = [k \in DOMAIN ids |-> CHOOSE t \in targets : Id(t) = ids[k]]
    BY DEF SortedTargets
<1>6. \A s, t \in targets : Id(s) = Id(t) => s = t
    BY DEF AreTargets
<1> HIDE DEF D, sorted, Id
<1>7. /\ ids \in Seq(D) /\ Len(ids) = n /\ n \in Nat
      /\ \A x \in D : \E k \in 1..n : ids[k] = x
    BY <1>1, <1>2, SortedAre
<1>8. DOMAIN ids = 1..n /\ \A k \in 1..n : ids[k] \in D
    BY <1>7
<1> HIDE DEF ids, n
<1>9. ASSUME NEW k \in 1..n PROVE sorted[k] \in targets /\ Id(sorted[k]) = ids[k]
    <2>1. \E t \in targets : Id(t) = ids[k]
        BY <1>3, <1>8
    <2>2. sorted[k] = CHOOSE t \in targets : Id(t) = ids[k]
        BY <1>5, <1>8
    <2> QED
        BY <2>1, <2>2
<1>10. sorted \in Seq(targets) /\ Len(sorted) = n
    <2>1. sorted = [k \in 1..n |-> sorted[k]]
        BY <1>5, <1>8
    <2> QED
        BY <1>7, <1>9, <2>1, IsSequence
<1>11. ASSUME NEW t \in targets PROVE \E k \in DOMAIN sorted : sorted[k] = t
    <2>1. PICK k \in 1..n : ids[k] = Id(t)
        BY <1>4, <1>7
    <2>2. sorted[k] = t
        BY <1>6, <1>9, <2>1
    <2>3. k \in DOMAIN sorted
        BY <1>10
    <2> QED
        BY <2>2, <2>3
<1> QED
    BY <1>10, <1>11 DEF sorted

\* The list is read back as one configuration for each target.
THEOREM TargetListReadBack ==
    ASSUME NEW targets, AreTargets(targets), Separated(TargetListEntries(targets))
    PROVE  LET sorted == SortedTargets(targets)
           IN  DecodeList(target_list_value(targets), TC_LIST_TARGET_CONFIGURATION)
                   = Returns([k \in DOMAIN sorted |->
                         [tag \in {TC_LIST_TARGET_CONFIGURATION} |-> TargetValue(sorted[k])]])
<1> DEFINE sorted == SortedTargets(targets)
           n == Len(sorted)
           entries == TargetListEntries(targets)
           list == [k \in 1..n |-> [tag \in {2} |-> TargetValue(sorted[k])]]
<1>1. sorted \in Seq(targets)
    BY TargetsSorted
<1>2. entries = [k \in DOMAIN sorted |-> <<2, TargetValue(sorted[k])>>]
    BY DEF TargetListEntries, TC_LIST_TARGET_CONFIGURATION
<1> HIDE DEF sorted
<1>3. n \in Nat /\ DOMAIN sorted = 1..n /\ \A k \in 1..n : sorted[k] \in targets
    BY <1>1
<1> HIDE DEF n, entries
<1>4. ASSUME NEW k \in 1..n
      PROVE  entries[k] \in Entry /\ entries[k][1] = 2 /\ entries[k][2] = TargetValue(sorted[k])
    <2> DEFINE value == TargetValue(sorted[k])
    <2>1. IsTarget(sorted[k])
        BY <1>3 DEF AreTargets
    <2>2. TargetEntries(sorted[k]) \in Seq(Entry)
        BY <2>1, TargetEntriesMean
    <2>3. value \in Seq(Nat)
        BY <2>2, SegmentedHas, ExtendedHas DEF TargetValue, Encode
    <2>4. entries[k] = <<2, value>>
        BY <1>2, <1>3
    <2> HIDE DEF value
    <2>5. <<2, value>> \in Entry
        BY <2>3 DEF Entry, Segment
    <2>6. entries[k] \in Entry /\ entries[k][1] = 2 /\ entries[k][2] = value
        BY <2>4, <2>5
    <2> QED
        BY <2>6 DEF value
<1>5. entries \in Seq(Entry) /\ Len(entries) = n
    <2>1. entries = [k \in 1..n |-> entries[k]]
        BY <1>2, <1>3
    <2> QED
        BY <1>3, <1>4, <2>1, IsSequence
<1>6. Items(entries, 2) = list
    <2>1. \A k \in 1..Len(entries) : entries[k][1] = 2
        BY <1>4, <1>5
    <2>2. Items(entries, 2) = [k \in 1..Len(entries) |-> [tag \in {2} |-> entries[k][2]]]
        BY <1>5, <2>1, EachIsItem
    <2> QED
        BY <1>4, <1>5, <2>2
<1>7. Separated(entries)
    BY DEF entries
<1> HIDE DEF list
<1>8. DecodeList(Encode(entries), 2) = Returns(list)
    BY <1>5, <1>6, <1>7, ListReadBack
<1>9. list = [k \in DOMAIN sorted |-> [tag \in {2} |-> TargetValue(sorted[k])]]
    BY <1>3 DEF list
<1> QED
    BY <1>8, <1>9 DEF target_list_value, entries, sorted, TC_LIST_TARGET_CONFIGURATION

-----------------------------------------------------------------------------
(* The targets that the runs are made of.                                  *)

TInv == /\ input = [of |-> "targets", targets |-> input.targets]
        /\ input.targets \subseteq Samples
        /\ AreTargets(input.targets)

\* A target is added whose identifier is not there yet.
LEMMA AddTargetKeeps ==
    ASSUME TInv, AddTarget PROVE TInv'
<1> DEFINE T == input.targets
           U == input'.targets
<1>1. PICK t \in Samples :
          /\ \A s \in T : s.target_identifier # t.target_identifier
          /\ input' = [input EXCEPT !.targets = @ \cup {t}]
    BY DEF AddTarget
<1>2. input' = [of |-> "targets", targets |-> T \cup {t}]
    <2>1. input = [of |-> "targets", targets |-> T]
        BY DEF TInv
    <2> QED
        BY <1>1, <2>1
<1>3. U = T \cup {t} /\ input' = [of |-> "targets", targets |-> U]
    BY <1>2
<1>4. T \subseteq Samples /\ AreTargets(T)
    BY DEF TInv
<1> HIDE DEF T, U
<1>5. IsTarget(t)
    BY SamplesAssumption
<1>6. IsFiniteSet(U)
    BY <1>3, <1>4, FS_AddElement DEF AreTargets
<1>7. \A s \in U : IsTarget(s)
    BY <1>3, <1>4, <1>5 DEF AreTargets
<1>8. \A r, s \in U : r.target_identifier = s.target_identifier => r = s
    BY <1>1, <1>3, <1>4 DEF AreTargets
<1>9. AreTargets(U) /\ U \subseteq Samples
    BY <1>3, <1>4, <1>6, <1>7, <1>8 DEF AreTargets
<1> QED
    BY <1>3, <1>9 DEF TInv, U

\* The targets of an input are what the theorems above speak of.
LEMMA InputsAreTargets == TargetsSpec => []TInv
<1>1. TargetsInit => TInv
    <2> SUFFICES ASSUME TargetsInit PROVE TInv
        OBVIOUS
    <2>1. input = [of |-> "targets", targets |-> {}] /\ input.targets = {}
        BY DEF TargetsInit
    <2>2. AreTargets({})
        BY FS_EmptySet DEF AreTargets
    <2> QED
        BY <2>1, <2>2 DEF TInv
<1>2. TInv /\ [AddTarget]_input => TInv'
    <2> SUFFICES ASSUME TInv, [AddTarget]_input PROVE TInv'
        OBVIOUS
    <2>1. CASE AddTarget
        BY <2>1, AddTargetKeeps
    <2>2. CASE UNCHANGED input
        BY <2>2 DEF TInv
    <2> QED
        BY <2>1, <2>2
<1> QED
    BY <1>1, <1>2, PTL DEF TargetsSpec

\* What target_list_value has written of any targets, decode_list and
\* _parse_target read back: every target with its names, its category and its
\* buttons, in the order of the identifiers.
THEOREM TargetsReadBackAlways == TargetsSpec => []TargetsReadBack
<1>1. TInv => TargetsReadBack
    <2> SUFFICES ASSUME TInv PROVE TargetsReadBack
        OBVIOUS
    <2> DEFINE T == input.targets
    <2>1. AreTargets(T)
        BY DEF TInv
    <2>2. ASSUME NEW t \in T
          PROVE  /\ ParseTarget(TargetValue(t)) = Returns(Readable(t))
                 /\ \E k \in DOMAIN SortedTargets(T) : SortedTargets(T)[k] = t
        <3>1. IsTarget(t)
            BY <2>1 DEF AreTargets
        <3> HIDE DEF T
        <3> QED
            BY <2>1, <3>1, TargetReadBack, TargetsSorted
    <2>3. Separated(TargetListEntries(T)) =>
              DecodeList(target_list_value(T), TC_LIST_TARGET_CONFIGURATION)
                  = Returns([k \in DOMAIN SortedTargets(T) |->
                        [tag \in {TC_LIST_TARGET_CONFIGURATION} |->
                            TargetValue(SortedTargets(T)[k])]])
        <3> HIDE DEF T
        <3> QED
            BY <2>1, TargetListReadBack
    <2> QED
        BY <2>2, <2>3 DEF TargetsReadBack
<1> QED
    BY <1>1, InputsAreTargets, PTL
=============================================================================
