--------------------------- MODULE WsInputProofs ---------------------------
(***************************************************************************)
(* Theorems about WsInput, for everything that clients may send and every  *)
(* way in which the network may cut it into reads.                         *)
(***************************************************************************)
EXTENDS WsInput, SequenceTheorems, WellFoundedInduction, TLAPS

-----------------------------------------------------------------------------
(* Sequences.                                                              *)

\* A nonempty set of natural numbers has a least element.
LEMMA MinIsLeast ==
    ASSUME NEW S \in SUBSET Nat, S # {}
    PROVE  Min(S) \in S /\ \A x \in S : Min(S) <= x
<1>1. PICK m \in S : \A y \in S : ~ (y < m)
  <2>1. IsWellFoundedOn(OpToRel(<, Nat), Nat)
    BY NatLessThanWellFounded
  <2>2. PICK x \in S : \A y \in S : ~ (<<y, x>> \in OpToRel(<, Nat))
    BY <2>1, WFMin
  <2>. QED
    BY <2>2 DEF OpToRel
<1>2. \A y \in S : m <= y
  BY <1>1
<1>. QED
  BY <1>1, <1>2 DEF Min

\* Induction, for a set of numbers.
LEMMA AllNumbers ==
    ASSUME NEW S, 0 \in S, \A n \in Nat : n \in S => n + 1 \in S
    PROVE  Nat \subseteq S
<1> SUFFICES ASSUME Nat \ S # {} PROVE FALSE
  OBVIOUS
<1> DEFINE m == Min(Nat \ S)
<1>1. m \in Nat \ S /\ \A n \in Nat \ S : m <= n
  BY MinIsLeast
<1> HIDE DEF m
<1>2. m - 1 \in Nat /\ m - 1 \in S
  BY <1>1
<1>3. (m - 1) + 1 = m
  BY <1>1
<1>. QED
  BY <1>1, <1>2, <1>3

\* The bytes of s from the a-th, which is left out, to the b-th.
Slice(s, a, b) == [i \in 1 .. b - a |-> s[a + i]]

LEMMA SliceIsSeq ==
    ASSUME NEW S, NEW s \in Seq(S), NEW a \in Nat, NEW b \in Nat, a <= b, b <= Len(s)
    PROVE  /\ Slice(s, a, b) \in Seq(S)
           /\ Len(Slice(s, a, b)) = b - a
           /\ \A i \in 1 .. b - a : Slice(s, a, b)[i] = s[a + i]
BY DEF Slice

LEMMA SliceOfSlice ==
    ASSUME NEW S, NEW s \in Seq(S), NEW a \in Nat, NEW b \in Nat, a <= b, b <= Len(s),
           NEW i \in Nat, NEW j \in Nat, i <= j, j <= b - a
    PROVE  SubSeq(Slice(s, a, b), i + 1, j) = Slice(s, a + i, a + j)
BY DEF Slice

LEMMA Slices ==
    ASSUME NEW S, NEW s \in Seq(S), NEW a \in Nat, NEW b \in Nat, NEW c \in Nat,
           a <= b, b <= c, c <= Len(s)
    PROVE  Slice(s, a, b) \o Slice(s, b, c) = Slice(s, a, c)
BY DEF Slice

LEMMA WholeSlice ==
    ASSUME NEW S, NEW s \in Seq(S), NEW a \in Nat, a <= Len(s)
    PROVE  Slice(s, 0, Len(s)) = s /\ Slice(s, a, a) = <<>>
BY DEF Slice

\* A sequence after another one.
LEMMA Concatenation ==
    ASSUME NEW S, NEW a \in Seq(S), NEW b \in Seq(S)
    PROVE  /\ a \o b \in Seq(S)
           /\ Len(a \o b) = Len(a) + Len(b)
           /\ \A j \in 1 .. Len(a) : (a \o b)[j] = a[j]
           /\ \A j \in 1 .. Len(b) : (a \o b)[Len(a) + j] = b[j]
OBVIOUS

-----------------------------------------------------------------------------
(* FlattenSeq is defined by an equation that a function solves.            *)

\* f[i] is the first i sequences of s, one after the other.
Flattens(f, s, n) == f = [i \in 1 .. n |-> IF i = 1 THEN s[i] ELSE f[i - 1] \o s[i]]

\* The equation has a solution.
LEMMA FlattenExists ==
    ASSUME NEW s, NEW n \in Nat
    PROVE  \E f : Flattens(f, s, n)
<1> DEFINE Good == {m \in Nat : \E f : Flattens(f, s, m)}
<1>1. 0 \in Good
  <2>1. Flattens(<<>>, s, 0)
    BY DEF Flattens
  <2>. QED
    BY <2>1
<1>2. ASSUME NEW m \in Nat, m \in Good PROVE m + 1 \in Good
  <2>1. PICK f : Flattens(f, s, m)
    BY <1>2
  <2> DEFINE g == [i \in 1 .. m + 1 |-> IF i = 1 THEN s[i] ELSE f[i - 1] \o s[i]]
  <2>2. \A i \in 1 .. m : g[i] = f[i]
    <3>1. \A i \in 1 .. m : f[i] = IF i = 1 THEN s[i] ELSE f[i - 1] \o s[i]
      BY <2>1, Zenon DEF Flattens
    <3>2. \A i \in 1 .. m : i \in 1 .. m + 1
      OBVIOUS
    <3>. QED
      BY <3>1, <3>2, Zenon
  <2>3. \A i \in 1 .. m + 1 : i # 1 => i - 1 \in 1 .. m
    OBVIOUS
  <2>4. \A i \in 1 .. m + 1 : g[i] = IF i = 1 THEN s[i] ELSE g[i - 1] \o s[i]
    BY <2>2, <2>3
  <2>5. g = [i \in 1 .. m + 1 |-> IF i = 1 THEN s[i] ELSE g[i - 1] \o s[i]]
    BY <2>4, Zenon
  <2> HIDE DEF g
  <2>6. Flattens(g, s, m + 1)
    BY <2>5 DEF Flattens
  <2>. QED
    BY <2>6
<1> HIDE DEF Good
<1>3. n \in Good
  BY <1>1, <1>2, AllNumbers
<1>. QED
  BY <1>3 DEF Good

\* One sequence after the other, from the places P; T is all of them.
LaidOut(T, s, n, P) ==
    /\ P[1] = 0 /\ P[n + 1] = Len(T)
    /\ \A k \in 1 .. n : /\ P[k + 1] = P[k] + Len(s[k]) /\ P[k + 1] <= Len(T)
                         /\ \A j \in 1 .. Len(s[k]) : T[P[k] + j] = s[k][j]

\* That is what FlattenSeq does.
LEMMA FlattenLaysOut ==
    ASSUME NEW S, NEW n \in Nat, NEW s \in [1 .. n -> Seq(S)]
    PROVE  /\ FlattenSeq(s) \in Seq(S)
           /\ \E P \in [1 .. n + 1 -> Nat] : LaidOut(FlattenSeq(s), s, n, P)
<1>1. Len(s) = n
  OBVIOUS
<1>2. CASE n = 0
  <2>1. FlattenSeq(s) = <<>>
    BY <1>1, <1>2 DEF FlattenSeq
  <2> DEFINE P == [i \in 1 .. 1 |-> 0]
  <2>2. P \in [1 .. n + 1 -> Nat] /\ LaidOut(<<>>, s, n, P)
    BY <1>2 DEF LaidOut
  <2> HIDE DEF P
  <2>. QED
    BY <2>1, <2>2
<1>3. CASE n # 0
  <2> DEFINE f == CHOOSE f : Flattens(f, s, n)
  <2>1. FlattenSeq(s) = f[n]
    BY <1>1, <1>3 DEF FlattenSeq, Flattens
  <2>2. Flattens(f, s, n)
    BY FlattenExists
  <2> HIDE DEF f
  <2>3. \A i \in 1 .. n : f[i] = IF i = 1 THEN s[i] ELSE f[i - 1] \o s[i]
    BY <2>2, Zenon DEF Flattens
  <2>4. \A m \in 1 .. n - 1 : f[m + 1] = f[m] \o s[m + 1]
    <3>1. \A m \in 1 .. n - 1 : m + 1 \in 1 .. n /\ m + 1 # 1 /\ (m + 1) - 1 = m
      OBVIOUS
    <3>. QED
      BY <2>3, <3>1, Zenon
  <2>5. \A i \in 1 .. n : f[i] \in Seq(S)
    <3> DEFINE Good == {i \in Nat : i + 1 <= n => f[i + 1] \in Seq(S)}
    <3>1. 0 \in Good
      BY <2>3
    <3>2. ASSUME NEW i \in Nat, i \in Good PROVE i + 1 \in Good
      <4> DEFINE m == i + 1
      <4> SUFFICES ASSUME m + 1 <= n PROVE f[m + 1] \in Seq(S)
        OBVIOUS
      <4>1. m \in 1 .. n - 1 /\ m + 1 \in 1 .. n /\ f[m] \in Seq(S)
        BY <3>2
      <4> HIDE DEF m
      <4>. QED
        BY <2>4, <4>1, Concatenation
    <3>3. Nat \subseteq Good
      <4> HIDE DEF Good
      <4>. QED
        BY <3>1, <3>2, AllNumbers
    <3>4. \A i \in 1 .. n : i - 1 \in Nat /\ (i - 1) + 1 = i /\ (i - 1) + 1 <= n
      OBVIOUS
    <3>. QED
      BY <3>3, <3>4
  <2> DEFINE L == [i \in 1 .. n |-> Len(f[i])]
             W == [i \in 1 .. n |-> Len(s[i])]
  <2>6. L \in [1 .. n -> Nat] /\ W \in [1 .. n -> Nat]
    BY <2>5
  <2>7. \A m \in 1 .. n - 1 : /\ L[m + 1] = L[m] + W[m + 1]
                              /\ \A j \in 1 .. L[m] : f[m + 1][j] = f[m][j]
                              /\ \A j \in 1 .. W[m + 1] : f[m + 1][L[m] + j] = s[m + 1][j]
    <3> SUFFICES ASSUME NEW m \in 1 .. n - 1
                 PROVE  /\ L[m + 1] = L[m] + W[m + 1]
                        /\ \A j \in 1 .. L[m] : f[m + 1][j] = f[m][j]
                        /\ \A j \in 1 .. W[m + 1] : f[m + 1][L[m] + j] = s[m + 1][j]
      BY Zenon
    <3>1. m \in 1 .. n /\ m + 1 \in 1 .. n
      OBVIOUS
    <3>2. L[m] = Len(f[m]) /\ L[m + 1] = Len(f[m + 1]) /\ W[m + 1] = Len(s[m + 1])
      BY <3>1
    <3>3. f[m + 1] = f[m] \o s[m + 1]
      BY <2>4, Zenon
    <3>4. /\ Len(f[m] \o s[m + 1]) = Len(f[m]) + Len(s[m + 1])
          /\ \A j \in 1 .. Len(f[m]) : (f[m] \o s[m + 1])[j] = f[m][j]
          /\ \A j \in 1 .. Len(s[m + 1]) : (f[m] \o s[m + 1])[Len(f[m]) + j] = s[m + 1][j]
      <4>1. f[m] \in Seq(S) /\ s[m + 1] \in Seq(S)
        BY <2>5, <3>1
      <4> DEFINE a == f[m]
                 b == s[m + 1]
      <4>2. a \in Seq(S) /\ b \in Seq(S)
        BY <4>1
      <4> HIDE DEF a, b
      <4>3. /\ Len(a \o b) = Len(a) + Len(b)
            /\ \A j \in 1 .. Len(a) : (a \o b)[j] = a[j]
            /\ \A j \in 1 .. Len(b) : (a \o b)[Len(a) + j] = b[j]
        BY <4>2, Concatenation
      <4>. QED
        BY <4>3, Zenon DEF a, b
    <3> HIDE DEF L, W
    <3>. QED
      BY <3>2, <3>3, <3>4, Zenon
  <2>8. \A k \in 1 .. n : L[k] <= L[n] /\ \A j \in 1 .. L[k] : f[n][j] = f[k][j]
    <3> DEFINE Good == {d \in Nat : d < n => /\ L[n - d] <= L[n]
                                             /\ \A j \in 1 .. L[n - d] : f[n][j] = f[n - d][j]}
    <3> HIDE DEF L, W
    <3>1. 0 \in Good
      <4>1. n - 0 = n /\ n \in 1 .. n
        BY <1>3
      <4>. QED
        BY <2>6, <4>1
    <3>2. ASSUME NEW d \in Nat, d \in Good PROVE d + 1 \in Good
      <4> SUFFICES ASSUME d + 1 < n
                   PROVE  /\ L[n - (d + 1)] <= L[n]
                          /\ \A j \in 1 .. L[n - (d + 1)] : f[n][j] = f[n - (d + 1)][j]
        OBVIOUS
      <4> DEFINE m == n - (d + 1)
      <4>1. m \in 1 .. n - 1 /\ m \in 1 .. n /\ m + 1 \in 1 .. n /\ n - d = m + 1 /\ d < n /\ n \in 1 .. n
        OBVIOUS
      <4>2. L[m + 1] <= L[n] /\ \A j \in 1 .. L[m + 1] : f[n][j] = f[m + 1][j]
        <5>1. L[n - d] <= L[n] /\ \A j \in 1 .. L[n - d] : f[n][j] = f[n - d][j]
          BY <3>2, <4>1
        <5>. QED
          BY <4>1, <5>1
      <4> HIDE DEF m
      <4>3. L[m] \in Nat /\ W[m + 1] \in Nat /\ L[m + 1] \in Nat /\ L[n] \in Nat
        BY <2>6, <4>1
      <4>4. L[m] <= L[m + 1] /\ \A j \in 1 .. L[m] : f[m + 1][j] = f[m][j]
        <5>1. L[m + 1] = L[m] + W[m + 1] /\ \A j \in 1 .. L[m] : f[m + 1][j] = f[m][j]
          BY <2>7, <4>1, Zenon
        <5>. QED
          BY <4>3, <5>1
      <4>5. L[m] <= L[n] /\ \A j \in 1 .. L[m] : j \in 1 .. L[m + 1]
        BY <4>2, <4>3, <4>4
      <4>6. \A j \in 1 .. L[m] : f[n][j] = f[m][j]
        BY <4>2, <4>4, <4>5, Zenon
      <4>. QED
        BY <4>5, <4>6 DEF m
    <3>3. Nat \subseteq Good
      <4> HIDE DEF Good
      <4>. QED
        BY <3>1, <3>2, AllNumbers
    <3>4. \A k \in 1 .. n : n - k \in Nat /\ n - k < n /\ n - (n - k) = k
      OBVIOUS
    <3> SUFFICES ASSUME NEW k \in 1 .. n
                 PROVE  L[k] <= L[n] /\ \A j \in 1 .. L[k] : f[n][j] = f[k][j]
      BY Zenon
    <3>5. n - k \in Good /\ n - k < n /\ n - (n - k) = k
      BY <3>3, <3>4
    <3>. QED
      BY <3>5
  <2> DEFINE P == [i \in 1 .. n + 1 |-> IF i = 1 THEN 0 ELSE L[i - 1]]
  <2>9. P \in [1 .. n + 1 -> Nat] /\ P[1] = 0 /\ \A k \in 1 .. n : P[k + 1] = L[k]
    <3> HIDE DEF L
    <3>. QED
      BY <2>6
  <2>10. LaidOut(f[n], s, n, P)
    <3> HIDE DEF P
    <3>1. L[n] = Len(f[n]) /\ \A k \in 1 .. n : L[k] = Len(f[k]) /\ W[k] = Len(s[k])
      BY <1>3
    <3> HIDE DEF L, W
    <3>2. P[n + 1] = Len(f[n])
      BY <1>3, <2>9, <3>1
    <3>3. ASSUME NEW k \in 1 .. n
          PROVE  /\ P[k + 1] = P[k] + W[k] /\ P[k + 1] <= L[n]
                 /\ \A j \in 1 .. W[k] : f[n][P[k] + j] = s[k][j]
      <4>1. P[k + 1] = L[k] /\ L[k] <= L[n] /\ L[k] \in Nat /\ W[k] \in Nat /\ P[k] \in Nat
        BY <2>6, <2>8, <2>9
      <4>2. L[k] = P[k] + W[k] /\ \A j \in 1 .. W[k] : f[k][P[k] + j] = s[k][j]
        <5>1. CASE k = 1
          BY <2>3, <2>6, <2>9, <3>1, <5>1
        <5>2. CASE k # 1
          <6> DEFINE m == k - 1
          <6>1. m \in 1 .. n - 1 /\ m \in 1 .. n /\ m + 1 = k
            BY <5>2
          <6> HIDE DEF m
          <6>2. P[k] = L[m]
            BY <2>9, <6>1
          <6>. QED
            BY <2>7, <6>1, <6>2
        <5>. QED
          BY <5>1, <5>2
      <4>3. \A j \in 1 .. W[k] : P[k] + j \in 1 .. L[k]
        BY <4>1, <4>2, SMTT(60)
      <4>. QED
        BY <2>8, <4>1, <4>2, <4>3
    <3>. QED
      BY <2>9, <3>1, <3>2, <3>3, ZenonT(60) DEF LaidOut
  <2>11. f[n] \in Seq(S)
    BY <1>3, <2>5
  <2> HIDE DEF P
  <2>. QED
    BY <2>1, <2>9, <2>10, <2>11
<1>. QED
  BY <1>2, <1>3

-----------------------------------------------------------------------------
(* Where in the stream everything is.                                      *)

LEMMA HeaderLineType ==
    ASSUME NEW l \in HeaderLine
    PROVE  /\ l.kind \in {"request", "host", "upgrade", "other", "junk", "length"}
           /\ l.size \in Nat \ {0}
           /\ l.kind = "length" => l.n \in Nat
BY DEF HeaderLine

\* The bytes of a header, of a body, of frames.
HeaderByte == [line : HeaderLine \cup {CR.line, BodyByte.line}, at : Nat]
FrameByte == [op : Frames!DataOps \cup Frames!ControlOps \cup Frames!ReservedOps, fin : BOOLEAN, rsv : BOOLEAN]
             \cup [masked : BOOLEAN, code : {"small", "16bit", "64bit"}, size : Nat]
             \cup [at : Nat, size : Nat]
             \cup [unit : Frames!Units, at : Nat]
StreamByte == HeaderByte \cup FrameByte

\* A line with its delimiter.
LEMMA LineType ==
    ASSUME NEW l \in HeaderLine
    PROVE  LET s == LineBytes(l) \o <<CR, LF>>
           IN /\ s \in Seq(HeaderByte)
              /\ Len(s) = l.size + 2
              /\ \A j \in 1 .. l.size : s[j] = [line |-> l, at |-> j]
              /\ s[l.size + 1] = CR /\ s[l.size + 2] = LF
<1>1. l.size \in Nat
  BY HeaderLineType
<1>2. CR \in HeaderByte /\ LF \in HeaderByte
  <2>1. CR.line = LF.line /\ CR = [line |-> CR.line, at |-> 1] /\ LF = [line |-> CR.line, at |-> 2]
    BY DEF CR, LF
  <2> DEFINE delimiter == CR.line
  <2>2. CR = [line |-> delimiter, at |-> 1] /\ LF = [line |-> delimiter, at |-> 2]
    BY <2>1
  <2>3. delimiter \in HeaderLine \cup {CR.line, BodyByte.line}
    OBVIOUS
  <2> HIDE DEF delimiter
  <2>. QED
    BY <2>2, <2>3 DEF HeaderByte
<1> DEFINE a == LineBytes(l)
           b == <<CR, LF>>
<1>3. /\ a \in Seq(HeaderByte) /\ Len(a) = l.size
      /\ \A j \in 1 .. l.size : a[j] = [line |-> l, at |-> j]
  <2>1. \A j \in 1 .. l.size : [line |-> l, at |-> j] \in HeaderByte
    BY DEF HeaderByte
  <2>. QED
    BY <1>1, <2>1 DEF LineBytes
<1>4. b \in Seq(HeaderByte) /\ Len(b) = 2 /\ b[1] = CR /\ b[2] = LF
  BY <1>2
<1> HIDE DEF a, b
<1>5. /\ a \o b \in Seq(HeaderByte) /\ Len(a \o b) = Len(a) + Len(b)
      /\ \A j \in 1 .. Len(a) : (a \o b)[j] = a[j]
      /\ \A j \in 1 .. Len(b) : (a \o b)[Len(a) + j] = b[j]
  <2>1. a \in Seq(HeaderByte) /\ b \in Seq(HeaderByte)
    BY <1>3, <1>4
  <2>. QED
    BY <2>1, Concatenation
<1>6. (a \o b)[l.size + 1] = CR /\ (a \o b)[l.size + 2] = LF
  BY <1>3, <1>4, <1>5
<1>. QED
  BY <1>3, <1>4, <1>5, <1>6 DEF a, b

LEMMA FrameType ==
    ASSUME NEW f \in Frames!Frame
    PROVE  Frames!FrameBytes(f) \in Seq(FrameByte)
<1> DEFINE head == [op |-> f.op, fin |-> f.fin, rsv |-> f.rsv]
           size == [masked |-> f.masked, code |-> f.code, size |-> Len(f.payload)]
           n == Frames!ExtendedLength(f.code) + (IF f.masked THEN 4 ELSE 0)
           a == <<head, size>>
           b == [i \in 1 .. n |-> [at |-> i, size |-> Len(f.payload)]]
           c == [i \in DOMAIN f.payload |-> [unit |-> f.payload[i], at |-> (i - 1) % 4]]
<1>1. /\ f.op \in Frames!DataOps \cup Frames!ControlOps \cup Frames!ReservedOps
      /\ f.fin \in BOOLEAN /\ f.rsv \in BOOLEAN /\ f.masked \in BOOLEAN
      /\ f.code \in {"small", "16bit", "64bit"} /\ f.payload \in Seq(Frames!Units)
      /\ Len(f.payload) \in Nat
  BY DEF Frames!Frame
<1>2. n \in Nat
  BY <1>1 DEF Frames!ExtendedLength
<1>3. a \in Seq(FrameByte)
  <2>1. head \in FrameByte /\ size \in FrameByte
    BY <1>1 DEF FrameByte
  <2> HIDE DEF head, size
  <2>. QED
    BY <2>1
<1>4. b \in Seq(FrameByte)
  <2>1. \A i \in 1 .. n : [at |-> i, size |-> Len(f.payload)] \in FrameByte
    BY <1>1 DEF FrameByte
  <2> HIDE DEF n
  <2>. QED
    BY <1>2, <2>1
<1>5. c \in Seq(FrameByte)
  <2>1. DOMAIN f.payload = 1 .. Len(f.payload)
    BY <1>1
  <2>2. \A i \in DOMAIN f.payload : [unit |-> f.payload[i], at |-> (i - 1) % 4] \in FrameByte
    <3> SUFFICES ASSUME NEW i \in DOMAIN f.payload
                 PROVE  [unit |-> f.payload[i], at |-> (i - 1) % 4] \in FrameByte
      OBVIOUS
    <3>1. f.payload[i] \in Frames!Units /\ (i - 1) % 4 \in Nat
      BY <1>1, <2>1
    <3>. QED
      BY <3>1 DEF FrameByte
  <2>. QED
    BY <1>1, <2>1, <2>2
<1>6. Frames!FrameBytes(f) = a \o b \o c
  BY DEF Frames!FrameBytes
<1> HIDE DEF a, b, c
<1>. QED
  BY <1>3, <1>4, <1>5, <1>6

\* The lines begin after the places P[1], P[2], ..., the header ends 2 bytes after the
\* last of them, and the frames follow the body.
IsLayout(input, P) ==
    LET T == StreamOf(input)
        n == Len(input.lines)
    IN /\ P \in [1 .. n + 1 -> Nat]
       /\ P[1] = 0 /\ P[n + 1] + 2 = HeaderSize(input)
       /\ \A k \in 1 .. n :
             LET l == input.lines[k]
             IN /\ P[k + 1] = P[k] + l.size + 2
                /\ P[k + 1] + 2 <= HeaderSize(input)
                /\ \A j \in 1 .. l.size : T[P[k] + j] = [line |-> l, at |-> j]
                /\ T[P[k] + (l.size + 1)] = CR /\ T[P[k] + (l.size + 2)] = LF
       /\ T[P[n + 1] + 1] = CR /\ T[P[n + 1] + 2] = LF
       /\ HeaderSize(input) + input.body <= Len(T)
       /\ Slice(T, HeaderSize(input) + input.body, Len(T)) = FramesOf(input)
       /\ Len(FramesOf(input)) = Len(T) - (HeaderSize(input) + input.body)

LEMMA InputType ==
    ASSUME NEW input \in Inputs
    PROVE  /\ input.lines \in Seq(HeaderLine) /\ Len(input.lines) \in Nat
           /\ input.body \in Nat
           /\ input.frames \in Seq(Frames!Frame) /\ Len(input.frames) \in Nat
BY InputsAssumption

LEMMA FramesOfType ==
    ASSUME NEW input \in Inputs
    PROVE  FramesOf(input) \in Seq(FrameByte)
<1> DEFINE n == Len(input.frames)
           s == [i \in DOMAIN input.frames |-> Frames!FrameBytes(input.frames[i])]
<1>1. input.frames \in Seq(Frames!Frame) /\ n \in Nat
  BY InputType
<1>2. DOMAIN input.frames = 1 .. n /\ \A i \in 1 .. n : input.frames[i] \in Frames!Frame
  BY <1>1
<1>3. \A i \in 1 .. n : Frames!FrameBytes(input.frames[i]) \in Seq(FrameByte)
  BY <1>2, FrameType
<1>4. s \in [1 .. n -> Seq(FrameByte)]
  BY <1>2, <1>3
<1> HIDE DEF s
<1>5. FlattenSeq(s) \in Seq(FrameByte)
  BY <1>1, <1>4, FlattenLaysOut
<1>. QED
  BY <1>5 DEF s, FramesOf

\* The lines alone.
LEMMA BytesLayOut ==
    ASSUME NEW lines \in Seq(HeaderLine)
    PROVE  /\ Bytes(lines) \in Seq(HeaderByte)
           /\ \E P \in [1 .. Len(lines) + 1 -> Nat] :
                 /\ P[1] = 0 /\ P[Len(lines) + 1] = Len(Bytes(lines))
                 /\ \A k \in 1 .. Len(lines) :
                       /\ P[k + 1] = P[k] + lines[k].size + 2
                       /\ P[k + 1] <= Len(Bytes(lines))
                       /\ \A j \in 1 .. lines[k].size :
                             Bytes(lines)[P[k] + j] = [line |-> lines[k], at |-> j]
                       /\ Bytes(lines)[P[k] + (lines[k].size + 1)] = CR
                       /\ Bytes(lines)[P[k] + (lines[k].size + 2)] = LF
<1> DEFINE n == Len(lines)
           s == [i \in DOMAIN lines |-> LineBytes(lines[i]) \o <<CR, LF>>]
<1>1. n \in Nat /\ DOMAIN lines = 1 .. n /\ \A k \in 1 .. n : lines[k] \in HeaderLine
  OBVIOUS
<1>2. \A k \in 1 .. n : /\ s[k] \in Seq(HeaderByte)
                        /\ Len(s[k]) = lines[k].size + 2
                        /\ \A j \in 1 .. lines[k].size : s[k][j] = [line |-> lines[k], at |-> j]
                        /\ s[k][lines[k].size + 1] = CR /\ s[k][lines[k].size + 2] = LF
  BY <1>1, LineType, Zenon
<1>3. s \in [1 .. n -> Seq(HeaderByte)]
  BY <1>1, <1>2
<1> HIDE DEF s
<1>4. FlattenSeq(s) = Bytes(lines)
  BY DEF s, Bytes
<1>5. Bytes(lines) \in Seq(HeaderByte)
  BY <1>1, <1>3, <1>4, FlattenLaysOut
<1>6. PICK P \in [1 .. n + 1 -> Nat] : LaidOut(Bytes(lines), s, n, P)
  BY <1>1, <1>3, <1>4, FlattenLaysOut
<1>7. \A k \in 1 .. n : /\ P[k + 1] = P[k] + lines[k].size + 2
                        /\ P[k + 1] <= Len(Bytes(lines))
                        /\ \A j \in 1 .. lines[k].size :
                              Bytes(lines)[P[k] + j] = [line |-> lines[k], at |-> j]
                        /\ Bytes(lines)[P[k] + (lines[k].size + 1)] = CR
                        /\ Bytes(lines)[P[k] + (lines[k].size + 2)] = LF
  <2> SUFFICES ASSUME NEW k \in 1 .. n
               PROVE  /\ P[k + 1] = P[k] + lines[k].size + 2
                      /\ P[k + 1] <= Len(Bytes(lines))
                      /\ \A j \in 1 .. lines[k].size :
                            Bytes(lines)[P[k] + j] = [line |-> lines[k], at |-> j]
                      /\ Bytes(lines)[P[k] + (lines[k].size + 1)] = CR
                      /\ Bytes(lines)[P[k] + (lines[k].size + 2)] = LF
    BY Zenon
  <2> DEFINE size == lines[k].size
  <2>1. size \in Nat /\ P[k] \in Nat
    BY <1>1, <1>6, HeaderLineType
  <2>2. /\ P[k + 1] = P[k] + Len(s[k]) /\ P[k + 1] <= Len(Bytes(lines))
        /\ \A j \in 1 .. Len(s[k]) : Bytes(lines)[P[k] + j] = s[k][j]
    BY <1>6 DEF LaidOut
  <2>3. /\ Len(s[k]) = size + 2
        /\ \A j \in 1 .. size : s[k][j] = [line |-> lines[k], at |-> j]
        /\ s[k][size + 1] = CR /\ s[k][size + 2] = LF
    BY <1>2, Zenon
  <2> HIDE DEF size
  <2>4. P[k + 1] = P[k] + size + 2
    <3>1. P[k + 1] = P[k] + (size + 2)
      BY <2>2, <2>3, Zenon
    <3>. QED
      BY <2>1, <3>1
  <2>5. /\ \A j \in 1 .. size : j \in 1 .. size + 2
        /\ size + 1 \in 1 .. size + 2 /\ size + 2 \in 1 .. size + 2
    BY <2>1
  <2>6. \A j \in 1 .. size + 2 : Bytes(lines)[P[k] + j] = s[k][j]
    BY <2>2, <2>3, Zenon
  <2>7. \A j \in 1 .. size : Bytes(lines)[P[k] + j] = [line |-> lines[k], at |-> j]
    BY <2>3, <2>5, <2>6, Zenon
  <2>8. Bytes(lines)[P[k] + (size + 1)] = CR
    BY <2>3, <2>5, <2>6, Zenon
  <2>9. Bytes(lines)[P[k] + (size + 2)] = LF
    BY <2>3, <2>5, <2>6, Zenon
  <2>. QED
    BY <2>2, <2>4, <2>7, <2>8, <2>9 DEF size
<1>8. P[1] = 0 /\ P[n + 1] = Len(Bytes(lines))
  BY <1>6 DEF LaidOut
<1>. QED
  BY <1>5, <1>6, <1>7, <1>8, Zenon

\* Four sequences, one after the other.
FourParts(T, S, a, b, c, d) ==
    /\ T \in Seq(S)
    /\ Len(T) = Len(a) + Len(b) + Len(c) + Len(d)
    /\ \A j \in 1 .. Len(a) : T[j] = a[j]
    /\ \A j \in 1 .. Len(b) : T[Len(a) + j] = b[j]
    /\ Slice(T, Len(a) + Len(b) + Len(c), Len(T)) = d

LEMMA FourPartsInTurn ==
    ASSUME NEW S, NEW a \in Seq(S), NEW b \in Seq(S), NEW c \in Seq(S), NEW d \in Seq(S),
           NEW T, T = a \o b \o c \o d
    PROVE  FourParts(T, S, a, b, c, d)
<1> DEFINE ab == a \o b
           abc == ab \o c
<1>0. T = abc \o d
  OBVIOUS
<1>1. /\ ab \in Seq(S) /\ Len(ab) = Len(a) + Len(b)
      /\ \A j \in 1 .. Len(a) : ab[j] = a[j]
      /\ \A j \in 1 .. Len(b) : ab[Len(a) + j] = b[j]
  BY Concatenation
<1> HIDE DEF ab
<1>2. /\ abc \in Seq(S) /\ Len(abc) = Len(ab) + Len(c)
      /\ \A j \in 1 .. Len(ab) : abc[j] = ab[j]
  <2>1. ab \in Seq(S)
    BY <1>1
  <2>. QED
    BY <2>1, Concatenation
<1> HIDE DEF abc
<1>3. /\ T \in Seq(S) /\ Len(T) = Len(abc) + Len(d)
      /\ \A j \in 1 .. Len(abc) : T[j] = abc[j]
      /\ \A j \in 1 .. Len(d) : T[Len(abc) + j] = d[j]
  <2>1. abc \in Seq(S)
    BY <1>2
  <2>. QED
    BY <1>0, <2>1, Concatenation
<1>4. Len(a) \in Nat /\ Len(b) \in Nat /\ Len(c) \in Nat /\ Len(d) \in Nat
  OBVIOUS
<1>5. Len(abc) = Len(a) + Len(b) + Len(c) /\ Len(T) = Len(a) + Len(b) + Len(c) + Len(d)
  BY <1>1, <1>2, <1>3, <1>4
<1>6. \A j \in 1 .. Len(a) : T[j] = a[j]
  BY <1>1, <1>2, <1>3, <1>4, <1>5
<1>7. \A j \in 1 .. Len(b) : T[Len(a) + j] = b[j]
  <2> SUFFICES ASSUME NEW j \in 1 .. Len(b) PROVE T[Len(a) + j] = b[j]
    OBVIOUS
  <2>1. Len(a) + j \in 1 .. Len(ab) /\ Len(a) + j \in 1 .. Len(abc)
    BY <1>1, <1>4, <1>5
  <2>. QED
    BY <1>1, <1>2, <1>3, <2>1, Zenon
<1>8. Slice(T, Len(abc), Len(T)) = d
  <2>1. Len(T) - Len(abc) = Len(d) /\ Len(abc) \in Nat
    BY <1>4, <1>5
  <2>. QED
    BY <1>3, <2>1 DEF Slice
<1>. QED
  BY <1>3, <1>5, <1>6, <1>7, <1>8 DEF FourParts

\* That is the layout of what a client sends.
LEMMA Layout ==
    ASSUME NEW input \in Inputs
    PROVE  /\ StreamOf(input) \in Seq(StreamByte)
           /\ \E P : IsLayout(input, P)
<1> DEFINE lines == input.lines
           n == Len(lines)
           a == Bytes(lines)
           b == <<CR, LF>>
           c == [i \in 1 .. input.body |-> BodyByte]
           d == FramesOf(input)
           T == StreamOf(input)
<1>1. lines \in Seq(HeaderLine) /\ n \in Nat /\ input.body \in Nat
  BY InputType
<1>2. a \in Seq(StreamByte)
  BY <1>1, BytesLayOut DEF StreamByte
<1>3. b \in Seq(StreamByte) /\ Len(b) = 2 /\ b[1] = CR /\ b[2] = LF
  BY DEF CR, LF, StreamByte, HeaderByte
<1>4. c \in Seq(StreamByte) /\ Len(c) = input.body
  <2>1. BodyByte \in StreamByte
    BY DEF BodyByte, StreamByte, HeaderByte
  <2>. QED
    BY <1>1, <2>1
<1>5. d \in Seq(StreamByte)
  BY FramesOfType DEF StreamByte
<1>6. PICK P \in [1 .. n + 1 -> Nat] :
          /\ P[1] = 0 /\ P[n + 1] = Len(a)
          /\ \A k \in 1 .. n :
                /\ P[k + 1] = P[k] + lines[k].size + 2
                /\ P[k + 1] <= Len(a)
                /\ \A j \in 1 .. lines[k].size : a[P[k] + j] = [line |-> lines[k], at |-> j]
                /\ a[P[k] + (lines[k].size + 1)] = CR
                /\ a[P[k] + (lines[k].size + 2)] = LF
  BY <1>1, BytesLayOut
<1>7. T = a \o b \o c \o d
  BY DEF StreamOf
<1>8. \A k \in 1 .. n : lines[k] \in HeaderLine
  BY <1>1
<1> HIDE DEF a, b, c, d, T
<1>9. /\ T \in Seq(StreamByte)
      /\ Len(T) = Len(a) + Len(b) + Len(c) + Len(d)
      /\ \A j \in 1 .. Len(a) : T[j] = a[j]
      /\ \A j \in 1 .. Len(b) : T[Len(a) + j] = b[j]
      /\ Slice(T, Len(a) + Len(b) + Len(c), Len(T)) = d
  <2>1. b \in Seq(StreamByte) /\ c \in Seq(StreamByte)
    BY <1>3, <1>4
  <2>2. FourParts(T, StreamByte, a, b, c, d)
    BY <1>2, <1>5, <1>7, <2>1, FourPartsInTurn, Zenon
  <2>. QED
    BY <2>2 DEF FourParts
<1>10. Len(a) \in Nat /\ Len(d) \in Nat
  BY <1>2, <1>5
<1>11. HeaderSize(input) = Len(a) + 2
  BY DEF HeaderSize, a
<1>12. ASSUME NEW k \in 1 .. n
       PROVE  LET l == lines[k]
              IN /\ P[k + 1] = P[k] + l.size + 2
                 /\ P[k + 1] + 2 <= HeaderSize(input)
                 /\ \A j \in 1 .. l.size : T[P[k] + j] = [line |-> l, at |-> j]
                 /\ T[P[k] + (l.size + 1)] = CR /\ T[P[k] + (l.size + 2)] = LF
  <2> DEFINE size == lines[k].size
  <2>1. size \in Nat /\ P[k] \in Nat /\ P[k + 1] \in Nat
    BY <1>8, HeaderLineType
  <2>2. /\ P[k + 1] = P[k] + size + 2 /\ P[k + 1] <= Len(a)
        /\ \A j \in 1 .. size : a[P[k] + j] = [line |-> lines[k], at |-> j]
        /\ a[P[k] + (size + 1)] = CR /\ a[P[k] + (size + 2)] = LF
    BY <1>6, Zenon
  <2> HIDE DEF size, lines
  <2>3. \A j \in 1 .. size + 2 : P[k] + j \in 1 .. Len(a)
    <3>1. P[k + 1] = P[k] + size + 2 /\ P[k + 1] <= Len(a)
      BY <2>2
    <3>. QED
      BY <1>10, <2>1, <3>1, SMTT(60)
  <2>4. \A j \in 1 .. size + 2 : T[P[k] + j] = a[P[k] + j]
    BY <1>9, <2>3, Zenon
  <2>5. (\A j \in 1 .. size : j \in 1 .. size + 2) /\ size + 1 \in 1 .. size + 2 /\ size + 2 \in 1 .. size + 2
    BY <2>1
  <2>6. P[k + 1] + 2 <= HeaderSize(input)
    BY <1>10, <1>11, <2>1, <2>2
  <2>. QED
    BY <2>2, <2>4, <2>5, <2>6, Zenon DEF size
<1>13. T[Len(a) + 1] = CR /\ T[Len(a) + 2] = LF
  BY <1>3, <1>9
<1>14. /\ HeaderSize(input) + input.body <= Len(T)
       /\ Slice(T, HeaderSize(input) + input.body, Len(T)) = d
       /\ Len(d) = Len(T) - (HeaderSize(input) + input.body)
  <2>1. HeaderSize(input) + input.body = Len(a) + Len(b) + Len(c)
    BY <1>3, <1>4, <1>11
  <2>2. Len(b) \in Nat /\ Len(c) \in Nat
    BY <1>1, <1>3, <1>4
  <2>. QED
    BY <1>9, <1>10, <2>1, <2>2
<1>15. IsLayout(input, P)
  BY <1>6, <1>11, <1>12, <1>13, <1>14 DEF IsLayout, T, d
<1>. QED
  BY <1>9, <1>15 DEF T

At(input) == CHOOSE P : IsLayout(input, P)

LEMMA AtLayout == ASSUME NEW input \in Inputs PROVE IsLayout(input, At(input))
BY Layout DEF At

-----------------------------------------------------------------------------
(* The inductive invariant.                                                *)

\* What the client sends, and where the first line that is not processed begins in it.
Total == StreamOf(sent)
Begin == At(sent)[Len(headers) + 1]

\* The chunk and the stream are what has been read and is not consumed, and the rest.
Cut(a, b) ==
    /\ a <= b /\ b <= Len(Total)
    /\ chunk = Slice(Total, a, b)
    /\ stream = Slice(Total, b, Len(Total))

\* The lines that have been processed are the first ones, and in order.
LinesInv ==
    /\ Len(headers) \in 0 .. Len(sent.lines)
    /\ headers = Slice(sent.lines, 0, Len(headers))
    /\ \A i \in 1 .. Len(headers) :
          IF i = 1 THEN sent.lines[i].kind = "request" ELSE sent.lines[i].kind \in HeaderKinds

\* lineBuf has the bytes after them, as far as they have been read.
Buffered(a) ==
    /\ needed = 0 /\ body = 0
    /\ LinesInv
    /\ Begin <= a /\ lineBuf = Slice(Total, Begin, a)

\* A byte has been counted three times at most for the reads that end behind it, and
\* twice for its line.
Waiting(a) ==
    /\ status = "wait"
    /\ Buffered(a)
    /\ a < HeaderSize(sent)
    /\ headerBytes <= 3 * a + 2 * Begin
Looking(a, b) ==
    /\ status = "lines"
    /\ Buffered(a) /\ a = b
    /\ headerBytes <= 3 * (a - 1) + 2 * Begin
    /\ headerBytes <= 3 * (HeaderSize(sent) - 1) + 2 * Begin

\* The header has been read.
HeaderDone ==
    /\ IsGoodRequest(sent.lines)
    /\ headers = sent.lines
    /\ body + needed = Announced(sent.lines)
InBody(a) == status = "wait" /\ needed > 0 /\ HeaderDone /\ a = HeaderSize(sent) + body
AtEnd(a) == status = "ready" /\ a = HeaderSize(sent) + body

IInv ==
    /\ sent \in Inputs
    /\ headerBytes \in Nat /\ needed \in Nat /\ body \in Nat
    /\ upgraded \in BOOLEAN
    /\ status \in {"wait", "lines", "ready", "refused"}
    /\ upgraded => status = "ready"
    /\ status = "ready" => HeaderDone /\ needed = 0
    /\ status = "refused" => ~ IsGoodRequest(sent.lines)
    /\ status # "refused" /\ ~ upgraded =>
          \E a, b \in Nat : Cut(a, b) /\ (Waiting(a) \/ Looking(a, b) \/ InBody(a) \/ AtEnd(a))

-----------------------------------------------------------------------------
(* The next line.                                                          *)

\* Its size; after the last line, that of the blank one.
NextSize == IF Len(headers) < Len(sent.lines) THEN sent.lines[Len(headers) + 1].size ELSE 0

\* No byte of it is a CR, and CR LF follow.
LEMMA NextLine ==
    ASSUME sent \in Inputs, LinesInv
    PROVE  /\ Total \in Seq(StreamByte) /\ Len(Total) \in Nat
           /\ Begin \in Nat /\ NextSize \in Nat /\ HeaderSize(sent) \in Nat
           /\ Begin + NextSize + 2 <= HeaderSize(sent)
           /\ HeaderSize(sent) + sent.body <= Len(Total)
           /\ \A j \in 1 .. NextSize : Total[Begin + j] # CR
           /\ Total[Begin + (NextSize + 1)] = CR /\ Total[Begin + (NextSize + 2)] = LF
<1> DEFINE n == Len(sent.lines)
           k == Len(headers)
           P == At(sent)
<1>1. n \in Nat /\ k \in 0 .. n /\ k + 1 \in 1 .. n + 1
  BY InputType DEF LinesInv
<1>2. Total \in Seq(StreamByte)
  BY Layout DEF Total
<1>3. IsLayout(sent, P)
  BY AtLayout
<1>4. P \in [1 .. n + 1 -> Nat] /\ P[n + 1] + 2 = HeaderSize(sent)
  BY <1>3 DEF IsLayout
<1>5. Begin = P[k + 1] /\ Begin \in Nat /\ HeaderSize(sent) \in Nat
  <2> HIDE DEF P
  <2>1. P[k + 1] \in Nat /\ P[n + 1] \in Nat
    BY <1>1, <1>4
  <2>. QED
    BY <1>4, <2>1 DEF Begin, P
<1>6. HeaderSize(sent) + sent.body <= Len(Total)
  BY <1>3 DEF IsLayout, Total
<1>7. CASE k < n
  <2> DEFINE l == sent.lines[k + 1]
  <2>1. l \in HeaderLine /\ k + 1 \in 1 .. n
    BY <1>1, <1>7, InputType
  <2>2. NextSize = l.size /\ l.size \in Nat
    BY <1>7, <2>1, HeaderLineType DEF NextSize
  <2>3. /\ P[(k + 1) + 1] = P[k + 1] + l.size + 2
        /\ P[(k + 1) + 1] + 2 <= HeaderSize(sent)
        /\ \A j \in 1 .. l.size : Total[P[k + 1] + j] = [line |-> l, at |-> j]
        /\ Total[P[k + 1] + (l.size + 1)] = CR /\ Total[P[k + 1] + (l.size + 2)] = LF
    BY <1>3, <2>1, Zenon DEF IsLayout, Total
  <2>4. \A j \in 1 .. l.size : [line |-> l, at |-> j] # CR
    <3>1. l.kind # "delimiter"
      BY <2>1, HeaderLineType
    <3>. QED
      BY <3>1 DEF CR
  <2>5. Begin + NextSize + 2 <= HeaderSize(sent)
    <3>1. P[(k + 1) + 1] = Begin + NextSize + 2 /\ P[(k + 1) + 1] + 2 <= HeaderSize(sent)
      BY <1>5, <2>2, <2>3
    <3>. QED
      BY <1>5, <2>2, <3>1
  <2>6. \A j \in 1 .. NextSize : Total[Begin + j] # CR
    BY <1>5, <2>2, <2>3, <2>4, Zenon
  <2>7. Total[Begin + (NextSize + 1)] = CR /\ Total[Begin + (NextSize + 2)] = LF
    BY <1>5, <2>2, <2>3, Zenon
  <2> HIDE DEF l, P
  <2>. QED
    BY <1>2, <1>5, <1>6, <2>2, <2>5, <2>6, <2>7
<1>8. CASE ~ (k < n)
  <2>1. k = n /\ NextSize = 0
    BY <1>1, <1>8 DEF NextSize
  <2>2. Total[P[n + 1] + 1] = CR /\ Total[P[n + 1] + 2] = LF
    BY <1>3 DEF IsLayout, Total
  <2>3. Begin = P[n + 1]
    BY <1>5, <2>1
  <2>4. Total[Begin + (NextSize + 1)] = CR /\ Total[Begin + (NextSize + 2)] = LF
    BY <2>1, <2>2, <2>3
  <2>5. Begin + NextSize + 2 <= HeaderSize(sent)
    <3>1. Begin + 2 = HeaderSize(sent)
      BY <1>4, <2>3
    <3>. QED
      BY <1>5, <2>1, <3>1
  <2> HIDE DEF P
  <2>. QED
    BY <1>2, <1>5, <1>6, <2>1, <2>4, <2>5
<1>. QED
  BY <1>7, <1>8

\* Delimiters finds the end of the next line, once it has been read, and nothing before.
LEMMA FirstDelimiter ==
    ASSUME sent \in Inputs, LinesInv, NEW a \in Nat, Buffered(a), a <= Len(Total)
    PROVE  /\ Delimiters = {} => a < Begin + NextSize + 2
           /\ Delimiters # {} => /\ Begin + NextSize + 2 <= a
                                 /\ Line = Slice(Total, Begin, Begin + NextSize)
                                 /\ Rest = Slice(Total, Begin + NextSize + 2, a)
           /\ Len(lineBuf) = a - Begin
<1> DEFINE p == Begin
           z == NextSize
           T == Total
<1>1. /\ T \in Seq(StreamByte) /\ Len(T) \in Nat /\ p \in Nat /\ z \in Nat
      /\ \A j \in 1 .. z : T[p + j] # CR
      /\ T[p + (z + 1)] = CR /\ T[p + (z + 2)] = LF
  BY NextLine
<1>2. p <= a /\ lineBuf = Slice(T, p, a)
  BY DEF Buffered
<1> HIDE DEF p, z, T
<1>3. /\ lineBuf \in Seq(StreamByte) /\ Len(lineBuf) = a - p
      /\ \A i \in 1 .. a - p : lineBuf[i] = T[p + i]
  <2>1. a <= Len(T)
    BY DEF T
  <2>. QED
    BY <1>1, <1>2, <2>1, SliceIsSeq, ZenonT(60)
<1>4. \A i \in Delimiters : i \in Nat /\ i + 1 <= a - p /\ z + 1 <= i
  <2> SUFFICES ASSUME NEW i \in Delimiters PROVE i \in Nat /\ i + 1 <= a - p /\ z + 1 <= i
    OBVIOUS
  <2>1. i \in 1 .. (a - p) - 1 /\ lineBuf[i] = CR
    BY <1>3 DEF Delimiters
  <2>2. i \in 1 .. a - p
    BY <1>1, <2>1
  <2>3. T[p + i] = CR
    BY <1>3, <2>1, <2>2
  <2>4. i \notin 1 .. z
    BY <1>1, <2>3
  <2>. QED
    BY <1>1, <2>1, <2>4
<1>5. CASE a < p + z + 2
  <2>1. Delimiters = {}
    <3> SUFFICES ASSUME NEW i \in Delimiters PROVE FALSE
      OBVIOUS
    <3>. QED
      BY <1>1, <1>4, <1>5
  <2>. QED
    BY <1>3, <1>5, <2>1 DEF p, z
<1>6. CASE ~ (a < p + z + 2)
  <2>1. z + 1 \in 1 .. (a - p) - 1 /\ z + 1 \in 1 .. a - p /\ z + 2 \in 1 .. a - p /\ (z + 1) + 1 = z + 2
    BY <1>1, <1>6
  <2>2. lineBuf[z + 1] = CR /\ lineBuf[z + 2] = LF
    BY <1>1, <1>3, <2>1
  <2>3. z + 1 \in Delimiters
    BY <1>3, <2>1, <2>2 DEF Delimiters
  <2>4. Delimiters \in SUBSET Nat
    BY <1>4
  <2>5. Min(Delimiters) \in Delimiters /\ Min(Delimiters) <= z + 1
    BY <2>3, <2>4, MinIsLeast
  <2>6. Min(Delimiters) = z + 1
    BY <1>1, <1>4, <2>5
  <2>7. /\ (z + 1) - 1 = z /\ (z + 1) + 2 = (z + 2) + 1
        /\ 0 \in Nat /\ 0 <= z /\ z <= a - p /\ z + 2 \in Nat /\ z + 2 <= a - p /\ a - p \in Nat
        /\ p + 0 = p /\ p + (a - p) = a /\ p + (z + 2) = p + z + 2 /\ 0 + 1 = 1
    BY <1>1, <2>1
  <2>8. a <= Len(T)
    BY DEF T
  <2>9. Line = Slice(T, p, p + z)
    <3>1. Line = SubSeq(lineBuf, 0 + 1, z)
      BY <2>6, <2>7 DEF Line
    <3>2. SubSeq(Slice(T, p, a), 0 + 1, z) = Slice(T, p + 0, p + z)
      <4>1. /\ T \in Seq(StreamByte) /\ p \in Nat /\ p <= a /\ a <= Len(T)
            /\ 0 \in Nat /\ z \in Nat /\ 0 <= z /\ z <= a - p
        BY <1>1, <1>2, <2>7, <2>8
      <4>. QED
        BY <4>1 DEF Slice
    <3>. QED
      BY <1>2, <2>7, <3>1, <3>2
  <2>10. Rest = Slice(T, p + z + 2, a)
    <3>1. Rest = SubSeq(lineBuf, (z + 2) + 1, a - p)
      BY <1>3, <2>6, <2>7 DEF Rest
    <3>2. SubSeq(Slice(T, p, a), (z + 2) + 1, a - p) = Slice(T, p + (z + 2), p + (a - p))
      <4> DEFINE i == z + 2
                 j == a - p
      <4>1. /\ T \in Seq(StreamByte) /\ p \in Nat /\ p <= a /\ a <= Len(T)
            /\ i \in Nat /\ j \in Nat /\ i <= j /\ j <= a - p
        BY <1>1, <1>2, <2>7, <2>8
      <4> HIDE DEF i, j
      <4>2. SubSeq(Slice(T, p, a), i + 1, j) = Slice(T, p + i, p + j)
        BY <4>1 DEF Slice
      <4>. QED
        BY <4>2 DEF i, j
    <3>. QED
      BY <1>2, <2>7, <3>1, <3>2
  <2>11. p + z + 2 <= a
    BY <1>1, <1>6
  <2>. QED
    BY <1>3, <2>3, <2>9, <2>10, <2>11 DEF p, z, T
<1>. QED
  BY <1>5, <1>6

-----------------------------------------------------------------------------
(* The invariant is inductive.                                             *)

LEMMA TotalType ==
    ASSUME sent \in Inputs
    PROVE  Total \in Seq(StreamByte) /\ Len(Total) \in Nat
<1>1. Total \in Seq(StreamByte)
  BY Layout DEF Total
<1>. QED
  BY <1>1

LEMMA InitIInv == Init => IInv
<1> SUFFICES ASSUME Init PROVE IInv
  OBVIOUS
<1> USE DEF Init, RequestInit
<1>1. sent \in Inputs /\ Total \in Seq(StreamByte) /\ Len(Total) \in Nat
  BY TotalType
<1>2. sent.lines \in Seq(HeaderLine) /\ Len(sent.lines) \in Nat
  BY InputType
<1>3. Len(headers) = 0
  OBVIOUS
<1>4. LinesInv
  <2>1. Slice(sent.lines, 0, 0) = <<>>
    BY DEF Slice
  <2>. QED
    BY <1>2, <1>3, <2>1 DEF LinesInv
<1>5. Begin = 0
  <2>1. IsLayout(sent, At(sent))
    BY AtLayout
  <2>. QED
    BY <1>3, <2>1 DEF IsLayout, Begin
<1>6. 0 < HeaderSize(sent)
  BY <1>4, <1>5, NextLine
<1>7. Slice(Total, 0, 0) = <<>> /\ Slice(Total, 0, Len(Total)) = Total
  BY <1>1 DEF Slice
<1>8. Cut(0, 0)
  BY <1>1, <1>7 DEF Cut, Total
<1>9. Waiting(0)
  BY <1>4, <1>5, <1>6, <1>7 DEF Waiting, Buffered
<1>. QED
  BY <1>8, <1>9 DEF IInv

\* What the connection is doing, from its status.
LEMMA Phase ==
    ASSUME IInv, status \in {"wait", "lines"}
    PROVE  /\ ~ upgraded /\ sent \in Inputs
           /\ \E a, b \in Nat : Cut(a, b) /\ (Waiting(a) \/ Looking(a, b) \/ InBody(a))
BY DEF IInv, AtEnd

LEMMA ReadKeepsIInv == ASSUME IInv, Read PROVE IInv'
<1> USE DEF Read
<1>1. UNCHANGED <<sent, upgraded, requestOnly>>
  OBVIOUS
<1>2. CASE upgraded
  BY <1>1, <1>2 DEF IInv, HeaderDone, requestOnly
<1>3. CASE ~ upgraded
  <2>1. status = "wait" /\ chunk = <<>>
    BY <1>3 DEF WantsBytes
  <2>2. PICK a \in Nat, b \in Nat : Cut(a, b) /\ (Waiting(a) \/ InBody(a))
    BY <2>1, Phase DEF Looking
  <2>3. Total \in Seq(StreamByte) /\ Len(Total) \in Nat
    BY TotalType DEF IInv
  <2>4. a <= b /\ b <= Len(Total) /\ chunk = Slice(Total, a, b) /\ stream = Slice(Total, b, Len(Total))
    BY <2>2 DEF Cut
  <2>5. Len(chunk) = b - a /\ Len(stream) = Len(Total) - b
    BY <2>3, <2>4 DEF Slice
  <2>6. a = b
    <3>1. Len(chunk) = 0
      BY <2>1
    <3>. QED
      BY <2>5, <3>1
  <2>7. PICK n \in 1 .. Len(stream) :
            chunk' = SubSeq(stream, 1, n) /\ stream' = SubSeq(stream, n + 1, Len(stream))
    OBVIOUS
  <2>8. /\ n \in Nat /\ b + n <= Len(Total) /\ a <= b + n /\ b + n \in Nat
        /\ n <= Len(Total) - b
    BY <2>3, <2>4, <2>5, <2>6, <2>7
  <2>9. chunk' = Slice(Total, a, b + n)
    <3>1. SubSeq(Slice(Total, b, Len(Total)), 1, n) = Slice(Total, b, b + n)
      BY <2>3, <2>4, <2>8 DEF Slice
    <3>. QED
      BY <2>4, <2>6, <2>7, <3>1
  <2>10. stream' = Slice(Total, b + n, Len(Total))
    <3> DEFINE z == Len(Total) - b
    <3>1. z \in Nat /\ b + z = Len(Total) /\ n <= z
      BY <2>3, <2>4, <2>8
    <3> HIDE DEF z
    <3>2. SubSeq(Slice(Total, b, b + z), n + 1, z) = Slice(Total, b + n, b + z)
      BY <2>3, <2>4, <2>8, <3>1 DEF Slice
    <3>3. Len(stream) = z
      BY <2>5 DEF z
    <3>. QED
      BY <2>4, <2>7, <3>1, <3>2, <3>3
  <2>11. Total' = Total
    BY <1>1 DEF Total
  <2>12. Cut(a, b + n)'
    BY <2>8, <2>9, <2>10, <2>11 DEF Cut
  <2>13. (Waiting(a) \/ InBody(a))'
    BY <1>1, <2>2, <2>11
       DEF requestOnly, Waiting, InBody, Buffered, LinesInv, Begin, HeaderDone
  <2>. QED
    BY <1>1, <1>3, <2>1, <2>8, <2>12, <2>13 DEF IInv, requestOnly
<1>. QED
  BY <1>2, <1>3

LEMMA TakeLinesKeepsIInv ==
    ASSUME IInv, TakeLines, UNCHANGED <<sent, stream, upgraded>>
    PROVE  IInv'
<1> USE DEF TakeLines
<1>1. PICK a \in Nat, b \in Nat : Cut(a, b) /\ Waiting(a)
  BY Phase DEF Looking, InBody
<1>2. Total \in Seq(StreamByte) /\ Len(Total) \in Nat /\ Begin \in Nat /\ HeaderSize(sent) \in Nat
  BY <1>1, NextLine DEF IInv, Waiting, Buffered
<1>3. a <= b /\ b <= Len(Total) /\ chunk = Slice(Total, a, b) /\ stream = Slice(Total, b, Len(Total))
  BY <1>1 DEF Cut
<1>4. a # b
  <2>1. Slice(Total, a, a) = <<>>
    BY <1>2 DEF Slice
  <2>. QED
    BY <1>3, <2>1
<1>5. Begin <= a /\ lineBuf = Slice(Total, Begin, a) /\ needed = 0 /\ LinesInv
  BY <1>1 DEF Waiting, Buffered
<1>6. lineBuf' = Slice(Total, Begin, b)
  BY <1>2, <1>3, <1>5, Slices, ZenonT(60)
<1>7. Total' = Total /\ Begin' = Begin /\ LinesInv' /\ HeaderSize(sent)' = HeaderSize(sent)
  BY <1>5 DEF Total, Begin, LinesInv
<1>8. Cut(b, b)'
  <2>1. Slice(Total, b, b) = <<>>
    BY <1>2 DEF Slice
  <2>. QED
    BY <1>3, <1>7, <2>1 DEF Cut
<1>9. Looking(b, b)'
  <2>1. Buffered(b)'
    BY <1>1, <1>2, <1>3, <1>5, <1>6, <1>7 DEF Buffered, Waiting
  <2>2. /\ headerBytes <= 3 * (b - 1) + 2 * Begin
        /\ headerBytes <= 3 * (HeaderSize(sent) - 1) + 2 * Begin
    <3>1. headerBytes <= 3 * a + 2 * Begin /\ a < HeaderSize(sent) /\ headerBytes \in Nat
      BY <1>1 DEF Waiting, IInv
    <3>. QED
      BY <1>2, <1>3, <1>4, <3>1
  <2>. QED
    BY <1>7, <2>1, <2>2 DEF Looking
<1>. QED
  BY <1>8, <1>9, Phase DEF IInv

LEMMA TakeBodyKeepsIInv ==
    ASSUME IInv, TakeBody, UNCHANGED <<sent, stream, upgraded>>
    PROVE  IInv'
<1> USE DEF TakeBody
<1>1. PICK a \in Nat, b \in Nat : Cut(a, b) /\ InBody(a)
  BY Phase DEF Looking, Waiting, Buffered
<1>2. /\ Total \in Seq(StreamByte) /\ Len(Total) \in Nat
      /\ sent \in Inputs /\ needed \in Nat /\ body \in Nat /\ ~ upgraded
  BY TotalType, Phase DEF IInv
<1>3. a <= b /\ b <= Len(Total) /\ chunk = Slice(Total, a, b) /\ stream = Slice(Total, b, Len(Total))
  BY <1>1 DEF Cut
<1>4. Len(chunk) = b - a /\ b - a \in Nat
  BY <1>2, <1>3 DEF Slice
<1>5. PICK n \in Nat : /\ n <= needed /\ n <= b - a
                       /\ body' = body + n /\ needed' = needed - n
                       /\ chunk' = SubSeq(chunk, n + 1, Len(chunk))
  <2> DEFINE m == Min({needed, Len(chunk)})
  <2>1. {needed, Len(chunk)} \in SUBSET Nat /\ {needed, Len(chunk)} # {}
    BY <1>2, <1>4
  <2>2. m \in {needed, Len(chunk)} /\ m <= needed /\ m <= Len(chunk)
    BY <2>1, MinIsLeast
  <2>3. body' = body + m /\ needed' = needed - m /\ chunk' = SubSeq(chunk, m + 1, Len(chunk))
    OBVIOUS
  <2> HIDE DEF m
  <2>. QED
    BY <1>2, <1>4, <2>2, <2>3
<1>6. body' = body + n /\ needed' = needed - n /\ chunk' = SubSeq(chunk, n + 1, Len(chunk))
  BY <1>5
<1> HIDE DEF TakeBody
<1>7. Total' = Total /\ stream' = stream
  BY DEF Total
<1>8. Cut(a + n, b)'
  <2> DEFINE z == b - a
  <2>1. z \in Nat /\ a + z = b /\ Len(chunk) = z /\ n <= z
    BY <1>3, <1>4, <1>5
  <2> HIDE DEF z
  <2>2. SubSeq(Slice(Total, a, a + z), n + 1, z) = Slice(Total, a + n, a + z)
    BY <1>2, <1>3, <1>5, <2>1 DEF Slice
  <2>3. chunk' = Slice(Total, a + n, b)
    BY <1>3, <1>6, <2>1, <2>2
  <2>4. a + n <= b
    BY <1>5, <2>1
  <2>. QED
    BY <1>3, <1>7, <2>3, <2>4 DEF Cut
<1>9. HeaderDone' /\ needed' \in Nat /\ body' \in Nat
  <2>1. needed' \in Nat /\ body' \in Nat /\ body' + needed' = body + needed
    BY <1>2, <1>5, <1>6
  <2>2. HeaderDone
    BY <1>1 DEF InBody
  <2>3. UNCHANGED <<sent, headers>>
    BY DEF TakeBody
  <2>. QED
    BY <2>1, <2>2, <2>3 DEF HeaderDone
<1>10. a + n = HeaderSize(sent) + body'
  <2>1. a = HeaderSize(sent) + body
    BY <1>1 DEF InBody
  <2>2. HeaderSize(sent) \in Nat
    <3>1. Len(Bytes(sent.lines)) \in Nat
      BY <1>2, InputType, BytesLayOut
    <3>. QED
      BY <3>1 DEF HeaderSize
  <2>. QED
    BY <1>2, <1>5, <1>6, <2>1, <2>2
<1>11. (InBody(a + n) \/ AtEnd(a + n))'
  <2>1. sent' = sent /\ status' = IF needed' = 0 THEN "ready" ELSE "wait"
    BY DEF TakeBody
  <2>2. needed' = 0 \/ needed' > 0
    BY <1>9
  <2>3. HeaderSize(sent)' = HeaderSize(sent)
    BY <2>1
  <2>. QED
    BY <1>9, <1>10, <2>1, <2>2, <2>3 DEF InBody, AtEnd
<1>12. a + n \in Nat
  BY <1>5
<1>13. /\ status' \in {"wait", "ready"} /\ (status' = "ready" => needed' = 0)
       /\ UNCHANGED <<sent, upgraded, headerBytes>>
  BY DEF TakeBody
<1>. QED
  BY <1>2, <1>8, <1>9, <1>11, <1>12, <1>13 DEF IInv

\* No more delimiters: within the header, so little has been counted that a request that
\* is in order is not refused.
LEMMA OutOfLinesKeepsIInv ==
    ASSUME HeadersFit, IInv, OutOfLines, UNCHANGED <<sent, stream, upgraded>>
    PROVE  IInv'
<1> USE DEF OutOfLines
<1>1. PICK a \in Nat, b \in Nat : Cut(a, b) /\ Looking(a, b)
  BY Phase DEF Waiting, InBody
<1>2. sent \in Inputs /\ ~ upgraded /\ headerBytes \in Nat
  BY Phase DEF IInv
<1>3. LinesInv /\ Buffered(a) /\ a = b /\ a <= Len(Total) /\ Begin <= a
  BY <1>1 DEF Looking, Buffered, Cut
<1>4. /\ Begin \in Nat /\ NextSize \in Nat /\ HeaderSize(sent) \in Nat
      /\ Begin + NextSize + 2 <= HeaderSize(sent)
  BY <1>2, <1>3, NextLine
<1>5. a < Begin + NextSize + 2 /\ Len(lineBuf) = a - Begin
  BY <1>2, <1>3, FirstDelimiter
<1>6. headerBytes <= 3 * (a - 1) + 2 * Begin
  BY <1>1 DEF Looking
<1>7. CASE headerBytes + Counted(Len(lineBuf)) > MaxHeader
  <2>1. ~ IsGoodRequest(sent.lines)
    <3> SUFFICES ASSUME IsGoodRequest(sent.lines) PROVE FALSE
      OBVIOUS
    <3>1. 5 * HeaderSize(sent) <= MaxHeader
      BY <1>2 DEF HeadersFit
    <3>2. headerBytes + ((a - Begin) + 3) <= 5 * HeaderSize(sent)
      BY <1>2, <1>3, <1>4, <1>5, <1>6
    <3>3. headerBytes + ((a - Begin) + 3) > MaxHeader
      BY <1>5, <1>7 DEF Counted
    <3>. QED
      BY <1>2, <1>3, <1>4, <3>1, <3>2, <3>3, LimitsAssumption
  <2>2. headerBytes' \in Nat
    <3>1. headerBytes' = headerBytes + ((a - Begin) + 3)
      BY <1>5, <1>7 DEF Counted
    <3>. QED
      BY <1>2, <1>3, <1>4, <3>1
  <2>. QED
    BY <1>2, <1>7, <2>1, <2>2 DEF IInv, Refuse
<1>8. CASE ~ (headerBytes + Counted(Len(lineBuf)) > MaxHeader)
  <2>1. /\ headerBytes' = headerBytes + 3 /\ status' = "wait"
        /\ UNCHANGED <<chunk, lineBuf, headers, needed, body>>
    BY <1>8 DEF Counted
  <2>2. Total' = Total /\ Begin' = Begin /\ HeaderSize(sent)' = HeaderSize(sent)
    BY <2>1 DEF Total, Begin
  <2>3. Cut(a, b)'
    BY <1>1, <2>1, <2>2 DEF Cut
  <2>4. Waiting(a)'
    <3>1. Buffered(a)'
      BY <1>3, <2>1, <2>2 DEF Buffered, LinesInv
    <3>2. a < HeaderSize(sent) /\ headerBytes + 3 <= 3 * a + 2 * Begin
      BY <1>2, <1>4, <1>5, <1>6
    <3>. QED
      BY <2>1, <2>2, <3>1, <3>2 DEF Waiting
  <2>5. headerBytes' \in Nat
    BY <1>2, <2>1
  <2>. QED
    BY <1>2, <2>1, <2>3, <2>4, <2>5 DEF IInv
<1>. QED
  BY <1>7, <1>8

\* The bytes of the next line, and where the one after it begins.
LEMMA NextLineIsNext ==
    ASSUME sent \in Inputs, LinesInv, Len(headers) < Len(sent.lines)
    PROVE  LET k == Len(headers)
               l == sent.lines[k + 1]
           IN /\ k \in Nat /\ k + 1 \in 1 .. Len(sent.lines) /\ l \in HeaderLine
              /\ NextSize = l.size /\ NextSize \in Nat /\ NextSize # 0
              /\ Slice(Total, Begin, Begin + NextSize) = LineBytes(l)
              /\ At(sent)[(k + 1) + 1] = Begin + NextSize + 2
<1> DEFINE n == Len(sent.lines)
           k == Len(headers)
           l == sent.lines[k + 1]
           P == At(sent)
<1>1. n \in Nat /\ k \in Nat /\ k + 1 \in 1 .. n /\ l \in HeaderLine
  BY InputType DEF LinesInv
<1>2. NextSize = l.size /\ l.size \in Nat /\ l.size # 0
  BY <1>1, HeaderLineType DEF NextSize
<1>3. IsLayout(sent, P)
  BY AtLayout
<1>4. /\ P[(k + 1) + 1] = P[k + 1] + l.size + 2
      /\ \A j \in 1 .. l.size : Total[P[k + 1] + j] = [line |-> l, at |-> j]
  BY <1>1, <1>3, Zenon DEF IsLayout, Total
<1>5. Begin = P[k + 1] /\ Begin \in Nat
  BY NextLine DEF Begin
<1>6. Slice(Total, Begin, Begin + NextSize) = LineBytes(l)
  <2>1. \A j \in 1 .. l.size : Total[Begin + j] = [line |-> l, at |-> j]
    BY <1>4, <1>5
  <2>2. (Begin + NextSize) - Begin = l.size
    BY <1>2, <1>5
  <2> HIDE DEF l
  <2>3. Slice(Total, Begin, Begin + NextSize) = [j \in 1 .. l.size |-> Total[Begin + j]]
    BY <2>2 DEF Slice
  <2>4. LineBytes(l) = [j \in 1 .. l.size |-> [line |-> l, at |-> j]]
    BY DEF LineBytes
  <2>. QED
    BY <2>1, <2>3, <2>4
<1>7. P[(k + 1) + 1] = Begin + NextSize + 2
  BY <1>2, <1>4, <1>5
<1> HIDE DEF P, l
<1>. QED
  BY <1>1, <1>2, <1>6, <1>7 DEF P, l

\* A request in which this line is out of place is not in order.
LEMMA BadLineMeansBadRequest ==
    ASSUME sent \in Inputs, NEW i \in 1 .. Len(sent.lines),
           IF i = 1 THEN sent.lines[i].kind # "request" ELSE sent.lines[i].kind \notin HeaderKinds
    PROVE  ~ IsGoodRequest(sent.lines)
<1>1. DOMAIN sent.lines = 1 .. Len(sent.lines) /\ Len(sent.lines) \in Nat
  BY InputType
<1>2. CASE i = 1
  BY <1>1, <1>2 DEF IsGoodRequest, KindAmong
<1>3. CASE i # 1
  <2>1. i \in 2 .. Len(sent.lines)
    BY <1>1, <1>3
  <2>. QED
    BY <1>1, <1>3, <2>1 DEF IsGoodRequest, KindAmong
<1>. QED
  BY <1>2, <1>3

LEMMA ProcessLineKeepsIInv ==
    ASSUME HeadersFit, IInv, ProcessLine, UNCHANGED <<sent, stream, upgraded>>
    PROVE  IInv'
<1> DEFINE k == Len(headers)
           n == Len(sent.lines)
           l == sent.lines[k + 1]
<1>1. PICK a \in Nat, b \in Nat : Cut(a, b) /\ Looking(a, b)
  BY Phase DEF ProcessLine, Waiting, InBody
<1>2. sent \in Inputs /\ ~ upgraded /\ headerBytes \in Nat
  BY Phase DEF IInv, ProcessLine
<1>3. LinesInv /\ Buffered(a) /\ a = b /\ a <= Len(Total) /\ Begin <= a
  BY <1>1 DEF Looking, Buffered, Cut
<1>4. /\ Begin \in Nat /\ NextSize \in Nat /\ HeaderSize(sent) \in Nat
      /\ Begin + NextSize + 2 <= HeaderSize(sent)
      /\ Total \in Seq(StreamByte) /\ Len(Total) \in Nat
  BY <1>2, <1>3, NextLine
<1>5. /\ Begin + NextSize + 2 <= a
      /\ Line = Slice(Total, Begin, Begin + NextSize)
      /\ Rest = Slice(Total, Begin + NextSize + 2, a)
  BY <1>2, <1>3, FirstDelimiter DEF ProcessLine
<1>6. k < n
  <2> SUFFICES ASSUME ~ (k < n) PROVE FALSE
    OBVIOUS
  <2>1. NextSize = 0
    BY DEF NextSize
  <2>2. Slice(Total, Begin, Begin + 0) = <<>>
    BY <1>4 DEF Slice
  <2>. QED
    BY <1>5, <2>1, <2>2 DEF ProcessLine
<1>7. /\ k \in Nat /\ k + 1 \in 1 .. n /\ l \in HeaderLine
      /\ NextSize = l.size /\ NextSize # 0
      /\ Line = LineBytes(l)
      /\ At(sent)[(k + 1) + 1] = Begin + NextSize + 2
  BY <1>2, <1>3, <1>5, <1>6, NextLineIsNext
<1>8. Len(Line) = NextSize /\ Line[1].line = l
  <2> HIDE DEF l
  <2>. QED
    BY <1>4, <1>7 DEF LineBytes
<1>9. headerBytes' = headerBytes + (NextSize + 3)
  BY <1>8 DEF ProcessLine, Counted
<1>10. headerBytes' \in Nat
  BY <1>2, <1>4, <1>9
<1>11. headers = <<>> <=> k + 1 = 1
  <2>1. headers = Slice(sent.lines, 0, k)
    BY <1>3 DEF LinesInv
  <2>2. Slice(sent.lines, 0, 0) = <<>>
    BY DEF Slice
  <2>. QED
    BY <1>7, <2>1, <2>2
<1> DEFINE fits == headerBytes' <= MaxHeader
           fine == IF k + 1 = 1 THEN l.kind = "request" ELSE l.kind \in HeaderKinds
<1>12. (IF headers = <<>> THEN IsRequestLine(Line) ELSE IsHeader(Line)) <=> fine
  <2>1. IsRequestLine(Line) <=> l.kind = "request"
    BY <1>7, <1>8 DEF IsRequestLine
  <2>2. IsHeader(Line) <=> l.kind \in HeaderKinds
    BY <1>7, <1>8 DEF IsHeader, HeaderKinds
  <2>. QED
    BY <1>11, <2>1, <2>2
<1>13. IF fits /\ fine
         THEN headers' = Append(headers, l) /\ lineBuf' = Rest /\ UNCHANGED <<chunk, needed, body, status>>
         ELSE Refuse
  BY <1>8, <1>12 DEF ProcessLine
<1>14. /\ headerBytes <= 3 * (a - 1) + 2 * Begin
       /\ headerBytes <= 3 * (HeaderSize(sent) - 1) + 2 * Begin
  BY <1>1 DEF Looking
<1>15. CASE ~ (fits /\ fine)
  <2>1. ~ IsGoodRequest(sent.lines)
    <3>1. CASE ~ fine
      BY <1>2, <1>7, <3>1, BadLineMeansBadRequest
    <3>2. CASE ~ fits
      <4> SUFFICES ASSUME IsGoodRequest(sent.lines) PROVE FALSE
        OBVIOUS
      <4>1. 5 * HeaderSize(sent) <= MaxHeader
        BY <1>2 DEF HeadersFit
      <4>2. headerBytes + (NextSize + 3) <= 5 * HeaderSize(sent)
        BY <1>2, <1>4, <1>14
      <4>. QED
        BY <1>4, <1>9, <1>10, <3>2, <4>1, <4>2, LimitsAssumption
    <3>. QED
      BY <1>15, <3>1, <3>2
  <2>2. Refuse
    BY <1>13, <1>15
  <2>. QED
    BY <1>2, <1>10, <2>1, <2>2 DEF IInv, Refuse
<1>16. CASE fits /\ fine
  <2>1. headers' = Append(headers, l) /\ lineBuf' = Rest /\ UNCHANGED <<chunk, needed, body, status>>
    BY <1>13, <1>16
  <2>2. Total' = Total /\ HeaderSize(sent)' = HeaderSize(sent) /\ sent' = sent
    BY DEF Total
  <2>3. sent.lines \in Seq(HeaderLine) /\ headers = Slice(sent.lines, 0, k)
    BY <1>2, <1>3, InputType DEF LinesInv
  <2>4. Len(headers') = k + 1 /\ headers' = Slice(sent.lines, 0, k + 1)
    <3> DEFINE lines == sent.lines
    <3>1. lines \in Seq(HeaderLine) /\ k + 1 <= Len(lines)
      BY <1>7, <2>3
    <3> HIDE DEF lines, k
    <3>2. Append(Slice(lines, 0, k), lines[k + 1]) = Slice(lines, 0, k + 1) /\ Len(Slice(lines, 0, k + 1)) = k + 1
      BY <1>7, <3>1 DEF Slice
    <3>. QED
      BY <2>1, <2>3, <3>2 DEF lines
  <2>5. Begin' = Begin + NextSize + 2
    BY <1>7, <2>2, <2>4 DEF Begin
  <2>6. LinesInv'
    <3>1. k + 1 \in 0 .. n
      BY <1>7
    <3>2. ASSUME NEW i \in 1 .. k + 1
          PROVE  IF i = 1 THEN sent.lines[i].kind = "request" ELSE sent.lines[i].kind \in HeaderKinds
      <4>1. CASE i = k + 1
        BY <1>16, <4>1
      <4>2. CASE i # k + 1
        <5>1. i \in 1 .. k
          BY <1>7, <4>2
        <5>. QED
          BY <1>3, <5>1 DEF LinesInv
      <4>. QED
        BY <4>1, <4>2
    <3>. QED
      BY <2>2, <2>4, <3>1, <3>2 DEF LinesInv
  <2>7. Buffered(a)'
    BY <1>3, <1>5, <2>1, <2>2, <2>5, <2>6 DEF Buffered
  <2>8. /\ headerBytes' <= 3 * (a - 1) + 2 * (Begin + NextSize + 2)
        /\ headerBytes' <= 3 * (HeaderSize(sent) - 1) + 2 * (Begin + NextSize + 2)
    BY <1>2, <1>4, <1>9, <1>14
  <2>9. Looking(a, b)'
    <3>1. status' = "lines"
      BY <2>1 DEF ProcessLine
    <3>. QED
      BY <1>3, <2>2, <2>5, <2>7, <2>8, <3>1 DEF Looking
  <2>10. Cut(a, b)'
    BY <1>1, <2>1, <2>2 DEF Cut
  <2>11. needed' \in Nat /\ body' \in Nat /\ status' = "lines"
    BY <2>1 DEF IInv, ProcessLine
  <2>. QED
    BY <1>2, <1>10, <2>2, <2>9, <2>10, <2>11 DEF IInv
<1>. QED
  BY <1>15, <1>16

\* The length that the header announces is found wherever it stands.
LEMMA LengthIsAnnounced ==
    ASSUME LengthsAreOnce, sent \in Inputs, headers = sent.lines
    PROVE  /\ Announced(sent.lines) \in Nat
           /\ Has("length") <=> KindAmong(sent.lines, {"length"}) # {}
           /\ Announced(sent.lines) = IF Has("length") THEN Length ELSE 0
<1> DEFINE lines == sent.lines
           S == KindAmong(lines, {"length"})
<1>1. /\ DOMAIN lines = 1 .. Len(lines) /\ Len(lines) \in Nat
      /\ \A i \in DOMAIN lines : lines[i] \in HeaderLine
  BY InputType
<1>2. S = {i \in DOMAIN headers : headers[i].kind = "length"} /\ S \in SUBSET Nat
  BY <1>1 DEF KindAmong
<1>3. Has("length") <=> S # {}
  BY <1>2 DEF Has
<1>4. CASE S = {}
  BY <1>3, <1>4 DEF Announced
<1>5. CASE S # {}
  <2>1. Min(S) \in S
    BY <1>2, <1>5, MinIsLeast
  <2> DEFINE c == CHOOSE i \in DOMAIN headers : headers[i].kind = "length"
  <2>2. c \in DOMAIN headers /\ headers[c].kind = "length"
    BY <1>2, <1>5
  <2> HIDE DEF c
  <2>3. c \in S
    BY <1>2, <2>2
  <2>4. c = Min(S)
    <3>1. \A i, j \in S : i = j
      BY DEF LengthsAreOnce
    <3> HIDE DEF S
    <3>. QED
      BY <2>1, <2>3, <3>1
  <2>5. Length = lines[Min(S)].n
    BY <2>4 DEF Length, c
  <2>6. Announced(lines) = lines[Min(S)].n
    BY <1>5 DEF Announced
  <2>7. lines[c] \in HeaderLine /\ lines[c].kind = "length"
    BY <1>1, <2>2
  <2>8. lines[c].n \in Nat
    BY <2>7, HeaderLineType
  <2> HIDE DEF S, lines
  <2>9. Announced(lines) \in Nat
    BY <2>4, <2>6, <2>8
  <2>10. Announced(lines) = IF Has("length") THEN Length ELSE 0
    BY <1>3, <1>5, <2>5, <2>6
  <2>. QED
    BY <1>3, <2>9, <2>10 DEF S, lines
<1>. QED
  BY <1>4, <1>5

\* What is left to ask of a request whose lines are all in place.
LEMMA InPlaceIsGood ==
    ASSUME sent \in Inputs, LinesInv, headers = sent.lines
    PROVE  IsGoodRequest(sent.lines) <=>
              headers # <<>> /\ Has("host") /\ Announced(sent.lines) <= MaxBody
<1> DEFINE lines == sent.lines
           n == Len(lines)
<1>1. lines \in Seq(HeaderLine) /\ n \in Nat /\ DOMAIN lines = 1 .. n
  BY InputType
<1>2. \A i \in 1 .. n : IF i = 1 THEN lines[i].kind = "request" ELSE lines[i].kind \in HeaderKinds
  BY DEF LinesInv
<1>3. lines = <<>> <=> n = 0
  BY <1>1
<1>4. KindAmong(lines, {"request"}) = IF n = 0 THEN {} ELSE {1}
  BY <1>1, <1>2 DEF KindAmong, HeaderKinds
<1>5. KindAmong(lines, HeaderKinds) = 2 .. n
  <2>1. \A i \in 1 .. n : lines[i].kind \in HeaderKinds <=> i # 1
    BY <1>2 DEF HeaderKinds
  <2>. QED
    BY <1>1, <2>1 DEF KindAmong
<1>6. KindAmong(lines, {"host"}) # {} <=> Has("host")
  BY DEF KindAmong, Has
<1> HIDE DEF lines
<1>7. IsGoodRequest(lines) <=> n # 0 /\ Has("host") /\ Announced(lines) <= MaxBody
  BY <1>4, <1>5, <1>6 DEF IsGoodRequest
<1>8. headers = lines
  BY DEF lines
<1>. QED
  BY <1>3, <1>7, <1>8 DEF lines

LEMMA FinishHeaderKeepsIInv ==
    ASSUME HeadersFit, LengthsAreOnce, IInv, FinishHeader, UNCHANGED <<sent, stream, upgraded>>
    PROVE  IInv'
<1>1. PICK a \in Nat, b \in Nat : Cut(a, b) /\ Looking(a, b)
  BY Phase DEF FinishHeader, Waiting, InBody
<1>2. sent \in Inputs /\ ~ upgraded /\ headerBytes \in Nat
  BY Phase DEF IInv, FinishHeader
<1>3. LinesInv /\ Buffered(a) /\ a = b /\ a <= Len(Total) /\ Begin <= a
  BY <1>1 DEF Looking, Buffered, Cut
<1>4. /\ Begin \in Nat /\ NextSize \in Nat /\ HeaderSize(sent) \in Nat
      /\ Begin + NextSize + 2 <= HeaderSize(sent)
      /\ Total \in Seq(StreamByte) /\ Len(Total) \in Nat
  BY <1>2, <1>3, NextLine
<1>5. /\ Begin + NextSize + 2 <= a
      /\ Line = Slice(Total, Begin, Begin + NextSize)
      /\ Rest = Slice(Total, Begin + NextSize + 2, a)
  BY <1>2, <1>3, FirstDelimiter DEF FinishHeader
<1>6. NextSize = 0
  <2>1. Len(Slice(Total, Begin, Begin + NextSize)) = NextSize
    BY <1>4 DEF Slice
  <2>2. Len(Slice(Total, Begin, Begin + NextSize)) = 0
    BY <1>5 DEF FinishHeader
  <2>. QED
    BY <2>1, <2>2
<1>7. Len(headers) = Len(sent.lines)
  <2>1. ~ (Len(headers) < Len(sent.lines))
    BY <1>2, <1>3, <1>6, NextLineIsNext
  <2>. QED
    BY <1>2, <1>3, <2>1, InputType DEF LinesInv
<1>8. headers = sent.lines
  <2>1. headers = Slice(sent.lines, 0, Len(sent.lines))
    BY <1>3, <1>7 DEF LinesInv
  <2>. QED
    BY <1>2, <2>1, InputType DEF Slice
<1>9. Begin + 2 = HeaderSize(sent)
  BY <1>2, <1>7, AtLayout DEF IsLayout, Begin
<1>10. /\ Announced(sent.lines) \in Nat
       /\ Has("length") <=> KindAmong(sent.lines, {"length"}) # {}
       /\ Announced(sent.lines) = IF Has("length") THEN Length ELSE 0
  BY <1>2, <1>8, LengthIsAnnounced
<1>11. IsGoodRequest(sent.lines) <=>
          headers # <<>> /\ Has("host") /\ Announced(sent.lines) <= MaxBody
  BY <1>2, <1>3, <1>8, InPlaceIsGood
<1>12. headerBytes' = headerBytes + 3 /\ headerBytes' \in Nat
  BY <1>2 DEF FinishHeader, Counted
<1>13. headerBytes <= 3 * (HeaderSize(sent) - 1) + 2 * Begin
  BY <1>1 DEF Looking
<1> DEFINE refused == \/ headerBytes' > MaxHeader
                      \/ headers = <<>> \/ ~ Has("host")
                      \/ Has("length") /\ Length > MaxBody
<1>14. CASE refused
  <2>1. ~ IsGoodRequest(sent.lines)
    <3>1. CASE headerBytes' > MaxHeader
      <4> SUFFICES ASSUME IsGoodRequest(sent.lines) PROVE FALSE
        OBVIOUS
      <4>1. 5 * HeaderSize(sent) <= MaxHeader
        BY <1>2 DEF HeadersFit
      <4>. QED
        BY <1>2, <1>4, <1>9, <1>12, <1>13, <3>1, <4>1, LimitsAssumption, SMTT(60)
    <3>2. CASE headers = <<>> \/ ~ Has("host")
      BY <1>11, <3>2
    <3>3. CASE Has("length") /\ Length > MaxBody
      <4>1. Length \in Nat /\ Announced(sent.lines) = Length
        BY <1>10, <3>3
      <4>. QED
        BY <1>11, <3>3, <4>1, LimitsAssumption
    <3>. QED
      BY <1>14, <3>1, <3>2, <3>3
  <2>2. Refuse
    BY <1>14 DEF FinishHeader
  <2>. QED
    BY <1>2, <1>12, <2>1, <2>2 DEF IInv, Refuse
<1>15. CASE ~ refused
  <2>1. IsGoodRequest(sent.lines)
    <3>1. Announced(sent.lines) <= MaxBody
      BY <1>10, <1>15, LimitsAssumption
    <3>. QED
      BY <1>11, <1>15, <3>1
  <2> DEFINE m == Announced(sent.lines)
  <2>2. Len(Rest) = a - HeaderSize(sent) /\ Rest = Slice(Total, HeaderSize(sent), a) /\ HeaderSize(sent) <= a
    <3>1. Begin + NextSize + 2 = HeaderSize(sent)
      BY <1>4, <1>6, <1>9
    <3>. QED
      BY <1>3, <1>4, <1>5, <3>1 DEF Slice
  <2>3. PICK p \in Nat : /\ p <= m /\ p <= a - HeaderSize(sent)
                         /\ body' = p /\ needed' = m - p
                         /\ chunk' = SubSeq(Rest, p + 1, Len(Rest))
    <3> DEFINE q == Min({m, Len(Rest)})
    <3>1. {m, Len(Rest)} \in SUBSET Nat /\ {m, Len(Rest)} # {}
      BY <1>4, <1>10, <2>2
    <3>2. q \in {m, Len(Rest)} /\ q <= m /\ q <= Len(Rest)
      BY <3>1, MinIsLeast
    <3>3. body' = q /\ needed' = m - q /\ chunk' = SubSeq(Rest, q + 1, Len(Rest))
      BY <1>10, <1>15 DEF FinishHeader
    <3> HIDE DEF q, m
    <3>. QED
      BY <2>2, <3>1, <3>2, <3>3
  <2>4. /\ lineBuf' = <<>> /\ headers' = headers
        /\ status' = IF needed' = 0 THEN "ready" ELSE "wait"
    BY <1>15 DEF FinishHeader
  <2>5. Total' = Total /\ HeaderSize(sent)' = HeaderSize(sent)
    BY DEF Total
  <2>6. HeaderDone' /\ needed' \in Nat /\ body' \in Nat
    <3>1. needed' \in Nat /\ body' \in Nat /\ body' + needed' = m
      BY <1>10, <2>3
    <3>. QED
      BY <1>8, <2>1, <2>4, <3>1 DEF HeaderDone
  <2>7. Cut(HeaderSize(sent) + p, b)'
    <3> DEFINE h == HeaderSize(sent)
               z == a - h
    <3>1. h \in Nat /\ z \in Nat /\ h + z = a /\ p <= z /\ Len(Rest) = z /\ a <= Len(Total)
      BY <1>3, <1>4, <2>2, <2>3
    <3> HIDE DEF h, z
    <3>2. SubSeq(Slice(Total, h, h + z), p + 1, z) = Slice(Total, h + p, h + z)
      BY <1>4, <3>1 DEF Slice
    <3>3. h + p <= b
      BY <1>3, <3>1
    <3>4. Rest = Slice(Total, h, h + z)
      BY <2>2, <3>1 DEF h
    <3>5. chunk' = Slice(Total, h + p, b)
      BY <1>3, <2>3, <3>1, <3>2, <3>4
    <3>. QED
      BY <1>1, <2>5, <3>3, <3>5 DEF Cut, h
  <2>8. (InBody(HeaderSize(sent) + p) \/ AtEnd(HeaderSize(sent) + p))'
    <3>1. needed' = 0 \/ needed' > 0
      BY <2>6
    <3>. QED
      BY <2>3, <2>4, <2>5, <2>6, <3>1 DEF InBody, AtEnd
  <2>9. HeaderSize(sent) + p \in Nat
    BY <1>4
  <2>10. \E c \in Nat : Cut(c, b)' /\ (InBody(c) \/ AtEnd(c))'
    BY <2>5, <2>7, <2>8, <2>9
  <2>. QED
    BY <1>2, <1>12, <2>4, <2>6, <2>10 DEF IInv
<1>. QED
  BY <1>14, <1>15

LEMMA StepKeepsIInv == ASSUME HeadersFit, LengthsAreOnce, IInv, [Next]_vars PROVE IInv'
<1>1. CASE Read
  BY <1>1, ReadKeepsIInv
<1>2. CASE ReadRequest
  BY <1>2, TakeLinesKeepsIInv, TakeBodyKeepsIInv, OutOfLinesKeepsIInv, ProcessLineKeepsIInv,
     FinishHeaderKeepsIInv DEF ReadRequest, Consume
<1>3. CASE Upgrade
  BY <1>3 DEF Upgrade, IInv, HeaderDone, reqVars
<1>4. CASE ReadFrames
  BY <1>4 DEF ReadFrames, IInv, HeaderDone, requestOnly
<1>5. CASE UNCHANGED vars
  <2>1. UNCHANGED <<sent, stream, upgraded, reqVars>>
    BY <1>5 DEF vars
  <2>. QED
    BY <2>1 DEF reqVars, IInv, HeaderDone, Cut, Waiting, Looking, InBody, AtEnd, Buffered, LinesInv,
                Begin, Total
<1>. QED
  BY <1>1, <1>2, <1>3, <1>4, <1>5 DEF Next

\* However its bytes arrive, a request is taken as it was written.
LEMMA IInvMeansRead == BodiesAreWhole /\ IInv => RequestIsRead
<1> SUFFICES ASSUME BodiesAreWhole, IInv PROVE RequestIsRead
  OBVIOUS
<1>1. sent \in Inputs /\ body \in Nat
  BY DEF IInv
<1>2. ASSUME status = "ready"
      PROVE  /\ IsGoodRequest(sent.lines) /\ headers = sent.lines
             /\ body = Announced(sent.lines)
  BY <1>1, <1>2 DEF IInv, HeaderDone
<1>3. ASSUME status = "ready", ~ upgraded PROVE chunk \o stream = FramesOf(sent)
  <2>1. PICK a \in Nat, b \in Nat : Cut(a, b) /\ AtEnd(a)
    BY <1>3 DEF IInv, Waiting, Looking, InBody
  <2>2. Total \in Seq(StreamByte) /\ Len(Total) \in Nat
    BY <1>1, TotalType
  <2>3. a <= b /\ b <= Len(Total) /\ chunk = Slice(Total, a, b) /\ stream = Slice(Total, b, Len(Total))
    BY <2>1 DEF Cut
  <2>4. chunk \o stream = Slice(Total, a, Len(Total)) /\ a <= Len(Total)
    <3>1. Slice(Total, a, b) \o Slice(Total, b, Len(Total)) = Slice(Total, a, Len(Total))
      BY <2>2, <2>3 DEF Slice
    <3>. QED
      BY <2>2, <2>3, <3>1
  <2>5. a = HeaderSize(sent) + Announced(sent.lines) /\ HeaderSize(sent) \in Nat
    <3>1. Len(Bytes(sent.lines)) \in Nat
      BY <1>1, InputType, BytesLayOut
    <3>. QED
      BY <1>2, <1>3, <2>1, <3>1 DEF AtEnd, HeaderSize
  <2>6. /\ Slice(Total, HeaderSize(sent) + sent.body, Len(Total)) = FramesOf(sent)
        /\ Len(FramesOf(sent)) = Len(Total) - (HeaderSize(sent) + sent.body)
    BY <1>1, AtLayout DEF IsLayout, Total
  <2>7. /\ sent.body \in Nat /\ sent.body <= Announced(sent.lines)
        /\ Announced(sent.lines) \in Nat
        /\ sent.frames # <<>> => sent.body = Announced(sent.lines)
    BY <1>1, <1>2, <1>3, InputType DEF BodiesAreWhole
  <2>8. sent.body = Announced(sent.lines)
    <3>1. CASE sent.frames = <<>>
      <4>1. Len(FramesOf(sent)) = 0
        BY <3>1 DEF FramesOf, FlattenSeq
      <4>2. Len(Total) - (HeaderSize(sent) + sent.body) = 0
        BY <2>6, <4>1
      <4>3. HeaderSize(sent) + Announced(sent.lines) <= Len(Total)
        BY <2>4, <2>5
      <4>4. Len(Total) \in Nat /\ HeaderSize(sent) \in Nat
        BY <2>2, <2>5
      <4>. QED
        BY <2>7, <4>2, <4>3, <4>4
    <3>2. CASE sent.frames # <<>>
      BY <2>7, <3>2
    <3>. QED
      BY <3>1, <3>2
  <2>. QED
    BY <2>4, <2>5, <2>6, <2>8
<1>4. ASSUME status = "refused" PROVE ~ IsGoodRequest(sent.lines)
  BY <1>4 DEF IInv
<1>. QED
  BY <1>2, <1>3, <1>4 DEF RequestIsRead

THEOREM RequestsAreRead ==
    LengthsAreOnce /\ BodiesAreWhole /\ HeadersFit /\ Spec => []RequestIsRead
<1> SUFFICES ASSUME LengthsAreOnce, BodiesAreWhole, HeadersFit PROVE Spec => []RequestIsRead
  OBVIOUS
<1>1. IInv /\ [Next]_vars => IInv'
  BY StepKeepsIInv
<1>2. IInv => RequestIsRead
  BY IInvMeansRead
<1>. QED
  BY InitIInv, <1>1, <1>2, PTL DEF Spec

-----------------------------------------------------------------------------
(* What frames mean is defined by a fold; so far they mean something, too. *)

Nothing == [out |-> <<>>, open |-> Frames!NoMessage, failed |-> FALSE]

\* g[s] is what the frames with the numbers in s mean.
Folds(g, frames, n) ==
    g = [s \in SUBSET (1 .. n) |->
            IF s = {} THEN Nothing ELSE AddFrame(g[s \ {Max(s)}], frames[Max(s)])]

\* n is the greatest of a set of numbers up to n.
LEMMA MaxOfInterval ==
    ASSUME NEW n \in Nat, NEW s \in SUBSET (1 .. n), n \in s
    PROVE  Max(s) = n
<1>1. \A x \in s : (\A y \in s : x >= y) <=> x = n
  OBVIOUS
<1>. QED
  BY <1>1 DEF Max

\* There is such a function for every n.
LEMMA FoldExists ==
    ASSUME NEW frames, NEW n \in Nat
    PROVE  \E g : Folds(g, frames, n)
<1> DEFINE Good == {m \in Nat : \E g : Folds(g, frames, m)}
<1>1. 0 \in Good
  <2> DEFINE g == [s \in SUBSET (1 .. 0) |-> Nothing]
  <2>1. Folds(g, frames, 0)
    <3>1. \A s \in SUBSET (1 .. 0) : s = {}
      OBVIOUS
    <3>. QED
      BY <3>1 DEF Folds
  <2>. QED
    BY <2>1
<1>2. ASSUME NEW m \in Nat, m \in Good PROVE m + 1 \in Good
  <2>1. PICK g : Folds(g, frames, m)
    BY <1>2
  <2> DEFINE S == SUBSET (1 .. m)
             T == SUBSET (1 .. m + 1)
             more == [s \in T |-> IF s = {} THEN Nothing ELSE AddFrame(g[s \ {Max(s)}], frames[Max(s)])]
  <2>2. \A s \in S : s \in T /\ s \ {Max(s)} \in S
    <3>1. 1 .. m \subseteq 1 .. m + 1
      OBVIOUS
    <3>. QED
      BY <3>1, Zenon
  <2>3. \A s \in T : s # {} => s \ {Max(s)} \in S
    <3> SUFFICES ASSUME NEW s \in T PROVE s \ {Max(s)} \in S
      OBVIOUS
    <3>1. CASE m + 1 \in s
      <4>1. Max(s) = m + 1
        BY <3>1, MaxOfInterval
      <4>. QED
        BY <4>1
    <3>2. CASE m + 1 \notin s
      <4>1. \A x \in s : x \in 1 .. m
        BY <3>2
      <4>. QED
        BY <4>1, Zenon
    <3>. QED
      BY <3>1, <3>2
  <2>4. \A s \in S : g[s] = IF s = {} THEN Nothing ELSE AddFrame(g[s \ {Max(s)}], frames[Max(s)])
    BY <2>1, Zenon DEF Folds
  <2> HIDE DEF S, T
  <2>5. \A s \in S : more[s] = g[s]
    BY <2>2, <2>4, Zenon
  <2>6. \A s \in T : more[s] = IF s = {} THEN Nothing ELSE AddFrame(more[s \ {Max(s)}], frames[Max(s)])
    BY <2>3, <2>5, Zenon
  <2>7. more = [s \in T |-> IF s = {} THEN Nothing ELSE AddFrame(more[s \ {Max(s)}], frames[Max(s)])]
    BY <2>6, Zenon
  <2> HIDE DEF more
  <2>8. Folds(more, frames, m + 1)
    BY <2>7 DEF Folds, T
  <2>. QED
    BY <2>8
<1> HIDE DEF Good
<1>3. n \in Good
  BY <1>1, <1>2, AllNumbers
<1>. QED
  BY <1>3 DEF Good

\* M[k] is what the first k frames mean.
Means(M, frames) ==
    /\ M[0] = Nothing
    /\ \A k \in 1 .. Len(frames) : M[k] = AddFrame(M[k - 1], frames[k])
    /\ M[Len(frames)] = Meaning(frames)
Meanings(frames) == CHOOSE M : Means(M, frames)

\* The meanings, one frame after the other, lead to what the fold computes.
LEMMA MeaningsMean ==
    ASSUME NEW S, NEW frames \in Seq(S)
    PROVE  Means(Meanings(frames), frames)
<1> DEFINE n == Len(frames)
           g == CHOOSE g : Folds(g, frames, n)
           M == [k \in 0 .. n |-> g[1 .. k]]
<1>1. n \in Nat /\ DOMAIN frames = 1 .. n
  OBVIOUS
<1>2. Folds(g, frames, n)
  BY <1>1, FoldExists
<1>3. Meaning(frames) = g[1 .. n]
  BY <1>1 DEF Meaning, FoldLeft, MapThenFoldSet, Folds, Nothing
<1> HIDE DEF g
<1>4. \A s \in SUBSET (1 .. n) :
         g[s] = IF s = {} THEN Nothing ELSE AddFrame(g[s \ {Max(s)}], frames[Max(s)])
  BY <1>2, Zenon DEF Folds
<1>5. g[1 .. 0] = Nothing
  <2>1. 1 .. 0 = {}
    OBVIOUS
  <2>. QED
    BY <1>4, <2>1, Zenon
<1>6. \A k \in 1 .. n : g[1 .. k] = AddFrame(g[1 .. k - 1], frames[k])
  <2> SUFFICES ASSUME NEW k \in 1 .. n PROVE g[1 .. k] = AddFrame(g[1 .. k - 1], frames[k])
    OBVIOUS
  <2>1. 1 .. k \in SUBSET (1 .. n) /\ 1 .. k # {} /\ (1 .. k) \ {k} = 1 .. k - 1
    <3>1. k \in 1 .. k /\ \A x \in 1 .. k : x \in 1 .. n
      BY <1>1
    <3>2. \A x : x \in 1 .. k - 1 <=> x \in 1 .. k /\ x # k
      BY <1>1
    <3>. QED
      BY <3>1, <3>2, Zenon
  <2>2. Max(1 .. k) = k
    BY <1>1, MaxOfInterval
  <2>. QED
    BY <1>4, <2>1, <2>2
<1>7. Means(M, frames)
  BY <1>1, <1>3, <1>5, <1>6 DEF Means
<1>. QED
  BY <1>7 DEF Meanings

-----------------------------------------------------------------------------
(* One more frame.                                                         *)

Message == [op : Frames!DataOps \cup Frames!ControlOps \cup Frames!ReservedOps, payload : Seq(Frames!Units)]
Open == {Frames!NoMessage} \cup {m \in Message : m.op = "text" => IsGoodText(m.payload, FALSE)}
Meant == [out : Seq(Message), open : Open, failed : BOOLEAN]

\* A frame begins a message or continues the one that is open; with the first i units of
\* its payload the message has the units Part(f, open, i).
Begins(f, open) == IsControl(f) \/ open = Frames!NoMessage
KindOf(f, open) == IF Begins(f, open) THEN f.op ELSE open.op
Part(f, open, i) == (IF Begins(f, open) THEN <<>> ELSE open.payload) \o Slice(f.payload, 0, i)
Whole(f, open) == Part(f, open, Len(f.payload))

\* The parser refuses such a frame: it asks for the end of a text by the frame's opcode.
IsRefused(f, open) ==
    \/ ~ IsGoodFrame(f, open)
    \/ ~ IsControl(f) /\ Len(Whole(f, open)) > MaxMessage
    \/ KindOf(f, open) = "text" /\ ~ IsGoodText(Whole(f, open), f.fin /\ f.op = "text")

\* The protocol forbids such a frame.
IsForbidden(f, open) ==
    \/ ~ IsGoodFrame(f, open)
    \/ ~ IsControl(f) /\ Len(Whole(f, open)) > MaxMessage
    \/ KindOf(f, open) = "text" /\ ~ IsGoodText(Whole(f, open), f.fin)

\* What a frame consists of.
LEMMA FrameFields ==
    ASSUME NEW f \in Frames!Frame
    PROVE  /\ f.op \in Frames!DataOps \cup Frames!ControlOps \cup Frames!ReservedOps
           /\ f.fin \in BOOLEAN /\ f.rsv \in BOOLEAN /\ f.masked \in BOOLEAN
           /\ f.code \in {"small", "16bit", "64bit"}
           /\ f.payload \in Seq(Frames!Units) /\ Len(f.payload) \in Nat
           /\ f.code = "small" => Len(f.payload) <= PayloadBasic
           /\ f.code = "16bit" => Len(f.payload) <= PayloadExtended
BY DEF Frames!Frame

\* An unfinished message is a message, and its text is good so far.
LEMMA OpenType ==
    ASSUME NEW open \in Open, open # Frames!NoMessage
    PROVE  /\ open \in Message
           /\ open.op \in Frames!DataOps \cup Frames!ControlOps \cup Frames!ReservedOps
           /\ open.payload \in Seq(Frames!Units)
           /\ open.op = "text" => IsGoodText(open.payload, FALSE)
BY DEF Open, Message

\* A message is not the absence of one.
LEMMA MessageIsOne == \A m \in Message : m # Frames!NoMessage
BY DEF Message, Frames!NoMessage, Frames!DataOps, Frames!ControlOps, Frames!ReservedOps

\* The parts of a message are sequences of units; the last part is the message.
LEMMA PartType ==
    ASSUME NEW f \in Frames!Frame, NEW open \in Open, NEW i \in 0 .. Len(f.payload)
    PROVE  /\ KindOf(f, open) \in Frames!DataOps \cup Frames!ControlOps \cup Frames!ReservedOps
           /\ Part(f, open, i) \in Seq(Frames!Units)
           /\ Whole(f, open) = (IF Begins(f, open) THEN <<>> ELSE open.payload) \o f.payload
<1> DEFINE before == IF Begins(f, open) THEN <<>> ELSE open.payload
<1>1. f.payload \in Seq(Frames!Units) /\ Len(f.payload) \in Nat
  BY FrameFields
<1>2. before \in Seq(Frames!Units)
  <2>1. CASE Begins(f, open)
    BY <2>1
  <2>2. CASE ~ Begins(f, open)
    BY <2>2, OpenType DEF Begins
  <2>. QED
    BY <2>1, <2>2
<1>3. Slice(f.payload, 0, i) \in Seq(Frames!Units) /\ Slice(f.payload, 0, Len(f.payload)) = f.payload
  BY <1>1 DEF Slice
<1>4. KindOf(f, open) \in Frames!DataOps \cup Frames!ControlOps \cup Frames!ReservedOps
  BY FrameFields, OpenType DEF KindOf, Begins
<1> HIDE DEF before
<1>5. before \o Slice(f.payload, 0, i) \in Seq(Frames!Units)
  BY <1>2, <1>3
<1>. QED
  BY <1>3, <1>4, <1>5 DEF Part, Whole, before

\* What it means depends on this, on nothing else.
LEMMA AddFrameIs ==
    ASSUME NEW f \in Frames!Frame, NEW acc \in Meant, ~ acc.failed
    PROVE  AddFrame(acc, f) =
              LET begun == [op |-> KindOf(f, acc.open), payload |-> Whole(f, acc.open)]
              IN IF IsForbidden(f, acc.open) THEN [acc EXCEPT !.failed = TRUE]
                 ELSE IF f.fin
                 THEN [out |-> Append(acc.out, begun), failed |-> FALSE,
                       open |-> IF IsControl(f) THEN acc.open ELSE Frames!NoMessage]
                 ELSE [acc EXCEPT !.open = begun]
<1> DEFINE begun == IF IsControl(f) \/ acc.open = Frames!NoMessage
                      THEN [op |-> f.op, payload |-> f.payload]
                      ELSE [acc.open EXCEPT !.payload = @ \o f.payload]
           kind == KindOf(f, acc.open)
           whole == Whole(f, acc.open)
<1>1. acc.open \in Open /\ f.payload \in Seq(Frames!Units) /\ Len(f.payload) \in 0 .. Len(f.payload)
  BY FrameFields DEF Meant
<1>2. whole = (IF Begins(f, acc.open) THEN <<>> ELSE acc.open.payload) \o f.payload
  BY <1>1, PartType
<1>3. begun = [op |-> kind, payload |-> whole]
  <2>1. CASE Begins(f, acc.open)
    <3>1. <<>> \o f.payload = f.payload
      BY <1>1
    <3>2. whole = f.payload /\ kind = f.op
      BY <1>2, <2>1, <3>1 DEF KindOf
    <3> HIDE DEF whole, kind
    <3>. QED
      BY <2>1, <3>2 DEF Begins
  <2>2. CASE ~ Begins(f, acc.open)
    <3>1. acc.open \in Message
      BY <1>1, <2>2, OpenType DEF Begins
    <3>2. PICK a, b : acc.open = [op |-> a, payload |-> b]
      BY <3>1 DEF Message
    <3>3. acc.open.op = a /\ acc.open.payload = b
      BY <3>2
    <3>4. [acc.open EXCEPT !.payload = @ \o f.payload]
            = [op |-> acc.open.op, payload |-> acc.open.payload \o f.payload]
      <4>1. \A c : [[op |-> a, payload |-> b] EXCEPT !.payload = c] = [op |-> a, payload |-> c]
        OBVIOUS
      <4>. QED
        BY <3>2, <3>3, <4>1, Zenon
    <3>. QED
      BY <1>2, <2>2, <3>4 DEF Begins, KindOf
  <2>. QED
    BY <2>1, <2>2
<1>4. begun.op = kind /\ begun.payload = whole
  BY <1>3
<1> HIDE DEF begun, kind, whole
<1>5. AddFrame(acc, f) =
        IF \/ ~ IsGoodFrame(f, acc.open)
           \/ ~ IsControl(f) /\ Len(begun.payload) > MaxMessage
           \/ begun.op = "text" /\ ~ IsGoodText(begun.payload, f.fin)
        THEN [acc EXCEPT !.failed = TRUE]
        ELSE IF f.fin
        THEN [out |-> Append(acc.out, begun), failed |-> FALSE,
              open |-> IF IsControl(f) THEN acc.open ELSE Frames!NoMessage]
        ELSE [acc EXCEPT !.open = begun]
  BY Zenon DEF AddFrame, begun
<1>. QED
  BY <1>3, <1>4, <1>5, Zenon DEF IsForbidden, kind, whole

\* One more frame adds a message or none.
LEMMA AddFrameType ==
    ASSUME NEW f \in Frames!Frame, NEW acc \in Meant
    PROVE  /\ AddFrame(acc, f) \in Meant
           /\ \/ AddFrame(acc, f).out = acc.out
              \/ \E b \in Message : AddFrame(acc, f).out = Append(acc.out, b)
<1>1. CASE acc.failed
  BY <1>1 DEF AddFrame
<1>2. CASE ~ acc.failed
  <2> DEFINE begun == [op |-> KindOf(f, acc.open), payload |-> Whole(f, acc.open)]
  <2>1. acc.out \in Seq(Message) /\ acc.open \in Open
    BY DEF Meant
  <2>2. begun \in Message
    <3>1. Len(f.payload) \in 0 .. Len(f.payload)
      BY FrameFields
    <3>2. /\ KindOf(f, acc.open) \in Frames!DataOps \cup Frames!ControlOps \cup Frames!ReservedOps
          /\ Whole(f, acc.open) \in Seq(Frames!Units)
      BY <2>1, <3>1, PartType DEF Whole
    <3>. QED
      BY <3>2 DEF Message
  <2>3. /\ begun.op = KindOf(f, acc.open) /\ begun.payload = Whole(f, acc.open)
    OBVIOUS
  <2>4. AddFrame(acc, f) =
              IF IsForbidden(f, acc.open) THEN [acc EXCEPT !.failed = TRUE]
              ELSE IF f.fin
              THEN [out |-> Append(acc.out, begun), failed |-> FALSE,
                    open |-> IF IsControl(f) THEN acc.open ELSE Frames!NoMessage]
              ELSE [acc EXCEPT !.open = begun]
    BY <1>2, AddFrameIs
  <2> HIDE DEF begun
  <2>5. CASE IsForbidden(f, acc.open)
    BY <2>4, <2>5 DEF Meant
  <2>6. CASE ~ IsForbidden(f, acc.open) /\ f.fin
    <3>1. Append(acc.out, begun) \in Seq(Message)
      BY <2>1, <2>2
    <3> DEFINE out == Append(acc.out, begun)
               open == IF IsControl(f) THEN acc.open ELSE Frames!NoMessage
    <3>2. open \in Open
      BY <2>1 DEF Open
    <3>3. AddFrame(acc, f) = [out |-> out, failed |-> FALSE, open |-> open]
      BY <2>4, <2>6
    <3>4. out \in Seq(Message) /\ out = Append(acc.out, begun)
      BY <3>1
    <3> HIDE DEF out, open
    <3>. QED
      BY <2>2, <3>2, <3>3, <3>4 DEF Meant
  <2>7. CASE ~ IsForbidden(f, acc.open) /\ ~ f.fin
    <3>1. begun \in Open
      <4>1. f.fin = FALSE
        BY <2>7, FrameFields
      <4>2. KindOf(f, acc.open) = "text" => IsGoodText(Whole(f, acc.open), FALSE)
        BY <2>7, <4>1 DEF IsForbidden
      <4>. QED
        BY <2>2, <2>3, <4>2 DEF Open
    <3>. QED
      BY <2>4, <2>7, <3>1 DEF Meant
  <2>. QED
    BY <2>5, <2>6, <2>7
<1>. QED
  BY <1>1, <1>2

\* What the first k frames mean, by recurrence.
LEMMA MeaningsType ==
    ASSUME NEW input \in Inputs
    PROVE  LET M == Meanings(input.frames)
               n == Len(input.frames)
           IN /\ n \in Nat
              /\ \A k \in 0 .. n : M[k] \in Meant
              /\ M[0] = Nothing /\ M[n] = Meaning(input.frames)
              /\ \A k \in 1 .. n : M[k] = AddFrame(M[k - 1], input.frames[k]) /\ input.frames[k] \in Frames!Frame
<1> DEFINE M == Meanings(input.frames)
           n == Len(input.frames)
           Good == {k \in Nat : k <= n => M[k] \in Meant}
<1>1. input.frames \in Seq(Frames!Frame) /\ n \in Nat
  BY InputType
<1>2. Means(M, input.frames)
  BY <1>1, MeaningsMean
<1>3. \A k \in 1 .. n : input.frames[k] \in Frames!Frame
  BY <1>1
<1> HIDE DEF M
<1>4. M[0] = Nothing /\ M[n] = Meaning(input.frames) /\ \A k \in 1 .. n : M[k] = AddFrame(M[k - 1], input.frames[k])
  BY <1>2 DEF Means
<1>5. 0 \in Good
  <2>1. Nothing \in Meant
    BY DEF Nothing, Meant, Open
  <2>. QED
    BY <1>4, <2>1
<1>6. ASSUME NEW k \in Nat, k \in Good PROVE k + 1 \in Good
  <2> SUFFICES ASSUME k + 1 <= n PROVE M[k + 1] \in Meant
    OBVIOUS
  <2>1. k + 1 \in 1 .. n /\ (k + 1) - 1 = k /\ M[k] \in Meant
    BY <1>1, <1>6
  <2>. QED
    BY <1>3, <1>4, <2>1, AddFrameType
<1>7. Nat \subseteq Good
  <2> HIDE DEF Good
  <2>. QED
    BY <1>5, <1>6, AllNumbers
<1>8. \A k \in 0 .. n : M[k] \in Meant
  BY <1>1, <1>7
<1>. QED
  BY <1>1, <1>3, <1>4, <1>8 DEF M

\* Of these meanings, the m-th is that of the first m frames.
LEMMA MeaningOfPrefix ==
    ASSUME NEW input \in Inputs, NEW m \in 0 .. Len(input.frames)
    PROVE  Meaning(SubSeq(input.frames, 1, m)) = Meanings(input.frames)[m]
<1>1. PICK frames, n : frames = input.frames /\ n = Len(frames)
  OBVIOUS
<1>2. frames \in Seq(Frames!Frame) /\ n \in Nat /\ m \in Nat /\ m <= n
  BY <1>1, InputType
<1>3. PICK P : P = SubSeq(frames, 1, m)
  OBVIOUS
<1>4. P \in Seq(Frames!Frame) /\ Len(P) = m /\ \A k \in 1 .. m : P[k] = frames[k]
  BY <1>1, <1>2, <1>3
<1>5. PICK M, G : M = Meanings(frames) /\ G = Meanings(P)
  OBVIOUS
<1>6. M[0] = Nothing /\ \A k \in 1 .. n : M[k] = AddFrame(M[k - 1], frames[k])
  <2>1. Means(M, frames)
    BY <1>2, <1>5, MeaningsMean
  <2>. QED
    BY <1>1, <2>1 DEF Means
<1>7. G[0] = Nothing /\ G[m] = Meaning(P) /\ \A k \in 1 .. m : G[k] = AddFrame(G[k - 1], frames[k])
  <2>1. Means(G, P)
    BY <1>4, <1>5, MeaningsMean
  <2>. QED
    BY <1>4, <2>1 DEF Means
<1> DEFINE Same == {k \in Nat : k <= m => G[k] = M[k]}
<1>8. 0 \in Same
  BY <1>6, <1>7
<1>9. ASSUME NEW k \in Nat, k \in Same PROVE k + 1 \in Same
  <2> SUFFICES ASSUME k + 1 <= m PROVE G[k + 1] = M[k + 1]
    OBVIOUS
  <2>1. k + 1 \in 1 .. m /\ k + 1 \in 1 .. n /\ (k + 1) - 1 = k /\ G[k] = M[k]
    BY <1>2, <1>9
  <2>. QED
    BY <1>6, <1>7, <2>1
<1>10. m \in Same
  <2> HIDE DEF Same
  <2>. QED
    BY <1>2, <1>8, <1>9, AllNumbers
<1>. QED
  BY <1>1, <1>2, <1>3, <1>5, <1>7, <1>10

\* A prefix, element by element.
LEMMA PrefixIs ==
    ASSUME NEW S, NEW s \in Seq(S), NEW t \in Seq(S)
    PROVE  IsPrefix(s, t) <=> Len(s) <= Len(t) /\ \A i \in 1 .. Len(s) : s[i] = t[i]
<1>1. CASE ~ (Len(s) <= Len(t))
  BY <1>1 DEF IsPrefix
<1>2. CASE Len(s) <= Len(t)
  <2>1. /\ SubSeq(s, 1, Len(s)) = [i \in 1 .. Len(s) |-> s[i]]
        /\ SubSeq(t, 1, Len(s)) = [i \in 1 .. Len(s) |-> t[i]]
    BY <1>2
  <2>2. (\A i \in 1 .. Len(s) : s[i] = t[i]) => [i \in 1 .. Len(s) |-> s[i]] = [i \in 1 .. Len(s) |-> t[i]]
    OBVIOUS
  <2>3. [i \in 1 .. Len(s) |-> s[i]] = [i \in 1 .. Len(s) |-> t[i]] => \A i \in 1 .. Len(s) : s[i] = t[i]
    <3> DEFINE p == [i \in 1 .. Len(s) |-> s[i]]
               q == [i \in 1 .. Len(s) |-> t[i]]
    <3>1. \A i \in 1 .. Len(s) : p[i] = s[i] /\ q[i] = t[i]
      OBVIOUS
    <3> HIDE DEF p, q
    <3>2. p = q => \A i \in 1 .. Len(s) : s[i] = t[i]
      BY <3>1
    <3>. QED
      BY <3>2 DEF p, q
  <2>. QED
    BY <1>2, <2>1, <2>2, <2>3, Zenon DEF IsPrefix
<1>. QED
  BY <1>1, <1>2

\* Messages are added at the end, and after a refused frame none is.
LEMMA OutGrows ==
    ASSUME NEW input \in Inputs, NEW k \in 0 .. Len(input.frames)
    PROVE  LET M == Meanings(input.frames)
               n == Len(input.frames)
           IN /\ IsPrefix(M[k].out, M[n].out)
              /\ M[k].failed => M[n].out = M[k].out /\ M[n].failed
<1> DEFINE M == Meanings(input.frames)
           n == Len(input.frames)
           Grows(m) == /\ Len(M[m].out) <= Len(M[n].out)
                       /\ \A i \in 1 .. Len(M[m].out) : M[m].out[i] = M[n].out[i]
                       /\ M[m].failed => M[n].out = M[m].out /\ M[n].failed
           Good == {d \in Nat : d <= n => Grows(n - d)}
<1>1. /\ n \in Nat
      /\ \A m \in 0 .. n : M[m] \in Meant
      /\ \A m \in 1 .. n : M[m] = AddFrame(M[m - 1], input.frames[m]) /\ input.frames[m] \in Frames!Frame
  BY MeaningsType
<1> HIDE DEF M
<1>2. \A m \in 0 .. n : M[m].out \in Seq(Message) /\ M[m].failed \in BOOLEAN /\ Len(M[m].out) \in Nat
  BY <1>1 DEF Meant
<1>3. 0 \in Good
  <2>1. n - 0 = n /\ n \in 0 .. n
    BY <1>1
  <2>. QED
    BY <1>2, <2>1
<1>4. ASSUME NEW d \in Nat, d \in Good PROVE d + 1 \in Good
  <2> HIDE DEF Grows
  <2> SUFFICES ASSUME d + 1 <= n PROVE Grows(n - (d + 1))
    OBVIOUS
  <2> DEFINE m == n - (d + 1)
             f == input.frames[m + 1]
  <2>1. /\ m \in 0 .. n /\ m + 1 \in 1 .. n /\ m + 1 \in 0 .. n /\ n \in 0 .. n
        /\ (m + 1) - 1 = m /\ n - d = m + 1 /\ d <= n
    BY <1>1, SMTT(60)
  <2>2. Grows(m + 1)
    <3>1. Grows(n - d)
      BY <1>4, <2>1
    <3> HIDE DEF m
    <3>. QED
      BY <2>1, <3>1
  <2> SUFFICES Grows(m)
    OBVIOUS
  <2> HIDE DEF m
  <2> USE DEF Grows
  <2>3. M[m + 1] = AddFrame(M[m], f) /\ f \in Frames!Frame /\ M[m] \in Meant
    BY <1>1, <2>1
  <2> HIDE DEF f
  <2>4. CASE M[m].failed
    <3>1. M[m + 1] = M[m]
      BY <2>3, <2>4 DEF AddFrame
    <3>. QED
      BY <2>2, <2>4, <3>1
  <2>5. CASE ~ M[m].failed
    <3>1. PICK old \in Seq(Message) : old = M[m].out
      BY <1>2, <2>1
    <3>2. PICK new \in Seq(Message) : new = M[m + 1].out
      BY <1>2, <2>1
    <3>3. PICK all \in Seq(Message) : all = M[n].out
      BY <1>2, <2>1
    <3>4. new = old \/ \E b \in Message : new = Append(old, b)
      BY <2>3, <3>1, <3>2, AddFrameType
    <3>5. Len(old) <= Len(new) /\ \A i \in 1 .. Len(old) : old[i] = new[i]
      <4>1. CASE new = old
        BY <4>1
      <4>2. ASSUME NEW b \in Message, new = Append(old, b)
            PROVE  Len(old) <= Len(new) /\ \A i \in 1 .. Len(old) : old[i] = new[i]
        BY <4>2
      <4>. QED
        BY <3>4, <4>1, <4>2
    <3>6. Len(new) <= Len(all) /\ \A i \in 1 .. Len(new) : new[i] = all[i]
      BY <2>2, <3>2, <3>3
    <3>7. Len(old) <= Len(all) /\ \A i \in 1 .. Len(old) : old[i] = all[i]
      BY <3>5, <3>6
    <3>. QED
      BY <2>5, <3>1, <3>3, <3>7
  <2>. QED
    BY <2>4, <2>5
<1>5. Nat \subseteq Good
  <2> HIDE DEF Good
  <2>. QED
    BY <1>3, <1>4, AllNumbers
<1>6. Grows(k)
  <2>1. n - k \in Nat /\ n - k <= n /\ n - (n - k) = k
    BY <1>1
  <2>2. Grows(n - (n - k))
    BY <1>5, <2>1
  <2> HIDE DEF Grows
  <2>. QED
    BY <2>1, <2>2
<1>7. IsPrefix(M[k].out, M[n].out)
  <2>1. n \in 0 .. n
    BY <1>1
  <2>. QED
    BY <1>2, <1>6, <2>1, PrefixIs
<1>. QED
  BY <1>6, <1>7 DEF M

-----------------------------------------------------------------------------
(* Text in parts.                                                          *)

\* The last unit of the text needs one more.
Ends(units) == units # <<>> /\ units[Len(units)] = "lead"

\* Good text, unit by unit; its end is looked at separately.
LEMMA GoodTextIs ==
    ASSUME NEW units \in Seq(Frames!Units), NEW mustEnd \in BOOLEAN
    PROVE  /\ IsGoodText(units, FALSE) <=>
                 \A i \in 1 .. Len(units) : units[i] = "tail" <=> i > 1 /\ units[i - 1] = "lead"
           /\ IsGoodText(units, mustEnd) <=> IsGoodText(units, FALSE) /\ (mustEnd => ~ Ends(units))
<1>1. DOMAIN units = 1 .. Len(units)
  OBVIOUS
<1>. QED
  BY <1>1 DEF IsGoodText, Ends, Last

\* The validator's state after a part is that after the whole so far.
LEMMA TextEnds ==
    ASSUME NEW p \in Seq(Frames!Units), NEW u \in Seq(Frames!Units)
    PROVE  Frames!EndsInPoint(Ends(p), u) = Ends(p \o u)
<1>1. CASE u = <<>>
  BY <1>1 DEF Frames!EndsInPoint
<1>2. CASE u # <<>>
  <2>1. Len(u) \in 1 .. Len(u) /\ Len(p \o u) = Len(p) + Len(u) /\ p \o u # <<>>
    BY <1>2
  <2>2. (p \o u)[Len(p) + Len(u)] = u[Len(u)]
    BY <2>1, Concatenation
  <2>. QED
    BY <1>2, <2>1, <2>2 DEF Frames!EndsInPoint, Frames!Last, Ends
<1>. QED
  BY <1>1, <1>2

\* The validator, which sees a part after the other, accepts text that is good as a whole.
LEMMA TextGoesOn ==
    ASSUME NEW p \in Seq(Frames!Units), NEW u \in Seq(Frames!Units)
    PROVE  IsGoodText(p \o u, FALSE) <=> IsGoodText(p, FALSE) /\ Frames!Decodes(Ends(p), u)
<1> DEFINE t == p \o u
           a == Len(p)
           b == Len(u)
           InPlace(s, i) == s[i] = "tail" <=> i > 1 /\ s[i - 1] = "lead"
<1>1. /\ t \in Seq(Frames!Units) /\ a \in Nat /\ b \in Nat /\ Len(t) = a + b
      /\ \A i \in 1 .. a : t[i] = p[i]
      /\ \A i \in 1 .. b : t[a + i] = u[i]
  BY Concatenation
<1>2. \A i \in 1 .. a : InPlace(t, i) <=> InPlace(p, i)
  <2> SUFFICES ASSUME NEW i \in 1 .. a PROVE InPlace(t, i) <=> InPlace(p, i)
    OBVIOUS
  <2>1. i > 1 => i - 1 \in 1 .. a
    BY <1>1
  <2> HIDE DEF t
  <2>. QED
    BY <1>1, <2>1
<1>3. \A i \in 1 .. b : InPlace(t, a + i) <=>
                           ~ Frames!Misplaced(IF i = 1 THEN Ends(p) ELSE u[i - 1] = "lead", u[i])
  <2> SUFFICES ASSUME NEW i \in 1 .. b
               PROVE  InPlace(t, a + i) <=>
                         ~ Frames!Misplaced(IF i = 1 THEN Ends(p) ELSE u[i - 1] = "lead", u[i])
    OBVIOUS
  <2>1. u[i] \in Frames!Units /\ u[i] # "garbled"
    BY <1>1 DEF Frames!Units
  <2>2. t[a + i] = u[i]
    BY <1>1
  <2>3. CASE i = 1
    <3>1. (a + i > 1 /\ t[(a + i) - 1] = "lead") <=> Ends(p)
      <4>1. CASE a = 0
        BY <2>3, <4>1 DEF Ends
      <4>2. CASE a # 0
        <5>1. (a + i) - 1 = a /\ a \in 1 .. a /\ a + i > 1 /\ p # <<>>
          BY <1>1, <2>3, <4>2
        <5>2. t[a] = p[a]
          BY <1>1, <5>1
        <5> HIDE DEF t
        <5>. QED
          BY <5>1, <5>2 DEF Ends
      <4>. QED
        BY <4>1, <4>2
    <3> HIDE DEF t, a
    <3>. QED
      BY <2>1, <2>2, <2>3, <3>1 DEF Frames!Misplaced, Ends
  <2>4. CASE i # 1
    <3>1. i - 1 \in 1 .. b /\ (a + i) - 1 = a + (i - 1) /\ a + i > 1
      BY <1>1, <2>4
    <3>2. t[(a + i) - 1] = u[i - 1]
      <4>1. t[a + (i - 1)] = u[i - 1]
        BY <1>1, <3>1
      <4> HIDE DEF t
      <4>. QED
        BY <3>1, <4>1
    <3> HIDE DEF t, a
    <3>. QED
      BY <2>1, <2>2, <2>4, <3>1, <3>2 DEF Frames!Misplaced
  <2>. QED
    BY <2>3, <2>4
<1>4. Frames!Decodes(Ends(p), u) <=> \A i \in 1 .. b : InPlace(t, a + i)
  <2>1. DOMAIN u = 1 .. b
    OBVIOUS
  <2> HIDE DEF InPlace, b, t
  <2>. QED
    BY <1>3, <2>1, Zenon DEF Frames!Decodes
<1>5. IsGoodText(p, FALSE) <=> \A i \in 1 .. a : InPlace(t, i)
  <2>1. IsGoodText(p, FALSE) <=> \A i \in 1 .. a : InPlace(p, i)
    BY GoodTextIs
  <2> HIDE DEF InPlace
  <2>. QED
    BY <1>2, <2>1, Zenon
<1>6. IsGoodText(t, FALSE) <=> \A i \in 1 .. a + b : InPlace(t, i)
  BY <1>1, GoodTextIs
<1>7. (\A i \in 1 .. a + b : InPlace(t, i))
        <=> (\A i \in 1 .. a : InPlace(t, i)) /\ (\A i \in 1 .. b : InPlace(t, a + i))
  <2> HIDE DEF InPlace
  <2>1. \A i \in 1 .. a + b : i \in 1 .. a \/ (i - a \in 1 .. b /\ a + (i - a) = i)
    BY <1>1
  <2>2. (\A i \in 1 .. a : i \in 1 .. a + b) /\ (\A i \in 1 .. b : a + i \in 1 .. a + b)
    BY <1>1
  <2> HIDE DEF a, b, t
  <2>. QED
    BY <2>1, <2>2, Zenon
<1>. QED
  BY <1>4, <1>5, <1>6, <1>7

-----------------------------------------------------------------------------
(* Where in the bytes of the frames everything is.                         *)

HeadSize(f) == 2 + Frames!ExtendedLength(f.code) + (IF f.masked THEN 4 ELSE 0)

\* The bytes B are those of f.
AreBytes(B, f) ==
    /\ B \in Seq(FrameByte) /\ Len(B) = HeadSize(f) + Len(f.payload)
    /\ Len(f.payload) \in Nat /\ HeadSize(f) \in Nat /\ HeadSize(f) >= 2
    /\ B[1] = [op |-> f.op, fin |-> f.fin, rsv |-> f.rsv]
    /\ B[2] = [masked |-> f.masked, code |-> f.code, size |-> Len(f.payload)]
    /\ \A i \in 1 .. HeadSize(f) - 2 : B[2 + i] = [at |-> i, size |-> Len(f.payload)]
    /\ \A i \in 1 .. Len(f.payload) : B[HeadSize(f) + i] = [unit |-> f.payload[i], at |-> (i - 1) % 4]

\* A frame of the wire: its two bytes of header, size and masking key, and payload.
LEMMA FrameLayout == ASSUME NEW f \in Frames!Frame PROVE AreBytes(Frames!FrameBytes(f), f)
<1> DEFINE B == Frames!FrameBytes(f)
           h == HeadSize(f)
           n == Len(f.payload)
           m == Frames!ExtendedLength(f.code) + (IF f.masked THEN 4 ELSE 0)
           head == [op |-> f.op, fin |-> f.fin, rsv |-> f.rsv]
           size == [masked |-> f.masked, code |-> f.code, size |-> n]
           a == <<head, size>>
           b == [i \in 1 .. m |-> [at |-> i, size |-> n]]
           c == [i \in DOMAIN f.payload |-> [unit |-> f.payload[i], at |-> (i - 1) % 4]]
           Values == {head, size} \cup {b[i] : i \in 1 .. m} \cup {c[i] : i \in DOMAIN f.payload}
<1>1. f.payload \in Seq(Frames!Units) /\ n \in Nat /\ DOMAIN f.payload = 1 .. n
  BY FrameFields
<1>2. m \in Nat /\ h = 2 + m
  BY FrameFields DEF Frames!ExtendedLength, HeadSize
<1>3. B \in Seq(FrameByte)
  BY FrameType
<1>4. B = a \o b \o c
  BY DEF Frames!FrameBytes
<1>5. a \in Seq(Values) /\ Len(a) = 2 /\ a[1] = head /\ a[2] = size
  <2> HIDE DEF head, size, b, c
  <2>. QED
    OBVIOUS
<1> HIDE DEF m
<1>6. b \in Seq(Values) /\ Len(b) = m /\ \A i \in 1 .. m : b[i] = [at |-> i, size |-> n]
  <2>1. \A i \in 1 .. m : b[i] = [at |-> i, size |-> n]
    OBVIOUS
  <2>2. b \in [1 .. m -> Values]
    OBVIOUS
  <2> HIDE DEF Values, b
  <2>. QED
    BY <1>2, <2>1, <2>2
<1>7. c \in Seq(Values) /\ Len(c) = n /\ \A i \in 1 .. n : c[i] = [unit |-> f.payload[i], at |-> (i - 1) % 4]
  <2>1. \A i \in 1 .. n : c[i] = [unit |-> f.payload[i], at |-> (i - 1) % 4]
    BY <1>1
  <2>2. c \in [1 .. n -> Values]
    BY <1>1
  <2> HIDE DEF Values, c
  <2>. QED
    BY <1>1, <2>1, <2>2
<1> HIDE DEF Values, head, size, a, b, c, B
<1> DEFINE ab == a \o b
<1>8. /\ ab \in Seq(Values) /\ Len(ab) = 2 + m
      /\ \A j \in 1 .. 2 : ab[j] = a[j]
      /\ \A j \in 1 .. m : ab[2 + j] = b[j]
  <2>1. a \in Seq(Values) /\ b \in Seq(Values)
    BY <1>5, <1>6
  <2>2. /\ a \o b \in Seq(Values) /\ Len(a \o b) = Len(a) + Len(b)
        /\ \A j \in 1 .. Len(a) : (a \o b)[j] = a[j]
        /\ \A j \in 1 .. Len(b) : (a \o b)[Len(a) + j] = b[j]
    BY <2>1, Concatenation
  <2>. QED
    BY <1>5, <1>6, <2>2, Zenon
<1>9. B = ab \o c
  BY <1>4
<1> HIDE DEF ab
<1>10. /\ Len(B) = h + n
       /\ \A j \in 1 .. h : B[j] = ab[j]
       /\ \A j \in 1 .. n : B[h + j] = c[j]
  <2>1. /\ Len(ab \o c) = Len(ab) + Len(c)
        /\ \A j \in 1 .. Len(ab) : (ab \o c)[j] = ab[j]
        /\ \A j \in 1 .. Len(c) : (ab \o c)[Len(ab) + j] = c[j]
    <3>1. ab \in Seq(Values) /\ c \in Seq(Values)
      BY <1>7, <1>8
    <3>. QED
      BY <3>1, Concatenation
  <2>2. Len(ab) = h /\ Len(c) = n
    BY <1>2, <1>7, <1>8
  <2>. QED
    BY <1>9, <2>1, <2>2, Zenon
<1>11. B[1] = head /\ B[2] = size
  <2>1. 1 \in 1 .. h /\ 2 \in 1 .. h /\ 1 \in 1 .. 2 /\ 2 \in 1 .. 2
    BY <1>2
  <2>2. B[1] = ab[1] /\ B[2] = ab[2]
    BY <1>10, <2>1
  <2>3. ab[1] = a[1] /\ ab[2] = a[2]
    BY <1>8, <2>1
  <2>. QED
    BY <1>5, <2>2, <2>3
<1>12. \A i \in 1 .. h - 2 : B[2 + i] = [at |-> i, size |-> n]
  <2> SUFFICES ASSUME NEW i \in 1 .. m PROVE B[2 + i] = [at |-> i, size |-> n]
    BY <1>2
  <2>1. 2 + i \in 1 .. h
    BY <1>2
  <2>. QED
    BY <1>6, <1>8, <1>10, <2>1, Zenon
<1>13. \A i \in 1 .. n : B[h + i] = [unit |-> f.payload[i], at |-> (i - 1) % 4]
  BY <1>7, <1>10, Zenon
<1>. QED
  <2>1. h \in Nat /\ h >= 2
    BY <1>2
  <2> HIDE DEF h
  <2>. QED
    BY <1>1, <1>3, <1>10, <1>11, <1>12, <1>13, <2>1, Zenon DEF B, head, size, h, AreBytes

\* The places after which the frames begin.
FrameSeqs(input) == [i \in DOMAIN input.frames |-> Frames!FrameBytes(input.frames[i])]
Starts(input) ==
    CHOOSE P \in [1 .. Len(input.frames) + 1 -> Nat] :
        LaidOut(FramesOf(input), FrameSeqs(input), Len(input.frames), P)

\* The bytes of every frame stand where it starts.
LEMMA StartsLayOut ==
    ASSUME NEW input \in Inputs
    PROVE  LET T == FramesOf(input)
               P == Starts(input)
               n == Len(input.frames)
           IN /\ T \in Seq(FrameByte) /\ Len(T) \in Nat /\ n \in Nat
              /\ P \in [1 .. n + 1 -> Nat] /\ P[1] = 0 /\ P[n + 1] = Len(T)
              /\ \A k \in 1 .. n :
                    LET B == Frames!FrameBytes(input.frames[k])
                    IN /\ input.frames[k] \in Frames!Frame
                       /\ P[k + 1] = P[k] + Len(B) /\ P[k + 1] <= Len(T)
                       /\ \A j \in 1 .. Len(B) : T[P[k] + j] = B[j]
<1> DEFINE T == FramesOf(input)
           P == Starts(input)
           n == Len(input.frames)
           s == FrameSeqs(input)
<1>1. input.frames \in Seq(Frames!Frame) /\ n \in Nat /\ DOMAIN input.frames = 1 .. n
  BY InputType
<1>2. \A k \in 1 .. n : input.frames[k] \in Frames!Frame /\ Frames!FrameBytes(input.frames[k]) \in Seq(FrameByte)
  BY <1>1, FrameType
<1>3. s \in [1 .. n -> Seq(FrameByte)] /\ \A k \in 1 .. n : s[k] = Frames!FrameBytes(input.frames[k])
  BY <1>1, <1>2 DEF FrameSeqs
<1>4. T \in Seq(FrameByte) /\ Len(T) \in Nat
  BY FramesOfType
<1>5. T = FlattenSeq(s)
  BY DEF FramesOf, FrameSeqs
<1> HIDE DEF s, T
<1>6. \E Q \in [1 .. n + 1 -> Nat] : LaidOut(T, s, n, Q)
  BY <1>1, <1>3, <1>5, FlattenLaysOut
<1>7. P \in [1 .. n + 1 -> Nat] /\ LaidOut(T, s, n, P)
  BY <1>6, Zenon DEF Starts, T, s
<1>. QED
  BY <1>1, <1>2, <1>3, <1>4, <1>7, Zenon DEF LaidOut, T

\* e bytes of the k-th frame have been consumed, and d of all.
Ahead(input, k, e, d) ==
    LET T == FramesOf(input)
        c == Starts(input)[k] + e
    IN c <= d /\ d <= Len(T) /\ chunk = Slice(T, c, d) /\ stream = Slice(T, d, Len(T))

\* The first bytes of the chunk are the next ones of the frame.
LEMMA NextBytes ==
    ASSUME NEW input \in Inputs, NEW k \in 1 .. Len(input.frames), NEW e \in Nat, NEW d \in Nat,
           Ahead(input, k, e, d), NEW c \in 0 .. Len(chunk)
    PROVE  LET B == Frames!FrameBytes(input.frames[k])
               T == FramesOf(input)
           IN e + c <= Len(B) =>
                 /\ SubSeq(chunk, 1, c) = Slice(B, e, e + c)
                 /\ Frames!After(c) = Slice(T, Starts(input)[k] + (e + c), d)
                 /\ Starts(input)[k] + (e + c) <= d
<1> DEFINE T == FramesOf(input)
           B == Frames!FrameBytes(input.frames[k])
           p == Starts(input)[k]
<1>1. /\ T \in Seq(FrameByte) /\ Len(T) \in Nat /\ p \in Nat
      /\ B \in Seq(FrameByte) /\ Len(B) \in Nat /\ p + Len(B) <= Len(T)
      /\ \A j \in 1 .. Len(B) : T[p + j] = B[j]
  <2>1. /\ T \in Seq(FrameByte) /\ Len(T) \in Nat /\ Len(input.frames) \in Nat
        /\ Starts(input) \in [1 .. Len(input.frames) + 1 -> Nat]
        /\ input.frames[k] \in Frames!Frame
        /\ Starts(input)[k + 1] = p + Len(B) /\ Starts(input)[k + 1] <= Len(T)
        /\ \A j \in 1 .. Len(B) : T[p + j] = B[j]
    BY StartsLayOut, Zenon
  <2>2. B \in Seq(FrameByte)
    BY <2>1, FrameType
  <2>3. k \in 1 .. Len(input.frames) + 1
    BY <2>1
  <2> HIDE DEF T, B
  <2>4. p \in Nat
    BY <2>1, <2>3
  <2>5. Len(B) \in Nat
    BY <2>2
  <2>6. p + Len(B) <= Len(T)
    BY <2>1, Zenon
  <2>. QED
    BY <2>1, <2>2, <2>4, <2>5, <2>6, Zenon
<1>2. p + e <= d /\ d <= Len(T) /\ chunk = Slice(T, p + e, d)
  BY DEF Ahead
<1> HIDE DEF T, B, p
<1> SUFFICES ASSUME e + c <= Len(B)
             PROVE  /\ SubSeq(chunk, 1, c) = Slice(B, e, e + c)
                    /\ Frames!After(c) = Slice(T, p + (e + c), d)
                    /\ p + (e + c) <= d
  BY DEF T, B, p
<1>3. Len(chunk) = d - (p + e) /\ c \in Nat /\ c <= d - (p + e)
  BY <1>1, <1>2 DEF Slice
<1>4. Frames!After(c) = Slice(T, p + (e + c), d)
  BY <1>1, <1>2, <1>3 DEF Slice, Frames!After
<1>5. \A i \in 1 .. c : e + i \in 1 .. Len(B) /\ (p + e) + i = p + (e + i)
  BY <1>1, <1>3, SMTT(60)
<1>6. \A i \in 1 .. c : T[(p + e) + i] = B[e + i]
  BY <1>1, <1>5
<1>7. SubSeq(chunk, 1, c) = Slice(T, p + e, (p + e) + c)
  BY <1>1, <1>2, <1>3 DEF Slice
<1>8. Slice(T, p + e, (p + e) + c) = [i \in 1 .. c |-> T[(p + e) + i]]
  <2>1. ((p + e) + c) - (p + e) = c
    BY <1>1, <1>3
  <2>. QED
    BY <2>1, Zenon DEF Slice
<1>9. Slice(B, e, e + c) = [i \in 1 .. c |-> B[e + i]]
  <2>1. (e + c) - e = c
    BY <1>3
  <2>. QED
    BY <2>1, Zenon DEF Slice
<1>10. SubSeq(chunk, 1, c) = Slice(B, e, e + c)
  BY <1>6, <1>7, <1>8, <1>9, Zenon
<1>. QED
  BY <1>1, <1>3, <1>4, <1>10

\* Behind a frame the next one begins; after the last one there is nothing.
LEMMA NextFrame ==
    ASSUME NEW input \in Inputs, NEW k \in 1 .. Len(input.frames)
    PROVE  /\ Starts(input)[k + 1] + 0 = Starts(input)[k] + Len(Frames!FrameBytes(input.frames[k]))
           /\ Starts(input)[k] + 2 <= Len(FramesOf(input))
<1>1. /\ Starts(input) \in [1 .. Len(input.frames) + 1 -> Nat] /\ Len(input.frames) \in Nat
      /\ input.frames[k] \in Frames!Frame
      /\ Starts(input)[k + 1] = Starts(input)[k] + Len(Frames!FrameBytes(input.frames[k]))
      /\ Starts(input)[k + 1] <= Len(FramesOf(input)) /\ Len(FramesOf(input)) \in Nat
  BY StartsLayOut
<1>2. Len(Frames!FrameBytes(input.frames[k])) \in Nat /\ Len(Frames!FrameBytes(input.frames[k])) >= 2
  <2> DEFINE f == input.frames[k]
  <2>1. f \in Frames!Frame
    BY <1>1
  <2> HIDE DEF f
  <2>2. /\ Len(Frames!FrameBytes(f)) = HeadSize(f) + Len(f.payload)
        /\ Len(f.payload) \in Nat /\ HeadSize(f) \in Nat /\ HeadSize(f) >= 2
    BY <2>1, FrameLayout, Zenon DEF AreBytes
  <2>3. Len(Frames!FrameBytes(f)) \in Nat /\ Len(Frames!FrameBytes(f)) >= 2
    BY <2>2
  <2>. QED
    BY <2>3 DEF f
<1>3. Starts(input)[k] \in Nat
  BY <1>1
<1>. QED
  BY <1>1, <1>2, <1>3

-----------------------------------------------------------------------------
(* The invariant of the frames.                                            *)

\* What the frames before the k-th mean.
Before(input, k) == Meanings(input.frames)[k - 1]

\* What the parser has of a message is what is open.
Holds(message, open) ==
    IF open = Frames!NoMessage THEN message = Frames!NoMessage
    ELSE \E key \in Nat : message = [op |-> open.op, payload |-> open.payload, key |-> key,
                                     inPoint |-> Ends(open.payload)]

\* The header of a frame, its size aside, and its size.
IsGoodHeader(f, open) ==
    /\ f.masked /\ ~ f.rsv
    /\ f.op \in Frames!DataOps \cup Frames!ControlOps
    /\ IF IsControl(f) THEN f.fin ELSE (f.op = "continuation") = (open # Frames!NoMessage)
    /\ IsControl(f) => f.code = "small"
IsGoodSize(f) ==
    /\ f.code = "16bit" => Len(f.payload) > PayloadBasic
    /\ f.code = "64bit" => Len(f.payload) > PayloadExtended

\* Where the parser is in the k-th frame, of which e bytes have been consumed.
InBasic(input, k, e) ==
    /\ parse = "basic" /\ extended = <<>> /\ frameNeeded = 2 - e
    /\ \/ e = 0 /\ basic = <<>>
       \/ e = 1 /\ k <= Len(input.frames) /\ basic = Slice(Frames!FrameBytes(input.frames[k]), 0, 1)
    /\ Holds(data, Before(input, k).open)

InExtended(input, k, e) ==
    LET f == input.frames[k]
    IN /\ parse = "extended" /\ k <= Len(input.frames)
       /\ 2 <= e /\ e < HeadSize(f) /\ frameNeeded = HeadSize(f) - e
       /\ basic = Slice(Frames!FrameBytes(f), 0, 2) /\ extended = Slice(Frames!FrameBytes(f), 2, e)
       /\ IsGoodHeader(f, Before(input, k).open)
       /\ Holds(data, Before(input, k).open)

\* The message has i units of the frame's payload.
Current(input, k, i) ==
    LET f == input.frames[k]
        open == Before(input, k).open
        part == Part(f, open, i)
    IN /\ k <= Len(input.frames) /\ i <= Len(f.payload)
       /\ basic = Slice(Frames!FrameBytes(f), 0, 2)
       /\ IsGoodFrame(f, open)
       /\ ~ IsControl(f) => Len(Whole(f, open)) <= MaxMessage
       /\ KindOf(f, open) = "text" => IsGoodText(part, FALSE)
       /\ currentMsg = IF IsControl(f) THEN "control" ELSE "data"
       /\ Frames!CurrentMsg = [op |-> KindOf(f, open), payload |-> part, key |-> i % 4, inPoint |-> Ends(part)]
       /\ IsControl(f) => Holds(data, open)

InPayload(input, k, e) ==
    \E i \in Nat : /\ e = HeadSize(input.frames[k]) + i
                   /\ parse = "application" /\ frameNeeded = Len(input.frames[k].payload) - i
                   /\ Current(input, k, i)

InReady(input, k, e) ==
    LET f == input.frames[k]
    IN /\ e = HeadSize(f) + Len(f.payload)
       /\ parse = "ready" /\ frameNeeded = 0
       /\ Current(input, k, Len(f.payload))
       /\ f.fin /\ ~ IsRefused(f, Before(input, k).open)

\* The frames before the k-th have been delivered.
Steady(input, k) == ~ Before(input, k).failed /\ delivered = Before(input, k).out

Reading(input, k, e, d) ==
    /\ ~ error
    /\ Ahead(input, k, e, d)
    /\ InBasic(input, k, e) \/ InExtended(input, k, e) \/ InPayload(input, k, e) \/ InReady(input, k, e)

Stopped(input, k) == error /\ k <= Len(input.frames) /\ IsRefused(input.frames[k], Before(input, k).open)

FramesInv(input) ==
    \E k \in 1 .. Len(input.frames) + 1 :
        Steady(input, k) /\ (Stopped(input, k) \/ \E e, d \in Nat : Reading(input, k, e, d))

Idle ==
    /\ parse = "basic" /\ basic = <<>> /\ extended = <<>> /\ frameNeeded = 2
    /\ data = Frames!NoMessage /\ delivered = <<>> /\ ~ error

FInv ==
    /\ error \in BOOLEAN
    /\ \E input \in Inputs :
          /\ sent = input
          /\ ~ upgraded => Idle
          /\ upgraded => FramesInv(input)

-----------------------------------------------------------------------------
(* What the steps need to know.                                            *)

\* What a step consumes is what it needs, or what there is.
LEMMA WantedIs ==
    ASSUME NEW S, chunk \in Seq(S), frameNeeded \in Nat
    PROVE  Frames!Wanted = IF frameNeeded <= Len(chunk) THEN frameNeeded ELSE Len(chunk)
<1>1. Len(chunk) \in Nat
  OBVIOUS
<1> DEFINE least == IF frameNeeded <= Len(chunk) THEN frameNeeded ELSE Len(chunk)
<1>2. \A x \in {frameNeeded, Len(chunk)} : (\A y \in {frameNeeded, Len(chunk)} : x <= y) <=> x = least
  BY <1>1
<1>3. least \in {frameNeeded, Len(chunk)}
  OBVIOUS
<1> HIDE DEF least
<1>4. Frames!Wanted = least
  BY <1>2, <1>3 DEF Frames!Wanted, Frames!Min
<1>. QED
  BY <1>4 DEF least

\* The size is in order if it is minimal, since it fits its code.
LEMMA GoodFrameIs ==
    ASSUME NEW f \in Frames!Frame, NEW open
    PROVE  IsGoodFrame(f, open) <=> IsGoodHeader(f, open) /\ IsGoodSize(f)
<1> DEFINE n == Len(f.payload)
           code == CASE n <= PayloadBasic -> "small"
                     [] n \in PayloadBasic + 1 .. PayloadExtended -> "16bit"
                     [] OTHER -> "64bit"
<1>1. /\ n \in Nat /\ f.code \in {"small", "16bit", "64bit"}
      /\ f.code = "small" => n <= PayloadBasic
      /\ f.code = "16bit" => n <= PayloadExtended
  BY FrameFields
<1>2. code = IF n <= PayloadBasic THEN "small" ELSE IF n <= PayloadExtended THEN "16bit" ELSE "64bit"
  <2>1. CASE n <= PayloadBasic
    BY <1>1, <2>1, SizesAssumption
  <2>2. CASE ~ (n <= PayloadBasic) /\ n <= PayloadExtended
    BY <1>1, <2>2, SizesAssumption
  <2>3. CASE ~ (n <= PayloadBasic) /\ ~ (n <= PayloadExtended)
    BY <1>1, <2>3, SizesAssumption
  <2>. QED
    BY <2>1, <2>2, <2>3
<1>3. IsGoodFrame(f, open) <=> IsGoodHeader(f, open) /\ f.code = code
  BY DEF IsGoodFrame, IsGoodHeader
<1> HIDE DEF code
<1>4. f.code = code <=> IsGoodSize(f)
  BY <1>1, <1>2, SizesAssumption DEF IsGoodSize
<1>. QED
  BY <1>3, <1>4

\* The frames before the k-th, and the k-th itself.
LEMMA FrameFacts ==
    ASSUME NEW input \in Inputs, NEW k \in 1 .. Len(input.frames)
    PROVE  LET f == input.frames[k]
               acc == Before(input, k)
           IN /\ f \in Frames!Frame /\ acc \in Meant /\ acc.open \in Open
              /\ Before(input, k + 1) = Meanings(input.frames)[k]
              /\ Meanings(input.frames)[k] = AddFrame(acc, f)
<1>1. Len(input.frames) \in Nat
  BY MeaningsType
<1>2. k - 1 \in 0 .. Len(input.frames) /\ (k + 1) - 1 = k
  BY <1>1
<1>3. /\ input.frames[k] \in Frames!Frame
      /\ Meanings(input.frames)[k - 1] \in Meant
      /\ Meanings(input.frames)[k] = AddFrame(Meanings(input.frames)[k - 1], input.frames[k])
  BY <1>2, MeaningsType
<1>. QED
  BY <1>2, <1>3 DEF Before, Meant

\* Where no text of several frames stops inside a character, the parser refuses what the
\* protocol forbids, nothing else.
LEMMA RefusedIsForbidden ==
    ASSUME FragmentedTextsEnd, NEW input \in Inputs, NEW k \in 1 .. Len(input.frames)
    PROVE  IsForbidden(input.frames[k], Before(input, k).open)
              <=> IsRefused(input.frames[k], Before(input, k).open)
<1>1. PICK f, open : f = input.frames[k] /\ open = Before(input, k).open
  OBVIOUS
<1>2. f \in Frames!Frame /\ open \in Open
  BY <1>1, FrameFacts
<1>3. f.fin \in BOOLEAN
  BY <1>2, FrameFields
<1>4. CASE IsGoodFrame(f, open) /\ KindOf(f, open) = "text" /\ f.fin /\ f.op # "text"
  <2>1. ~ Begins(f, open) /\ open.op = "text"
    BY <1>4 DEF KindOf
  <2>2. f.op = "continuation"
    BY <1>4, <2>1 DEF IsGoodFrame, Begins
  <2>3. Meaning(SubSeq(input.frames, 1, k - 1)).open = open
    <3>1. Len(input.frames) \in Nat
      BY MeaningsType
    <3>2. k - 1 \in 0 .. Len(input.frames)
      BY <3>1
    <3>. QED
      BY <1>1, <3>2, MeaningOfPrefix DEF Before
  <2>4. k \in DOMAIN input.frames
    BY InputType
  <2>5. open.payload \o f.payload = <<>> \/ Last(open.payload \o f.payload) # "lead"
    BY <1>1, <1>4, <2>1, <2>2, <2>3, <2>4 DEF FragmentedTextsEnd
  <2>6. PICK whole : whole = Whole(f, open)
    OBVIOUS
  <2>7. whole = open.payload \o f.payload /\ whole \in Seq(Frames!Units)
    <3>1. Len(f.payload) \in 0 .. Len(f.payload)
      BY <1>2, FrameFields
    <3>. QED
      BY <1>2, <2>1, <2>6, <3>1, PartType DEF Whole
  <2>8. ~ Ends(whole)
    BY <2>5, <2>7 DEF Ends, Last
  <2>9. IsGoodText(whole, TRUE) <=> IsGoodText(whole, FALSE)
    BY <2>7, <2>8, GoodTextIs
  <2>10. f.fin = TRUE /\ (f.fin /\ f.op = "text") = FALSE
    BY <1>3, <1>4
  <2>. QED
    BY <1>1, <2>6, <2>9, <2>10 DEF IsForbidden, IsRefused
<1>5. CASE ~ (IsGoodFrame(f, open) /\ KindOf(f, open) = "text" /\ f.fin /\ f.op # "text")
  <2>1. CASE ~ IsGoodFrame(f, open) \/ KindOf(f, open) # "text"
    BY <1>1, <2>1 DEF IsForbidden, IsRefused
  <2>2. CASE ~ f.fin \/ f.op = "text"
    <3>1. (f.fin /\ f.op = "text") = f.fin
      BY <1>3, <2>2
    <3>. QED
      BY <1>1, <3>1, Zenon DEF IsForbidden, IsRefused
  <2>. QED
    BY <1>5, <2>1, <2>2
<1>. QED
  BY <1>4, <1>5

\* validate_incoming_basic_header accepts the headers that are good, no others.
LEMMA HeaderIsValid ==
    ASSUME NEW f \in Frames!Frame, NEW open \in Open, Holds(data, open),
           NEW header, header[1] = [op |-> f.op, fin |-> f.fin, rsv |-> f.rsv],
           header[2] = [masked |-> f.masked, code |-> f.code, size |-> Len(f.payload)]
    PROVE  Frames!BasicHeaderIsValid(header) <=> IsGoodHeader(f, open)
<1>1. data = Frames!NoMessage <=> open = Frames!NoMessage
  <2>1. \A a, b, c, d : [op |-> a, payload |-> b, key |-> c, inPoint |-> d] # Frames!NoMessage
    BY DEF Frames!NoMessage
  <2>. QED
    BY <2>1 DEF Holds
<1>2. /\ header[1].op = f.op /\ header[1].fin = f.fin /\ header[1].rsv = f.rsv
      /\ header[2].masked = f.masked /\ header[2].code = f.code
  OBVIOUS
<1>3. /\ f.op \in Frames!DataOps \cup Frames!ControlOps \cup Frames!ReservedOps
      /\ f.fin \in BOOLEAN /\ f.rsv \in BOOLEAN /\ f.masked \in BOOLEAN
  BY FrameFields
<1>. QED
  BY <1>1, <1>2, <1>3 DEF Frames!BasicHeaderIsValid, IsGoodHeader, IsControl, Frames!DataOps, Frames!ControlOps,
     Frames!ReservedOps

\* What is ahead are bytes of frames.
LEMMA AheadType ==
    ASSUME NEW input \in Inputs, NEW k \in 1 .. Len(input.frames) + 1, NEW e \in Nat, NEW d \in Nat,
           Ahead(input, k, e, d)
    PROVE  /\ chunk \in Seq(FrameByte) /\ stream \in Seq(FrameByte)
           /\ Starts(input)[k] \in Nat /\ Len(chunk) = d - (Starts(input)[k] + e)
           /\ Len(stream) = Len(FramesOf(input)) - d
<1>1. /\ FramesOf(input) \in Seq(FrameByte) /\ Len(FramesOf(input)) \in Nat /\ Len(input.frames) \in Nat
      /\ Starts(input) \in [1 .. Len(input.frames) + 1 -> Nat]
  BY StartsLayOut
<1> DEFINE T == FramesOf(input)
           p == Starts(input)[k]
<1>2. p \in Nat
  BY <1>1
<1>3. T \in Seq(FrameByte) /\ Len(T) \in Nat
  BY <1>1
<1>4. p + e <= d /\ d <= Len(T) /\ chunk = Slice(T, p + e, d) /\ stream = Slice(T, d, Len(T))
  BY DEF Ahead
<1> HIDE DEF T, p
<1>5. /\ chunk \in Seq(FrameByte) /\ stream \in Seq(FrameByte)
      /\ Len(chunk) = d - (p + e) /\ Len(stream) = Len(T) - d
  BY <1>2, <1>3, <1>4 DEF Slice
<1>. QED
  BY <1>2, <1>5 DEF T, p

\* At the beginning of a frame there is one if there is a byte.
LEMMA ThereIsFrame ==
    ASSUME NEW input \in Inputs, NEW k \in 1 .. Len(input.frames) + 1, NEW e \in Nat, NEW d \in Nat,
           Ahead(input, k, e, d), chunk # <<>>
    PROVE  k \in 1 .. Len(input.frames)
<1> DEFINE n == Len(input.frames)
           T == FramesOf(input)
<1> SUFFICES ASSUME k = n + 1 PROVE FALSE
  BY StartsLayOut
<1>1. Starts(input)[n + 1] = Len(T) /\ Len(T) \in Nat
  BY StartsLayOut
<1>2. Len(chunk) = d - (Len(T) + e) /\ chunk \in Seq(FrameByte)
  BY <1>1, AheadType, SMTT(60)
<1>3. d <= Len(T)
  BY DEF Ahead
<1>4. Len(chunk) # 0 /\ Len(chunk) \in Nat
  BY <1>2
<1> HIDE DEF T
<1>. QED
  BY <1>1, <1>2, <1>3, <1>4

\* A step takes the next bytes of the frame, as many as it needs or as there are.
Takes(input, k, e, d, c) ==
    /\ c = Frames!Wanted
    /\ c <= frameNeeded /\ c <= Len(chunk)
    /\ frameNeeded > 0 /\ chunk # <<>> => c > 0
    /\ SubSeq(chunk, 1, c) = Slice(Frames!FrameBytes(input.frames[k]), e, e + c)
    /\ chunk' = Frames!After(c) /\ stream' = stream => Ahead(input, k, e + c, d)'

\* Every step takes bytes of the frame only.
LEMMA StepTakes ==
    ASSUME NEW input \in Inputs, NEW k \in 1 .. Len(input.frames), NEW e \in Nat, NEW d \in Nat,
           Ahead(input, k, e, d), frameNeeded \in Nat,
           e + frameNeeded <= Len(Frames!FrameBytes(input.frames[k]))
    PROVE  \E c \in Nat : Takes(input, k, e, d, c)
<1>1. chunk \in Seq(FrameByte) /\ Len(chunk) \in Nat
  <2>1. k \in 1 .. Len(input.frames) + 1
    BY StartsLayOut
  <2>2. chunk \in Seq(FrameByte)
    BY <2>1, AheadType
  <2>. QED
    BY <2>2
<1>2. PICK c \in Nat : c = Frames!Wanted /\ c = IF frameNeeded <= Len(chunk) THEN frameNeeded ELSE Len(chunk)
  BY <1>1, WantedIs
<1>3. c <= frameNeeded /\ c <= Len(chunk) /\ (frameNeeded > 0 /\ chunk # <<>> => c > 0)
  BY <1>1, <1>2
<1>4. e + c <= Len(Frames!FrameBytes(input.frames[k]))
  <2> DEFINE B == Frames!FrameBytes(input.frames[k])
  <2>1. Len(B) \in Nat
    <3>1. input.frames[k] \in Frames!Frame
      BY FrameFacts
    <3>2. B \in Seq(FrameByte)
      BY <3>1, FrameType
    <3> HIDE DEF B
    <3>. QED
      BY <3>2
  <2> HIDE DEF B
  <2>2. e + frameNeeded <= Len(B)
    BY DEF B
  <2>3. e + c <= Len(B)
    BY <1>3, <2>1, <2>2
  <2>. QED
    BY <2>3 DEF B
<1>5. c \in 0 .. Len(chunk)
  BY <1>1, <1>3
<1>6. /\ SubSeq(chunk, 1, c) = Slice(Frames!FrameBytes(input.frames[k]), e, e + c)
      /\ Frames!After(c) = Slice(FramesOf(input), Starts(input)[k] + (e + c), d)
      /\ Starts(input)[k] + (e + c) <= d
  BY <1>4, <1>5, NextBytes
<1>7. chunk' = Frames!After(c) /\ stream' = stream => Ahead(input, k, e + c, d)'
  BY <1>6, Zenon DEF Ahead
<1>. QED
  BY <1>2, <1>3, <1>6, <1>7, Zenon DEF Takes

\* The frame that is being read.
Frm(input, k, f, B, open) ==
    /\ f = input.frames[k] /\ B = Frames!FrameBytes(f) /\ open = Before(input, k).open
    /\ f \in Frames!Frame /\ open \in Open /\ AreBytes(B, f)
    /\ k <= Len(input.frames)

\* There is a frame to be read.
LEMMA TheFrame ==
    ASSUME NEW input \in Inputs, NEW k \in 1 .. Len(input.frames)
    PROVE  \E f, B, open : Frm(input, k, f, B, open)
<1>1. input.frames[k] \in Frames!Frame /\ Before(input, k).open \in Open
  BY FrameFacts
<1>2. AreBytes(Frames!FrameBytes(input.frames[k]), input.frames[k])
  BY <1>1, FrameLayout
<1>3. k <= Len(input.frames)
  BY StartsLayOut
<1>. QED
  BY <1>1, <1>2, <1>3, Zenon DEF Frm

\* copy_basic_header_bytes.
LEMMA BasicHeaderKeeps ==
    ASSUME NEW input \in Inputs, NEW k \in 1 .. Len(input.frames) + 1, NEW e \in Nat, NEW d \in Nat,
           Steady(input, k), ~ error, Ahead(input, k, e, d), InBasic(input, k, e),
           Frames!ReadBasicHeader, stream' = stream
    PROVE  FramesInv(input)'
<1>1. e \in {0, 1} /\ frameNeeded = 2 - e /\ extended = <<>>
  BY DEF InBasic
<1>2. chunk # <<>>
  BY <1>1 DEF Frames!ReadBasicHeader, Frames!Looping
<1>3. k \in 1 .. Len(input.frames)
  BY <1>2, ThereIsFrame
<1>4. PICK f, B, open : Frm(input, k, f, B, open)
  BY <1>3, TheFrame
<1>5. Holds(data, open)
  BY <1>4 DEF InBasic, Frm
<1>6. B \in Seq(FrameByte) /\ Len(B) \in Nat /\ Len(B) >= 2 /\ HeadSize(f) \in Nat
  BY <1>4, SMTT(60) DEF Frm, AreBytes
<1>7. PICK c \in Nat : Takes(input, k, e, d, c)
  <2>1. frameNeeded \in Nat /\ e + frameNeeded <= Len(B)
    BY <1>1, <1>6
  <2>. QED
    BY <1>3, <1>4, <2>1, StepTakes DEF Frm
<1>8. c = Frames!Wanted /\ c >= 1 /\ c <= 2 - e
  BY <1>1, <1>2, <1>7 DEF Takes
<1>9. PICK header : header = basic \o SubSeq(chunk, 1, c)
  OBVIOUS
<1>10. header = Slice(B, 0, e + c)
  <2>1. SubSeq(chunk, 1, c) = Slice(B, e, e + c)
    BY <1>4, <1>7 DEF Takes, Frm
  <2>2. basic = Slice(B, 0, e)
    <3>1. Slice(B, 0, 0) = <<>>
      BY DEF Slice
    <3>. QED
      BY <1>4, <3>1 DEF InBasic, Frm
  <2>3. Slice(B, 0, e) \o Slice(B, e, e + c) = Slice(B, 0, e + c)
    <3>1. 0 <= e /\ e <= e + c /\ e + c <= Len(B) /\ 0 \in Nat /\ e + c \in Nat
      BY <1>1, <1>6, <1>8
    <3>. QED
      BY <1>6, <3>1, Slices, SMTT(60)
  <2>. QED
    BY <1>9, <2>1, <2>2, <2>3
<1>11. Len(header) = e + c
  BY <1>1, <1>6, <1>8, <1>10 DEF Slice
<1>12. IF Len(header) < 2
         THEN /\ basic' = header
              /\ chunk' = Frames!After(c)
              /\ frameNeeded' = frameNeeded - c
              /\ UNCHANGED <<parse, extended, data, control, currentMsg, delivered, error>>
         ELSE IF ~ Frames!BasicHeaderIsValid(header)
         THEN Frames!Fail
         ELSE /\ basic' = header
              /\ chunk' = Frames!After(c)
              /\ parse' = "extended"
              /\ frameNeeded' = Frames!ExtendedLength(header[2].code) + 4
              /\ UNCHANGED <<extended, data, control, currentMsg, delivered, error>>
  BY <1>8, <1>9 DEF Frames!ReadBasicHeader
<1>13. CASE Len(header) < 2
  <2>1. e = 0 /\ c = 1
    BY <1>1, <1>8, <1>11, <1>13
  <2>2. /\ basic' = header /\ chunk' = Frames!After(c) /\ frameNeeded' = frameNeeded - c
        /\ UNCHANGED <<parse, extended, data, delivered, error>>
    BY <1>12, <1>13
  <2>3. Ahead(input, k, 1, d)'
    BY <1>7, <2>1, <2>2 DEF Takes
  <2>4. InBasic(input, k, 1)'
    <3>1. parse' = "basic" /\ extended' = <<>> /\ frameNeeded' = 2 - 1
      BY <1>1, <2>1, <2>2 DEF InBasic
    <3>2. basic' = Slice(Frames!FrameBytes(input.frames[k]), 0, 1) /\ k <= Len(input.frames)
      BY <1>4, <1>10, <2>1, <2>2 DEF Frm
    <3>3. Holds(data', Before(input, k).open)
      BY <2>2 DEF InBasic
    <3>. QED
      BY <3>1, <3>2, <3>3 DEF InBasic
  <2>5. Steady(input, k)' /\ ~ error'
    BY <2>2 DEF Steady
  <2>6. Reading(input, k, 1, d)'
    BY <2>3, <2>4, <2>5 DEF Reading
  <2>. QED
    BY <2>5, <2>6 DEF FramesInv
<1>14. CASE ~ (Len(header) < 2)
  <2>1. e + c = 2
    BY <1>1, <1>8, <1>11, <1>14
  <2>2. header = Slice(B, 0, 2)
    BY <1>10, <2>1
  <2>3. header[1] = B[1] /\ header[2] = B[2]
    BY <2>2 DEF Slice
  <2>4. Frames!BasicHeaderIsValid(header) <=> IsGoodHeader(f, open)
    <3>1. /\ header[1] = [op |-> f.op, fin |-> f.fin, rsv |-> f.rsv]
          /\ header[2] = [masked |-> f.masked, code |-> f.code, size |-> Len(f.payload)]
      BY <1>4, <2>3 DEF Frm, AreBytes
    <3>2. f \in Frames!Frame /\ open \in Open
      BY <1>4 DEF Frm
    <3>. QED
      BY <1>5, <3>1, <3>2, HeaderIsValid
  <2>5. CASE ~ IsGoodHeader(f, open)
    <3>1. error' /\ UNCHANGED delivered
      BY <1>12, <1>14, <2>4, <2>5 DEF Frames!Fail
    <3>2. IsRefused(f, open)
      BY <1>4, <2>5, GoodFrameIs DEF IsRefused, Frm
    <3>3. Stopped(input, k)' /\ Steady(input, k)'
      BY <1>4, <3>1, <3>2 DEF Stopped, Steady, Frm
    <3>. QED
      BY <3>3 DEF FramesInv
  <2>6. CASE IsGoodHeader(f, open)
    <3>1. /\ basic' = header /\ chunk' = Frames!After(c)
          /\ parse' = "extended"
          /\ frameNeeded' = Frames!ExtendedLength(header[2].code) + 4
          /\ UNCHANGED <<extended, data, delivered, error>>
      BY <1>12, <1>14, <2>4, <2>6
    <3>2. Ahead(input, k, 2, d)'
      BY <1>7, <2>1, <3>1 DEF Takes
    <3>3. frameNeeded' = HeadSize(f) - 2 /\ 2 < HeadSize(f)
      <4>1. header[2].code = f.code
        BY <1>4, <2>3 DEF Frm, AreBytes
      <4>2. f.masked /\ f.code \in {"small", "16bit", "64bit"}
        BY <1>4, <2>6, FrameFields DEF IsGoodHeader, Frm
      <4>3. Frames!ExtendedLength(f.code) \in Nat
        BY <4>2 DEF Frames!ExtendedLength
      <4>4. HeadSize(f) = 2 + Frames!ExtendedLength(f.code) + 4
        BY <4>2 DEF HeadSize
      <4>. QED
        BY <3>1, <4>1, <4>3, <4>4
    <3>4. InExtended(input, k, 2)'
      <4>1. Slice(B, 2, 2) = <<>>
        BY DEF Slice
      <4>2. extended' = Slice(B, 2, 2) /\ basic' = Slice(B, 0, 2) /\ parse' = "extended"
        BY <1>1, <2>2, <3>1, <4>1
      <4>3. Holds(data', open)
        BY <1>5, <3>1
      <4>. QED
        BY <1>4, <2>6, <3>3, <4>2, <4>3 DEF InExtended, Frm
    <3>5. Steady(input, k)' /\ ~ error'
      BY <3>1 DEF Steady
    <3>6. Reading(input, k, 2, d)'
      BY <3>2, <3>4, <3>5 DEF Reading
    <3>. QED
      BY <3>5, <3>6 DEF FramesInv
  <2>. QED
    BY <2>5, <2>6
<1>. QED
  BY <1>13, <1>14

\* The message at the beginning of the frame's payload.
LEMMA PartAtStart ==
    ASSUME NEW f \in Frames!Frame, NEW open \in Open
    PROVE  LET part == Part(f, open, 0)
           IN /\ part = IF Begins(f, open) THEN <<>> ELSE open.payload
              /\ KindOf(f, open) = "text" => IsGoodText(part, FALSE)
<1> DEFINE before == IF Begins(f, open) THEN <<>> ELSE open.payload
<1>1. before \in Seq(Frames!Units)
  <2>1. CASE Begins(f, open)
    BY <2>1
  <2>2. CASE ~ Begins(f, open)
    BY <2>2, OpenType DEF Begins
  <2>. QED
    BY <2>1, <2>2
<1>2. Part(f, open, 0) = before
  <2>1. Slice(f.payload, 0, 0) = <<>>
    BY DEF Slice
  <2>2. Part(f, open, 0) = before \o <<>>
    BY <2>1 DEF Part
  <2> HIDE DEF before
  <2>. QED
    BY <1>1, <2>2
<1>3. KindOf(f, open) = "text" => IsGoodText(before, FALSE)
  <2>1. CASE Begins(f, open)
    BY <2>1 DEF IsGoodText
  <2>2. CASE ~ Begins(f, open)
    BY <2>2, OpenType DEF Begins, KindOf
  <2>. QED
    BY <2>1, <2>2
<1>. QED
  BY <1>2, <1>3

\* How long the message is with the whole frame.
LEMMA WholeIs ==
    ASSUME NEW f \in Frames!Frame, NEW open \in Open
    PROVE  Len(Whole(f, open)) = Len(f.payload) + (IF Begins(f, open) THEN 0 ELSE Len(open.payload))
<1>1. f.payload \in Seq(Frames!Units) /\ Len(f.payload) \in 0 .. Len(f.payload)
  BY FrameFields
<1>2. Whole(f, open) = (IF Begins(f, open) THEN <<>> ELSE open.payload) \o f.payload
  BY <1>1, PartType
<1>3. CASE Begins(f, open)
  BY <1>1, <1>2, <1>3
<1>4. CASE ~ Begins(f, open)
  <2>1. open.payload \in Seq(Frames!Units)
    BY <1>4, OpenType DEF Begins
  <2> DEFINE a == open.payload
             b == f.payload
  <2>2. a \in Seq(Frames!Units) /\ b \in Seq(Frames!Units) /\ Whole(f, open) = a \o b
    BY <1>1, <1>2, <1>4, <2>1
  <2> HIDE DEF a, b
  <2>3. Len(Whole(f, open)) = Len(b) + Len(a)
    BY <2>2
  <2>. QED
    BY <1>4, <2>3 DEF a, b
<1>. QED
  BY <1>3, <1>4

\* StartFrame begins the message of the frame, or goes on with the one that is open.
LEMMA StartsMessage ==
    ASSUME NEW f \in Frames!Frame, NEW open \in Open, Holds(data, open),
           Frames!Op = f.op, Frames!StartFrame
    PROVE  /\ currentMsg' = IF IsControl(f) THEN "control" ELSE "data"
           /\ Frames!CurrentMsg' = [op |-> KindOf(f, open), payload |-> Part(f, open, 0), key |-> 0,
                                    inPoint |-> Ends(Part(f, open, 0))]
           /\ IsControl(f) => data' = data
<1>1. Part(f, open, 0) = IF Begins(f, open) THEN <<>> ELSE open.payload
  BY PartAtStart
<1>2. ~ Ends(<<>>) /\ Ends(<<>>) \in BOOLEAN
  BY DEF Ends
<1>3. CASE IsControl(f)
  <2>1. /\ control' = [op |-> f.op, payload |-> <<>>, key |-> 0, inPoint |-> FALSE]
        /\ currentMsg' = "control" /\ data' = data
    BY <1>3 DEF Frames!StartFrame, IsControl
  <2>2. KindOf(f, open) = f.op /\ Part(f, open, 0) = <<>> /\ Ends(<<>>) = FALSE
    BY <1>1, <1>2, <1>3 DEF KindOf, Begins
  <2>. QED
    BY <1>3, <2>1, <2>2 DEF Frames!CurrentMsg
<1>4. CASE ~ IsControl(f) /\ open = Frames!NoMessage
  <2>1. data = Frames!NoMessage
    BY <1>4 DEF Holds
  <2>2. /\ data' = [op |-> f.op, payload |-> <<>>, key |-> 0, inPoint |-> FALSE]
        /\ currentMsg' = "data"
    BY <1>4, <2>1 DEF Frames!StartFrame, IsControl
  <2>3. KindOf(f, open) = f.op /\ Part(f, open, 0) = <<>> /\ Ends(<<>>) = FALSE
    BY <1>1, <1>2, <1>4 DEF KindOf, Begins
  <2>. QED
    BY <1>4, <2>2, <2>3 DEF Frames!CurrentMsg
<1>5. CASE ~ IsControl(f) /\ open # Frames!NoMessage
  <2>1. PICK a, b, key, p : /\ data = [op |-> a, payload |-> b, key |-> key, inPoint |-> p]
                            /\ a = open.op /\ b = open.payload /\ p = Ends(open.payload)
    BY <1>5 DEF Holds
  <2>2. data # Frames!NoMessage
    BY <2>1 DEF Frames!NoMessage
  <2>3. data' = [data EXCEPT !.key = 0] /\ currentMsg' = "data"
    BY <1>5, <2>2 DEF Frames!StartFrame, IsControl
  <2>4. data' = [op |-> a, payload |-> b, key |-> 0, inPoint |-> p]
    BY <2>1, <2>3
  <2>5. KindOf(f, open) = a /\ Part(f, open, 0) = b
    BY <1>1, <1>5, <2>1 DEF KindOf, Begins
  <2>. QED
    BY <1>5, <2>1, <2>3, <2>4, <2>5 DEF Frames!CurrentMsg
<1>. QED
  BY <1>3, <1>4, <1>5

\* copy_extended_header_bytes.
LEMMA ExtendedHeaderKeeps ==
    ASSUME NEW input \in Inputs, NEW k \in 1 .. Len(input.frames) + 1, NEW e \in Nat, NEW d \in Nat,
           Steady(input, k), ~ error, Ahead(input, k, e, d), InExtended(input, k, e),
           Frames!ReadExtendedHeader, stream' = stream
    PROVE  FramesInv(input)'
<1>1. k \in 1 .. Len(input.frames)
  BY DEF InExtended
<1>2. PICK f, B, open : Frm(input, k, f, B, open)
  BY <1>1, TheFrame
<1>3. /\ 2 <= e /\ e < HeadSize(f) /\ frameNeeded = HeadSize(f) - e
      /\ basic = Slice(B, 0, 2) /\ extended = Slice(B, 2, e)
      /\ IsGoodHeader(f, open) /\ Holds(data, open) /\ parse = "extended"
  BY <1>2 DEF InExtended, Frm
<1>4. /\ B \in Seq(FrameByte) /\ Len(B) \in Nat /\ HeadSize(f) \in Nat /\ Len(f.payload) \in Nat
      /\ Len(B) = HeadSize(f) + Len(f.payload) /\ HeadSize(f) <= Len(B)
  BY <1>2 DEF Frm, AreBytes
<1>5. PICK c \in Nat : Takes(input, k, e, d, c)
  <2>1. frameNeeded \in Nat /\ e + frameNeeded <= Len(B)
    BY <1>3, <1>4
  <2>. QED
    BY <1>1, <1>2, <2>1, StepTakes DEF Frm
<1>6. c = Frames!Wanted /\ c <= frameNeeded
  BY <1>5 DEF Takes
<1>7. PICK header : header = extended \o SubSeq(chunk, 1, c)
  OBVIOUS
<1>8. header = Slice(B, 2, e + c)
  <2>1. SubSeq(chunk, 1, c) = Slice(B, e, e + c)
    BY <1>2, <1>5 DEF Takes, Frm
  <2>2. Slice(B, 2, e) \o Slice(B, e, e + c) = Slice(B, 2, e + c)
    <3>1. 2 <= e /\ e <= e + c /\ e + c <= Len(B) /\ 2 \in Nat /\ e + c \in Nat
      BY <1>3, <1>4, <1>6
    <3>. QED
      BY <1>4, <3>1, Slices, SMTT(60)
  <2>. QED
    BY <1>3, <1>7, <2>1, <2>2
<1>9. PICK size : size = Frames!PayloadSize(header)
  OBVIOUS
<1>10. IF c < frameNeeded
         THEN /\ extended' = header
              /\ chunk' = Frames!After(c)
              /\ frameNeeded' = frameNeeded - c
              /\ UNCHANGED <<parse, basic, data, control, currentMsg, delivered, error>>
         ELSE IF ~ Frames!IsMinimal(size) \/ Frames!TooBig(size)
         THEN Frames!Fail
         ELSE /\ extended' = header
              /\ chunk' = Frames!After(c)
              /\ parse' = "application"
              /\ frameNeeded' = size
              /\ Frames!StartFrame
              /\ UNCHANGED <<basic, delivered, error>>
  BY <1>6, <1>7, <1>9 DEF Frames!ReadExtendedHeader
<1>11. CASE c < frameNeeded
  <2>1. /\ extended' = header /\ chunk' = Frames!After(c) /\ frameNeeded' = frameNeeded - c
        /\ UNCHANGED <<parse, basic, data, delivered, error>>
    BY <1>10, <1>11
  <2>2. Ahead(input, k, e + c, d)'
    BY <1>5, <2>1 DEF Takes
  <2>3. InExtended(input, k, e + c)'
    <3>1. 2 <= e + c /\ e + c < HeadSize(f) /\ frameNeeded' = HeadSize(f) - (e + c)
      BY <1>3, <1>4, <1>11, <2>1
    <3>2. /\ parse' = "extended" /\ basic' = Slice(B, 0, 2) /\ extended' = Slice(B, 2, e + c)
          /\ Holds(data', open)
      BY <1>3, <1>8, <2>1
    <3>. QED
      BY <1>2, <1>3, <3>1, <3>2 DEF InExtended, Frm
  <2>4. Steady(input, k)' /\ ~ error'
    BY <2>1 DEF Steady
  <2>5. Reading(input, k, e + c, d)'
    BY <2>2, <2>3, <2>4 DEF Reading
  <2>. QED
    BY <2>4, <2>5 DEF FramesInv
<1>12. CASE ~ (c < frameNeeded)
  <2>1. e + c = HeadSize(f)
    <3>1. frameNeeded = HeadSize(f) - e /\ HeadSize(f) \in Nat /\ c <= frameNeeded /\ ~ (c < frameNeeded)
      BY <1>3, <1>4, <1>6, <1>12
    <3>. QED
      BY <3>1
  <2>2. basic[1] = B[1] /\ basic[2] = B[2]
    BY <1>3 DEF Slice
  <2>3. /\ basic[1].op = f.op /\ basic[2].code = f.code /\ basic[2].size = Len(f.payload)
        /\ Frames!Op = f.op
    BY <1>2, <2>2 DEF Frm, AreBytes, Frames!Op
  <2>4. size = Len(f.payload)
    <3>1. CASE f.code = "small"
      BY <1>9, <2>3, <3>1 DEF Frames!PayloadSize
    <3>2. CASE f.code # "small"
      <4>1. HeadSize(f) > 2
        BY <1>3, <1>4
      <4>2. B[2 + 1] = [at |-> 1, size |-> Len(f.payload)]
        BY <1>2, <1>4, <4>1, SMTT(60) DEF Frm, AreBytes
      <4>3. header[1] = B[2 + 1]
        BY <1>4, <1>8, <2>1, <4>1 DEF Slice
      <4>. QED
        BY <1>9, <2>3, <3>2, <4>2, <4>3 DEF Frames!PayloadSize
    <3>. QED
      BY <3>1, <3>2
  <2>5. Frames!IsMinimal(size) <=> IsGoodSize(f)
    BY <2>3, <2>4 DEF Frames!IsMinimal, IsGoodSize
  <2>6. Frames!TooBig(size) <=> ~ IsControl(f) /\ Len(Whole(f, open)) > MaxMessage
    <3>1. CASE IsControl(f)
      BY <2>3, <3>1 DEF Frames!TooBig, IsControl
    <3>2. CASE ~ IsControl(f)
      <4>1. (IF data = Frames!NoMessage THEN 0 ELSE Len(data.payload))
              = IF Begins(f, open) THEN 0 ELSE Len(open.payload)
        <5>1. CASE open = Frames!NoMessage
          BY <1>3, <5>1 DEF Holds, Begins
        <5>2. CASE open # Frames!NoMessage
          <6>1. PICK a, b, key, p : data = [op |-> a, payload |-> b, key |-> key, inPoint |-> p] /\ b = open.payload
            BY <1>3, <5>2 DEF Holds
          <6>2. data # Frames!NoMessage /\ data.payload = b
            BY <6>1 DEF Frames!NoMessage
          <6>. QED
            BY <3>2, <5>2, <6>1, <6>2 DEF Begins
        <5>. QED
          BY <5>1, <5>2
      <4>2. Len(Whole(f, open)) = Len(f.payload) + (IF Begins(f, open) THEN 0 ELSE Len(open.payload))
        BY <1>2, WholeIs DEF Frm
      <4>. QED
        BY <2>3, <2>4, <3>2, <4>1, <4>2 DEF Frames!TooBig, IsControl
    <3>. QED
      BY <3>1, <3>2
  <2>7. IsGoodFrame(f, open) <=> IsGoodSize(f)
    BY <1>2, <1>3, GoodFrameIs DEF Frm
  <2>8. CASE ~ (IsGoodSize(f) /\ ~ (~ IsControl(f) /\ Len(Whole(f, open)) > MaxMessage))
    <3>1. error' /\ UNCHANGED delivered
      BY <1>10, <1>12, <2>5, <2>6, <2>8 DEF Frames!Fail
    <3>2. IsRefused(f, open)
      BY <2>7, <2>8 DEF IsRefused
    <3>3. Stopped(input, k)' /\ Steady(input, k)'
      BY <1>2, <3>1, <3>2 DEF Stopped, Steady, Frm
    <3>. QED
      BY <3>3 DEF FramesInv
  <2>9. CASE IsGoodSize(f) /\ ~ (~ IsControl(f) /\ Len(Whole(f, open)) > MaxMessage)
    <3>1. /\ chunk' = Frames!After(c)
          /\ parse' = "application"
          /\ frameNeeded' = size
          /\ Frames!StartFrame
          /\ UNCHANGED <<basic, delivered, error>>
      <4>1. Frames!IsMinimal(size) /\ ~ Frames!TooBig(size)
        BY <2>5, <2>6, <2>9
      <4>. QED
        BY <1>10, <1>12, <4>1, Zenon
    <3>2. Ahead(input, k, HeadSize(f), d)'
      BY <1>5, <2>1, <3>1 DEF Takes
    <3>3. InPayload(input, k, HeadSize(f))'
      <4>1. Current(input, k, 0)'
        <5>1. /\ f \in Frames!Frame /\ open \in Open /\ k <= Len(input.frames)
              /\ f = input.frames[k] /\ B = Frames!FrameBytes(f) /\ open = Before(input, k).open
          BY <1>2 DEF Frm
        <5>2. /\ currentMsg' = IF IsControl(f) THEN "control" ELSE "data"
              /\ Frames!CurrentMsg' = [op |-> KindOf(f, open), payload |-> Part(f, open, 0), key |-> 0,
                                       inPoint |-> Ends(Part(f, open, 0))]
              /\ IsControl(f) => data' = data
          BY <1>3, <2>3, <3>1, <5>1, StartsMessage
        <5>3. KindOf(f, open) = "text" => IsGoodText(Part(f, open, 0), FALSE)
          BY <5>1, PartAtStart
        <5>4. ~ IsControl(f) => Len(Whole(f, open)) <= MaxMessage
          <6>1. Len(Whole(f, open)) \in Nat
            <7>1. Len(f.payload) \in 0 .. Len(f.payload)
              BY <1>4
            <7>2. Whole(f, open) \in Seq(Frames!Units)
              BY <5>1, <7>1, PartType DEF Whole
            <7>. QED
              BY <7>2
          <6>. QED
            BY <2>9, <6>1, SizesAssumption
        <5>5. basic' = Slice(B, 0, 2) /\ 0 <= Len(f.payload) /\ 0 % 4 = 0
          BY <1>3, <1>4, <3>1
        <5>6. IsGoodFrame(f, open) /\ (IsControl(f) => Holds(data', open))
          <6>1. IsGoodFrame(f, open)
            BY <2>7, <2>9
          <6>2. IsControl(f) => Holds(data', open)
            BY <1>3, <5>2, Zenon
          <6>. QED
            BY <6>1, <6>2
        <5>. QED
          BY <5>1, <5>2, <5>3, <5>4, <5>5, <5>6, Zenon DEF Current
      <4>2. HeadSize(f) = HeadSize(f) + 0 /\ frameNeeded' = Len(f.payload) - 0
        BY <1>4, <2>4, <3>1
      <4>. QED
        BY <1>2, <3>1, <4>1, <4>2 DEF InPayload, Frm
    <3>4. Steady(input, k)' /\ ~ error'
      BY <3>1 DEF Steady
    <3>5. Reading(input, k, HeadSize(f), d)'
      BY <3>2, <3>3, <3>4 DEF Reading
    <3>. QED
      BY <1>4, <3>4, <3>5 DEF FramesInv
  <2>. QED
    BY <2>8, <2>9, Zenon
<1>. QED
  BY <1>11, <1>12

-----------------------------------------------------------------------------
(* The payload.                                                            *)

\* The place in the key, reckoned in parts.
LEMMA KeyGoesOn ==
    /\ \A i \in Nat, j \in Nat \ {0} : ((i % 4) + j - 1) % 4 = (i + j - 1) % 4
    /\ \A i, c \in Nat : ((i % 4) + c) % 4 = (i + c) % 4
OBVIOUS

\* c more units of the payload.
LEMMA PartGoesOn ==
    ASSUME NEW f \in Frames!Frame, NEW open \in Open, NEW i \in Nat, NEW c \in Nat, i + c <= Len(f.payload)
    PROVE  /\ Part(f, open, i + c) = Part(f, open, i) \o Slice(f.payload, i, i + c)
           /\ Part(f, open, i) \in Seq(Frames!Units) /\ Slice(f.payload, i, i + c) \in Seq(Frames!Units)
           /\ Part(f, open, i + c) \in Seq(Frames!Units)
<1>1. f.payload \in Seq(Frames!Units) /\ Len(f.payload) \in Nat
  BY FrameFields
<1>2. i \in 0 .. Len(f.payload) /\ i + c \in 0 .. Len(f.payload)
  BY <1>1
<1>3. Part(f, open, i) \in Seq(Frames!Units) /\ Part(f, open, i + c) \in Seq(Frames!Units)
  BY <1>2, PartType
<1>4. PICK p, b : p = f.payload /\ b = IF Begins(f, open) THEN <<>> ELSE open.payload
  OBVIOUS
<1>5. b \in Seq(Frames!Units)
  <2>1. CASE Begins(f, open)
    BY <1>4, <2>1
  <2>2. CASE ~ Begins(f, open)
    BY <1>4, <2>2, OpenType DEF Begins
  <2>. QED
    BY <2>1, <2>2
<1>6. PICK s, t : s = Slice(p, 0, i) /\ t = Slice(p, i, i + c)
  OBVIOUS
<1>7. s \in Seq(Frames!Units) /\ t \in Seq(Frames!Units)
  <2>1. 0 <= i /\ i <= i + c /\ i + c <= Len(p) /\ i <= Len(p) /\ i + c \in Nat /\ p \in Seq(Frames!Units)
    BY <1>1, <1>2, <1>4
  <2>. QED
    BY <1>6, <2>1, SliceIsSeq
<1>8. Slice(p, 0, i + c) = s \o t
  <2>1. 0 <= i /\ i <= i + c /\ i + c <= Len(p) /\ 0 \in Nat /\ i + c \in Nat /\ p \in Seq(Frames!Units)
    BY <1>1, <1>2, <1>4
  <2>. QED
    BY <1>6, <2>1, Slices
<1>9. b \o (s \o t) = (b \o s) \o t
  BY <1>5, <1>7
<1>. QED
  BY <1>3, <1>4, <1>6, <1>7, <1>8, <1>9 DEF Part

\* The key stands where the units have been masked.
LEMMA UnmaskIs ==
    ASSUME NEW f \in Frames!Frame, NEW B, AreBytes(B, f), NEW i \in Nat, NEW c \in Nat, i + c <= Len(f.payload)
    PROVE  Frames!Unmask(Slice(B, HeadSize(f) + i, HeadSize(f) + i + c), i % 4) = Slice(f.payload, i, i + c)
<1>1. PICK h, p : h = HeadSize(f) /\ p = f.payload
  OBVIOUS
<1>2. /\ h \in Nat /\ Len(p) \in Nat /\ p \in Seq(Frames!Units)
      /\ \A j \in 1 .. Len(p) : B[h + j] = [unit |-> p[j], at |-> (j - 1) % 4]
  BY <1>1, FrameFields DEF AreBytes
<1>3. PICK bytes : bytes = Slice(B, h + i, h + i + c)
  OBVIOUS
<1>4. bytes = [j \in 1 .. c |-> B[(h + i) + j]]
  <2>1. (h + i + c) - (h + i) = c
    BY <1>2
  <2>. QED
    BY <1>3, <2>1, Zenon DEF Slice
<1>5. DOMAIN bytes = 1 .. c
  BY <1>4
<1>6. \A j \in 1 .. c : bytes[j].unit = p[i + j] /\ bytes[j].at = ((i % 4) + j - 1) % 4
  <2> SUFFICES ASSUME NEW j \in 1 .. c PROVE bytes[j].unit = p[i + j] /\ bytes[j].at = ((i % 4) + j - 1) % 4
    OBVIOUS
  <2>1. i + j \in 1 .. Len(p) /\ (h + i) + j = h + (i + j) /\ j \in Nat \ {0}
    BY <1>1, <1>2
  <2>2. bytes[j] = [unit |-> p[i + j], at |-> ((i + j) - 1) % 4]
    BY <1>2, <1>4, <2>1
  <2>3. ((i + j) - 1) % 4 = ((i % 4) + j - 1) % 4
    BY <2>1, KeyGoesOn
  <2>. QED
    BY <2>2, <2>3
<1>7. Frames!Unmask(bytes, i % 4) = [j \in 1 .. c |-> p[i + j]]
  BY <1>5, <1>6, Zenon DEF Frames!Unmask
<1>8. Slice(p, i, i + c) = [j \in 1 .. c |-> p[i + j]]
  <2>1. (i + c) - i = c
    OBVIOUS
  <2>. QED
    BY <2>1, Zenon DEF Slice
<1>. QED
  BY <1>1, <1>3, <1>7, <1>8

\* The validator's part of a step, and what it means for the message.
LEMMA TextSoFar ==
    ASSUME NEW f \in Frames!Frame, NEW open \in Open, NEW i \in Nat, NEW c \in Nat, i + c <= Len(f.payload)
    PROVE  LET part == Part(f, open, i)
               more == Slice(f.payload, i, i + c)
               next == Part(f, open, i + c)
           IN /\ Frames!EndsInPoint(Ends(part), more) = Ends(next)
              /\ IsGoodText(next, FALSE) <=> IsGoodText(part, FALSE) /\ Frames!Decodes(Ends(part), more)
              /\ IsGoodText(Whole(f, open), FALSE) => IsGoodText(next, FALSE)
<1>1. PICK part, more, next : /\ part = Part(f, open, i) /\ more = Slice(f.payload, i, i + c)
                              /\ next = Part(f, open, i + c)
  OBVIOUS
<1>2. /\ next = part \o more
      /\ part \in Seq(Frames!Units) /\ more \in Seq(Frames!Units) /\ next \in Seq(Frames!Units)
  BY <1>1, PartGoesOn
<1>3. Frames!EndsInPoint(Ends(part), more) = Ends(next)
  BY <1>2, TextEnds
<1>4. IsGoodText(next, FALSE) <=> IsGoodText(part, FALSE) /\ Frames!Decodes(Ends(part), more)
  BY <1>2, TextGoesOn
<1>5. IsGoodText(Whole(f, open), FALSE) => IsGoodText(next, FALSE)
  <2>1. PICK n \in Nat : n = Len(f.payload)
    BY FrameFields
  <2>2. i + c <= n
    BY <2>1, Zenon
  <2>3. PICK m \in Nat : m = i + c
    OBVIOUS
  <2>4. n - m \in Nat /\ m + (n - m) = n /\ n <= n
    BY <2>2, <2>3
  <2>5. PICK r \in Nat : (i + c) + r = Len(f.payload) /\ i + c \in Nat /\ (i + c) + r <= Len(f.payload)
    BY <2>1, <2>3, <2>4, Zenon
  <2>6. PICK rest \in Seq(Frames!Units) : Part(f, open, (i + c) + r) = Part(f, open, i + c) \o rest
    BY <2>5, PartGoesOn, ZenonT(60)
  <2>7. Whole(f, open) = next \o rest
    BY <1>1, <2>5, <2>6 DEF Whole
  <2>. QED
    BY <1>2, <2>7, TextGoesOn, ZenonT(60)
<1>. QED
  BY <1>1, <1>3, <1>4, <1>5, Zenon

\* Before the next frame, when this one has not been refused.
LEMMA NextBefore ==
    ASSUME FragmentedTextsEnd, NEW input \in Inputs, NEW k \in 1 .. Len(input.frames), NEW f, NEW B, NEW open,
           Frm(input, k, f, B, open), ~ Before(input, k).failed, ~ IsRefused(f, open)
    PROVE  LET begun == [op |-> KindOf(f, open), payload |-> Whole(f, open)]
               acc == Before(input, k + 1)
           IN /\ ~ acc.failed
              /\ acc.out = IF f.fin THEN Append(Before(input, k).out, begun) ELSE Before(input, k).out
              /\ acc.open = IF ~ f.fin THEN begun ELSE IF IsControl(f) THEN open ELSE Frames!NoMessage
<1>1. PICK acc : acc = Before(input, k)
  OBVIOUS
<1>2. /\ f \in Frames!Frame /\ acc \in Meant /\ acc.open = open /\ ~ acc.failed
      /\ Before(input, k + 1) = AddFrame(acc, f)
  BY <1>1, FrameFacts DEF Frm
<1>3. PICK begun : begun = [op |-> KindOf(f, open), payload |-> Whole(f, open)]
  OBVIOUS
<1>4. ~ IsForbidden(f, open)
  BY RefusedIsForbidden DEF Frm
<1>5. Before(input, k + 1) = IF f.fin
                               THEN [out |-> Append(acc.out, begun), failed |-> FALSE,
                                     open |-> IF IsControl(f) THEN acc.open ELSE Frames!NoMessage]
                               ELSE [acc EXCEPT !.open = begun]
  BY <1>2, <1>3, <1>4, AddFrameIs
<1>6. CASE f.fin
  BY <1>1, <1>2, <1>3, <1>5, <1>6
<1>7. CASE ~ f.fin
  BY <1>1, <1>2, <1>3, <1>5, <1>7 DEF Meant
<1>. QED
  BY <1>6, <1>7

\* All of a frame has been consumed: the next one is ahead.
LEMMA NextAhead ==
    ASSUME NEW input \in Inputs, NEW k \in 1 .. Len(input.frames), NEW f, NEW B, NEW open,
           Frm(input, k, f, B, open)
    PROVE  /\ Starts(input)[k + 1] + 0 = Starts(input)[k] + (HeadSize(f) + Len(f.payload))
           /\ k + 1 \in 1 .. Len(input.frames) + 1
<1>1. Starts(input)[k + 1] + 0 = Starts(input)[k] + Len(B)
  BY NextFrame DEF Frm
<1>2. Len(B) = HeadSize(f) + Len(f.payload)
  BY DEF Frm, AreBytes
<1>3. k + 1 \in 1 .. Len(input.frames) + 1
  BY StartsLayOut
<1>. QED
  BY <1>1, <1>2, <1>3

\* A record of a message.
Msg(a, b, c, d) == [op |-> a, payload |-> b, key |-> c, inPoint |-> d]

\* The fields of such a record, and their change.
LEMMA MsgIs ==
    ASSUME NEW a, NEW b, NEW c, NEW d
    PROVE  /\ Msg(a, b, c, d).op = a /\ Msg(a, b, c, d).payload = b
           /\ Msg(a, b, c, d).key = c /\ Msg(a, b, c, d).inPoint = d
           /\ Msg(a, b, c, d) # Frames!NoMessage
<1>1. Msg(a, b, c, d) # Frames!NoMessage
  BY DEF Msg, Frames!NoMessage
<1>2. /\ Msg(a, b, c, d).op = a /\ Msg(a, b, c, d).payload = b
      /\ Msg(a, b, c, d).key = c /\ Msg(a, b, c, d).inPoint = d
  BY DEF Msg
<1>. QED
  BY <1>1, <1>2, Zenon

\* Another payload, and what goes with it.
Changed(r, x, y, z) == [r EXCEPT !.payload = x, !.key = y, !.inPoint = z]

LEMMA MsgChange ==
    ASSUME NEW a, NEW b, NEW c, NEW d, NEW x, NEW y, NEW z, NEW r, r = Msg(a, b, c, d)
    PROVE  Changed(r, x, y, z) = Msg(a, x, y, z)
<1>1. [Msg(a, b, c, d) EXCEPT !.payload = x] = Msg(a, x, c, d)
  BY DEF Msg
<1>2. [Msg(a, x, c, d) EXCEPT !.key = y] = Msg(a, x, y, d)
  BY DEF Msg
<1>3. [Msg(a, x, y, d) EXCEPT !.inPoint = z] = Msg(a, x, y, z)
  BY DEF Msg
<1>4. Changed(r, x, y, z) = [[[r EXCEPT !.payload = x] EXCEPT !.key = y] EXCEPT !.inPoint = z]
  BY DEF Changed
<1>. QED
  BY <1>1, <1>2, <1>3, <1>4, Zenon

\* After c more bytes the message of the frame, of that kind and of the units in next, is
\* message; or it is refused.
ReadsPart(f, kind, next, message, c) ==
    IF \/ kind = "text" /\ ~ IsGoodText(next, FALSE)
       \/ c = frameNeeded /\ f.fin /\ f.op = "text" /\ Ends(next)
      THEN Frames!Fail
      ELSE /\ chunk' = Frames!After(c)
           /\ data' = IF currentMsg = "data" THEN message ELSE data
           /\ control' = IF currentMsg = "control" THEN message ELSE control
           /\ IF c < frameNeeded
                THEN frameNeeded' = frameNeeded - c /\ UNCHANGED <<parse, basic, extended>>
                ELSE IF f.fin
                THEN parse' = "ready" /\ frameNeeded' = 0 /\ UNCHANGED <<basic, extended>>
                ELSE Frames!ResetHeaders
           /\ UNCHANGED <<currentMsg, delivered, error>>

\* What ReadPayload does, said of the frame.
LEMMA PayloadStep ==
    ASSUME NEW input \in Inputs, NEW k \in 1 .. Len(input.frames), NEW f, NEW B, NEW open,
           Frm(input, k, f, B, open), NEW i \in Nat, Current(input, k, i), NEW c \in Nat,
           c = Frames!Wanted, i + c <= Len(f.payload),
           SubSeq(chunk, 1, c) = Slice(B, HeadSize(f) + i, HeadSize(f) + i + c),
           Frames!ReadPayload,
           NEW message, message = Msg(KindOf(f, open), Part(f, open, i + c), (i + c) % 4, Ends(Part(f, open, i + c)))
    PROVE  ReadsPart(f, KindOf(f, open), Part(f, open, i + c), message, c)
<1>1. /\ f \in Frames!Frame /\ open \in Open /\ AreBytes(B, f) /\ f = input.frames[k]
      /\ B = Frames!FrameBytes(f) /\ open = Before(input, k).open
  BY DEF Frm
<1>2. PICK part, next, kind : part = Part(f, open, i) /\ next = Part(f, open, i + c) /\ kind = KindOf(f, open)
  OBVIOUS
<1>3. /\ basic = Slice(B, 0, 2) /\ (kind = "text" => IsGoodText(part, FALSE))
      /\ Frames!CurrentMsg = Msg(kind, part, i % 4, Ends(part))
  BY <1>1, <1>2 DEF Current, Msg
<1>4. basic[1].fin = f.fin /\ basic[1].op = f.op
  <2>1. basic[1] = B[1]
    BY <1>3 DEF Slice
  <2>2. B[1] = [op |-> f.op, fin |-> f.fin, rsv |-> f.rsv]
    BY <1>1 DEF AreBytes
  <2>. QED
    BY <2>1, <2>2
<1>5. PICK cur : cur = Frames!CurrentMsg
  OBVIOUS
<1>6. cur.op = kind /\ cur.payload = part /\ cur.key = i % 4 /\ cur.inPoint = Ends(part)
  BY <1>3, <1>5, MsgIs
<1>7. PICK units : units = Slice(f.payload, i, i + c)
  OBVIOUS
<1>8. Frames!Unmask(SubSeq(chunk, 1, c), cur.key) = units
  <2>1. Frames!Unmask(Slice(B, HeadSize(f) + i, HeadSize(f) + i + c), i % 4) = Slice(f.payload, i, i + c)
    BY <1>1, UnmaskIs, ZenonT(60)
  <2>. QED
    BY <1>6, <1>7, <2>1
<1>9. next = part \o units
  BY <1>1, <1>2, <1>7, PartGoesOn
<1>10. /\ Frames!EndsInPoint(Ends(part), units) = Ends(next)
       /\ IsGoodText(next, FALSE) <=> IsGoodText(part, FALSE) /\ Frames!Decodes(Ends(part), units)
  BY <1>1, <1>2, <1>7, TextSoFar
<1>11. Frames!Shifted(cur.key, c) = (i + c) % 4
  BY <1>6, KeyGoesOn DEF Frames!Shifted
<1>12. [cur EXCEPT !.payload = @ \o units, !.key = Frames!Shifted(@, c),
                   !.inPoint = Frames!EndsInPoint(@, units)] = message
  <2>1. [cur EXCEPT !.payload = @ \o units, !.key = Frames!Shifted(@, c), !.inPoint = Frames!EndsInPoint(@, units)]
          = [cur EXCEPT !.payload = cur.payload \o units, !.key = Frames!Shifted(cur.key, c),
                        !.inPoint = Frames!EndsInPoint(cur.inPoint, units)]
    OBVIOUS
  <2>2. /\ cur.payload \o units = next /\ Frames!Shifted(cur.key, c) = (i + c) % 4
        /\ Frames!EndsInPoint(cur.inPoint, units) = Ends(next)
    BY <1>6, <1>9, <1>10, <1>11
  <2>3. [cur EXCEPT !.payload = next, !.key = (i + c) % 4, !.inPoint = Ends(next)] = message
    <3>1. PICK from, before, to, after : /\ from = i % 4 /\ before = Ends(part)
                                         /\ to = (i + c) % 4 /\ after = Ends(next)
      OBVIOUS
    <3>2. cur = Msg(kind, part, from, before) /\ message = Msg(kind, next, to, after)
      BY <1>2, <1>3, <1>5, <3>1
    <3>3. Changed(cur, next, to, after) = message
      BY <3>2, MsgChange
    <3>. QED
      BY <3>1, <3>3, Zenon DEF Changed
  <2>. QED
    BY <2>1, <2>2, <2>3, Zenon
<1>13. Frames!Unfinished(message) <=> f.op = "text" /\ Ends(next)
  <2>1. message.inPoint = Ends(next)
    BY <1>2, MsgIs
  <2>. QED
    BY <1>4, <2>1 DEF Frames!Unfinished, Frames!Op
<1>14. LET u == Frames!Unmask(SubSeq(chunk, 1, c), cur.key)
           m == [cur EXCEPT !.payload = @ \o u, !.key = Frames!Shifted(@, c), !.inPoint = Frames!EndsInPoint(@, u)]
       IN IF \/ cur.op = "text" /\ ~ Frames!Decodes(cur.inPoint, u)
             \/ c = frameNeeded /\ basic[1].fin /\ Frames!Unfinished(m)
            THEN Frames!Fail
            ELSE /\ chunk' = Frames!After(c)
                 /\ data' = IF currentMsg = "data" THEN m ELSE data
                 /\ control' = IF currentMsg = "control" THEN m ELSE control
                 /\ IF c < frameNeeded
                      THEN frameNeeded' = frameNeeded - c /\ UNCHANGED <<parse, basic, extended>>
                      ELSE IF basic[1].fin
                      THEN parse' = "ready" /\ frameNeeded' = 0 /\ UNCHANGED <<basic, extended>>
                      ELSE Frames!ResetHeaders
                 /\ UNCHANGED <<currentMsg, delivered, error>>
  BY <1>5, Zenon DEF Frames!ReadPayload
<1>15. IF \/ kind = "text" /\ ~ Frames!Decodes(Ends(part), units)
          \/ c = frameNeeded /\ f.fin /\ Frames!Unfinished(message)
         THEN Frames!Fail
         ELSE /\ chunk' = Frames!After(c)
              /\ data' = IF currentMsg = "data" THEN message ELSE data
              /\ control' = IF currentMsg = "control" THEN message ELSE control
              /\ IF c < frameNeeded
                   THEN frameNeeded' = frameNeeded - c /\ UNCHANGED <<parse, basic, extended>>
                   ELSE IF f.fin
                   THEN parse' = "ready" /\ frameNeeded' = 0 /\ UNCHANGED <<basic, extended>>
                   ELSE Frames!ResetHeaders
              /\ UNCHANGED <<currentMsg, delivered, error>>
  BY <1>4, <1>6, <1>8, <1>12, <1>14, Zenon
<1>16. /\ (kind = "text" /\ ~ Frames!Decodes(Ends(part), units)) <=> (kind = "text" /\ ~ IsGoodText(next, FALSE))
       /\ (c = frameNeeded /\ f.fin /\ Frames!Unfinished(message))
             <=> (c = frameNeeded /\ f.fin /\ f.op = "text" /\ Ends(next))
  BY <1>3, <1>10, <1>13, Zenon
<1>. QED
  BY <1>2, <1>15, <1>16, Zenon DEF ReadsPart

\* process_payload_bytes, and the end of the frame.
LEMMA PayloadKeeps ==
    ASSUME FragmentedTextsEnd, NEW input \in Inputs, NEW k \in 1 .. Len(input.frames) + 1, NEW e \in Nat, NEW d \in Nat,
           Steady(input, k), ~ error, Ahead(input, k, e, d), InPayload(input, k, e),
           Frames!ReadPayload, stream' = stream
    PROVE  FramesInv(input)'
<1>1. PICK i \in Nat : /\ e = HeadSize(input.frames[k]) + i
                       /\ parse = "application" /\ frameNeeded = Len(input.frames[k].payload) - i
                       /\ Current(input, k, i)
  BY DEF InPayload
<1>2. k \in 1 .. Len(input.frames)
  BY <1>1 DEF Current
<1>3. PICK f, B, open : Frm(input, k, f, B, open)
  BY <1>2, TheFrame
<1>4. /\ e = HeadSize(f) + i /\ parse = "application" /\ frameNeeded = Len(f.payload) - i
      /\ i <= Len(f.payload) /\ basic = Slice(B, 0, 2) /\ IsGoodFrame(f, open)
      /\ (~ IsControl(f) => Len(Whole(f, open)) <= MaxMessage)
      /\ currentMsg = IF IsControl(f) THEN "control" ELSE "data"
      /\ (IsControl(f) => Holds(data, open))
  BY <1>1, <1>3 DEF Current, Frm
<1>5. /\ f \in Frames!Frame /\ open \in Open /\ f = input.frames[k] /\ B = Frames!FrameBytes(f)
      /\ open = Before(input, k).open /\ k <= Len(input.frames)
      /\ HeadSize(f) \in Nat /\ Len(f.payload) \in Nat /\ Len(B) = HeadSize(f) + Len(f.payload)
  BY <1>3 DEF Frm, AreBytes
<1>6. PICK c \in Nat : Takes(input, k, e, d, c)
  <2>1. PICK h, n, b \in Nat : h = HeadSize(f) /\ n = Len(f.payload) /\ b = Len(B) /\ b = h + n
    BY <1>5
  <2>2. e = h + i /\ frameNeeded = n - i /\ i <= n
    BY <1>4, <2>1, Zenon
  <2>3. frameNeeded \in Nat /\ e + frameNeeded <= b
    BY <2>1, <2>2, SMTT(60)
  <2>4. frameNeeded \in Nat /\ e + frameNeeded <= Len(B)
    BY <2>1, <2>3, Zenon
  <2>. QED
    BY <1>2, <1>5, <2>4, StepTakes
<1>7. /\ c = Frames!Wanted /\ c <= frameNeeded /\ i + c <= Len(f.payload)
      /\ SubSeq(chunk, 1, c) = Slice(B, HeadSize(f) + i, HeadSize(f) + i + c)
  <2>1. c = Frames!Wanted /\ c <= frameNeeded /\ SubSeq(chunk, 1, c) = Slice(B, e, e + c)
    BY <1>5, <1>6 DEF Takes
  <2>2. e + c = HeadSize(f) + i + c /\ e = HeadSize(f) + i
    BY <1>4
  <2>3. frameNeeded = Len(f.payload) - i /\ Len(f.payload) \in Nat
    BY <1>4, <1>5
  <2>4. i + c <= Len(f.payload)
    BY <2>1, <2>3
  <2>. QED
    BY <2>1, <2>2, <2>4, Zenon
<1>8. PICK n, h \in Nat : n = Len(f.payload) /\ h = HeadSize(f)
  BY <1>5
<1>9. e = h + i /\ frameNeeded = n - i /\ i <= n /\ n \in Nat
  BY <1>4, <1>5, <1>8
<1>10. PICK next, kind : next = Part(f, open, i + c) /\ kind = KindOf(f, open)
  OBVIOUS
<1>11. PICK message : message = Msg(kind, next, (i + c) % 4, Ends(next))
  OBVIOUS
<1>12. ReadsPart(f, kind, next, message, c)
  <2>1. message = Msg(KindOf(f, open), Part(f, open, i + c), (i + c) % 4, Ends(Part(f, open, i + c)))
    BY <1>10, <1>11
  <2>2. ReadsPart(f, KindOf(f, open), Part(f, open, i + c), message, c)
    BY <1>1, <1>2, <1>3, <1>7, <2>1, PayloadStep
  <2>. QED
    BY <1>10, <2>2
<1>13. PICK whole : whole = Whole(f, open)
  OBVIOUS
<1>14. whole \in Seq(Frames!Units) /\ (c = frameNeeded => next = whole)
  <2>1. Len(f.payload) \in 0 .. Len(f.payload)
    BY <1>5
  <2>2. whole \in Seq(Frames!Units)
    BY <1>5, <1>13, <2>1, PartType DEF Whole
  <2>3. c = frameNeeded => i + c = Len(f.payload)
    BY <1>4, <1>5, SMTT(60)
  <2>. QED
    BY <1>10, <1>13, <2>2, <2>3 DEF Whole
<1>15. /\ IsGoodText(whole, FALSE) => IsGoodText(next, FALSE)
       /\ IsGoodText(whole, f.fin /\ f.op = "text")
             <=> IsGoodText(whole, FALSE) /\ (f.fin /\ f.op = "text" => ~ Ends(whole))
  <2>1. IsGoodText(whole, FALSE) => IsGoodText(next, FALSE)
    BY <1>5, <1>7, <1>10, <1>13, TextSoFar
  <2>2. PICK must \in BOOLEAN : must = (f.fin /\ f.op = "text")
    OBVIOUS
  <2>3. IsGoodText(whole, must) <=> IsGoodText(whole, FALSE) /\ (must => ~ Ends(whole))
    BY <1>14, GoodTextIs
  <2>. QED
    BY <2>1, <2>2, <2>3
<1>16. f.op = "text" => kind = "text"
  <2>1. f.op = "text" => Begins(f, open)
    BY <1>4 DEF IsGoodFrame, Begins, IsControl
  <2>. QED
    BY <1>10, <2>1 DEF KindOf
<1>17. CASE \/ kind = "text" /\ ~ IsGoodText(next, FALSE)
            \/ c = frameNeeded /\ f.fin /\ f.op = "text" /\ Ends(next)
  <2>1. error' /\ UNCHANGED delivered
    BY <1>12, <1>17 DEF ReadsPart, Frames!Fail
  <2>2. kind = "text" /\ ~ IsGoodText(whole, f.fin /\ f.op = "text")
    BY <1>14, <1>15, <1>16, <1>17, Zenon
  <2>3. IsRefused(f, open)
    BY <1>10, <1>13, <2>2 DEF IsRefused
  <2>4. Stopped(input, k)' /\ Steady(input, k)'
    BY <1>5, <2>1, <2>3 DEF Stopped, Steady
  <2>. QED
    BY <2>4 DEF FramesInv
<1>18. CASE ~ (\/ kind = "text" /\ ~ IsGoodText(next, FALSE)
               \/ c = frameNeeded /\ f.fin /\ f.op = "text" /\ Ends(next))
  <2>1. /\ chunk' = Frames!After(c)
        /\ data' = IF currentMsg = "data" THEN message ELSE data
        /\ control' = IF currentMsg = "control" THEN message ELSE control
        /\ IF c < frameNeeded
             THEN frameNeeded' = frameNeeded - c /\ UNCHANGED <<parse, basic, extended>>
             ELSE IF f.fin
             THEN parse' = "ready" /\ frameNeeded' = 0 /\ UNCHANGED <<basic, extended>>
             ELSE Frames!ResetHeaders
        /\ UNCHANGED <<currentMsg, delivered, error>>
    BY <1>12, <1>18, Zenon DEF ReadsPart
  <2>2. Ahead(input, k, e + c, d)'
    BY <1>6, <2>1 DEF Takes
  <2>3. Steady(input, k)' /\ ~ error'
    BY <2>1 DEF Steady
  <2>4. kind = "text" => IsGoodText(next, FALSE)
    BY <1>18, Zenon
  <2>5. Frames!CurrentMsg' = message
    BY <1>4, <2>1 DEF Frames!CurrentMsg
  <2>6. IsControl(f) => data' = data
    BY <1>4, <2>1
  <2>7. ASSUME UNCHANGED basic PROVE Current(input, k, i + c)'
    <3>1. basic' = Slice(B, 0, 2)
      BY <1>4, <2>7
    <3>2. Frames!CurrentMsg' = [op |-> kind, payload |-> next, key |-> (i + c) % 4, inPoint |-> Ends(next)]
      BY <1>11, <2>5 DEF Msg
    <3>3. IsControl(f) => Holds(data', open)
      BY <1>4, <2>6, Zenon
    <3>4. currentMsg' = IF IsControl(f) THEN "control" ELSE "data"
      BY <1>4, <2>1
    <3>. QED
      BY <1>4, <1>5, <1>7, <1>10, <2>4, <3>1, <3>2, <3>3, <3>4, Zenon DEF Current
  <2>8. CASE c < frameNeeded
    <3>1. frameNeeded' = frameNeeded - c /\ UNCHANGED <<parse, basic>>
      BY <2>1, <2>8
    <3>2. e + c = HeadSize(f) + (i + c) /\ frameNeeded' = Len(f.payload) - (i + c) /\ i + c \in Nat /\ e + c \in Nat
      <4>1. e + c = h + (i + c) /\ frameNeeded' = n - (i + c) /\ i + c \in Nat /\ e + c \in Nat
        BY <1>9, <3>1
      <4>. QED
        BY <1>8, <4>1
    <3>3. InPayload(input, k, e + c)'
      BY <1>4, <1>5, <2>7, <3>1, <3>2 DEF InPayload
    <3>4. Reading(input, k, e + c, d)'
      BY <2>2, <2>3, <3>3 DEF Reading
    <3>. QED
      BY <2>3, <3>2, <3>4 DEF FramesInv
  <2>9. CASE ~ (c < frameNeeded)
    <3>1. c = frameNeeded /\ i + c = Len(f.payload) /\ e + c = HeadSize(f) + Len(f.payload) /\ e + c \in Nat
      <4>1. c <= frameNeeded
        BY <1>7
      <4>2. c = frameNeeded /\ i + c = n /\ e + c = h + n /\ e + c \in Nat
        BY <1>9, <2>9, <4>1
      <4>. QED
        BY <1>8, <4>2
    <3>2. next = whole
      BY <1>14, <3>1
    <3>3. ~ IsRefused(f, open)
      <4>1. kind = "text" => IsGoodText(whole, f.fin /\ f.op = "text")
        BY <1>15, <1>18, <3>1, <3>2, Zenon
      <4>2. ~ (~ IsControl(f) /\ Len(whole) > MaxMessage)
        <5>1. Len(whole) \in Nat
          BY <1>14
        <5>. QED
          BY <1>4, <1>13, <5>1, SizesAssumption
      <4>. QED
        BY <1>4, <1>10, <1>13, <4>1, <4>2, Zenon DEF IsRefused
    <3>4. CASE f.fin
      <4>1. parse' = "ready" /\ frameNeeded' = 0 /\ UNCHANGED basic
        BY <2>1, <2>9, <3>4
      <4>2. Current(input, k, Len(f.payload))'
        BY <2>7, <3>1, <4>1
      <4>3. InReady(input, k, e + c)'
        BY <1>5, <3>1, <3>3, <3>4, <4>1, <4>2 DEF InReady
      <4>4. Reading(input, k, e + c, d)'
        BY <2>2, <2>3, <4>3 DEF Reading
      <4>. QED
        BY <2>3, <3>1, <4>4 DEF FramesInv
    <3>5. CASE ~ f.fin
      <4>1. parse' = "basic" /\ frameNeeded' = 2 /\ basic' = <<>> /\ extended' = <<>>
        BY <2>1, <2>9, <3>5 DEF Frames!ResetHeaders
      <4>2. ~ IsControl(f)
        BY <1>4, <3>5 DEF IsGoodFrame
      <4>3. PICK acc : acc = Before(input, k + 1)
        OBVIOUS
      <4>4. ~ acc.failed /\ acc.out = Before(input, k).out /\ acc.open = [op |-> kind, payload |-> whole]
        <5>1. ~ Before(input, k).failed
          BY DEF Steady
        <5>2. /\ ~ acc.failed
              /\ acc.out = IF f.fin THEN Append(Before(input, k).out, [op |-> kind, payload |-> whole])
                           ELSE Before(input, k).out
              /\ acc.open = IF ~ f.fin THEN [op |-> kind, payload |-> whole]
                            ELSE IF IsControl(f) THEN open ELSE Frames!NoMessage
          <6>1. LET begun == [op |-> KindOf(f, open), payload |-> Whole(f, open)]
                    next1 == Before(input, k + 1)
                IN /\ ~ next1.failed
                   /\ next1.out = IF f.fin THEN Append(Before(input, k).out, begun) ELSE Before(input, k).out
                   /\ next1.open = IF ~ f.fin THEN begun
                                   ELSE IF IsControl(f) THEN open ELSE Frames!NoMessage
            BY <1>2, <1>3, <3>3, <5>1, NextBefore
          <6>. QED
            BY <1>10, <1>13, <4>3, <6>1, Zenon
        <5>. QED
          BY <3>5, <5>2, Zenon
      <4>5. Holds(data', acc.open)
        <5>1. data' = [op |-> kind, payload |-> whole, key |-> (i + c) % 4, inPoint |-> Ends(whole)]
          BY <1>4, <1>11, <2>1, <3>2, <4>2 DEF Msg
        <5>2. acc.open # Frames!NoMessage /\ acc.open.op = kind /\ acc.open.payload = whole
          <6>1. \A a, b : /\ [op |-> a, payload |-> b] # Frames!NoMessage
                          /\ [op |-> a, payload |-> b].op = a /\ [op |-> a, payload |-> b].payload = b
            BY DEF Frames!NoMessage
          <6>2. PICK o : o = acc.open
            OBVIOUS
          <6>3. o = [op |-> kind, payload |-> whole]
            BY <4>4, <6>2
          <6>. QED
            BY <6>1, <6>2, <6>3
        <5>3. (i + c) % 4 \in Nat
          OBVIOUS
        <5>. QED
          BY <5>1, <5>2, <5>3, Zenon DEF Holds
      <4>6. Ahead(input, k + 1, 0, d)'
        <5>1. Starts(input)[k + 1] + 0 = Starts(input)[k] + (e + c)
          BY <1>2, <1>3, <3>1, NextAhead
        <5>. QED
          BY <2>2, <5>1, Zenon DEF Ahead
      <4>7. InBasic(input, k + 1, 0)'
        <5>1. frameNeeded' = 2 - 0
          BY <4>1
        <5>. QED
          BY <4>1, <4>3, <4>5, <5>1 DEF InBasic
      <4>8. Steady(input, k + 1)' /\ ~ error'
        BY <2>1, <2>3, <4>3, <4>4 DEF Steady
      <4>9. Reading(input, k + 1, 0, d)'
        BY <4>6, <4>7, <4>8 DEF Reading
      <4>10. k + 1 \in 1 .. Len(input.frames) + 1
        BY <1>2, <1>3, NextAhead
      <4>. QED
        BY <4>8, <4>9, <4>10 DEF FramesInv
    <3>. QED
      BY <3>4, <3>5
  <2>. QED
    BY <2>8, <2>9
<1>. QED
  BY <1>17, <1>18

\* get_message.
LEMMA GetMessageKeeps ==
    ASSUME FragmentedTextsEnd, NEW input \in Inputs, NEW k \in 1 .. Len(input.frames) + 1, NEW e \in Nat, NEW d \in Nat,
           Steady(input, k), ~ error, Ahead(input, k, e, d), InReady(input, k, e),
           Frames!GetMessage, stream' = stream
    PROVE  FramesInv(input)'
<1>1. k \in 1 .. Len(input.frames)
  BY DEF InReady, Current
<1>2. PICK f, B, open : Frm(input, k, f, B, open)
  BY <1>1, TheFrame
<1>3. PICK kind, whole : kind = KindOf(f, open) /\ whole = Whole(f, open)
  OBVIOUS
<1>4. /\ e = HeadSize(f) + Len(f.payload) /\ f.fin /\ ~ IsRefused(f, open)
      /\ currentMsg = IF IsControl(f) THEN "control" ELSE "data"
      /\ Frames!CurrentMsg = Msg(kind, whole, Len(f.payload) % 4, Ends(whole))
      /\ (IsControl(f) => Holds(data, open))
  BY <1>2, <1>3 DEF InReady, Current, Frm, Whole, Msg
<1>5. /\ delivered' = Append(delivered, [op |-> kind, payload |-> whole])
      /\ data' = IF currentMsg = "data" THEN Frames!NoMessage ELSE data
      /\ parse' = "basic" /\ frameNeeded' = 2 /\ basic' = <<>> /\ extended' = <<>>
      /\ UNCHANGED <<chunk, error>>
  <2>1. PICK cur : cur = Frames!CurrentMsg
    OBVIOUS
  <2>2. cur.op = kind /\ cur.payload = whole
    <3>1. PICK to, after : cur = Msg(kind, whole, to, after)
      BY <1>4, <2>1
    <3>. QED
      BY <3>1, MsgIs
  <2>3. /\ delivered' = Append(delivered, [op |-> cur.op, payload |-> cur.payload])
        /\ data' = IF currentMsg = "data" THEN Frames!NoMessage ELSE data
        /\ parse' = "basic" /\ frameNeeded' = 2 /\ basic' = <<>> /\ extended' = <<>>
        /\ UNCHANGED <<chunk, error>>
    BY <2>1 DEF Frames!GetMessage, Frames!ResetHeaders
  <2>. QED
    BY <2>2, <2>3, Zenon
<1>6. PICK acc : acc = Before(input, k + 1)
  OBVIOUS
<1>7. /\ ~ acc.failed /\ acc.out = Append(Before(input, k).out, [op |-> kind, payload |-> whole])
      /\ acc.open = IF IsControl(f) THEN open ELSE Frames!NoMessage
  <2>1. ~ Before(input, k).failed
    BY DEF Steady
  <2>. QED
    BY <1>1, <1>2, <1>3, <1>4, <1>6, <2>1, NextBefore
<1>8. Holds(data', acc.open)
  BY <1>4, <1>5, <1>7 DEF Holds
<1>9. Ahead(input, k + 1, 0, d)'
  <2>1. Starts(input)[k + 1] + 0 = Starts(input)[k] + e
    BY <1>1, <1>2, <1>4, NextAhead
  <2>. QED
    BY <1>5, <2>1, Zenon DEF Ahead
<1>10. InBasic(input, k + 1, 0)'
  <2>1. frameNeeded' = 2 - 0
    BY <1>5
  <2>. QED
    BY <1>5, <1>6, <1>8, <2>1 DEF InBasic
<1>11. Steady(input, k + 1)' /\ ~ error'
  BY <1>5, <1>6, <1>7 DEF Steady
<1>12. Reading(input, k + 1, 0, d)'
  BY <1>9, <1>10, <1>11 DEF Reading
<1>13. k + 1 \in 1 .. Len(input.frames) + 1
  BY <1>1, <1>2, NextAhead
<1>. QED
  BY <1>11, <1>12, <1>13 DEF FramesInv

-----------------------------------------------------------------------------
(* Every step.                                                             *)

\* Every step of hybi13's consume.
LEMMA ConsumeFramesKeeps ==
    ASSUME FragmentedTextsEnd, NEW input \in Inputs, error \in BOOLEAN, FramesInv(input), Frames!ConsumeFrames, stream' = stream
    PROVE  FramesInv(input)' /\ error' \in BOOLEAN
<1>1. ~ error
  BY DEF Frames!ConsumeFrames, Frames!ReadBasicHeader, Frames!ReadExtendedHeader, Frames!ReadPayload,
     Frames!GetMessage, Frames!Looping
<1>2. PICK k \in 1 .. Len(input.frames) + 1, e \in Nat, d \in Nat : Steady(input, k) /\ Reading(input, k, e, d)
  BY <1>1 DEF FramesInv, Stopped
<1>3. Ahead(input, k, e, d)
  BY <1>2 DEF Reading
<1>4. FramesInv(input)'
  <2>1. CASE Frames!ReadBasicHeader
    <3>1. InBasic(input, k, e)
      BY <1>2, <2>1 DEF Reading, Frames!ReadBasicHeader, InExtended, InPayload, InReady
    <3>. QED
      BY <1>1, <1>2, <1>3, <2>1, <3>1, BasicHeaderKeeps
  <2>2. CASE Frames!ReadExtendedHeader
    <3>1. InExtended(input, k, e)
      BY <1>2, <2>2 DEF Reading, Frames!ReadExtendedHeader, InBasic, InPayload, InReady
    <3>. QED
      BY <1>1, <1>2, <1>3, <2>2, <3>1, ExtendedHeaderKeeps
  <2>3. CASE Frames!ReadPayload
    <3>1. InPayload(input, k, e)
      BY <1>2, <2>3 DEF Reading, Frames!ReadPayload, InBasic, InExtended, InReady
    <3>. QED
      BY <1>1, <1>2, <1>3, <2>3, <3>1, PayloadKeeps
  <2>4. CASE Frames!GetMessage
    <3>1. InReady(input, k, e)
      BY <1>2, <2>4 DEF Reading, Frames!GetMessage, InBasic, InExtended, InPayload
    <3>. QED
      BY <1>1, <1>2, <1>3, <2>4, <3>1, GetMessageKeeps
  <2>. QED
    BY <2>1, <2>2, <2>3, <2>4 DEF Frames!ConsumeFrames
<1>5. error' = TRUE \/ error' = error
  BY DEF Frames!ConsumeFrames, Frames!ReadBasicHeader, Frames!ReadExtendedHeader, Frames!ReadPayload,
     Frames!GetMessage, Frames!Fail
<1>. QED
  BY <1>4, <1>5

\* Nothing has been read.
LEMMA InitFInv == Init => FInv
<1> SUFFICES ASSUME Init PROVE FInv
  OBVIOUS
<1>1. Idle
  BY DEF Init, Frames!FramesInit, Idle
<1>. QED
  BY <1>1 DEF Init, Frames!FramesInit, FInv

\* The frames begin where the request has ended.
LEMMA UpgradeKeepsFInv ==
    ASSUME BodiesAreWhole, IInv, FInv, Upgrade
    PROVE  FInv'
<1>1. status = "ready" /\ ~ upgraded /\ upgraded' /\ UNCHANGED <<sent, stream, chunk, frameOnly>>
  BY DEF Upgrade, reqVars
<1>2. PICK input \in Inputs : sent = input /\ Idle
  BY <1>1 DEF FInv
<1>3. PICK T : T = FramesOf(input)
  OBVIOUS
<1>4. chunk \o stream = T
  BY <1>1, <1>2, <1>3, IInvMeansRead DEF RequestIsRead
<1>5. chunk \in Seq(StreamByte) /\ stream \in Seq(StreamByte)
  <2>1. PICK a \in Nat, b \in Nat : Cut(a, b)
    BY <1>1 DEF IInv
  <2>2. Total \in Seq(StreamByte) /\ Len(Total) \in Nat
    BY <1>2, TotalType
  <2>. QED
    BY <2>1, <2>2 DEF Cut, Slice
<1>6. PICK d \in Nat : d = Len(chunk)
  BY <1>5
<1>7. /\ d <= Len(T) /\ chunk = Slice(T, 0, d) /\ stream = Slice(T, d, Len(T))
  <2>1. /\ Len(T) = d + Len(stream) /\ Len(stream) \in Nat
        /\ \A j \in 1 .. d : T[j] = chunk[j]
        /\ \A j \in 1 .. Len(stream) : T[d + j] = stream[j]
    BY <1>4, <1>5, <1>6, Concatenation
  <2>2. Slice(T, 0, d) = [j \in 1 .. d |-> T[j]]
    BY DEF Slice
  <2>3. Slice(T, d, Len(T)) = [j \in 1 .. Len(stream) |-> T[d + j]]
    <3>1. Len(T) - d = Len(stream)
      BY <2>1
    <3>. QED
      BY <3>1, Zenon DEF Slice
  <2>4. chunk = [j \in 1 .. d |-> chunk[j]] /\ stream = [j \in 1 .. Len(stream) |-> stream[j]]
    BY <1>5, <1>6
  <2>5. [j \in 1 .. d |-> T[j]] = [j \in 1 .. d |-> chunk[j]]
    BY <2>1
  <2>6. [j \in 1 .. Len(stream) |-> T[d + j]] = [j \in 1 .. Len(stream) |-> stream[j]]
    BY <2>1
  <2>7. d <= Len(T)
    BY <2>1
  <2>. QED
    BY <2>2, <2>3, <2>4, <2>5, <2>6, <2>7, Zenon
<1>8. Starts(input)[1] + 0 = 0 /\ 1 \in 1 .. Len(input.frames) + 1
  BY StartsLayOut
<1>9. Ahead(input, 1, 0, d)'
  <2>1. Ahead(input, 1, 0, d)
    BY <1>3, <1>7, <1>8 DEF Ahead
  <2>. QED
    BY <1>1, <2>1 DEF Ahead
<1>10. Before(input, 1) = Nothing
  BY MeaningsType DEF Before
<1>11. InBasic(input, 1, 0)' /\ Steady(input, 1)' /\ ~ error'
  <2>1. /\ parse' = "basic" /\ basic' = <<>> /\ extended' = <<>> /\ frameNeeded' = 2 - 0
        /\ data' = Frames!NoMessage /\ delivered' = <<>> /\ ~ error'
    BY <1>1, <1>2 DEF Idle, frameOnly
  <2>. QED
    BY <1>10, <2>1 DEF InBasic, Steady, Holds, Nothing
<1>12. Reading(input, 1, 0, d)'
  BY <1>9, <1>11 DEF Reading
<1>13. FramesInv(input)'
  BY <1>8, <1>11, <1>12 DEF FramesInv
<1>14. error' \in BOOLEAN
  BY <1>1 DEF frameOnly, FInv
<1>15. sent' = input /\ upgraded'
  BY <1>1, <1>2
<1>. QED
  BY <1>13, <1>14, <1>15 DEF FInv

\* Only the chunk is longer after a read.
LEMMA ReadKeepsFramesInv ==
    ASSUME NEW input \in Inputs, FramesInv(input), Read, upgraded
    PROVE  FramesInv(input)'
<1>1. ~ error /\ chunk = <<>> /\ UNCHANGED frameOnly
  BY DEF Read, WantsBytes
<1>2. PICK k \in 1 .. Len(input.frames) + 1, e \in Nat, d \in Nat : Steady(input, k) /\ Reading(input, k, e, d)
  BY <1>1 DEF FramesInv, Stopped
<1>3. PICK T, s : T = FramesOf(input) /\ s = Starts(input)[k] + e
  OBVIOUS
<1>4. T \in Seq(FrameByte) /\ Len(T) \in Nat
  BY <1>3, StartsLayOut
<1>5. s = d /\ d <= Len(T) /\ stream = Slice(T, d, Len(T)) /\ Len(stream) = Len(T) - d
  <2>1. Starts(input)[k] \in Nat /\ Len(chunk) = d - (Starts(input)[k] + e) /\ Len(stream) = Len(FramesOf(input)) - d
    BY <1>2, AheadType DEF Reading
  <2>2. d <= Len(T) /\ stream = Slice(T, d, Len(T))
    BY <1>2, <1>3 DEF Reading, Ahead
  <2>3. Len(chunk) = 0
    BY <1>1
  <2>. QED
    BY <1>3, <2>1, <2>2, <2>3, SMTT(60)
<1>6. PICK n \in 1 .. Len(stream) : /\ chunk' = SubSeq(stream, 1, n)
                                    /\ stream' = SubSeq(stream, n + 1, Len(stream))
  BY DEF Read
<1>7. d + n \in Nat /\ d + n <= Len(T) /\ s <= d + n
  BY <1>4, <1>5, <1>6
<1>8. chunk' = Slice(T, s, d + n) /\ stream' = Slice(T, d + n, Len(T))
  BY <1>4, <1>5, <1>6, <1>7 DEF Slice
<1>9. Ahead(input, k, e, d + n)'
  BY <1>3, <1>7, <1>8 DEF Ahead
<1>10. Steady(input, k)' /\ ~ error'
  BY <1>1, <1>2 DEF Steady, frameOnly
<1>11. InBasic(input, k, e)' \/ InExtended(input, k, e)' \/ InPayload(input, k, e)' \/ InReady(input, k, e)'
  BY <1>1, <1>2, ZenonT(60) DEF frameOnly, Reading, InBasic, InExtended, InPayload, InReady, Current, Frames!CurrentMsg, Holds
<1>12. Reading(input, k, e, d + n)'
  BY <1>9, <1>10, <1>11 DEF Reading
<1>. QED
  BY <1>7, <1>10, <1>12 DEF FramesInv

\* A step of the request's parser is none of the frames'.
LEMMA StutterKeepsFramesInv ==
    ASSUME NEW input \in Inputs, FramesInv(input), UNCHANGED <<chunk, stream, frameOnly>>
    PROVE  FramesInv(input)'
<1>1. PICK k \in 1 .. Len(input.frames) + 1 :
         Steady(input, k) /\ (Stopped(input, k) \/ \E e, d \in Nat : Reading(input, k, e, d))
  BY DEF FramesInv
<1>2. Steady(input, k)'
  BY <1>1 DEF Steady, frameOnly
<1>3. CASE Stopped(input, k)
  <2>1. Stopped(input, k)'
    BY <1>3 DEF Stopped, frameOnly
  <2>. QED
    BY <1>2, <2>1 DEF FramesInv
<1>4. CASE \E e, d \in Nat : Reading(input, k, e, d)
  <2>1. PICK e \in Nat, d \in Nat : Reading(input, k, e, d)
    BY <1>4
  <2>2. ~ error' /\ Ahead(input, k, e, d)'
    BY <2>1 DEF Reading, Ahead, frameOnly
  <2>3. InBasic(input, k, e)' \/ InExtended(input, k, e)' \/ InPayload(input, k, e)' \/ InReady(input, k, e)'
    BY <2>1, ZenonT(60) DEF frameOnly, Reading, InBasic, InExtended, InPayload, InReady, Current, Frames!CurrentMsg, Holds
  <2>4. Reading(input, k, e, d)'
    BY <2>2, <2>3 DEF Reading
  <2>. QED
    BY <1>2, <2>4 DEF FramesInv
<1>. QED
  BY <1>1, <1>3, <1>4

\* Every step of the connection.
LEMMA StepKeepsFInv == ASSUME BodiesAreWhole, FragmentedTextsEnd, IInv, FInv, [Next]_vars PROVE FInv'
<1>1. CASE UNCHANGED vars
  <2>1. UNCHANGED <<sent, stream, upgraded, chunk, frameOnly>>
    BY <1>1 DEF vars, reqVars
  <2>2. PICK input \in Inputs : sent = input /\ (~ upgraded => Idle) /\ (upgraded => FramesInv(input))
    BY DEF FInv
  <2>3. ~ upgraded' => Idle'
    BY <2>1, <2>2 DEF frameOnly, Idle
  <2>4. ASSUME upgraded PROVE FramesInv(input)'
    BY <2>1, <2>2, <2>4, StutterKeepsFramesInv
  <2>. QED
    BY <2>1, <2>2, <2>3, <2>4 DEF FInv, frameOnly
<1>2. CASE Read
  <2>1. UNCHANGED <<sent, upgraded, frameOnly>>
    BY <1>2 DEF Read
  <2>2. PICK input \in Inputs : sent = input /\ (~ upgraded => Idle) /\ (upgraded => FramesInv(input))
    BY DEF FInv
  <2>3. ~ upgraded' => Idle'
    BY <2>1, <2>2 DEF frameOnly, Idle
  <2>4. upgraded => FramesInv(input)'
    BY <1>2, <2>2, ReadKeepsFramesInv
  <2>. QED
    BY <2>1, <2>2, <2>3, <2>4 DEF FInv, frameOnly
<1>3. CASE ReadRequest
  <2>1. ~ upgraded
    BY <1>3 DEF IInv, ReadRequest, Consume, TakeLines, TakeBody, OutOfLines, ProcessLine, FinishHeader
  <2>2. UNCHANGED <<sent, upgraded, frameOnly>>
    BY <1>3 DEF ReadRequest
  <2>. QED
    BY <2>1, <2>2 DEF FInv, frameOnly, Idle
<1>4. CASE Upgrade
  BY <1>4, UpgradeKeepsFInv
<1>5. CASE ReadFrames
  <2>1. upgraded /\ Frames!ConsumeFrames /\ UNCHANGED <<sent, stream, upgraded>>
    BY <1>5 DEF ReadFrames
  <2>2. PICK input \in Inputs : sent = input /\ FramesInv(input) /\ error \in BOOLEAN
    BY <2>1 DEF FInv
  <2>3. FramesInv(input)' /\ error' \in BOOLEAN
    BY <2>1, <2>2, ConsumeFramesKeeps
  <2>. QED
    BY <2>1, <2>2, <2>3 DEF FInv
<1>. QED
  BY <1>1, <1>2, <1>3, <1>4, <1>5 DEF Next

-----------------------------------------------------------------------------
(* What it means.                                                          *)

\* Everything has been consumed and nothing comes: every frame has been read to its end.
LEMMA AllAreRead ==
    ASSUME NEW input \in Inputs, NEW k \in 1 .. Len(input.frames) + 1, NEW e \in Nat, NEW d \in Nat,
           Reading(input, k, e, d), chunk = <<>>, stream = <<>>, parse # "ready", frameNeeded > 0
    PROVE  k = Len(input.frames) + 1
<1> SUFFICES ASSUME k \in 1 .. Len(input.frames) PROVE FALSE
  BY StartsLayOut
<1>1. PICK f, B, open : Frm(input, k, f, B, open)
  BY TheFrame
<1>2. /\ f = input.frames[k] /\ HeadSize(f) \in Nat /\ Len(f.payload) \in Nat
      /\ Len(B) = HeadSize(f) + Len(f.payload) /\ HeadSize(f) >= 2
  BY <1>1 DEF Frm, AreBytes
<1>3. e >= HeadSize(f) + Len(f.payload)
  <2>1. PICK p, t : p = Starts(input)[k] /\ t = Len(FramesOf(input))
    OBVIOUS
  <2>2. p \in Nat /\ t \in Nat /\ Len(chunk) = d - (p + e) /\ Len(stream) = t - d
    BY <2>1, AheadType, StartsLayOut, ZenonT(60) DEF Reading
  <2>3. p + (HeadSize(f) + Len(f.payload)) <= t
    <3>1. Starts(input)[k + 1] + 0 = p + (HeadSize(f) + Len(f.payload))
      BY <1>1, <2>1, NextAhead
    <3>2. Starts(input)[k + 1] <= t
      BY <2>1, StartsLayOut
    <3>3. p + (HeadSize(f) + Len(f.payload)) \in Nat
      BY <1>2, <2>2, SMTT(60)
    <3>4. Starts(input)[k + 1] \in Nat
      <4>1. k + 1 \in 1 .. Len(input.frames) + 1
        BY <1>1, NextAhead
      <4>. QED
        BY <4>1, StartsLayOut
    <3>. QED
      BY <3>1, <3>2, <3>3, <3>4
  <2>4. Len(chunk) = 0 /\ Len(stream) = 0
    OBVIOUS
  <2>. QED
    BY <1>2, <2>2, <2>3, <2>4
<1>4. CASE InBasic(input, k, e)
  BY <1>2, <1>3, <1>4 DEF InBasic
<1>5. CASE InExtended(input, k, e)
  BY <1>2, <1>3, <1>5, SMTT(60) DEF InExtended
<1>6. CASE InPayload(input, k, e)
  <2>1. PICK h, n \in Nat : h = HeadSize(f) /\ n = Len(f.payload) /\ e >= h + n
    BY <1>2, <1>3
  <2>2. PICK i \in Nat : e = h + i /\ frameNeeded = n - i
    BY <1>2, <1>6, <2>1 DEF InPayload
  <2>. QED
    BY <2>1, <2>2
<1>7. CASE InReady(input, k, e)
  BY <1>7 DEF InReady
<1>. QED
  BY <1>4, <1>5, <1>6, <1>7 DEF Reading

\* The invariant says that the frames are read as they mean.
LEMMA FInvMeansRead == FragmentedTextsEnd /\ FInv => FramesAreRead
<1> SUFFICES ASSUME FragmentedTextsEnd, FInv PROVE FramesAreRead
  OBVIOUS
<1>1. PICK input \in Inputs : sent = input /\ (~ upgraded => Idle) /\ (upgraded => FramesInv(input))
  BY DEF FInv
<1>2. PICK M, n : M = Meanings(input.frames) /\ n = Len(input.frames)
  OBVIOUS
<1>3. PICK meaning : meaning = Meaning(sent.frames)
  OBVIOUS
<1>4. /\ n \in Nat /\ M[0] = Nothing /\ M[n] = meaning
      /\ (\A k \in 0 .. n : M[k] \in Meant) /\ meaning.failed \in BOOLEAN /\ error \in BOOLEAN
  <2>1. /\ n \in Nat /\ M[0] = Nothing /\ M[n] = meaning
        /\ \A k \in 0 .. n : M[k] \in Meant
    BY <1>1, <1>2, <1>3, MeaningsType
  <2>2. meaning.failed \in BOOLEAN
    BY <2>1 DEF Meant
  <2>. QED
    BY <2>1, <2>2 DEF FInv
<1>5. \A k \in 0 .. n : /\ IsPrefix(M[k].out, meaning.out)
                        /\ M[k].failed => meaning.out = M[k].out /\ meaning.failed
  BY <1>2, <1>4, OutGrows
<1>6. CASE ~ upgraded
  <2>1. delivered = M[0].out /\ ~ error
    BY <1>1, <1>4, <1>6 DEF Idle, Nothing
  <2>2. 0 \in 0 .. n
    BY <1>4
  <2>. QED
    BY <1>3, <1>5, <1>6, <2>1, <2>2 DEF FramesAreRead
<1>7. CASE upgraded
  <2>1. PICK k \in 1 .. n + 1 :
           Steady(input, k) /\ (Stopped(input, k) \/ \E e, d \in Nat : Reading(input, k, e, d))
    BY <1>1, <1>2, <1>7 DEF FramesInv
  <2>2. k - 1 \in 0 .. n /\ delivered = M[k - 1].out /\ ~ M[k - 1].failed
    BY <1>2, <1>4, <2>1 DEF Steady, Before
  <2>3. IsPrefix(delivered, meaning.out)
    BY <1>5, <2>2
  <2>4. CASE Stopped(input, k)
    <3>1. k \in 1 .. n /\ k \in 0 .. n
      BY <1>2, <1>4, <2>4 DEF Stopped
    <3>2. /\ M[k] = AddFrame(M[k - 1], input.frames[k]) /\ M[k - 1] \in Meant
          /\ input.frames[k] \in Frames!Frame
      BY <1>2, <1>4, <2>2, <3>1, MeaningsType
    <3>3. IsForbidden(input.frames[k], M[k - 1].open)
      BY <1>2, <2>4, <3>1, RefusedIsForbidden DEF Stopped, Before
    <3>4. M[k] = [M[k - 1] EXCEPT !.failed = TRUE]
      BY <2>2, <3>2, <3>3, AddFrameIs
    <3>5. M[k].failed /\ M[k].out = M[k - 1].out
      BY <3>2, <3>4 DEF Meant
    <3>6. meaning.out = delivered /\ meaning.failed
      BY <1>5, <2>2, <3>1, <3>5
    <3>7. error = meaning.failed
      BY <1>4, <2>4, <3>6 DEF Stopped
    <3>. QED
      BY <1>3, <2>3, <3>6, <3>7 DEF FramesAreRead
  <2>5. CASE \E e, d \in Nat : Reading(input, k, e, d)
    <3>1. PICK e \in Nat, d \in Nat : Reading(input, k, e, d)
      BY <2>5
    <3>2. ~ error
      BY <3>1 DEF Reading
    <3>3. ASSUME WantsBytes, stream = <<>> PROVE delivered = meaning.out /\ error = meaning.failed
      <4>1. chunk = <<>> /\ parse # "ready" /\ frameNeeded > 0
        BY <1>7, <3>3 DEF WantsBytes
      <4>2. k = n + 1
        BY <1>2, <3>1, <3>3, <4>1, AllAreRead
      <4>3. M[k - 1] = meaning
        BY <1>4, <4>2
      <4>. QED
        BY <1>4, <2>2, <3>2, <4>3
    <3>. QED
      BY <1>3, <2>3, <3>2, <3>3 DEF FramesAreRead
  <2>. QED
    BY <2>1, <2>4, <2>5
<1>. QED
  BY <1>6, <1>7

\* However their bytes arrive, the frames of every input are put together to the messages
\* they mean, up to the first that the protocol forbids: where FragmentedTextsEnd, the one
\* thing that finalize_message does not look for.
THEOREM FramesArePutTogether ==
    LengthsAreOnce /\ BodiesAreWhole /\ HeadersFit /\ FragmentedTextsEnd /\ Spec => []FramesAreRead
<1> SUFFICES ASSUME LengthsAreOnce, BodiesAreWhole, HeadersFit, FragmentedTextsEnd PROVE Spec => []FramesAreRead
  OBVIOUS
<1>1. Init => IInv /\ FInv
  BY InitIInv, InitFInv
<1>2. IInv /\ FInv /\ [Next]_vars => (IInv /\ FInv)'
  BY StepKeepsIInv, StepKeepsFInv
<1>3. IInv /\ FInv => FramesAreRead
  BY FInvMeansRead
<1>. QED
  BY <1>1, <1>2, <1>3, PTL DEF Spec
=============================================================================
