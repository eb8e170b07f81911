----------------------------- MODULE CsvProofs ------------------------------
(***************************************************************************)
(* A CSV file is read as it was written, for any characters, fields and    *)
(* number of lines, quoted or plain, with either end of line.              *)
(*                                                                         *)
(* First where the characters of a written table are: the pieces of a      *)
(* joined sequence lie one behind the other (FlattenPlaces), so every      *)
(* character of a field, every comma and every end of line has its place   *)
(* (LayoutExists).  Then the state of the parser follows from its          *)
(* position: it has read the lines before it, the fields before it in its  *)
(* line and the characters before it in its field (CsvInv).                *)
(***************************************************************************)
EXTENDS CsvParser, SumTheorems, SequenceTheorems, TLAPS

(* A set of natural numbers that is not empty has a least one.               *)
LEMMA LeastNumber ==
    ASSUME NEW B, B \subseteq Nat, B # {}
    PROVE  \E m \in B : \A k \in B : m <= k
<1> DEFINE W == {0..m : m \in B}
<1>1. W \subseteq SUBSET Nat /\ W # {}
  <2>1. PICK b : b \in B
    OBVIOUS
  <2>2. 0..b \in W
    BY <2>1
  <2>3. \A m \in B : 0..m \subseteq Nat
    OBVIOUS
  <2> QED
    BY <2>2, <2>3
<1>2. \A s \in W : IsFiniteSet(s)
  <2> SUFFICES ASSUME NEW s \in W PROVE IsFiniteSet(s)
    OBVIOUS
  <2>1. PICK m \in B : s = 0..m
    OBVIOUS
  <2>2. 0 \in Int /\ m \in Int
    OBVIOUS
  <2> QED
    BY <2>1, <2>2, FS_Interval
<1>3. HasSmallest(W)
  BY <1>1, <1>2, SmallestSet
<1>4. PICK w \in W : \A s \in W : s \subseteq w => s = w
  BY <1>3, Zenon DEF HasSmallest
<1>5. PICK m \in B : w = 0..m
  OBVIOUS
<1>6. ASSUME NEW k \in B, k < m PROVE FALSE
  <2>1. 0..k \in W /\ 0..k \subseteq 0..m
    BY <1>6
  <2>2. 0..k = 0..m
    BY <2>1, <1>4, <1>5
  <2>3. m \in 0..m /\ m \notin 0..k
    BY <1>6
  <2> QED
    BY <2>2, <2>3
<1> QED
  BY <1>6

(* The first m pieces of ss one after the other are text: piece i starts     *)
(* behind off[i - 1].                                                        *)
LaidUpTo(ss, m, off, text) ==
    /\ off \in [0..m -> Nat] /\ off[0] = 0
    /\ \A i \in 1..m : off[i] = off[i - 1] + Len(ss[i])
    /\ \A i \in 0..m : off[i] <= Len(text)
    /\ Len(text) = off[m]
    /\ \A i \in 1..m : \A x \in 1..Len(ss[i]) : text[off[i - 1] + x] = ss[i][x]

(* What is where in two sequences joined.                                    *)
LEMMA ConcatAt ==
    ASSUME NEW X, NEW s \in Seq(X), NEW t \in Seq(X)
    PROVE  /\ \A x \in 1..Len(s) : (s \o t)[x] = s[x]
           /\ \A x \in 1..Len(t) : (s \o t)[Len(s) + x] = t[x]
  BY ConcatProperties

(* Another piece goes behind them.                                           *)
LEMMA PlaceNext ==
    ASSUME NEW X, NEW ss \in Seq(Seq(X)), NEW m \in Nat, m < Len(ss),
           NEW off, NEW text \in Seq(X), LaidUpTo(ss, m, off, text)
    PROVE  \E o : LaidUpTo(ss, m + 1, o, text \o ss[m + 1])
<1> DEFINE n == m + 1
           o == [i \in 0..n |-> IF i = n THEN off[m] + Len(ss[n]) ELSE off[i]]
           longer == text \o ss[n]
<1>1. ss[n] \in Seq(X) /\ n \in 1..Len(ss)
  OBVIOUS
<1>2. Len(ss[n]) \in Nat /\ Len(text) \in Nat
  BY <1>1
<1>3. /\ off \in [0..m -> Nat] /\ off[0] = 0
      /\ \A i \in 1..m : off[i] = off[i - 1] + Len(ss[i])
      /\ \A i \in 0..m : off[i] <= Len(text)
      /\ Len(text) = off[m]
      /\ \A i \in 1..m : \A x \in 1..Len(ss[i]) : text[off[i - 1] + x] = ss[i][x]
  BY DEF LaidUpTo
<1>4. o \in [0..n -> Nat] /\ o[0] = 0
  BY <1>2, <1>3
<1>5. o[n] = off[m] + Len(ss[n]) /\ \A i \in 0..m : o[i] = off[i]
  OBVIOUS
<1>6. Len(longer) = Len(text) + Len(ss[n])
  BY <1>1
<1>7. ASSUME NEW i \in 1..n PROVE o[i] = o[i - 1] + Len(ss[i])
  <2>1. CASE i = n
    BY <2>1, <1>5
  <2>2. CASE i \in 1..m
    BY <2>2, <1>5, <1>3
  <2> QED
    BY <2>1, <2>2
<1>8. ASSUME NEW i \in 0..n PROVE o[i] <= Len(longer)
  <2>1. CASE i = n
    BY <2>1, <1>5, <1>6, <1>3, <1>2
  <2>2. CASE i \in 0..m
    BY <2>2, <1>5, <1>6, <1>3, <1>2
  <2> QED
    BY <2>1, <2>2
<1>9. ASSUME NEW i \in 1..n, NEW x \in 1..Len(ss[i]) PROVE longer[o[i - 1] + x] = ss[i][x]
  <2>1. CASE i = n
    <3>1. o[i - 1] = Len(text)
      BY <2>1, <1>5, <1>3
    <3>3. longer[Len(text) + x] = ss[n][x]
      BY <2>1, <1>1, ConcatAt
    <3> QED
      BY <3>1, <3>3, <2>1
  <2>2. CASE i \in 1..m
    <3>1. o[i - 1] = off[i - 1] /\ off[i] <= Len(text) /\ off[i] = off[i - 1] + Len(ss[i]) /\ off[i - 1] \in Nat
      BY <2>2, <1>5, <1>3
    <3>2. ss[i] \in Seq(X)
      BY <2>2
    <3>3. off[i - 1] + x \in 1..Len(text)
      <4>1. PICK d : d = Len(ss[i])
        OBVIOUS
      <4>2. d \in Nat /\ x \in 1..d
        BY <3>2, <4>1
      <4>3. PICK a \in Nat : a = off[i - 1]
        BY <3>1
      <4>4. a + d <= Len(text)
        BY <3>1, <4>1, <4>3
      <4>5. a + x \in 1..Len(text)
        BY <4>2, <4>4, <1>2
      <4> QED
        BY <4>3, <4>5
    <3>4. longer[off[i - 1] + x] = text[off[i - 1] + x]
      BY <3>3, <1>1, ConcatAt
    <3> QED
      BY <3>1, <3>4, <2>2, <1>3
  <2>3. i = n \/ i \in 1..m
    OBVIOUS
  <2> QED
    BY <2>1, <2>2, <2>3
<1>10. Len(longer) = o[n]
  BY <1>5, <1>6, <1>3
<1> HIDE DEF o, longer
<1>11. LaidUpTo(ss, n, o, longer)
  BY <1>4, <1>7, <1>8, <1>9, <1>10 DEF LaidUpTo
<1> QED
  BY <1>11 DEF longer

(* The table by which the library defines the joined sequence.               *)
IsJoin(f, ss) == f = [i \in 1..Len(ss) |-> IF i = 1 THEN ss[i] ELSE f[i - 1] \o ss[i]]

(* The library joins the pieces by such a table.                             *)
LEMMA FlattenIsJoin ==
    \A ss : CsvSeqs!FlattenSeq(ss) = IF Len(ss) = 0 THEN ss ELSE (CHOOSE f : IsJoin(f, ss))[Len(ss)]
  BY Zenon DEF CsvSeqs!FlattenSeq, IsJoin

(* Its first m entries.                                                      *)
JoinUpTo(f, ss, m, X) ==
    /\ f \in [1..m -> Seq(X)]
    /\ \A i \in 1..m : f[i] = IF i = 1 THEN ss[i] ELSE f[i - 1] \o ss[i]

(* One more entry.                                                           *)
LEMMA JoinNext ==
    ASSUME NEW X, NEW ss \in Seq(Seq(X)), NEW m \in Nat, m < Len(ss), NEW f, JoinUpTo(f, ss, m, X)
    PROVE  \E g : JoinUpTo(g, ss, m + 1, X)
<1> DEFINE n == m + 1
           last == IF n = 1 THEN ss[n] ELSE f[m] \o ss[n]
           g == [i \in 1..n |-> IF i = n THEN last ELSE f[i]]
<1>1. f \in [1..m -> Seq(X)] /\ \A i \in 1..m : f[i] = IF i = 1 THEN ss[i] ELSE f[i - 1] \o ss[i]
  BY DEF JoinUpTo
<1>2. ss[n] \in Seq(X)
  OBVIOUS
<1>3. last \in Seq(X)
  <2>1. CASE n = 1
    BY <2>1, <1>2
  <2>2. CASE n # 1
    <3>1. f[m] \in Seq(X)
      BY <2>2, <1>1
    <3> QED
      BY <3>1, <2>2, <1>2
  <2> QED
    BY <2>1, <2>2
<1> HIDE DEF last
<1>4. g \in [1..n -> Seq(X)]
  BY <1>1, <1>3
<1>5. g[n] = last /\ \A i \in 1..m : g[i] = f[i]
  OBVIOUS
<1>6. ASSUME NEW i \in 1..n PROVE g[i] = IF i = 1 THEN ss[i] ELSE g[i - 1] \o ss[i]
  <2>1. CASE i = n /\ n = 1
    BY <2>1, <1>5 DEF last
  <2>2. CASE i = n /\ n # 1
    <3>1. g[m] = f[m] /\ i - 1 = m
      BY <2>2, <1>5
    <3>2. last = f[m] \o ss[n]
      BY <2>2 DEF last
    <3>3. i # 1 /\ g[i] = g[i - 1] \o ss[i]
      BY <2>2, <1>5, <3>1, <3>2
    <3> QED
      BY <3>3
  <2>3. CASE i \in 1..m /\ i = 1
    BY <2>3, <1>5, <1>1
  <2>4. CASE i \in 1..m /\ i # 1
    <3>1. g[i] = f[i] /\ g[i - 1] = f[i - 1]
      BY <2>4, <1>5
    <3> QED
      BY <2>4, <3>1, <1>1
  <2> QED
    BY <2>1, <2>2, <2>3, <2>4
<1> HIDE DEF g
<1>7. JoinUpTo(g, ss, n, X)
  BY <1>4, <1>6 DEF JoinUpTo
<1> QED
  BY <1>7

(* There is such a table.                                                    *)
LEMMA JoinExists ==
    ASSUME NEW X, NEW ss \in Seq(Seq(X))
    PROVE  \E f : JoinUpTo(f, ss, Len(ss), X)
<1> DEFINE Bad == {m \in 0..Len(ss) : ~\E f : JoinUpTo(f, ss, m, X)}
<1>0. Len(ss) \in 0..Len(ss)
  OBVIOUS
<1> SUFFICES ASSUME Bad # {} PROVE FALSE
  BY <1>0
<1>1. PICK m \in Bad : \A k \in Bad : m <= k
  <2>1. Bad \subseteq Nat
    OBVIOUS
  <2> HIDE DEF Bad
  <2> QED
    BY <2>1, LeastNumber
<1>2. CASE m = 0
  <2>1. JoinUpTo([i \in 1..0 |-> <<>>], ss, 0, X)
    BY DEF JoinUpTo
  <2> QED
    BY <2>1, <1>2
<1>3. CASE m # 0
  <2>1. m - 1 \in 0..Len(ss) /\ m - 1 \in Nat /\ m - 1 < Len(ss)
    BY <1>3
  <2>2. PICK f : JoinUpTo(f, ss, m - 1, X)
    BY <2>1, <1>1
  <2>3. \E g : JoinUpTo(g, ss, (m - 1) + 1, X)
    BY <2>1, <2>2, JoinNext
  <2>4. (m - 1) + 1 = m
    OBVIOUS
  <2> QED
    BY <2>3, <2>4
<1> QED
  BY <1>2, <1>3

(* The joined sequence is the last entry of such a table.                    *)
LEMMA JoinTyped ==
    ASSUME NEW X, NEW ss \in Seq(Seq(X)), Len(ss) # 0
    PROVE  \E g : /\ JoinUpTo(g, ss, Len(ss), X) /\ CsvSeqs!FlattenSeq(ss) = g[Len(ss)]
<1> DEFINE n == Len(ss)
<1>1. PICK f : JoinUpTo(f, ss, n, X)
  BY JoinExists
<1>2. f \in [1..n -> Seq(X)] /\ \A i \in 1..n : f[i] = IF i = 1 THEN ss[i] ELSE f[i - 1] \o ss[i]
  BY <1>1 DEF JoinUpTo
<1>3. IsJoin(f, ss)
  BY <1>2 DEF IsJoin
<1>4. PICK g : g = CHOOSE h : IsJoin(h, ss)
  OBVIOUS
<1>5. IsJoin(g, ss)
  BY <1>3, <1>4
<1>6. DOMAIN g = 1..n /\ \A i \in 1..n : g[i] = IF i = 1 THEN ss[i] ELSE g[i - 1] \o ss[i]
  BY <1>5 DEF IsJoin
<1>7. \A i \in 1..n : g[i] = f[i]
  <2> DEFINE Bad == {i \in 1..n : g[i] # f[i]}
  <2> SUFFICES ASSUME Bad # {} PROVE FALSE
    OBVIOUS
  <2>1. PICK m \in Bad : \A k \in Bad : m <= k
    <3>1. Bad \subseteq Nat
      OBVIOUS
    <3> HIDE DEF Bad
    <3> QED
      BY <3>1, LeastNumber
  <2>2. m \in 1..n /\ g[m] # f[m]
    OBVIOUS
  <2>3. CASE m = 1
    BY <2>2, <2>3, <1>2, <1>6
  <2>4. CASE m # 1
    <3>1. m - 1 \in 1..n /\ m - 1 \notin Bad
      BY <2>1, <2>2, <2>4
    <3>2. g[m - 1] = f[m - 1]
      BY <3>1
    <3>3. g[m] = g[m - 1] \o ss[m] /\ f[m] = f[m - 1] \o ss[m]
      BY <2>2, <2>4, <1>2, <1>6
    <3> QED
      BY <3>2, <3>3, <2>2
  <2> QED
    BY <2>3, <2>4
<1>8. f = [i \in 1..n |-> f[i]] /\ g = [i \in 1..n |-> g[i]]
  BY <1>2, <1>5 DEF IsJoin
<1>9. g = f
  BY <1>7, <1>8
<1>10. CsvSeqs!FlattenSeq(ss) = g[n]
  BY <1>4, FlattenIsJoin, Zenon
<1> QED
  BY <1>1, <1>9, <1>10

(* The pieces of ss one after the other are text.                            *)
Laid(ss, off, text) == LaidUpTo(ss, Len(ss), off, text)

(* So are the pieces of the joined sequence.                                 *)
LEMMA FlattenPlaces ==
    ASSUME NEW X, NEW ss \in Seq(Seq(X))
    PROVE  /\ CsvSeqs!FlattenSeq(ss) \in Seq(X)
           /\ \E off : Laid(ss, off, CsvSeqs!FlattenSeq(ss))
<1> DEFINE n == Len(ss)
<1>1. CASE n = 0
  <2>1. CsvSeqs!FlattenSeq(ss) = ss
    BY <1>1, FlattenIsJoin, Zenon
  <2>2. ss = <<>>
    BY <1>1, EmptySeq
  <2>3. LaidUpTo(<<>>, 0, [i \in 0..0 |-> 0], <<>>)
    BY DEF LaidUpTo
  <2> QED
    BY <2>1, <2>2, <2>3 DEF Laid
<1>2. CASE n # 0
  <2>1. PICK g : JoinUpTo(g, ss, n, X) /\ CsvSeqs!FlattenSeq(ss) = g[n]
    BY <1>2, JoinTyped
  <2>2. g \in [1..n -> Seq(X)] /\ \A i \in 1..n : g[i] = IF i = 1 THEN ss[i] ELSE g[i - 1] \o ss[i]
    BY <2>1 DEF JoinUpTo
  <2> DEFINE Bad == {m \in 1..n : ~\E off : LaidUpTo(ss, m, off, g[m])}
  <2>3. Bad = {}
    <3> SUFFICES ASSUME Bad # {} PROVE FALSE
      OBVIOUS
    <3>1. PICK m \in Bad : \A k \in Bad : m <= k
      <4>1. Bad \subseteq Nat
        OBVIOUS
      <4> HIDE DEF Bad
      <4> QED
        BY <4>1, LeastNumber
    <3>2. m \in 1..n /\ ~\E off : LaidUpTo(ss, m, off, g[m])
      OBVIOUS
    <3>3. m - 1 \in Nat /\ m - 1 < Len(ss) /\ (m - 1) + 1 = m /\ ss[m] \in Seq(X)
      BY <3>2
    <3>4. CASE m = 1
      <4>1. LaidUpTo(ss, 0, [i \in 0..0 |-> 0], <<>>)
        BY DEF LaidUpTo
      <4>2. <<>> \in Seq(X) /\ 0 \in Nat /\ 0 < Len(ss)
        BY <3>3
      <4>3. \E o : LaidUpTo(ss, 0 + 1, o, <<>> \o ss[0 + 1])
        BY <4>1, <4>2, PlaceNext
      <4>4. 0 + 1 = m /\ <<>> \o ss[m] = g[m]
        <5>1. <<>> \o ss[m] = ss[m]
          BY <3>3, ConcatEmptySeq
        <5>2. g[m] = ss[m]
          BY <3>4, <3>2, <2>2
        <5> QED
          BY <5>1, <5>2, <3>4
      <4> QED
        BY <4>3, <4>4, <3>2
    <3>5. CASE m # 1
      <4>1. m - 1 \in 1..n /\ m - 1 \notin Bad
        <5>1. m - 1 \in 1..n /\ ~(m <= m - 1)
          BY <3>2, <3>5
        <5> HIDE DEF Bad
        <5> QED
          BY <5>1, <3>1
      <4>2. PICK off : LaidUpTo(ss, m - 1, off, g[m - 1])
        BY <4>1
      <4>3. g[m - 1] \in Seq(X) /\ g[m] = g[m - 1] \o ss[m]
        BY <4>1, <3>2, <3>5, <2>2
      <4>4. \E o : LaidUpTo(ss, (m - 1) + 1, o, g[m - 1] \o ss[(m - 1) + 1])
        BY <4>2, <4>3, <3>3, PlaceNext
      <4> QED
        BY <4>4, <4>3, <3>3, <3>2
    <3> QED
      BY <3>4, <3>5
  <2>4. n \in 1..n
    BY <1>2
  <2>5. \E off : LaidUpTo(ss, n, off, g[n])
    BY <2>3, <2>4
  <2> QED
    BY <2>1, <2>2, <2>4, <2>5 DEF Laid
<1> QED
  BY <1>1, <1>2

(* The characters of a file.                                                 *)
FileChars == CsvChars \cup {Quote, Comma, LF, CR}

(* What Doubled joins.                                                       *)
CharPieces(f) == [i \in DOMAIN f |-> IF f[i] = Quote THEN <<Quote, Quote>> ELSE <<f[i]>>]

(* Character k of f is written behind d[k - 1], a quote as two.              *)
IsDoubling(f, d) ==
    /\ d \in [0..Len(f) -> Nat] /\ d[0] = 0
    /\ Len(Doubled(f)) = d[Len(f)]
    /\ \A k \in 1..Len(f) : d[k] <= Len(Doubled(f))
    /\ \A k \in 1..Len(f) : Doubled(f)[d[k - 1] + 1] = f[k]
    /\ \A k \in 1..Len(f) : f[k] = Quote => d[k] = d[k - 1] + 2 /\ Doubled(f)[d[k - 1] + 2] = Quote
    /\ \A k \in 1..Len(f) : f[k] # Quote => d[k] = d[k - 1] + 1

(* Doubled writes a field so.                                                *)
LEMMA DoublingExists ==
    ASSUME NEW f \in Seq(FileChars)
    PROVE  Doubled(f) \in Seq(FileChars) /\ \E d : IsDoubling(f, d)
<1> DEFINE ss == CharPieces(f)
<1>1. DOMAIN f = 1..Len(f) /\ \A k \in 1..Len(f) : f[k] \in FileChars
  OBVIOUS
<1>2. Quote \in FileChars
  BY DEF FileChars
<1>3. \A k \in 1..Len(f) : ss[k] = IF f[k] = Quote THEN <<Quote, Quote>> ELSE <<f[k]>>
  BY <1>1 DEF CharPieces
<1>4. ASSUME NEW k \in 1..Len(f) PROVE ss[k] \in Seq(FileChars)
  <2>1. PICK c \in FileChars : c = f[k]
    BY <1>1
  <2>2. <<Quote, Quote>> \in Seq(FileChars) /\ <<c>> \in Seq(FileChars)
    BY <1>2
  <2> QED
    BY <1>3, <2>1, <2>2
<1>5. ss = [i \in 1..Len(f) |-> ss[i]]
  BY <1>1 DEF CharPieces
<1>6. ss \in Seq(Seq(FileChars)) /\ Len(ss) = Len(f)
  <2>1. PICK u : u = ss
    OBVIOUS
  <2>2. u \in [1..Len(f) -> Seq(FileChars)]
    BY <2>1, <1>4, <1>5
  <2>3. Len(f) \in Nat
    OBVIOUS
  <2>4. u \in Seq(Seq(FileChars))
    BY <2>2, <2>3
  <2>5. Len(u) = Len(f)
    BY <2>2, <2>3, <2>4
  <2> QED
    BY <2>1, <2>4, <2>5
<1>7. PICK w : w = Doubled(f)
  OBVIOUS
<1>8. w = CsvSeqs!FlattenSeq(ss)
  BY <1>7 DEF Doubled, CharPieces
<1> HIDE DEF ss
<1>9. w \in Seq(FileChars) /\ \E d : Laid(ss, d, w)
  BY <1>6, <1>8, FlattenPlaces
<1>10. PICK d : Laid(ss, d, w)
  BY <1>9
<1>11. /\ d \in [0..Len(f) -> Nat] /\ d[0] = 0
       /\ \A k \in 1..Len(f) : d[k] = d[k - 1] + Len(ss[k])
       /\ \A k \in 0..Len(f) : d[k] <= Len(w)
       /\ Len(w) = d[Len(f)]
       /\ \A k \in 1..Len(f) : \A x \in 1..Len(ss[k]) : w[d[k - 1] + x] = ss[k][x]
  BY <1>6, <1>10 DEF Laid, LaidUpTo
<1>12. ASSUME NEW k \in 1..Len(f)
       PROVE  /\ d[k] <= Len(w) /\ w[d[k - 1] + 1] = f[k]
              /\ f[k] = Quote => d[k] = d[k - 1] + 2 /\ w[d[k - 1] + 2] = Quote
              /\ f[k] # Quote => d[k] = d[k - 1] + 1
  <2>1. d[k] = d[k - 1] + Len(ss[k]) /\ d[k] <= Len(w) /\ \A x \in 1..Len(ss[k]) : w[d[k - 1] + x] = ss[k][x]
    BY <1>11
  <2>2. CASE f[k] = Quote
    <3>1. ss[k] = <<Quote, Quote>>
      BY <2>2, <1>3
    <3>2. Len(ss[k]) = 2 /\ ss[k][1] = Quote /\ ss[k][2] = Quote
      BY <3>1
    <3>3. w[d[k - 1] + 1] = Quote /\ w[d[k - 1] + 2] = Quote
      BY <2>1, <3>2
    <3> QED
      BY <2>1, <2>2, <3>2, <3>3
  <2>3. CASE f[k] # Quote
    <3>1. ss[k] = <<f[k]>>
      BY <2>3, <1>3
    <3>2. Len(ss[k]) = 1 /\ ss[k][1] = f[k]
      BY <3>1
    <3>3. w[d[k - 1] + 1] = f[k]
      BY <2>1, <3>2
    <3> QED
      BY <2>1, <2>3, <3>2, <3>3
  <2> QED
    BY <2>2, <2>3
<1>13. IsDoubling(f, d)
  BY <1>7, <1>11, <1>12 DEF IsDoubling
<1> QED
  BY <1>7, <1>9, <1>13

(* A field as it is written, in quotes where it needs them.                  *)
InQuotes(f, q) == q \/ ~Plain(f)
Cell(f, q) == Written(f, InQuotes(f, q))

(* A quoted field is its doubled text between quotes, a plain one is itself. *)
LEMMA CellShape ==
    ASSUME NEW f \in Seq(FileChars), NEW q \in BOOLEAN
    PROVE  /\ Cell(f, q) \in Seq(FileChars)
           /\ ~InQuotes(f, q) => Cell(f, q) = f
           /\ InQuotes(f, q) => /\ Len(Cell(f, q)) = Len(Doubled(f)) + 2
                                /\ Cell(f, q)[1] = Quote
                                /\ Cell(f, q)[Len(Doubled(f)) + 2] = Quote
                                /\ \A x \in 1..Len(Doubled(f)) : Cell(f, q)[1 + x] = Doubled(f)[x]
<1>1. PICK w \in Seq(FileChars) : w = Doubled(f)
  BY DoublingExists
<1>2. CASE InQuotes(f, q)
  <2>1. Cell(f, q) = <<Quote>> \o w \o <<Quote>>
    BY <1>1, <1>2 DEF Cell, Written
  <2>2. <<Quote>> \in Seq(FileChars) /\ Len(<<Quote>>) = 1 /\ <<Quote>>[1] = Quote
    BY DEF FileChars
  <2>3. PICK u : u = <<Quote>> \o w
    OBVIOUS
  <2>4. u \in Seq(FileChars) /\ Len(u) = 1 + Len(w)
    BY <2>2, <2>3, ConcatProperties
  <2>5. u[1] = Quote /\ \A x \in 1..Len(w) : u[1 + x] = w[x]
    <3>1. 1 \in 1..Len(<<Quote>>)
      BY <2>2
    <3> QED
      BY <2>2, <2>3, <3>1, ConcatAt
  <2>6. PICK v : v = u \o <<Quote>>
    OBVIOUS
  <2>7. v \in Seq(FileChars) /\ Len(v) = Len(u) + 1
    BY <2>2, <2>4, <2>6, ConcatProperties
  <2>8. /\ \A x \in 1..Len(u) : v[x] = u[x]
        /\ v[Len(u) + 1] = Quote
    <3>1. 1 \in 1..Len(<<Quote>>)
      BY <2>2
    <3> QED
      BY <2>2, <2>4, <2>6, <3>1, ConcatAt
  <2>9. Len(v) = Len(w) + 2 /\ v[1] = Quote /\ v[Len(w) + 2] = Quote /\ \A x \in 1..Len(w) : v[1 + x] = w[x]
    <3>1. PICK n \in Nat : n = Len(w)
      OBVIOUS
    <3>2. Len(u) = 1 + n /\ Len(v) = n + 2
      BY <3>1, <2>4, <2>7
    <3>3. 1 \in 1..Len(u) /\ \A x \in 1..n : 1 + x \in 1..Len(u)
      BY <3>2
    <3>4. Len(u) + 1 = n + 2
      BY <3>2
    <3> QED
      BY <3>1, <3>2, <3>3, <3>4, <2>5, <2>8
  <2>10. v = Cell(f, q)
    BY <2>1, <2>3, <2>6
  <2> QED
    BY <1>1, <1>2, <2>7, <2>9, <2>10
<1>3. CASE ~InQuotes(f, q)
  <2>1. Cell(f, q) = f
    BY <1>3 DEF Cell, Written
  <2> QED
    BY <2>1, <1>3
<1> QED
  BY <1>2, <1>3

(* Field j of the line l is written behind s[j], commas between them.        *)
IsRow(l, q, s) ==
    /\ s \in [1..Len(l) -> Nat] /\ s[1] = 0
    /\ \A j \in 1..Len(l) : s[j] + Len(Cell(l[j], q)) <= Len(Line(l, q))
    /\ \A j \in 1..Len(l) : \A x \in 1..Len(Cell(l[j], q)) : Line(l, q)[s[j] + x] = Cell(l[j], q)[x]
    /\ \A j \in 1..Len(l) : j < Len(l) =>
           /\ s[j + 1] = s[j] + Len(Cell(l[j], q)) + 1
           /\ Line(l, q)[s[j] + Len(Cell(l[j], q)) + 1] = Comma
    /\ Len(Line(l, q)) = s[Len(l)] + Len(Cell(l[Len(l)], q))

(* What Line joins.                                                          *)
FieldPieces(l, q) == [i \in DOMAIN l |-> (IF i = 1 THEN <<>> ELSE <<Comma>>) \o Cell(l[i], q)]

(* Line writes a line so.                                                    *)
LEMMA RowExists ==
    ASSUME NEW l \in Seq(Seq(FileChars)), Len(l) >= 1, NEW q \in BOOLEAN
    PROVE  Line(l, q) \in Seq(FileChars) /\ \E s : IsRow(l, q, s)
<1> DEFINE ss == FieldPieces(l, q)
<1>0. PICK n \in Nat : n = Len(l) /\ n >= 1
  OBVIOUS
<1>1. DOMAIN l = 1..n /\ \A j \in 1..n : l[j] \in Seq(FileChars)
  BY <1>0
<1>2. \A j \in 1..n : Cell(l[j], q) \in Seq(FileChars)
  BY <1>1, CellShape
<1>3. PICK c : c = [j \in 1..n |-> Cell(l[j], q)]
  OBVIOUS
<1>4. \A j \in 1..n : c[j] = Cell(l[j], q) /\ c[j] \in Seq(FileChars) /\ Len(c[j]) \in Nat
  <2>1. \A j \in 1..n : c[j] = Cell(l[j], q)
    BY <1>3
  <2>2. \A j \in 1..n : c[j] \in Seq(FileChars)
    BY <1>2, <2>1
  <2> QED
    BY <2>1, <2>2
<1>5. \A j \in 1..n : ss[j] = (IF j = 1 THEN <<>> ELSE <<Comma>>) \o c[j]
  BY <1>1, <1>4 DEF FieldPieces
<1>6. <<Comma>> \in Seq(FileChars) /\ Len(<<Comma>>) = 1 /\ <<Comma>>[1] = Comma
  BY DEF FileChars
<1>7. ss[1] = c[1]
  <2>1. 1 \in 1..n
    BY <1>0
  <2>2. c[1] \in Seq(FileChars) /\ ss[1] = <<>> \o c[1]
    BY <2>1, <1>4, <1>5
  <2> QED
    BY <2>2, ConcatEmptySeq
<1>8. ASSUME NEW j \in 1..n, j # 1
      PROVE  /\ ss[j] \in Seq(FileChars) /\ Len(ss[j]) = 1 + Len(c[j]) /\ ss[j][1] = Comma
             /\ \A x \in 1..Len(c[j]) : ss[j][1 + x] = c[j][x]
  <2>1. ss[j] = <<Comma>> \o c[j]
    BY <1>8, <1>5
  <2>2. 1 \in 1..Len(<<Comma>>)
    BY <1>6
  <2> QED
    BY <2>1, <2>2, <1>4, <1>6, ConcatProperties, ConcatAt
<1>9. \A j \in 1..n : ss[j] \in Seq(FileChars)
  BY <1>7, <1>8, <1>4
<1>10. ss \in Seq(Seq(FileChars)) /\ Len(ss) = n
  <2>1. PICK u : u = ss
    OBVIOUS
  <2>2. u = [j \in 1..n |-> u[j]]
    BY <2>1, <1>1 DEF FieldPieces
  <2>3. u \in [1..n -> Seq(FileChars)]
    BY <2>1, <2>2, <1>9
  <2>4. u \in Seq(Seq(FileChars))
    BY <2>3
  <2>5. Len(u) = n
    BY <2>3, <2>4
  <2> QED
    BY <2>1, <2>4, <2>5
<1>11. PICK w : w = Line(l, q)
  OBVIOUS
<1>12. w = CsvSeqs!FlattenSeq(ss)
  BY <1>11 DEF Line, FieldPieces, Cell, InQuotes
<1> HIDE DEF ss
<1>13. w \in Seq(FileChars) /\ \E d : Laid(ss, d, w)
  BY <1>10, <1>12, FlattenPlaces
<1>14. PICK d : Laid(ss, d, w)
  BY <1>13
<1>15. /\ d \in [0..n -> Nat] /\ d[0] = 0
       /\ \A k \in 1..n : d[k] = d[k - 1] + Len(ss[k])
       /\ \A k \in 0..n : d[k] <= Len(w)
       /\ Len(w) = d[n]
       /\ \A k \in 1..n : \A x \in 1..Len(ss[k]) : w[d[k - 1] + x] = ss[k][x]
  BY <1>10, <1>14 DEF Laid, LaidUpTo
<1>16. PICK s : s = [j \in 1..n |-> d[j - 1] + (IF j = 1 THEN 0 ELSE 1)]
  OBVIOUS
<1>17. \A j \in 1..n : d[j - 1] \in Nat /\ d[j] \in Nat
  BY <1>15
<1>18. s \in [1..n -> Nat] /\ s[1] = 0 /\ \A j \in 1..n : j # 1 => s[j] = d[j - 1] + 1
  <2>1. s \in [1..n -> Nat]
    BY <1>16, <1>17
  <2>2. 1 \in 1..n /\ d[1 - 1] = 0
    BY <1>0, <1>15
  <2>3. s[1] = 0
    BY <2>2, <1>16
  <2>4. \A j \in 1..n : j # 1 => s[j] = d[j - 1] + 1
    BY <1>16
  <2> QED
    BY <2>1, <2>3, <2>4
<1>19. ASSUME NEW j \in 1..n
       PROVE  d[j] = s[j] + Len(c[j]) /\ s[j] \in Nat /\ \A x \in 1..Len(c[j]) : w[s[j] + x] = c[j][x]
  <2>1. d[j] = d[j - 1] + Len(ss[j]) /\ \A x \in 1..Len(ss[j]) : w[d[j - 1] + x] = ss[j][x]
    BY <1>15
  <2>2. CASE j = 1
    <3>1. s[j] = 0 /\ d[j - 1] = 0 /\ ss[j] = c[j]
      BY <2>2, <1>7, <1>15, <1>18
    <3> QED
      BY <2>1, <3>1
  <2>3. CASE j # 1
    <3>1. s[j] = d[j - 1] + 1 /\ Len(ss[j]) = 1 + Len(c[j])
      BY <2>3, <1>8, <1>18
    <3>2. ASSUME NEW x \in 1..Len(c[j]) PROVE w[s[j] + x] = c[j][x]
      <4>1. 1 + x \in 1..Len(ss[j])
        BY <3>1, <1>4
      <4>2. w[d[j - 1] + (1 + x)] = ss[j][1 + x]
        BY <2>1, <4>1
      <4>3. d[j - 1] + (1 + x) = s[j] + x
        <5>1. PICK a \in Nat : a = d[j - 1]
          BY <1>17
        <5>2. s[j] = a + 1
          BY <5>1, <3>1
        <5>3. x \in Nat
          BY <1>4
        <5>4. a + (1 + x) = (a + 1) + x
          BY <5>3
        <5> QED
          BY <5>1, <5>2, <5>4, Zenon
      <4>4. ss[j][1 + x] = c[j][x]
        BY <2>3, <1>8
      <4> QED
        BY <4>2, <4>3, <4>4
    <3>3. d[j] = s[j] + Len(c[j])
      <4>1. PICK a \in Nat : a = d[j - 1]
        BY <1>17
      <4>2. PICK b \in Nat : b = Len(c[j])
        BY <1>4
      <4>3. s[j] = a + 1 /\ d[j] = a + (1 + b)
        BY <2>1, <3>1, <4>1, <4>2
      <4>4. a + (1 + b) = (a + 1) + b
        OBVIOUS
      <4> QED
        BY <4>2, <4>3, <4>4, Zenon
    <3> QED
      BY <3>1, <3>2, <3>3, <1>17
  <2> QED
    BY <2>2, <2>3
<1>20. ASSUME NEW j \in 1..n, j < n
       PROVE  s[j + 1] = s[j] + Len(c[j]) + 1 /\ w[s[j] + Len(c[j]) + 1] = Comma
  <2>1. j + 1 \in 1..n /\ j + 1 # 1 /\ (j + 1) - 1 = j
    BY <1>20
  <2>2. s[j + 1] = d[j] + 1
    BY <2>1, <1>18
  <2>3. Len(ss[j + 1]) = 1 + Len(c[j + 1]) /\ ss[j + 1][1] = Comma /\ Len(c[j + 1]) \in Nat
    BY <2>1, <1>8, <1>4
  <2>4. 1 \in 1..Len(ss[j + 1])
    BY <2>3
  <2>5. w[d[j] + 1] = ss[j + 1][1]
    BY <2>1, <2>4, <1>15
  <2>6. d[j] = s[j] + Len(c[j])
    BY <1>19
  <2> QED
    BY <2>2, <2>3, <2>5, <2>6
<1>21. n \in 1..n /\ Len(w) = s[n] + Len(c[n])
  <2>1. n \in 1..n
    BY <1>0
  <2> QED
    BY <2>1, <1>19, <1>15
<1>22. \A j \in 1..n : s[j] + Len(c[j]) <= Len(w)
  BY <1>15, <1>19, <1>1
<1>23. IsRow(l, q, s)
  <2>1. s \in [1..Len(l) -> Nat] /\ s[1] = 0
    BY <1>0, <1>18
  <2>2. \A j \in 1..n : s[j] + Len(Cell(l[j], q)) <= Len(w)
    BY <1>4, <1>22
  <2>3. \A j \in 1..n : \A x \in 1..Len(Cell(l[j], q)) : w[s[j] + x] = Cell(l[j], q)[x]
    BY <1>4, <1>19
  <2>4. \A j \in 1..n : j < n => /\ s[j + 1] = s[j] + Len(Cell(l[j], q)) + 1
                                 /\ w[s[j] + Len(Cell(l[j], q)) + 1] = Comma
    BY <1>4, <1>20
  <2>5. Len(w) = s[n] + Len(Cell(l[n], q))
    BY <1>4, <1>21
  <2> QED
    BY <1>0, <1>11, <2>1, <2>2, <2>3, <2>4, <2>5, Zenon DEF IsRow
<1> QED
  BY <1>11, <1>13, <1>23

(* A table that can be written: its lines have fields.                       *)
IsTable(t) == t \in Seq(Seq(Seq(FileChars))) /\ \A i \in 1..Len(t) : Len(t[i]) >= 1
LineEnds == {<<LF>>, <<CR, LF>>}

(* Line i is written behind b[i], an end of line behind it, and none behind  *)
(* the last unless the file has a final one.                                 *)
IsPage(t, text, q, e, final, b) ==
    /\ b \in [1..Len(t) -> Nat] /\ b[1] = 0
    /\ \A i \in 1..Len(t) : b[i] + Len(Line(t[i], q)) <= Len(text)
    /\ \A i \in 1..Len(t) : \A x \in 1..Len(Line(t[i], q)) : text[b[i] + x] = Line(t[i], q)[x]
    /\ \A i \in 1..Len(t) : (i < Len(t) \/ final) =>
           /\ b[i] + Len(Line(t[i], q)) + Len(e) <= Len(text)
           /\ \A x \in 1..Len(e) : text[b[i] + Len(Line(t[i], q)) + x] = e[x]
    /\ \A i \in 1..Len(t) : i < Len(t) => b[i + 1] = b[i] + Len(Line(t[i], q)) + Len(e)
    /\ Len(text) = b[Len(t)] + Len(Line(t[Len(t)], q)) + (IF final THEN Len(e) ELSE 0)

(* What TextOf joins.                                                        *)
LinePieces(t, q, e, final) ==
    [i \in DOMAIN t |-> Line(t[i], q) \o (IF i < Len(t) \/ final THEN e ELSE <<>>)]

(* TextOf writes a table so.                                                 *)
LEMMA PageExists ==
    ASSUME NEW t, IsTable(t), Len(t) >= 1, NEW q \in BOOLEAN, NEW e \in LineEnds, NEW final \in BOOLEAN
    PROVE  /\ TextOf(t, q, e, final) \in Seq(FileChars)
           /\ \E b : IsPage(t, TextOf(t, q, e, final), q, e, final, b)
<1> DEFINE ss == LinePieces(t, q, e, final)
<1>0. PICK n \in Nat : n = Len(t) /\ n >= 1
  BY DEF IsTable
<1>1. DOMAIN t = 1..n /\ \A i \in 1..n : t[i] \in Seq(Seq(FileChars)) /\ Len(t[i]) >= 1
  BY <1>0 DEF IsTable
<1>2. \A i \in 1..n : Line(t[i], q) \in Seq(FileChars)
  BY <1>1, RowExists
<1>3. PICK c : c = [i \in 1..n |-> Line(t[i], q)]
  OBVIOUS
<1>4. \A i \in 1..n : c[i] = Line(t[i], q) /\ c[i] \in Seq(FileChars) /\ Len(c[i]) \in Nat
  <2>1. \A i \in 1..n : c[i] = Line(t[i], q)
    BY <1>3
  <2>2. \A i \in 1..n : c[i] \in Seq(FileChars)
    BY <1>2, <2>1
  <2> QED
    BY <2>1, <2>2
<1>5. \A i \in 1..n : ss[i] = c[i] \o (IF i < n \/ final THEN e ELSE <<>>)
  BY <1>0, <1>1, <1>4 DEF LinePieces
<1>6. e \in Seq(FileChars) /\ Len(e) \in Nat
  <2>1. LF \in FileChars /\ CR \in FileChars
    BY DEF FileChars
  <2>2. CASE e = <<LF>>
    BY <2>1, <2>2
  <2>3. CASE e = <<CR, LF>>
    BY <2>1, <2>3
  <2> QED
    BY <2>2, <2>3 DEF LineEnds
<1>7. ASSUME NEW i \in 1..n, i < n \/ final
      PROVE  /\ ss[i] \in Seq(FileChars) /\ Len(ss[i]) = Len(c[i]) + Len(e)
             /\ \A x \in 1..Len(c[i]) : ss[i][x] = c[i][x]
             /\ \A x \in 1..Len(e) : ss[i][Len(c[i]) + x] = e[x]
  <2>1. ss[i] = c[i] \o e
    BY <1>7, <1>5
  <2> QED
    BY <2>1, <1>4, <1>6, ConcatProperties, ConcatAt
<1>8. ASSUME NEW i \in 1..n, ~(i < n \/ final)
      PROVE  ss[i] = c[i]
  <2>1. ss[i] = c[i] \o <<>>
    BY <1>8, <1>5
  <2> QED
    BY <2>1, <1>4, ConcatEmptySeq
<1>9. \A i \in 1..n : ss[i] \in Seq(FileChars)
  BY <1>7, <1>8, <1>4
<1>10. ss \in Seq(Seq(FileChars)) /\ Len(ss) = n
  <2>1. PICK u : u = ss
    OBVIOUS
  <2>2. u = [j \in 1..n |-> u[j]]
    BY <2>1, <1>1 DEF LinePieces
  <2>3. u \in [1..n -> Seq(FileChars)]
    BY <2>1, <2>2, <1>9
  <2>4. u \in Seq(Seq(FileChars))
    BY <2>3
  <2>5. Len(u) = n
    BY <2>3, <2>4
  <2> QED
    BY <2>1, <2>4, <2>5
<1>11. PICK w : w = TextOf(t, q, e, final)
  OBVIOUS
<1>12. w = CsvSeqs!FlattenSeq(ss)
  BY <1>11 DEF TextOf, LinePieces
<1> HIDE DEF ss
<1>13. w \in Seq(FileChars) /\ \E d : Laid(ss, d, w)
  BY <1>10, <1>12, FlattenPlaces
<1>14. PICK d : Laid(ss, d, w)
  BY <1>13
<1>15. /\ d \in [0..n -> Nat] /\ d[0] = 0
       /\ \A k \in 1..n : d[k] = d[k - 1] + Len(ss[k])
       /\ \A k \in 0..n : d[k] <= Len(w)
       /\ Len(w) = d[n]
       /\ \A k \in 1..n : \A x \in 1..Len(ss[k]) : w[d[k - 1] + x] = ss[k][x]
  BY <1>10, <1>14 DEF Laid, LaidUpTo
<1>16. PICK b : b = [i \in 1..n |-> d[i - 1]]
  OBVIOUS
<1>17. \A i \in 1..n : d[i - 1] \in Nat /\ d[i] \in Nat /\ d[i] <= Len(w)
  BY <1>15
<1>18. b \in [1..n -> Nat] /\ b[1] = 0 /\ \A i \in 1..n : b[i] = d[i - 1]
  <2>1. b \in [1..n -> Nat] /\ \A i \in 1..n : b[i] = d[i - 1]
    BY <1>16, <1>17
  <2>2. 1 \in 1..n /\ d[1 - 1] = 0
    BY <1>0, <1>15
  <2> QED
    BY <2>1, <2>2
<1>19. ASSUME NEW i \in 1..n, i < n \/ final
       PROVE  /\ d[i] = b[i] + Len(c[i]) + Len(e)
              /\ \A x \in 1..Len(c[i]) : w[b[i] + x] = c[i][x]
              /\ \A x \in 1..Len(e) : w[b[i] + Len(c[i]) + x] = e[x]
  <2>1. /\ d[i] = b[i] + Len(ss[i])
        /\ \A x \in 1..Len(ss[i]) : w[b[i] + x] = ss[i][x]
    BY <1>15, <1>18
  <2>2. PICK a \in Nat : a = b[i]
    BY <1>18
  <2>3. PICK m \in Nat : m = Len(c[i])
    BY <1>4
  <2>4. PICK h \in Nat : h = Len(e)
    BY <1>6
  <2>5. /\ Len(ss[i]) = m + h
        /\ \A x \in 1..m : ss[i][x] = c[i][x]
        /\ \A x \in 1..h : ss[i][m + x] = e[x]
    BY <1>19, <1>7, <2>3, <2>4
  <2>6. d[i] = a + m + h
    BY <2>1, <2>2, <2>5
  <2>7. \A x \in 1..m : x \in 1..(m + h)
    OBVIOUS
  <2>8. \A x \in 1..m : w[a + x] = c[i][x]
    BY <2>1, <2>2, <2>5, <2>7
  <2>9. ASSUME NEW x \in 1..h PROVE w[a + m + x] = e[x]
    <3>1. m + x \in 1..(m + h) /\ a + (m + x) = a + m + x
      OBVIOUS
    <3>2. w[a + (m + x)] = ss[i][m + x]
      BY <3>1, <2>1, <2>2, <2>5
    <3> QED
      BY <3>1, <3>2, <2>5
  <2> QED
    BY <2>2, <2>3, <2>4, <2>6, <2>8, <2>9, Zenon
<1>20. ASSUME NEW i \in 1..n, ~(i < n \/ final)
       PROVE  d[i] = b[i] + Len(c[i]) /\ \A x \in 1..Len(c[i]) : w[b[i] + x] = c[i][x]
  <2>1. ss[i] = c[i]
    BY <1>20, <1>8
  <2> QED
    BY <2>1, <1>15, <1>18
<1>21. ASSUME NEW i \in 1..n
       PROVE  /\ b[i] + Len(c[i]) <= Len(w)
              /\ \A x \in 1..Len(c[i]) : w[b[i] + x] = c[i][x]
  <2>1. b[i] \in Nat /\ Len(c[i]) \in Nat /\ Len(w) \in Nat /\ d[i] <= Len(w)
    BY <1>4, <1>13, <1>17, <1>18
  <2>2. CASE i < n \/ final
    <3>1. d[i] = b[i] + Len(c[i]) + Len(e) /\ \A x \in 1..Len(c[i]) : w[b[i] + x] = c[i][x]
      BY <2>2, <1>19
    <3> QED
      BY <3>1, <2>1, <1>6
  <2>3. CASE ~(i < n \/ final)
    BY <2>1, <2>3, <1>20
  <2> QED
    BY <2>2, <2>3
<1>22. ASSUME NEW i \in 1..n, i < n
       PROVE  b[i + 1] = b[i] + Len(c[i]) + Len(e)
  <2>1. i + 1 \in 1..n /\ (i + 1) - 1 = i
    BY <1>22
  <2>2. b[i + 1] = d[i]
    BY <2>1, <1>18
  <2> QED
    BY <2>2, <1>22, <1>19
<1>23. Len(w) = b[n] + Len(c[n]) + (IF final THEN Len(e) ELSE 0)
  <2>1. n \in 1..n /\ Len(w) = d[n] /\ ~(n < n)
    BY <1>0, <1>15
  <2>2. CASE final
    BY <2>1, <2>2, <1>19
  <2>3. CASE ~final
    <3>1. d[n] = b[n] + Len(c[n]) /\ b[n] \in Nat /\ Len(c[n]) \in Nat
      BY <2>1, <2>3, <1>20, <1>18, <1>4
    <3> QED
      BY <2>1, <2>3, <3>1
  <2> QED
    BY <2>2, <2>3
<1>24. \A i \in 1..n : (i < n \/ final) => b[i] + Len(c[i]) + Len(e) <= Len(w)
  BY <1>17, <1>19
<1>25. IsPage(t, w, q, e, final, b)
  <2>1. b \in [1..Len(t) -> Nat] /\ b[1] = 0
    BY <1>0, <1>18
  <2>2. \A i \in 1..n : b[i] + Len(Line(t[i], q)) <= Len(w)
    BY <1>4, <1>21
  <2>3. \A i \in 1..n : \A x \in 1..Len(Line(t[i], q)) : w[b[i] + x] = Line(t[i], q)[x]
    BY <1>4, <1>21
  <2>4. \A i \in 1..n : (i < n \/ final) =>
           /\ b[i] + Len(Line(t[i], q)) + Len(e) <= Len(w)
           /\ \A x \in 1..Len(e) : w[b[i] + Len(Line(t[i], q)) + x] = e[x]
    BY <1>4, <1>19, <1>24
  <2>5. \A i \in 1..n : i < n => b[i + 1] = b[i] + Len(Line(t[i], q)) + Len(e)
    BY <1>4, <1>22
  <2>6. Len(w) = b[n] + Len(Line(t[n], q)) + (IF final THEN Len(e) ELSE 0)
    <3>1. n \in 1..n
      BY <1>0
    <3> QED
      BY <3>1, <1>4, <1>23
  <2> QED
    BY <1>0, <2>1, <2>2, <2>3, <2>4, <2>5, <2>6, Zenon DEF IsPage
<1> QED
  BY <1>11, <1>13, <1>25

(* Where the field j of line i ends, when it is written behind S[i][j].      *)
Behind(t, q, S, i, j) == S[i][j] + Len(Cell(t[i][j], q))

(* That field is in its place, and behind it a comma, an end of line or the  *)
(* end of the file.                                                          *)
InPlace(t, text, q, e, final, S, i, j) ==
    /\ S[i][j] \in Nat /\ Behind(t, q, S, i, j) \in Nat /\ Behind(t, q, S, i, j) <= Len(text)
    /\ \A x \in 1..Len(Cell(t[i][j], q)) : text[S[i][j] + x] = Cell(t[i][j], q)[x]
    /\ j < Len(t[i]) => /\ S[i][j + 1] = Behind(t, q, S, i, j) + 1
                        /\ text[Behind(t, q, S, i, j) + 1] = Comma
                        /\ Behind(t, q, S, i, j) + 1 <= Len(text)
    /\ j = Len(t[i]) /\ (i < Len(t) \/ final) =>
           /\ Behind(t, q, S, i, j) + Len(e) <= Len(text)
           /\ \A x \in 1..Len(e) : text[Behind(t, q, S, i, j) + x] = e[x]
    /\ j = Len(t[i]) /\ i < Len(t) => S[i + 1][1] = Behind(t, q, S, i, j) + Len(e)
    /\ j = Len(t[i]) /\ i = Len(t) => Len(text) = Behind(t, q, S, i, j) + (IF final THEN Len(e) ELSE 0)

(* Every field of a written table is in its place.                           *)
IsLayout(t, text, q, e, final, S) ==
    /\ text \in Seq(FileChars) /\ S[1][1] = 0
    /\ \A i \in 1..Len(t) : \A j \in 1..Len(t[i]) : InPlace(t, text, q, e, final, S, i, j)

(* TextOf puts every field in its place.                                     *)
LEMMA LayoutExists ==
    ASSUME NEW t, IsTable(t), Len(t) >= 1, NEW q \in BOOLEAN, NEW e \in LineEnds, NEW final \in BOOLEAN
    PROVE  \E S : IsLayout(t, TextOf(t, q, e, final), q, e, final, S)
<1>1. PICK text \in Seq(FileChars) : text = TextOf(t, q, e, final)
  BY PageExists
<1>2. PICK b : IsPage(t, text, q, e, final, b)
  BY <1>1, PageExists
<1>3. PICK n \in Nat : n = Len(t) /\ n >= 1
  BY DEF IsTable
<1>4. \A i \in 1..n : t[i] \in Seq(Seq(FileChars)) /\ Len(t[i]) >= 1 /\ Len(t[i]) \in Nat
  BY <1>3 DEF IsTable
<1>5. PICK r : r = [i \in 1..n |-> CHOOSE s : IsRow(t[i], q, s)]
  OBVIOUS
<1>6. ASSUME NEW i \in 1..n PROVE IsRow(t[i], q, r[i])
  <2>1. r[i] = CHOOSE s : IsRow(t[i], q, s)
    BY <1>5
  <2>2. \E s : IsRow(t[i], q, s)
    BY <1>4, RowExists
  <2> QED
    BY <2>1, <2>2
<1>7. PICK S : S = [i \in 1..n |-> [j \in 1..Len(t[i]) |-> b[i] + r[i][j]]]
  OBVIOUS
<1>8. \A i \in 1..n : \A j \in 1..Len(t[i]) : S[i][j] = b[i] + r[i][j]
  BY <1>7
<1>9. PICK len \in Nat : len = Len(text)
  OBVIOUS
<1>10. PICK h \in Nat : h = Len(e)
  <2>1. CASE e = <<LF>>
    BY <2>1
  <2>2. CASE e = <<CR, LF>>
    BY <2>2
  <2> QED
    BY <2>1, <2>2 DEF LineEnds
<1>11. ASSUME NEW i \in 1..n
       PROVE  /\ b[i] \in Nat /\ b[i] + Len(Line(t[i], q)) <= len
              /\ \A x \in 1..Len(Line(t[i], q)) : text[b[i] + x] = Line(t[i], q)[x]
              /\ (i < n \/ final) => /\ b[i] + Len(Line(t[i], q)) + h <= len
                                     /\ \A x \in 1..h : text[b[i] + Len(Line(t[i], q)) + x] = e[x]
              /\ i < n => b[i + 1] = b[i] + Len(Line(t[i], q)) + h
              /\ i = n => len = b[i] + Len(Line(t[i], q)) + (IF final THEN h ELSE 0)
  BY <1>2, <1>3, <1>9, <1>10 DEF IsPage
<1>12. b[1] = 0
  BY <1>2 DEF IsPage
<1>13. S[1][1] = 0
  <2>1. 1 \in 1..n /\ 1 \in 1..Len(t[1])
    BY <1>3, <1>4
  <2>2. r[1][1] = 0
    BY <2>1, <1>6 DEF IsRow
  <2> QED
    BY <2>1, <2>2, <1>8, <1>12
<1>14. ASSUME NEW i \in 1..n, NEW j \in 1..Len(t[i])
       PROVE  InPlace(t, text, q, e, final, S, i, j)
  <2>1. PICK m \in Nat : m = Len(t[i]) /\ j \in 1..m
    BY <1>4
  <2>2. PICK w \in Seq(FileChars) : w = Line(t[i], q)
    BY <1>4, RowExists
  <2>3. PICK k \in Nat : k = Len(w)
    BY <2>2
  <2>4. t[i][j] \in Seq(FileChars)
    BY <1>4
  <2>5. PICK c \in Seq(FileChars) : c = Cell(t[i][j], q)
    BY <2>4, CellShape
  <2>6. PICK g \in Nat : g = Len(c)
    BY <2>5
  <2>7. /\ r[i] \in [1..m -> Nat] /\ r[i][j] + g <= k
        /\ \A x \in 1..g : w[r[i][j] + x] = c[x]
        /\ j < m => r[i][j + 1] = r[i][j] + g + 1 /\ w[r[i][j] + g + 1] = Comma
        /\ j = m => k = r[i][j] + g
    BY <1>6, <2>1, <2>2, <2>3, <2>5, <2>6, Zenon DEF IsRow
  <2>8. PICK a \in Nat : a = b[i]
    BY <1>11
  <2>9. PICK p \in Nat : p = r[i][j]
    BY <2>1, <2>7
  <2>23. p + g <= k /\ (j = m => k = p + g)
    BY <2>7, <2>9, Zenon
  <2>10. S[i][j] = a + p /\ Behind(t, q, S, i, j) = a + p + g
    BY <1>8, <2>5, <2>6, <2>8, <2>9, Zenon DEF Behind
  <2>11. /\ a + k <= len
         /\ \A x \in 1..k : text[a + x] = w[x]
         /\ (i < n \/ final) => a + k + h <= len /\ \A x \in 1..h : text[a + k + x] = e[x]
         /\ i < n => b[i + 1] = a + k + h
         /\ i = n => len = a + k + (IF final THEN h ELSE 0)
    BY <1>11, <2>2, <2>3, <2>8, Zenon
  <2>12. ASSUME NEW x \in 1..g PROVE text[a + p + x] = c[x]
    <3>1. p + x \in 1..k /\ a + (p + x) = a + p + x
      BY <2>23
    <3>2. text[a + (p + x)] = w[p + x]
      BY <2>11, <3>1
    <3> QED
      BY <3>1, <3>2, <2>7, <2>9
  <2>13. ASSUME j < m
         PROVE  S[i][j + 1] = a + p + g + 1 /\ text[a + p + g + 1] = Comma /\ a + p + g + 1 <= len
    <3>1. j + 1 \in 1..m /\ j + 1 \in 1..Len(t[i])
      BY <2>1, <2>13
    <3>2. r[i][j + 1] = p + g + 1 /\ w[p + g + 1] = Comma
      BY <2>7, <2>9, <2>13
    <3>3. S[i][j + 1] = a + (p + g + 1)
      BY <3>1, <3>2, <1>8, <2>8
    <3>4. p + g + 1 <= k
      <4>1. 1..m = 1..Len(t[i]) /\ r[i][j + 1] + Len(Cell(t[i][j + 1], q)) <= k
        BY <1>6, <2>1, <2>2, <2>3, <3>1, Zenon DEF IsRow
      <4>2. t[i][j + 1] \in Seq(FileChars)
        BY <3>1, <1>4
      <4>3. Len(Cell(t[i][j + 1], q)) \in Nat
        BY <4>2, CellShape
      <4> QED
        BY <4>1, <4>3, <3>2
    <3>5. p + g + 1 \in 1..k /\ a + (p + g + 1) = a + p + g + 1
      BY <3>4
    <3>6. text[a + (p + g + 1)] = w[p + g + 1]
      BY <3>5, <2>11
    <3> QED
      BY <3>2, <3>3, <3>4, <3>5, <3>6, <2>11
  <2>14. ASSUME j = m PROVE a + k = a + p + g
    <3>1. k = p + g
      BY <2>23, <2>14, Zenon
    <3> QED
      BY <3>1
  <2>15. ASSUME j = m, i < n PROVE S[i + 1][1] = a + p + g + h
    <3>1. i + 1 \in 1..n
      BY <2>15
    <3>2. 1 \in 1..Len(t[i + 1])
      BY <3>1, <1>4
    <3>3. r[i + 1][1] = 0
      BY <3>1, <1>6 DEF IsRow
    <3>4. S[i + 1][1] = b[i + 1] + 0 /\ b[i + 1] = a + k + h
      BY <3>1, <3>2, <3>3, <1>8, <2>11, <2>15
    <3>5. a + k = a + p + g
      BY <2>14, <2>15
    <3>6. b[i + 1] = a + p + g + h
      BY <3>4, <3>5, Zenon
    <3>7. b[i + 1] \in Nat
      BY <3>6
    <3> QED
      BY <3>4, <3>6, <3>7
  <2>16. a + p + g <= len
    BY <2>23, <2>11
  <2>17. \A x \in 1..Len(Cell(t[i][j], q)) : text[S[i][j] + x] = Cell(t[i][j], q)[x]
    BY <2>5, <2>6, <2>10, <2>12, Zenon
  <2>18. j < Len(t[i]) => /\ S[i][j + 1] = Behind(t, q, S, i, j) + 1
                          /\ text[Behind(t, q, S, i, j) + 1] = Comma
                          /\ Behind(t, q, S, i, j) + 1 <= len
    BY <2>1, <2>10, <2>13, Zenon
  <2>19. j = Len(t[i]) /\ (i < n \/ final) =>
                     /\ Behind(t, q, S, i, j) + h <= len
                     /\ \A x \in 1..h : text[Behind(t, q, S, i, j) + x] = e[x]
    BY <2>1, <2>10, <2>11, <2>14, Zenon
  <2>20. j = Len(t[i]) /\ i < n => S[i + 1][1] = Behind(t, q, S, i, j) + h
    BY <2>1, <2>10, <2>15, Zenon
  <2>21. j = Len(t[i]) /\ i = n => len = Behind(t, q, S, i, j) + (IF final THEN h ELSE 0)
    BY <2>1, <2>10, <2>11, <2>14, Zenon
  <2>22. S[i][j] \in Nat /\ Behind(t, q, S, i, j) \in Nat /\ Behind(t, q, S, i, j) <= len
    BY <2>10, <2>16
  <2>24. n = Len(t) /\ len = Len(text) /\ h = Len(e)
    BY <1>3, <1>9, <1>10
  <2> QED
    BY <2>17, <2>18, <2>19, <2>20, <2>21, <2>22, <2>24, Zenon DEF InPlace
<1>15. IsLayout(t, text, q, e, final, S)
  BY <1>1, <1>3, <1>13, <1>14, Zenon DEF IsLayout
<1> QED
  BY <1>1, <1>15

(* The offset behind which character k + 1 of a quoted field is written.     *)
Dbl(f) == CHOOSE d : IsDoubling(f, d)

(* It is where Doubled writes it.                                            *)
LEMMA DblIsDoubling == \A f \in Seq(FileChars) : IsDoubling(f, Dbl(f))
  BY DoublingExists DEF Dbl

(* What is in the text at a field in quotes: the quote that opens it, its    *)
(* characters, each quote twice, and the quote that closes it.               *)
LEMMA QuotedText ==
    ASSUME NEW t, NEW text \in Seq(FileChars), NEW q \in BOOLEAN, NEW e, NEW final, NEW S, NEW i, NEW j,
           InPlace(t, text, q, e, final, S, i, j), t[i][j] \in Seq(FileChars), InQuotes(t[i][j], q)
    PROVE  /\ text[S[i][j] + 1] = Quote /\ S[i][j] + 1 <= Len(text)
           /\ \A k \in 1..Len(t[i][j]) :
                /\ Dbl(t[i][j])[k - 1] \in Nat
                /\ text[S[i][j] + Dbl(t[i][j])[k - 1] + 2] = t[i][j][k]
                /\ S[i][j] + Dbl(t[i][j])[k - 1] + 2 < Len(text)
                /\ t[i][j][k] = Quote => /\ text[S[i][j] + Dbl(t[i][j])[k - 1] + 3] = Quote
                                         /\ Dbl(t[i][j])[k] = Dbl(t[i][j])[k - 1] + 2
                /\ t[i][j][k] # Quote => Dbl(t[i][j])[k] = Dbl(t[i][j])[k - 1] + 1
           /\ Dbl(t[i][j])[0] = 0
           /\ Behind(t, q, S, i, j) = S[i][j] + Dbl(t[i][j])[Len(t[i][j])] + 2
           /\ text[Behind(t, q, S, i, j)] = Quote
           /\ Behind(t, q, S, i, j) \in 1..Len(text)
<1>1. PICK f \in Seq(FileChars) : f = t[i][j]
  OBVIOUS
<1>2. PICK d : d = Dbl(f)
  OBVIOUS
<1>3. IsDoubling(f, d)
  BY <1>2, DblIsDoubling
<1>4. PICK w \in Seq(FileChars) : w = Doubled(f)
  BY DoublingExists
<1>5. PICK m \in Nat : m = Len(w)
  BY <1>4
<1>6. PICK n \in Nat : n = Len(f)
  OBVIOUS
<1>7. /\ d \in [0..n -> Nat] /\ d[0] = 0 /\ m = d[n]
      /\ \A k \in 1..n : d[k] <= m
      /\ \A k \in 1..n : w[d[k - 1] + 1] = f[k]
      /\ \A k \in 1..n : f[k] = Quote => d[k] = d[k - 1] + 2 /\ w[d[k - 1] + 2] = Quote
      /\ \A k \in 1..n : f[k] # Quote => d[k] = d[k - 1] + 1
  BY <1>3, <1>4, <1>5, <1>6, Zenon DEF IsDoubling
<1>8. PICK c \in Seq(FileChars) : c = Cell(f, q)
  BY CellShape
<1>9. Len(c) = m + 2 /\ c[1] = Quote /\ c[m + 2] = Quote /\ \A x \in 1..m : c[1 + x] = w[x]
  <2>1. /\ Len(Cell(f, q)) = Len(Doubled(f)) + 2
        /\ Cell(f, q)[1] = Quote
        /\ Cell(f, q)[Len(Doubled(f)) + 2] = Quote
        /\ \A x \in 1..Len(Doubled(f)) : Cell(f, q)[1 + x] = Doubled(f)[x]
    BY <1>1, CellShape
  <2> QED
    BY <2>1, <1>4, <1>5, <1>8, Zenon
<1>10. PICK s \in Nat : s = S[i][j]
  BY DEF InPlace
<1>11. PICK len \in Nat : len = Len(text)
  OBVIOUS
<1>12. Behind(t, q, S, i, j) = s + (m + 2)
  BY <1>1, <1>8, <1>9, <1>10 DEF Behind
<1>13. s + (m + 2) <= len /\ \A x \in 1..(m + 2) : text[s + x] = c[x]
  <2>1. Behind(t, q, S, i, j) <= Len(text) /\ \A x \in 1..Len(Cell(t[i][j], q)) : text[S[i][j] + x] = Cell(t[i][j], q)[x]
    BY DEF InPlace
  <2> QED
    BY <2>1, <1>1, <1>8, <1>9, <1>10, <1>11, <1>12
<1>14. text[s + 1] = Quote /\ s + 1 <= len
  <2>1. 1 \in 1..(m + 2)
    OBVIOUS
  <2>2. text[s + 1] = Quote
    BY <2>1, <1>9, <1>13, Zenon
  <2>3. s + 1 <= len
    BY <1>13
  <2> QED
    BY <2>2, <2>3
<1>15. text[s + (m + 2)] = Quote /\ s + (m + 2) \in 1..len
  <2>1. m + 2 \in 1..(m + 2)
    OBVIOUS
  <2>2. text[s + (m + 2)] = c[m + 2]
    BY <2>1, <1>13, Zenon
  <2>3. text[s + (m + 2)] = Quote
    BY <2>2, <1>9, Zenon
  <2>4. s + (m + 2) <= len /\ s + (m + 2) >= 1
    BY <1>13
  <2>5. s + (m + 2) \in 1..len
    BY <2>4
  <2> QED
    BY <2>3, <2>5
<1>16. ASSUME NEW k \in 1..n
       PROVE  /\ d[k - 1] \in Nat /\ text[s + d[k - 1] + 2] = f[k]
              /\ s + d[k - 1] + 2 < len
              /\ f[k] = Quote => text[s + d[k - 1] + 3] = Quote /\ d[k] = d[k - 1] + 2
              /\ f[k] # Quote => d[k] = d[k - 1] + 1
  <2>0. k - 1 \in 0..n
    OBVIOUS
  <2>1. PICK a \in Nat : a = d[k - 1]
    <3>1. d \in [0..n -> Nat]
      BY <1>7
    <3>2. d[k - 1] \in Nat
      BY <2>0, <3>1
    <3> QED
      BY <3>2
  <2>2. /\ d[k] <= m /\ w[a + 1] = f[k]
        /\ f[k] = Quote => d[k] = a + 2 /\ w[a + 2] = Quote
        /\ f[k] # Quote => d[k] = a + 1
    BY <1>7, <2>1, Zenon
  <2>3. a + 1 <= m
    BY <2>2
  <2>4. a + 1 \in 1..m /\ 1 + (a + 1) \in 1..(m + 2) /\ s + (1 + (a + 1)) = s + a + 2
    BY <2>3
  <2>5. text[s + (1 + (a + 1))] = c[1 + (a + 1)] /\ c[1 + (a + 1)] = w[a + 1]
    BY <2>4, <1>9, <1>13
  <2>6. ASSUME f[k] = Quote PROVE text[s + a + 3] = Quote
    <3>1. a + 2 \in 1..m /\ 1 + (a + 2) \in 1..(m + 2) /\ s + (1 + (a + 2)) = s + a + 3
      <4>1. a + 2 <= m
        BY <2>2, <2>6, Zenon
      <4> QED
        BY <4>1
    <3>2. text[s + (1 + (a + 2))] = c[1 + (a + 2)] /\ c[1 + (a + 2)] = w[a + 2]
      BY <3>1, <1>9, <1>13
    <3> QED
      BY <3>1, <3>2, <2>2, <2>6
  <2>7. s + a + 2 < len
    BY <2>3, <1>13
  <2> QED
    BY <2>1, <2>2, <2>4, <2>5, <2>6, <2>7
<1>17. m = d[n] /\ s + (m + 2) = s + m + 2
  BY <1>7
<1>18. /\ text[S[i][j] + 1] = Quote /\ S[i][j] + 1 <= Len(text)
       /\ Dbl(t[i][j])[0] = 0
       /\ text[Behind(t, q, S, i, j)] = Quote
       /\ Behind(t, q, S, i, j) \in 1..Len(text)
  BY <1>1, <1>2, <1>7, <1>10, <1>11, <1>12, <1>14, <1>15, Zenon
<1>19. Behind(t, q, S, i, j) = S[i][j] + Dbl(t[i][j])[Len(t[i][j])] + 2
  BY <1>1, <1>2, <1>6, <1>10, <1>12, <1>17, Zenon
<1>20. \A k \in 1..Len(t[i][j]) :
                /\ Dbl(t[i][j])[k - 1] \in Nat
                /\ text[S[i][j] + Dbl(t[i][j])[k - 1] + 2] = t[i][j][k]
                /\ S[i][j] + Dbl(t[i][j])[k - 1] + 2 < Len(text)
                /\ t[i][j][k] = Quote => /\ text[S[i][j] + Dbl(t[i][j])[k - 1] + 3] = Quote
                                         /\ Dbl(t[i][j])[k] = Dbl(t[i][j])[k - 1] + 2
                /\ t[i][j][k] # Quote => Dbl(t[i][j])[k] = Dbl(t[i][j])[k - 1] + 1
  BY <1>1, <1>2, <1>6, <1>10, <1>11, <1>16, Zenon
<1> QED
  BY <1>18, <1>19, <1>20

(* At a plain field: its characters, none of which means anything.           *)
LEMMA PlainText ==
    ASSUME NEW t, NEW text \in Seq(FileChars), NEW q \in BOOLEAN, NEW e, NEW final, NEW S, NEW i, NEW j,
           InPlace(t, text, q, e, final, S, i, j), t[i][j] \in Seq(FileChars), ~InQuotes(t[i][j], q)
    PROVE  /\ \A k \in 1..Len(t[i][j]) :
                /\ text[S[i][j] + k] = t[i][j][k] /\ t[i][j][k] \notin {Quote, Comma, LF, CR}
                /\ S[i][j] + k <= Len(text)
           /\ Behind(t, q, S, i, j) = S[i][j] + Len(t[i][j])
<1>1. Cell(t[i][j], q) = t[i][j]
  BY CellShape
<1>2. Behind(t, q, S, i, j) = S[i][j] + Len(t[i][j])
  BY <1>1 DEF Behind
<1>3. S[i][j] \in Nat /\ Behind(t, q, S, i, j) <= Len(text) /\ \A x \in 1..Len(t[i][j]) : text[S[i][j] + x] = t[i][j][x]
  BY <1>1 DEF InPlace
<1>4. PICK f \in Seq(FileChars) : f = t[i][j]
  OBVIOUS
<1>5. \A k \in 1..Len(f) : f[k] \notin {Quote, Comma, LF, CR}
  BY <1>4 DEF InQuotes, Plain
<1>6. \A k \in 1..Len(f) : S[i][j] + k <= Len(text)
  BY <1>2, <1>3, <1>4
<1> QED
  BY <1>2, <1>3, <1>4, <1>5, <1>6

(* What a line that is read becomes, and the lines before line i that are    *)
(* not blank.                                                                *)
RowSoFar(l, j) == [x \in 1..(j - 1) |-> trim(l[x])]
KeptBelow(t, i) == {x \in 1..(i - 1) : \E j \in DOMAIN t[x] : trim(t[x][j]) # <<>>}

(* Nothing is left of an empty field.                                        *)
LEMMA TrimEmpty == trim(<<>>) = <<>>
<1>1. {i \in DOMAIN <<>> : <<>>[i] \notin White} = {}
  OBVIOUS
<1>2. (CHOOSE i \in {} \cup {0} : \A j \in {} : j <= i) = 0
  OBVIOUS
<1>3. (CHOOSE i \in {} \cup {1} : \A j \in {} : i <= j /\ ({} # {} => i \in {})) = 1
  OBVIOUS
<1>4. SubSeq(<<>>, 1, 0) = <<>>
  OBVIOUS
<1> QED
  BY <1>1, <1>2, <1>3, <1>4 DEF trim

(* One more element behind the first n - 1 of g.                             *)
LEMMA AppendNext ==
    ASSUME NEW g, NEW n \in Nat, n >= 1
    PROVE  Append([x \in 1..(n - 1) |-> g[x]], g[n]) = [x \in 1..n |-> g[x]]
<1>1. PICK V : V = {g[x] : x \in 1..n}
  OBVIOUS
<1>2. PICK u : u = [x \in 1..(n - 1) |-> g[x]]
  OBVIOUS
<1>3. u \in Seq(V) /\ Len(u) = n - 1 /\ g[n] \in V /\ n - 1 \in Nat
  <2>1. \A x \in 1..n : g[x] \in V
    BY <1>1
  <2>2. n - 1 \in Nat /\ \A x \in 1..(n - 1) : x \in 1..n
    OBVIOUS
  <2>3. u \in [1..(n - 1) -> V]
    BY <2>1, <2>2, <1>2
  <2>4. PICK m \in Nat : m = n - 1
    BY <2>2
  <2>5. u \in Seq(V)
    BY <2>3, <2>4
  <2>6. Len(u) = m
    BY <2>3, <2>4, <2>5
  <2>7. n \in 1..n
    OBVIOUS
  <2> QED
    BY <2>1, <2>2, <2>4, <2>5, <2>6, <2>7
<1>4. PICK v : v = Append(u, g[n])
  OBVIOUS
<1>5. v \in Seq(V) /\ Len(v) = n /\ v[n] = g[n] /\ \A x \in 1..(n - 1) : v[x] = u[x]
  BY <1>3, <1>4, AppendProperties
<1>6. \A x \in 1..n : v[x] = g[x]
  BY <1>2, <1>5
<1>7. v = [x \in 1..n |-> v[x]]
  BY <1>5
<1> QED
  BY <1>2, <1>4, <1>6, <1>7

(* The row so far with the next field.                                       *)
LEMMA RowNext ==
    ASSUME NEW l, NEW n \in Nat, n >= 1
    PROVE  Append(RowSoFar(l, n), trim(l[n])) = RowSoFar(l, n + 1)
<1>1. PICK g : g = [x \in 1..n |-> trim(l[x])]
  OBVIOUS
<1>2. \A x \in 1..n : g[x] = trim(l[x])
  BY <1>1
<1>3. RowSoFar(l, n) = [x \in 1..(n - 1) |-> g[x]]
  <2>1. \A x \in 1..(n - 1) : x \in 1..n
    OBVIOUS
  <2> QED
    BY <2>1, <1>2 DEF RowSoFar
<1>4. RowSoFar(l, n + 1) = [x \in 1..n |-> g[x]]
  <2>1. (n + 1) - 1 = n
    OBVIOUS
  <2> QED
    BY <2>1, <1>2 DEF RowSoFar
<1>5. g[n] = trim(l[n])
  BY <1>2
<1> QED
  BY <1>3, <1>4, <1>5, AppendNext

(* The lines of t before line i are read back as rows.                       *)
ReadRows(t, rows, i, p) ==
    /\ p \in [1..Len(rows) -> KeptBelow(t, i)]
    /\ \A a, b \in 1..Len(rows) : a < b => p[a] < p[b]
    /\ \A x \in KeptBelow(t, i) : \E a \in 1..Len(rows) : p[a] = x
    /\ \A a \in 1..Len(rows) : rows[a] = Trimmed(t[p[a]])
ReadBack(t, rows, i) ==
    /\ rows \in Seq({Trimmed(t[x]) : x \in DOMAIN t}) /\ Len(rows) <= i - 1
    /\ \E p : ReadRows(t, rows, i, p)

(* Before the first line nothing is read.                                    *)
LEMMA ReadNone ==
    ASSUME NEW t
    PROVE  ReadBack(t, <<>>, 1)
<1>1. KeptBelow(t, 1) = {}
  BY DEF KeptBelow
<1>2. ReadRows(t, <<>>, 1, <<>>)
  BY <1>1 DEF ReadRows
<1> QED
  BY <1>2 DEF ReadBack

(* One more line is read: it is kept unless it is blank.                     *)
LEMMA ReadNext ==
    ASSUME NEW t, NEW rows, NEW i \in Nat, i \in DOMAIN t, ReadBack(t, rows, i), NEW row, row = Trimmed(t[i])
    PROVE  ReadBack(t, IF \E x \in DOMAIN row : row[x] # <<>> THEN Append(rows, row) ELSE rows, i + 1)
<1>1. PICK V : V = {Trimmed(t[x]) : x \in DOMAIN t}
  OBVIOUS
<1>2. rows \in Seq(V) /\ Len(rows) <= i - 1 /\ row \in V
  BY <1>1 DEF ReadBack
<1>3. PICK n \in Nat : n = Len(rows)
  BY <1>2
<1>4. PICK p : ReadRows(t, rows, i, p)
  BY DEF ReadBack
<1>5. /\ p \in [1..n -> KeptBelow(t, i)]
      /\ \A a, b \in 1..n : a < b => p[a] < p[b]
      /\ \A x \in KeptBelow(t, i) : \E a \in 1..n : p[a] = x
      /\ \A a \in 1..n : rows[a] = Trimmed(t[p[a]])
  BY <1>3, <1>4 DEF ReadRows
<1>6. (\E x \in DOMAIN row : row[x] # <<>>) <=> \E j \in DOMAIN t[i] : trim(t[i][j]) # <<>>
  BY DEF Trimmed
<1>7. CASE ~\E x \in DOMAIN row : row[x] # <<>>
  <2>1. KeptBelow(t, i + 1) = KeptBelow(t, i)
    <3>1. \A x : x \in 1..((i + 1) - 1) <=> (x \in 1..(i - 1) \/ (x = i /\ i >= 1))
      OBVIOUS
    <3> QED
      BY <3>1, <1>6, <1>7 DEF KeptBelow
  <2>2. ReadRows(t, rows, i + 1, p)
    BY <2>1, <1>4 DEF ReadRows
  <2>3. Len(rows) <= (i + 1) - 1
    BY <1>2, <1>3
  <2>4. ReadBack(t, rows, i + 1)
    BY <2>2, <2>3, <1>1, <1>2, Zenon DEF ReadBack
  <2> QED
    BY <2>4, <1>7
<1>8. CASE \E x \in DOMAIN row : row[x] # <<>>
  <2>1. PICK v : v = Append(rows, row)
    OBVIOUS
  <2>2. v \in Seq(V) /\ Len(v) = n + 1 /\ v[n + 1] = row /\ \A a \in 1..n : v[a] = rows[a]
    BY <2>1, <1>2, <1>3, AppendProperties
  <2>3. PICK r : r = [a \in 1..(n + 1) |-> IF a = n + 1 THEN i ELSE p[a]]
    OBVIOUS
  <2>4. r[n + 1] = i /\ \A a \in 1..n : r[a] = p[a]
    BY <2>3
  <2>5. i >= 1
    BY <1>2, <1>3
  <2>6. /\ i \in KeptBelow(t, i + 1) /\ KeptBelow(t, i) \subseteq KeptBelow(t, i + 1)
        /\ \A x \in KeptBelow(t, i + 1) : x = i \/ x \in KeptBelow(t, i)
        /\ \A x \in KeptBelow(t, i) : x \in 1..(i - 1)
    <3>1. \A x : x \in 1..((i + 1) - 1) <=> (x \in 1..(i - 1) \/ x = i)
      BY <2>5
    <3> QED
      BY <3>1, <1>6, <1>8 DEF KeptBelow
  <2>7. r \in [1..(n + 1) -> KeptBelow(t, i + 1)]
    BY <2>3, <2>6, <1>5
  <2>8. ASSUME NEW a \in 1..(n + 1), NEW b \in 1..(n + 1), a < b PROVE r[a] < r[b]
    <3>1. CASE b = n + 1
      <4>1. a \in 1..n
        BY <3>1, <2>8
      <4>2. p[a] \in 1..(i - 1)
        BY <4>1, <1>5, <2>6
      <4> QED
        BY <4>1, <4>2, <3>1, <2>4
    <3>2. CASE b # n + 1
      <4>1. a \in 1..n /\ b \in 1..n
        BY <3>2, <2>8
      <4> QED
        BY <4>1, <2>4, <2>8, <1>5
    <3> QED
      BY <3>1, <3>2
  <2>9. ASSUME NEW x \in KeptBelow(t, i + 1) PROVE \E a \in 1..(n + 1) : r[a] = x
    <3>1. CASE x = i
      <4>1. n + 1 \in 1..(n + 1)
        OBVIOUS
      <4> QED
        BY <4>1, <3>1, <2>4
    <3>2. CASE x \in KeptBelow(t, i)
      <4>1. PICK a \in 1..n : p[a] = x
        BY <3>2, <1>5
      <4>2. a \in 1..(n + 1)
        OBVIOUS
      <4> QED
        BY <4>1, <4>2, <2>4
    <3> QED
      BY <3>1, <3>2, <2>6
  <2>10. ASSUME NEW a \in 1..(n + 1) PROVE v[a] = Trimmed(t[r[a]])
    <3>1. CASE a = n + 1
      BY <3>1, <2>2, <2>4
    <3>2. CASE a \in 1..n
      BY <3>2, <2>2, <2>4, <1>5
    <3> QED
      BY <3>1, <3>2
  <2>11. ReadRows(t, v, i + 1, r)
    BY <2>2, <2>7, <2>8, <2>9, <2>10 DEF ReadRows
  <2>12. Len(v) <= (i + 1) - 1
    BY <2>2, <1>2, <1>3
  <2>13. ReadBack(t, v, i + 1)
    BY <2>2, <2>11, <2>12, <1>1 DEF ReadBack
  <2> QED
    BY <2>1, <2>13, <1>8
<1> QED
  BY <1>7, <1>8

(* Where the parser is in field j of line i, k characters of which it has    *)
(* read: before the opening quote, between the quotes, in a plain field or   *)
(* behind the field.                                                         *)
CellPos(t, q, S, i, j, k, pos, inq) ==
    \/ InQuotes(t[i][j], q) /\ inq = FALSE /\ k = 0 /\ pos = S[i][j] + 1
    \/ InQuotes(t[i][j], q) /\ inq = TRUE /\ pos = S[i][j] + Dbl(t[i][j])[k] + 2
    \/ ~InQuotes(t[i][j], q) /\ inq = FALSE /\ pos = S[i][j] + k + 1
    \/ inq = FALSE /\ k = Len(t[i][j]) /\ pos = Behind(t, q, S, i, j) + 1

ReadingAt(q, S, i, j, k) ==
    /\ k \in 0..Len(csvTable[i][j])
    /\ csvRow = RowSoFar(csvTable[i], j) /\ csvField = SubSeq(csvTable[i][j], 1, k)
    /\ ReadBack(csvTable, csvRows, i)
    /\ CellPos(csvTable, q, S, i, j, k, csvPos, inQuotes)
Reading(q, e, final, S) ==
    /\ csvEnded = FALSE /\ IsLayout(csvTable, csvText, q, e, final, S)
    /\ \E i \in 1..Len(csvTable) : \E j \in 1..Len(csvTable[i]) : \E k : ReadingAt(q, S, i, j, k)
AllRead ==
    /\ csvRow = <<>> /\ csvField = <<>> /\ inQuotes = FALSE /\ csvPos = Len(csvText) + 1
    /\ ReadBack(csvTable, csvRows, Len(csvTable) + 1)

(* The inductive invariant: what has been read of the table is what was      *)
(* written before the position.                                              *)
CsvInv ==
    /\ IsTable(csvTable) /\ csvText \in Seq(FileChars) /\ csvEnded \in BOOLEAN
    /\ \/ \E q, final \in BOOLEAN : \E e \in LineEnds : \E S : Reading(q, e, final, S)
       \/ AllRead

(* The fields of a table, and what is read of one.                           *)
LEMMA TableTypes ==
    ASSUME NEW t, IsTable(t)
    PROVE  /\ DOMAIN t = 1..Len(t) /\ Len(t) \in Nat
           /\ \A i \in 1..Len(t) : /\ DOMAIN t[i] = 1..Len(t[i]) /\ Len(t[i]) \in Nat /\ Len(t[i]) >= 1
                                   /\ \A j \in 1..Len(t[i]) : t[i][j] \in Seq(FileChars)
  BY DEF IsTable

(* A field read to character k, and one more.                                *)
LEMMA SubSeqNext ==
    ASSUME NEW X, NEW f \in Seq(X), NEW k \in 0..Len(f)
    PROVE  /\ SubSeq(f, 1, 0) = <<>> /\ SubSeq(f, 1, Len(f)) = f
           /\ k < Len(f) => Append(SubSeq(f, 1, k), f[k + 1]) = SubSeq(f, 1, k + 1)
<1>1. SubSeq(f, 1, 0) = <<>> /\ SubSeq(f, 1, Len(f)) = f
  OBVIOUS
<1>2. ASSUME k < Len(f) PROVE Append(SubSeq(f, 1, k), f[k + 1]) = SubSeq(f, 1, k + 1)
  <2>1. PICK u : u = SubSeq(f, 1, k)
    OBVIOUS
  <2>2. u \in Seq(X) /\ Len(u) = k /\ \A x \in 1..k : u[x] = f[x]
    BY <2>1
  <2>3. k + 1 \in 1..Len(f) /\ f[k + 1] \in X
    BY <1>2
  <2>4. PICK v : v = Append(u, f[k + 1])
    OBVIOUS
  <2>5. v \in Seq(X) /\ Len(v) = k + 1 /\ v[k + 1] = f[k + 1] /\ \A x \in 1..k : v[x] = u[x]
    BY <2>2, <2>3, <2>4, AppendProperties
  <2>6. PICK w : w = SubSeq(f, 1, k + 1)
    OBVIOUS
  <2>7. w \in Seq(X) /\ Len(w) = k + 1 /\ \A x \in 1..(k + 1) : w[x] = f[x]
    BY <2>3, <2>6
  <2>8. \A x \in 1..(k + 1) : v[x] = w[x]
    BY <2>2, <2>5, <2>7
  <2>9. v = w
    BY <2>5, <2>7, <2>8, SeqEqual
  <2> QED
    BY <2>1, <2>4, <2>6, <2>9
<1> QED
  BY <1>1, <1>2

(* A field starts at its place, in quotes or plain.                          *)
LEMMA CellOpens ==
    ASSUME NEW t, NEW q, NEW S, NEW i, NEW j, S[i][j] \in Nat
    PROVE  CellPos(t, q, S, i, j, 0, S[i][j] + 1, FALSE)
  BY DEF CellPos

(* What a step of parseCsv does, by the character it reads.                  *)
LEMMA ParseSteps ==
    ASSUME parseCsv, inQuotes \in BOOLEAN
    PROVE  /\ csvPos <= Len(csvText) /\ csvTable' = csvTable /\ csvText' = csvText /\ csvEnded' = csvEnded
           /\ inQuotes /\ Ch = Quote /\ NextIs(Quote) =>
                csvField' = Append(csvField, Quote) /\ csvPos' = csvPos + 2 /\ UNCHANGED <<csvRow, csvRows, inQuotes>>
           /\ inQuotes /\ Ch = Quote /\ ~NextIs(Quote) =>
                inQuotes' = FALSE /\ csvPos' = csvPos + 1 /\ UNCHANGED <<csvRow, csvField, csvRows>>
           /\ inQuotes /\ Ch # Quote =>
                csvField' = Append(csvField, Ch) /\ csvPos' = csvPos + 1 /\ UNCHANGED <<csvRow, csvRows, inQuotes>>
           /\ ~inQuotes /\ Ch = Quote =>
                inQuotes' = TRUE /\ csvPos' = csvPos + 1 /\ UNCHANGED <<csvRow, csvField, csvRows>>
           /\ ~inQuotes /\ Ch = Comma =>
                /\ csvRow' = Append(csvRow, trim(csvField)) /\ csvField' = <<>> /\ csvPos' = csvPos + 1
                /\ UNCHANGED <<csvRows, inQuotes>>
           /\ ~inQuotes /\ Ch \in {LF, CR} =>
                /\ EndLine /\ UNCHANGED inQuotes
                /\ csvPos' = csvPos + (IF Ch = CR /\ NextIs(LF) THEN 2 ELSE 1)
           /\ ~inQuotes /\ Ch \notin {Quote, Comma, LF, CR} =>
                csvField' = Append(csvField, Ch) /\ csvPos' = csvPos + 1 /\ UNCHANGED <<csvRow, csvRows, inQuotes>>
<1>1. /\ Quote # Comma /\ Quote # LF /\ Quote # CR /\ Comma # LF /\ Comma # CR /\ LF # CR
  BY DEF Quote, Comma, LF, CR
<1>2. csvPos <= Len(csvText) /\ csvTable' = csvTable /\ csvText' = csvText /\ csvEnded' = csvEnded
  BY DEF parseCsv
<1>3. CASE inQuotes
  <2>1. ReadQuoted
    BY <1>3, Zenon DEF parseCsv, ReadPlain
  <2> QED
    BY <1>2, <1>3, <2>1, Zenon DEF ReadQuoted, DoubledQuote, Add
<1>4. CASE ~inQuotes
  <2>1. ReadPlain
    BY <1>4, Zenon DEF parseCsv, ReadQuoted
  <2> QED
    BY <1>1, <1>2, <1>4, <2>1, Zenon DEF ReadPlain, Add
<1> QED
  BY <1>3, <1>4

(* Behind a field comes a comma, an end of line or nothing.                  *)
LEMMA AfterText ==
    ASSUME NEW t, NEW text \in Seq(FileChars), NEW q \in BOOLEAN, NEW e \in LineEnds, NEW final \in BOOLEAN,
           NEW S, NEW i \in 1..Len(t), NEW j \in 1..Len(t[i]), Len(t) \in Nat, Len(t[i]) \in Nat,
           InPlace(t, text, q, e, final, S, i, j)
    PROVE  /\ Behind(t, q, S, i, j) \in Nat
           /\ Behind(t, q, S, i, j) < Len(text) => text[Behind(t, q, S, i, j) + 1] \in {Comma, LF, CR}
<1>1. PICK z : z = Behind(t, q, S, i, j)
  OBVIOUS
<1>2. z \in Nat
  BY <1>1 DEF InPlace
<1>3. ASSUME z < Len(text) PROVE text[z + 1] \in {Comma, LF, CR}
  <2>1. CASE j < Len(t[i])
    BY <1>1, <2>1 DEF InPlace
  <2>2. CASE j = Len(t[i]) /\ (i < Len(t) \/ final)
    <3>1. \A x \in 1..Len(e) : text[z + x] = e[x]
      BY <1>1, <2>2 DEF InPlace
    <3>2. 1 \in 1..Len(e) /\ e[1] \in {LF, CR}
      <4>1. CASE e = <<LF>>
        BY <4>1
      <4>2. CASE e = <<CR, LF>>
        BY <4>2
      <4> QED
        BY <4>1, <4>2 DEF LineEnds
    <3> QED
      BY <3>1, <3>2
  <2>3. CASE j = Len(t[i]) /\ i = Len(t) /\ ~final
    <3>1. Len(text) = z + 0
      BY <1>1, <2>3 DEF InPlace
    <3> QED
      BY <3>1, <1>2, <1>3
  <2>4. \/ j < Len(t[i]) \/ (j = Len(t[i]) /\ (i < Len(t) \/ final))
        \/ (j = Len(t[i]) /\ i = Len(t) /\ ~final)
    OBVIOUS
  <2> QED
    BY <2>1, <2>2, <2>3, <2>4
<1> QED
  BY <1>1, <1>2, <1>3

(* The end of line i adds the line.                                          *)
LEMMA EndLineReads ==
    ASSUME IsTable(csvTable), NEW i \in 1..Len(csvTable), ReadBack(csvTable, csvRows, i), EndLine,
           csvRow = RowSoFar(csvTable[i], Len(csvTable[i])), csvField = csvTable[i][Len(csvTable[i])]
    PROVE  ReadBack(csvTable, csvRows', i + 1) /\ csvRow' = <<>> /\ csvField' = <<>>
<1>1. PICK l : l = csvTable[i]
  OBVIOUS
<1>2. PICK n \in Nat : n = Len(l) /\ n >= 1 /\ DOMAIN l = 1..n
  BY <1>1, TableTypes
<1>3. PICK row : row = Append(csvRow, trim(csvField))
  OBVIOUS
<1>4. row = RowSoFar(l, n + 1)
  <2>1. row = Append(RowSoFar(l, n), trim(l[n]))
    BY <1>1, <1>2, <1>3, Zenon
  <2> QED
    BY <2>1, <1>2, RowNext
<1>5. row = Trimmed(l)
  <2>1. (n + 1) - 1 = n
    OBVIOUS
  <2> QED
    BY <2>1, <1>2, <1>4, Zenon DEF RowSoFar, Trimmed
<1>6. i \in Nat /\ i \in DOMAIN csvTable
  BY TableTypes
<1>7. ReadBack(csvTable, IF \E x \in DOMAIN row : row[x] # <<>> THEN Append(csvRows, row) ELSE csvRows, i + 1)
  BY <1>1, <1>5, <1>6, ReadNext
<1>8. csvRows' = IF \E x \in DOMAIN row : row[x] # <<>> THEN Append(csvRows, row) ELSE csvRows
  BY <1>3, Zenon DEF EndLine
<1>9. csvRow' = <<>> /\ csvField' = <<>>
  BY DEF EndLine
<1> QED
  BY <1>7, <1>8, <1>9, Zenon

(* A step within a field reads on in it.                                     *)
LEMMA InCellStep ==
    ASSUME IsTable(csvTable), csvText \in Seq(FileChars),
           NEW q \in BOOLEAN, NEW e \in LineEnds, NEW final \in BOOLEAN, NEW S,
           NEW i \in 1..Len(csvTable), NEW j \in 1..Len(csvTable[i]), NEW k,
           IsLayout(csvTable, csvText, q, e, final, S), ReadingAt(q, S, i, j, k),
           ~(inQuotes = FALSE /\ k = Len(csvTable[i][j]) /\ csvPos = Behind(csvTable, q, S, i, j) + 1),
           parseCsv
    PROVE  \E m : ReadingAt(q, S, i, j, m)'
<1>1. InPlace(csvTable, csvText, q, e, final, S, i, j)
  BY DEF IsLayout
<1>2. PICK f \in Seq(FileChars) : f = csvTable[i][j]
  BY TableTypes
<1>3. PICK n \in Nat : n = Len(f)
  BY <1>2
<1>4. PICK s \in Nat : s = S[i][j]
  BY <1>1 DEF InPlace
<1>5. PICK z \in Nat : z = Behind(csvTable, q, S, i, j)
  BY <1>1 DEF InPlace
<1>6. PICK d : d = Dbl(f)
  OBVIOUS
<1>7. /\ k \in 0..n /\ csvField = SubSeq(f, 1, k) /\ csvRow = RowSoFar(csvTable[i], j)
      /\ ReadBack(csvTable, csvRows, i)
  BY <1>2, <1>3 DEF ReadingAt
<1>8. \/ InQuotes(f, q) /\ inQuotes = FALSE /\ k = 0 /\ csvPos = s + 1
      \/ InQuotes(f, q) /\ inQuotes = TRUE /\ csvPos = s + d[k] + 2
      \/ ~InQuotes(f, q) /\ inQuotes = FALSE /\ csvPos = s + k + 1 /\ k # n
  <2>1. \/ InQuotes(f, q) /\ inQuotes = FALSE /\ k = 0 /\ csvPos = s + 1
        \/ InQuotes(f, q) /\ inQuotes = TRUE /\ csvPos = s + d[k] + 2
        \/ ~InQuotes(f, q) /\ inQuotes = FALSE /\ csvPos = s + k + 1
    BY <1>2, <1>3, <1>4, <1>5, <1>6, Zenon DEF ReadingAt, CellPos
  <2>2. ASSUME ~InQuotes(f, q), k = n, csvPos = s + k + 1, inQuotes = FALSE PROVE FALSE
    <3>3. csvTable[i][j] \in Seq(FileChars) /\ ~InQuotes(csvTable[i][j], q)
      BY <1>2, <2>2
    <3>4. Behind(csvTable, q, S, i, j) = S[i][j] + Len(csvTable[i][j])
      BY <3>3, <1>1, PlainText
    <3>1. z = s + n
      BY <3>4, <1>2, <1>3, <1>4, <1>5, Zenon
    <3>2. csvPos = z + 1
      BY <3>1, <2>2
    <3> QED
      BY <3>2, <2>2, <1>2, <1>3, <1>5, Zenon
  <2> QED
    BY <2>1, <2>2, Zenon
<1>9. inQuotes \in BOOLEAN
  BY <1>8
<1>10. csvTable' = csvTable
  BY <1>9, ParseSteps
<1>11. ASSUME NEW m, m \in 0..n, csvRow' = csvRow, csvRows' = csvRows, csvField' = SubSeq(f, 1, m),
              \/ InQuotes(f, q) /\ inQuotes' = TRUE /\ csvPos' = s + d[m] + 2
              \/ ~InQuotes(f, q) /\ inQuotes' = FALSE /\ csvPos' = s + m + 1
              \/ inQuotes' = FALSE /\ m = n /\ csvPos' = z + 1
       PROVE  ReadingAt(q, S, i, j, m)'
  <2>1. CellPos(csvTable, q, S, i, j, m, csvPos', inQuotes')
    BY <1>11, <1>2, <1>3, <1>4, <1>5, <1>6, Zenon DEF CellPos
  <2> QED
    BY <2>1, <1>2, <1>3, <1>7, <1>10, <1>11, Zenon DEF ReadingAt
<1>12. CASE InQuotes(f, q)
  <2>1. /\ csvText[s + 1] = Quote /\ d[0] = 0 /\ z = s + d[n] + 2 /\ csvText[z] = Quote /\ z \in 1..Len(csvText)
        /\ \A x \in 1..n : /\ d[x - 1] \in Nat /\ csvText[s + d[x - 1] + 2] = f[x]
                           /\ s + d[x - 1] + 2 < Len(csvText)
                           /\ f[x] = Quote => csvText[s + d[x - 1] + 3] = Quote /\ d[x] = d[x - 1] + 2
                           /\ f[x] # Quote => d[x] = d[x - 1] + 1
    <3>1. csvTable[i][j] \in Seq(FileChars) /\ InQuotes(csvTable[i][j], q)
      BY <1>2, <1>12
    <3>2. /\ csvText[S[i][j] + 1] = Quote
          /\ Dbl(csvTable[i][j])[0] = 0
          /\ Behind(csvTable, q, S, i, j) = S[i][j] + Dbl(csvTable[i][j])[Len(csvTable[i][j])] + 2
          /\ csvText[Behind(csvTable, q, S, i, j)] = Quote
          /\ Behind(csvTable, q, S, i, j) \in 1..Len(csvText)
      BY <1>1, <3>1, QuotedText
    <3>3. \A x \in 1..Len(csvTable[i][j]) :
                /\ Dbl(csvTable[i][j])[x - 1] \in Nat
                /\ csvText[S[i][j] + Dbl(csvTable[i][j])[x - 1] + 2] = csvTable[i][j][x]
                /\ S[i][j] + Dbl(csvTable[i][j])[x - 1] + 2 < Len(csvText)
                /\ csvTable[i][j][x] = Quote => /\ csvText[S[i][j] + Dbl(csvTable[i][j])[x - 1] + 3] = Quote
                                                /\ Dbl(csvTable[i][j])[x] = Dbl(csvTable[i][j])[x - 1] + 2
                /\ csvTable[i][j][x] # Quote => Dbl(csvTable[i][j])[x] = Dbl(csvTable[i][j])[x - 1] + 1
      BY <1>1, <3>1, QuotedText
    <3>4. /\ csvText[s + 1] = Quote /\ d[0] = 0 /\ z = s + d[n] + 2 /\ csvText[z] = Quote /\ z \in 1..Len(csvText)
      BY <3>2, <1>2, <1>3, <1>4, <1>5, <1>6, Zenon
    <3>5. \A x \in 1..n : /\ d[x - 1] \in Nat /\ csvText[s + d[x - 1] + 2] = f[x]
                          /\ s + d[x - 1] + 2 < Len(csvText)
                          /\ f[x] = Quote => csvText[s + d[x - 1] + 3] = Quote /\ d[x] = d[x - 1] + 2
                          /\ f[x] # Quote => d[x] = d[x - 1] + 1
      BY <3>3, <1>2, <1>3, <1>4, <1>6, Zenon
    <3> QED
      BY <3>4, <3>5, Zenon
  <2>2. CASE inQuotes = FALSE /\ k = 0 /\ csvPos = s + 1
    <3>1. Ch = Quote
      BY <2>1, <2>2 DEF Ch
    <3>2. inQuotes' = TRUE /\ csvPos' = csvPos + 1 /\ UNCHANGED <<csvRow, csvField, csvRows>>
      BY <3>1, <2>2, <1>9, ParseSteps
    <3>3. csvPos' = s + d[0] + 2
      BY <3>2, <2>1, <2>2
    <3>4. 0 \in 0..n /\ csvField' = SubSeq(f, 1, 0)
      BY <3>2, <2>2, <1>7
    <3> QED
      BY <3>2, <3>3, <3>4, <1>11, <1>12
  <2>3. CASE inQuotes = TRUE /\ csvPos = s + d[k] + 2 /\ k # n
    <3>1. k + 1 \in 1..n /\ (k + 1) - 1 = k /\ k + 1 \in 0..n
      BY <2>3, <1>7
    <3>2. PICK a \in Nat : a = d[k]
      BY <3>1, <2>1
    <3>3. /\ csvText[csvPos] = f[k + 1] /\ csvPos = s + a + 2 /\ csvPos < Len(csvText)
          /\ f[k + 1] = Quote => csvText[s + a + 3] = Quote /\ d[k + 1] = a + 2
          /\ f[k + 1] # Quote => d[k + 1] = a + 1
      BY <3>1, <3>2, <2>1, <2>3
    <3>4. Append(csvField, f[k + 1]) = SubSeq(f, 1, k + 1)
      BY <3>1, <1>3, <1>7, SubSeqNext
    <3>5. Ch = f[k + 1]
      BY <3>3 DEF Ch
    <3>6. CASE f[k + 1] = Quote
      <4>1. csvPos + 1 = s + a + 3
        BY <3>3
      <4>2. NextIs(Quote)
        BY <4>1, <3>3, <3>6 DEF NextIs
      <4>3. csvField' = Append(csvField, Quote) /\ csvPos' = csvPos + 2 /\ UNCHANGED <<csvRow, csvRows, inQuotes>>
        BY <4>2, <3>5, <3>6, <2>3, ParseSteps
      <4>5. d[k + 1] = a + 2 /\ csvPos = s + a + 2
        BY <3>3, <3>6, Zenon
      <4>4. csvPos' = s + d[k + 1] + 2
        BY <4>3, <4>5
      <4> QED
        BY <4>3, <4>4, <3>1, <3>4, <3>6, <2>3, <1>11, <1>12
    <3>7. CASE f[k + 1] # Quote
      <4>1. csvField' = Append(csvField, Ch) /\ csvPos' = csvPos + 1 /\ UNCHANGED <<csvRow, csvRows, inQuotes>>
        BY <3>5, <3>7, <2>3, ParseSteps
      <4>3. d[k + 1] = a + 1 /\ csvPos = s + a + 2
        BY <3>3, <3>7, Zenon
      <4>2. csvPos' = s + d[k + 1] + 2
        BY <4>1, <4>3
      <4> QED
        BY <4>1, <4>2, <3>1, <3>4, <3>5, <2>3, <1>11, <1>12
    <3> QED
      BY <3>6, <3>7
  <2>4. CASE inQuotes = TRUE /\ csvPos = s + d[k] + 2 /\ k = n
    <3>1. csvPos = z /\ Ch = Quote
      BY <2>1, <2>4 DEF Ch
    <3>2. ~NextIs(Quote)
      <4>1. /\ Len(csvTable) \in Nat /\ Len(csvTable[i]) \in Nat
        BY TableTypes
      <4>2. z < Len(csvText) => csvText[z + 1] \in {Comma, LF, CR}
        BY <4>1, <1>1, <1>5, AfterText
      <4>3. Quote \notin {Comma, LF, CR}
        BY DEF Quote, Comma, LF, CR
      <4> QED
        BY <4>2, <4>3, <3>1 DEF NextIs
    <3>3. inQuotes' = FALSE /\ csvPos' = csvPos + 1 /\ UNCHANGED <<csvRow, csvField, csvRows>>
      BY <3>1, <3>2, <2>4, ParseSteps
    <3>4. n \in 0..n /\ csvField' = SubSeq(f, 1, n) /\ csvPos' = z + 1
      BY <3>1, <3>3, <2>4, <1>7
    <3> QED
      BY <3>3, <3>4, <1>11
  <2> QED
    BY <2>2, <2>3, <2>4, <1>8, <1>12
<1>13. CASE ~InQuotes(f, q)
  <2>1. inQuotes = FALSE /\ csvPos = s + k + 1 /\ k # n
    BY <1>8, <1>13
  <2>2. k + 1 \in 1..n /\ k + 1 \in 0..n /\ s + (k + 1) = csvPos
    BY <2>1, <1>7
  <2>3. csvText[csvPos] = f[k + 1] /\ f[k + 1] \notin {Quote, Comma, LF, CR}
    <3>1. csvTable[i][j] \in Seq(FileChars) /\ ~InQuotes(csvTable[i][j], q)
      BY <1>2, <1>13
    <3>2. \A x \in 1..n : csvText[s + x] = f[x] /\ f[x] \notin {Quote, Comma, LF, CR}
      BY <3>1, <1>1, <1>2, <1>3, <1>4, PlainText
    <3> QED
      BY <3>2, <2>2
  <2>4. csvField' = Append(csvField, Ch) /\ csvPos' = csvPos + 1 /\ UNCHANGED <<csvRow, csvRows, inQuotes>>
    BY <2>1, <2>3, ParseSteps DEF Ch
  <2>5. csvField' = SubSeq(f, 1, k + 1)
    <3>1. k < Len(f) /\ k \in 0..Len(f)
      BY <2>2, <1>3, <1>7
    <3>2. Append(csvField, f[k + 1]) = SubSeq(f, 1, k + 1)
      BY <3>1, <1>7, SubSeqNext
    <3> QED
      BY <3>2, <2>3, <2>4 DEF Ch
  <2>6. csvPos' = s + (k + 1) + 1
    BY <2>1, <2>2, <2>4
  <2> QED
    BY <2>1, <2>2, <2>4, <2>5, <2>6, <1>11, <1>13
<1> QED
  BY <1>12, <1>13

(* A step behind a field opens the next one, or ends the line.               *)
LEMMA BehindStep ==
    ASSUME IsTable(csvTable), csvText \in Seq(FileChars), csvEnded = FALSE,
           NEW q \in BOOLEAN, NEW e \in LineEnds, NEW final \in BOOLEAN, NEW S,
           NEW i \in 1..Len(csvTable), NEW j \in 1..Len(csvTable[i]), NEW k,
           IsLayout(csvTable, csvText, q, e, final, S), ReadingAt(q, S, i, j, k),
           inQuotes = FALSE, k = Len(csvTable[i][j]), csvPos = Behind(csvTable, q, S, i, j) + 1,
           parseCsv
    PROVE  Reading(q, e, final, S)' \/ AllRead'
<1>1. InPlace(csvTable, csvText, q, e, final, S, i, j)
  BY DEF IsLayout
<1>2. PICK f \in Seq(FileChars) : f = csvTable[i][j]
  BY TableTypes
<1>3. PICK n \in Nat : n = Len(csvTable)
  BY TableTypes
<1>4. PICK m \in Nat : m = Len(csvTable[i]) /\ m >= 1
  BY TableTypes
<1>5. PICK z \in Nat : z = Behind(csvTable, q, S, i, j)
  BY <1>1 DEF InPlace
<1>6. csvField = f /\ csvRow = RowSoFar(csvTable[i], j) /\ ReadBack(csvTable, csvRows, i) /\ csvPos = z + 1
  <2>1. Len(f) \in 0..Len(f) /\ SubSeq(f, 1, Len(f)) = f
    BY SubSeqNext
  <2> QED
    BY <2>1, <1>2, <1>5 DEF ReadingAt
<1>7. csvPos <= Len(csvText) /\ csvTable' = csvTable /\ csvText' = csvText /\ csvEnded' = FALSE
  BY ParseSteps
<1>8. ASSUME NEW x \in 1..n, NEW y \in 1..Len(csvTable[x]),
             csvField' = <<>>, inQuotes' = FALSE, csvPos' = S[x][y] + 1,
             csvRow' = RowSoFar(csvTable[x], y), ReadBack(csvTable, csvRows', x)
      PROVE  Reading(q, e, final, S)'
  <2>1. InPlace(csvTable, csvText, q, e, final, S, x, y)
    BY <1>3 DEF IsLayout
  <2>2. S[x][y] \in Nat
    BY <2>1 DEF InPlace
  <2>3. CellPos(csvTable, q, S, x, y, 0, csvPos', inQuotes')
    BY <2>2, <1>8, CellOpens
  <2>4. csvTable[x][y] \in Seq(FileChars)
    BY <1>3, TableTypes
  <2>5. 0 \in 0..Len(csvTable[x][y]) /\ SubSeq(csvTable[x][y], 1, 0) = <<>>
    BY <2>4
  <2>6. ReadingAt(q, S, x, y, 0)'
    BY <2>3, <2>5, <1>7, <1>8, Zenon DEF ReadingAt
  <2>7. IsLayout(csvTable', csvText', q, e, final, S)
    BY <1>7
  <2> QED
    BY <2>6, <2>7, <1>3, <1>7 DEF Reading
<1>9. CASE j < m
  <2>1. S[i][j + 1] = z + 1 /\ csvText[z + 1] = Comma
    BY <1>1, <1>4, <1>5, <1>9 DEF InPlace
  <2>2. Ch = Comma
    BY <2>1, <1>6 DEF Ch
  <2>3. /\ csvRow' = Append(csvRow, trim(csvField)) /\ csvField' = <<>> /\ csvPos' = csvPos + 1
        /\ UNCHANGED <<csvRows, inQuotes>>
    BY <2>2, ParseSteps
  <2>4. j + 1 \in 1..m /\ j \in Nat /\ j >= 1
    BY <1>4, <1>9
  <2>5. csvRow' = RowSoFar(csvTable[i], j + 1)
    <3>1. csvRow' = Append(RowSoFar(csvTable[i], j), trim(csvTable[i][j]))
      BY <2>3, <1>2, <1>6, Zenon
    <3> QED
      BY <3>1, <2>4, RowNext
  <2>6. csvPos' = S[i][j + 1] + 1
    BY <2>1, <2>3, <1>6
  <2> QED
    BY <2>3, <2>4, <2>5, <2>6, <1>3, <1>4, <1>6, <1>8
<1>10. CASE j = m
  <2>1. i < n \/ final
    <3> SUFFICES ASSUME ~(i < n), ~final PROVE FALSE
      OBVIOUS
    <3>1. i = n
      BY <1>3
    <3>2. Len(csvText) = z + 0
      BY <3>1, <1>1, <1>3, <1>4, <1>5, <1>10 DEF InPlace
    <3> QED
      BY <3>2, <1>6, <1>7
  <2>2. PICK h \in 1..2 : h = Len(e) /\ csvPos' = z + h + 1 /\ EndLine /\ UNCHANGED inQuotes
    <3>1. z + Len(e) <= Len(csvText) /\ \A x \in 1..Len(e) : csvText[z + x] = e[x]
      BY <2>1, <1>1, <1>3, <1>4, <1>5, <1>10 DEF InPlace
    <3>2. CASE e = <<LF>>
      <4>1. Len(e) = 1 /\ e[1] = LF /\ 1 \in 1..Len(e)
        BY <3>2
      <4>2. Ch = LF /\ LF # CR
        BY <4>1, <3>1, <1>6 DEF Ch, LF, CR
      <4>3. EndLine /\ UNCHANGED inQuotes /\ csvPos' = csvPos + 1
        BY <4>2, ParseSteps
      <4> QED
        BY <4>1, <4>3, <1>6
    <3>3. CASE e = <<CR, LF>>
      <4>1. Len(e) = 2 /\ e[1] = CR /\ e[2] = LF /\ 1 \in 1..Len(e) /\ 2 \in 1..Len(e)
        BY <3>3
      <4>2. csvText[z + 1] = CR /\ csvText[z + 2] = LF /\ z + 2 <= Len(csvText)
        BY <4>1, <3>1
      <4>3. Ch = CR
        BY <4>2, <1>6 DEF Ch
      <4>4. NextIs(LF)
        <5>1. csvPos + 1 = z + 2 /\ csvPos < Len(csvText)
          BY <4>2, <1>6
        <5> QED
          BY <5>1, <4>2 DEF NextIs
      <4>5. EndLine /\ UNCHANGED inQuotes /\ csvPos' = csvPos + 2
        BY <4>3, <4>4, ParseSteps
      <4> QED
        BY <4>1, <4>5, <1>6
    <3> QED
      BY <3>2, <3>3 DEF LineEnds
  <2>3. ReadBack(csvTable, csvRows', i + 1) /\ csvRow' = <<>> /\ csvField' = <<>>
    BY <2>2, <1>2, <1>4, <1>6, <1>10, EndLineReads
  <2>4. CASE i < n
    <3>1. i + 1 \in 1..n
      BY <2>4
    <3>2. 1 \in 1..Len(csvTable[i + 1])
      BY <3>1, <1>3, TableTypes
    <3>3. S[i + 1][1] = z + h
      BY <2>2, <2>4, <1>1, <1>3, <1>4, <1>5, <1>10 DEF InPlace
    <3>4. csvRow' = RowSoFar(csvTable[i + 1], 1)
      BY <2>3 DEF RowSoFar
    <3>5. csvPos' = S[i + 1][1] + 1 /\ inQuotes' = FALSE
      BY <3>3, <2>2
    <3> QED
      BY <3>1, <3>2, <3>4, <3>5, <2>3, <1>8
  <2>5. CASE i = n
    <3>1. Len(csvText) = z + h
      BY <2>1, <2>2, <2>5, <1>1, <1>3, <1>4, <1>5, <1>10 DEF InPlace
    <3>2. csvPos' = Len(csvText) + 1 /\ inQuotes' = FALSE
      BY <3>1, <2>2
    <3> QED
      BY <3>2, <2>3, <2>5, <1>3, <1>7 DEF AllRead
  <2> QED
    BY <2>4, <2>5, <1>3
<1> QED
  BY <1>4, <1>9, <1>10

(* The end of the text: the line it was in, or nothing, is added.            *)
LEMMA EndStep ==
    ASSUME CsvInv, CsvEnds
    PROVE  CsvInv'
<1>1. /\ csvPos > Len(csvText) /\ csvEnded' = TRUE /\ EndLine /\ csvTable' = csvTable
      /\ csvText' = csvText /\ csvPos' = csvPos /\ inQuotes' = inQuotes
  BY DEF CsvEnds
<1>2. IsTable(csvTable) /\ csvText \in Seq(FileChars)
  BY DEF CsvInv
<1>3. ASSUME AllRead PROVE AllRead'
  <2>1. /\ csvRow = <<>> /\ csvField = <<>> /\ inQuotes = FALSE /\ csvPos = Len(csvText) + 1
        /\ ReadBack(csvTable, csvRows, Len(csvTable) + 1)
    BY <1>3 DEF AllRead
  <2>2. Append(csvRow, trim(csvField)) = <<<<>>>>
    BY <2>1, TrimEmpty
  <2>3. ~\E x \in DOMAIN <<<<>>>> : <<<<>>>>[x] # <<>>
    OBVIOUS
  <2>4. csvRows' = csvRows /\ csvRow' = <<>> /\ csvField' = <<>>
    BY <2>2, <2>3, <1>1 DEF EndLine
  <2> QED
    BY <2>1, <2>4, <1>1, Zenon DEF AllRead
<1>4. ASSUME NEW q \in BOOLEAN, NEW final \in BOOLEAN, NEW e \in LineEnds, NEW S, Reading(q, e, final, S)
      PROVE  AllRead'
  <2>1. IsLayout(csvTable, csvText, q, e, final, S)
    BY <1>4 DEF Reading
  <2>2. PICK i \in 1..Len(csvTable) : \E y \in 1..Len(csvTable[i]) : \E k : ReadingAt(q, S, i, y, k)
    BY <1>4 DEF Reading
  <2>3. PICK j \in 1..Len(csvTable[i]) : \E k : ReadingAt(q, S, i, j, k)
    BY <2>2
  <2>4. PICK k : ReadingAt(q, S, i, j, k)
    BY <2>3
  <2>5. InPlace(csvTable, csvText, q, e, final, S, i, j)
    BY <2>1 DEF IsLayout
  <2>6. csvTable[i][j] \in Seq(FileChars) /\ Len(csvTable) \in Nat /\ Len(csvTable[i]) \in Nat
    BY <1>2, TableTypes
  <2>7. k \in 0..Len(csvTable[i][j])
    BY <2>4 DEF ReadingAt
  <2>8. PICK z \in Nat : z = Behind(csvTable, q, S, i, j) /\ z <= Len(csvText)
    BY <2>5 DEF InPlace
  <2>9. inQuotes = FALSE /\ k = Len(csvTable[i][j]) /\ csvPos = z + 1
    <3>1. CellPos(csvTable, q, S, i, j, k, csvPos, inQuotes)
      BY <2>4 DEF ReadingAt
    <3>2. CASE InQuotes(csvTable[i][j], q) /\ inQuotes = FALSE /\ k = 0 /\ csvPos = S[i][j] + 1
      <4>1. S[i][j] + 1 <= Len(csvText) /\ S[i][j] \in Nat
        <5>1. S[i][j] + 1 <= Len(csvText)
          BY <3>2, <2>5, <2>6, <1>2, QuotedText
        <5>2. S[i][j] \in Nat
          BY <2>5 DEF InPlace
        <5> QED
          BY <5>1, <5>2
      <4> QED
        BY <4>1, <3>2, <1>1, <1>2
    <3>3. CASE InQuotes(csvTable[i][j], q) /\ inQuotes = TRUE /\ csvPos = S[i][j] + Dbl(csvTable[i][j])[k] + 2
      <4>1. csvPos <= Len(csvText) /\ csvPos \in Int
        <5>1. CASE k = Len(csvTable[i][j])
          <6>1. Behind(csvTable, q, S, i, j) = S[i][j] + Dbl(csvTable[i][j])[Len(csvTable[i][j])] + 2
            BY <3>3, <2>5, <2>6, <1>2, QuotedText
          <6>2. csvPos = z
            BY <6>1, <5>1, <3>3, <2>8, Zenon
          <6> QED
            BY <6>2, <2>8
        <5>2. CASE k # Len(csvTable[i][j])
          <6>1. k + 1 \in 1..Len(csvTable[i][j]) /\ (k + 1) - 1 = k
            BY <5>2, <2>6, <2>7
          <6>2. \A x \in 1..Len(csvTable[i][j]) : /\ Dbl(csvTable[i][j])[x - 1] \in Nat
                                                  /\ S[i][j] + Dbl(csvTable[i][j])[x - 1] + 2 < Len(csvText)
            BY <3>3, <2>5, <2>6, <1>2, QuotedText
          <6>3. S[i][j] \in Nat
            BY <2>5 DEF InPlace
          <6>4. Dbl(csvTable[i][j])[k] \in Nat /\ S[i][j] + Dbl(csvTable[i][j])[k] + 2 < Len(csvText)
            BY <6>1, <6>2
          <6> QED
            BY <6>3, <6>4, <3>3, <1>2
        <5> QED
          BY <5>1, <5>2
      <4> QED
        BY <4>1, <1>1, <1>2
    <3>4. CASE ~InQuotes(csvTable[i][j], q) /\ inQuotes = FALSE /\ csvPos = S[i][j] + k + 1
      <4>1. \A x \in 1..Len(csvTable[i][j]) : S[i][j] + x <= Len(csvText)
        BY <3>4, <2>5, <2>6, <1>2, PlainText
      <4>2. Behind(csvTable, q, S, i, j) = S[i][j] + Len(csvTable[i][j])
        BY <3>4, <2>5, <2>6, <1>2, PlainText
      <4>3. S[i][j] \in Nat
        BY <2>5 DEF InPlace
      <4>4. ASSUME k # Len(csvTable[i][j]) PROVE FALSE
        <5>1. k + 1 \in 1..Len(csvTable[i][j]) /\ k \in Nat
          BY <4>4, <2>6, <2>7
        <5>2. S[i][j] + (k + 1) <= Len(csvText)
          BY <5>1, <4>1
        <5> QED
          BY <5>1, <5>2, <4>3, <3>4, <1>1, <1>2
      <4> QED
        BY <4>2, <4>4, <3>4, <2>8
    <3> QED
      BY <3>1, <3>2, <3>3, <3>4, <2>8 DEF CellPos
  <2>10. z = Len(csvText)
    BY <2>8, <2>9, <1>1, <1>2
  <2>11. j = Len(csvTable[i]) /\ i = Len(csvTable)
    <3>1. CASE j < Len(csvTable[i])
      <4>1. z + 1 <= Len(csvText)
        BY <3>1, <2>5, <2>8 DEF InPlace
      <4> QED
        BY <4>1, <2>10
    <3>2. CASE j = Len(csvTable[i]) /\ i < Len(csvTable)
      <4>1. z + Len(e) <= Len(csvText)
        BY <3>2, <2>5, <2>8 DEF InPlace
      <4>2. Len(e) \in 1..2
        <5>1. CASE e = <<LF>>
          BY <5>1
        <5>2. CASE e = <<CR, LF>>
          BY <5>2
        <5> QED
          BY <5>1, <5>2 DEF LineEnds
      <4>3. PICK h \in 1..2 : h = Len(e)
        BY <4>2
      <4>4. z + h <= z
        BY <4>1, <4>3, <2>10, Zenon
      <4> QED
        BY <4>4
    <3> QED
      BY <3>1, <3>2, <2>6
  <2>12. /\ csvRow = RowSoFar(csvTable[i], Len(csvTable[i])) /\ ReadBack(csvTable, csvRows, i)
         /\ csvField = csvTable[i][Len(csvTable[i])]
    <3>1. SubSeq(csvTable[i][j], 1, Len(csvTable[i][j])) = csvTable[i][j]
      BY <2>6, <2>7, SubSeqNext
    <3>2. csvRow = RowSoFar(csvTable[i], j) /\ csvField = SubSeq(csvTable[i][j], 1, k) /\ ReadBack(csvTable, csvRows, i)
      BY <2>4 DEF ReadingAt
    <3> QED
      BY <3>1, <3>2, <2>9, <2>11, Zenon
  <2>13. ReadBack(csvTable, csvRows', i + 1) /\ csvRow' = <<>> /\ csvField' = <<>>
    BY <2>12, <1>1, <1>2, EndLineReads
  <2> QED
    BY <2>9, <2>10, <2>11, <2>13, <1>1 DEF AllRead
<1>5. csvEnded' \in BOOLEAN /\ IsTable(csvTable') /\ csvText' \in Seq(FileChars)
  BY <1>1, <1>2
<1>6. AllRead'
  <2>1. CASE AllRead
    BY <2>1, <1>3
  <2>2. CASE ~AllRead
    BY <2>2, <1>4 DEF CsvInv
  <2> QED
    BY <2>1, <2>2
<1> QED
  BY <1>5, <1>6 DEF CsvInv

(* A step of the loop keeps the invariant.                                   *)
LEMMA ParseStep ==
    ASSUME CsvInv, parseCsv
    PROVE  CsvInv'
<1>1. csvPos <= Len(csvText) /\ csvTable' = csvTable /\ csvText' = csvText /\ csvEnded' = csvEnded
  BY DEF parseCsv
<1>2. IsTable(csvTable) /\ csvText \in Seq(FileChars) /\ csvEnded \in BOOLEAN
  BY DEF CsvInv
<1>3. ~AllRead
  <2>1. ASSUME csvPos = Len(csvText) + 1 PROVE FALSE
    BY <2>1, <1>1, <1>2
  <2> QED
    BY <2>1 DEF AllRead
<1>4. ASSUME NEW q \in BOOLEAN, NEW final \in BOOLEAN, NEW e \in LineEnds, NEW S, Reading(q, e, final, S)
      PROVE  Reading(q, e, final, S)' \/ AllRead'
  <2>1. IsLayout(csvTable, csvText, q, e, final, S) /\ csvEnded = FALSE
    BY <1>4 DEF Reading
  <2>2. PICK i \in 1..Len(csvTable) : \E y \in 1..Len(csvTable[i]) : \E k : ReadingAt(q, S, i, y, k)
    BY <1>4 DEF Reading
  <2>3. PICK j \in 1..Len(csvTable[i]) : \E k : ReadingAt(q, S, i, j, k)
    BY <2>2
  <2>4. PICK k : ReadingAt(q, S, i, j, k)
    BY <2>3
  <2>5. CASE inQuotes = FALSE /\ k = Len(csvTable[i][j]) /\ csvPos = Behind(csvTable, q, S, i, j) + 1
    BY <2>1, <2>4, <2>5, <1>2, BehindStep
  <2>6. CASE ~(inQuotes = FALSE /\ k = Len(csvTable[i][j]) /\ csvPos = Behind(csvTable, q, S, i, j) + 1)
    <3>1. \E m : ReadingAt(q, S, i, j, m)'
      BY <2>1, <2>4, <2>6, <1>2, InCellStep
    <3>2. PICK m : ReadingAt(q, S, i, j, m)'
      BY <3>1
    <3>3. Reading(q, e, final, S)'
      BY <3>2, <2>1, <1>1 DEF Reading
    <3> QED
      BY <3>3
  <2> QED
    BY <2>5, <2>6
<1>5. \E q, final \in BOOLEAN : \E e \in LineEnds : \E S : Reading(q, e, final, S)
  BY <1>3 DEF CsvInv
<1>6. AllRead' \/ \E q, final \in BOOLEAN : \E e \in LineEnds : \E S : Reading(q, e, final, S)'
  BY <1>4, <1>5
<1>7. csvEnded' \in BOOLEAN /\ IsTable(csvTable') /\ csvText' \in Seq(FileChars)
  BY <1>1, <1>2
<1> QED
  BY <1>6, <1>7 DEF CsvInv

(* The tables that are written are tables.                                   *)
LEMMA WrittenTables ==
    ASSUME NEW t \in CsvTables, MaxLines \in Nat
    PROVE  IsTable(t)
<1>1. ASSUME NEW f \in CsvFields PROVE f \in Seq(FileChars)
  <2>1. PICK n \in Nat : f \in [1..n -> CsvChars]
    BY DEF CsvFields
  <2>2. f \in [1..n -> FileChars]
    BY <2>1 DEF FileChars
  <2> QED
    BY <2>2
<1>2. ASSUME NEW n \in Nat, NEW l \in [1..n -> CsvFields] PROVE l \in Seq(Seq(FileChars)) /\ Len(l) = n
  <2>1. l \in [1..n -> Seq(FileChars)]
    BY <1>1
  <2>2. l \in Seq(Seq(FileChars))
    BY <2>1
  <2> QED
    BY <2>1, <2>2
<1>3. CASE t \in {<<l>> : l \in [1..2 -> CsvFields]}
  <2>1. PICK l \in [1..2 -> CsvFields] : t = <<l>>
    BY <1>3
  <2>2. l \in Seq(Seq(FileChars)) /\ Len(l) = 2
    BY <1>2
  <2>3. t \in Seq(Seq(Seq(FileChars))) /\ Len(t) = 1 /\ t[1] = l
    BY <2>1, <2>2
  <2> QED
    BY <2>2, <2>3 DEF IsTable
<1>4. CASE t \in [1..MaxLines -> [1..1 -> CsvFields]]
  <2>1. \A i \in 1..MaxLines : t[i] \in Seq(Seq(FileChars)) /\ Len(t[i]) = 1
    BY <1>2, <1>4
  <2>2. t \in [1..MaxLines -> Seq(Seq(FileChars))]
    BY <2>1, <1>4
  <2>3. t \in Seq(Seq(Seq(FileChars)))
    BY <2>2
  <2>4. Len(t) = MaxLines
    BY <2>2, <2>3
  <2>5. ASSUME NEW i \in 1..Len(t) PROVE Len(t[i]) >= 1
    <3>1. i \in 1..MaxLines
      BY <2>4
    <3>2. Len(t[i]) = 1
      BY <3>1, <2>1
    <3> QED
      BY <3>2
  <2> QED
    BY <2>3, <2>5 DEF IsTable
<1> QED
  BY <1>3, <1>4 DEF CsvTables

(* The invariant holds at the start.                                         *)
LEMMA CsvStart == IsTable(csvTable) /\ CsvOpened => CsvInv
<1> SUFFICES ASSUME IsTable(csvTable), CsvOpened PROVE CsvInv
  OBVIOUS
<1>1. /\ csvPos = 1 /\ csvRow = <<>> /\ csvField = <<>> /\ csvRows = <<>>
      /\ inQuotes = FALSE /\ csvEnded = FALSE
  BY DEF CsvOpened
<1>2. PICK q, final \in BOOLEAN, e \in LineEnds : csvText = TextOf(csvTable, q, e, final)
  BY DEF CsvOpened, LineEnds
<1>3. IsTable(csvTable)
  OBVIOUS
<1>4. PICK n \in Nat : n = Len(csvTable)
  BY <1>3, TableTypes
<1>5. ReadBack(csvTable, csvRows, 1)
  BY <1>1, ReadNone
<1>6. CASE n = 0
  <2>1. LinePieces(csvTable, q, e, final) = <<>>
    <3>1. csvTable = <<>>
      BY <1>3, <1>4, <1>6, EmptySeq DEF IsTable
    <3> QED
      BY <3>1 DEF LinePieces
  <2>2. csvText = CsvSeqs!FlattenSeq(LinePieces(csvTable, q, e, final))
    BY <1>2 DEF TextOf, LinePieces
  <2>3. CsvSeqs!FlattenSeq(<<>>) = <<>>
    <3>1. Len(<<>>) = 0
      OBVIOUS
    <3> QED
      BY <3>1, FlattenIsJoin, Zenon
  <2>4. csvText = <<>>
    BY <2>1, <2>2, <2>3
  <2>5. csvText \in Seq(FileChars) /\ Len(csvText) = 0
    BY <2>4
  <2>6. AllRead
    BY <2>5, <1>1, <1>4, <1>5, <1>6 DEF AllRead
  <2> QED
    BY <2>5, <2>6, <1>1, <1>3 DEF CsvInv
<1>7. CASE n # 0
  <2>1. Len(csvTable) >= 1
    BY <1>4, <1>7
  <2>2. PICK S : IsLayout(csvTable, csvText, q, e, final, S)
    BY <2>1, <1>2, <1>3, LayoutExists
  <2>3. csvText \in Seq(FileChars) /\ S[1][1] = 0
    BY <2>2 DEF IsLayout
  <2>4. 1 \in 1..Len(csvTable) /\ 1 \in 1..Len(csvTable[1]) /\ csvTable[1][1] \in Seq(FileChars)
    <3>1. 1 \in 1..Len(csvTable)
      BY <1>4, <1>7
    <3>2. Len(csvTable[1]) \in Nat /\ Len(csvTable[1]) >= 1
      BY <3>1, <1>3, TableTypes
    <3>3. 1 \in 1..Len(csvTable[1])
      BY <3>2
    <3> QED
      BY <3>1, <3>3, <1>3, TableTypes
  <2>5. CellPos(csvTable, q, S, 1, 1, 0, S[1][1] + 1, FALSE)
    <3>1. S[1][1] \in Nat
      BY <2>3
    <3> QED
      BY <3>1, CellOpens
  <2>6. csvRow = RowSoFar(csvTable[1], 1)
    BY <1>1 DEF RowSoFar
  <2>7. 0 \in 0..Len(csvTable[1][1]) /\ csvField = SubSeq(csvTable[1][1], 1, 0)
    BY <2>4, <1>1
  <2>8. csvPos = S[1][1] + 1
    BY <2>3, <1>1
  <2>9. ReadingAt(q, S, 1, 1, 0)
    BY <2>5, <2>6, <2>7, <2>8, <1>1, <1>5 DEF ReadingAt
  <2>10. Reading(q, e, final, S)
    BY <2>2, <2>4, <2>9, <1>1 DEF Reading
  <2> QED
    BY <2>3, <2>10, <1>1, <1>3 DEF CsvInv
<1> QED
  BY <1>6, <1>7

(* Every step keeps it.                                                      *)
LEMMA CsvStep == CsvInv /\ [CsvNext]_csvVars => CsvInv'
<1> SUFFICES ASSUME CsvInv, [CsvNext]_csvVars PROVE CsvInv'
  OBVIOUS
<1>1. CASE parseCsv
  BY <1>1, ParseStep
<1>2. CASE CsvEnds
  BY <1>2, EndStep
<1>3. CASE UNCHANGED csvVars
  BY <1>3, Zenon DEF csvVars, CsvInv, Reading, ReadingAt, AllRead
<1> QED
  BY <1>1, <1>2, <1>3 DEF CsvNext

(* What it says of the types and of the rows at the end.                     *)
LEMMA CsvInvImplies == CsvInv => CsvTypeOK /\ CsvRoundTrip
<1> SUFFICES ASSUME CsvInv PROVE CsvTypeOK /\ CsvRoundTrip
  OBVIOUS
<1>1. IsTable(csvTable) /\ csvText \in Seq(FileChars) /\ csvEnded \in BOOLEAN
  BY DEF CsvInv
<1>2. PICK n \in Nat : n = Len(csvTable) /\ DOMAIN csvTable = 1..n
  BY <1>1, TableTypes
<1>3. CASE AllRead
  <2>1. /\ inQuotes = FALSE /\ csvPos = Len(csvText) + 1 /\ ReadBack(csvTable, csvRows, n + 1)
    BY <1>2, <1>3 DEF AllRead
  <2>2. PICK V : csvRows \in Seq(V)
    BY <2>1 DEF ReadBack
  <2>3. Len(csvRows) \in Nat /\ Len(csvRows) <= (n + 1) - 1
    BY <2>1, <2>2 DEF ReadBack
  <2>4. CsvTypeOK
    <3>1. Len(csvText) \in Nat
      BY <1>1
    <3>2. csvPos \in 1..(Len(csvText) + 1) /\ Len(csvRows) <= Len(csvTable) + 1
      BY <3>1, <2>1, <2>3, <1>2
    <3> QED
      BY <3>2, <2>1, <1>1 DEF CsvTypeOK
  <2>5. KeptBelow(csvTable, n + 1) = KeptLines
    <3>1. (n + 1) - 1 = n
      OBVIOUS
    <3> QED
      BY <3>1, <1>2, Zenon DEF KeptBelow, KeptLines
  <2>6. PICK p : ReadRows(csvTable, csvRows, n + 1, p)
    BY <2>1 DEF ReadBack
  <2>7. CsvRoundTrip
    BY <2>5, <2>6 DEF ReadRows, CsvRoundTrip
  <2> QED
    BY <2>4, <2>7
<1>4. ASSUME NEW q \in BOOLEAN, NEW final \in BOOLEAN, NEW e \in LineEnds, NEW S, Reading(q, e, final, S)
      PROVE  CsvTypeOK /\ CsvRoundTrip
  <2>1. IsLayout(csvTable, csvText, q, e, final, S) /\ csvEnded = FALSE
    BY <1>4 DEF Reading
  <2>2. PICK i \in 1..Len(csvTable) : \E y \in 1..Len(csvTable[i]) : \E k : ReadingAt(q, S, i, y, k)
    BY <1>4 DEF Reading
  <2>3. PICK j \in 1..Len(csvTable[i]) : \E k : ReadingAt(q, S, i, j, k)
    BY <2>2
  <2>4. PICK k : ReadingAt(q, S, i, j, k)
    BY <2>3
  <2>5. InPlace(csvTable, csvText, q, e, final, S, i, j)
    BY <2>1 DEF IsLayout
  <2>6. PICK f \in Seq(FileChars) : f = csvTable[i][j]
    BY <1>1, TableTypes
  <2>7. k \in 0..Len(f) /\ CellPos(csvTable, q, S, i, j, k, csvPos, inQuotes) /\ ReadBack(csvTable, csvRows, i)
    BY <2>4, <2>6 DEF ReadingAt
  <2>8. PICK len \in Nat : len = Len(csvText)
    BY <1>1
  <2>9. PICK z \in Nat : z = Behind(csvTable, q, S, i, j) /\ z <= len
    BY <2>5, <2>8 DEF InPlace
  <2>10. PICK s \in Nat : s = S[i][j]
    BY <2>5 DEF InPlace
  <2>11. inQuotes \in BOOLEAN
    BY <2>7 DEF CellPos
  <2>12. csvPos \in 1..(len + 1)
    <3>1. CASE InQuotes(f, q) /\ k = 0 /\ csvPos = s + 1
      <4>1. S[i][j] + 1 <= Len(csvText)
        BY <3>1, <2>5, <2>6, <1>1, QuotedText
      <4> QED
        BY <4>1, <3>1, <2>8, <2>10
    <3>2. CASE InQuotes(f, q) /\ csvPos = s + Dbl(f)[k] + 2 /\ k = Len(f)
      <4>1. Behind(csvTable, q, S, i, j) = S[i][j] + Dbl(csvTable[i][j])[Len(csvTable[i][j])] + 2
        BY <3>2, <2>5, <2>6, <1>1, QuotedText
      <4>2. csvPos = z
        BY <4>1, <3>2, <2>6, <2>9, <2>10, Zenon
      <4>3. z \in 1..Len(csvText)
        BY <3>2, <2>5, <2>6, <2>9, <1>1, QuotedText
      <4> QED
        BY <4>2, <4>3, <2>8
    <3>3. CASE InQuotes(f, q) /\ csvPos = s + Dbl(f)[k] + 2 /\ k # Len(f)
      <4>1. k + 1 \in 1..Len(f) /\ (k + 1) - 1 = k
        BY <3>3, <2>7
      <4>2. \A x \in 1..Len(csvTable[i][j]) : /\ Dbl(csvTable[i][j])[x - 1] \in Nat
                                              /\ S[i][j] + Dbl(csvTable[i][j])[x - 1] + 2 < Len(csvText)
        BY <3>3, <2>5, <2>6, <1>1, QuotedText
      <4>3. Dbl(f)[k] \in Nat /\ s + Dbl(f)[k] + 2 < len
        BY <4>1, <4>2, <2>6, <2>8, <2>10
      <4> QED
        BY <4>3, <3>3
    <3>4. CASE ~InQuotes(f, q) /\ csvPos = s + k + 1
      <4>1. Behind(csvTable, q, S, i, j) = S[i][j] + Len(csvTable[i][j])
        BY <3>4, <2>5, <2>6, <1>1, PlainText
      <4>2. z = s + Len(f)
        BY <4>1, <2>6, <2>9, <2>10, Zenon
      <4>3. Len(f) \in Nat
        OBVIOUS
      <4> QED
        BY <4>2, <4>3, <3>4, <2>7, <2>9
    <3>5. CASE csvPos = z + 1
      BY <3>5, <2>9
    <3> QED
      BY <3>1, <3>2, <3>3, <3>4, <3>5, <2>6, <2>7, <2>9, <2>10, Zenon DEF CellPos
  <2>13. Len(csvRows) <= n + 1
    <3>1. PICK V : csvRows \in Seq(V)
      BY <2>7 DEF ReadBack
    <3>2. Len(csvRows) \in Nat /\ Len(csvRows) <= i - 1
      BY <3>1, <2>7 DEF ReadBack
    <3>3. i \in 1..n
      BY <1>2
    <3> QED
      BY <3>2, <3>3
  <2>14. CsvTypeOK
    BY <2>8, <2>11, <2>12, <2>13, <1>1, <1>2 DEF CsvTypeOK
  <2>15. CsvRoundTrip
    BY <2>1 DEF CsvRoundTrip
  <2> QED
    BY <2>14, <2>15
<1> QED
  BY <1>3, <1>4 DEF CsvInv

(* A file is read as it was written, whatever table it has: any number of    *)
(* lines, of fields in each and of characters in those, with or without      *)
(* quotes, with either end of line, with or without a final one (parseCsv    *)
(* of CreateProductView).                                                    *)
THEOREM CsvTrue ==
    IsTable(csvTable) /\ CsvOpened /\ [][CsvNext]_csvVars => [](CsvTypeOK /\ CsvRoundTrip)
<1>1. IsTable(csvTable) /\ CsvOpened => CsvInv
  BY CsvStart
<1>2. CsvInv /\ [CsvNext]_csvVars => CsvInv'
  BY CsvStep
<1>3. CsvInv => CsvTypeOK /\ CsvRoundTrip
  BY CsvInvImplies
<1> QED
  BY <1>1, <1>2, <1>3, PTL

(* So are the files with the tables of CsvInit, those of the client that is  *)
(* model-checked.                                                            *)
THEOREM CsvOfClient == CsvInit /\ [][CsvNext]_csvVars => [](CsvTypeOK /\ CsvRoundTrip)
<1>1. CsvInit => IsTable(csvTable) /\ CsvOpened
  BY WrittenTables, CsvAssumption DEF CsvInit
<1> QED
  BY <1>1, CsvTrue, PTL
=============================================================================
