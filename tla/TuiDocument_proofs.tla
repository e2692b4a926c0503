------------------------- MODULE TuiDocument_proofs -------------------------
(***************************************************************************)
(* Proofs about TuiDocument.  The note is rebuilt by cutting texts into    *)
(* segments and by splicing lists of segments, so the first part is about  *)
(* data: an induction over the naturals, what FlattenSeq gives, where the  *)
(* blocks of a text are, and that a text which is parsed and written again *)
(* is the same text.  The second part is about the operations of a         *)
(* document, the third about the actions.                                  *)
(***************************************************************************)
EXTENDS TuiDocument, SequenceTheorems, FiniteSetTheorems, TLAPS

-----------------------------------------------------------------------------
(* Induction.                                                              *)

(* A set that has 0 and the successor of each of its naturals has them all:*)
(* the naturals below m that it lacks would be mapped one to one by the    *)
(* predecessor to those of them that are below m.                          *)
LEMMA SetInduction ==
  ASSUME NEW S, 0 \in S, \A n \in Nat : n \in S => n + 1 \in S
  PROVE  Nat \subseteq S
<1> SUFFICES ASSUME NEW m \in Nat, m \notin S
             PROVE  FALSE
  OBVIOUS
<1> DEFINE Out == {k \in 0..m : k \notin S}
           pred == [k \in Out |-> k - 1]
<1>1. /\ IsFiniteSet(Out) /\ IsFiniteSet(Out \ {m})
      /\ Cardinality(Out \ {m}) < Cardinality(Out)
  <2>1. IsFiniteSet(Out)
    <3>1. IsFiniteSet(0..m)
      BY FS_Interval
    <3> QED
      BY <3>1, FS_Subset
  <2>2. m \in Out /\ Cardinality(Out) \in Nat
    BY <2>1, FS_CardinalityType
  <2> QED
    BY <2>1, <2>2, FS_RemoveElement
<1>2. pred \in [Out -> Out \ {m}]
  <2> SUFFICES ASSUME NEW k \in Out
               PROVE  k - 1 \in Out \ {m}
    OBVIOUS
  <2>1. k \in Nat /\ k # 0 /\ k <= m
    OBVIOUS
  <2>2. k - 1 \in Nat /\ k - 1 < m /\ (k - 1) + 1 = k
    BY <2>1
  <2>3. k - 1 \notin S
    BY <2>2
  <2> QED
    BY <2>2, <2>3
<1>3. PICK x \in Out, y \in Out : x # y /\ pred[x] = pred[y]
  <2> HIDE DEF pred, Out
  <2> QED
    BY <1>1, <1>2, FS_PigeonHole
<1> QED
  BY <1>3

(* A set of naturals that is not empty has a least member.                 *)
LEMMA LeastMember ==
  ASSUME NEW S, S \subseteq Nat, S # {}
  PROVE  \E k \in S : \A m \in S : k <= m
<1> SUFFICES ASSUME \A k \in S : \E m \in S : m < k
             PROVE  FALSE
  OBVIOUS
<1> DEFINE Above == {n \in Nat : \A k \in S : n < k}
<1>1. 0 \in Above
  <2> SUFFICES ASSUME NEW k \in S
               PROVE  0 < k
    OBVIOUS
  <2>1. PICK m \in S : m < k
    OBVIOUS
  <2> QED
    BY <2>1
<1>2. \A n \in Nat : n \in Above => n + 1 \in Above
  <2> SUFFICES ASSUME NEW n \in Above, NEW k \in S
               PROVE  n + 1 < k
    OBVIOUS
  <2>1. PICK m \in S : m < k
    OBVIOUS
  <2>2. n < m
    OBVIOUS
  <2> QED
    BY <2>1, <2>2
<1>3. Nat \subseteq Above
  <2> HIDE DEF Above
  <2> QED
    BY <1>1, <1>2, SetInduction
<1>4. PICK k \in S : TRUE
  OBVIOUS
<1> QED
  BY <1>3, <1>4

-----------------------------------------------------------------------------
(* FlattenSeq.                                                             *)

(* f has the concatenations of the first pieces of s.                      *)
Concatenates(f, s, A) ==
  /\ f \in [0..Len(s) -> Seq(A)]
  /\ f[0] = <<>>
  /\ \A k \in 1..Len(s) : f[k] = f[k - 1] \o s[k]

LEMMA ConcatenatesExists ==
  ASSUME NEW A, NEW s \in Seq(Seq(A))
  PROVE  \E f : Concatenates(f, s, A)
<1> DEFINE Join(x, y) == x \o y
           UpTo(f, n) == /\ f \in [0..n -> Seq(A)]
                         /\ f[0] = <<>>
                         /\ \A k \in 1..n : f[k] = Join(f[k - 1], s[k])
           S == {n \in Nat : n <= Len(s) => \E f : UpTo(f, n)}
<1>1. 0 \in S
  <2>1. UpTo([k \in 0..0 |-> <<>>], 0)
    BY EmptySeq
  <2> QED
    BY <2>1
<1>2. ASSUME NEW n \in Nat, n \in S
      PROVE  n + 1 \in S
  <2> SUFFICES ASSUME n + 1 <= Len(s)
               PROVE  \E f : UpTo(f, n + 1)
    <3> HIDE DEF UpTo
    <3> QED
      OBVIOUS
  <2>1. Len(s) \in Nat /\ n <= Len(s)
    BY LenProperties
  <2>2. PICK f : UpTo(f, n)
    BY <1>2, <2>1
  <2> DEFINE g == [k \in 0..(n + 1) |-> IF k = n + 1 THEN Join(f[n], s[n + 1]) ELSE f[k]]
  <2>3. s[n + 1] \in Seq(A)
    BY <2>1, ElementOfSeq
  <2>4. Join(f[n], s[n + 1]) \in Seq(A)
    BY <2>2, <2>3, ConcatProperties
  <2> HIDE DEF Join
  <2>5. g \in [0..(n + 1) -> Seq(A)] /\ g[0] = <<>>
    BY <2>2, <2>4
  <2>6. ASSUME NEW k \in 1..(n + 1)
        PROVE  g[k] = Join(g[k - 1], s[k])
    <3>1. CASE k = n + 1
      BY <3>1
    <3>2. CASE k # n + 1
      <4>1. k \in 1..n /\ k \in 0..(n + 1) /\ k - 1 \in 0..(n + 1) /\ k - 1 # n + 1
        BY <3>2
      <4>2. g[k] = f[k] /\ g[k - 1] = f[k - 1]
        BY <3>2, <4>1
      <4> QED
        BY <2>2, <4>1, <4>2
    <3> QED
      BY <3>1, <3>2
  <2>7. UpTo(g, n + 1)
    BY <2>5, <2>6
  <2> QED
    BY <2>7
<1>3. Len(s) \in Nat /\ Len(s) \in S
  <2> HIDE DEF S
  <2> QED
    BY <1>1, <1>2, SetInduction, LenProperties
<1>4. PICK f : UpTo(f, Len(s))
  <2> HIDE DEF UpTo
  <2> QED
    BY <1>3
<1> QED
  BY <1>4 DEF Concatenates

(* The recursion by which FlattenSeq is defined.                           *)
Accumulates(g, s, n) ==
  \A i \in 1..n : g[i] = IF i = 1 THEN s[i] ELSE g[i - 1] \o s[i]

LEMMA ConcatenatesUnique ==
  ASSUME NEW A, NEW s \in Seq(Seq(A)), NEW f, Concatenates(f, s, A),
         NEW n \in 1..Len(s), NEW g, Accumulates(g, s, n)
  PROVE  g[n] = f[n]
<1> DEFINE Join(x, y) == x \o y
           S == {i \in Nat : i \in 1..n => g[i] = f[i]}
<1>a. /\ \A i \in 1..n : g[i] = IF i = 1 THEN s[i] ELSE Join(g[i - 1], s[i])
      /\ f[0] = <<>>
      /\ \A k \in 1..Len(s) : f[k] = Join(f[k - 1], s[k])
      /\ \A i \in 1..Len(s) : Join(<<>>, s[i]) = s[i]
  <2>1. \A i \in 1..Len(s) : Join(<<>>, s[i]) = s[i]
    BY ElementOfSeq, ConcatEmptySeq
  <2> QED
    BY <2>1 DEF Concatenates, Accumulates
<1> HIDE DEF Join
<1>1. 0 \in S
  OBVIOUS
<1>2. ASSUME NEW i \in Nat, i \in S
      PROVE  i + 1 \in S
  <2> SUFFICES ASSUME i + 1 \in 1..n
               PROVE  g[i + 1] = f[i + 1]
    OBVIOUS
  <2>1. Len(s) \in Nat /\ i + 1 \in 1..Len(s) /\ (i + 1) - 1 = i
    BY LenProperties
  <2>2. f[i + 1] = Join(f[i], s[i + 1])
    BY <1>a, <2>1
  <2>3. CASE i = 0
    BY <1>a, <2>1, <2>2, <2>3
  <2>4. CASE i # 0
    <3>1. i + 1 # 1 /\ i \in 1..n
      BY <2>4
    <3>2. g[i + 1] = Join(g[i], s[i + 1])
      BY <1>a, <2>1, <3>1
    <3>3. g[i] = f[i]
      BY <1>2, <3>1
    <3> QED
      BY <2>2, <3>2, <3>3
  <2> QED
    BY <2>3, <2>4
<1>3. Nat \subseteq S
  <2> HIDE DEF S
  <2> QED
    BY <1>1, <1>2, SetInduction
<1>4. n \in S /\ n \in 1..n
  BY <1>3, LenProperties
<1> QED
  BY <1>4

LEMMA FlattenConcatenates ==
  ASSUME NEW A, NEW s \in Seq(Seq(A)), NEW f, Concatenates(f, s, A)
  PROVE  FlattenSeq(s) = f[Len(s)]
<1>1. CASE Len(s) = 0
  <2>1. s = <<>> /\ f[0] = <<>>
    BY <1>1, EmptySeq DEF Concatenates
  <2> QED
    BY <1>1, <2>1 DEF FlattenSeq
<1>2. CASE Len(s) # 0
  <2> DEFINE Step(g) == [i \in 1..Len(s) |-> IF i = 1 THEN s[i] ELSE g[i - 1] \o s[i]]
             flatten == CHOOSE g : g = Step(g)
             first == [i \in 1..Len(s) |-> f[i]]
  <2>1. FlattenSeq(s) = flatten[Len(s)]
    BY <1>2 DEF FlattenSeq
  <2>2. Len(s) \in Nat /\ Len(s) \in 1..Len(s)
    BY <1>2, LenProperties
  <2>3. first = Step(first)
    <3> SUFFICES ASSUME NEW i \in 1..Len(s)
                 PROVE  f[i] = IF i = 1 THEN s[i] ELSE first[i - 1] \o s[i]
      OBVIOUS
    <3>1. f[i] = f[i - 1] \o s[i] /\ s[i] \in Seq(A) /\ f[0] = <<>>
      BY ElementOfSeq DEF Concatenates
    <3>2. CASE i = 1
      <4>1. i - 1 = 0
        BY <3>2
      <4>2. f[i] = <<>> \o s[i]
        BY <3>1, <4>1
      <4> QED
        BY <3>1, <3>2, <4>2, ConcatEmptySeq
    <3>3. CASE i # 1
      <4>1. i - 1 \in 1..Len(s)
        BY <2>2, <3>3
      <4> QED
        BY <3>1, <3>3, <4>1
    <3> QED
      BY <3>2, <3>3
  <2>4. flatten = Step(flatten)
    <3> HIDE DEF Step
    <3> QED
      BY <2>3
  <2>5. Accumulates(flatten, s, Len(s))
    <3> HIDE DEF flatten
    <3> QED
      BY <2>4 DEF Accumulates
  <2> HIDE DEF flatten, first, Step
  <2>6. flatten[Len(s)] = f[Len(s)]
    BY <2>2, <2>5, ConcatenatesUnique
  <2> QED
    BY <2>1, <2>6
<1> QED
  BY <1>1, <1>2

LEMMA FlattenType ==
  ASSUME NEW A, NEW s \in Seq(Seq(A))
  PROVE  FlattenSeq(s) \in Seq(A)
<1>1. PICK f : Concatenates(f, s, A)
  BY ConcatenatesExists
<1>2. FlattenSeq(s) = f[Len(s)] /\ Len(s) \in 0..Len(s)
  BY <1>1, FlattenConcatenates, LenProperties
<1> QED
  BY <1>1, <1>2 DEF Concatenates

(* Where the members of two lists are when they are joined.                *)
LEMMA ConcatAt ==
  ASSUME NEW A, NEW x \in Seq(A), NEW y \in Seq(A)
  PROVE  /\ x \o y \in Seq(A) /\ Len(x \o y) = Len(x) + Len(y)
         /\ Len(x) \in Nat /\ Len(y) \in Nat
         /\ \A i \in 1..Len(x) : (x \o y)[i] = x[i]
         /\ \A i \in 1..Len(y) : (x \o y)[Len(x) + i] = y[i]
<1> DEFINE c == x \o y
<1>1. /\ c \in Seq(A) /\ Len(c) = Len(x) + Len(y)
      /\ Len(x) \in Nat /\ Len(y) \in Nat
      /\ \A i \in 1..(Len(x) + Len(y)) : c[i] = IF i <= Len(x) THEN x[i] ELSE y[i - Len(x)]
  BY ConcatProperties, LenProperties
<1> HIDE DEF c
<1>2. \A i \in 1..Len(x) : c[i] = x[i]
  BY <1>1
<1>3. ASSUME NEW i \in 1..Len(y)
      PROVE  c[Len(x) + i] = y[i]
  <2>1. /\ Len(x) + i \in 1..(Len(x) + Len(y)) /\ ~(Len(x) + i <= Len(x))
        /\ (Len(x) + i) - Len(x) = i
    BY <1>1
  <2> QED
    BY <1>1, <2>1
<1> QED
  BY <1>1, <1>2, <1>3 DEF c

(* One piece more: what is there stays there.                              *)
LEMMA OnePieceMore ==
  ASSUME NEW A, NEW s \in Seq(Seq(A)), NEW f, Concatenates(f, s, A),
         NEW k \in 1..Len(s)
  PROVE  f[k - 1] \in Seq(A) /\ s[k] \in Seq(A) /\ f[k] \in Seq(A) /\ f[k] = f[k - 1] \o s[k]
<1>1. Len(s) \in Nat /\ k \in 0..Len(s) /\ k - 1 \in 0..Len(s)
  BY LenProperties
<1>2. f[k - 1] \in Seq(A) /\ f[k] \in Seq(A) /\ f[k] = f[k - 1] \o s[k]
  BY <1>1 DEF Concatenates
<1>3. s[k] \in Seq(A)
  BY ElementOfSeq
<1> QED
  BY <1>2, <1>3

(* The first pieces are at the beginning of what more pieces give.         *)
LEMMA PiecesStay ==
  ASSUME NEW A, NEW s \in Seq(Seq(A)), NEW f, Concatenates(f, s, A),
         NEW k \in 0..Len(s), NEW m \in k..Len(s)
  PROVE  /\ f[k] \in Seq(A) /\ f[m] \in Seq(A)
         /\ Len(f[k]) <= Len(f[m])
         /\ \A i \in 1..Len(f[k]) : f[m][i] = f[k][i]
<1> DEFINE Kept(n) == /\ Len(f[k]) <= Len(f[n])
                      /\ \A i \in 1..Len(f[k]) : f[n][i] = f[k][i]
           S == {n \in Nat : k + n <= Len(s) => Kept(k + n)}
<1>a. Len(s) \in Nat /\ k \in Nat /\ m \in 0..Len(s)
  BY LenProperties
<1>b. \A n \in 0..Len(s) : f[n] \in Seq(A) /\ Len(f[n]) \in Nat
  BY LenProperties DEF Concatenates
<1>1. 0 \in S
  BY <1>a, <1>b
<1>2. ASSUME NEW n \in Nat, n \in S
      PROVE  n + 1 \in S
  <2> SUFFICES ASSUME k + (n + 1) <= Len(s)
               PROVE  Kept(k + (n + 1))
    OBVIOUS
  <2>1. /\ k + n \in 0..Len(s) /\ k + (n + 1) \in 1..Len(s)
        /\ (k + (n + 1)) - 1 = k + n /\ k + n <= Len(s)
    BY <1>a
  <2>2. Kept(k + n)
    BY <1>2, <2>1
  <2> DEFINE j == k + (n + 1)
             x == f[k + n]
             y == s[j]
             z == f[j]
             w == f[k]
  <2>3. j \in 1..Len(s) /\ f[j - 1] = x
    BY <2>1
  <2>4. x \in Seq(A) /\ y \in Seq(A) /\ z = x \o y /\ w \in Seq(A)
    <3>1. w \in Seq(A)
      BY <1>a, <1>b
    <3> HIDE DEF j, w
    <3>2. f[j - 1] \in Seq(A) /\ s[j] \in Seq(A) /\ f[j] = f[j - 1] \o s[j]
      BY <2>3, OnePieceMore
    <3> QED
      BY <2>3, <3>1, <3>2
  <2>5. Len(w) <= Len(x) /\ \A i \in 1..Len(w) : x[i] = w[i]
    BY <2>2
  <2> HIDE DEF x, y, z, w
  <2>6. /\ Len(x \o y) = Len(x) + Len(y) /\ Len(x) \in Nat /\ Len(y) \in Nat
        /\ \A i \in 1..Len(x) : (x \o y)[i] = x[i]
    BY <2>4, ConcatAt
  <2>7. Len(w) \in Nat
    BY <2>4, LenProperties
  <2>8. Len(w) <= Len(z) /\ \A i \in 1..Len(w) : z[i] = w[i]
    <3>1. Len(w) <= Len(x) /\ Len(x) \in Nat /\ Len(y) \in Nat /\ Len(x \o y) = Len(x) + Len(y)
      BY <2>5, <2>6
    <3> DEFINE a == Len(w)
               b == Len(x)
               c == Len(y)
    <3>2. a \in Nat /\ b \in Nat /\ c \in Nat /\ a <= b
      BY <2>7, <3>1
    <3>3. ASSUME NEW i \in 1..Len(w)
          PROVE  z[i] = w[i]
      <4>1. i \in 1..a
        BY <3>3
      <4> HIDE DEF a, b, c
      <4>2. i \in 1..b
        BY <3>2, <4>1
      <4>3. i \in 1..Len(x)
        BY <4>2 DEF b
      <4> QED
        BY <2>4, <2>5, <2>6, <3>3, <4>3
    <3>4. a <= b + c
      <4> HIDE DEF a, b, c
      <4> QED
        BY <3>2
    <3>5. Len(w) <= Len(z)
      BY <2>4, <3>1, <3>4
    <3> QED
      BY <3>3, <3>5
  <2> QED
    BY <2>8 DEF w, z
<1>3. Nat \subseteq S
  <2> HIDE DEF S
  <2> QED
    BY <1>1, <1>2, SetInduction
<1>4. m - k \in Nat /\ k + (m - k) = m /\ m <= Len(s)
  BY <1>a
<1>5. Kept(m)
  <2> HIDE DEF Kept
  <2> QED
    BY <1>3, <1>4
<1> QED
  BY <1>a, <1>b, <1>5

(* What the first pieces of s give is what the sequence of them gives.     *)
LEMMA FlattenPrefix ==
  ASSUME NEW A, NEW s \in Seq(Seq(A)), NEW f, Concatenates(f, s, A),
         NEW k \in 0..Len(s)
  PROVE  FlattenSeq(SubSeq(s, 1, k)) = f[k]
<1> DEFINE t == SubSeq(s, 1, k)
           g == [i \in 0..k |-> f[i]]
<1>1. Len(s) \in Nat /\ k \in Nat
  BY LenProperties
<1>2. \A i \in 1..k : s[i] \in Seq(A)
  BY <1>1, ElementOfSeq
<1>3. t \in Seq(Seq(A)) /\ Len(t) = k /\ \A i \in 1..k : t[i] = s[i]
  <2>1. /\ t \in Seq(Seq(A))
        /\ Len(t) = IF 1 <= k THEN k - 1 + 1 ELSE 0
        /\ \A i \in 1..(k - 1 + 1) : t[i] = s[1 + i - 1]
    <3> HIDE DEF t
    <3>1. 1 \in Int /\ k \in Int
      BY <1>1
    <3> QED
      BY <1>2, <3>1, SubSeqProperties DEF t
  <2> HIDE DEF t
  <2>2. (k - 1) + 1 = k /\ \A i \in 1..k : (1 + i) - 1 = i
    BY <1>1
  <2> QED
    BY <1>1, <2>1, <2>2
<1> HIDE DEF t
<1>5. g \in [0..k -> Seq(A)] /\ g[0] = <<>>
  BY <1>1 DEF Concatenates
<1>6. ASSUME NEW i \in 1..k
      PROVE  g[i] = g[i - 1] \o t[i]
  <2>1. i \in 0..k /\ i - 1 \in 0..k /\ i \in 1..Len(s)
    BY <1>1
  <2>2. f[i] = f[i - 1] \o s[i]
    BY <2>1 DEF Concatenates
  <2>3. g[i] = f[i] /\ g[i - 1] = f[i - 1] /\ t[i] = s[i]
    BY <1>3, <2>1
  <2> HIDE DEF g
  <2> QED
    BY <2>2, <2>3
<1>7. Concatenates(g, t, A)
  <2> HIDE DEF g
  <2> QED
    BY <1>3, <1>5, <1>6 DEF Concatenates
<1>8. FlattenSeq(t) = g[k]
  <2> HIDE DEF g
  <2> QED
    BY <1>3, <1>7, FlattenConcatenates
<1>9. g[k] = f[k]
  BY <1>1
<1> QED
  BY <1>8, <1>9 DEF t

(* A piece that is not empty ends, in what all pieces give, where the first*)
(* pieces up to it do.                                                     *)
LEMMA LastOfPiece ==
  ASSUME NEW A, NEW s \in Seq(Seq(A)), NEW f, Concatenates(f, s, A),
         NEW k \in 1..Len(s), s[k] # <<>>
  PROVE  /\ Len(f[k]) \in 1..Len(FlattenSeq(s))
         /\ FlattenSeq(s)[Len(f[k])] = s[k][Len(s[k])]
<1>1. Len(s) \in Nat /\ k \in 0..Len(s) /\ Len(s) \in k..Len(s)
  BY LenProperties
<1>2. FlattenSeq(s) = f[Len(s)]
  BY FlattenConcatenates
<1> DEFINE x == f[k - 1]
           y == s[k]
           z == f[k]
           all == f[Len(s)]
<1>3. x \in Seq(A) /\ y \in Seq(A) /\ z \in Seq(A) /\ z = x \o y /\ y # <<>>
  BY OnePieceMore
<1>4. Len(z) <= Len(all) /\ (\A i \in 1..Len(z) : all[i] = z[i]) /\ all \in Seq(A)
  BY <1>1, PiecesStay
<1> HIDE DEF x, y, z, all
<1>5. /\ Len(x \o y) = Len(x) + Len(y) /\ Len(x) \in Nat /\ Len(y) \in Nat
      /\ \A i \in 1..Len(y) : (x \o y)[Len(x) + i] = y[i]
  BY <1>3, ConcatAt
<1>6. Len(y) # 0 /\ Len(all) \in Nat
  BY <1>3, <1>4, EmptySeq, LenProperties
<1>7. Len(z) = Len(x) + Len(y) /\ z[Len(x) + Len(y)] = y[Len(y)]
  <2>1. Len(y) \in 1..Len(y)
    BY <1>5, <1>6
  <2> QED
    BY <1>3, <1>5, <2>1
<1>8. Len(z) \in 1..Len(z) /\ Len(z) \in 1..Len(all)
  BY <1>4, <1>5, <1>6, <1>7
<1>9. all[Len(z)] = y[Len(y)]
  BY <1>4, <1>7, <1>8
<1> QED
  BY <1>2, <1>8, <1>9 DEF y, z, all

LEMMA PiecesNotEmpty ==
  ASSUME NEW A, NEW s \in Seq(Seq(A)), NEW f, Concatenates(f, s, A),
         \A k \in 1..Len(s) : s[k] # <<>>
  PROVE  \A k \in 0..Len(s) : Len(f[k]) >= k
<1> DEFINE S == {n \in Nat : n <= Len(s) => Len(f[n]) >= n}
<1>a. Len(s) \in Nat
  BY LenProperties
<1>1. 0 \in S
  BY EmptySeq DEF Concatenates
<1>2. ASSUME NEW n \in Nat, n \in S
      PROVE  n + 1 \in S
  <2> SUFFICES ASSUME n + 1 <= Len(s)
               PROVE  Len(f[n + 1]) >= n + 1
    OBVIOUS
  <2>1. n + 1 \in 1..Len(s) /\ (n + 1) - 1 = n /\ n <= Len(s)
    BY <1>a
  <2> DEFINE x == f[n]
             y == s[n + 1]
             z == f[n + 1]
  <2>2. x \in Seq(A) /\ y \in Seq(A) /\ z = x \o y /\ y # <<>>
    <3> DEFINE k == n + 1
    <3>1. k \in 1..Len(s) /\ k - 1 = n
      BY <2>1
    <3> HIDE DEF k
    <3>2. f[k - 1] \in Seq(A) /\ s[k] \in Seq(A) /\ f[k] = f[k - 1] \o s[k] /\ s[k] # <<>>
      BY <3>1, OnePieceMore
    <3> QED
      BY <3>1, <3>2 DEF k
  <2>3. Len(x) >= n
    BY <1>2, <2>1
  <2> HIDE DEF x, y, z
  <2>4. Len(x \o y) = Len(x) + Len(y) /\ Len(x) \in Nat /\ Len(y) \in Nat
    BY <2>2, ConcatAt
  <2>5. Len(y) # 0
    BY <2>2, EmptySeq
  <2>6. Len(z) >= n + 1
    BY <2>2, <2>3, <2>4, <2>5
  <2> QED
    BY <2>6 DEF z
<1>3. Nat \subseteq S
  <2> HIDE DEF S
  <2> QED
    BY <1>1, <1>2, SetInduction
<1> QED
  BY <1>a, <1>3

(* A text that is cut into adjacent pieces is what the pieces give.        *)
LEMMA CutsFlatten ==
  ASSUME NEW A, NEW text \in Seq(A), NEW s \in Seq(Seq(A)),
         NEW cut \in [0..Len(s) -> 0..Len(text)],
         cut[0] = 0, cut[Len(s)] = Len(text),
         \A k \in 1..Len(s) : /\ cut[k - 1] <= cut[k]
                              /\ s[k] = SubSeq(text, cut[k - 1] + 1, cut[k])
  PROVE  FlattenSeq(s) = text
<1> DEFINE f == [k \in 0..Len(s) |-> SubSeq(text, 1, cut[k])]
<1>1. Len(s) \in Nat /\ Len(text) \in Nat
  BY LenProperties
<1>2. ASSUME NEW k \in 0..Len(s)
      PROVE  SubSeq(text, 1, cut[k]) \in Seq(A)
  <2> DEFINE c == cut[k]
  <2>1. c \in 0..Len(text)
    OBVIOUS
  <2> HIDE DEF c
  <2>2. 1 \in Int /\ c \in Int /\ \A i \in 1..c : i \in 1..Len(text)
    BY <1>1, <2>1
  <2>3. \A i \in 1..c : text[i] \in A
    BY <2>2, ElementOfSeq
  <2>4. SubSeq(text, 1, c) \in Seq(A)
    BY <2>2, <2>3, SubSeqProperties
  <2> QED
    BY <2>4 DEF c
<1>3. SubSeq(text, 1, 0) = <<>>
  BY SubSeqEmpty
<1>4. ASSUME NEW k \in 1..Len(s)
      PROVE  SubSeq(text, 1, cut[k]) = SubSeq(text, 1, cut[k - 1]) \o s[k]
  <2>1. k \in 0..Len(s) /\ k - 1 \in 0..Len(s)
    BY <1>1
  <2> DEFINE a == cut[k - 1]
             c == cut[k]
  <2>2. a \in 0..Len(text) /\ c \in 0..Len(text) /\ a <= c
    BY <2>1
  <2>3. s[k] = SubSeq(text, a + 1, c)
    OBVIOUS
  <2> HIDE DEF a, c
  <2>4. 1 \in 1..(Len(text) + 1) /\ a \in (1 - 1)..Len(text) /\ c \in a..Len(text)
    BY <1>1, <2>2
  <2>5. SubSeq(text, 1, a) \o SubSeq(text, a + 1, c) = SubSeq(text, 1, c)
    BY <2>4, ConcatAdjacentSubSeq
  <2>6. SubSeq(text, 1, c) = SubSeq(text, 1, a) \o s[k]
    BY <2>3, <2>5
  <2> QED
    BY <2>6 DEF a, c
<1>5. Concatenates(f, s, A)
  <2>1. f \in [0..Len(s) -> Seq(A)]
    BY <1>2
  <2>2. f[0] = <<>>
    BY <1>1, <1>3
  <2>3. ASSUME NEW k \in 1..Len(s)
        PROVE  f[k] = f[k - 1] \o s[k]
    <3>1. k \in 0..Len(s) /\ k - 1 \in 0..Len(s)
      BY <1>1
    <3>2. f[k] = SubSeq(text, 1, cut[k]) /\ f[k - 1] = SubSeq(text, 1, cut[k - 1])
      BY <3>1
    <3> HIDE DEF f
    <3> QED
      BY <1>4, <3>2
  <2> HIDE DEF f
  <2> QED
    BY <2>1, <2>2, <2>3 DEF Concatenates
<1>6. FlattenSeq(s) = f[Len(s)]
  <2> HIDE DEF f
  <2> QED
    BY <1>5, FlattenConcatenates
<1>7. f[Len(s)] = SubSeq(text, 1, Len(text))
  BY <1>1
<1> QED
  BY <1>6, <1>7, SubSeqFull

-----------------------------------------------------------------------------
(* Where the blocks of a text are.                                         *)

LEMMA StartsAre ==
  ASSUME NEW text \in Seq(Line)
  PROVE  /\ Starts(text) \subseteq 1..Len(text)
         /\ IsFiniteSet(Starts(text))
         /\ Cardinality(Starts(text)) \in Nat
         /\ \A i \in Starts(text) : text[i] \in Headers
<1>1. Len(text) \in Nat /\ DOMAIN text = 1..Len(text)
  BY LenProperties
<1>2. Starts(text) \subseteq 1..Len(text) /\ \A i \in Starts(text) : text[i] \in Headers
  BY <1>1 DEF Starts
<1>3. IsFiniteSet(1..Len(text))
  BY <1>1, FS_Interval
<1>4. IsFiniteSet(Starts(text))
  BY <1>2, <1>3, FS_Subset
<1> QED
  BY <1>2, <1>4, FS_CardinalityType

LEMMA EndIs ==
  ASSUME NEW text \in Seq(Line), NEW i \in Nat, Ends(text, i) # {}
  PROVE  /\ End(text, i) \in (i + 1)..Len(text)
         /\ text[End(text, i)] = Fence
         /\ \A k \in Ends(text, i) : End(text, i) <= k
<1>1. Ends(text, i) \subseteq Nat
  BY LenProperties DEF Ends
<1>2. \E k \in Ends(text, i) : \A m \in Ends(text, i) : k <= m
  BY <1>1, LeastMember
<1>3. End(text, i) \in Ends(text, i) /\ \A m \in Ends(text, i) : End(text, i) <= m
  BY <1>2 DEF End
<1> QED
  BY <1>3 DEF Ends

(* The number of blocks that start in the first lines of a text.           *)
StartsUpTo(text, i) == Cardinality(Starts(text) \cap 1..i)

LEMMA StartsUpToSteps ==
  ASSUME NEW text \in Seq(Line)
  PROVE  /\ StartsUpTo(text, 0) = 0
         /\ StartsUpTo(text, Len(text)) = Cardinality(Starts(text))
         /\ \A i \in Nat : StartsUpTo(text, i) \in Nat
         /\ \A i \in Nat : StartsUpTo(text, i + 1)
                             = IF i + 1 \in Starts(text) THEN StartsUpTo(text, i) + 1
                                                         ELSE StartsUpTo(text, i)
         /\ \A i, j \in Nat : i <= j => StartsUpTo(text, i) <= StartsUpTo(text, j)
<1>1. /\ Starts(text) \subseteq 1..Len(text) /\ IsFiniteSet(Starts(text))
  BY StartsAre
<1>2. \A i \in Nat : /\ IsFiniteSet(Starts(text) \cap 1..i)
                     /\ StartsUpTo(text, i) \in Nat
  BY <1>1, FS_Subset, FS_CardinalityType DEF StartsUpTo
<1>3. StartsUpTo(text, 0) = 0
  <2>1. Starts(text) \cap 1..0 = {}
    OBVIOUS
  <2> QED
    BY <2>1, FS_EmptySet DEF StartsUpTo
<1>4. StartsUpTo(text, Len(text)) = Cardinality(Starts(text))
  <2>1. Starts(text) \cap 1..Len(text) = Starts(text)
    BY <1>1
  <2> QED
    BY <2>1 DEF StartsUpTo
<1>5. ASSUME NEW i \in Nat
      PROVE  StartsUpTo(text, i + 1)
               = IF i + 1 \in Starts(text) THEN StartsUpTo(text, i) + 1
                                           ELSE StartsUpTo(text, i)
  <2>1. CASE i + 1 \in Starts(text)
    <3>1. /\ Starts(text) \cap 1..(i + 1) = (Starts(text) \cap 1..i) \cup {i + 1}
          /\ i + 1 \notin Starts(text) \cap 1..i
      BY <1>1, <2>1
    <3> QED
      BY <1>2, <2>1, <3>1, FS_AddElement DEF StartsUpTo
  <2>2. CASE i + 1 \notin Starts(text)
    <3>1. Starts(text) \cap 1..(i + 1) = Starts(text) \cap 1..i
      BY <1>1, <2>2
    <3> QED
      BY <2>2, <3>1 DEF StartsUpTo
  <2> QED
    BY <2>1, <2>2
<1>6. ASSUME NEW i \in Nat, NEW j \in Nat, i <= j
      PROVE  StartsUpTo(text, i) <= StartsUpTo(text, j)
  <2>1. Starts(text) \cap 1..i \subseteq Starts(text) \cap 1..j
    BY <1>6
  <2> QED
    BY <1>2, <2>1, FS_Subset DEF StartsUpTo
<1> QED
  BY <1>2, <1>3, <1>4, <1>5, <1>6

(* Where the b-th block of a text starts.                                  *)
StartOf(text, b) == CHOOSE i \in Starts(text) : Cardinality(Starts(text) \cap 1..i) = b

LEMMA StartOfIs ==
  ASSUME NEW text \in Seq(Line), NEW b \in 1..Cardinality(Starts(text))
  PROVE  /\ StartOf(text, b) \in Starts(text)
         /\ StartOf(text, b) \in 1..Len(text)
         /\ StartsUpTo(text, StartOf(text, b)) = b
<1>1. /\ Len(text) \in Nat /\ Cardinality(Starts(text)) \in Nat
      /\ Starts(text) \subseteq 1..Len(text)
  BY LenProperties, StartsAre
<1> DEFINE S == {i \in Nat : b <= StartsUpTo(text, i)}
<1>2. Len(text) \in S
  BY <1>1, StartsUpToSteps
<1>3. PICK i \in S : \A m \in S : i <= m
  <2>1. S \subseteq Nat /\ S # {}
    BY <1>2
  <2> HIDE DEF S
  <2> QED
    BY <2>1, LeastMember
<1>4. i # 0
  BY <1>3, StartsUpToSteps
<1>5. i - 1 \in Nat /\ i - 1 \notin S /\ (i - 1) + 1 = i
  BY <1>3, <1>4
<1>6. /\ StartsUpTo(text, i - 1) \in Nat /\ StartsUpTo(text, i) \in Nat
      /\ StartsUpTo(text, i) = IF i \in Starts(text) THEN StartsUpTo(text, i - 1) + 1
                                                     ELSE StartsUpTo(text, i - 1)
  BY <1>5, StartsUpToSteps
<1>7. i \in Starts(text) /\ StartsUpTo(text, i) = b
  BY <1>3, <1>5, <1>6
<1>8. /\ StartOf(text, b) \in Starts(text)
      /\ Cardinality(Starts(text) \cap 1..StartOf(text, b)) = b
  BY <1>7 DEF StartOf, StartsUpTo
<1> QED
  BY <1>1, <1>8 DEF StartsUpTo

(* A block ends before the next one starts.                                *)
LEMMA BlocksApart ==
  ASSUME NEW text \in Seq(Line), NEW b \in 1..Cardinality(Starts(text)),
         b + 1 \in 1..Cardinality(Starts(text))
  PROVE  /\ Ends(text, StartOf(text, b)) # {}
         /\ End(text, StartOf(text, b)) < StartOf(text, b + 1)
<1> DEFINE i == StartOf(text, b)
           j == StartOf(text, b + 1)
<1>1. /\ i \in Starts(text) /\ i \in 1..Len(text) /\ StartsUpTo(text, i) = b
      /\ j \in Starts(text) /\ j \in 1..Len(text) /\ StartsUpTo(text, j) = b + 1
      /\ text[i] \in Headers /\ Len(text) \in Nat
  BY StartOfIs, StartsAre, LenProperties
<1>2. i < j
  <2>1. ~(j <= i)
    BY <1>1, StartsUpToSteps, StartsAre
  <2> QED
    BY <1>1, <2>1
<1>3. PICK k \in (i + 1)..(j - 1) : text[k] = Fence
  <2>1. i \in 1..(j - 1)
    BY <1>1, <1>2
  <2> HIDE DEF i, j
  <2> QED
    BY <1>1, <2>1 DEF Starts
<1>4. k \in Ends(text, i)
  BY <1>1, <1>3 DEF Ends
<1>5. End(text, i) <= k /\ End(text, i) \in Nat
  <2>1. i \in Nat
    BY <1>1
  <2> HIDE DEF i
  <2> QED
    BY <1>1, <1>4, <2>1, EndIs
<1> QED
  BY <1>1, <1>3, <1>4, <1>5

(* From its header to its closing line, a block of a text is the text of   *)
(* one block: the headers within are part of it.                           *)
LEMMA BlockTextIs ==
  ASSUME NEW text \in Seq(Line), NEW i \in Starts(text), Ends(text, i) # {}
  PROVE  /\ SubSeq(text, i, End(text, i)) \in Seq(Line)
         /\ IsBlockText(SubSeq(text, i, End(text, i)))
<1> DEFINE e == End(text, i)
           raw == SubSeq(text, i, e)
<1>1. /\ i \in 1..Len(text) /\ i \in Nat /\ Len(text) \in Nat /\ text[i] \in Headers
      /\ DOMAIN text = 1..Len(text)
  BY StartsAre, LenProperties
<1>2. /\ e \in (i + 1)..Len(text) /\ text[e] = Fence
      /\ \A k \in Ends(text, i) : e <= k
  BY <1>1, EndIs
<1>3. Fence \notin Headers
  BY DocumentAssumption
<1> HIDE DEF e
<1>4. /\ raw \in Seq(Line)
      /\ Len(raw) = (e - i) + 1
      /\ \A k \in 1..((e - i) + 1) : raw[k] = text[(i + k) - 1]
  <2>1. \A k \in i..e : text[k] \in Line
    BY <1>1, <1>2, ElementOfSeq
  <2> QED
    BY <1>1, <1>2, <2>1, SubSeqProperties
<1> HIDE DEF raw
<1>5. DOMAIN raw = 1..((e - i) + 1)
  BY <1>4, LenProperties
<1>6. raw[1] \in Headers /\ 1 \in DOMAIN raw /\ Len(raw) \in DOMAIN raw /\ raw[Len(raw)] = Fence
  BY <1>1, <1>2, <1>4, <1>5
<1>7. ASSUME NEW k \in 2..Len(raw), raw[k] = Fence
      PROVE  k = Len(raw)
  <2>1. text[(i + k) - 1] = Fence /\ (i + k) - 1 \in (i + 1)..Len(text)
    BY <1>1, <1>2, <1>4, <1>7
  <2>2. e <= (i + k) - 1
    BY <1>2, <2>1 DEF Ends
  <2> QED
    BY <1>1, <1>2, <1>4, <2>2
<1>8. Starts(raw) = {1}
  <2>1. 1 \in Starts(raw)
    BY <1>6 DEF Starts
  <2>2. ASSUME NEW k \in Starts(raw), k # 1
        PROVE  FALSE
    <3>1. k \in 2..Len(raw) /\ raw[k] \in Headers /\ 1 \in 1..(k - 1)
      BY <1>1, <1>2, <1>4, <1>5, <2>2 DEF Starts
    <3>2. PICK m \in (1 + 1)..(k - 1) : raw[m] = Fence
      BY <1>6, <3>1 DEF Starts
    <3>3. m \in 2..Len(raw) /\ m < Len(raw)
      BY <3>1
    <3> QED
      BY <1>7, <3>2, <3>3
  <2> QED
    BY <2>1, <2>2
<1>9. Ends(raw, 1) = {Len(raw)}
  BY <1>1, <1>2, <1>4, <1>6, <1>7 DEF Ends
<1>10. End(raw, 1) = Len(raw)
  BY <1>9 DEF End
<1> QED
  BY <1>4, <1>8, <1>9, <1>10 DEF IsBlockText, raw, e

(* The fields derived from a text that is one block are that text.         *)
LEMMA CanonicalIs ==
  ASSUME NEW text \in Seq(Line), NEW i \in Starts(text)
  PROVE  /\ Canonical(text, i) \in Seq(Line)
         /\ Ends(text, i) # {} => Canonical(text, i) = SubSeq(text, i, End(text, i))
<1>1. CASE Ends(text, i) # {}
  BY <1>1, BlockTextIs DEF Canonical
<1>2. CASE Ends(text, i) = {}
  <2>1. i \in 1..Len(text) /\ i \in Nat /\ Len(text) \in Nat
    BY StartsAre, LenProperties
  <2>2. SubSeq(text, i, Len(text)) \in Seq(Line)
    <3>1. \A k \in i..Len(text) : text[k] \in Line
      BY <2>1, ElementOfSeq
    <3> QED
      BY <2>1, <3>1, SubSeqProperties
  <2>3. Fence \in Line
    BY DEF Line
  <2> QED
    BY <1>2, <2>2, <2>3, AppendProperties DEF Canonical
<1> QED
  BY <1>1, <1>2

-----------------------------------------------------------------------------
(* Segments.                                                               *)

(* A block is exact if its raw is the text of one block and its fields are *)
(* those of its raw, and it follows if it is what reparsing its raw makes  *)
(* it.                                                                     *)
Exact(s)   == s.kind = "block" => s.fields = s.raw /\ IsBlockText(s.raw)
Follows(s) == s.kind = "block" => ReparseFromRaw(s) = s

LEMMA ReparseType ==
  ASSUME NEW b \in Segment
  PROVE  /\ ReparseFromRaw(b) \in Segment
         /\ ReparseFromRaw(b).kind = b.kind /\ ReparseFromRaw(b).raw = b.raw
         /\ ReparseFromRaw(ReparseFromRaw(b)) = ReparseFromRaw(b)
<1>1. /\ b.raw \in Seq(Line) /\ b.kind \in {"prose", "block"} /\ b.fields \in Seq(Line)
      /\ b = [kind |-> b.kind, raw |-> b.raw, fields |-> b.fields]
  BY DEF Segment
<1>2. CASE \E i \in DOMAIN b.raw : Starts(b.raw) = {i}
  <2> DEFINE h == CHOOSE i \in Starts(b.raw) : TRUE
             c == Canonical(b.raw, h)
  <2>1. h \in Starts(b.raw)
    BY <1>2
  <2>2. c \in Seq(Line)
    BY <1>1, <2>1, CanonicalIs
  <2>3. ReparseFromRaw(b) = [b EXCEPT !.fields = c]
    BY <1>2 DEF ReparseFromRaw
  <2> DEFINE r == [kind |-> b.kind, raw |-> b.raw, fields |-> c]
  <2>4. [b EXCEPT !.fields = c] = r
    <3> HIDE DEF c
    <3> QED
      BY <1>1
  <2>5. r \in Segment /\ r.kind = b.kind /\ r.raw = b.raw
    <3> HIDE DEF c
    <3> QED
      BY <1>1, <2>2 DEF Segment
  <2>6. ReparseFromRaw(r) = [r EXCEPT !.fields = c]
    <3> HIDE DEF r
    <3> QED
      BY <1>2, <2>5 DEF ReparseFromRaw
  <2>7. [r EXCEPT !.fields = c] = r
    <3> HIDE DEF c
    <3> QED
      OBVIOUS
  <2> HIDE DEF r
  <2> QED
    BY <2>3, <2>4, <2>5, <2>6, <2>7
<1>3. CASE ~\E i \in DOMAIN b.raw : Starts(b.raw) = {i}
  <2>1. ReparseFromRaw(b) = b
    BY <1>3 DEF ReparseFromRaw
  <2> QED
    BY <2>1
<1> QED
  BY <1>2, <1>3

(* A block whose raw is the text of one block gets that text as its fields.*)
LEMMA ReparseBlockText ==
  ASSUME NEW b \in Segment, IsBlockText(b.raw)
  PROVE  ReparseFromRaw(b).fields = b.raw
<1>1. /\ b.raw \in Seq(Line) /\ b.kind \in {"prose", "block"} /\ b.fields \in Seq(Line)
      /\ b = [kind |-> b.kind, raw |-> b.raw, fields |-> b.fields]
  BY DEF Segment
<1>2. Starts(b.raw) = {1} /\ Ends(b.raw, 1) # {} /\ End(b.raw, 1) = Len(b.raw)
  BY DEF IsBlockText
<1>3. 1 \in Starts(b.raw) /\ 1 \in DOMAIN b.raw
  BY <1>1, <1>2, StartsAre, LenProperties
<1>4. (CHOOSE i \in Starts(b.raw) : TRUE) = 1
  BY <1>2
<1>5. Canonical(b.raw, 1) = b.raw
  BY <1>1, <1>2, <1>3, CanonicalIs, SubSeqFull
<1>6. ReparseFromRaw(b) = [b EXCEPT !.fields = b.raw]
  BY <1>2, <1>3, <1>4, <1>5 DEF ReparseFromRaw
<1> QED
  BY <1>1, <1>6

LEMMA ExactFollows ==
  ASSUME NEW s \in Segment, Exact(s)
  PROVE  Follows(s)
<1> SUFFICES ASSUME s.kind = "block"
             PROVE  ReparseFromRaw(s) = s
  BY DEF Follows
<1>1. s.fields = s.raw /\ IsBlockText(s.raw)
  BY DEF Exact
<1>2. /\ ReparseFromRaw(s).fields = s.raw
      /\ ReparseFromRaw(s) \in Segment
      /\ ReparseFromRaw(s).kind = s.kind /\ ReparseFromRaw(s).raw = s.raw
  BY <1>1, ReparseBlockText, ReparseType
<1> QED
  BY <1>1, <1>2 DEF Segment

-----------------------------------------------------------------------------
(* What parsing a text gives.                                              *)

(* The segments of a text by turns: the prose before the first block, the  *)
(* first block, and so on; proses are the odd ones.                        *)
LEMMA Turns ==
  ASSUME NEW n \in Nat, NEW m \in 1..(2 * n + 1)
  PROVE  \/ \E b \in 0..n : m = 2 * b + 1 /\ m % 2 = 1 /\ m \div 2 = b
         \/ \E b \in 1..n : m = 2 * b /\ m % 2 = 0 /\ m \div 2 = b
<1> DEFINE b == m \div 2
<1>1. b \in Int /\ m = 2 * b + (m % 2) /\ m % 2 \in 0..1
  OBVIOUS
<1> HIDE DEF b
<1>2. CASE m % 2 = 1
  <2>1. b \in 0..n /\ m = 2 * b + 1
    BY <1>1, <1>2
  <2> QED
    BY <1>2, <2>1 DEF b
<1>3. CASE m % 2 = 0
  <2>1. b \in 1..n /\ m = 2 * b
    BY <1>1, <1>3
  <2> QED
    BY <1>3, <2>1 DEF b
<1> QED
  BY <1>1, <1>2, <1>3

EndOf(text, b) == IF b = 0 THEN 0 ELSE End(text, StartOf(text, b))
UpTo(text, b)  == IF b = Cardinality(Starts(text)) THEN Len(text) ELSE StartOf(text, b + 1) - 1

(* The bounds of the segments are in order.                                *)
LEMMA BoundsInOrder ==
  ASSUME NEW text \in Seq(Line), ~Panics(text)
  PROVE  /\ \A b \in 0..Cardinality(Starts(text)) :
              /\ EndOf(text, b) \in 0..Len(text) /\ UpTo(text, b) \in 0..Len(text)
              /\ EndOf(text, b) <= UpTo(text, b)
         /\ \A b \in 1..Cardinality(Starts(text)) :
              /\ StartOf(text, b) \in 1..Len(text) /\ StartOf(text, b) \in Starts(text)
              /\ Ends(text, StartOf(text, b)) # {}
              /\ End(text, StartOf(text, b)) = EndOf(text, b)
              /\ StartOf(text, b) < EndOf(text, b)
              /\ UpTo(text, b - 1) = StartOf(text, b) - 1
<1> DEFINE n == Cardinality(Starts(text))
<1>1. n \in Nat /\ Len(text) \in Nat
  BY StartsAre, LenProperties
<1>2. ASSUME NEW b \in 1..n
      PROVE  /\ StartOf(text, b) \in 1..Len(text) /\ StartOf(text, b) \in Starts(text)
             /\ Ends(text, StartOf(text, b)) # {}
             /\ EndOf(text, b) = End(text, StartOf(text, b))
             /\ EndOf(text, b) \in 1..Len(text)
             /\ StartOf(text, b) < EndOf(text, b)
  <2>1. StartOf(text, b) \in 1..Len(text) /\ StartOf(text, b) \in Starts(text)
    BY StartOfIs
  <2>2. Ends(text, StartOf(text, b)) # {}
    BY <2>1 DEF Panics
  <2>3. End(text, StartOf(text, b)) \in (StartOf(text, b) + 1)..Len(text)
    BY <2>1, <2>2, EndIs
  <2>4. EndOf(text, b) = End(text, StartOf(text, b))
    BY <1>1 DEF EndOf
  <2> QED
    BY <1>1, <2>1, <2>2, <2>3, <2>4
<1> HIDE DEF n
<1>3. ASSUME NEW b \in 1..n
      PROVE  UpTo(text, b - 1) = StartOf(text, b) - 1
  BY <1>1 DEF UpTo, n
<1>4. ASSUME NEW b \in 0..n
      PROVE  /\ EndOf(text, b) \in 0..Len(text) /\ UpTo(text, b) \in 0..Len(text)
             /\ EndOf(text, b) <= UpTo(text, b)
  <2>1. EndOf(text, b) \in 0..Len(text)
    <3>1. CASE b = 0
      BY <1>1, <3>1 DEF EndOf
    <3>2. CASE b # 0
      BY <1>1, <1>2, <3>2
    <3> QED
      BY <3>1, <3>2
  <2>2. CASE b = n
    <3>1. UpTo(text, b) = Len(text)
      BY <2>2 DEF UpTo, n
    <3> QED
      BY <1>1, <2>1, <3>1
  <2>3. CASE b # n
    <3>1. b + 1 \in 1..n /\ (b + 1) - 1 = b
      BY <1>1, <2>3
    <3>2. UpTo(text, b) = StartOf(text, b + 1) - 1 /\ StartOf(text, b + 1) \in 1..Len(text)
      BY <1>2, <1>3, <3>1
    <3>3. CASE b = 0
      <4>1. EndOf(text, b) = 0
        BY <3>3 DEF EndOf
      <4> QED
        BY <1>1, <2>1, <3>2, <4>1
    <3>4. CASE b # 0
      <4>1. b \in 1..n
        BY <1>1, <3>4
      <4>2. End(text, StartOf(text, b)) < StartOf(text, b + 1)
        BY <3>1, <4>1, BlocksApart DEF n
      <4>3. EndOf(text, b) = End(text, StartOf(text, b))
        BY <1>2, <4>1
      <4> QED
        BY <1>1, <2>1, <3>2, <4>2, <4>3
    <3> QED
      BY <3>3, <3>4
  <2> QED
    BY <2>2, <2>3
<1> QED
  BY <1>2, <1>3, <1>4 DEF n

(* The segments one by one.                                                *)
LEMMA Parsed ==
  ASSUME NEW text \in Seq(Line), ~Panics(text)
  PROVE  LET n == Cardinality(Starts(text))
         IN /\ FromMarkdown(text) = [m \in 1..(2 * n + 1) |-> FromMarkdown(text)[m]]
            /\ \A b \in 0..n : FromMarkdown(text)[2 * b + 1]
                                 = Prose(SubSeq(text, EndOf(text, b) + 1, UpTo(text, b)))
            /\ \A b \in 1..n : FromMarkdown(text)[2 * b]
                                 = Block(SubSeq(text, StartOf(text, b), EndOf(text, b)),
                                         SubSeq(text, StartOf(text, b), EndOf(text, b)))
<1> DEFINE n == Cardinality(Starts(text))
           start(b) == CHOOSE i \in Starts(text) : Cardinality(Starts(text) \cap 1..i) = b
           from(b)  == IF b = 0 THEN 1 ELSE End(text, start(b)) + 1
           upTo(b)  == IF b = n THEN Len(text) ELSE start(b + 1) - 1
           seg(m) == LET b == m \div 2
                     IN IF m % 2 = 1 THEN Prose(SubSeq(text, from(b), upTo(b)))
                        ELSE Block(SubSeq(text, start(b), End(text, start(b))),
                                   Canonical(text, start(b)))
<1>1. FromMarkdown(text) = [m \in 1..(2 * n + 1) |-> seg(m)]
  BY DEF FromMarkdown
<1>2. \A b : start(b) = StartOf(text, b) /\ upTo(b) = UpTo(text, b)
  BY DEF StartOf, UpTo
<1>3. n \in Nat
  BY StartsAre
<1>4. ASSUME NEW b \in 0..n
      PROVE  /\ 2 * b + 1 \in 1..(2 * n + 1)
             /\ seg(2 * b + 1) = Prose(SubSeq(text, EndOf(text, b) + 1, UpTo(text, b)))
  <2>1. /\ 2 * b + 1 \in 1..(2 * n + 1) /\ (2 * b + 1) \div 2 = b
        /\ (2 * b + 1) % 2 = 1
    <3> HIDE DEF n
    <3> QED
      BY <1>3
  <2>2. from(b) = EndOf(text, b) + 1
    <3>1. CASE b = 0
      <4>1. EndOf(text, b) = 0 /\ from(b) = 1
        BY <3>1 DEF EndOf
      <4> QED
        BY <4>1
    <3>2. CASE b # 0
      <4>1. EndOf(text, b) = End(text, StartOf(text, b)) /\ from(b) = End(text, start(b)) + 1
        BY <3>2 DEF EndOf
      <4> HIDE DEF start, from
      <4> QED
        BY <1>2, <4>1
    <3> QED
      BY <3>1, <3>2
  <2> HIDE DEF start, from, upTo
  <2>3. seg(2 * b + 1) = Prose(SubSeq(text, from(b), upTo(b)))
    BY <2>1
  <2> QED
    BY <1>2, <2>1, <2>2, <2>3
<1>5. ASSUME NEW b \in 1..n
      PROVE  /\ 2 * b \in 1..(2 * n + 1)
             /\ seg(2 * b) = Block(SubSeq(text, StartOf(text, b), EndOf(text, b)),
                                   SubSeq(text, StartOf(text, b), EndOf(text, b)))
  <2>1. 2 * b \in 1..(2 * n + 1) /\ (2 * b) \div 2 = b /\ (2 * b) % 2 # 1
    <3> HIDE DEF n
    <3> QED
      BY <1>3
  <2>2. /\ StartOf(text, b) \in Starts(text)
        /\ Ends(text, StartOf(text, b)) # {}
        /\ End(text, StartOf(text, b)) = EndOf(text, b)
    BY BoundsInOrder
  <2>3. Canonical(text, StartOf(text, b)) = SubSeq(text, StartOf(text, b), EndOf(text, b))
    BY <2>2, CanonicalIs
  <2> HIDE DEF start, from, upTo
  <2>4. seg(2 * b) = Block(SubSeq(text, start(b), End(text, start(b))),
                           Canonical(text, start(b)))
    BY <2>1
  <2> QED
    BY <1>2, <2>1, <2>2, <2>3, <2>4
<1> HIDE DEF seg
<1>6. FromMarkdown(text) = [m \in 1..(2 * n + 1) |-> FromMarkdown(text)[m]]
  <2> HIDE DEF n
  <2> QED
    BY <1>1
<1>7. \A m \in 1..(2 * n + 1) : FromMarkdown(text)[m] = seg(m)
  BY <1>1
<1> QED
  BY <1>4, <1>5, <1>6, <1>7

LEMMA FunctionIsSeq ==
  ASSUME NEW A, NEW n \in Nat, NEW f, f = [m \in 1..n |-> f[m]],
         \A m \in 1..n : f[m] \in A
  PROVE  f \in Seq(A) /\ Len(f) = n /\ DOMAIN f = 1..n
<1>1. f \in [1..n -> A] /\ DOMAIN f = 1..n
  OBVIOUS
<1>2. f \in Seq(A)
  BY <1>1, SeqDef
<1>3. Len(f) \in Nat /\ 1..Len(f) = 1..n
  BY <1>1, <1>2, LenProperties
<1>4. Len(f) = n
  BY <1>3
<1> QED
  BY <1>1, <1>2, <1>4

ExactSegment == {s \in Segment : Exact(s)}

(* A block never stands at either end, nor next to another one.            *)
PaddedSegs(segs) ==
  /\ IsProse(segs, 1) /\ IsProse(segs, Len(segs))
  /\ \A i \in 2..Len(segs) : ~(IsBlock(segs, i - 1) /\ IsBlock(segs, i))

LEMMA FromMarkdownIs ==
  ASSUME NEW text \in Seq(Line), ~Panics(text)
  PROVE  /\ FromMarkdown(text) \in Seq(ExactSegment)
         /\ Len(FromMarkdown(text)) \in Nat \ {0}
         /\ PaddedSegs(FromMarkdown(text))
         /\ Starts(text) # {} => IsBlock(FromMarkdown(text), 2)
<1> DEFINE n == Cardinality(Starts(text))
           segs == FromMarkdown(text)
<1>1. n \in Nat /\ Len(text) \in Nat
  BY StartsAre, LenProperties
<1>2. /\ segs = [m \in 1..(2 * n + 1) |-> segs[m]]
      /\ \A b \in 0..n : segs[2 * b + 1]
                           = Prose(SubSeq(text, EndOf(text, b) + 1, UpTo(text, b)))
      /\ \A b \in 1..n : segs[2 * b]
                           = Block(SubSeq(text, StartOf(text, b), EndOf(text, b)),
                                   SubSeq(text, StartOf(text, b), EndOf(text, b)))
  BY Parsed
<1>0. Starts(text) # {} => n >= 1
  <2>1. n = 0 => Starts(text) = {}
    BY StartsAre, FS_EmptySet
  <2> HIDE DEF n
  <2> QED
    BY <1>1, <2>1
<1> HIDE DEF n, segs
<1>3. ASSUME NEW b \in 0..n
      PROVE  segs[2 * b + 1] \in ExactSegment /\ segs[2 * b + 1].kind = "prose"
  <2> DEFINE t == SubSeq(text, EndOf(text, b) + 1, UpTo(text, b))
  <2>1. t \in Seq(Line)
    <3>1. EndOf(text, b) \in 0..Len(text) /\ UpTo(text, b) \in 0..Len(text)
      BY BoundsInOrder DEF n
    <3>2. /\ EndOf(text, b) + 1 \in Int /\ UpTo(text, b) \in Int
          /\ \A i \in (EndOf(text, b) + 1)..UpTo(text, b) : text[i] \in Line
      BY <1>1, <3>1, ElementOfSeq
    <3> QED
      BY <3>2, SubSeqProperties
  <2>2. segs[2 * b + 1] = Prose(t)
    BY <1>2
  <2>3. <<>> \in Seq(Line)
    BY EmptySeq
  <2> HIDE DEF t
  <2> QED
    BY <2>1, <2>2, <2>3 DEF Prose, Segment, Exact, ExactSegment
<1>4. ASSUME NEW b \in 1..n
      PROVE  segs[2 * b] \in ExactSegment /\ segs[2 * b].kind = "block"
  <2> DEFINE t == SubSeq(text, StartOf(text, b), EndOf(text, b))
  <2>1. t \in Seq(Line) /\ IsBlockText(t)
    <3>1. /\ StartOf(text, b) \in Starts(text)
          /\ Ends(text, StartOf(text, b)) # {}
          /\ End(text, StartOf(text, b)) = EndOf(text, b)
      BY BoundsInOrder DEF n
    <3> QED
      BY <3>1, BlockTextIs
  <2>2. segs[2 * b] = Block(t, t)
    BY <1>2
  <2> HIDE DEF t
  <2> QED
    BY <2>1, <2>2 DEF Block, Segment, Exact, ExactSegment
<1>5. ASSUME NEW m \in 1..(2 * n + 1)
      PROVE  /\ segs[m] \in ExactSegment
             /\ m % 2 = 1 => segs[m].kind = "prose"
             /\ m % 2 = 0 => segs[m].kind = "block"
  BY <1>1, <1>3, <1>4, Turns
<1>6. 2 * n + 1 \in Nat \ {0}
  BY <1>1
<1>7. segs \in Seq(ExactSegment) /\ Len(segs) = 2 * n + 1 /\ DOMAIN segs = 1..(2 * n + 1)
  BY <1>2, <1>5, <1>6, FunctionIsSeq
<1>8. IsProse(segs, 1) /\ IsProse(segs, Len(segs))
  <2>1. 1 \in 1..(2 * n + 1) /\ 2 * n + 1 \in 1..(2 * n + 1) /\ 1 = 2 * 0 + 1 /\ 0 \in 0..n
        /\ n \in 0..n
    BY <1>1
  <2>2. segs[1].kind = "prose" /\ segs[2 * n + 1].kind = "prose"
    BY <1>3, <2>1
  <2> QED
    BY <1>7, <2>1, <2>2 DEF IsProse
<1>9. ASSUME NEW i \in 2..Len(segs)
      PROVE  ~(IsBlock(segs, i - 1) /\ IsBlock(segs, i))
  <2>1. i \in 1..(2 * n + 1) /\ i - 1 \in 1..(2 * n + 1)
    BY <1>1, <1>7
  <2>2. i % 2 = 1 \/ (i - 1) % 2 = 1
    BY <2>1
  <2>3. segs[i].kind = "prose" \/ segs[i - 1].kind = "prose"
    BY <1>5, <2>1, <2>2
  <2> QED
    BY <2>3 DEF IsBlock
<1>10. ASSUME Starts(text) # {}
       PROVE  IsBlock(segs, 2)
  <2>1. n >= 1
    BY <1>0, <1>10
  <2>2. 1 \in 1..n /\ 2 = 2 * 1 /\ 2 \in 1..(2 * n + 1)
    BY <1>1, <2>1
  <2>3. segs[2].kind = "block"
    BY <1>4, <2>2
  <2> QED
    BY <1>7, <2>2, <2>3 DEF IsBlock
<1> QED
  BY <1>6, <1>7, <1>8, <1>9, <1>10 DEF PaddedSegs, segs

(* Parsing a text and writing it again gives the same text.                *)
LEMMA RoundTrip ==
  ASSUME NEW text \in Seq(Line), ~Panics(text)
  PROVE  Text(FromMarkdown(text)) = text
<1> DEFINE n == Cardinality(Starts(text))
           segs == FromMarkdown(text)
           s == [i \in DOMAIN segs |-> SegmentText(segs[i])]
           cut == [m \in 0..(2 * n + 1) |-> IF m % 2 = 1 THEN UpTo(text, m \div 2)
                                                          ELSE EndOf(text, m \div 2)]
<1>1. n \in Nat /\ Len(text) \in Nat
  BY StartsAre, LenProperties
<1>2. /\ segs = [m \in 1..(2 * n + 1) |-> segs[m]]
      /\ \A b \in 0..n : segs[2 * b + 1]
                           = Prose(SubSeq(text, EndOf(text, b) + 1, UpTo(text, b)))
      /\ \A b \in 1..n : segs[2 * b]
                           = Block(SubSeq(text, StartOf(text, b), EndOf(text, b)),
                                   SubSeq(text, StartOf(text, b), EndOf(text, b)))
  BY Parsed
<1>3. /\ \A b \in 0..n : /\ EndOf(text, b) \in 0..Len(text) /\ UpTo(text, b) \in 0..Len(text)
                         /\ EndOf(text, b) <= UpTo(text, b)
      /\ \A b \in 1..n : /\ StartOf(text, b) \in 1..Len(text)
                         /\ StartOf(text, b) < EndOf(text, b)
                         /\ UpTo(text, b - 1) = StartOf(text, b) - 1
  BY BoundsInOrder
<1>4. UpTo(text, n) = Len(text) /\ EndOf(text, 0) = 0
  BY DEF UpTo, EndOf
<1> HIDE DEF n, segs
<1>5. DOMAIN segs = 1..(2 * n + 1)
  BY <1>2
<1>6. ASSUME NEW b \in 0..n
      PROVE  cut[2 * b] = EndOf(text, b) /\ cut[2 * b + 1] = UpTo(text, b)
  <2>1. /\ 2 * b \in 0..(2 * n + 1) /\ 2 * b + 1 \in 0..(2 * n + 1)
        /\ (2 * b) % 2 # 1 /\ (2 * b) \div 2 = b
        /\ (2 * b + 1) % 2 = 1 /\ (2 * b + 1) \div 2 = b
    BY <1>1
  <2> QED
    BY <2>1
<1>7. cut \in [0..(2 * n + 1) -> 0..Len(text)]
  <2> SUFFICES ASSUME NEW m \in 0..(2 * n + 1)
               PROVE  cut[m] \in 0..Len(text)
    OBVIOUS
  <2>1. CASE m = 0
    <3>1. 0 \in 0..n /\ 2 * 0 = 0
      BY <1>1
    <3>2. cut[2 * 0] = EndOf(text, 0) /\ EndOf(text, 0) \in 0..Len(text)
      BY <1>3, <1>6, <3>1
    <3> HIDE DEF cut
    <3> QED
      BY <2>1, <3>1, <3>2
  <2>2. CASE m # 0
    <3>1. m \in 1..(2 * n + 1)
      BY <1>1, <2>2
    <3>2. (\E b \in 0..n : m = 2 * b + 1) \/ (\E b \in 1..n : m = 2 * b)
      BY <1>1, <3>1, Turns
    <3>3. \A b \in 1..n : b \in 0..n
      BY <1>1
    <3> HIDE DEF cut
    <3>4. ASSUME NEW b \in 0..n, m = 2 * b + 1
          PROVE  cut[m] \in 0..Len(text)
      BY <1>3, <1>6, <3>4
    <3>5. ASSUME NEW b \in 0..n, m = 2 * b
          PROVE  cut[m] \in 0..Len(text)
      BY <1>3, <1>6, <3>5
    <3> QED
      BY <3>2, <3>3, <3>4, <3>5
  <2> QED
    BY <2>1, <2>2
<1> HIDE DEF cut
<1>8. ASSUME NEW b \in 0..n
      PROVE  /\ cut[(2 * b + 1) - 1] <= cut[2 * b + 1]
             /\ s[2 * b + 1] = SubSeq(text, cut[(2 * b + 1) - 1] + 1, cut[2 * b + 1])
  <2>1. (2 * b + 1) - 1 = 2 * b /\ 2 * b + 1 \in DOMAIN segs
    BY <1>1, <1>5
  <2>2. s[2 * b + 1] = SubSeq(text, EndOf(text, b) + 1, UpTo(text, b))
    <3> DEFINE k == 2 * b + 1
               x == SubSeq(text, EndOf(text, b) + 1, UpTo(text, b))
    <3>1. k \in DOMAIN segs /\ segs[k] = Prose(x)
      BY <1>2, <2>1
    <3> HIDE DEF k, x
    <3>2. s[k] = x
      BY <3>1 DEF SegmentText, Prose
    <3> QED
      BY <3>2 DEF k, x
  <2> HIDE DEF s
  <2> QED
    BY <1>3, <1>6, <2>1, <2>2
<1>9. ASSUME NEW b \in 1..n
      PROVE  /\ cut[2 * b - 1] <= cut[2 * b]
             /\ s[2 * b] = SubSeq(text, cut[2 * b - 1] + 1, cut[2 * b])
  <2>1. /\ 2 * b - 1 = 2 * (b - 1) + 1 /\ b - 1 \in 0..n /\ b \in 0..n
        /\ 2 * b \in DOMAIN segs
    BY <1>1, <1>5
  <2>2. s[2 * b] = SubSeq(text, StartOf(text, b), EndOf(text, b))
    <3> DEFINE k == 2 * b
               x == SubSeq(text, StartOf(text, b), EndOf(text, b))
    <3>1. k \in DOMAIN segs /\ segs[k] = Block(x, x)
      BY <1>2, <2>1
    <3> HIDE DEF k, x
    <3>2. s[k] = x
      BY <3>1 DEF SegmentText, Block
    <3> QED
      BY <3>2 DEF k, x
  <2>3. /\ StartOf(text, b) \in Int /\ EndOf(text, b) \in Int
        /\ StartOf(text, b) < EndOf(text, b)
        /\ UpTo(text, b - 1) = StartOf(text, b) - 1
    BY <1>1, <1>3, <2>1
  <2>4. cut[2 * b - 1] = StartOf(text, b) - 1 /\ cut[2 * b] = EndOf(text, b)
    BY <1>6, <2>1, <2>3
  <2>5. cut[2 * b - 1] + 1 = StartOf(text, b) /\ cut[2 * b - 1] <= cut[2 * b]
    BY <2>3, <2>4
  <2> HIDE DEF s
  <2> QED
    BY <2>2, <2>4, <2>5
<1>10. ASSUME NEW m \in 1..(2 * n + 1)
       PROVE  /\ cut[m - 1] <= cut[m]
              /\ s[m] = SubSeq(text, cut[m - 1] + 1, cut[m])
  <2> HIDE DEF s
  <2>1. CASE \E b \in 0..n : m = 2 * b + 1
    BY <1>8, <2>1
  <2>2. CASE \E b \in 1..n : m = 2 * b
    BY <1>9, <2>2
  <2> QED
    BY <1>1, <2>1, <2>2, Turns
<1>11. s \in Seq(Seq(Line)) /\ Len(s) = 2 * n + 1
  <2>1. ASSUME NEW m \in 1..(2 * n + 1)
        PROVE  s[m] \in Seq(Line)
    <3> HIDE DEF s
    <3>1. cut[m] \in 0..Len(text) /\ cut[m - 1] \in 0..Len(text)
      <4>1. m \in 0..(2 * n + 1) /\ m - 1 \in 0..(2 * n + 1)
        BY <1>1
      <4> QED
        BY <1>7, <4>1
    <3> DEFINE a == cut[m - 1]
               c == cut[m]
    <3>2. a \in 0..Len(text) /\ c \in 0..Len(text) /\ s[m] = SubSeq(text, a + 1, c)
      BY <1>10, <3>1
    <3> HIDE DEF a, c
    <3>3. a + 1 \in Int /\ c \in Int /\ \A i \in (a + 1)..c : i \in 1..Len(text)
      BY <1>1, <3>2
    <3>4. \A i \in (a + 1)..c : text[i] \in Line
      BY <3>3, ElementOfSeq
    <3> QED
      BY <3>2, <3>3, <3>4, SubSeqProperties
  <2>2. s = [m \in 1..(2 * n + 1) |-> s[m]] /\ 2 * n + 1 \in Nat
    BY <1>1, <1>5
  <2> HIDE DEF s
  <2> QED
    BY <2>1, <2>2, FunctionIsSeq
<1>12. cut[0] = 0 /\ cut[Len(s)] = Len(text)
  <2>1. 0 \in 0..n /\ n \in 0..n /\ 2 * 0 = 0
    BY <1>1
  <2>2. cut[2 * 0] = 0 /\ cut[2 * n + 1] = Len(text)
    BY <1>4, <1>6, <2>1
  <2> HIDE DEF s
  <2> QED
    BY <1>11, <2>1, <2>2
<1>13. FlattenSeq(s) = text
  <2> HIDE DEF s
  <2> QED
    BY <1>7, <1>10, <1>11, <1>12, CutsFlatten
<1> QED
  BY <1>13 DEF Text, segs

-----------------------------------------------------------------------------
(* Lists of segments.  The blocks are exact in a note that has just been   *)
(* read, follow their raws until a form is used, and are any blocks after  *)
(* that; what is said of the operations holds for a set A of segments of   *)
(* any of these sorts.                                                     *)

Sort(A) == A \subseteq Segment /\ ExactSegment \subseteq A

Suitable(A) == Sort(A) /\ \A b \in Segment : ReparseFromRaw(b) \in A

LEMMA ProseSuits ==
  ASSUME NEW A, Sort(A), NEW s \in Segment, s.kind = "prose"
  PROVE  s \in A
BY DEF Sort, ExactSegment, Exact

LEMMA ProseIs ==
  ASSUME NEW text \in Seq(Line)
  PROVE  Prose(text) \in Segment /\ Prose(text).kind = "prose" /\ Prose(text).raw = text
<1>1. <<>> \in Seq(Line)
  BY EmptySeq
<1> QED
  BY <1>1 DEF Prose, Segment

(* No two blocks in a row.                                                 *)
Alternates(segs) ==
  \A i \in 2..Len(segs) : ~(segs[i - 1].kind = "block" /\ segs[i].kind = "block")

LEMMA AlternatesConcat ==
  ASSUME NEW A, NEW x \in Seq(A), NEW y \in Seq(A), Alternates(x), Alternates(y),
         x = <<>> \/ y = <<>> \/ x[Len(x)].kind # "block" \/ y[1].kind # "block"
  PROVE  Alternates(x \o y)
<1>1. /\ x \o y \in Seq(A) /\ Len(x \o y) = Len(x) + Len(y)
      /\ Len(x) \in Nat /\ Len(y) \in Nat
      /\ \A i \in 1..(Len(x) + Len(y)) :
            (x \o y)[i] = IF i <= Len(x) THEN x[i] ELSE y[i - Len(x)]
  BY ConcatProperties, LenProperties
<1> SUFFICES ASSUME NEW i \in 2..(Len(x) + Len(y)),
                    (x \o y)[i - 1].kind = "block", (x \o y)[i].kind = "block"
             PROVE  FALSE
  BY <1>1 DEF Alternates
<1> DEFINE c == x \o y
<1>2. /\ \A k \in 1..(Len(x) + Len(y)) : c[k] = IF k <= Len(x) THEN x[k] ELSE y[k - Len(x)]
      /\ c[i - 1].kind = "block" /\ c[i].kind = "block"
  BY <1>1
<1> HIDE DEF c
<1>3. i \in 1..(Len(x) + Len(y)) /\ i - 1 \in 1..(Len(x) + Len(y))
  BY <1>1
<1>4. CASE i <= Len(x)
  <2>1. i - 1 <= Len(x) /\ i \in 2..Len(x)
    BY <1>1, <1>4
  <2>2. c[i] = x[i] /\ c[i - 1] = x[i - 1]
    BY <1>2, <1>3, <1>4, <2>1
  <2> QED
    BY <1>2, <2>1, <2>2 DEF Alternates
<1>5. CASE i = Len(x) + 1
  <2>1. i - 1 = Len(x) /\ ~(i <= Len(x)) /\ i - Len(x) = 1 /\ Len(x) <= Len(x) /\ Len(y) # 0
    BY <1>1, <1>5
  <2>2. c[i] = y[1] /\ c[i - 1] = x[Len(x)]
    BY <1>2, <1>3, <2>1
  <2>3. x # <<>> /\ y # <<>>
    <3>1. Len(x) # 0
      BY <1>1, <1>5
    <3> QED
      BY <2>1, <3>1, EmptySeq
  <2> QED
    BY <1>2, <2>2, <2>3
<1>6. CASE i > Len(x) + 1
  <2>1. /\ ~(i <= Len(x)) /\ ~(i - 1 <= Len(x)) /\ i - Len(x) \in 2..Len(y)
        /\ (i - 1) - Len(x) = (i - Len(x)) - 1
    BY <1>1, <1>6
  <2>2. c[i] = y[i - Len(x)] /\ c[i - 1] = y[(i - Len(x)) - 1]
    BY <1>2, <1>3, <2>1
  <2> QED
    BY <1>2, <2>1, <2>2 DEF Alternates
<1> QED
  BY <1>1, <1>4, <1>5, <1>6

LEMMA PaddedIs ==
  ASSUME NEW segs \in Seq(Segment)
  PROVE  PaddedSegs(segs) <=> /\ segs # <<>>
                              /\ segs[1].kind = "prose" /\ segs[Len(segs)].kind = "prose"
                              /\ Alternates(segs)
<1>1. Len(segs) \in Nat /\ DOMAIN segs = 1..Len(segs)
  BY LenProperties
<1>2. segs # <<>> => 1 \in DOMAIN segs /\ Len(segs) \in DOMAIN segs
  BY <1>1, EmptySeq
<1>3. 1 \in DOMAIN segs => segs # <<>>
  BY <1>1, EmptySeq
<1>4. \A i \in 2..Len(segs) : i \in DOMAIN segs /\ i - 1 \in DOMAIN segs
  BY <1>1
<1>5. Alternates(segs) <=> \A i \in 2..Len(segs) : ~(IsBlock(segs, i - 1) /\ IsBlock(segs, i))
  BY <1>4 DEF Alternates, IsBlock
<1> QED
  BY <1>2, <1>3, <1>5 DEF PaddedSegs, IsProse

(* Short lists.                                                            *)
LEMMA OneIs ==
  ASSUME NEW A, NEW a \in A
  PROVE  /\ <<a>> \in Seq(A) /\ <<a>> # <<>> /\ Len(<<a>>) = 1 /\ <<a>>[1] = a
         /\ Alternates(<<a>>)
BY DEF Alternates

LEMMA TwoAre ==
  ASSUME NEW A, NEW a \in A, NEW b \in A, a.kind # "block"
  PROVE  /\ <<a, b>> \in Seq(A) /\ <<a, b>> # <<>> /\ Len(<<a, b>>) = 2
         /\ <<a, b>>[1] = a /\ <<a, b>>[2] = b /\ Alternates(<<a, b>>)
BY DEF Alternates

(* A part of a list.                                                       *)
LEMMA SubSeqIs ==
  ASSUME NEW A, NEW s \in Seq(A), NEW i \in Nat \ {0}, NEW j \in Nat, j <= Len(s)
  PROVE  /\ SubSeq(s, i, j) \in Seq(A)
         /\ Len(SubSeq(s, i, j)) = IF i <= j THEN j - i + 1 ELSE 0
         /\ \A k \in 1..(j - i + 1) : SubSeq(s, i, j)[k] = s[i + k - 1]
<1>1. \A k \in i..j : k \in 1..Len(s)
  BY LenProperties
<1>2. \A k \in i..j : s[k] \in A
  BY <1>1, ElementOfSeq
<1> QED
  BY <1>2, SubSeqProperties

LEMMA ConcatEnds ==
  ASSUME NEW A, NEW x \in Seq(A), NEW y \in Seq(A), y # <<>>
  PROVE  /\ x \o y # <<>>
         /\ (x \o y)[Len(x \o y)] = y[Len(y)]
         /\ (x \o y)[1] = IF x = <<>> THEN y[1] ELSE x[1]
<1> DEFINE c == x \o y
<1>1. /\ c \in Seq(A) /\ Len(c) = Len(x) + Len(y)
      /\ Len(x) \in Nat /\ Len(y) \in Nat /\ Len(y) # 0
      /\ x = <<>> <=> Len(x) = 0
      /\ \A i \in 1..(Len(x) + Len(y)) : c[i] = IF i <= Len(x) THEN x[i] ELSE y[i - Len(x)]
  BY ConcatProperties, LenProperties, EmptySeq
<1> HIDE DEF c
<1>2. c # <<>>
  BY <1>1, EmptySeq
<1>3. c[Len(c)] = y[Len(y)]
  <2>1. /\ Len(c) \in 1..(Len(x) + Len(y)) /\ ~(Len(c) <= Len(x)) /\ Len(c) - Len(x) = Len(y)
    BY <1>1
  <2> QED
    BY <1>1, <2>1
<1>4. c[1] = IF x = <<>> THEN y[1] ELSE x[1]
  <2>1. 1 \in 1..(Len(x) + Len(y)) /\ 1 - 0 = 1
    BY <1>1
  <2> QED
    BY <1>1, <2>1
<1> QED
  BY <1>2, <1>3, <1>4 DEF c

(* A note that is padded has prose before and after each block, and all    *)
(* that it had, none of it nearer to the beginning.                        *)
LEMMA PadIs ==
  ASSUME NEW A, Sort(A), NEW segs \in Seq(A), segs # <<>>
  PROVE  /\ PadWithProse(segs) \in Seq(A)
         /\ PaddedSegs(PadWithProse(segs))
         /\ Len(PadWithProse(segs)) >= Len(segs)
         /\ \A m \in 1..Len(segs) :
              \E k \in m..Len(PadWithProse(segs)) : PadWithProse(segs)[k] = segs[m]
<1> DEFINE n == Len(segs)
           empty == Prose(<<>>)
           piece(i) == IF IsBlock(segs, i) /\ ~IsProse(segs, i - 1)
                         THEN <<empty, segs[i]>> ELSE <<segs[i]>>
           p == [i \in DOMAIN segs |-> piece(i)]
           tail == IF IsBlock(segs, n) THEN <<empty>> ELSE <<>>
<1>1. /\ n \in Nat \ {0} /\ DOMAIN segs = 1..n
      /\ \A i \in 1..n : segs[i] \in A /\ segs[i] \in Segment /\ segs[i].kind \in {"prose", "block"}
  <2>1. n \in Nat \ {0} /\ DOMAIN segs = 1..n
    BY LenProperties, EmptySeq
  <2>2. \A i \in 1..n : segs[i] \in A
    BY ElementOfSeq
  <2> QED
    BY <2>1, <2>2 DEF Sort, Segment
<1>2. empty \in A /\ empty.kind = "prose"
  <2>1. <<>> \in Seq(Line)
    BY EmptySeq
  <2> QED
    BY <2>1, ProseIs, ProseSuits
<1> HIDE DEF empty
<1>3. ASSUME NEW i \in 1..n
      PROVE  /\ piece(i) \in Seq(A) /\ piece(i) # <<>> /\ Alternates(piece(i))
             /\ piece(i)[Len(piece(i))] = segs[i]
             /\ piece(i)[1].kind = "block" => IsProse(segs, i - 1)
  <2>1. CASE IsBlock(segs, i) /\ ~IsProse(segs, i - 1)
    BY <1>1, <1>2, <2>1, TwoAre
  <2>2. CASE ~(IsBlock(segs, i) /\ ~IsProse(segs, i - 1))
    <3>1. piece(i) = <<segs[i]>> /\ segs[i] \in A
      BY <1>1, <2>2
    <3>2. segs[i].kind = "block" => IsProse(segs, i - 1)
      BY <1>1, <2>2 DEF IsBlock
    <3> HIDE DEF piece
    <3> QED
      BY <3>1, <3>2, OneIs
  <2> QED
    BY <2>1, <2>2
<1> HIDE DEF piece
<1>4. /\ p \in Seq(Seq(A)) /\ Len(p) = n /\ \A i \in 1..n : p[i] = piece(i)
  <2>1. p = [i \in 1..n |-> p[i]] /\ \A i \in 1..n : p[i] = piece(i)
    BY <1>1
  <2>2. \A i \in 1..n : p[i] \in Seq(A)
    BY <1>3, <2>1
  <2> HIDE DEF p
  <2> QED
    BY <1>1, <2>1, <2>2, FunctionIsSeq
<1>5. FlattenSeq(p) \o tail = PadWithProse(segs)
  BY DEF PadWithProse, empty, piece
<1> HIDE DEF p
<1>6. PICK f : Concatenates(f, p, A)
  BY <1>4, ConcatenatesExists
<1> DEFINE Good(k) == /\ f[k] # <<>> /\ f[k][1].kind = "prose"
                      /\ f[k][Len(f[k])] = segs[k] /\ Alternates(f[k])
           S == {m \in Nat : m + 1 <= n => Good(m + 1)}
<1>7. ASSUME NEW k \in 1..n
      PROVE  /\ f[k - 1] \in Seq(A) /\ f[k] \in Seq(A) /\ piece(k) \in Seq(A)
             /\ f[k] = f[k - 1] \o piece(k)
  <2>1. k \in 1..Len(p) /\ k \in 0..Len(p) /\ k - 1 \in 0..Len(p)
    BY <1>1, <1>4
  <2>2. f[k - 1] \in Seq(A) /\ f[k] \in Seq(A) /\ f[k] = f[k - 1] \o p[k]
    BY <1>6, <2>1 DEF Concatenates
  <2>3. p[k] = piece(k) /\ piece(k) \in Seq(A)
    BY <1>3, <1>4
  <2> QED
    BY <2>2, <2>3
<1>8. 0 \in S
  <2>1. 1 \in 1..n /\ 1 - 1 = 0 /\ ~(0 \in 1..n)
    BY <1>1
  <2>2. f[0] = <<>>
    BY <1>6 DEF Concatenates
  <2>3. f[1] = piece(1)
    <3>1. f[1] = f[0] \o piece(1) /\ piece(1) \in Seq(A)
      BY <1>7, <2>1
    <3>2. <<>> \o piece(1) = piece(1)
      BY <3>1, ConcatEmptySeq
    <3> QED
      BY <2>2, <3>1, <3>2
  <2>4. ~IsProse(segs, 0)
    BY <1>1 DEF IsProse
  <2>5. piece(1)[1].kind # "block" /\ piece(1)[1] \in A
    <3>1. piece(1) \in Seq(A) /\ piece(1) # <<>>
      BY <1>3, <2>1
    <3>2. 1 \in 1..Len(piece(1))
      BY <3>1, EmptySeq, LenProperties
    <3> QED
      BY <1>3, <2>1, <2>4, <3>1, <3>2, ElementOfSeq
  <2>6. piece(1)[1].kind = "prose"
    BY <2>5 DEF Sort, Segment
  <2>7. Good(1)
    BY <1>3, <2>1, <2>3, <2>6
  <2> HIDE DEF Good
  <2> QED
    BY <2>7
<1>9. ASSUME NEW m \in Nat, m \in S
      PROVE  m + 1 \in S
  <2> SUFFICES ASSUME (m + 1) + 1 <= n
               PROVE  Good((m + 1) + 1)
    <3> HIDE DEF Good
    <3> QED
      OBVIOUS
  <2> DEFINE k == (m + 1) + 1
  <2>1. k \in 1..n /\ k - 1 = m + 1 /\ m + 1 \in 1..n /\ m + 1 <= n
    BY <1>1
  <2>2. Good(m + 1)
    BY <1>9, <2>1
  <2> HIDE DEF k
  <2>3. f[m + 1] \in Seq(A) /\ piece(k) \in Seq(A) /\ f[k] = f[m + 1] \o piece(k)
    BY <1>7, <2>1
  <2>4. /\ piece(k) # <<>> /\ Alternates(piece(k))
        /\ piece(k)[Len(piece(k))] = segs[k]
        /\ piece(k)[1].kind = "block" => IsProse(segs, m + 1)
    BY <1>3, <2>1
  <2>5. f[m + 1][Len(f[m + 1])].kind # "block" \/ piece(k)[1].kind # "block"
    BY <2>2, <2>4 DEF IsProse
  <2>6. Alternates(f[k])
    BY <2>2, <2>3, <2>4, <2>5, AlternatesConcat
  <2>7. f[k] # <<>> /\ f[k][Len(f[k])] = segs[k] /\ f[k][1].kind = "prose"
    BY <2>2, <2>3, <2>4, ConcatEnds
  <2>8. Good(k)
    BY <2>6, <2>7
  <2> HIDE DEF Good
  <2> QED
    BY <2>8 DEF k
<1>10. Good(n)
  <2>1. Nat \subseteq S
    <3> HIDE DEF S
    <3> QED
      BY <1>8, <1>9, SetInduction
  <2>2. n - 1 \in Nat /\ (n - 1) + 1 = n /\ n <= n
    BY <1>1
  <2> HIDE DEF Good
  <2> QED
    BY <2>1, <2>2
<1>11. f[n] \in Seq(A) /\ FlattenSeq(p) = f[n]
  <2>1. n \in 1..n
    BY <1>1
  <2>2. f[n] \in Seq(A)
    BY <1>7, <2>1
  <2>3. FlattenSeq(p) = f[Len(p)]
    BY <1>4, <1>6, FlattenConcatenates
  <2> QED
    BY <1>4, <2>2, <2>3
<1>12. /\ PadWithProse(segs) \in Seq(A) /\ PaddedSegs(PadWithProse(segs))
       /\ Len(PadWithProse(segs)) >= Len(f[n])
       /\ \A i \in 1..Len(f[n]) : PadWithProse(segs)[i] = f[n][i]
  <2>0. Seq(A) \subseteq Seq(Segment) /\ Len(f[n]) \in Nat
    BY <1>11, LenProperties, SeqMonotonic DEF Sort
  <2>1. CASE IsBlock(segs, n)
    <3>1. PadWithProse(segs) = f[n] \o <<empty>>
      BY <1>5, <1>11, <2>1
    <3>2. /\ <<empty>> \in Seq(A) /\ <<empty>> # <<>> /\ Alternates(<<empty>>)
          /\ <<empty>>[1] = empty /\ Len(<<empty>>) = 1
      BY <1>2, OneIs
    <3> DEFINE x == f[n]
               y == <<empty>>
    <3>3. x \in Seq(A) /\ y \in Seq(A) /\ x # <<>> /\ y # <<>> /\ x[1].kind = "prose"
          /\ y[1].kind = "prose" /\ Len(y) = 1 /\ Alternates(x) /\ Alternates(y)
      BY <1>2, <1>10, <1>11, <3>2
    <3>4. PadWithProse(segs) = x \o y
      BY <3>1
    <3> HIDE DEF x, y
    <3>5. /\ x \o y # <<>> /\ (x \o y)[Len(x \o y)].kind = "prose" /\ (x \o y)[1].kind = "prose"
          /\ Alternates(x \o y)
      BY <3>3, AlternatesConcat, ConcatEnds
    <3>6. /\ x \o y \in Seq(A) /\ Len(x \o y) = Len(x) + 1
          /\ \A i \in 1..(Len(x) + 1) : (x \o y)[i] = IF i <= Len(x) THEN x[i] ELSE y[i - Len(x)]
      BY <3>3, ConcatProperties
    <3>7. PaddedSegs(x \o y)
      BY <2>0, <3>5, <3>6, PaddedIs
    <3> QED
      BY <2>0, <3>4, <3>6, <3>7 DEF x
  <2>2. CASE ~IsBlock(segs, n)
    <3>1. PadWithProse(segs) = f[n]
      BY <1>5, <1>11, <2>2, ConcatEmptySeq
    <3>2. segs[n].kind = "prose"
      BY <1>1, <2>2 DEF IsBlock
    <3>3. PaddedSegs(f[n])
      BY <1>10, <1>11, <2>0, <3>2, PaddedIs
    <3> QED
      BY <1>11, <2>0, <3>1, <3>3
  <2> QED
    BY <2>1, <2>2
<1>13. ASSUME NEW m \in 1..n
       PROVE  /\ Len(f[m]) \in m..Len(f[n]) /\ f[n][Len(f[m])] = segs[m]
  <2>1. p[m] # <<>> /\ p[m][Len(p[m])] = segs[m]
    BY <1>3, <1>4
  <2>2. Len(f[m]) \in 1..Len(f[n]) /\ f[n][Len(f[m])] = segs[m]
    BY <1>4, <1>6, <1>11, <2>1, LastOfPiece
  <2>3. \A k \in 1..Len(p) : p[k] # <<>>
    BY <1>3, <1>4
  <2>4. Len(f[m]) >= m
    BY <1>1, <1>4, <1>6, <2>3, PiecesNotEmpty
  <2>5. Len(f[n]) \in Nat
    BY <1>11, LenProperties
  <2> QED
    BY <2>2, <2>4, <2>5
<1>14. Len(f[n]) >= n /\ Len(f[n]) \in Nat /\ Len(PadWithProse(segs)) \in Nat
  BY <1>1, <1>11, <1>12, <1>13, LenProperties
<1>15. ASSUME NEW m \in 1..n
       PROVE  \E k \in m..Len(PadWithProse(segs)) : PadWithProse(segs)[k] = segs[m]
  <2>1. /\ Len(f[m]) \in m..Len(PadWithProse(segs)) /\ Len(f[m]) \in 1..Len(f[n])
        /\ f[n][Len(f[m])] = segs[m]
    BY <1>12, <1>13, <1>14
  <2> QED
    BY <1>12, <2>1
<1> QED
  BY <1>12, <1>14, <1>15

LEMMA WithoutEmptyProseIs ==
  ASSUME NEW A, NEW segs \in Seq(A)
  PROVE  /\ WithoutEmptyProse(segs) \in Seq(A)
         /\ \A i \in 1..Len(segs) :
              IsBlock(segs, i) => \E k \in 1..Len(WithoutEmptyProse(segs)) :
                                     WithoutEmptyProse(segs)[k] = segs[i]
<1> DEFINE n == Len(segs)
           piece(i) == IF IsProse(segs, i) /\ segs[i].raw = <<>> THEN <<>> ELSE <<segs[i]>>
           p == [i \in DOMAIN segs |-> piece(i)]
<1>1. n \in Nat /\ DOMAIN segs = 1..n /\ \A i \in 1..n : segs[i] \in A
  BY LenProperties, ElementOfSeq
<1>2. \A i \in 1..n : piece(i) \in Seq(A)
  <2>1. <<>> \in Seq(A) /\ \A i \in 1..n : <<segs[i]>> \in Seq(A)
    BY <1>1, EmptySeq, OneIs
  <2> QED
    BY <2>1
<1>3. \A i \in 1..n : IsBlock(segs, i) => piece(i) = <<segs[i]>>
  BY DEF IsBlock, IsProse
<1> HIDE DEF piece
<1>4. /\ p \in Seq(Seq(A)) /\ Len(p) = n /\ \A i \in 1..n : p[i] = piece(i)
  <2>1. p = [i \in 1..n |-> p[i]] /\ \A i \in 1..n : p[i] = piece(i)
    BY <1>1
  <2>2. \A i \in 1..n : p[i] \in Seq(A)
    BY <1>2, <2>1
  <2> HIDE DEF p
  <2> QED
    BY <1>1, <2>1, <2>2, FunctionIsSeq
<1>5. FlattenSeq(p) = WithoutEmptyProse(segs)
  BY DEF WithoutEmptyProse, piece
<1> HIDE DEF p
<1>6. PICK f : Concatenates(f, p, A)
  BY <1>4, ConcatenatesExists
<1>7. FlattenSeq(p) \in Seq(A)
  BY <1>4, FlattenType
<1>8. ASSUME NEW i \in 1..n, IsBlock(segs, i)
      PROVE  \E k \in 1..Len(FlattenSeq(p)) : FlattenSeq(p)[k] = segs[i]
  <2>1. p[i] = <<segs[i]>>
    BY <1>3, <1>4, <1>8
  <2>2. p[i] # <<>> /\ p[i][Len(p[i])] = segs[i] /\ i \in 1..Len(p)
    BY <1>1, <1>4, <2>1, OneIs
  <2>3. Len(f[i]) \in 1..Len(FlattenSeq(p)) /\ FlattenSeq(p)[Len(f[i])] = p[i][Len(p[i])]
    BY <1>4, <1>6, <2>2, LastOfPiece
  <2> QED
    BY <2>2, <2>3
<1> QED
  BY <1>5, <1>7, <1>8

LEMMA TextsAre ==
  ASSUME NEW segs \in Seq(Segment)
  PROVE  /\ [i \in DOMAIN segs |-> SegmentText(segs[i])] \in Seq(Seq(Line))
         /\ Len([i \in DOMAIN segs |-> SegmentText(segs[i])]) = Len(segs)
         /\ Text(segs) \in Seq(Line)
<1> DEFINE s == [i \in DOMAIN segs |-> SegmentText(segs[i])]
<1>1. Len(segs) \in Nat /\ DOMAIN segs = 1..Len(segs)
  BY LenProperties
<1>2. \A i \in 1..Len(segs) : SegmentText(segs[i]) \in Seq(Line)
  <2>1. \A i \in 1..Len(segs) : segs[i] \in Segment
    BY ElementOfSeq
  <2> QED
    BY <2>1 DEF Segment, SegmentText
<1>3. s = [i \in 1..Len(segs) |-> s[i]] /\ \A i \in 1..Len(segs) : s[i] \in Seq(Line)
  BY <1>1, <1>2
<1> HIDE DEF s
<1>4. s \in Seq(Seq(Line)) /\ Len(s) = Len(segs)
  BY <1>1, <1>3, FunctionIsSeq
<1>5. FlattenSeq(s) \in Seq(Line)
  BY <1>4, FlattenType
<1> QED
  BY <1>4, <1>5 DEF s, Text

-----------------------------------------------------------------------------
(* Documents.                                                              *)

CursorSet == [kind : {"prose", "block", "result"}, seg : Nat]

(* A document of segments in A.  A note begins with prose, even when an    *)
(* exit from a swap has put a block where it does not belong, and a cursor *)
(* that is not one for prose is on a block.                                *)
Docs(A) ==
  {d \in [segs : Seq(A), cursor : CursorSet] :
     /\ d.cursor.seg \in DOMAIN d.segs
     /\ IsProse(d.segs, 1)
     /\ d.cursor.kind # "prose" => IsBlock(d.segs, d.cursor.seg)}

LEMMA DocIs ==
  ASSUME NEW A, NEW d \in Docs(A)
  PROVE  /\ d.segs \in Seq(A) /\ DOMAIN d.segs = 1..Len(d.segs) /\ Len(d.segs) \in Nat \ {0}
         /\ d.cursor.seg \in 1..Len(d.segs) /\ d.cursor.seg \in Nat
         /\ d.cursor.kind \in {"prose", "block", "result"}
         /\ d.cursor.kind # "prose" => d.segs[d.cursor.seg].kind = "block" /\ d.cursor.seg # 1
         /\ d.segs[1].kind = "prose" /\ 1 \in 1..Len(d.segs)
         /\ \A i \in 1..Len(d.segs) : d.segs[i] \in A
         /\ d = [segs |-> d.segs, cursor |-> d.cursor]
         /\ d.cursor = [kind |-> d.cursor.kind, seg |-> d.cursor.seg]
<1>1. d.segs \in Seq(A) /\ d.cursor \in CursorSet /\ d = [segs |-> d.segs, cursor |-> d.cursor]
  BY DEF Docs
<1>2. /\ d.cursor.seg \in DOMAIN d.segs /\ IsProse(d.segs, 1)
      /\ d.cursor.kind # "prose" => IsBlock(d.segs, d.cursor.seg)
  BY DEF Docs
<1>3. DOMAIN d.segs = 1..Len(d.segs) /\ Len(d.segs) \in Nat
  BY <1>1, LenProperties
<1>4. \A i \in 1..Len(d.segs) : d.segs[i] \in A
  BY <1>1, ElementOfSeq
<1>5. d.segs[1].kind = "prose" /\ 1 \in 1..Len(d.segs) /\ Len(d.segs) # 0
  BY <1>2, <1>3 DEF IsProse
<1>6. d.cursor.kind # "prose" => d.segs[d.cursor.seg].kind = "block" /\ d.cursor.seg # 1
  BY <1>2, <1>5 DEF IsBlock
<1>7. /\ d.cursor.kind \in {"prose", "block", "result"} /\ d.cursor.seg \in Nat
      /\ d.cursor = [kind |-> d.cursor.kind, seg |-> d.cursor.seg]
  BY <1>1 DEF CursorSet
<1> QED
  BY <1>1, <1>2, <1>3, <1>4, <1>5, <1>6, <1>7

LEMMA MakeDoc ==
  ASSUME NEW A, NEW segs \in Seq(A), NEW k \in {"prose", "block", "result"},
         NEW i \in 1..Len(segs), segs[1].kind = "prose",
         k # "prose" => segs[i].kind = "block"
  PROVE  /\ Document(segs, [kind |-> k, seg |-> i]) \in Docs(A)
         /\ Document(segs, [kind |-> k, seg |-> i]).segs = segs
         /\ Document(segs, [kind |-> k, seg |-> i]).cursor = [kind |-> k, seg |-> i]
<1>1. /\ Len(segs) \in Nat /\ DOMAIN segs = 1..Len(segs)
  BY LenProperties
<1>2. i \in Nat /\ 1 \in 1..Len(segs)
  BY <1>1
<1>3. IsProse(segs, 1) /\ (k # "prose" => IsBlock(segs, i))
  BY <1>1, <1>2 DEF IsProse, IsBlock
<1> DEFINE c == [kind |-> k, seg |-> i]
<1>4. c \in CursorSet /\ c.seg = i /\ c.kind = k
  BY <1>2 DEF CursorSet
<1> HIDE DEF c
<1>5. Document(segs, c).segs = segs /\ Document(segs, c).cursor = c
  BY DEF Document
<1>6. Document(segs, c) \in [segs : Seq(A), cursor : CursorSet]
  BY <1>4 DEF Document
<1>7. Document(segs, c) \in Docs(A)
  BY <1>1, <1>3, <1>4, <1>5, <1>6 DEF Docs
<1> QED
  BY <1>5, <1>7 DEF c

LEMMA DocsGrow ==
  ASSUME NEW A, NEW B, A \subseteq B
  PROVE  Docs(A) \subseteq Docs(B)
<1> SUFFICES ASSUME NEW d \in Docs(A)
             PROVE  d \in Docs(B)
  OBVIOUS
<1>1. d.segs \in Seq(B)
  BY DocIs, SeqMonotonic
<1>2. d \in [segs : Seq(B), cursor : CursorSet]
  BY <1>1 DEF Docs
<1> QED
  BY <1>2 DEF Docs

(* One segment is replaced.                                                *)
LEMMA ReplaceIs ==
  ASSUME NEW A, NEW segs \in Seq(A), NEW i \in 1..Len(segs), NEW s \in A
  PROVE  /\ [segs EXCEPT ![i] = s] \in Seq(A)
         /\ Len([segs EXCEPT ![i] = s]) = Len(segs)
         /\ [segs EXCEPT ![i] = s][i] = s
         /\ \A k \in 1..Len(segs) : k # i => [segs EXCEPT ![i] = s][k] = segs[k]
<1> DEFINE t == [segs EXCEPT ![i] = s]
<1>1. Len(segs) \in Nat /\ DOMAIN segs = 1..Len(segs) /\ \A k \in 1..Len(segs) : segs[k] \in A
  BY LenProperties, ElementOfSeq
<1>2. t = [k \in 1..Len(segs) |-> t[k]]
  BY <1>1
<1>3. t[i] = s /\ \A k \in 1..Len(segs) : k # i => t[k] = segs[k]
  BY <1>1
<1>4. \A k \in 1..Len(segs) : t[k] \in A
  BY <1>1, <1>3
<1> HIDE DEF t
<1>5. t \in Seq(A) /\ Len(t) = Len(segs)
  BY <1>1, <1>2, <1>4, FunctionIsSeq
<1> QED
  BY <1>3, <1>5 DEF t

(* Taking blocks away leaves a note padded.                                *)
LEMMA FewerBlocks ==
  ASSUME NEW segs \in Seq(Segment), NEW t \in Seq(Segment), Len(t) = Len(segs),
         PaddedSegs(segs),
         \A k \in 1..Len(segs) : t[k].kind = "block" => segs[k].kind = "block"
  PROVE  PaddedSegs(t)
<1>1. /\ Len(segs) \in Nat
      /\ \A k \in 1..Len(segs) : segs[k].kind \in {"prose", "block"} /\ t[k].kind \in {"prose", "block"}
  <2>1. \A k \in 1..Len(segs) : segs[k] \in Segment /\ t[k] \in Segment
    BY ElementOfSeq
  <2> QED
    BY <2>1, LenProperties DEF Segment
<1>2. segs # <<>> /\ segs[1].kind = "prose" /\ segs[Len(segs)].kind = "prose" /\ Alternates(segs)
  BY PaddedIs
<1>3. t # <<>> /\ 1 \in 1..Len(segs) /\ Len(segs) \in 1..Len(segs)
  BY <1>1, <1>2, EmptySeq
<1>4. t[1].kind = "prose" /\ t[Len(t)].kind = "prose"
  BY <1>1, <1>2, <1>3
<1>5. \A k \in 2..Len(segs) : k \in 1..Len(segs) /\ k - 1 \in 1..Len(segs)
  BY <1>1
<1>6. Alternates(t)
  BY <1>2, <1>5 DEF Alternates
<1> QED
  BY <1>3, <1>4, <1>6, PaddedIs

(* The swap.                                                               *)
LEMMA EnteredIs ==
  ASSUME NEW A, Sort(A), NEW d \in Docs(A)
  PROVE  /\ Entered(d) \in Docs(A)
         /\ Len(Entered(d).segs) = Len(d.segs)
         /\ PaddedSegs(d.segs) => PaddedSegs(Entered(d).segs)
         /\ Entered(d).cursor.seg = d.cursor.seg
         /\ Entered(d).cursor.kind # "block"
         /\ d.cursor.kind # "block" => Entered(d) = d
         /\ d.cursor.kind = "block" =>
              /\ Entered(d).cursor = InProse(d.cursor.seg)
              /\ Entered(d).segs = [d.segs EXCEPT ![d.cursor.seg] = Prose(d.segs[d.cursor.seg].raw)]
              /\ Entered(d).segs[d.cursor.seg] = Prose(d.segs[d.cursor.seg].raw)
         /\ \A k \in 1..Len(d.segs) :
              ~(d.cursor.kind = "block" /\ k = d.cursor.seg) => Entered(d).segs[k] = d.segs[k]
<1>1. CASE d.cursor.kind # "block"
  BY <1>1 DEF Entered
<1>2. CASE d.cursor.kind = "block"
  <2> DEFINE i == d.cursor.seg
             p == Prose(d.segs[i].raw)
             t == [d.segs EXCEPT ![i] = p]
  <2>1. /\ d.segs \in Seq(A) /\ i \in 1..Len(d.segs) /\ i # 1 /\ d.segs[i] \in A
        /\ 1 \in 1..Len(d.segs) /\ d.segs[1].kind = "prose" /\ d.segs[i].kind = "block"
    BY <1>2, DocIs
  <2>2. p \in A /\ p.kind = "prose"
    <3>1. d.segs[i].raw \in Seq(Line)
      BY <2>1 DEF Sort, Segment
    <3> QED
      BY <3>1, ProseIs, ProseSuits
  <2>3. Entered(d) = Document(t, [kind |-> "prose", seg |-> i])
    BY <1>2 DEF Entered, InProse
  <2> HIDE DEF p
  <2>4. /\ t \in Seq(A) /\ Len(t) = Len(d.segs) /\ t[i] = p
        /\ \A k \in 1..Len(d.segs) : k # i => t[k] = d.segs[k]
    BY <2>1, <2>2, ReplaceIs
  <2> HIDE DEF t
  <2>5. t[1].kind = "prose" /\ i \in 1..Len(t)
    BY <2>1, <2>4
  <2>6. Entered(d) \in Docs(A) /\ Entered(d).segs = t /\ Entered(d).cursor = InProse(i)
    BY <2>3, <2>4, <2>5, MakeDoc DEF InProse
  <2>7. ASSUME PaddedSegs(d.segs)
        PROVE  PaddedSegs(t)
    <3>1. d.segs \in Seq(Segment) /\ t \in Seq(Segment)
      BY <2>1, <2>4, SeqMonotonic DEF Sort
    <3>2. \A k \in 1..Len(d.segs) : t[k].kind = "block" => d.segs[k].kind = "block"
      BY <2>2, <2>4
    <3> QED
      BY <2>4, <2>7, <3>1, <3>2, FewerBlocks
  <2>8. InProse(i).kind = "prose" /\ InProse(i).seg = i
    BY DEF InProse
  <2> QED
    BY <1>2, <2>4, <2>6, <2>7, <2>8 DEF t, p
<1> QED
  BY <1>1, <1>2

(* A prose gets another text.                                              *)
LEMMA WithRawIs ==
  ASSUME NEW A, Sort(A), NEW d \in Docs(A), NEW i \in 1..Len(d.segs),
         d.segs[i].kind = "prose", NEW text \in Seq(Line)
  PROVE  /\ WithRaw(d, i, text) \in Docs(A)
         /\ Len(WithRaw(d, i, text).segs) = Len(d.segs)
         /\ PaddedSegs(d.segs) => PaddedSegs(WithRaw(d, i, text).segs)
         /\ WithRaw(d, i, text).cursor = d.cursor
         /\ WithRaw(d, i, text).segs[i].kind = "prose" /\ WithRaw(d, i, text).segs[i].raw = text
         /\ \A k \in 1..Len(d.segs) : k # i => WithRaw(d, i, text).segs[k] = d.segs[k]
<1> DEFINE s == [d.segs[i] EXCEPT !.raw = text]
           t == [d.segs EXCEPT ![i] = s]
<1>1. /\ d.segs \in Seq(A) /\ 1 \in 1..Len(d.segs) /\ d.segs[1].kind = "prose"
      /\ DOMAIN d.segs = 1..Len(d.segs) /\ d.segs[i] \in A /\ d.segs[i] \in Segment
      /\ d.cursor.seg \in 1..Len(d.segs) /\ d.cursor.kind \in {"prose", "block", "result"}
      /\ d.cursor.kind # "prose" => d.segs[d.cursor.seg].kind = "block"
      /\ d = [segs |-> d.segs, cursor |-> d.cursor]
      /\ d.cursor = [kind |-> d.cursor.kind, seg |-> d.cursor.seg]
  BY DocIs DEF Sort
<1>2. s \in A /\ s.kind = "prose" /\ s.raw = text
  <2>1. s \in Segment /\ s.kind = "prose" /\ s.raw = text
    BY <1>1 DEF Segment
  <2> QED
    BY <2>1, ProseSuits
<1>3. WithRaw(d, i, text) = Document(t, d.cursor)
  <2>1. WithRaw(d, i, text) = [d EXCEPT !.segs = t]
    BY DEF WithRaw
  <2> HIDE DEF t
  <2>2. [d EXCEPT !.segs = t] = [segs |-> t, cursor |-> d.cursor]
    BY <1>1
  <2> QED
    BY <2>1, <2>2 DEF Document
<1> HIDE DEF s
<1>4. /\ t \in Seq(A) /\ Len(t) = Len(d.segs) /\ t[i] = s
      /\ \A k \in 1..Len(d.segs) : k # i => t[k] = d.segs[k]
  BY <1>1, <1>2, ReplaceIs
<1> HIDE DEF t
<1>5. t[1].kind = "prose"
  BY <1>1, <1>2, <1>4
<1>6. d.cursor.kind # "prose" => t[d.cursor.seg].kind = "block"
  BY <1>1, <1>4
<1>7. WithRaw(d, i, text) \in Docs(A) /\ WithRaw(d, i, text).segs = t
      /\ WithRaw(d, i, text).cursor = d.cursor
  <2> DEFINE j == d.cursor.seg
             k == d.cursor.kind
  <2>1. d.cursor = [kind |-> k, seg |-> j] /\ j \in 1..Len(t) /\ k \in {"prose", "block", "result"}
    BY <1>1, <1>4
  <2>2. WithRaw(d, i, text) = Document(t, [kind |-> k, seg |-> j])
    BY <1>3, <2>1
  <2>3. k # "prose" => t[j].kind = "block"
    BY <1>6
  <2> HIDE DEF j, k
  <2> QED
    BY <1>4, <1>5, <2>1, <2>2, <2>3, MakeDoc
<1>8. ASSUME PaddedSegs(d.segs)
      PROVE  PaddedSegs(t)
  <2>1. d.segs \in Seq(Segment) /\ t \in Seq(Segment)
    BY <1>1, <1>4, SeqMonotonic DEF Sort
  <2>2. \A k \in 1..Len(d.segs) : t[k].kind = "block" => d.segs[k].kind = "block"
    BY <1>2, <1>4
  <2> QED
    BY <1>4, <1>8, <2>1, <2>2, FewerBlocks
<1> QED
  BY <1>2, <1>4, <1>7, <1>8

(* What an exit from a swap puts back.                                     *)
PutBack(d, done) ==
  LET i == d.cursor.seg
  IN ReparseFromRaw([d.segs[i] EXCEPT !.raw = IF IsProse(done.segs, i) THEN done.segs[i].raw
                                                                       ELSE d.segs[i].raw])

LEMMA PutBackIs ==
  ASSUME NEW A, Suitable(A), NEW d \in Docs(A), NEW done \in Docs(A),
         d.cursor.kind = "block"
  PROVE  /\ PutBack(d, done) \in A /\ PutBack(d, done).kind = "block"
         /\ PutBack(d, done).raw = IF IsProse(done.segs, d.cursor.seg)
                                     THEN done.segs[d.cursor.seg].raw
                                     ELSE d.segs[d.cursor.seg].raw
<1> DEFINE i == d.cursor.seg
           raw == IF IsProse(done.segs, i) THEN done.segs[i].raw ELSE d.segs[i].raw
           b == [d.segs[i] EXCEPT !.raw = raw]
<1>1. d.segs[i] \in Segment /\ d.segs[i].kind = "block"
  BY DocIs DEF Suitable, Sort
<1>2. raw \in Seq(Line)
  <2>1. CASE IsProse(done.segs, i)
    <3>1. i \in DOMAIN done.segs
      BY <2>1 DEF IsProse
    <3>2. DOMAIN done.segs = 1..Len(done.segs) /\ \A k \in 1..Len(done.segs) : done.segs[k] \in A
      BY DocIs
    <3>3. done.segs[i] \in Segment
      BY <3>1, <3>2 DEF Suitable, Sort
    <3> QED
      BY <2>1, <3>3 DEF Segment
  <2>2. CASE ~IsProse(done.segs, i)
    BY <1>1, <2>2 DEF Segment
  <2> QED
    BY <2>1, <2>2
<1> HIDE DEF raw
<1>3. b \in Segment /\ b.kind = "block" /\ b.raw = raw
  BY <1>1, <1>2 DEF Segment
<1>4. PutBack(d, done) = ReparseFromRaw(b)
  BY DEF PutBack, raw
<1> HIDE DEF b
<1>5. /\ ReparseFromRaw(b) \in A /\ ReparseFromRaw(b).kind = "block"
      /\ ReparseFromRaw(b).raw = raw
  BY <1>3, ReparseType DEF Suitable
<1> QED
  BY <1>4, <1>5 DEF raw

LEMMA ExitedIs ==
  ASSUME NEW A, NEW d, NEW done \in Docs(A), d.cursor.kind = "block",
         d.cursor.seg \in 2..Len(done.segs),
         PutBack(d, done) \in A, PutBack(d, done).kind = "block"
  PROVE  /\ Exited(d, done) \in Docs(A)
         /\ Len(Exited(d, done).segs) = Len(done.segs)
         /\ Exited(d, done).segs[d.cursor.seg] = PutBack(d, done)
         /\ \A k \in 1..Len(done.segs) :
              k # d.cursor.seg => Exited(d, done).segs[k] = done.segs[k]
<1> DEFINE i == d.cursor.seg
           b == PutBack(d, done)
           t == [done.segs EXCEPT ![i] = b]
           c == IF done.cursor = InProse(i) THEN InBlock(i) ELSE done.cursor
<1>1. /\ done.segs \in Seq(A) /\ DOMAIN done.segs = 1..Len(done.segs)
      /\ 1 \in 1..Len(done.segs) /\ done.segs[1].kind = "prose" /\ Len(done.segs) \in Nat
      /\ done.cursor.seg \in 1..Len(done.segs)
      /\ done.cursor.kind \in {"prose", "block", "result"}
      /\ done.cursor.kind # "prose" => done.segs[done.cursor.seg].kind = "block"
      /\ done.cursor = [kind |-> done.cursor.kind, seg |-> done.cursor.seg]
  BY DocIs
<1>2. i \in 1..Len(done.segs) /\ i # 1
  BY <1>1
<1>3. Exited(d, done) = Document(t, c)
  BY <1>1, <1>2 DEF Exited, PutBack
<1> HIDE DEF b
<1>4. b \in A /\ b.kind = "block"
  BY DEF b
<1>5. /\ t \in Seq(A) /\ Len(t) = Len(done.segs) /\ t[i] = b
      /\ \A k \in 1..Len(done.segs) : k # i => t[k] = done.segs[k]
  BY <1>1, <1>2, <1>4, ReplaceIs
<1> HIDE DEF t
<1>6. t[1].kind = "prose"
  BY <1>1, <1>2, <1>5
<1>7. \E k \in {"prose", "block", "result"}, j \in 1..Len(t) :
         c = [kind |-> k, seg |-> j] /\ (k # "prose" => t[j].kind = "block")
  <2>1. CASE done.cursor = InProse(i)
    <3>1. c = [kind |-> "block", seg |-> i]
      BY <2>1 DEF InBlock
    <3> QED
      BY <1>2, <1>4, <1>5, <3>1
  <2>2. CASE done.cursor # InProse(i)
    <3>1. c = done.cursor
      BY <2>2
    <3>2. done.cursor.kind # "prose" => t[done.cursor.seg].kind = "block"
      BY <1>1, <1>4, <1>5
    <3> QED
      BY <1>1, <1>5, <3>1, <3>2
  <2> QED
    BY <2>1, <2>2
<1> HIDE DEF c
<1>8. Exited(d, done) \in Docs(A) /\ Exited(d, done).segs = t
  BY <1>3, <1>5, <1>6, <1>7, MakeDoc
<1> QED
  BY <1>5, <1>8 DEF t, b

LEMMA ExitedBack ==
  ASSUME NEW A, Suitable(A), NEW d \in Docs(A), NEW done \in Docs(A),
         d.cursor.kind = "block", d.cursor.seg \in 2..Len(done.segs)
  PROVE  /\ Exited(d, done) \in Docs(A)
         /\ Len(Exited(d, done).segs) = Len(done.segs)
         /\ \A k \in 1..Len(done.segs) :
              k # d.cursor.seg => Exited(d, done).segs[k] = done.segs[k]
<1>1. PutBack(d, done) \in A /\ PutBack(d, done).kind = "block"
  BY PutBackIs
<1> QED
  BY <1>1, ExitedIs

LEMMA ExitedOut ==
  ASSUME NEW A, NEW d \in Docs(Segment), NEW done \in Docs(A),
         ~(d.cursor.kind = "block" /\ d.cursor.seg \in 2..Len(done.segs))
  PROVE  Exited(d, done) = done
<1>1. /\ d.cursor.seg \in 1..Len(d.segs) /\ Len(d.segs) \in Nat
      /\ d.cursor.kind = "block" => d.cursor.seg # 1
  BY DocIs
<1>2. DOMAIN done.segs = 1..Len(done.segs) /\ Len(done.segs) \in Nat
  BY DocIs
<1>3. d.cursor.kind # "block" \/ d.cursor.seg \notin DOMAIN done.segs
  BY <1>1, <1>2
<1> QED
  BY <1>3 DEF Exited

LEMMA ExitStays ==
  ASSUME NEW A, Suitable(A), NEW d \in Docs(A), NEW done \in Docs(A)
  PROVE  Exited(d, done) \in Docs(A)
<1>1. d \in Docs(Segment)
  BY DocsGrow DEF Suitable, Sort
<1>2. CASE d.cursor.kind = "block" /\ d.cursor.seg \in 2..Len(done.segs)
  BY <1>2, ExitedBack
<1>3. CASE ~(d.cursor.kind = "block" /\ d.cursor.seg \in 2..Len(done.segs))
  BY <1>1, <1>3, ExitedOut
<1> QED
  BY <1>2, <1>3

LEMMA SegmentSuits == Suitable(Segment) /\ Sort(Segment)
BY ReparseType DEF Suitable, Sort, ExactSegment

LEMMA BlockExited ==
  ASSUME NEW d \in Docs(Segment), NEW done \in Docs(Segment),
         d.cursor.kind = "block", d.cursor.seg \in 2..Len(done.segs)
  PROVE  /\ Exited(d, done) \in Docs(Segment)
         /\ Len(Exited(d, done).segs) = Len(done.segs)
         /\ \A k \in 1..Len(done.segs) :
              k # d.cursor.seg => Exited(d, done).segs[k] = done.segs[k]
<1> DEFINE A == Segment
<1>1. Suitable(A) /\ d \in Docs(A) /\ done \in Docs(A)
  BY SegmentSuits
<1> HIDE DEF A
<1>2. /\ Exited(d, done) \in Docs(A)
      /\ Len(Exited(d, done).segs) = Len(done.segs)
      /\ \A k \in 1..Len(done.segs) :
           k # d.cursor.seg => Exited(d, done).segs[k] = done.segs[k]
  BY <1>1, ExitedBack
<1> QED
  BY <1>2 DEF A

(* A block that is put back between two proses leaves a note padded.       *)
LEMMA ExitPadded ==
  ASSUME NEW d \in Docs(Segment), NEW done \in Docs(Segment), PaddedSegs(done.segs),
         d.cursor.kind = "block" /\ d.cursor.seg \in DOMAIN done.segs
           => \A k \in {d.cursor.seg - 1, d.cursor.seg, d.cursor.seg + 1} : IsProse(done.segs, k)
  PROVE  PaddedSegs(Exited(d, done).segs)
<1> DEFINE i == d.cursor.seg
           t == Exited(d, done).segs
<1>1. CASE d.cursor.kind = "block" /\ i \in 2..Len(done.segs)
  <2>0. Len(done.segs) \in Nat /\ DOMAIN done.segs = 1..Len(done.segs) /\ done.segs \in Seq(Segment)
    BY DocIs
  <2>1. /\ Exited(d, done) \in Docs(Segment) /\ Len(t) = Len(done.segs)
        /\ \A k \in 1..Len(done.segs) : k # i => t[k] = done.segs[k]
    BY <1>1, BlockExited
  <2>2. /\ i - 1 \in 1..Len(done.segs) /\ done.segs[i - 1].kind = "prose"
        /\ i + 1 \in 1..Len(done.segs) /\ done.segs[i + 1].kind = "prose"
    BY <1>1, <2>0 DEF IsProse
  <2>3. /\ done.segs # <<>> /\ done.segs[1].kind = "prose"
        /\ done.segs[Len(done.segs)].kind = "prose" /\ Alternates(done.segs)
    BY <2>0, PaddedIs
  <2>4. t \in Seq(Segment)
    BY <2>1, DocIs
  <2>5. t # <<>> /\ 1 # i /\ Len(t) # i /\ 1 \in 1..Len(t) /\ Len(t) \in 1..Len(t)
    BY <1>1, <2>0, <2>1, <2>2, EmptySeq
  <2>6. t[1].kind = "prose" /\ t[Len(t)].kind = "prose"
    BY <2>1, <2>3, <2>5
  <2> HIDE DEF t
  <2>7. ASSUME NEW k \in 2..Len(t), t[k - 1].kind = "block", t[k].kind = "block"
        PROVE  FALSE
    <3>1. k \in 1..Len(done.segs) /\ k - 1 \in 1..Len(done.segs) /\ k \in 2..Len(done.segs)
      BY <2>0, <2>1
    <3>2. CASE k = i
      <4>1. k - 1 = i - 1 /\ k - 1 # i
        BY <3>2
      <4> QED
        BY <2>1, <2>2, <2>7, <3>1, <4>1
    <3>3. CASE k - 1 = i
      <4>1. k = i + 1 /\ k # i
        BY <3>1, <3>3
      <4> QED
        BY <2>1, <2>2, <2>7, <3>1, <4>1
    <3>4. CASE k # i /\ k - 1 # i
      BY <2>1, <2>3, <2>7, <3>1, <3>4 DEF Alternates
    <3> QED
      BY <3>2, <3>3, <3>4
  <2>8. Alternates(t)
    BY <2>7 DEF Alternates
  <2> QED
    BY <2>4, <2>5, <2>6, <2>8, PaddedIs DEF t
<1>2. CASE ~(d.cursor.kind = "block" /\ i \in 2..Len(done.segs))
  BY <1>2, ExitedOut
<1> QED
  BY <1>1, <1>2

(* The same is true of a block that is put back where it was, in a note    *)
(* that has changed in nothing else.                                       *)
LEMMA ExitSamePlace ==
  ASSUME NEW d \in Docs(Segment), NEW done \in Docs(Segment),
         PaddedSegs(d.segs), PaddedSegs(done.segs), Len(done.segs) = Len(d.segs),
         \A k \in 1..Len(d.segs) :
           k # d.cursor.seg => (done.segs[k].kind = "block" => d.segs[k].kind = "block")
  PROVE  PaddedSegs(Exited(d, done).segs)
<1> DEFINE i == d.cursor.seg
           t == Exited(d, done).segs
<1>1. CASE d.cursor.kind = "block" /\ i \in 2..Len(done.segs)
  <2>1. /\ Exited(d, done) \in Docs(Segment) /\ Len(t) = Len(done.segs)
        /\ \A k \in 1..Len(done.segs) : k # i => t[k] = done.segs[k]
    BY <1>1, BlockExited
  <2>2. d.segs[i].kind = "block"
    BY <1>1, DocIs
  <2>3. t \in Seq(Segment)
    BY <2>1, DocIs
  <2>4. d.segs \in Seq(Segment)
    BY DocIs
  <2> HIDE DEF t
  <2>5. \A k \in 1..Len(d.segs) : t[k].kind = "block" => d.segs[k].kind = "block"
    BY <2>1, <2>2
  <2> QED
    BY <2>1, <2>3, <2>4, <2>5, FewerBlocks DEF t
<1>2. CASE ~(d.cursor.kind = "block" /\ i \in 2..Len(done.segs))
  BY <1>2, ExitedOut
<1> QED
  BY <1>1, <1>2

FollowingSegment == {s \in Segment : Follows(s)}

LEMMA FollowingSuits == Suitable(FollowingSegment) /\ Sort(FollowingSegment)
<1>1. ExactSegment \subseteq FollowingSegment
  BY ExactFollows DEF ExactSegment, FollowingSegment
<1>2. ASSUME NEW b \in Segment
      PROVE  ReparseFromRaw(b) \in FollowingSegment
  BY ReparseType DEF FollowingSegment, Follows
<1> QED
  BY <1>1, <1>2 DEF Suitable, Sort, FollowingSegment

(* A swap around a command that leaves the text alone leaves the note as it*)
(* was, unless the fields of the block did not follow its raw.             *)
LEMMA ExitAgain ==
  ASSUME NEW d \in Docs(Segment), NEW done \in Docs(Segment), done.segs = Entered(d).segs
  PROVE  /\ PaddedSegs(d.segs) => PaddedSegs(Exited(d, done).segs)
         /\ d \in Docs(FollowingSegment) => Exited(d, done).segs = d.segs
<1> DEFINE i == d.cursor.seg
<1>1. /\ Len(Entered(d).segs) = Len(d.segs)
      /\ PaddedSegs(d.segs) => PaddedSegs(Entered(d).segs)
      /\ d.cursor.kind # "block" => Entered(d) = d
      /\ d.cursor.kind = "block" =>
           /\ Entered(d).segs = [d.segs EXCEPT ![d.cursor.seg] = Prose(d.segs[d.cursor.seg].raw)]
           /\ Entered(d).segs[d.cursor.seg] = Prose(d.segs[d.cursor.seg].raw)
      /\ \A k \in 1..Len(d.segs) :
           ~(d.cursor.kind = "block" /\ k = d.cursor.seg) => Entered(d).segs[k] = d.segs[k]
  BY SegmentSuits, EnteredIs
<1>2. ASSUME PaddedSegs(d.segs)
      PROVE  PaddedSegs(Exited(d, done).segs)
  <2>1. PaddedSegs(done.segs) /\ Len(done.segs) = Len(d.segs)
    BY <1>1, <1>2
  <2>2. \A k \in 1..Len(d.segs) :
           k # d.cursor.seg => (done.segs[k].kind = "block" => d.segs[k].kind = "block")
    BY <1>1
  <2> QED
    BY <1>2, <2>1, <2>2, ExitSamePlace
<1>3. ASSUME d \in Docs(FollowingSegment)
      PROVE  Exited(d, done).segs = d.segs
  <2>0. /\ d.segs \in Seq(Segment) /\ DOMAIN d.segs = 1..Len(d.segs) /\ i \in 1..Len(d.segs)
        /\ d.cursor.kind = "block" => d.segs[i].kind = "block" /\ i # 1
        /\ Len(d.segs) \in Nat /\ d.segs[i] \in Segment
    BY DocIs
  <2>1. CASE d.cursor.kind = "block"
    <3>1. i \in 2..Len(done.segs)
      BY <1>1, <2>0, <2>1
    <3>2. Exited(d, done).segs = [done.segs EXCEPT ![i] = PutBack(d, done)]
      <4>1. DOMAIN done.segs = 1..Len(done.segs) /\ Len(done.segs) \in Nat
        BY DocIs
      <4>2. i \in DOMAIN done.segs
        BY <3>1, <4>1
      <4> QED
        BY <2>1, <4>2 DEF Exited, PutBack, Document
    <3>3. d.segs[i] \in FollowingSegment
      BY <1>3, DocIs
    <3>4. ReparseFromRaw(d.segs[i]) = d.segs[i]
      BY <2>0, <2>1, <3>3 DEF FollowingSegment, Follows
    <3>5. done.segs[i].raw = d.segs[i].raw
      <4>1. d.segs[i].raw \in Seq(Line)
        BY <2>0 DEF Segment
      <4> QED
        BY <1>1, <2>1, <4>1, ProseIs
    <3>6. PutBack(d, done) = ReparseFromRaw([d.segs[i] EXCEPT !.raw = d.segs[i].raw])
      BY <3>5 DEF PutBack
    <3>7. [d.segs[i] EXCEPT !.raw = d.segs[i].raw] = d.segs[i]
      BY <2>0 DEF Segment
    <3>8. PutBack(d, done) = d.segs[i]
      BY <3>4, <3>6, <3>7
    <3>9. Exited(d, done).segs
             = [[d.segs EXCEPT ![i] = Prose(d.segs[i].raw)] EXCEPT ![i] = d.segs[i]]
      BY <1>1, <2>1, <3>2, <3>8
    <3> DEFINE p == Prose(d.segs[i].raw)
               segs == d.segs
    <3>10. segs = [k \in 1..Len(segs) |-> segs[k]] /\ i \in 1..Len(segs)
      BY <2>0, LenProperties
    <3>11. Exited(d, done).segs = [[segs EXCEPT ![i] = p] EXCEPT ![i] = segs[i]]
      BY <3>9
    <3> HIDE DEF p, segs
    <3>12. [[segs EXCEPT ![i] = p] EXCEPT ![i] = segs[i]] = segs
      BY <3>10
    <3> QED
      BY <3>11, <3>12 DEF segs
  <2>2. CASE d.cursor.kind # "block"
    BY <1>1, <2>2, ExitedOut
  <2> QED
    BY <2>1, <2>2
<1> QED
  BY <1>2, <1>3

(* The same texts in the same order.                                       *)
LEMMA SameTexts ==
  ASSUME NEW segs \in Seq(Segment), NEW t \in Seq(Segment), Len(t) = Len(segs),
         \A k \in 1..Len(segs) : SegmentText(t[k]) = SegmentText(segs[k])
  PROVE  Text(t) = Text(segs)
<1>1. DOMAIN segs = 1..Len(segs) /\ DOMAIN t = 1..Len(segs)
  BY LenProperties
<1>2. [i \in DOMAIN t |-> SegmentText(t[i])] = [i \in DOMAIN segs |-> SegmentText(segs[i])]
  BY <1>1
<1> QED
  BY <1>2 DEF Text

LEMMA ExactSorts == Sort(ExactSegment)
BY DEF Sort, ExactSegment

(* A block is swapped for its text if its fields are its raw.              *)
LEMMA EnteredExact ==
  ASSUME NEW d \in Docs(ExactSegment)
  PROVE  Entered(d) \in Docs(ExactSegment) /\ Text(Entered(d).segs) = Text(d.segs)
<1>1. /\ Entered(d) \in Docs(ExactSegment)
      /\ Len(Entered(d).segs) = Len(d.segs)
      /\ d.cursor.kind = "block" =>
           Entered(d).segs[d.cursor.seg] = Prose(d.segs[d.cursor.seg].raw)
      /\ \A k \in 1..Len(d.segs) :
           ~(d.cursor.kind = "block" /\ k = d.cursor.seg) => Entered(d).segs[k] = d.segs[k]
  BY ExactSorts, EnteredIs
<1> DEFINE t == Entered(d).segs
<1>2. t \in Seq(Segment)
  <2>1. t \in Seq(ExactSegment)
    BY <1>1, DocIs
  <2> QED
    BY <2>1, SeqMonotonic, ExactSorts DEF Sort
<1>3. /\ d.segs \in Seq(ExactSegment)
      /\ \A k \in 1..Len(d.segs) : d.segs[k] \in ExactSegment
      /\ d.cursor.kind = "block" => d.segs[d.cursor.seg].kind = "block"
  BY DocIs
<1>4. d.segs \in Seq(Segment)
  BY <1>3, SeqMonotonic, ExactSorts DEF Sort
<1>5. ASSUME NEW k \in 1..Len(d.segs)
      PROVE  SegmentText(t[k]) = SegmentText(d.segs[k])
  <2>1. CASE d.cursor.kind = "block" /\ k = d.cursor.seg
    <3>1. d.segs[k].kind = "block" /\ d.segs[k] \in ExactSegment
      BY <1>3, <2>1
    <3>2. d.segs[k].fields = d.segs[k].raw
      BY <3>1 DEF ExactSegment, Exact
    <3>3. SegmentText(d.segs[k]) = d.segs[k].raw
      BY <3>1, <3>2 DEF SegmentText
    <3>4. t[k] = Prose(d.segs[k].raw)
      BY <1>1, <2>1
    <3>5. SegmentText(t[k]) = d.segs[k].raw
      BY <3>4 DEF SegmentText, Prose
    <3> QED
      BY <3>3, <3>5
  <2>2. CASE ~(d.cursor.kind = "block" /\ k = d.cursor.seg)
    BY <1>1, <2>2
  <2> QED
    BY <2>1, <2>2
<1> HIDE DEF t
<1>6. Len(t) = Len(d.segs)
  BY <1>1 DEF t
<1>7. Text(t) = Text(d.segs)
  BY <1>2, <1>4, <1>5, <1>6, SameTexts
<1> QED
  BY <1>1, <1>7 DEF t

(* A text that is one block becomes that block, in a note of exact blocks. *)
LEMMA ExitExact ==
  ASSUME NEW d \in Docs(Segment), NEW done \in Docs(ExactSegment),
         d.cursor.kind = "block" /\ d.cursor.seg \in DOMAIN done.segs
           => IsProse(done.segs, d.cursor.seg) /\ IsBlockText(done.segs[d.cursor.seg].raw)
  PROVE  Exited(d, done) \in Docs(ExactSegment) /\ Text(Exited(d, done).segs) = Text(done.segs)
<1> DEFINE i == d.cursor.seg
           b == PutBack(d, done)
           t == Exited(d, done).segs
<1>1. CASE d.cursor.kind = "block" /\ i \in 2..Len(done.segs)
  <2>0. /\ done.segs \in Seq(ExactSegment) /\ DOMAIN done.segs = 1..Len(done.segs)
        /\ Len(done.segs) \in Nat
        /\ \A k \in 1..Len(done.segs) : done.segs[k] \in ExactSegment
    BY DocIs
  <2>1. i \in DOMAIN done.segs /\ i \in 1..Len(done.segs)
    BY <1>1, <2>0
  <2>2. IsProse(done.segs, i) /\ IsBlockText(done.segs[i].raw) /\ done.segs[i] \in Segment
    BY <1>1, <2>0, <2>1 DEF ExactSegment
  <2>3. d.segs[i] \in Segment /\ d.segs[i].kind = "block"
    BY <1>1, DocIs
  <2> DEFINE raw == done.segs[i].raw
             old == [d.segs[i] EXCEPT !.raw = raw]
  <2>4. raw \in Seq(Line) /\ done.segs[i].kind = "prose"
    BY <2>2 DEF Segment, IsProse
  <2>5. b = ReparseFromRaw(old)
    BY <2>2 DEF PutBack
  <2>6. IsBlockText(raw)
    BY <2>2
  <2> HIDE DEF raw, b
  <2>7. old \in Segment /\ old.kind = "block" /\ old.raw = raw
    BY <2>3, <2>4 DEF Segment
  <2> HIDE DEF old
  <2>8. b \in Segment /\ b.kind = "block" /\ b.raw = raw /\ b.fields = raw
    BY <2>5, <2>6, <2>7, ReparseType, ReparseBlockText
  <2>9. b \in ExactSegment
    BY <2>6, <2>8 DEF ExactSegment, Exact
  <2>10. /\ Exited(d, done) \in Docs(ExactSegment) /\ Len(t) = Len(done.segs)
         /\ t[i] = b /\ \A k \in 1..Len(done.segs) : k # i => t[k] = done.segs[k]
    <3>1. PutBack(d, done) \in ExactSegment /\ PutBack(d, done).kind = "block"
      BY <2>8, <2>9 DEF b
    <3> QED
      BY <1>1, <3>1, ExitedIs DEF b
  <2>11. done.segs \in Seq(Segment) /\ t \in Seq(Segment)
    <3>1. t \in Seq(ExactSegment)
      BY <2>10, DocIs
    <3> QED
      BY <2>0, <3>1, SeqMonotonic, ExactSorts DEF Sort
  <2> HIDE DEF t
  <2>12. SegmentText(b) = raw /\ SegmentText(done.segs[i]) = raw
    BY <2>4, <2>8 DEF SegmentText, raw
  <2>13. \A k \in 1..Len(done.segs) : SegmentText(t[k]) = SegmentText(done.segs[k])
    BY <2>10, <2>12
  <2>14. Text(t) = Text(done.segs)
    BY <2>10, <2>11, <2>13, SameTexts
  <2> QED
    BY <2>10, <2>14 DEF t
<1>2. CASE ~(d.cursor.kind = "block" /\ i \in 2..Len(done.segs))
  BY <1>2, ExitedOut
<1> QED
  BY <1>1, <1>2

(* The blocks of a prose take its place.                                   *)
Spliced(segs, i, parsed) ==
  SubSeq(segs, 1, i - 1) \o parsed \o SubSeq(segs, i + 1, Len(segs))

LEMMA SplicedIs ==
  ASSUME NEW A, NEW segs \in Seq(A), NEW i \in 1..Len(segs), NEW parsed \in Seq(A),
         NEW j \in 1..Len(parsed)
  PROVE  /\ Spliced(segs, i, parsed) \in Seq(A) /\ Spliced(segs, i, parsed) # <<>>
         /\ (i - 1) + j \in 1..Len(Spliced(segs, i, parsed))
         /\ Spliced(segs, i, parsed)[(i - 1) + j] = parsed[j]
<1> DEFINE x == SubSeq(segs, 1, i - 1)
           y == SubSeq(segs, i + 1, Len(segs))
<1>1. /\ Len(segs) \in Nat /\ i \in Nat /\ i + 1 \in Nat \ {0} /\ i - 1 \in Nat
      /\ i - 1 <= Len(segs) /\ Len(segs) <= Len(segs) /\ 1 \in Nat \ {0}
  BY LenProperties
<1>2. /\ x \in Seq(A) /\ Len(x) = i - 1
  <2>1. /\ SubSeq(segs, 1, i - 1) \in Seq(A)
        /\ Len(SubSeq(segs, 1, i - 1)) = IF 1 <= i - 1 THEN (i - 1) - 1 + 1 ELSE 0
    BY <1>1, SubSeqIs
  <2> HIDE DEF x
  <2>2. (IF 1 <= i - 1 THEN (i - 1) - 1 + 1 ELSE 0) = i - 1
    BY <1>1
  <2> QED
    BY <2>1, <2>2 DEF x
<1>3. y \in Seq(A)
  BY <1>1, SubSeqIs
<1> HIDE DEF x, y
<1> DEFINE u == x \o parsed
<1>4. /\ u \in Seq(A) /\ Len(u) = Len(x) + Len(parsed) /\ Len(parsed) \in Nat
      /\ \A k \in 1..Len(parsed) : u[Len(x) + k] = parsed[k]
  <2>1. parsed \in Seq(A) /\ x \in Seq(A)
    BY <1>2
  <2> QED
    BY <2>1, ConcatAt
<1> HIDE DEF u
<1> DEFINE n == (i - 1) + j
<1>5. n \in 1..Len(u) /\ u[n] = parsed[j]
  <2>1. u[Len(x) + j] = parsed[j] /\ Len(x) + j = n
    BY <1>2, <1>4
  <2>2. n \in 1..Len(u)
    BY <1>1, <1>2, <1>4
  <2> HIDE DEF n
  <2> QED
    BY <2>1, <2>2
<1> HIDE DEF n
<1> DEFINE c == u \o y
<1>6. /\ c \in Seq(A) /\ Len(c) = Len(u) + Len(y) /\ Len(u) \in Nat /\ Len(y) \in Nat
      /\ \A k \in 1..Len(u) : c[k] = u[k]
  <2>1. u \in Seq(A) /\ y \in Seq(A)
    BY <1>3, <1>4
  <2> QED
    BY <2>1, ConcatAt
<1>7. c = Spliced(segs, i, parsed)
  BY DEF u, x, y, Spliced
<1> HIDE DEF c
<1>8. n \in 1..Len(c) /\ c[n] = parsed[j]
  BY <1>5, <1>6
<1>9. c # <<>>
  BY <1>8, EmptySeq
<1> QED
  BY <1>6, <1>7, <1>8, <1>9 DEF n

LEMMA ReparseProseAtIs ==
  ASSUME NEW A, Sort(A), NEW d \in Docs(A), NEW i \in 1..Len(d.segs),
         d.segs[i].raw \in Seq(Line), ~Panics(d.segs[i].raw)
  PROVE  /\ ReparseProseAt(d, i) \in Docs(A)
         /\ PaddedSegs(d.segs) => PaddedSegs(ReparseProseAt(d, i).segs)
         /\ Starts(d.segs[i].raw) # {} =>
              \E k \in i..Len(ReparseProseAt(d, i).segs) : IsBlock(ReparseProseAt(d, i).segs, k)
<1> DEFINE raw == d.segs[i].raw
           parsed == WithoutEmptyProse(FromMarkdown(raw))
           spliced == Spliced(d.segs, i, parsed)
           segs == PadWithProse(spliced)
           Next1(k) == segs[k].kind = "prose" /\ \A m \in i..(k - 1) : segs[m].kind = "block"
           next == CHOOSE k \in i..Len(segs) : Next1(k)
<1>1. CASE Starts(raw) = {}
  BY <1>1 DEF ReparseProseAt
<1>2. CASE Starts(raw) # {}
  <2>1. d.segs \in Seq(A) /\ i \in Nat \ {0}
    <3>1. d.segs \in Seq(A) /\ Len(d.segs) \in Nat
      BY DocIs
    <3> QED
      BY <3>1
  <2>2. ReparseProseAt(d, i) = Document(segs, InProse(next))
    BY <1>2 DEF ReparseProseAt, Spliced
  <2>3. /\ FromMarkdown(raw) \in Seq(A) /\ IsBlock(FromMarkdown(raw), 2)
        /\ 2 \in 1..Len(FromMarkdown(raw)) /\ FromMarkdown(raw)[2].kind = "block"
    <3>1. FromMarkdown(raw) \in Seq(ExactSegment) /\ IsBlock(FromMarkdown(raw), 2)
      BY <1>2, FromMarkdownIs
    <3>2. FromMarkdown(raw) \in Seq(A)
      BY <3>1, SeqMonotonic DEF Sort
    <3>3. 2 \in DOMAIN FromMarkdown(raw) /\ FromMarkdown(raw)[2].kind = "block"
      BY <3>1 DEF IsBlock
    <3> QED
      BY <3>1, <3>2, <3>3, LenProperties
  <2> HIDE DEF raw
  <2>4. parsed \in Seq(A) /\ \E j \in 1..Len(parsed) : parsed[j].kind = "block"
    <3> DEFINE fm == FromMarkdown(raw)
    <3>1. fm \in Seq(A) /\ IsBlock(fm, 2) /\ 2 \in 1..Len(fm) /\ fm[2].kind = "block"
      BY <2>3
    <3>2. parsed = WithoutEmptyProse(fm)
      OBVIOUS
    <3> HIDE DEF fm, parsed
    <3>3. parsed \in Seq(A) /\ \E j \in 1..Len(parsed) : parsed[j] = fm[2]
      BY <3>1, <3>2, WithoutEmptyProseIs
    <3> QED
      BY <3>1, <3>3
  <2> HIDE DEF parsed
  <2>5. PICK j \in 1..Len(parsed) : parsed[j].kind = "block"
    BY <2>4
  <2>6. /\ spliced \in Seq(A) /\ spliced # <<>> /\ (i - 1) + j \in 1..Len(spliced)
        /\ spliced[(i - 1) + j] = parsed[j]
    <3> DEFINE list == d.segs
    <3>1. list \in Seq(A) /\ i \in 1..Len(list) /\ parsed \in Seq(A) /\ j \in 1..Len(parsed)
      BY <2>1, <2>4
    <3> HIDE DEF list
    <3>2. /\ Spliced(list, i, parsed) \in Seq(A) /\ Spliced(list, i, parsed) # <<>>
          /\ (i - 1) + j \in 1..Len(Spliced(list, i, parsed))
          /\ Spliced(list, i, parsed)[(i - 1) + j] = parsed[j]
      BY <3>1, SplicedIs
    <3> QED
      BY <3>2 DEF list
  <2> HIDE DEF spliced
  <2>7. /\ segs \in Seq(A) /\ PaddedSegs(segs)
        /\ \E k \in ((i - 1) + j)..Len(segs) : segs[k] = spliced[(i - 1) + j]
    BY <2>6, PadIs
  <2> HIDE DEF segs
  <2>8. PICK b \in i..Len(segs) : segs[b].kind = "block"
    <3>1. (i - 1) + j >= i /\ (i - 1) + j \in Nat
      BY <2>1, <2>4, LenProperties
    <3>2. Len(segs) \in Nat
      BY <2>7, LenProperties
    <3>3. PICK k \in ((i - 1) + j)..Len(segs) : segs[k] = spliced[(i - 1) + j]
      BY <2>7
    <3>4. k \in i..Len(segs)
      BY <2>1, <3>1, <3>2
    <3> QED
      BY <2>5, <2>6, <3>3, <3>4
  <2>9. /\ Len(segs) \in Nat /\ DOMAIN segs = 1..Len(segs)
        /\ \A k \in 1..Len(segs) : segs[k].kind \in {"prose", "block"}
    <3>1. \A k \in 1..Len(segs) : segs[k] \in A
      BY <2>7, ElementOfSeq
    <3> QED
      BY <2>7, <3>1, LenProperties DEF Sort, Segment
  <2>10. segs[1].kind = "prose" /\ segs[Len(segs)].kind = "prose"
    BY <2>7 DEF PaddedSegs, IsProse
  <2>11. \E k \in i..Len(segs) : Next1(k)
    <3> DEFINE P == {k \in i..Len(segs) : segs[k].kind = "prose"}
    <3>1. P \subseteq Nat /\ P # {}
      <4>1. Len(segs) \in i..Len(segs)
        BY <2>1, <2>8, <2>9
      <4> QED
        BY <2>1, <2>10, <4>1
    <3>2. PICK k \in P : \A m \in P : k <= m
      <4> HIDE DEF P
      <4> QED
        BY <3>1, LeastMember
    <3>3. ASSUME NEW m \in i..(k - 1)
          PROVE  segs[m].kind = "block"
      <4>1. m \in i..Len(segs) /\ m \in 1..Len(segs) /\ ~(k <= m)
        BY <2>1, <2>9
      <4>2. m \notin P
        BY <3>2, <4>1
      <4> QED
        BY <2>9, <4>1, <4>2
    <3> QED
      BY <3>3
  <2> HIDE DEF Next1
  <2>12. next \in i..Len(segs) /\ Next1(next)
    BY <2>11
  <2> HIDE DEF next
  <2>13. next \in 1..Len(segs)
    BY <2>1, <2>9, <2>12
  <2>14. ReparseProseAt(d, i) \in Docs(A) /\ ReparseProseAt(d, i).segs = segs
    BY <2>2, <2>7, <2>10, <2>13, MakeDoc DEF InProse
  <2>15. b \in i..Len(segs) /\ IsBlock(segs, b)
    BY <2>1, <2>8, <2>9 DEF IsBlock
  <2> QED
    BY <2>7, <2>14, <2>15
<1> QED
  BY <1>1, <1>2

LEMMA CursorOnProse ==
  ASSUME NEW A, Sort(A), NEW segs \in Seq(A), PaddedSegs(segs), NEW i \in 1..Len(segs)
  PROVE  /\ Document(segs, InProse(i)) \in Docs(A)
         /\ PaddedSegs(Document(segs, InProse(i)).segs)
<1>1. segs[1].kind = "prose"
  BY DEF PaddedSegs, IsProse
<1> QED
  BY <1>1, MakeDoc DEF InProse

LEMMA DeleteBlockAtIs ==
  ASSUME NEW A, Sort(A), NEW d \in Docs(A), NEW i \in 1..Len(d.segs),
         d.segs[i].kind = "block"
  PROVE  DeleteBlockAt(d, i) \in Docs(A) /\ PaddedSegs(DeleteBlockAt(d, i).segs)
<1> DEFINE list == d.segs
<1>1. /\ list \in Seq(A) /\ DOMAIN list = 1..Len(list) /\ Len(list) \in Nat \ {0}
      /\ \A k \in 1..Len(list) : list[k] \in A
      /\ i \in 1..Len(list) /\ i \in 2..Len(list)
  <2>1. /\ list \in Seq(A) /\ DOMAIN list = 1..Len(list) /\ Len(list) \in Nat \ {0}
        /\ \A k \in 1..Len(list) : list[k] \in A
        /\ list[1].kind = "prose"
    BY DocIs
  <2>2. i # 1
    BY <2>1
  <2> QED
    BY <2>1, <2>2
<1>2. CASE IsProse(list, i - 1) /\ IsProse(list, i + 1)
  <2> DEFINE joined == Prose(list[i - 1].raw \o list[i + 1].raw)
             x == SubSeq(list, 1, i - 2)
             y == SubSeq(list, i + 2, Len(list))
             segs == x \o <<joined>> \o y
  <2>1. i - 1 \in 1..Len(list) /\ i + 1 \in 1..Len(list)
    BY <1>1, <1>2 DEF IsProse
  <2>2. DeleteBlockAt(d, i) = Document(PadWithProse(segs), InProse(i - 1))
    BY <1>2 DEF DeleteBlockAt
  <2> HIDE DEF list
  <2>3. joined \in A
    <3>1. list[i - 1] \in Segment /\ list[i + 1] \in Segment
      BY <1>1, <2>1 DEF Sort
    <3>2. list[i - 1].raw \in Seq(Line) /\ list[i + 1].raw \in Seq(Line)
      BY <3>1 DEF Segment
    <3>3. list[i - 1].raw \o list[i + 1].raw \in Seq(Line)
      BY <3>2, ConcatProperties
    <3> QED
      BY <3>3, ProseIs, ProseSuits
  <2> HIDE DEF joined
  <2>4. x \in Seq(A) /\ Len(x) = i - 2
    <3>1. 1 \in Nat \ {0} /\ i - 2 \in Nat /\ i - 2 <= Len(list)
      BY <1>1, <2>1
    <3>2. /\ SubSeq(list, 1, i - 2) \in Seq(A)
          /\ Len(SubSeq(list, 1, i - 2)) = IF 1 <= i - 2 THEN (i - 2) - 1 + 1 ELSE 0
      BY <1>1, <3>1, SubSeqIs
    <3>3. (IF 1 <= i - 2 THEN (i - 2) - 1 + 1 ELSE 0) = i - 2
      BY <3>1
    <3> QED
      BY <3>2, <3>3
  <2>5. y \in Seq(A)
    <3>1. i + 2 \in Nat \ {0} /\ Len(list) \in Nat /\ Len(list) <= Len(list)
      BY <1>1
    <3> QED
      BY <1>1, <3>1, SubSeqIs
  <2>6. <<joined>> \in Seq(A) /\ Len(<<joined>>) = 1
    BY <2>3, OneIs
  <2> DEFINE one == <<joined>>
             u == x \o one
  <2> HIDE DEF x, y, one
  <2>7. u \in Seq(A) /\ Len(u) = i - 1
    <3>1. u \in Seq(A) /\ Len(u) = Len(x) + Len(one)
      BY <2>4, <2>6, ConcatAt DEF one
    <3>2. Len(x) = i - 2 /\ Len(one) = 1
      BY <2>4, <2>6 DEF one
    <3> QED
      BY <1>1, <3>1, <3>2
  <2> HIDE DEF u
  <2>8. u \o y \in Seq(A) /\ Len(u \o y) = Len(u) + Len(y) /\ Len(y) \in Nat
    BY <2>5, <2>7, ConcatAt
  <2>9. segs = u \o y
    BY DEF u, one
  <2> HIDE DEF segs
  <2>10. segs \in Seq(A) /\ Len(segs) \in Nat /\ Len(segs) >= i - 1 /\ i - 1 \in Nat \ {0}
    BY <1>1, <2>1, <2>7, <2>8, <2>9
  <2>11. segs # <<>>
    BY <2>10, EmptySeq
  <2>12. /\ PadWithProse(segs) \in Seq(A) /\ PaddedSegs(PadWithProse(segs))
         /\ Len(PadWithProse(segs)) >= Len(segs)
    BY <2>10, <2>11, PadIs
  <2>13. i - 1 \in 1..Len(PadWithProse(segs))
    BY <2>10, <2>12, LenProperties
  <2> QED
    BY <2>2, <2>12, <2>13, CursorOnProse
<1>3. CASE ~(IsProse(list, i - 1) /\ IsProse(list, i + 1))
  <2> DEFINE x == SubSeq(list, 1, i - 1)
             y == SubSeq(list, i + 1, Len(list))
             less == x \o y
             rest == PadWithProse(less)
             near == IF IsProse(list, i - 1) THEN i - 1 ELSE i
             at == IF IsProse(rest, near) THEN near ELSE 1
  <2>1. DeleteBlockAt(d, i) = Document(rest, InProse(at))
    BY <1>3 DEF DeleteBlockAt, RemoveAt
  <2> HIDE DEF list, near
  <2>2. x \in Seq(A) /\ Len(x) \in Nat \ {0}
    <3>1. 1 \in Nat \ {0} /\ i - 1 \in Nat /\ i - 1 <= Len(list) /\ 1 <= i - 1
      BY <1>1
    <3>2. /\ SubSeq(list, 1, i - 1) \in Seq(A)
          /\ Len(SubSeq(list, 1, i - 1)) = IF 1 <= i - 1 THEN (i - 1) - 1 + 1 ELSE 0
      BY <1>1, <3>1, SubSeqIs
    <3>3. (IF 1 <= i - 1 THEN (i - 1) - 1 + 1 ELSE 0) \in Nat \ {0}
      BY <3>1
    <3> QED
      BY <3>2, <3>3
  <2>3. y \in Seq(A)
    <3>1. i + 1 \in Nat \ {0} /\ Len(list) \in Nat /\ Len(list) <= Len(list)
      BY <1>1
    <3> QED
      BY <1>1, <3>1, SubSeqIs
  <2> HIDE DEF x, y
  <2>4. less \in Seq(A) /\ Len(less) = Len(x) + Len(y) /\ Len(y) \in Nat
    BY <2>2, <2>3, ConcatAt
  <2>5. less # <<>>
    <3>1. Len(less) # 0
      BY <2>2, <2>4
    <3> QED
      BY <3>1, EmptySeq
  <2> HIDE DEF less
  <2>6. rest \in Seq(A) /\ PaddedSegs(rest)
    BY <2>4, <2>5, PadIs
  <2> HIDE DEF rest
  <2>7. at \in 1..Len(rest)
    <3>1. IsProse(rest, 1) /\ DOMAIN rest = 1..Len(rest)
      BY <2>6, LenProperties DEF PaddedSegs
    <3> QED
      BY <3>1 DEF IsProse
  <2> HIDE DEF at
  <2> QED
    BY <2>1, <2>6, <2>7, CursorOnProse
<1> QED
  BY <1>2, <1>3

LEMMA LoadIs ==
  ASSUME NEW text \in Seq(Line), ~Panics(text)
  PROVE  /\ Load(text) \in Docs(ExactSegment) /\ PaddedSegs(Load(text).segs)
         /\ Text(Load(text).segs) = text
<1>1. /\ FromMarkdown(text) \in Seq(ExactSegment) /\ PaddedSegs(FromMarkdown(text))
      /\ Len(FromMarkdown(text)) \in Nat \ {0}
  BY FromMarkdownIs
<1>2. 1 \in 1..Len(FromMarkdown(text)) /\ Load(text) = Document(FromMarkdown(text), InProse(1))
  BY <1>1 DEF Load
<1>3. Load(text) \in Docs(ExactSegment) /\ PaddedSegs(Load(text).segs)
  BY <1>1, <1>2, ExactSorts, CursorOnProse
<1>4. Load(text).segs = FromMarkdown(text)
  BY <1>2 DEF Document
<1> QED
  BY <1>3, <1>4, RoundTrip

LEMMA CursorAt ==
  ASSUME NEW A, Sort(A), NEW segs \in Seq(A), segs[1].kind = "prose", NEW i \in 1..Len(segs)
  PROVE  /\ Document(segs, At(segs, i)) \in Docs(A)
         /\ Document(segs, At(segs, i)).segs = segs
<1>1. segs[i].kind \in {"prose", "block"}
  <2>1. segs[i] \in A
    BY ElementOfSeq
  <2> QED
    BY <2>1 DEF Sort, Segment
<1>2. \E k \in {"prose", "block", "result"} :
        At(segs, i) = [kind |-> k, seg |-> i] /\ (k # "prose" => segs[i].kind = "block")
  BY <1>1 DEF At, InProse, InBlock
<1> QED
  BY <1>2, MakeDoc

(* The text of the first segments.                                         *)
LEMMA TextOfFirst ==
  ASSUME NEW segs \in Seq(Segment), NEW f,
         Concatenates(f, [k \in DOMAIN segs |-> SegmentText(segs[k])], Line),
         NEW i \in 0..Len(segs)
  PROVE  Text(SubSeq(segs, 1, i)) = f[i]
<1> DEFINE s == [k \in DOMAIN segs |-> SegmentText(segs[k])]
           x == SubSeq(segs, 1, i)
           y == SubSeq(s, 1, i)
<1>1. /\ s \in Seq(Seq(Line)) /\ Len(s) = Len(segs)
      /\ Len(segs) \in Nat /\ DOMAIN segs = 1..Len(segs)
  BY TextsAre, LenProperties
<1>2. \A k \in 1..Len(segs) : s[k] = SegmentText(segs[k])
  BY <1>1
<1>3. Concatenates(f, s, Line)
  OBVIOUS
<1> HIDE DEF s
<1>4. FlattenSeq(y) = f[i]
  BY <1>1, <1>3, FlattenPrefix
<1>5. 1 \in Nat \ {0} /\ i \in Nat /\ i <= Len(segs) /\ (i - 1) + 1 = i
      /\ (IF 1 <= i THEN (i - 1) + 1 ELSE 0) = i
      /\ \A k \in 1..i : (1 + k) - 1 = k /\ k \in 1..Len(segs)
  BY <1>1
<1>6. x \in Seq(Segment) /\ Len(x) = i /\ \A k \in 1..i : x[k] = segs[k]
  <2>1. /\ SubSeq(segs, 1, i) \in Seq(Segment)
        /\ Len(SubSeq(segs, 1, i)) = IF 1 <= i THEN i - 1 + 1 ELSE 0
        /\ \A k \in 1..(i - 1 + 1) : SubSeq(segs, 1, i)[k] = segs[1 + k - 1]
    BY <1>5, SubSeqIs
  <2> HIDE DEF x
  <2> QED
    BY <1>5, <2>1 DEF x
<1>7. y \in Seq(Seq(Line)) /\ Len(y) = i /\ \A k \in 1..i : y[k] = s[k]
  <2>1. /\ SubSeq(s, 1, i) \in Seq(Seq(Line))
        /\ Len(SubSeq(s, 1, i)) = IF 1 <= i THEN i - 1 + 1 ELSE 0
        /\ \A k \in 1..(i - 1 + 1) : SubSeq(s, 1, i)[k] = s[1 + k - 1]
    BY <1>1, <1>5, SubSeqIs
  <2> QED
    BY <1>5, <2>1
<1> HIDE DEF x, y
<1>8. [k \in DOMAIN x |-> SegmentText(x[k])] = y
  <2>1. DOMAIN x = 1..i /\ DOMAIN y = 1..i /\ y = [k \in 1..i |-> y[k]]
    BY <1>6, <1>7, LenProperties
  <2>2. \A k \in 1..i : SegmentText(x[k]) = y[k]
    BY <1>2, <1>5, <1>6, <1>7
  <2> QED
    BY <2>1, <2>2
<1>9. Text(x) = f[i]
  BY <1>4, <1>8 DEF Text
<1> QED
  BY <1>9 DEF x

LEMMA CursorAtLineIs ==
  ASSUME NEW A, Sort(A), NEW segs \in Seq(A), PaddedSegs(segs), NEW line \in Nat \ {0}
  PROVE  /\ Document(segs, CursorAtLine(segs, line)) \in Docs(A)
         /\ Document(segs, CursorAtLine(segs, line)).segs = segs
<1>1. /\ Len(segs) \in Nat /\ 1 \in 1..Len(segs) /\ segs[1].kind = "prose"
      /\ DOMAIN segs = 1..Len(segs) /\ Len(segs) \in 1..Len(segs)
  BY LenProperties DEF PaddedSegs, IsProse
<1>2. segs \in Seq(Segment)
  BY SeqMonotonic DEF Sort
<1>3. CASE line > Len(Text(segs))
  <2>1. CursorAtLine(segs, line) = InProse(Len(segs))
    BY <1>3 DEF CursorAtLine
  <2> QED
    BY <1>1, <2>1, MakeDoc DEF InProse
<1>4. CASE ~(line > Len(Text(segs)))
  <2> DEFINE s == [k \in DOMAIN segs |-> SegmentText(segs[k])]
             Here1(i) == /\ Len(Text(SubSeq(segs, 1, i - 1))) < line
                         /\ line <= Len(Text(SubSeq(segs, 1, i)))
             i0 == CHOOSE i \in DOMAIN segs : Here1(i)
  <2>1. s \in Seq(Seq(Line)) /\ Len(s) = Len(segs)
    BY <1>2, TextsAre
  <2>2. PICK f : Concatenates(f, s, Line)
    <3> HIDE DEF s
    <3> QED
      BY <2>1, ConcatenatesExists
  <2>3. \A i \in 0..Len(segs) : Text(SubSeq(segs, 1, i)) = f[i]
    BY <1>2, <2>2, TextOfFirst
  <2> HIDE DEF s
  <2>4. /\ \A i \in 0..Len(segs) : f[i] \in Seq(Line) /\ Len(f[i]) \in Nat
        /\ Len(f[0]) = 0
    BY <2>1, <2>2, LenProperties, EmptySeq DEF Concatenates
  <2>5. Text(segs) = f[Len(segs)]
    <3>1. SubSeq(segs, 1, Len(segs)) = segs
      BY SubSeqFull
    <3>2. Len(segs) \in 0..Len(segs)
      BY <1>1
    <3>3. Text(SubSeq(segs, 1, Len(segs))) = f[Len(segs)]
      BY <2>3, <3>2
    <3> QED
      BY <3>1, <3>3
  <2> DEFINE P == {k \in 1..Len(segs) : line <= Len(f[k])}
  <2>6. P \subseteq Nat /\ P # {}
    <3>1. line <= Len(f[Len(segs)])
      BY <1>1, <1>4, <2>4, <2>5
    <3> QED
      BY <1>1, <3>1
  <2>7. PICK k \in P : \A m \in P : k <= m
    <3> HIDE DEF P
    <3> QED
      BY <2>6, LeastMember
  <2>8. Len(f[k - 1]) < line
    <3>1. CASE k = 1
      <4>1. k - 1 = 0
        BY <3>1
      <4> QED
        BY <2>4, <4>1
    <3>2. CASE k # 1
      <4>1. k - 1 \in 1..Len(segs) /\ k - 1 \in 0..Len(segs) /\ ~(k <= k - 1)
        BY <1>1, <3>2
      <4>2. k - 1 \notin P
        BY <2>7, <4>1
      <4>3. Len(f[k - 1]) \in Nat
        BY <2>4, <4>1
      <4> QED
        BY <4>1, <4>2, <4>3
    <3> QED
      BY <3>1, <3>2
  <2>9. Here1(k) /\ k \in DOMAIN segs
    <3>1. k \in 0..Len(segs) /\ k - 1 \in 0..Len(segs) /\ k \in 1..Len(segs)
      BY <1>1
    <3> QED
      BY <1>1, <2>3, <2>8, <3>1
  <2>10. CursorAtLine(segs, line) = At(segs, i0)
    BY <1>4 DEF CursorAtLine
  <2> HIDE DEF Here1
  <2>11. i0 \in 1..Len(segs)
    BY <1>1, <2>9
  <2> HIDE DEF i0
  <2> QED
    BY <1>1, <2>10, <2>11, CursorAt
<1> QED
  BY <1>3, <1>4

LEMMA GlobalLineIs ==
  ASSUME NEW segs \in Seq(Segment), NEW i \in 1..Len(segs), NEW j \in Nat \ {0}
  PROVE  GlobalLine(segs, i, j) \in Nat \ {0}
<1> DEFINE before == Len(Text(SubSeq(segs, 1, i - 1)))
           size == Len(SegmentText(segs[i]))
<1>1. before \in Nat
  <2>1. 1 \in Nat \ {0} /\ i - 1 \in Nat /\ i - 1 <= Len(segs)
    BY LenProperties
  <2>2. SubSeq(segs, 1, i - 1) \in Seq(Segment)
    BY <2>1, SubSeqIs
  <2> QED
    BY <2>2, TextsAre, LenProperties
<1>2. size \in Nat
  <2>1. segs[i] \in Segment
    BY ElementOfSeq
  <2>2. SegmentText(segs[i]) \in Seq(Line)
    BY <2>1 DEF Segment, SegmentText
  <2> QED
    BY <2>2, LenProperties
<1>3. GlobalLine(segs, i, j)
         = IF j <= size THEN before + j ELSE before + size + (IF size = 0 THEN 1 ELSE 0)
  BY DEF GlobalLine
<1> HIDE DEF before, size
<1> QED
  BY <1>1, <1>2, <1>3

(* The first header of a text starts a block.                              *)
LEMMA HeaderStarts ==
  ASSUME NEW text \in Seq(Line), NEW j \in 1..Len(text), text[j] \in Headers
  PROVE  Starts(text) # {}
<1> DEFINE S == {k \in 1..Len(text) : text[k] \in Headers}
<1>1. S \subseteq Nat /\ S # {} /\ Len(text) \in Nat /\ DOMAIN text = 1..Len(text)
  BY LenProperties
<1>2. PICK k \in S : \A m \in S : k <= m
  <2> HIDE DEF S
  <2> QED
    BY <1>1, LeastMember
<1>3. \A m \in 1..(k - 1) : text[m] \notin Headers
  <2> SUFFICES ASSUME NEW m \in 1..(k - 1), text[m] \in Headers
               PROVE  FALSE
    OBVIOUS
  <2>1. m \in S /\ ~(k <= m)
    BY <1>1
  <2> QED
    BY <1>2, <2>1
<1>4. k \in Starts(text)
  BY <1>1, <1>2, <1>3 DEF Starts
<1> QED
  BY <1>4

LEMMA WithCursorIs ==
  ASSUME NEW A, NEW d \in Docs(A), NEW k \in {"prose", "block", "result"},
         NEW i \in 1..Len(d.segs), k # "prose" => d.segs[i].kind = "block"
  PROVE  /\ [d EXCEPT !.cursor = [kind |-> k, seg |-> i]] \in Docs(A)
         /\ [d EXCEPT !.cursor = [kind |-> k, seg |-> i]].segs = d.segs
<1> DEFINE c == [kind |-> k, seg |-> i]
           segs == d.segs
<1>1. segs \in Seq(A) /\ segs[1].kind = "prose" /\ d = [segs |-> segs, cursor |-> d.cursor]
  BY DocIs
<1>2. i \in 1..Len(segs) /\ (k # "prose" => segs[i].kind = "block")
  OBVIOUS
<1> HIDE DEF segs
<1>3. Document(segs, [kind |-> k, seg |-> i]) \in Docs(A)
  BY <1>1, <1>2, MakeDoc
<1>4. Document(segs, c) \in Docs(A)
  BY <1>3
<1> HIDE DEF c
<1>5. [d EXCEPT !.cursor = c] = Document(segs, c)
  BY <1>1 DEF Document
<1>6. Document(segs, c).segs = segs
  BY DEF Document
<1> QED
  BY <1>4, <1>5, <1>6 DEF c, segs

(* Fields are written to by a form.                                        *)
LEMMA WithFieldsIs ==
  ASSUME NEW d \in Docs(Segment), NEW i \in 1..Len(d.segs), NEW h \in Headers
  PROVE  /\ [d EXCEPT !.segs[i].fields[1] = h] \in Docs(Segment)
         /\ PaddedSegs(d.segs) => PaddedSegs([d EXCEPT !.segs[i].fields[1] = h].segs)
<1> DEFINE old == d.segs[i]
           fields == [old.fields EXCEPT ![1] = h]
           s == [old EXCEPT !.fields = fields]
           segs == d.segs
           t == [segs EXCEPT ![i] = s]
<1>1. /\ segs \in Seq(Segment) /\ i \in 1..Len(segs) /\ old \in Segment /\ 1 \in 1..Len(segs)
      /\ d.cursor.seg \in 1..Len(segs) /\ d.cursor.kind \in {"prose", "block", "result"}
      /\ d.cursor.kind # "prose" => segs[d.cursor.seg].kind = "block"
      /\ segs[1].kind = "prose"
      /\ d = [segs |-> segs, cursor |-> d.cursor]
      /\ d.cursor = [kind |-> d.cursor.kind, seg |-> d.cursor.seg]
  BY DocIs
<1>2. fields \in Seq(Line)
  <2> DEFINE f == old.fields
  <2>1. f \in Seq(Line) /\ h \in Line
    BY <1>1 DEF Segment, Line
  <2>2. Len(f) \in Nat /\ DOMAIN f = 1..Len(f) /\ \A k \in 1..Len(f) : f[k] \in Line
    BY <2>1, LenProperties, ElementOfSeq
  <2>3. fields = [f EXCEPT ![1] = h]
    OBVIOUS
  <2> HIDE DEF f, fields
  <2>4. fields = [k \in 1..Len(f) |-> fields[k]] /\ \A k \in 1..Len(f) : fields[k] \in Line
    BY <2>1, <2>2, <2>3
  <2> QED
    BY <2>2, <2>4, FunctionIsSeq
<1> HIDE DEF fields
<1>3. s \in Segment /\ s.kind = old.kind
  BY <1>1, <1>2 DEF Segment
<1>4. [d EXCEPT !.segs[i].fields[1] = h] = [d EXCEPT !.segs = t]
  BY <1>1 DEF fields
<1>5. old = segs[i]
  OBVIOUS
<1> HIDE DEF s, old
<1>6. /\ t \in Seq(Segment) /\ Len(t) = Len(segs) /\ t[i] = s
      /\ \A k \in 1..Len(segs) : k # i => t[k] = segs[k]
  <2> HIDE DEF segs
  <2> QED
    BY <1>1, <1>3, ReplaceIs
<1> HIDE DEF t
<1>7. \A k \in 1..Len(segs) : t[k].kind = segs[k].kind
  BY <1>3, <1>5, <1>6
<1>8. [d EXCEPT !.segs = t] = Document(t, d.cursor)
  BY <1>1 DEF Document
<1> DEFINE j == d.cursor.seg
           k0 == d.cursor.kind
<1>9. d.cursor = [kind |-> k0, seg |-> j] /\ j \in 1..Len(t) /\ k0 \in {"prose", "block", "result"}
      /\ (k0 # "prose" => t[j].kind = "block") /\ t[1].kind = "prose"
  BY <1>1, <1>6, <1>7
<1>10. Document(t, [kind |-> k0, seg |-> j]) \in Docs(Segment)
  <2> HIDE DEF j, k0, segs
  <2> QED
    BY <1>6, <1>9, MakeDoc
<1>11. ASSUME PaddedSegs(segs)
       PROVE  PaddedSegs(t)
  <2> HIDE DEF segs
  <2> QED
    BY <1>1, <1>6, <1>7, <1>11, FewerBlocks
<1>12. Document(t, d.cursor).segs = t
  BY DEF Document
<1> QED
  BY <1>4, <1>8, <1>9, <1>10, <1>11, <1>12

(* The raw of the block under the cursor is edited, and reparsed.          *)
LEMMA WithBlockRawIs ==
  ASSUME NEW A, Suitable(A), NEW d \in Docs(A), d.cursor.kind = "block",
         NEW text \in Seq(Line)
  PROVE  LET e == [d EXCEPT !.segs[d.cursor.seg] = ReparseFromRaw([@ EXCEPT !.raw = text])]
         IN e \in Docs(A) /\ (PaddedSegs(d.segs) => PaddedSegs(e.segs))
<1> DEFINE i == d.cursor.seg
           old == d.segs[i]
           b == ReparseFromRaw([old EXCEPT !.raw = text])
           segs == d.segs
           t == [segs EXCEPT ![i] = b]
           e == [d EXCEPT !.segs[i] = ReparseFromRaw([@ EXCEPT !.raw = text])]
<1>1. /\ segs \in Seq(A) /\ i \in 1..Len(segs) /\ old \in Segment /\ 1 \in 1..Len(segs)
      /\ old.kind = "block" /\ segs[1].kind = "prose" /\ i # 1
      /\ d = [segs |-> segs, cursor |-> d.cursor]
      /\ d.cursor = [kind |-> "block", seg |-> i]
  BY DocIs DEF Suitable, Sort
<1>2. b \in A /\ b.kind = "block"
  <2>1. [old EXCEPT !.raw = text] \in Segment /\ [old EXCEPT !.raw = text].kind = "block"
    BY <1>1 DEF Segment
  <2> QED
    BY <2>1, ReparseType DEF Suitable
<1>3. e = [d EXCEPT !.segs = t]
  BY <1>1
<1>4. old = segs[i]
  OBVIOUS
<1> HIDE DEF b, old, e
<1>5. /\ t \in Seq(A) /\ Len(t) = Len(segs) /\ t[i] = b
      /\ \A k \in 1..Len(segs) : k # i => t[k] = segs[k]
  <2> HIDE DEF segs, i
  <2> QED
    BY <1>1, <1>2, ReplaceIs
<1> HIDE DEF t
<1>6. [d EXCEPT !.segs = t] = Document(t, [kind |-> "block", seg |-> i])
  BY <1>1 DEF Document
<1>7. t[1].kind = "prose" /\ i \in 1..Len(t) /\ t[i].kind = "block"
  BY <1>1, <1>2, <1>5
<1>8. /\ Document(t, [kind |-> "block", seg |-> i]) \in Docs(A)
      /\ Document(t, [kind |-> "block", seg |-> i]).segs = t
  <2> HIDE DEF segs, i
  <2> QED
    BY <1>5, <1>7, MakeDoc
<1>9. ASSUME PaddedSegs(segs)
      PROVE  PaddedSegs(t)
  <2>1. segs \in Seq(Segment) /\ t \in Seq(Segment)
    BY <1>1, <1>5, SeqMonotonic DEF Suitable, Sort
  <2>2. \A k \in 1..Len(segs) : t[k].kind = "block" => segs[k].kind = "block"
    BY <1>1, <1>4, <1>5
  <2> HIDE DEF segs
  <2> QED
    BY <1>5, <1>9, <2>1, <2>2, FewerBlocks
<1> QED
  BY <1>3, <1>6, <1>8, <1>9 DEF e

-----------------------------------------------------------------------------
(* The invariant.                                                          *)

(* What is known of every document, the present one and those that undo    *)
(* and redo would bring back, and the reasons that end it.                 *)
PaddedDocs == {d \in Docs(Segment) : PaddedSegs(d.segs)}

Kind(n) == IF n = "padded" THEN PaddedDocs
           ELSE IF n = "follows" THEN Docs(FollowingSegment) ELSE Docs(Segment)

Guaranteed == {"any"} \cup (IF "slot" \in lost THEN {} ELSE {"padded"})
                      \cup (IF "form" \in lost THEN {} ELSE {"follows"})

Everywhere(S) == doc \in S /\ past \in Seq(S) /\ future \in Seq(S)

KindsKept == \A n \in Guaranteed : Everywhere(Kind(n))

(* What undoing everything would give; all its blocks are exact.  Nothing  *)
(* is typed before it has been put on the stack.                           *)
First == IF past = <<>> THEN doc ELSE Head(past)

BaseKept ==
  lost \subseteq {"form"} => /\ First \in Docs(ExactSegment) /\ Text(First.segs) = base
                             /\ past = <<>> => mode # "insert"

CleanIsSaved == ~dirty /\ "form" \notin lost => Text(doc.segs) = saved

Scalars ==
  /\ dirty \in BOOLEAN
  /\ mode \in {"normal", "insert", "visual", "form"}
  /\ anchor \in Nat
  /\ register \in Seq(Line)
  /\ disk \in Seq(Line)
  /\ changed \in BOOLEAN
  /\ crashed \in BOOLEAN
  /\ edits \in 0..MaxEdits
  /\ saved \in Seq(Line)
  /\ base \in Seq(Line)
  /\ lost \subseteq {"capacity", "slot", "text", "reload", "form"}

IInv == Scalars /\ Len(past) <= Capacity /\ KindsKept /\ BaseKept /\ CleanIsSaved

LEMMA KindsAre ==
  ASSUME NEW n, NEW d \in Kind(n)
  PROVE  /\ d \in Docs(Segment)
         /\ n = "padded" => PaddedSegs(d.segs)
         /\ n = "follows" => d \in Docs(FollowingSegment)
<1>1. Docs(FollowingSegment) \subseteq Docs(Segment)
  BY DocsGrow DEF FollowingSegment
<1> QED
  BY <1>1 DEF Kind, PaddedDocs

(* A document is of a kind if it is one of either sort of segments and     *)
(* padded when it must be.                                                 *)
LEMMA IsOfKind ==
  ASSUME NEW n, NEW d, n # "follows" => d \in Docs(Segment),
         n = "follows" => d \in Docs(FollowingSegment), n = "padded" => PaddedSegs(d.segs)
  PROVE  d \in Kind(n)
BY DEF Kind, PaddedDocs

SortOf(n) == IF n = "follows" THEN FollowingSegment ELSE Segment

LEMMA SortOfSuits ==
  ASSUME NEW n
  PROVE  /\ Suitable(SortOf(n)) /\ Sort(SortOf(n))
         /\ Kind(n) = {d \in Docs(SortOf(n)) : n = "padded" => PaddedSegs(d.segs)}
BY SegmentSuits, FollowingSuits DEF SortOf, Kind, PaddedDocs

LEMMA EnteredOfKind ==
  ASSUME NEW n, NEW d \in Kind(n)
  PROVE  Entered(d) \in Kind(n)
<1> DEFINE A == SortOf(n)
<1>1. Sort(A) /\ Kind(n) = {e \in Docs(A) : n = "padded" => PaddedSegs(e.segs)}
  BY SortOfSuits
<1> HIDE DEF A
<1>2. d \in Docs(A) /\ (n = "padded" => PaddedSegs(d.segs))
  BY <1>1
<1>3. Entered(d) \in Docs(A) /\ (PaddedSegs(d.segs) => PaddedSegs(Entered(d).segs))
  BY <1>1, <1>2, EnteredIs
<1> QED
  BY <1>1, <1>2, <1>3

LEMMA LoadOfKind ==
  ASSUME NEW n, NEW text \in Seq(Line), ~Panics(text)
  PROVE  Load(text) \in Kind(n)
<1>1. Load(text) \in Docs(ExactSegment) /\ PaddedSegs(Load(text).segs)
  BY LoadIs
<1>2. ExactSegment \subseteq SortOf(n)
  BY SortOfSuits DEF Sort
<1>3. Load(text) \in Docs(SortOf(n))
  BY <1>1, <1>2, DocsGrow
<1> QED
  BY <1>1, <1>3, SortOfSuits

(* A command that acted, in a swap, on the text of the segment only.       *)
LEMMA ChangedInPlace ==
  ASSUME NEW n, NEW d \in Kind(n), d.cursor = At(d.segs, d.cursor.seg),
         NEW text \in Seq(Line)
  PROVE  Exited(d, WithRaw(Entered(d), d.cursor.seg, text)) \in Kind(n)
<1> DEFINE A == SortOf(n)
           i == d.cursor.seg
           e == Entered(d)
           done == WithRaw(e, i, text)
<1>1. /\ Suitable(A) /\ Sort(A)
      /\ Kind(n) = {x \in Docs(A) : n = "padded" => PaddedSegs(x.segs)}
  BY SortOfSuits
<1> HIDE DEF A
<1>2. d \in Docs(A) /\ (n = "padded" => PaddedSegs(d.segs)) /\ d \in Docs(Segment)
  BY <1>1, KindsAre
<1>3. i \in 1..Len(d.segs) /\ d.segs[i].kind \in {"prose", "block"}
  <2>1. i \in 1..Len(d.segs) /\ d.segs[i] \in Segment
    BY <1>2, DocIs
  <2> QED
    BY <2>1 DEF Segment
<1>4. /\ e \in Docs(A) /\ Len(e.segs) = Len(d.segs)
      /\ PaddedSegs(d.segs) => PaddedSegs(e.segs)
      /\ d.cursor.kind # "block" => e = d
      /\ d.cursor.kind = "block" => e.segs[i] = Prose(d.segs[i].raw)
      /\ \A k \in 1..Len(d.segs) : ~(d.cursor.kind = "block" /\ k = i) => e.segs[k] = d.segs[k]
  BY <1>1, <1>2, EnteredIs
<1>5. e.segs[i].kind = "prose"
  <2>1. CASE d.cursor.kind = "block"
    <3>1. Prose(d.segs[i].raw).kind = "prose"
      BY DEF Prose
    <3> QED
      BY <1>4, <2>1, <3>1
  <2>2. CASE d.cursor.kind # "block"
    <3>1. d.segs[i].kind = "prose"
      BY <1>3, <2>2 DEF At, InBlock
    <3> QED
      BY <1>4, <2>2, <3>1
  <2> QED
    BY <2>1, <2>2
<1> HIDE DEF e
<1>6. /\ done \in Docs(A) /\ Len(done.segs) = Len(e.segs)
      /\ PaddedSegs(e.segs) => PaddedSegs(done.segs)
      /\ \A k \in 1..Len(e.segs) : k # i => done.segs[k] = e.segs[k]
  <2>1. i \in 1..Len(e.segs)
    BY <1>3, <1>4
  <2> HIDE DEF i
  <2> QED
    BY <1>1, <1>4, <1>5, <2>1, WithRawIs
<1> HIDE DEF done
<1>7. Exited(d, done) \in Docs(A)
  BY <1>1, <1>2, <1>6, ExitStays
<1>8. ASSUME n = "padded"
      PROVE  PaddedSegs(Exited(d, done).segs)
  <2>1. PaddedSegs(d.segs) /\ PaddedSegs(done.segs) /\ Len(done.segs) = Len(d.segs)
    BY <1>2, <1>4, <1>6, <1>8
  <2>2. \A k \in 1..Len(d.segs) :
           k # d.cursor.seg => (done.segs[k].kind = "block" => d.segs[k].kind = "block")
    BY <1>4, <1>6
  <2>3. done \in Docs(Segment)
    BY <1>1, <1>6, DocsGrow DEF Sort
  <2> QED
    BY <1>2, <2>1, <2>2, <2>3, ExitSamePlace
<1> QED
  BY <1>1, <1>7, <1>8 DEF done, e

(* A command that left the text alone.                                     *)
LEMMA OnlySwapped ==
  ASSUME NEW n, NEW d \in Kind(n), NEW done \in Kind(n), done.segs = Entered(d).segs
  PROVE  /\ Exited(d, done) \in Kind(n)
         /\ d \in Docs(FollowingSegment) => Exited(d, done).segs = d.segs
<1> DEFINE A == SortOf(n)
<1>1. /\ Suitable(A)
      /\ Kind(n) = {x \in Docs(A) : n = "padded" => PaddedSegs(x.segs)}
  BY SortOfSuits
<1> HIDE DEF A
<1>2. d \in Docs(A) /\ done \in Docs(A) /\ (n = "padded" => PaddedSegs(d.segs))
  BY <1>1
<1>3. d \in Docs(Segment) /\ done \in Docs(Segment)
  BY KindsAre
<1>4. Exited(d, done) \in Docs(A)
  BY <1>1, <1>2, ExitStays
<1>5. /\ PaddedSegs(d.segs) => PaddedSegs(Exited(d, done).segs)
      /\ d \in Docs(FollowingSegment) => Exited(d, done).segs = d.segs
  BY <1>3, ExitAgain
<1> QED
  BY <1>1, <1>2, <1>4, <1>5

(* A document that an exit from a swap acts on, whatever it is.            *)
LEMMA PutBackOfKind ==
  ASSUME NEW n, doc \in Kind(n), NEW done \in Kind(n),
         n = "padded" => "slot" \notin Missed(done)
  PROVE  Exited(doc, done) \in Kind(n)
<1> DEFINE A == SortOf(n)
<1>1. /\ Suitable(A)
      /\ Kind(n) = {x \in Docs(A) : n = "padded" => PaddedSegs(x.segs)}
  BY SortOfSuits
<1> HIDE DEF A
<1>2. doc \in Docs(A) /\ done \in Docs(A) /\ (n = "padded" => PaddedSegs(done.segs))
  BY <1>1
<1>3. doc \in Docs(Segment) /\ done \in Docs(Segment)
  BY KindsAre
<1>4. Exited(doc, done) \in Docs(A)
  BY <1>1, <1>2, ExitStays
<1>5. ASSUME n = "padded"
      PROVE  PaddedSegs(Exited(doc, done).segs)
  <2>1. doc.cursor.kind = "block" /\ doc.cursor.seg \in DOMAIN done.segs
           => \A k \in {doc.cursor.seg - 1, doc.cursor.seg, doc.cursor.seg + 1} :
                 IsProse(done.segs, k)
    BY <1>5 DEF Missed, Cursor
  <2>2. PaddedSegs(done.segs)
    BY <1>2, <1>5
  <2> QED
    BY <1>3, <2>1, <2>2, ExitPadded
<1> QED
  BY <1>1, <1>4, <1>5

Rest == Len(past) <= Capacity /\ KindsKept /\ BaseKept /\ CleanIsSaved

-----------------------------------------------------------------------------
(* The ways in which a step may change a note and what it remembers.       *)

Pushed(d) == past' = Append(IF Len(past) = Capacity THEN Tail(past) ELSE past, d)

LEMMA PushedIs ==
  ASSUME NEW S, NEW d \in S, past \in Seq(S), Len(past) <= Capacity, Pushed(d)
  PROVE  /\ past' \in Seq(S) /\ past' # <<>> /\ Len(past') <= Capacity
         /\ Len(past) # Capacity => Head(past') = IF past = <<>> THEN d ELSE Head(past)
<1> DEFINE kept == IF Len(past) = Capacity THEN Tail(past) ELSE past
<1>1. Len(past) \in Nat /\ Capacity \in Nat \ {0}
  BY LenProperties, DocumentAssumption
<1>2. kept \in Seq(S) /\ Len(kept) \in Nat /\ Len(kept) + 1 <= Capacity
  <2>1. CASE Len(past) = Capacity
    <3>1. past # <<>>
      BY <1>1, <2>1, EmptySeq
    <3>2. Tail(past) \in Seq(S) /\ Len(Tail(past)) = Len(past) - 1
      BY <3>1, HeadTailProperties
    <3>3. kept = Tail(past)
      BY <2>1
    <3> HIDE DEF kept
    <3> QED
      BY <1>1, <2>1, <3>2, <3>3
  <2>2. CASE Len(past) # Capacity
    <3>1. kept = past
      BY <2>2
    <3> HIDE DEF kept
    <3> QED
      BY <1>1, <2>2, <3>1
  <2> QED
    BY <2>1, <2>2
<1>3. past' = Append(kept, d)
  BY DEF Pushed
<1>4. Len(past) # Capacity => kept = past
  OBVIOUS
<1> HIDE DEF kept
<1>5. Append(kept, d) \in Seq(S) /\ Append(kept, d) # <<>> /\ Len(Append(kept, d)) = Len(kept) + 1
  BY <1>2, AppendProperties
<1>6. Head(Append(kept, d)) = IF kept = <<>> THEN d ELSE Head(kept)
  BY <1>2, HeadTailAppend
<1> QED
  BY <1>2, <1>3, <1>4, <1>5, <1>6

(* The note is looked at: if every block follows its raw, nothing changes. *)
LEMMA Looked ==
  ASSUME Rest, UNCHANGED <<dirty, undoVars, histVars>>, mode' = "insert" => mode = "insert",
         \A n \in Guaranteed : doc' \in Kind(n),
         doc \in Docs(FollowingSegment) => doc'.segs = doc.segs
  PROVE  Rest'
<1>1. /\ past' = past /\ future' = future /\ dirty' = dirty
      /\ saved' = saved /\ base' = base /\ lost' = lost
  BY DEF undoVars, histVars
<1>2. Len(past') <= Capacity
  BY <1>1 DEF Rest
<1>3. KindsKept'
  BY <1>1 DEF Rest, KindsKept, Everywhere, Guaranteed
<1>4. BaseKept'
  <2> SUFFICES ASSUME lost \subseteq {"form"}
               PROVE  /\ First' \in Docs(ExactSegment) /\ Text(First'.segs) = base
                      /\ past = <<>> => mode' # "insert"
    BY <1>1 DEF BaseKept
  <2>1. /\ First \in Docs(ExactSegment) /\ Text(First.segs) = base
        /\ past = <<>> => mode # "insert"
    BY DEF Rest, BaseKept
  <2>2. CASE past # <<>>
    <3>1. First' = First
      BY <1>1, <2>2 DEF First
    <3> QED
      BY <2>1, <2>2, <3>1
  <2>3. CASE past = <<>>
    <3>1. First' = doc' /\ First = doc
      BY <1>1, <2>3 DEF First
    <3>2. doc \in Docs(ExactSegment) /\ doc \in Docs(FollowingSegment)
      BY <2>1, <3>1, DocsGrow, FollowingSuits DEF Sort
    <3>3. doc'.segs = doc.segs
      BY <3>2
    <3>4. doc' \in Docs(Segment)
      <4>1. "any" \in Guaranteed
        BY DEF Guaranteed
      <4> QED
        BY <4>1, KindsAre
    <3>5. doc' \in Docs(ExactSegment)
      <4>1. doc'.segs \in Seq(ExactSegment)
        BY <3>2, <3>3, DocIs
      <4>2. doc' \in [segs : Seq(ExactSegment), cursor : CursorSet]
        BY <3>4, <4>1 DEF Docs
      <4> QED
        BY <3>4, <4>2 DEF Docs
    <3> QED
      BY <2>1, <3>1, <3>3, <3>5
  <2> QED
    BY <2>2, <2>3
<1>5. CleanIsSaved'
  <2> SUFFICES ASSUME ~dirty, "form" \notin lost
               PROVE  Text(doc'.segs) = saved
    BY <1>1 DEF CleanIsSaved
  <2>1. Text(doc.segs) = saved
    BY DEF Rest, CleanIsSaved
  <2>2. doc \in Kind("follows")
    BY DEF Rest, KindsKept, Everywhere, Guaranteed
  <2>3. doc'.segs = doc.segs
    BY <2>2, KindsAre
  <2> QED
    BY <2>1, <2>3
<1> QED
  BY <1>2, <1>3, <1>4, <1>5 DEF Rest

(* The note is put on the stack and changed.                               *)
LEMMA Remembered ==
  ASSUME Rest, NEW d, d = doc \/ d = Entered(doc), Pushed(d),
         \A n \in Guaranteed' : future' \in Seq(Kind(n)),
         base' = base, saved' = saved, lost \subseteq lost', Forgotten \subseteq lost',
         \A n \in Guaranteed' : doc' \in Kind(n),
         dirty' \/ "form" \in lost' \/ (dirty' = dirty /\ doc'.segs = doc.segs)
  PROVE  Rest'
<1>1. \A n \in Guaranteed' : n \in Guaranteed /\ Everywhere(Kind(n))
  BY DEF Rest, KindsKept, Guaranteed
<1>2. \A n \in Guaranteed : d \in Kind(n)
  <2>1. \A n \in Guaranteed : doc \in Kind(n)
    BY DEF Rest, KindsKept, Everywhere
  <2> QED
    BY <2>1, EnteredOfKind
<1>3. Len(past) <= Capacity
  BY DEF Rest
<1>4. ASSUME NEW n \in Guaranteed'
      PROVE  /\ past' \in Seq(Kind(n)) /\ past' # <<>> /\ Len(past') <= Capacity
             /\ Len(past) # Capacity => Head(past') = IF past = <<>> THEN d ELSE Head(past)
  <2>1. d \in Kind(n) /\ past \in Seq(Kind(n))
    BY <1>1, <1>2 DEF Everywhere
  <2> QED
    BY <1>3, <2>1, PushedIs
<1>5. "any" \in Guaranteed'
  BY DEF Guaranteed
<1>6. KindsKept'
  BY <1>4 DEF KindsKept, Everywhere
<1>7. BaseKept'
  <2> SUFFICES ASSUME lost' \subseteq {"form"}
               PROVE  First' \in Docs(ExactSegment) /\ Text(First'.segs) = base /\ past' # <<>>
    BY DEF BaseKept
  <2>1. lost \subseteq {"form"} /\ Len(past) # Capacity
    BY DEF Forgotten
  <2>2. First \in Docs(ExactSegment) /\ Text(First.segs) = base
    BY <2>1 DEF Rest, BaseKept
  <2>3. past' # <<>> /\ First' = IF past = <<>> THEN d ELSE Head(past)
    BY <1>4, <1>5, <2>1 DEF First
  <2>4. CASE past = <<>>
    <3>1. First = doc /\ First' = d
      BY <2>3, <2>4 DEF First
    <3>2. doc \in Docs(ExactSegment) /\ Text(doc.segs) = base
      BY <2>2, <3>1
    <3>3. Entered(doc) \in Docs(ExactSegment) /\ Text(Entered(doc).segs) = base
      BY <3>2, EnteredExact
    <3> QED
      BY <2>3, <3>1, <3>2, <3>3
  <2>5. CASE past # <<>>
    <3>1. First' = First
      BY <2>3, <2>5 DEF First
    <3> QED
      BY <2>2, <2>3, <3>1
  <2> QED
    BY <2>4, <2>5
<1>8. CleanIsSaved'
  <2> SUFFICES ASSUME ~dirty', "form" \notin lost'
               PROVE  Text(doc'.segs) = saved
    BY DEF CleanIsSaved
  <2>1. dirty' = dirty /\ doc'.segs = doc.segs /\ "form" \notin lost
    OBVIOUS
  <2>2. Text(doc.segs) = saved
    BY <2>1 DEF Rest, CleanIsSaved
  <2> QED
    BY <2>1, <2>2
<1> QED
  BY <1>4, <1>5, <1>6, <1>7, <1>8 DEF Rest

LEMMA Edited ==
  ASSUME Rest, NEW d, d = doc \/ d = Entered(doc), Snapshot(d),
         base' = base, saved' = saved, lost \subseteq lost', Forgotten \subseteq lost',
         \A n \in Guaranteed' : doc' \in Kind(n),
         dirty' \/ "form" \in lost' \/ (dirty' = dirty /\ doc'.segs = doc.segs)
  PROVE  Rest'
<1>1. Pushed(d) /\ future' = <<>>
  BY DEF Snapshot, Pushed
<1>2. \A n \in Guaranteed' : future' \in Seq(Kind(n))
  BY <1>1, EmptySeq
<1> QED
  BY <1>1, <1>2, Remembered

(* The note is changed in insert mode, whose snapshot has been taken.      *)
LEMMA Inserted ==
  ASSUME Rest, mode = "insert", UNCHANGED <<undoVars, histVars>>, dirty',
         \A n \in Guaranteed : doc' \in Kind(n)
  PROVE  Rest'
<1>1. past' = past /\ future' = future /\ saved' = saved /\ base' = base /\ lost' = lost
  BY DEF undoVars, histVars
<1>2. KindsKept'
  BY <1>1 DEF Rest, KindsKept, Everywhere, Guaranteed
<1>3. BaseKept'
  <2> SUFFICES ASSUME lost \subseteq {"form"}
               PROVE  First' \in Docs(ExactSegment) /\ Text(First'.segs) = base /\ past # <<>>
    BY <1>1 DEF BaseKept
  <2>1. First \in Docs(ExactSegment) /\ Text(First.segs) = base /\ past # <<>>
    BY DEF Rest, BaseKept
  <2>2. First' = First
    BY <1>1, <2>1 DEF First
  <2> QED
    BY <2>1, <2>2
<1>4. CleanIsSaved'
  BY DEF CleanIsSaved
<1> QED
  BY <1>1, <1>2, <1>3, <1>4 DEF Rest

(* The note is another one.                                                *)
LEMMA Loaded ==
  ASSUME NEW text \in Seq(Line), ~Panics(text), doc' = Load(text),
         past' = <<>>, future' = <<>>, base' = text, lost' \in {{}, {"reload"}},
         lost' = {} => mode' # "insert", dirty' \/ saved' = text
  PROVE  Rest'
<1>1. /\ doc' \in Docs(ExactSegment) /\ Text(doc'.segs) = text
      /\ \A n \in Guaranteed' : doc' \in Kind(n)
  BY LoadIs, LoadOfKind
<1>2. Len(past') <= Capacity
  <2>1. Len(<<>>) = 0
    BY EmptySeq
  <2> QED
    BY <2>1, DocumentAssumption
<1>3. KindsKept'
  BY <1>1, EmptySeq DEF KindsKept, Everywhere
<1>4. BaseKept'
  <2>1. First' = doc'
    BY DEF First
  <2> QED
    BY <1>1, <2>1 DEF BaseKept
<1>5. CleanIsSaved'
  BY <1>1 DEF CleanIsSaved
<1> QED
  BY <1>2, <1>3, <1>4, <1>5 DEF Rest


-----------------------------------------------------------------------------
(* Undo and redo.                                                          *)

(* What is taken off a stack, and what is left of it.                      *)
LEMMA PoppedIs ==
  ASSUME NEW S, NEW s \in Seq(S), s # <<>>
  PROVE  /\ s[Len(s)] \in S
         /\ SubSeq(s, 1, Len(s) - 1) \in Seq(S)
         /\ Len(SubSeq(s, 1, Len(s) - 1)) <= Len(s)
         /\ SubSeq(s, 1, Len(s) - 1) = <<>> => s[Len(s)] = Head(s)
         /\ SubSeq(s, 1, Len(s) - 1) # <<>> => Head(SubSeq(s, 1, Len(s) - 1)) = Head(s)
<1> DEFINE t == SubSeq(s, 1, Len(s) - 1)
<1>1. Len(s) \in Nat \ {0} /\ Len(s) \in 1..Len(s)
  BY EmptySeq, LenProperties
<1>2. s[Len(s)] \in S
  BY <1>1, ElementOfSeq
<1>3. /\ t \in Seq(S) /\ Len(t) = Len(s) - 1 /\ \A k \in 1..(Len(s) - 1) : t[k] = s[k]
  <2>1. 1 \in Nat \ {0} /\ Len(s) - 1 \in Nat /\ Len(s) - 1 <= Len(s)
    BY <1>1
  <2> DEFINE n == Len(s) - 1
  <2>2. n \in Nat /\ n <= Len(s)
    BY <2>1
  <2> HIDE DEF n
  <2>3. /\ SubSeq(s, 1, n) \in Seq(S)
        /\ Len(SubSeq(s, 1, n)) = IF 1 <= n THEN n - 1 + 1 ELSE 0
        /\ \A k \in 1..(n - 1 + 1) : SubSeq(s, 1, n)[k] = s[1 + k - 1]
    BY <2>1, <2>2, SubSeqIs
  <2>4. (n - 1) + 1 = n /\ (\A k \in 1..n : (1 + k) - 1 = k)
        /\ (IF 1 <= n THEN (n - 1) + 1 ELSE 0) = n
    BY <2>2
  <2>5. /\ SubSeq(s, 1, n) \in Seq(S) /\ Len(SubSeq(s, 1, n)) = n
        /\ \A k \in 1..n : SubSeq(s, 1, n)[k] = s[k]
    BY <2>3, <2>4
  <2> QED
    BY <2>5 DEF n
<1> HIDE DEF t
<1>4. ASSUME t = <<>>
      PROVE  s[Len(s)] = Head(s)
  <2>1. Len(s) = 1
    BY <1>1, <1>3, <1>4, EmptySeq
  <2>2. Head(s) = s[1]
    BY <1>1
  <2> QED
    BY <2>1, <2>2
<1>5. ASSUME t # <<>>
      PROVE  Head(t) = Head(s)
  <2>1. Len(t) # 0
    BY <1>3, <1>5, EmptySeq
  <2>2. 1 \in 1..(Len(s) - 1)
    BY <1>1, <1>3, <2>1
  <2>3. Head(s) = s[1] /\ Head(t) = t[1]
    BY <1>3
  <2> QED
    BY <1>3, <2>2, <2>3
<1> QED
  BY <1>1, <1>2, <1>3, <1>4, <1>5 DEF t

-----------------------------------------------------------------------------
(* The actions.                                                            *)

LEMMA InvariantSays ==
  ASSUME IInv
  PROVE  /\ doc \in Docs(Segment) /\ past \in Seq(Docs(Segment)) /\ future \in Seq(Docs(Segment))
         /\ doc.segs \in Seq(Segment) /\ DOMAIN doc.segs = 1..Len(doc.segs)
         /\ Cursor.seg \in 1..Len(doc.segs) /\ Cursor.seg \in Nat
         /\ Here \in Segment /\ Here.raw \in Seq(Line) /\ Here.fields \in Seq(Line)
         /\ \A n \in Guaranteed : Everywhere(Kind(n))
         /\ Scalars /\ Rest
<1>1. \A n \in Guaranteed : Everywhere(Kind(n))
  BY DEF IInv, KindsKept
<1>2. Everywhere(Docs(Segment))
  BY <1>1 DEF Guaranteed, Kind
<1>3. doc \in Docs(Segment) /\ past \in Seq(Docs(Segment)) /\ future \in Seq(Docs(Segment))
  BY <1>2 DEF Everywhere
<1>4. /\ doc.segs \in Seq(Segment) /\ DOMAIN doc.segs = 1..Len(doc.segs)
      /\ Cursor.seg \in 1..Len(doc.segs) /\ Cursor.seg \in Nat /\ Here \in Segment
  BY <1>3, DocIs DEF Cursor, Here
<1>5. Here.raw \in Seq(Line) /\ Here.fields \in Seq(Line)
  BY <1>4 DEF Segment
<1> QED
  BY <1>1, <1>3, <1>4, <1>5 DEF IInv, Rest

LEMMA FewerKinds ==
  ASSUME lost \subseteq lost'
  PROVE  Guaranteed' \subseteq Guaranteed
BY DEF Guaranteed

LEMMA Counted ==
  ASSUME Scalars, MayEdit, CountEdit
  PROVE  edits' \in 0..MaxEdits
BY DocumentAssumption DEF Scalars, MayEdit, CountEdit

LEMMA CutIs ==
  ASSUME NEW A, NEW text \in Seq(A)
  PROVE  /\ \A i \in 0..Len(text) : SubSeq(text, 1, i) \in Seq(A)
         /\ \A i \in 1..(Len(text) + 1) : SubSeq(text, i, Len(text)) \in Seq(A)
         /\ \A i \in 1..Len(text), j \in 1..Len(text) : SubSeq(text, i, j) \in Seq(A)
<1>1. Len(text) \in Nat
  BY LenProperties
<1>2. ASSUME NEW i \in 0..Len(text)
      PROVE  SubSeq(text, 1, i) \in Seq(A)
  <2>1. 1 \in Nat \ {0} /\ i \in Nat /\ i <= Len(text)
    BY <1>1
  <2> QED
    BY <2>1, SubSeqIs
<1>3. ASSUME NEW i \in 1..(Len(text) + 1)
      PROVE  SubSeq(text, i, Len(text)) \in Seq(A)
  <2>1. i \in Nat \ {0} /\ Len(text) \in Nat /\ Len(text) <= Len(text)
    BY <1>1
  <2> QED
    BY <2>1, SubSeqIs
<1>4. ASSUME NEW i \in 1..Len(text), NEW j \in 1..Len(text)
      PROVE  SubSeq(text, i, j) \in Seq(A)
  <2>1. i \in Nat \ {0} /\ j \in Nat /\ j <= Len(text)
    BY <1>1
  <2> QED
    BY <2>1, SubSeqIs
<1> QED
  BY <1>2, <1>3, <1>4

LEMMA JoinIs ==
  ASSUME NEW A, NEW x \in Seq(A), NEW y \in Seq(A), NEW z \in Seq(A)
  PROVE  x \o y \in Seq(A) /\ x \o y \o z \in Seq(A)
<1> DEFINE u == x \o y
<1>1. u \in Seq(A)
  BY ConcatProperties
<1> HIDE DEF u
<1>2. u \o z \in Seq(A)
  BY <1>1, ConcatProperties
<1> QED
  BY <1>1, <1>2 DEF u

LEMMA TypedIs ==
  ASSUME NEW text \in Seq(Line)
  PROVE  Typed(text) \subseteq Seq(Line)
<1>1. Len(text) \in Nat /\ DOMAIN text = 1..Len(text)
  BY LenProperties
<1>2. ASSUME NEW i \in 1..(Len(text) + 1), NEW line \in Line
      PROVE  InsertAt(text, i, line) \in Seq(Line)
  <2>1. SubSeq(text, 1, i - 1) \in Seq(Line) /\ SubSeq(text, i, Len(text)) \in Seq(Line)
    <3>1. i - 1 \in 0..Len(text)
      BY <1>1
    <3> QED
      BY <3>1, CutIs
  <2>2. <<line>> \in Seq(Line)
    BY OneIs
  <2> QED
    BY <2>1, <2>2, JoinIs DEF InsertAt
<1>3. ASSUME NEW i \in 1..Len(text)
      PROVE  RemoveAt(text, i) \in Seq(Line)
  <2>1. SubSeq(text, 1, i - 1) \in Seq(Line) /\ SubSeq(text, i + 1, Len(text)) \in Seq(Line)
    <3>1. i - 1 \in 0..Len(text) /\ i + 1 \in 1..(Len(text) + 1)
      BY <1>1
    <3> QED
      BY <3>1, CutIs
  <2> QED
    BY <2>1, JoinIs DEF RemoveAt
<1> QED
  BY <1>1, <1>2, <1>3 DEF Typed

LEMMA SameLength ==
  ASSUME NEW d \in Docs(Segment), NEW done \in Docs(Segment)
  PROVE  Len(Exited(d, done).segs) = Len(done.segs)
<1>1. CASE d.cursor.kind = "block" /\ d.cursor.seg \in 2..Len(done.segs)
  BY <1>1, BlockExited
<1>2. CASE ~(d.cursor.kind = "block" /\ d.cursor.seg \in 2..Len(done.segs))
  BY <1>2, ExitedOut
<1> QED
  BY <1>1, <1>2

LEMMA MovedOfKind ==
  ASSUME NEW n, NEW d \in Kind(n), NEW i \in 1..Len(d.segs),
         NEW c \in {At(d.segs, i)} \cup (IF IsBlock(d.segs, i) THEN {InBlockResult(i)} ELSE {})
  PROVE  [d EXCEPT !.cursor = c] \in Kind(n) /\ [d EXCEPT !.cursor = c].segs = d.segs
<1> DEFINE A == SortOf(n)
<1>1. Sort(A) /\ Kind(n) = {x \in Docs(A) : n = "padded" => PaddedSegs(x.segs)}
  BY SortOfSuits
<1> HIDE DEF A
<1>2. d \in Docs(A) /\ (n = "padded" => PaddedSegs(d.segs))
  BY <1>1
<1>3. d.segs[i].kind \in {"prose", "block"}
  <2>1. d.segs[i] \in Segment
    BY <1>1, <1>2, DocIs DEF Sort
  <2> QED
    BY <2>1 DEF Segment
<1>4. PICK k \in {"prose", "block", "result"} :
         c = [kind |-> k, seg |-> i] /\ (k # "prose" => d.segs[i].kind = "block")
  BY <1>3 DEF At, InProse, InBlock, InBlockResult, IsBlock
<1>5. [d EXCEPT !.cursor = c] \in Docs(A) /\ [d EXCEPT !.cursor = c].segs = d.segs
  BY <1>2, <1>4, WithCursorIs
<1> QED
  BY <1>1, <1>2, <1>5

LEMMA MoveKeeps ==
  ASSUME IInv, Move
  PROVE  IInv'
<1>0. /\ doc \in Docs(Segment) /\ DOMAIN doc.segs = 1..Len(doc.segs) /\ Scalars /\ Rest
      /\ \A n \in Guaranteed : doc \in Kind(n)
  BY InvariantSays DEF Everywhere
<1>1. PICK i \in DOMAIN doc.segs, swap \in BOOLEAN :
        LET d == IF swap THEN Exited(doc, Entered(doc)) ELSE doc
        IN \E c \in {At(d.segs, i)} \cup (IF IsBlock(d.segs, i) THEN {InBlockResult(i)} ELSE {}) :
             doc' = [d EXCEPT !.cursor = c]
  BY DEF Move
<1> DEFINE d == IF swap THEN Exited(doc, Entered(doc)) ELSE doc
<1>2. PICK c \in {At(d.segs, i)} \cup (IF IsBlock(d.segs, i) THEN {InBlockResult(i)} ELSE {}) :
             doc' = [d EXCEPT !.cursor = c]
  BY <1>1
<1>3. ASSUME NEW n, doc \in Kind(n)
      PROVE  d \in Kind(n) /\ (doc \in Docs(FollowingSegment) => d.segs = doc.segs)
  <2>1. Entered(doc) \in Kind(n)
    BY <1>3, EnteredOfKind
  <2>2. /\ Exited(doc, Entered(doc)) \in Kind(n)
        /\ doc \in Docs(FollowingSegment) => Exited(doc, Entered(doc)).segs = doc.segs
    BY <1>3, <2>1, OnlySwapped
  <2> QED
    BY <1>3, <2>2
<1>4. Len(d.segs) = Len(doc.segs)
  <2>1. Entered(doc) \in Docs(Segment) /\ Len(Entered(doc).segs) = Len(doc.segs)
    BY <1>0, SegmentSuits, EnteredIs
  <2>2. Len(Exited(doc, Entered(doc)).segs) = Len(doc.segs)
    BY <1>0, <2>1, SameLength
  <2> QED
    BY <2>2
<1> HIDE DEF d
<1>5. i \in 1..Len(d.segs)
  BY <1>0, <1>4
<1>6. ASSUME NEW n, doc \in Kind(n)
      PROVE  doc' \in Kind(n) /\ (doc \in Docs(FollowingSegment) => doc'.segs = doc.segs)
  <2>1. d \in Kind(n) /\ (doc \in Docs(FollowingSegment) => d.segs = doc.segs)
    BY <1>3, <1>6
  <2>2. [d EXCEPT !.cursor = c] \in Kind(n) /\ [d EXCEPT !.cursor = c].segs = d.segs
    BY <1>2, <1>5, <2>1, MovedOfKind
  <2> QED
    BY <1>2, <2>1, <2>2
<1>7. /\ \A n \in Guaranteed : doc' \in Kind(n)
      /\ doc \in Docs(FollowingSegment) => doc'.segs = doc.segs
  <2>1. "any" \in Guaranteed
    BY DEF Guaranteed
  <2> QED
    BY <1>0, <1>6, <2>1
<1>8. /\ UNCHANGED <<dirty, undoVars, histVars>> /\ mode' = mode
      /\ UNCHANGED <<anchor, register, fileVars, crashed, edits>>
  BY DEF Move
<1>9. Rest'
  BY <1>0, <1>7, <1>8, Looked
<1>10. Scalars'
  BY <1>0, <1>8 DEF Scalars, histVars, fileVars
<1> QED
  BY <1>9, <1>10 DEF IInv, Rest

LEMMA SwappedOnly ==
  ASSUME IInv
  PROVE  /\ \A n \in Guaranteed : Exited(doc, Entered(doc)) \in Kind(n)
         /\ doc \in Docs(FollowingSegment) => Exited(doc, Entered(doc)).segs = doc.segs
<1>1. \A n \in Guaranteed : doc \in Kind(n)
  BY InvariantSays DEF Everywhere
<1>2. ASSUME NEW n \in Guaranteed
      PROVE  /\ Exited(doc, Entered(doc)) \in Kind(n)
             /\ doc \in Docs(FollowingSegment) => Exited(doc, Entered(doc)).segs = doc.segs
  <2>1. doc \in Kind(n) /\ Entered(doc) \in Kind(n)
    BY <1>1, EnteredOfKind
  <2> QED
    BY <2>1, OnlySwapped
<1>3. "any" \in Guaranteed
  BY DEF Guaranteed
<1> QED
  BY <1>2, <1>3

(* Steps that leave the note and its stacks alone.                         *)
LEMMA NothingDone ==
  ASSUME IInv, UNCHANGED <<doc, dirty, undoVars, histVars>>, mode' = "insert" => mode = "insert"
  PROVE  Rest'
<1>1. Rest /\ \A n \in Guaranteed : doc \in Kind(n)
  BY InvariantSays DEF Everywhere
<1>2. \A n \in Guaranteed : doc' \in Kind(n)
  BY <1>1
<1>3. doc'.segs = doc.segs
  OBVIOUS
<1> QED
  BY <1>1, <1>2, <1>3, Looked

LEMMA PanicKeeps ==
  ASSUME IInv, Panic
  PROVE  IInv'
<1>1. Rest'
  BY NothingDone DEF Panic
<1>2. Scalars'
  BY InvariantSays DEF Scalars, Panic, fileVars, histVars
<1> QED
  BY <1>1, <1>2 DEF IInv, Rest

LEMMA ModesKeep ==
  ASSUME IInv, YankOnResult \/ ExitVisual \/ OpenForm \/ CancelForm \/ ExternalWrite
  PROVE  IInv'
<1>0. Scalars /\ Here.fields \in Seq(Line) /\ Cursor.seg \in Nat
  BY InvariantSays
<1>1. CASE YankOnResult
  <2>1. Rest'
    BY <1>1, NothingDone DEF YankOnResult
  <2>2. edits' \in 0..MaxEdits
    BY <1>0, <1>1, Counted DEF YankOnResult
  <2>3. Scalars'
    BY <1>0, <1>1, <2>2 DEF Scalars, YankOnResult, fileVars, histVars
  <2> QED
    BY <2>1, <2>3 DEF IInv, Rest
<1>2. CASE ExitVisual
  <2>1. Rest'
    BY <1>2, NothingDone DEF ExitVisual
  <2>2. Scalars'
    BY <1>0, <1>2 DEF Scalars, ExitVisual, fileVars, histVars
  <2> QED
    BY <2>1, <2>2 DEF IInv, Rest
<1>3. CASE OpenForm
  <2>1. Rest'
    BY <1>3, NothingDone DEF OpenForm
  <2>2. Scalars'
    BY <1>0, <1>3 DEF Scalars, OpenForm, fileVars, histVars
  <2> QED
    BY <2>1, <2>2 DEF IInv, Rest
<1>4. CASE CancelForm
  <2>1. Rest'
    BY <1>4, NothingDone DEF CancelForm
  <2>2. Scalars'
    BY <1>0, <1>4 DEF Scalars, CancelForm, fileVars, histVars
  <2> QED
    BY <2>1, <2>2 DEF IInv, Rest
<1>5. CASE ExternalWrite
  <2>1. Rest'
    BY <1>5, NothingDone DEF ExternalWrite
  <2>2. edits' \in 0..MaxEdits
    BY <1>0, <1>5, Counted DEF ExternalWrite
  <2>3. disk' \in Seq(Line) /\ changed' = TRUE
    BY <1>5, DocumentAssumption DEF ExternalWrite
  <2>4. Scalars'
    BY <1>0, <1>5, <2>2, <2>3 DEF Scalars, ExternalWrite, histVars
  <2> QED
    BY <2>1, <2>4 DEF IInv, Rest
<1> QED
  BY <1>1, <1>2, <1>3, <1>4, <1>5

LEMMA EnterVisualKeeps ==
  ASSUME IInv, EnterVisual
  PROVE  IInv'
<1>0. Scalars /\ Rest /\ Cursor.seg \in Nat
  BY InvariantSays
<1>1. /\ mode' = "visual" /\ anchor' = Cursor.seg /\ doc' = Exited(doc, Entered(doc))
      /\ UNCHANGED <<dirty, undoVars, register, fileVars, crashed, edits, histVars>>
  BY DEF EnterVisual, Finish
<1>2. Rest'
  BY <1>0, <1>1, SwappedOnly, Looked
<1>3. Scalars'
  BY <1>0, <1>1 DEF Scalars, fileVars, histVars
<1> QED
  BY <1>2, <1>3 DEF IInv, Rest

LEMMA YankKeeps ==
  ASSUME IInv, Yank
  PROVE  IInv'
<1>0. Scalars /\ Rest /\ Here.raw \in Seq(Line)
  BY InvariantSays
<1>1. /\ mode' = "normal" /\ anchor' = 0 /\ doc' = Exited(doc, Entered(doc))
      /\ UNCHANGED <<dirty, undoVars, fileVars, crashed, histVars>>
      /\ MayEdit /\ CountEdit
  BY DEF Yank, Finish
<1>2. register' \in Seq(Line)
  <2>1. PICK i \in DOMAIN Here.raw, j \in DOMAIN Here.raw : register' = SubSeq(Here.raw, i, j)
    BY DEF Yank
  <2>2. i \in 1..Len(Here.raw) /\ j \in 1..Len(Here.raw)
    BY <1>0, LenProperties
  <2>3. SubSeq(Here.raw, i, j) \in Seq(Line)
    BY <1>0, <2>2, CutIs
  <2> QED
    BY <2>1, <2>3
<1>3. Rest'
  BY <1>0, <1>1, SwappedOnly, Looked
<1>4. edits' \in 0..MaxEdits
  BY <1>0, <1>1, Counted
<1>5. Scalars'
  BY <1>0, <1>1, <1>2, <1>4 DEF Scalars, fileVars, histVars
<1> QED
  BY <1>3, <1>5 DEF IInv, Rest

LEMMA WriteKeeps ==
  ASSUME IInv, Write
  PROVE  IInv'
<1>0. Scalars /\ Rest /\ doc.segs \in Seq(Segment) /\ KindsKept /\ BaseKept /\ Len(past) <= Capacity
  BY InvariantSays DEF Rest
<1>1. /\ disk' = Text(doc.segs) /\ saved' = Text(doc.segs) /\ dirty' = FALSE /\ changed' = TRUE
      /\ UNCHANGED <<doc, undoVars, mode, anchor, register, crashed, edits, base, lost>>
  BY DEF Write
<1>2. KindsKept'
  BY <1>0, <1>1 DEF KindsKept, Everywhere, Guaranteed, undoVars
<1>3. BaseKept'
  BY <1>0, <1>1 DEF BaseKept, First, undoVars
<1>4. CleanIsSaved'
  BY <1>1 DEF CleanIsSaved
<1>5. Text(doc.segs) \in Seq(Line)
  BY <1>0, TextsAre
<1>6. Scalars'
  BY <1>0, <1>1, <1>5 DEF Scalars
<1>7. Len(past') <= Capacity
  BY <1>0, <1>1 DEF undoVars
<1> QED
  BY <1>2, <1>3, <1>4, <1>6, <1>7 DEF IInv

LEMMA EnterInsertKeeps ==
  ASSUME IInv, EnterInsert
  PROVE  IInv'
<1>0. Scalars /\ Rest
  BY InvariantSays
<1>1. /\ mode' = "insert" /\ Snapshot(Entered(doc)) /\ doc' = Exited(doc, Entered(doc))
      /\ lost' = lost \cup Forgotten /\ MayEdit /\ CountEdit
      /\ UNCHANGED <<dirty, anchor, register, fileVars, crashed, saved, base>>
  BY DEF EnterInsert, Finish
<1>2. lost \subseteq lost' /\ Forgotten \subseteq lost' /\ Guaranteed' \subseteq Guaranteed
  BY <1>1, FewerKinds
<1>3. "form" \in lost' \/ (dirty' = dirty /\ doc'.segs = doc.segs)
  <2> SUFFICES ASSUME "form" \notin lost'
               PROVE  doc'.segs = doc.segs
    BY <1>1
  <2>1. "follows" \in Guaranteed
    BY <1>2 DEF Guaranteed
  <2>2. doc \in Kind("follows")
    BY <2>1, InvariantSays DEF Everywhere
  <2>3. doc \in Docs(FollowingSegment)
    BY <2>2, KindsAre
  <2> QED
    BY <1>1, <2>3, SwappedOnly
<1>4. \A n \in Guaranteed' : doc' \in Kind(n)
  BY <1>1, <1>2, SwappedOnly
<1>5. Rest'
  BY <1>0, <1>1, <1>2, <1>3, <1>4, Edited
<1>6. edits' \in 0..MaxEdits
  BY <1>0, <1>1, Counted
<1>7. lost' \subseteq {"capacity", "slot", "text", "reload", "form"}
  BY <1>0, <1>1 DEF Scalars, Forgotten
<1>8. Scalars'
  BY <1>0, <1>1, <1>6, <1>7 DEF Scalars, fileVars
<1> QED
  BY <1>5, <1>8 DEF IInv, Rest

LEMMA TypeKeeps ==
  ASSUME IInv, Type
  PROVE  IInv'
<1>0. /\ Scalars /\ Rest /\ Here.raw \in Seq(Line)
      /\ \A n \in Guaranteed : doc \in Kind(n)
  BY InvariantSays DEF Everywhere
<1>1. /\ mode = "insert" /\ OnText /\ dirty' = TRUE /\ MayEdit /\ CountEdit
      /\ UNCHANGED <<undoVars, mode, anchor, register, fileVars, crashed, histVars>>
  BY DEF Type
<1>2. PICK text \in Typed(Here.raw) : doc' = Exited(doc, WithRaw(Entered(doc), Cursor.seg, text))
  BY DEF Type, Finish
<1>3. text \in Seq(Line)
  BY <1>0, TypedIs
<1>4. \A n \in Guaranteed : doc' \in Kind(n)
  BY <1>0, <1>1, <1>2, <1>3, ChangedInPlace DEF OnText, Cursor
<1>5. Rest'
  BY <1>0, <1>1, <1>4, Inserted
<1>6. edits' \in 0..MaxEdits
  BY <1>0, <1>1, Counted
<1>7. Scalars'
  BY <1>0, <1>1, <1>6 DEF Scalars, fileVars, histVars
<1> QED
  BY <1>5, <1>7 DEF IInv, Rest

(* What lost may hold after a step that only adds to it.                   *)
LEMMA LostIs ==
  ASSUME Scalars, NEW more \in SUBSET {"capacity", "slot", "text", "reload", "form"},
         lost' = lost \cup Forgotten \cup more
  PROVE  /\ lost' \subseteq {"capacity", "slot", "text", "reload", "form"}
         /\ lost \subseteq lost' /\ Forgotten \subseteq lost' /\ Guaranteed' \subseteq Guaranteed
<1>1. Forgotten \subseteq {"capacity"}
  BY DEF Forgotten
<1>2. lost \subseteq lost' /\ Forgotten \subseteq lost'
  OBVIOUS
<1> QED
  BY <1>1, <1>2, FewerKinds DEF Scalars

LEMMA MissedIs ==
  ASSUME NEW done
  PROVE  Missed(done) \in SUBSET {"capacity", "slot", "text", "reload", "form"}
BY DEF Missed

LEMMA BlockRawOfKind ==
  ASSUME NEW n, NEW d \in Kind(n), d.cursor.kind = "block", NEW text \in Seq(Line)
  PROVE  [d EXCEPT !.segs[d.cursor.seg] = ReparseFromRaw([@ EXCEPT !.raw = text])] \in Kind(n)
<1> DEFINE A == SortOf(n)
           e == [d EXCEPT !.segs[d.cursor.seg] = ReparseFromRaw([@ EXCEPT !.raw = text])]
<1>1. Suitable(A) /\ Kind(n) = {x \in Docs(A) : n = "padded" => PaddedSegs(x.segs)}
  BY SortOfSuits
<1> HIDE DEF A
<1>2. d \in Docs(A) /\ (n = "padded" => PaddedSegs(d.segs))
  BY <1>1
<1>3. e \in Docs(A) /\ (PaddedSegs(d.segs) => PaddedSegs(e.segs))
  BY <1>1, <1>2, WithBlockRawIs
<1> HIDE DEF e
<1>4. e \in Kind(n)
  BY <1>1, <1>2, <1>3
<1> QED
  BY <1>4 DEF e

LEMMA ReparsedOfKind ==
  ASSUME NEW n, NEW d \in Kind(n), NEW i \in 1..Len(d.segs), ~Panics(d.segs[i].raw)
  PROVE  ReparseProseAt(d, i) \in Kind(n)
<1> DEFINE A == SortOf(n)
<1>1. Sort(A) /\ Kind(n) = {x \in Docs(A) : n = "padded" => PaddedSegs(x.segs)}
  BY SortOfSuits
<1> HIDE DEF A
<1>2. d \in Docs(A) /\ (n = "padded" => PaddedSegs(d.segs))
  BY <1>1
<1>3. d.segs[i].raw \in Seq(Line)
  <2>1. d.segs[i] \in Segment
    BY <1>1, <1>2, DocIs DEF Sort
  <2> QED
    BY <2>1 DEF Segment
<1>4. ReparseProseAt(d, i) \in Docs(A)
      /\ (PaddedSegs(d.segs) => PaddedSegs(ReparseProseAt(d, i).segs))
  BY <1>1, <1>2, <1>3, ReparseProseAtIs
<1> QED
  BY <1>1, <1>2, <1>4

LEMMA AcceptCompletionKeeps ==
  ASSUME IInv, AcceptCompletion
  PROVE  IInv'
<1>0. Scalars /\ Rest /\ Here.raw \in Seq(Line) /\ \A n \in Guaranteed : doc \in Kind(n)
  BY InvariantSays DEF Everywhere
<1>1. /\ Cursor.kind = "block" /\ Snapshot(doc) /\ dirty' = TRUE
      /\ lost' = lost \cup Forgotten /\ MayEdit /\ CountEdit
      /\ UNCHANGED <<mode, anchor, register, fileVars, crashed, saved, base>>
  BY DEF AcceptCompletion
<1>2. PICK text \in Typed(Here.raw) :
        doc' = [doc EXCEPT !.segs[Cursor.seg] = ReparseFromRaw([@ EXCEPT !.raw = text])]
  BY DEF AcceptCompletion
<1>3. text \in Seq(Line)
  BY <1>0, TypedIs
<1>4. /\ lost' \subseteq {"capacity", "slot", "text", "reload", "form"}
      /\ lost \subseteq lost' /\ Forgotten \subseteq lost' /\ Guaranteed' \subseteq Guaranteed
  <2>1. lost' = lost \cup Forgotten \cup {}
    BY <1>1
  <2> QED
    BY <1>0, <2>1, LostIs
<1>5. \A n \in Guaranteed' : doc' \in Kind(n)
  BY <1>0, <1>1, <1>2, <1>3, <1>4, BlockRawOfKind DEF Cursor
<1>6. Rest'
  BY <1>0, <1>1, <1>4, <1>5, Edited
<1>7. edits' \in 0..MaxEdits
  BY <1>0, <1>1, Counted
<1>8. Scalars'
  BY <1>0, <1>1, <1>4, <1>7 DEF Scalars, fileVars
<1> QED
  BY <1>6, <1>8 DEF IInv, Rest

LEMMA ExitInsertKeeps ==
  ASSUME IInv, ExitInsert
  PROVE  IInv'
<1>0. /\ Scalars /\ Rest /\ Cursor.seg \in 1..Len(doc.segs)
      /\ \A n \in Guaranteed : doc \in Kind(n)
  BY InvariantSays DEF Everywhere
<1>1. CASE Panic
  BY <1>1, PanicKeeps
<1>2. CASE /\ ~Panics(Here.raw) /\ doc' = ReparseProseAt(doc, Cursor.seg)
           /\ dirty' = TRUE /\ mode' = "normal"
           /\ UNCHANGED <<undoVars, anchor, register, fileVars, crashed, edits, histVars>>
  <2>1. mode = "insert"
    BY DEF ExitInsert
  <2>2. \A n \in Guaranteed : doc' \in Kind(n)
    BY <1>0, <1>2, ReparsedOfKind DEF Here
  <2>3. Rest'
    BY <1>0, <1>2, <2>1, <2>2, Inserted
  <2>4. Scalars'
    BY <1>0, <1>2 DEF Scalars, fileVars, histVars
  <2> QED
    BY <2>3, <2>4 DEF IInv, Rest
<1>3. CASE /\ Finish(Entered(doc)) /\ mode' = "normal"
           /\ UNCHANGED <<dirty, undoVars, anchor, register, fileVars, crashed, edits, histVars>>
  <2>1. doc' = Exited(doc, Entered(doc))
    BY <1>3 DEF Finish
  <2>2. /\ \A n \in Guaranteed : doc' \in Kind(n)
        /\ doc \in Docs(FollowingSegment) => doc'.segs = doc.segs
    BY <2>1, SwappedOnly
  <2>3. Rest'
    BY <1>0, <1>3, <2>2, Looked
  <2>4. Scalars'
    BY <1>0, <1>3 DEF Scalars, fileVars, histVars
  <2> QED
    BY <2>3, <2>4 DEF IInv, Rest
<1> QED
  BY <1>1, <1>2, <1>3 DEF ExitInsert

LEMMA OperatorKeeps ==
  ASSUME IInv, Operator
  PROVE  IInv'
<1>0. Scalars /\ Rest /\ Here.raw \in Seq(Line) /\ \A n \in Guaranteed : doc \in Kind(n)
  BY InvariantSays DEF Everywhere
<1>1. /\ OnText /\ Snapshot(Entered(doc)) /\ dirty' = TRUE /\ mode' \in {"normal", "insert"}
      /\ anchor' = 0 /\ lost' = lost \cup Forgotten /\ MayEdit /\ CountEdit
      /\ UNCHANGED <<fileVars, crashed, saved, base>>
  BY DEF Operator
<1> DEFINE rest(i, j) ==
      SubSeq(Here.raw, 1, i - 1) \o SubSeq(Here.raw, j + 1, Len(Here.raw))
<1>2. PICK i \in DOMAIN Here.raw, j \in DOMAIN Here.raw :
        /\ register' = SubSeq(Here.raw, i, j)
        /\ doc' = Exited(doc, WithRaw(Entered(doc), Cursor.seg, rest(i, j)))
  BY DEF Operator, Finish
<1>3. i \in 1..Len(Here.raw) /\ j \in 1..Len(Here.raw) /\ Len(Here.raw) \in Nat
  BY <1>0, LenProperties
<1>4. rest(i, j) \in Seq(Line)
  <2>1. i - 1 \in 0..Len(Here.raw) /\ j + 1 \in 1..(Len(Here.raw) + 1)
    BY <1>3
  <2>2. /\ SubSeq(Here.raw, 1, i - 1) \in Seq(Line)
        /\ SubSeq(Here.raw, j + 1, Len(Here.raw)) \in Seq(Line)
    BY <1>0, <2>1, CutIs
  <2> QED
    BY <2>2, JoinIs
<1>5. register' \in Seq(Line)
  BY <1>0, <1>2, <1>3, CutIs
<1> DEFINE text == rest(i, j)
<1>6. text \in Seq(Line) /\ doc' = Exited(doc, WithRaw(Entered(doc), Cursor.seg, text))
  BY <1>2, <1>4
<1> HIDE DEF text, rest
<1>7. /\ lost' \subseteq {"capacity", "slot", "text", "reload", "form"}
      /\ lost \subseteq lost' /\ Forgotten \subseteq lost' /\ Guaranteed' \subseteq Guaranteed
  <2>1. lost' = lost \cup Forgotten \cup {}
    BY <1>1
  <2> QED
    BY <1>0, <2>1, LostIs
<1>8. \A n \in Guaranteed' : doc' \in Kind(n)
  BY <1>0, <1>1, <1>6, <1>7, ChangedInPlace DEF OnText, Cursor
<1>9. Rest'
  BY <1>0, <1>1, <1>7, <1>8, Edited
<1>10. edits' \in 0..MaxEdits
  BY <1>0, <1>1, Counted
<1>11. Scalars'
  BY <1>0, <1>1, <1>5, <1>7, <1>10 DEF Scalars, fileVars
<1> QED
  BY <1>9, <1>11 DEF IInv, Rest

LEMMA OperatorOnResultKeeps ==
  ASSUME IInv, OperatorOnResult
  PROVE  IInv'
<1>0. /\ Scalars /\ Rest /\ Here.fields \in Seq(Line) /\ Cursor.seg \in 1..Len(doc.segs)
      /\ doc \in Docs(Segment) /\ \A n \in Guaranteed : doc \in Kind(n)
  BY InvariantSays DEF Everywhere
<1>1. /\ Cursor.kind = "result" /\ register' = Here.fields /\ Snapshot(doc)
      /\ doc' = DeleteBlockAt(doc, Cursor.seg) /\ dirty' = TRUE
      /\ mode' \in {"normal", "insert"} /\ lost' = lost \cup Forgotten /\ MayEdit /\ CountEdit
      /\ UNCHANGED <<anchor, fileVars, crashed, saved, base>>
  BY DEF OperatorOnResult
<1>2. doc.segs[Cursor.seg].kind = "block"
  BY <1>0, <1>1, DocIs DEF Cursor
<1>3. /\ lost' \subseteq {"capacity", "slot", "text", "reload", "form"}
      /\ lost \subseteq lost' /\ Forgotten \subseteq lost' /\ Guaranteed' \subseteq Guaranteed
  <2>1. lost' = lost \cup Forgotten \cup {}
    BY <1>1
  <2> QED
    BY <1>0, <2>1, LostIs
<1>4. ASSUME NEW n \in Guaranteed'
      PROVE  doc' \in Kind(n)
  <2> DEFINE A == SortOf(n)
  <2>1. Sort(A) /\ Kind(n) = {x \in Docs(A) : n = "padded" => PaddedSegs(x.segs)}
    BY SortOfSuits
  <2> HIDE DEF A
  <2>2. doc \in Docs(A)
    BY <1>0, <1>3, <2>1
  <2>3. DeleteBlockAt(doc, Cursor.seg) \in Docs(A)
        /\ PaddedSegs(DeleteBlockAt(doc, Cursor.seg).segs)
    BY <1>0, <1>2, <2>1, <2>2, DeleteBlockAtIs
  <2> QED
    BY <1>1, <2>1, <2>3
<1>5. Rest'
  BY <1>0, <1>1, <1>3, <1>4, Edited
<1>6. edits' \in 0..MaxEdits
  BY <1>0, <1>1, Counted
<1>7. Scalars'
  BY <1>0, <1>1, <1>3, <1>6 DEF Scalars, fileVars
<1> QED
  BY <1>5, <1>7 DEF IInv, Rest

(* The segment of a swap, with another text.                               *)
LEMMA RawOfKind ==
  ASSUME NEW n, NEW d \in Kind(n), d.cursor = At(d.segs, d.cursor.seg), NEW text \in Seq(Line)
  PROVE  /\ WithRaw(Entered(d), d.cursor.seg, text) \in Kind(n)
         /\ WithRaw(Entered(d), d.cursor.seg, text).segs[d.cursor.seg].raw = text
         /\ Len(WithRaw(Entered(d), d.cursor.seg, text).segs) = Len(d.segs)
<1> DEFINE A == SortOf(n)
           i == d.cursor.seg
           e == Entered(d)
<1>1. Sort(A) /\ Kind(n) = {x \in Docs(A) : n = "padded" => PaddedSegs(x.segs)}
  BY SortOfSuits
<1> HIDE DEF A
<1>2. d \in Docs(A) /\ (n = "padded" => PaddedSegs(d.segs))
  BY <1>1
<1>3. i \in 1..Len(d.segs) /\ d.segs[i].kind \in {"prose", "block"}
  <2>1. i \in 1..Len(d.segs) /\ d.segs[i] \in Segment
    BY <1>1, <1>2, DocIs DEF Sort
  <2> QED
    BY <2>1 DEF Segment
<1>4. /\ e \in Docs(A) /\ Len(e.segs) = Len(d.segs)
      /\ PaddedSegs(d.segs) => PaddedSegs(e.segs)
      /\ d.cursor.kind # "block" => e = d
      /\ d.cursor.kind = "block" => e.segs[i] = Prose(d.segs[i].raw)
  BY <1>1, <1>2, EnteredIs
<1>5. e.segs[i].kind = "prose"
  <2>1. CASE d.cursor.kind = "block"
    <3>1. Prose(d.segs[i].raw).kind = "prose"
      BY DEF Prose
    <3> QED
      BY <1>4, <2>1, <3>1
  <2>2. CASE d.cursor.kind # "block"
    <3>1. d.segs[i].kind = "prose"
      BY <1>3, <2>2 DEF At, InBlock
    <3> QED
      BY <1>4, <2>2, <3>1
  <2> QED
    BY <2>1, <2>2
<1>6. i \in 1..Len(e.segs)
  BY <1>3, <1>4
<1> HIDE DEF i, e
<1>7. /\ WithRaw(e, i, text) \in Docs(A) /\ Len(WithRaw(e, i, text).segs) = Len(e.segs)
      /\ PaddedSegs(e.segs) => PaddedSegs(WithRaw(e, i, text).segs)
      /\ WithRaw(e, i, text).segs[i].raw = text
  BY <1>1, <1>4, <1>5, <1>6, WithRawIs
<1>8. /\ WithRaw(e, i, text) \in Kind(n) /\ WithRaw(e, i, text).segs[i].raw = text
      /\ Len(WithRaw(e, i, text).segs) = Len(d.segs)
  BY <1>1, <1>2, <1>4, <1>7
<1> QED
  BY <1>8 DEF e, i

LEMMA InsertedTextIs ==
  ASSUME NEW text \in Seq(Line), NEW more \in Seq(Line), NEW i \in 0..Len(text)
  PROVE  SubSeq(text, 1, i) \o more \o SubSeq(text, i + 1, Len(text)) \in Seq(Line)
<1>1. i + 1 \in 1..(Len(text) + 1)
  BY LenProperties
<1>2. SubSeq(text, 1, i) \in Seq(Line) /\ SubSeq(text, i + 1, Len(text)) \in Seq(Line)
  BY <1>1, CutIs
<1> QED
  BY <1>2, JoinIs

LEMMA PasteKeeps ==
  ASSUME IInv, Paste
  PROVE  IInv'
<1>0. /\ Scalars /\ Rest /\ Here.raw \in Seq(Line) /\ register \in Seq(Line)
      /\ Cursor.seg \in 1..Len(doc.segs) /\ \A n \in Guaranteed : doc \in Kind(n)
  BY InvariantSays DEF Everywhere, Scalars
<1>1. OnText
  BY DEF Paste
<1> DEFINE at(i) == SubSeq(Here.raw, 1, i) \o register \o SubSeq(Here.raw, i + 1, Len(Here.raw))
<1>2. PICK i \in 0..Len(Here.raw) :
        LET done == ReparseProseAt(WithRaw(Entered(doc), Cursor.seg, at(i)), Cursor.seg)
        IN \/ Panics(at(i)) /\ Panic
           \/ /\ ~Panics(at(i))
              /\ Snapshot(Entered(doc))
              /\ Finish(done)
              /\ dirty' = TRUE
              /\ lost' = lost \cup Forgotten \cup Missed(done)
              /\ CountEdit
              /\ UNCHANGED <<mode, anchor, register, fileVars, crashed, saved, base>>
  BY DEF Paste
<1> DEFINE text == at(i)
           raw == WithRaw(Entered(doc), Cursor.seg, text)
           done == ReparseProseAt(raw, Cursor.seg)
<1>3. text \in Seq(Line)
  BY <1>0, InsertedTextIs
<1>4. CASE Panic
  BY <1>4, PanicKeeps
<1>5. CASE ~Panic
  <2>1. /\ ~Panics(text) /\ Snapshot(Entered(doc)) /\ doc' = Exited(doc, done) /\ dirty' = TRUE
        /\ lost' = lost \cup Forgotten \cup Missed(done) /\ CountEdit
        /\ UNCHANGED <<mode, anchor, register, fileVars, crashed, saved, base>>
    BY <1>2, <1>5 DEF Finish
  <2> HIDE DEF text, at
  <2>2. ASSUME NEW n, doc \in Kind(n)
        PROVE  done \in Kind(n)
    <3>1. raw \in Kind(n) /\ raw.segs[Cursor.seg].raw = text /\ Len(raw.segs) = Len(doc.segs)
      BY <1>1, <1>3, <2>2, RawOfKind DEF OnText, Cursor
    <3> HIDE DEF raw
    <3> QED
      BY <1>0, <2>1, <3>1, ReparsedOfKind
  <2> HIDE DEF done
  <2>3. /\ lost' \subseteq {"capacity", "slot", "text", "reload", "form"}
        /\ lost \subseteq lost' /\ Forgotten \subseteq lost' /\ Guaranteed' \subseteq Guaranteed
    BY <1>0, <2>1, MissedIs, LostIs
  <2>4. ASSUME NEW n \in Guaranteed'
        PROVE  doc' \in Kind(n)
    <3>1. doc \in Kind(n) /\ done \in Kind(n)
      BY <1>0, <2>2, <2>3
    <3>2. n = "padded" => "slot" \notin lost'
      BY DEF Guaranteed
    <3>3. n = "padded" => "slot" \notin Missed(done)
      BY <2>1, <3>2
    <3> QED
      BY <2>1, <3>1, <3>3, PutBackOfKind
  <2>5. Rest'
    BY <1>0, <2>1, <2>3, <2>4, Edited
  <2>6. edits' \in 0..MaxEdits
    BY <1>0, <2>1, Counted DEF Paste
  <2>7. Scalars'
    BY <1>0, <2>1, <2>3, <2>6 DEF Scalars, fileVars
  <2> QED
    BY <2>5, <2>7 DEF IInv, Rest
<1> QED
  BY <1>4, <1>5

LEMMA UndoKeeps ==
  ASSUME IInv, Undo
  PROVE  IInv'
<1>0. /\ Scalars /\ Rest /\ doc \in Docs(Segment) /\ past \in Seq(Docs(Segment))
      /\ \A n \in Guaranteed : doc \in Kind(n) /\ past \in Seq(Kind(n)) /\ future \in Seq(Kind(n))
  BY InvariantSays DEF Everywhere
<1> DEFINE last == past[Len(past)]
           rest == SubSeq(past, 1, Len(past) - 1)
<1>1. /\ mode = "normal" /\ past # <<>> /\ past' = rest /\ future' = Append(future, Entered(doc))
      /\ doc' = Exited(doc, last) /\ dirty' = TRUE
      /\ lost' = lost \cup Missed(last) /\ MayEdit /\ CountEdit
      /\ UNCHANGED <<mode, anchor, register, fileVars, crashed, saved, base>>
  BY DEF Undo, Finish, Front, Last
<1>2. ASSUME NEW n \in Guaranteed
      PROVE  last \in Kind(n) /\ rest \in Seq(Kind(n))
  BY <1>0, <1>1, PoppedIs
<1>3. /\ Len(rest) <= Len(past)
      /\ rest = <<>> => last = Head(past)
      /\ rest # <<>> => Head(rest) = Head(past)
  BY <1>0, <1>1, PoppedIs
<1> HIDE DEF last, rest
<1>4. /\ lost' \subseteq {"capacity", "slot", "text", "reload", "form"}
      /\ lost \subseteq lost' /\ Guaranteed' \subseteq Guaranteed
  BY <1>0, <1>1, MissedIs, FewerKinds DEF Scalars
<1>5. ASSUME NEW n \in Guaranteed'
      PROVE  Everywhere(Kind(n))'
  <2>1. doc \in Kind(n) /\ last \in Kind(n) /\ rest \in Seq(Kind(n)) /\ future \in Seq(Kind(n))
    BY <1>0, <1>2, <1>4
  <2>2. n = "padded" => "slot" \notin lost'
    BY DEF Guaranteed
  <2>3. n = "padded" => "slot" \notin Missed(last)
    BY <1>1, <2>2
  <2>4. doc' \in Kind(n)
    BY <1>1, <2>1, <2>3, PutBackOfKind
  <2>5. Entered(doc) \in Kind(n)
    BY <2>1, EnteredOfKind
  <2>6. Append(future, Entered(doc)) \in Seq(Kind(n))
    BY <2>1, <2>5, AppendProperties
  <2> QED
    BY <1>1, <2>1, <2>4, <2>6 DEF Everywhere
<1>6. KindsKept'
  BY <1>5 DEF KindsKept, Everywhere
<1>7. Len(past') <= Capacity
  <2>1. Len(past) \in Nat /\ Len(past) <= Capacity /\ Capacity \in Nat
    BY <1>0, LenProperties, DocumentAssumption DEF Rest
  <2>2. rest \in Seq(Docs(Segment))
    BY <1>0, <1>1, PoppedIs DEF rest
  <2>3. Len(rest) \in Nat
    BY <2>2, LenProperties
  <2> QED
    BY <1>1, <1>3, <2>1, <2>3
<1>8. BaseKept'
  <2> SUFFICES ASSUME lost' \subseteq {"form"}
               PROVE  First' \in Docs(ExactSegment) /\ Text(First'.segs) = base
    BY <1>1 DEF BaseKept
  <2>1. /\ lost \subseteq {"form"}
        /\ "slot" \notin Missed(last) /\ "text" \notin Missed(last)
    BY <1>1
  <2>2. First = Head(past) /\ First \in Docs(ExactSegment) /\ Text(First.segs) = base
    BY <1>0, <1>1, <2>1 DEF Rest, BaseKept, First
  <2>3. CASE rest # <<>>
    <3>1. First' = Head(past)
      BY <1>1, <1>3, <2>3 DEF First
    <3> QED
      BY <2>2, <3>1
  <2>4. CASE rest = <<>>
    <3>1. First' = Exited(doc, last)
      BY <1>1, <2>4 DEF First
    <3>2. last \in Docs(ExactSegment) /\ Text(last.segs) = base
      BY <1>3, <2>2, <2>4
    <3>3. doc.cursor.kind = "block" /\ doc.cursor.seg \in DOMAIN last.segs
            => IsProse(last.segs, doc.cursor.seg) /\ IsBlockText(last.segs[doc.cursor.seg].raw)
      BY <2>1 DEF Missed, Cursor
    <3>4. /\ Exited(doc, last) \in Docs(ExactSegment)
          /\ Text(Exited(doc, last).segs) = Text(last.segs)
      BY <1>0, <3>2, <3>3, ExitExact
    <3> QED
      BY <3>1, <3>2, <3>4
  <2> QED
    BY <2>3, <2>4
<1>9. CleanIsSaved'
  BY <1>1 DEF CleanIsSaved
<1>10. edits' \in 0..MaxEdits
  BY <1>0, <1>1, Counted
<1>11. Scalars'
  BY <1>0, <1>1, <1>4, <1>10 DEF Scalars, fileVars
<1> QED
  BY <1>6, <1>7, <1>8, <1>9, <1>11 DEF IInv

LEMMA RedoKeeps ==
  ASSUME IInv, Redo
  PROVE  IInv'
<1>0. /\ Scalars /\ Rest
      /\ \A n \in Guaranteed : doc \in Kind(n) /\ future \in Seq(Kind(n))
  BY InvariantSays DEF Everywhere
<1> DEFINE last == future[Len(future)]
           rest == SubSeq(future, 1, Len(future) - 1)
<1>1. /\ future # <<>> /\ future' = rest /\ Pushed(Entered(doc))
      /\ doc' = Exited(doc, last) /\ dirty' = TRUE
      /\ lost' = lost \cup Forgotten \cup Missed(last) /\ MayEdit /\ CountEdit
      /\ UNCHANGED <<mode, anchor, register, fileVars, crashed, saved, base>>
  BY DEF Redo, Finish, Front, Last, Pushed
<1>2. ASSUME NEW n \in Guaranteed
      PROVE  last \in Kind(n) /\ rest \in Seq(Kind(n))
  BY <1>0, <1>1, PoppedIs
<1> HIDE DEF last, rest
<1>3. /\ lost' \subseteq {"capacity", "slot", "text", "reload", "form"}
      /\ lost \subseteq lost' /\ Forgotten \subseteq lost' /\ Guaranteed' \subseteq Guaranteed
  BY <1>0, <1>1, MissedIs, LostIs
<1>4. ASSUME NEW n \in Guaranteed'
      PROVE  doc' \in Kind(n) /\ future' \in Seq(Kind(n))
  <2>1. doc \in Kind(n) /\ last \in Kind(n) /\ rest \in Seq(Kind(n))
    BY <1>0, <1>2, <1>3
  <2>2. n = "padded" => "slot" \notin lost'
    BY DEF Guaranteed
  <2>3. n = "padded" => "slot" \notin Missed(last)
    BY <1>1, <2>2
  <2>4. doc' \in Kind(n)
    BY <1>1, <2>1, <2>3, PutBackOfKind
  <2> QED
    BY <1>1, <2>1, <2>4
<1>5. Rest'
  <2>1. dirty' \/ "form" \in lost' \/ (dirty' = dirty /\ doc'.segs = doc.segs)
    BY <1>1
  <2> DEFINE d == Entered(doc)
  <2>2. d = Entered(doc) /\ Pushed(d)
    BY <1>1
  <2> HIDE DEF d
  <2>3. base' = base /\ saved' = saved
    BY <1>1
  <2> QED
    BY <1>0, <1>3, <1>4, <2>1, <2>2, <2>3, Remembered
<1>6. edits' \in 0..MaxEdits
  BY <1>0, <1>1, Counted
<1>7. Scalars'
  BY <1>0, <1>1, <1>3, <1>6 DEF Scalars, fileVars
<1> QED
  BY <1>5, <1>7 DEF IInv, Rest

LEMMA ConfirmFormKeeps ==
  ASSUME IInv, ConfirmForm
  PROVE  IInv'
<1>0. /\ Scalars /\ Rest /\ doc \in Docs(Segment) /\ DOMAIN doc.segs = 1..Len(doc.segs)
      /\ \A n \in Guaranteed : doc \in Kind(n)
  BY InvariantSays DEF Everywhere
<1>1. /\ mode' = "normal" /\ anchor' = 0 /\ Snapshot(doc) /\ MayEdit /\ CountEdit
      /\ UNCHANGED <<dirty, register, fileVars, crashed, saved, base>>
  BY DEF ConfirmForm
<1>2. /\ lost' \subseteq {"capacity", "slot", "text", "reload", "form"}
      /\ lost \subseteq lost' /\ Forgotten \subseteq lost' /\ Guaranteed' \subseteq Guaranteed
  <2>1. lost' = lost \cup Forgotten \cup {"form"} \/ lost' = lost \cup Forgotten \cup {}
    BY DEF ConfirmForm
  <2> QED
    BY <1>0, <2>1, LostIs
<1>3. /\ \A n \in Guaranteed' : doc' \in Kind(n)
      /\ dirty' \/ "form" \in lost' \/ (dirty' = dirty /\ doc'.segs = doc.segs)
  <2>1. CASE IsBlock(doc.segs, anchor)
    <3>1. "form" \in lost'
      BY <2>1 DEF ConfirmForm
    <3>2. PICK h \in Headers : doc' = [doc EXCEPT !.segs[anchor].fields[1] = h]
      BY <2>1 DEF ConfirmForm
    <3>3. anchor \in 1..Len(doc.segs)
      BY <1>0, <2>1 DEF IsBlock
    <3>4. doc' \in Docs(Segment) /\ (PaddedSegs(doc.segs) => PaddedSegs(doc'.segs))
      BY <1>0, <3>2, <3>3, WithFieldsIs
    <3>5. ASSUME NEW n \in Guaranteed'
          PROVE  doc' \in Kind(n)
      <4>1. n # "follows" /\ doc \in Kind(n)
        BY <1>0, <1>2, <3>1 DEF Guaranteed
      <4>2. n = "padded" => PaddedSegs(doc.segs)
        BY <4>1, KindsAre
      <4> QED
        BY <3>4, <4>1, <4>2, IsOfKind
    <3> QED
      BY <3>1, <3>5
  <2>2. CASE ~IsBlock(doc.segs, anchor)
    <3>1. doc' = doc
      BY <2>2 DEF ConfirmForm
    <3> QED
      BY <1>0, <1>1, <1>2, <3>1
  <2> QED
    BY <2>1, <2>2
<1>4. Rest'
  <2>1. base' = base /\ saved' = saved
    BY <1>1
  <2> QED
    BY <1>0, <1>1, <1>2, <1>3, <2>1, Edited
<1>5. edits' \in 0..MaxEdits
  BY <1>0, <1>1, Counted
<1>6. Scalars'
  BY <1>0, <1>1, <1>2, <1>5 DEF Scalars, fileVars
<1> QED
  BY <1>4, <1>6 DEF IInv, Rest

(* The text of the note while a block is swapped, and a selection in it.   *)
LEMMA SelectionIs ==
  ASSUME IInv, Selects, NEW r \in Selection
  PROVE  LET text == Text(Entered(doc).segs)
         IN /\ text \in Seq(Line) /\ r[1] \in Nat \ {0} /\ r[2] \in Nat /\ r[1] <= r[2]
            /\ r[2] <= Len(text)
            /\ SubSeq(text, r[1], r[2]) \in Seq(Line)
            /\ SubSeq(text, 1, r[1] - 1) \o SubSeq(text, r[2] + 1, Len(text)) \in Seq(Line)
<1> DEFINE segs == Entered(doc).segs
           text == Text(segs)
           total == Len(text)
           a == IF anchor < Cursor.seg THEN anchor ELSE Cursor.seg
           c == IF anchor < Cursor.seg THEN Cursor.seg ELSE anchor
           lines(i) == {GlobalLine(segs, i, j) : j \in 1..(Len(segs[i].raw) + 1)}
<1>0. doc \in Docs(Segment) /\ DOMAIN doc.segs = 1..Len(doc.segs) /\ Cursor.seg \in 1..Len(doc.segs)
  BY InvariantSays
<1>1. Entered(doc) \in Docs(Segment) /\ Len(segs) = Len(doc.segs)
  BY <1>0, SegmentSuits, EnteredIs
<1>2. segs \in Seq(Segment) /\ \A i \in 1..Len(segs) : segs[i] \in Segment
  BY <1>1, DocIs
<1>3. a \in 1..Len(segs) /\ c \in 1..Len(segs)
  BY <1>0, <1>1 DEF Selects
<1>4. text \in Seq(Line) /\ total \in Nat
  <2> HIDE DEF segs
  <2>1. text \in Seq(Line)
    BY <1>2, TextsAre
  <2> QED
    BY <2>1, LenProperties
<1>5. r \in {s \in lines(a) \X {IF n > total THEN total ELSE n : n \in lines(c)} : s[1] <= s[2]}
  BY DEF Selection
<1> HIDE DEF segs, text, total, a, c
<1>6. \A i \in 1..Len(segs) : lines(i) \subseteq Nat \ {0}
  <2> SUFFICES ASSUME NEW i \in 1..Len(segs), NEW j \in 1..(Len(segs[i].raw) + 1)
               PROVE  GlobalLine(segs, i, j) \in Nat \ {0}
    OBVIOUS
  <2>1. j \in Nat \ {0}
    <3>1. segs[i].raw \in Seq(Line)
      BY <1>2 DEF Segment
    <3>2. Len(segs[i].raw) \in Nat
      BY <3>1, LenProperties
    <3> QED
      BY <3>2
  <2> QED
    BY <1>2, <2>1, GlobalLineIs
<1>7. lines(a) \subseteq Nat \ {0} /\ lines(c) \subseteq Nat \ {0}
  BY <1>3, <1>6
<1> HIDE DEF lines
<1>8. PICK n \in lines(c) : r[2] = IF n > total THEN total ELSE n
  BY <1>5
<1>9. r[1] \in lines(a) /\ r[1] <= r[2]
  BY <1>5
<1> DEFINE from == r[1]
           to == r[2]
<1>10. from \in Nat \ {0} /\ to \in Nat /\ from <= to /\ to <= total
  BY <1>4, <1>7, <1>8, <1>9
<1> HIDE DEF from, to
<1>11. /\ from - 1 \in Nat /\ from - 1 <= Len(text) /\ 1 \in Nat \ {0} /\ to + 1 \in Nat \ {0}
       /\ Len(text) \in Nat /\ Len(text) <= Len(text) /\ to <= Len(text)
  BY <1>4, <1>10 DEF total
<1>12. /\ SubSeq(text, 1, from - 1) \in Seq(Line) /\ SubSeq(text, from, to) \in Seq(Line)
       /\ SubSeq(text, to + 1, Len(text)) \in Seq(Line)
  BY <1>4, <1>10, <1>11, SubSeqIs
<1>13. SubSeq(text, 1, from - 1) \o SubSeq(text, to + 1, Len(text)) \in Seq(Line)
  BY <1>12, JoinIs
<1> QED
  BY <1>4, <1>10, <1>11, <1>12, <1>13 DEF segs, text, from, to

LEMMA CrossOperatorKeeps ==
  ASSUME IInv, CrossOperator
  PROVE  IInv'
<1>0. Scalars /\ Rest /\ \A n \in Guaranteed : doc \in Kind(n)
  BY InvariantSays DEF Everywhere
<1> DEFINE text == Text(Entered(doc).segs)
           left(r) == SubSeq(text, 1, r[1] - 1) \o SubSeq(text, r[2] + 1, Len(text))
           made(r) == Document(FromMarkdown(left(r)), CursorAtLine(FromMarkdown(left(r)), r[1]))
<1>1. Selects
  BY DEF CrossOperator
<1>2. PICK r \in Selection :
        \/ Panics(left(r)) /\ Panic
        \/ /\ ~Panics(left(r))
           /\ register' = SubSeq(text, r[1], r[2])
           /\ Snapshot(Entered(doc))
           /\ Finish(made(r))
           /\ dirty' = TRUE
           /\ mode' \in {"normal", "insert"}
           /\ anchor' = 0
           /\ lost' = lost \cup Forgotten \cup Missed(made(r))
           /\ CountEdit
           /\ UNCHANGED <<fileVars, crashed, saved, base>>
  BY DEF CrossOperator
<1> DEFINE rest == left(r)
           segs == FromMarkdown(rest)
           done == made(r)
<1>3. r[1] \in Nat \ {0} /\ SubSeq(text, r[1], r[2]) \in Seq(Line) /\ rest \in Seq(Line)
  BY <1>1, SelectionIs
<1>4. CASE Panic
  BY <1>4, PanicKeeps
<1>5. CASE ~Panic
  <2>1. /\ ~Panics(rest) /\ register' = SubSeq(text, r[1], r[2]) /\ Snapshot(Entered(doc))
        /\ doc' = Exited(doc, done) /\ dirty' = TRUE /\ mode' \in {"normal", "insert"}
        /\ anchor' = 0 /\ lost' = lost \cup Forgotten \cup Missed(done) /\ CountEdit
        /\ UNCHANGED <<fileVars, crashed, saved, base>>
    BY <1>2, <1>5 DEF Finish
  <2>2. register' \in Seq(Line)
    BY <1>3, <2>1
  <2>3. done = Document(segs, CursorAtLine(segs, r[1]))
    OBVIOUS
  <2>4. segs = FromMarkdown(rest)
    OBVIOUS
  <2> HIDE DEF text, left, made, rest, segs, done
  <2>5. ASSUME NEW n
        PROVE  done \in Kind(n)
    <3> DEFINE A == SortOf(n)
    <3>1. Sort(A) /\ Kind(n) = {x \in Docs(A) : n = "padded" => PaddedSegs(x.segs)}
      BY SortOfSuits
    <3> HIDE DEF A
    <3>2. segs \in Seq(ExactSegment) /\ PaddedSegs(segs)
      BY <1>3, <2>1, <2>4, FromMarkdownIs
    <3>3. segs \in Seq(A)
      BY <3>1, <3>2, SeqMonotonic DEF Sort
    <3>4. done \in Docs(A) /\ done.segs = segs
      BY <1>3, <2>3, <3>1, <3>2, <3>3, CursorAtLineIs
    <3> QED
      BY <3>1, <3>2, <3>4
  <2>6. /\ lost' \subseteq {"capacity", "slot", "text", "reload", "form"}
        /\ lost \subseteq lost' /\ Forgotten \subseteq lost' /\ Guaranteed' \subseteq Guaranteed
    BY <1>0, <2>1, MissedIs, LostIs
  <2>7. ASSUME NEW n \in Guaranteed'
        PROVE  doc' \in Kind(n)
    <3>1. doc \in Kind(n) /\ done \in Kind(n)
      BY <1>0, <2>5, <2>6
    <3>2. n = "padded" => "slot" \notin lost'
      BY DEF Guaranteed
    <3>3. n = "padded" => "slot" \notin Missed(done)
      BY <2>1, <3>2
    <3> QED
      BY <2>1, <3>1, <3>3, PutBackOfKind
  <2>8. Rest'
    <3>1. base' = base /\ saved' = saved
      BY <2>1
    <3> QED
      BY <1>0, <2>1, <2>6, <2>7, <3>1, Edited
  <2>9. edits' \in 0..MaxEdits
    BY <1>0, <2>1, Counted DEF CrossOperator
  <2>10. Scalars'
    BY <1>0, <2>1, <2>2, <2>6, <2>9 DEF Scalars, fileVars
  <2> QED
    BY <2>8, <2>10 DEF IInv, Rest
<1> QED
  BY <1>4, <1>5

LEMMA CrossYankKeeps ==
  ASSUME IInv, CrossYank
  PROVE  IInv'
<1>0. /\ Scalars /\ Rest /\ doc \in Docs(Segment) /\ DOMAIN doc.segs = 1..Len(doc.segs)
      /\ \A n \in Guaranteed : doc \in Kind(n)
  BY InvariantSays DEF Everywhere
<1> DEFINE done == [Entered(doc) EXCEPT !.cursor = InProse(anchor)]
<1>1. /\ Selects /\ doc' = Exited(doc, done) /\ mode' = "normal" /\ anchor' = 0
      /\ MayEdit /\ CountEdit
      /\ UNCHANGED <<dirty, undoVars, fileVars, crashed, histVars>>
  BY DEF CrossYank, Finish
<1>2. register' \in Seq(Line)
  <2>1. PICK r \in Selection : register' = SubSeq(Text(Entered(doc).segs), r[1], r[2])
    BY DEF CrossYank
  <2> QED
    BY <1>1, <2>1, SelectionIs
<1>3. ASSUME NEW n, doc \in Kind(n)
      PROVE  /\ doc' \in Kind(n)
             /\ doc \in Docs(FollowingSegment) => doc'.segs = doc.segs
  <2> DEFINE A == SortOf(n)
             e == Entered(doc)
  <2>1. Sort(A) /\ Kind(n) = {x \in Docs(A) : n = "padded" => PaddedSegs(x.segs)}
    BY SortOfSuits
  <2> HIDE DEF A
  <2>2. e \in Kind(n) /\ Len(e.segs) = Len(doc.segs)
    BY <1>0, <1>3, EnteredOfKind, SegmentSuits, EnteredIs
  <2>3. anchor \in 1..Len(e.segs)
    BY <1>0, <1>1, <2>2 DEF Selects
  <2>4. e \in Docs(A) /\ (n = "padded" => PaddedSegs(e.segs))
    BY <2>1, <2>2
  <2>5. done = [e EXCEPT !.cursor = [kind |-> "prose", seg |-> anchor]]
    BY DEF InProse
  <2> HIDE DEF e, done
  <2>6. done \in Docs(A) /\ done.segs = e.segs
    BY <2>3, <2>4, <2>5, WithCursorIs
  <2>7. done \in Kind(n) /\ done.segs = Entered(doc).segs
    BY <2>1, <2>4, <2>6 DEF e
  <2> QED
    BY <1>1, <1>3, <2>7, OnlySwapped
<1>4. /\ \A n \in Guaranteed : doc' \in Kind(n)
      /\ doc \in Docs(FollowingSegment) => doc'.segs = doc.segs
  <2>1. "any" \in Guaranteed
    BY DEF Guaranteed
  <2> QED
    BY <1>0, <1>3, <2>1
<1>5. Rest'
  BY <1>0, <1>1, <1>4, Looked
<1>6. edits' \in 0..MaxEdits
  BY <1>0, <1>1, Counted
<1>7. Scalars'
  BY <1>0, <1>1, <1>2, <1>6 DEF Scalars, fileVars, histVars
<1> QED
  BY <1>5, <1>7 DEF IInv, Rest

(* The fence of a template in a prose is a block once the prose has been   *)
(* reparsed.                                                               *)
LEMMA TemplateIs ==
  ASSUME NEW text \in Seq(Line), NEW i \in 0..Len(text), NEW h \in Headers
  PROVE  LET new == SubSeq(text, 1, i) \o <<h, Fence>> \o SubSeq(text, i + 1, Len(text))
         IN new \in Seq(Line) /\ Starts(new) # {}
<1> DEFINE x == SubSeq(text, 1, i)
           y == <<h, Fence>>
           z == SubSeq(text, i + 1, Len(text))
<1>1. h \in Line /\ Fence \in Line
  BY DEF Line
<1>2. y \in Seq(Line) /\ Len(y) = 2 /\ y[1] = h
  BY <1>1
<1>3. x \in Seq(Line) /\ z \in Seq(Line)
  <2>1. i + 1 \in 1..(Len(text) + 1)
    BY LenProperties
  <2> QED
    BY <2>1, CutIs
<1> HIDE DEF x, y, z
<1> DEFINE u == x \o y
<1>4. /\ u \in Seq(Line) /\ Len(u) = Len(x) + Len(y) /\ Len(x) \in Nat
      /\ \A k \in 1..Len(y) : u[Len(x) + k] = y[k]
  <2>1. x \in Seq(Line) /\ y \in Seq(Line)
    BY <1>2, <1>3
  <2> QED
    BY <2>1, ConcatAt
<1> HIDE DEF u
<1> DEFINE new == u \o z
           n == Len(x) + 1
<1>5. n \in 1..Len(u) /\ u[n] = h
  <2>1. 1 \in 1..Len(y)
    BY <1>2
  <2>2. n \in 1..Len(u)
    BY <1>2, <1>4
  <2> QED
    BY <1>2, <1>4, <2>1, <2>2
<1> HIDE DEF n
<1>6. /\ new \in Seq(Line) /\ Len(new) = Len(u) + Len(z) /\ Len(u) \in Nat /\ Len(z) \in Nat
      /\ \A k \in 1..Len(u) : new[k] = u[k]
  <2>1. u \in Seq(Line) /\ z \in Seq(Line)
    BY <1>3, <1>4
  <2> QED
    BY <2>1, ConcatAt
<1> HIDE DEF new
<1>7. n \in 1..Len(new) /\ new[n] \in Headers
  BY <1>5, <1>6
<1>8. Starts(new) # {}
  BY <1>6, <1>7, HeaderStarts
<1> QED
  BY <1>6, <1>8 DEF new, u, x, y, z

LEMMA InsertTemplateKeeps ==
  ASSUME IInv, InsertTemplate
  PROVE  IInv'
<1>0. /\ Scalars /\ Rest /\ Here.raw \in Seq(Line) /\ doc \in Docs(Segment)
      /\ Cursor.seg \in 1..Len(doc.segs) /\ Cursor.seg \in Nat
      /\ \A n \in Guaranteed : doc \in Kind(n)
  BY InvariantSays DEF Everywhere
<1>1. OnText /\ Cursor.kind = "prose"
  BY DEF InsertTemplate
<1> DEFINE made(i, h) ==
             SubSeq(Here.raw, 1, i) \o <<h, Fence>> \o SubSeq(Here.raw, i + 1, Len(Here.raw))
           after(i, h) == ReparseProseAt(WithRaw(doc, Cursor.seg, made(i, h)), Cursor.seg)
<1>2. PICK i \in 0..Len(Here.raw), h \in Headers :
        \/ Panics(made(i, h)) /\ Panic
        \/ /\ ~Panics(made(i, h))
           /\ Snapshot(doc)
           /\ doc' = [after(i, h) EXCEPT !.cursor =
                        InBlock(CHOOSE k \in Cursor.seg..Len(after(i, h).segs) :
                                  /\ IsBlock(after(i, h).segs, k)
                                  /\ \A m \in Cursor.seg..(k - 1) : ~IsBlock(after(i, h).segs, m))]
           /\ dirty' = TRUE
           /\ lost' = lost \cup Forgotten
           /\ CountEdit
           /\ UNCHANGED <<mode, anchor, register, fileVars, crashed, saved, base>>
  BY DEF InsertTemplate
<1> DEFINE text == made(i, h)
           raw == WithRaw(doc, Cursor.seg, text)
           done == after(i, h)
           First1(k) == /\ IsBlock(done.segs, k)
                        /\ \A m \in Cursor.seg..(k - 1) : ~IsBlock(done.segs, m)
           next == CHOOSE k \in Cursor.seg..Len(done.segs) : First1(k)
<1>3. text \in Seq(Line) /\ Starts(text) # {}
  BY <1>0, TemplateIs
<1>4. CASE Panic
  BY <1>4, PanicKeeps
<1>5. CASE ~Panic
  <2>1. /\ ~Panics(text) /\ Snapshot(doc) /\ doc' = [done EXCEPT !.cursor = InBlock(next)]
        /\ dirty' = TRUE /\ lost' = lost \cup Forgotten /\ CountEdit
        /\ UNCHANGED <<mode, anchor, register, fileVars, crashed, saved, base>>
    BY <1>2, <1>5
  <2>2. done = ReparseProseAt(raw, Cursor.seg)
    OBVIOUS
  <2> HIDE DEF made, text, after, done
  <2>3. Entered(doc) = doc
    BY <1>1 DEF Entered, Cursor
  <2>4. ASSUME NEW n, doc \in Kind(n)
        PROVE  /\ raw \in Kind(n) /\ raw.segs[Cursor.seg].raw = text
               /\ Len(raw.segs) = Len(doc.segs)
    BY <1>1, <1>3, <2>3, <2>4, RawOfKind DEF OnText, Cursor
  <2> HIDE DEF raw
  <2>5. ASSUME NEW n, doc \in Kind(n)
        PROVE  done \in Kind(n)
    BY <1>0, <2>1, <2>2, <2>4, <2>5, ReparsedOfKind
  <2>6. \E k \in Cursor.seg..Len(done.segs) : IsBlock(done.segs, k)
    <3>1. "any" \in Guaranteed
      BY DEF Guaranteed
    <3>2. raw \in Docs(Segment) /\ raw.segs[Cursor.seg].raw = text /\ Len(raw.segs) = Len(doc.segs)
      BY <1>0, <2>4, <3>1, KindsAre
    <3> DEFINE at == Cursor.seg
    <3>3. at \in 1..Len(raw.segs) /\ raw.segs[at].raw = text
      BY <1>0, <3>2
    <3> HIDE DEF at
    <3>4. \E k \in at..Len(ReparseProseAt(raw, at).segs) :
            IsBlock(ReparseProseAt(raw, at).segs, k)
      BY <1>3, <2>1, <3>2, <3>3, SegmentSuits, ReparseProseAtIs
    <3> QED
      BY <2>2, <3>4 DEF at
  <2>7. \E k \in Cursor.seg..Len(done.segs) : First1(k)
    <3> DEFINE at == Cursor.seg
               P == {k \in at..Len(done.segs) : IsBlock(done.segs, k)}
    <3>0. Len(done.segs) \in Nat
      <4>1. "any" \in Guaranteed
        BY DEF Guaranteed
      <4>2. done \in Docs(Segment)
        BY <1>0, <2>5, <4>1, KindsAre
      <4> QED
        BY <4>2, DocIs
    <3>1. P \subseteq Nat /\ P # {} /\ at \in Nat
      BY <1>0, <2>6, <3>0
    <3>2. PICK k \in P : \A m \in P : k <= m
      <4> HIDE DEF P
      <4> QED
        BY <3>1, LeastMember
    <3> HIDE DEF at
    <3>3. ASSUME NEW m \in at..(k - 1)
          PROVE  ~IsBlock(done.segs, m)
      <4>1. m \in at..Len(done.segs) /\ ~(k <= m)
        BY <3>0, <3>1
      <4> QED
        BY <3>2, <4>1
    <3>4. k \in at..Len(done.segs) /\ IsBlock(done.segs, k)
      BY <3>2
    <3> QED
      BY <3>3, <3>4 DEF at
  <2> HIDE DEF First1
  <2>8. next \in Cursor.seg..Len(done.segs) /\ First1(next)
    BY <2>7
  <2> HIDE DEF next
  <2>9. IsBlock(done.segs, next)
    BY <2>8 DEF First1
  <2>10. /\ lost' \subseteq {"capacity", "slot", "text", "reload", "form"}
         /\ lost \subseteq lost' /\ Forgotten \subseteq lost' /\ Guaranteed' \subseteq Guaranteed
    <3>1. lost' = lost \cup Forgotten \cup {}
      BY <2>1
    <3> QED
      BY <1>0, <3>1, LostIs
  <2>11. ASSUME NEW n \in Guaranteed'
         PROVE  doc' \in Kind(n)
    <3> DEFINE A == SortOf(n)
    <3>1. Sort(A) /\ Kind(n) = {x \in Docs(A) : n = "padded" => PaddedSegs(x.segs)}
      BY SortOfSuits
    <3> HIDE DEF A
    <3>2. done \in Kind(n)
      BY <1>0, <2>5, <2>10
    <3>3. done \in Docs(A) /\ (n = "padded" => PaddedSegs(done.segs))
      BY <3>1, <3>2
    <3>4. next \in 1..Len(done.segs) /\ done.segs[next].kind = "block"
      BY <2>9, <3>3, DocIs DEF IsBlock
    <3>5. /\ [done EXCEPT !.cursor = [kind |-> "block", seg |-> next]] \in Docs(A)
          /\ [done EXCEPT !.cursor = [kind |-> "block", seg |-> next]].segs = done.segs
      BY <3>3, <3>4, WithCursorIs
    <3>6. doc' \in Docs(A) /\ doc'.segs = done.segs
      BY <2>1, <3>5 DEF InBlock
    <3> QED
      BY <3>1, <3>3, <3>6
  <2>12. Rest'
    <3>1. base' = base /\ saved' = saved
      BY <2>1
    <3> QED
      BY <1>0, <2>1, <2>10, <2>11, <3>1, Edited
  <2>13. edits' \in 0..MaxEdits
    BY <1>0, <2>1, Counted DEF InsertTemplate
  <2>14. Scalars'
    BY <1>0, <2>1, <2>10, <2>13 DEF Scalars, fileVars
  <2> QED
    BY <2>12, <2>14 DEF IInv, Rest
<1> QED
  BY <1>4, <1>5

LEMMA SubstituteKeeps ==
  ASSUME IInv, Substitute
  PROVE  IInv'
<1>0. Scalars /\ doc.segs \in Seq(Segment)
  BY InvariantSays
<1> DEFINE before == Text(doc.segs)
           replaced(old, new) ==
             [i \in DOMAIN before |-> IF before[i] = old THEN new ELSE before[i]]
<1>1. PICK old \in Range(before), new \in Line :
        \/ Panics(replaced(old, new)) /\ Panic
        \/ /\ ~Panics(replaced(old, new))
           /\ doc' = Load(replaced(old, new))
           /\ dirty' = TRUE
           /\ past' = <<>> /\ future' = <<>>
           /\ base' = replaced(old, new) /\ lost' = {}
           /\ CountEdit
           /\ UNCHANGED <<mode, anchor, register, fileVars, crashed, saved>>
  BY DEF Substitute
<1> DEFINE text == replaced(old, new)
<1>2. text \in Seq(Line)
  <2>1. before \in Seq(Line)
    BY <1>0, TextsAre
  <2> HIDE DEF before
  <2>2. /\ Len(before) \in Nat /\ DOMAIN before = 1..Len(before)
        /\ \A i \in 1..Len(before) : before[i] \in Line
    BY <2>1, LenProperties, ElementOfSeq
  <2>3. text = [i \in 1..Len(before) |-> text[i]] /\ \A i \in 1..Len(before) : text[i] \in Line
    BY <2>2
  <2> HIDE DEF text
  <2> QED
    BY <2>2, <2>3, FunctionIsSeq
<1>3. CASE Panic
  BY <1>3, PanicKeeps
<1>4. CASE ~Panic
  <2>1. /\ ~Panics(text) /\ doc' = Load(text) /\ dirty' = TRUE /\ past' = <<>> /\ future' = <<>>
        /\ base' = text /\ lost' = {} /\ CountEdit
        /\ UNCHANGED <<mode, anchor, register, fileVars, crashed, saved>>
    BY <1>1, <1>4
  <2> HIDE DEF text, replaced
  <2>2. MayEdit /\ mode' # "insert"
    BY <2>1 DEF Substitute
  <2>3. Rest'
    BY <1>2, <2>1, <2>2, Loaded
  <2>4. edits' \in 0..MaxEdits
    BY <1>0, <2>1, <2>2, Counted
  <2>5. Scalars'
    BY <1>0, <1>2, <2>1, <2>4 DEF Scalars, fileVars
  <2> QED
    BY <2>3, <2>5 DEF IInv, Rest
<1> QED
  BY <1>3, <1>4

LEMMA FileChangedKeeps ==
  ASSUME IInv, FileChanged
  PROVE  IInv'
<1>0. Scalars /\ disk \in Seq(Line)
  BY InvariantSays DEF Scalars
<1>1. CASE Panic
  BY <1>1, PanicKeeps
<1>2. CASE /\ ~Panics(disk) /\ Reload /\ changed' = FALSE
           /\ UNCHANGED <<mode, anchor, register, disk, crashed, edits>>
  <2>1. /\ doc' = Load(disk) /\ dirty' = FALSE /\ past' = <<>> /\ future' = <<>>
        /\ saved' = disk /\ base' = disk /\ lost' \in {{}, {"reload"}}
        /\ lost' = {} => mode' # "insert"
    BY <1>2 DEF Reload
  <2>2. Rest'
    BY <1>0, <1>2, <2>1, Loaded
  <2>3. Scalars'
    BY <1>0, <1>2, <2>1 DEF Scalars
  <2> QED
    BY <2>2, <2>3 DEF IInv, Rest
<1>3. CASE /\ changed' = FALSE
           /\ UNCHANGED <<doc, dirty, undoVars, mode, anchor, register, disk, crashed, edits, histVars>>
  <2>1. Rest'
    BY <1>3, NothingDone
  <2>2. Scalars'
    BY <1>0, <1>3 DEF Scalars, histVars
  <2> QED
    BY <2>1, <2>2 DEF IInv, Rest
<1> QED
  BY <1>1, <1>2, <1>3 DEF FileChanged

LEMMA InitEstablishes ==
  ASSUME Init
  PROVE  IInv
<1>1. /\ disk \in Seq(Line) /\ ~Panics(disk) /\ doc = Load(disk) /\ past = <<>> /\ future = <<>>
      /\ dirty = FALSE /\ mode = "normal" /\ saved = disk /\ base = disk /\ lost = {}
  BY DocumentAssumption DEF Init
<1>2. /\ doc \in Docs(ExactSegment) /\ Text(doc.segs) = disk
      /\ \A n \in Guaranteed : doc \in Kind(n)
  BY <1>1, LoadIs, LoadOfKind
<1>3. Scalars
  <2>1. <<>> \in Seq(Line) /\ 0 \in 0..MaxEdits
    BY EmptySeq, DocumentAssumption
  <2> QED
    BY <1>1, <2>1 DEF Init, Scalars
<1>4. Len(past) <= Capacity
  <2>1. Len(<<>>) = 0
    BY EmptySeq
  <2> QED
    BY <1>1, <2>1, DocumentAssumption
<1>5. KindsKept
  BY <1>1, <1>2, EmptySeq DEF KindsKept, Everywhere
<1>6. BaseKept
  BY <1>1, <1>2 DEF BaseKept, First
<1>7. CleanIsSaved
  BY <1>1, <1>2 DEF CleanIsSaved
<1> QED
  BY <1>3, <1>4, <1>5, <1>6, <1>7 DEF IInv

LEMMA StutterKeeps ==
  ASSUME IInv, UNCHANGED vars
  PROVE  IInv'
<1>1. Rest'
  BY NothingDone DEF vars, undoVars, histVars
<1>2. Scalars'
  BY InvariantSays DEF Scalars, vars, fileVars, histVars
<1> QED
  BY <1>1, <1>2 DEF IInv, Rest

LEMMA NextKeeps ==
  ASSUME IInv, [Next]_vars
  PROVE  IInv'
<1>1. CASE Edit
  BY <1>1, MoveKeeps, EnterInsertKeeps, TypeKeeps, AcceptCompletionKeeps, ExitInsertKeeps,
     OperatorKeeps, YankKeeps, OperatorOnResultKeeps, ModesKeep, PasteKeeps, UndoKeeps,
     RedoKeeps, EnterVisualKeeps, CrossOperatorKeeps, CrossYankKeeps, ConfirmFormKeeps,
     InsertTemplateKeeps, SubstituteKeeps DEF Edit
<1>2. CASE Write \/ ExternalWrite \/ FileChanged
  BY <1>2, WriteKeeps, ModesKeep, FileChangedKeeps
<1>3. CASE UNCHANGED vars
  BY <1>3, StutterKeeps
<1> QED
  BY <1>1, <1>2, <1>3 DEF Next

LEMMA Inductive == Spec => []IInv
<1>1. Init => IInv
  BY InitEstablishes
<1>2. IInv /\ [Next]_vars => IInv'
  BY NextKeeps
<1> QED
  BY <1>1, <1>2, PTL DEF Spec

-----------------------------------------------------------------------------
(* The theorems.                                                           *)

(* The note and both stacks are always lists of segments with a cursor in  *)
(* one of them, the undo stack within its capacity (Document, UndoStack).  *)
THEOREM TypeCorrect == Spec => []TypeOK
<1>1. ASSUME NEW d \in Docs(Segment)
      PROVE  IsDocument(d)
  BY DocIs DEF IsDocument
<1>2. IInv => TypeOK
  <2> SUFFICES ASSUME IInv
               PROVE  TypeOK
    OBVIOUS
  <2>1. /\ doc \in Docs(Segment) /\ past \in Seq(Docs(Segment)) /\ future \in Seq(Docs(Segment))
        /\ Scalars
    BY InvariantSays
  <2>2. /\ \A i \in DOMAIN past : past[i] \in Docs(Segment)
        /\ \A i \in DOMAIN future : future[i] \in Docs(Segment)
    BY <2>1, ElementOfSeq, LenProperties
  <2>3. /\ IsDocument(doc) /\ \A i \in DOMAIN past : IsDocument(past[i])
        /\ \A i \in DOMAIN future : IsDocument(future[i])
    BY <1>1, <2>1, <2>2
  <2> QED
    BY <2>1, <2>3 DEF TypeOK, Scalars, IInv
<1> QED
  BY <1>2, Inductive, PTL

(* However a note is changed, by typing, operators, pastes, templates,     *)
(* completions, undo and redo in any order, from prose or in a swap, it    *)
(* starts and ends with prose and has no two blocks in a row, until an     *)
(* exit from a swap hits another segment than a prose between two proses   *)
(* (pad_with_prose, delete_block_at, reparse_prose_at, InBlockSwap).       *)
THEOREM PaddedHolds == Spec => []Padded
<1>1. IInv => Padded
  <2> SUFFICES ASSUME IInv, "slot" \notin lost
               PROVE  PaddedSegs(doc.segs)
    BY DEF Padded, PaddedSegs
  <2>1. "padded" \in Guaranteed
    BY DEF Guaranteed
  <2>2. doc \in Kind("padded")
    BY <2>1, InvariantSays DEF Everywhere
  <2> QED
    BY <2>2, KindsAre
<1> QED
  BY <1>1, Inductive, PTL

(* As long as none of the reasons in lost has come up, what undoing every  *)
(* change would give serializes to the text that was loaded, whatever the  *)
(* changes were and however undo and redo have alternated                  *)
(* (Document::snapshot, undo, redo, InBlockSwap).                          *)
THEOREM UndoAllRestoresHolds == Spec => []UndoAllRestores
<1>1. IInv => UndoAllRestores
  <2> SUFFICES ASSUME IInv, lost \subseteq {"form"}
               PROVE  Text(IF past = <<>> THEN doc.segs ELSE Head(past).segs) = base
    BY DEF UndoAllRestores
  <2>1. Text(First.segs) = base
    BY DEF IInv, BaseKept
  <2>2. First.segs = IF past = <<>> THEN doc.segs ELSE Head(past).segs
    BY DEF First
  <2> QED
    BY <2>1, <2>2
<1> QED
  BY <1>1, Inductive, PTL

(* The fields that a block is saved from are those of the raw that is      *)
(* edited, in whatever way the raw came to be what it is, but for a raw    *)
(* that is not one block, and until a form has been confirmed              *)
(* (reparse_from_raw and its callers).                                     *)
THEOREM FieldsFollowRawHolds == Spec => []FieldsFollowRaw
<1>1. IInv => FieldsFollowRaw
  <2> SUFFICES ASSUME IInv, "form" \notin lost,
                      NEW i \in DOMAIN doc.segs, IsBlock(doc.segs, i)
               PROVE  ReparseFromRaw(doc.segs[i]) = doc.segs[i]
    BY DEF FieldsFollowRaw
  <2>1. "follows" \in Guaranteed
    BY DEF Guaranteed
  <2>2. doc \in Kind("follows")
    BY <2>1, InvariantSays DEF Everywhere
  <2>3. doc \in Docs(FollowingSegment)
    BY <2>2, KindsAre
  <2>4. doc.segs[i] \in FollowingSegment
    BY <2>3, DocIs
  <2> QED
    BY <2>4 DEF FollowingSegment, Follows, IsBlock
<1> QED
  BY <1>1, Inductive, PTL

(* A reload only replaces a note whose text is what was last loaded or     *)
(* written: no step other than a confirmed form changes the text that      *)
(* would be saved without marking the note dirty, the swaps of motions     *)
(* included (handle_file_changed_externally, Document::dirty).             *)
THEOREM UnsavedKeptHolds == Spec => UnsavedKept
<1>1. ASSUME IInv, FileChanged, "form" \notin lost
      PROVE  doc' = doc \/ Text(doc.segs) = saved
  <2>1. CASE dirty
    BY <1>1, <2>1 DEF FileChanged, Panic
  <2>2. CASE ~dirty
    BY <1>1, <2>2 DEF IInv, CleanIsSaved
  <2> QED
    BY <2>1, <2>2
<1>2. IInv /\ [Next]_vars => [FileChanged /\ "form" \notin lost => doc' = doc \/ Text(doc.segs) = saved]_vars
  BY <1>1
<1> QED
  BY <1>2, Inductive, PTL DEF Spec, UnsavedKept

=============================================================================
