--------------------------- MODULE RedactionProofs --------------------------
(***************************************************************************)
(* Theorems about the masking of secrets, for any text and any secrets:    *)
(* `scrub_secrets` yields what it promises of each letter, and no secret   *)
(* can be read in the result.  Merging the spans, joining the pieces and   *)
(* the walk over the letters are three inductions; the induction principle *)
(* is the least counterexample, and that the recursive functions of the    *)
(* folds exist is proved by it too.                                        *)
(***************************************************************************)
EXTENDS Redaction, FiniteSetTheorems, WellFoundedInduction, TLAPS

-----------------------------------------------------------------------------
(* Induction over the naturals, by the least counterexample.               *)

\* A set of naturals has a least one.
LEMMA LeastNumber ==
  ASSUME NEW T, T \subseteq Nat, T # {}
  PROVE  \E n \in T : \A m \in T : n <= m
<1>1. PICK n \in T : \A m \in T : ~(<<m, n>> \in OpToRel(<, Nat))
  BY WFMin, NatLessThanWellFounded
<1>2. \A m \in T : ~(m < n)
  BY <1>1 DEF OpToRel
<1> QED BY <1>2

\* What holds of 0 and of the next number holds of every number.
LEMMA EveryNumber ==
  ASSUME NEW T, 0 \in T, \A i \in Nat : i \in T => i + 1 \in T
  PROVE  \A i \in Nat : i \in T
<1> DEFINE Bad == {i \in Nat : i \notin T}
<1> SUFFICES ASSUME Bad # {} PROVE FALSE
  OBVIOUS
<1>1. PICK n \in Bad : \A m \in Bad : n <= m
  BY LeastNumber
<1>2. n # 0 /\ n \in Nat
  OBVIOUS
<1>3. n - 1 \in Nat /\ n - 1 \notin Bad
  BY <1>1, <1>2
<1>4. n - 1 \in T
  BY <1>3
<1> QED BY <1>1, <1>3, <1>4

-----------------------------------------------------------------------------
(* The spans in their order.                                               *)

\* The spans of a text of n letters.
SpansUpTo(n) == {s \in (1..n) \X (1..(n + 1)) : s[1] < s[2]}

\* A set of spans of a text has a latest one: the sort ends.
LEMMA LatestIsLast ==
  ASSUME NEW n \in Nat, NEW S, S \subseteq SpansUpTo(n), S # {}
  PROVE  /\ Latest(S) \in S
         /\ \A s \in S : s = Latest(S) \/ Earlier(s, Latest(S))
<1> DEFINE Starts == {n + 1 - s[1] : s \in S}
<1>1. Starts \subseteq Nat /\ Starts # {}
  BY DEF SpansUpTo
<1>2. PICK a \in S : \A s \in S : n + 1 - a[1] <= n + 1 - s[1]
  <2>1. PICK m \in Starts : \A k \in Starts : m <= k
    BY <1>1, LeastNumber
  <2> QED BY <2>1
<1>3. \A s \in S : s[1] <= a[1]
  BY <1>2 DEF SpansUpTo
<1> DEFINE Same == {s \in S : s[1] = a[1]}
           Ends == {n + 1 - s[2] : s \in Same}
<1>4. Ends \subseteq Nat /\ Ends # {}
  BY DEF SpansUpTo
<1>5. PICK b \in Same : \A s \in Same : n + 1 - b[2] <= n + 1 - s[2]
  <2>1. PICK m \in Ends : \A k \in Ends : m <= k
    BY <1>4, LeastNumber
  <2> QED BY <2>1
<1>6. \A s \in Same : s[2] <= b[2]
  BY <1>5 DEF SpansUpTo
<1>7. ASSUME NEW s \in S PROVE b = s \/ Earlier(s, b)
  <2>1. s \in (1..n) \X (1..(n + 1)) /\ b \in (1..n) \X (1..(n + 1)) /\ b[1] = a[1]
    BY <1>5 DEF SpansUpTo
  <2>2. s[1] <= b[1]
    BY <1>3, <2>1
  <2>3. s[1] = b[1] => s[2] <= b[2]
    BY <1>6, <2>1
  <2> QED BY <2>1, <2>2, <2>3 DEF Earlier
<1> QED BY <1>5, <1>7 DEF Latest

\* A text has finitely many spans.
LEMMA FiniteSpans ==
  ASSUME NEW n \in Nat, NEW S, S \subseteq SpansUpTo(n)
  PROVE  IsFiniteSet(S)
<1>1. IsFiniteSet(1..n) /\ IsFiniteSet(1..(n + 1))
  BY FS_Interval
<1>2. IsFiniteSet((1..n) \X (1..(n + 1)))
  BY <1>1, FS_Product
<1> QED BY <1>2, FS_Subset DEF SpansUpTo

\* What is merged of a part of the spans.
MergesParts(f, C) ==
  \A S \in C :
    f[S] = IF S = {} THEN <<>> ELSE MergeSpan(f[S \ {Latest(S)}], Latest(S))

\* The function by which the fold is defined exists: all spans but the latest are merged,
\* then the latest.
LEMMA MergedOfParts ==
  ASSUME NEW n \in Nat, NEW D, D \subseteq SpansUpTo(n)
  PROVE  \E f : MergesParts(f, SUBSET D) /\ f[D] = MergedSpans(D)
<1> DEFINE Small(c) == {S \in SUBSET D : Cardinality(S) <= c}
           Merges(f, c) == f = [S \in Small(c) |->
             IF S = {} THEN <<>> ELSE MergeSpan(f[S \ {Latest(S)}], Latest(S))]
           Good == {c \in Nat : \E f : Merges(f, c)}
<1>1. \A S \in SUBSET D : IsFiniteSet(S) /\ Cardinality(S) \in Nat
  BY FiniteSpans, FS_CardinalityType
<1>2. \A S \in SUBSET D : S # {} =>
         /\ S \ {Latest(S)} \in SUBSET D
         /\ Cardinality(S \ {Latest(S)}) = Cardinality(S) - 1
  BY <1>1, LatestIsLast, FS_RemoveElement
<1>3. 0 \in Good
  <2> DEFINE f == [S \in Small(0) |-> <<>>]
  <2>1. \A S \in Small(0) : S = {}
    BY <1>1, FS_EmptySet
  <2>2. Merges(f, 0)
    BY <2>1
  <2> QED BY <2>2
<1>4. ASSUME NEW c \in Nat, c \in Good PROVE c + 1 \in Good
  <2>1. PICK f : Merges(f, c)
    BY <1>4
  <2> DEFINE g == [S \in Small(c + 1) |->
                    IF S = {} THEN <<>> ELSE MergeSpan(f[S \ {Latest(S)}], Latest(S))]
  <2>2. ASSUME NEW S \in Small(c) PROVE S \in Small(c + 1) /\ g[S] = f[S]
    <3>1. S \in Small(c + 1)
      BY <1>1
    <3> QED BY <2>1, <3>1
  <2>3. ASSUME NEW S \in Small(c + 1), S # {}
        PROVE  S \ {Latest(S)} \in Small(c)
    BY <1>1, <1>2, <2>3
  <2>4. Merges(g, c + 1)
    BY <2>2, <2>3
  <2> HIDE DEF g, Merges
  <2> QED BY <2>4
<1>5. Cardinality(D) \in Good
  <2> HIDE DEF Good
  <2>1. \A c \in Nat : c \in Good
    BY <1>3, <1>4, EveryNumber
  <2>2. Cardinality(D) \in Nat
    BY <1>1
  <2> QED BY <2>1, <2>2
<1>6. Small(Cardinality(D)) = SUBSET D
  BY <1>1, FiniteSpans, FS_Subset
<1> DEFINE Parts(f) == f = [S \in SUBSET D |->
             IF S = {} THEN <<>> ELSE MergeSpan(f[S \ {Latest(S)}], Latest(S))]
           f == CHOOSE f : Parts(f)
<1>7. \E g : Parts(g)
  BY <1>5, <1>6
<1>8. Parts(f)
  <2> HIDE DEF Parts
  <2> QED BY <1>7
<1>9. MergedSpans(D) = f[D]
  BY DEF MergedSpans, MapThenFoldSet
<1>10. MergesParts(f, SUBSET D)
  <2> HIDE DEF f
  <2> QED BY <1>8 DEF MergesParts
<1> QED BY <1>9, <1>10

-----------------------------------------------------------------------------
(* Merging.                                                                *)

\* The merged spans m of T: in order, with a letter between each two, over the letters that
\* T covers.
MergeInv(m, T, n) ==
  /\ m \in Seq(Nat \X Nat)
  /\ \A i \in 1..Len(m) : 1 <= m[i][1] /\ m[i][1] < m[i][2] /\ m[i][2] <= n + 1
  /\ \A i, j \in 1..Len(m) : i < j => m[i][2] < m[j][1]
  /\ \A p \in Nat : (\E s \in T : s[1] <= p /\ p < s[2])
                      <=> (\E i \in 1..Len(m) : m[i][1] <= p /\ p < m[i][2])
  /\ m # <<>> => \E s \in T : m[Len(m)][1] <= s[1]

\* One more span, later than the others, keeps what the merged spans are.
LEMMA MergeStep ==
  ASSUME NEW n \in Nat, NEW T, T \subseteq SpansUpTo(n), NEW x \in SpansUpTo(n),
         NEW m, MergeInv(m, T, n), \A s \in T : s[1] <= x[1]
  PROVE  MergeInv(MergeSpan(m, x), T \cup {x}, n)
<1> DEFINE r == MergeSpan(m, x)
           Under(p, q) == \E i \in 1..Len(q) : q[i][1] <= p /\ p < q[i][2]
<1>1. PICK k \in Nat : k = Len(m)
  BY DEF MergeInv
<1>2. m \in Seq(Nat \X Nat) /\ \A i \in 1..k : m[i][1] \in Nat /\ m[i][2] \in Nat
  BY <1>1 DEF MergeInv
<1>3. \A i \in 1..k : 1 <= m[i][1] /\ m[i][1] < m[i][2] /\ m[i][2] <= n + 1
  BY <1>1 DEF MergeInv
<1>4. \A i, j \in 1..k : i < j => m[i][2] < m[j][1]
  BY <1>1 DEF MergeInv
<1>5. /\ x \in Nat \X Nat /\ x[1] \in Nat /\ x[2] \in Nat
      /\ 1 <= x[1] /\ x[1] < x[2] /\ x[2] <= n + 1
  BY DEF SpansUpTo
<1>6. m # <<>> <=> k \in 1..k
  BY <1>1, <1>2
<1>7. m # <<>> => m[k][1] <= x[1]
  <2> SUFFICES ASSUME m # <<>> PROVE m[k][1] <= x[1]
    OBVIOUS
  <2>1. PICK s \in T : m[k][1] <= s[1]
    BY <1>1 DEF MergeInv
  <2>2. s[1] \in Nat /\ s[1] <= x[1] /\ m[k][1] \in Nat
    BY <1>2, <1>6, <2>1 DEF SpansUpTo
  <2> QED BY <1>5, <2>1, <2>2
<1>8. ASSUME NEW q, \A p \in Nat : Under(p, q) <=> Under(p, m) \/ (x[1] <= p /\ p < x[2])
      PROVE  \A p \in Nat : (\E s \in T \cup {x} : s[1] <= p /\ p < s[2]) <=> Under(p, q)
  <2>1. \A p \in Nat : (\E s \in T : s[1] <= p /\ p < s[2]) <=> Under(p, m)
    BY DEF MergeInv
  <2> HIDE DEF Under
  <2> QED BY <1>8, <2>1
<1>9. CASE m # <<>> /\ x[1] <= m[k][2]
  <2> DEFINE e == Longer(m[k][2], x[2])
             b == m[k][1]
  <2>1. r = [m EXCEPT ![k] = <<b, e>>]
    BY <1>1, <1>9 DEF MergeSpan
  <2>2. k \in 1..k /\ b \in Nat /\ m[k][2] \in Nat /\ b <= x[1] /\ 1 <= b /\ b < m[k][2]
    BY <1>2, <1>3, <1>6, <1>7, <1>9
  <2>3. e \in Nat /\ m[k][2] <= e /\ x[2] <= e /\ e <= n + 1 /\ (e = m[k][2] \/ e = x[2])
    BY <1>3, <1>5, <2>2 DEF Longer
  <2> HIDE DEF e, b, r
  <2>4. /\ r \in Seq(Nat \X Nat) /\ Len(r) = k
        /\ \A i \in 1..k : i # k => r[i] = m[i]
        /\ r[k] = <<b, e>>
    BY <1>1, <1>2, <2>1, <2>2, <2>3
  <2>5. r[k][1] = b /\ r[k][2] = e
    BY <2>4
  <2>6. b < e
    BY <2>2, <2>3
  <2>7. ASSUME NEW i \in 1..k
        PROVE  1 <= r[i][1] /\ r[i][1] < r[i][2] /\ r[i][2] <= n + 1
    <3>1. CASE i # k
      BY <1>3, <2>4, <3>1
    <3>2. CASE i = k
      BY <2>2, <2>3, <2>5, <2>6, <3>2
    <3> QED BY <3>1, <3>2
  <2>8. ASSUME NEW i \in 1..k, NEW j \in 1..k, i < j
        PROVE  r[i][2] < r[j][1]
    <3>1. i # k
      BY <2>8
    <3>2. r[i] = m[i] /\ m[i][2] < m[j][1]
      BY <1>4, <2>4, <2>8, <3>1
    <3>3. r[j][1] = m[j][1]
      <4>1. CASE j # k
        BY <2>4, <4>1
      <4>2. CASE j = k
        BY <2>5, <4>2 DEF b
      <4> QED BY <4>1, <4>2
    <3> QED BY <3>2, <3>3
  <2>9. ASSUME NEW p \in Nat
        PROVE  Under(p, r) <=> Under(p, m) \/ (x[1] <= p /\ p < x[2])
    <3>1. ASSUME NEW i \in 1..k, r[i][1] <= p, p < r[i][2]
          PROVE  Under(p, m) \/ (x[1] <= p /\ p < x[2])
      <4>1. CASE i # k
        BY <1>1, <2>4, <3>1, <4>1
      <4>2. CASE i = k
        <5>1. b <= p /\ p < e
          BY <2>5, <3>1, <4>2
        <5>2. p < m[k][2] \/ (x[1] <= p /\ p < x[2])
          BY <1>5, <1>9, <2>2, <2>3, <5>1
        <5> QED BY <1>1, <2>2, <5>1, <5>2 DEF b
      <4> QED BY <4>1, <4>2
    <3>2. ASSUME NEW i \in 1..k, m[i][1] <= p, p < m[i][2]
          PROVE  r[i][1] <= p /\ p < r[i][2]
      <4>1. CASE i # k
        BY <2>4, <3>2, <4>1
      <4>2. CASE i = k
        <5>1. b <= p /\ p < m[k][2]
          BY <3>2, <4>2 DEF b
        <5>2. p < e
          BY <2>2, <2>3, <5>1
        <5> QED BY <2>5, <4>2, <5>1, <5>2
      <4> QED BY <4>1, <4>2
    <3>3. x[1] <= p /\ p < x[2] => r[k][1] <= p /\ p < r[k][2]
      BY <1>5, <2>2, <2>3, <2>5
    <3> QED BY <1>1, <2>2, <2>4, <3>1, <3>2, <3>3
  <2>10. \A p \in Nat : (\E s \in T \cup {x} : s[1] <= p /\ p < s[2]) <=> Under(p, r)
    BY <1>8, <2>9
  <2>11. r[Len(r)][1] <= x[1]
    BY <2>2, <2>4, <2>5
  <2> QED BY <2>4, <2>7, <2>8, <2>10, <2>11 DEF MergeInv, r
<1>10. CASE ~(m # <<>> /\ x[1] <= m[k][2])
  <2>1. r = Append(m, x)
    BY <1>1, <1>10 DEF MergeSpan
  <2> HIDE DEF r
  <2>2. /\ r \in Seq(Nat \X Nat) /\ Len(r) = k + 1
        /\ \A i \in 1..k : r[i] = m[i]
        /\ r[k + 1] = x
    BY <1>1, <1>2, <1>5, <2>1
  <2>3. \A i \in 1..(k + 1) : i \in 1..k \/ i = k + 1
    OBVIOUS
  <2>4. ASSUME NEW i \in 1..(k + 1)
        PROVE  1 <= r[i][1] /\ r[i][1] < r[i][2] /\ r[i][2] <= n + 1
    <3>1. CASE i \in 1..k
      BY <1>3, <2>2, <3>1
    <3>2. CASE i = k + 1
      BY <1>5, <2>2, <3>2
    <3> QED BY <2>3, <3>1, <3>2
  <2>5. ASSUME NEW i \in 1..(k + 1), NEW j \in 1..(k + 1), i < j
        PROVE  r[i][2] < r[j][1]
    <3>1. i \in 1..k
      BY <2>5
    <3>2. r[i] = m[i]
      BY <2>2, <3>1
    <3>3. CASE j \in 1..k
      BY <1>4, <2>2, <2>5, <3>1, <3>2, <3>3
    <3>4. CASE j = k + 1
      <4>1. k \in 1..k
        BY <3>1
      <4>2. m[k][2] < x[1]
        BY <1>2, <1>5, <1>6, <1>10, <4>1
      <4>3. m[i][2] < x[1]
        <5>1. CASE i = k
          BY <4>2, <5>1
        <5>2. CASE i < k
          <6>1. m[i][2] < m[k][1] /\ m[k][1] < m[k][2]
            BY <1>3, <1>4, <3>1, <4>1, <5>2
          <6>2. m[i][2] \in Nat /\ m[k][1] \in Nat /\ m[k][2] \in Nat
            BY <1>2, <3>1, <4>1
          <6> QED BY <1>5, <4>2, <6>1, <6>2
        <5> QED BY <3>1, <5>1, <5>2
      <4> QED BY <2>2, <3>2, <3>4, <4>3
    <3> QED BY <2>3, <3>3, <3>4
  <2>6. ASSUME NEW p \in Nat
        PROVE  Under(p, r) <=> Under(p, m) \/ (x[1] <= p /\ p < x[2])
    <3>1. ASSUME NEW i \in 1..(k + 1), r[i][1] <= p, p < r[i][2]
          PROVE  Under(p, m) \/ (x[1] <= p /\ p < x[2])
      BY <1>1, <2>2, <2>3, <3>1
    <3>2. ASSUME NEW i \in 1..k, m[i][1] <= p, p < m[i][2]
          PROVE  Under(p, r)
      <4>1. i \in 1..Len(r) /\ r[i] = m[i]
        BY <2>2
      <4> QED BY <3>2, <4>1
    <3>3. x[1] <= p /\ p < x[2] => Under(p, r)
      <4>1. k + 1 \in 1..Len(r)
        BY <2>2
      <4> QED BY <2>2, <4>1
    <3> QED BY <1>1, <2>2, <3>1, <3>2, <3>3
  <2>7. \A p \in Nat : (\E s \in T \cup {x} : s[1] <= p /\ p < s[2]) <=> Under(p, r)
    BY <1>8, <2>6
  <2>8. r[Len(r)][1] <= x[1]
    BY <1>5, <2>2
  <2> QED BY <2>2, <2>4, <2>5, <2>7, <2>8 DEF MergeInv, r
<1> QED BY <1>9, <1>10

\* The merged spans are disjoint, in order, apart, and cover what the spans cover.
LEMMA MergedIsMerged ==
  ASSUME NEW n \in Nat, NEW D, D \subseteq SpansUpTo(n)
  PROVE  MergeInv(MergedSpans(D), D, n)
<1>1. PICK f : MergesParts(f, SUBSET D) /\ f[D] = MergedSpans(D)
  BY MergedOfParts
<1> DEFINE Good == {c \in Nat :
             \A S \in SUBSET D : Cardinality(S) = c => MergeInv(f[S], S, n)}
<1>2. \A S \in SUBSET D : S \subseteq SpansUpTo(n) /\ IsFiniteSet(S) /\ Cardinality(S) \in Nat
  BY FiniteSpans, FS_CardinalityType
<1>3. 0 \in Good
  <2>1. \A S \in SUBSET D : Cardinality(S) = 0 => S = {} /\ f[S] = <<>>
    BY <1>1, <1>2, FS_EmptySet DEF MergesParts
  <2>2. MergeInv(<<>>, {}, n)
    BY DEF MergeInv
  <2> QED BY <2>1, <2>2
<1>4. ASSUME NEW c \in Nat, c \in Good PROVE c + 1 \in Good
  <2> SUFFICES ASSUME NEW S \in SUBSET D, Cardinality(S) = c + 1
               PROVE  MergeInv(f[S], S, n)
    OBVIOUS
  <2> DEFINE x == Latest(S)
             R == S \ {x}
  <2>1. S # {}
    BY FS_EmptySet
  <2>2. x \in S /\ \A s \in S : s = x \/ Earlier(s, x)
    BY <1>2, <2>1, LatestIsLast
  <2>3. R \in SUBSET D /\ Cardinality(R) = c
    BY <1>2, <2>2, FS_RemoveElement
  <2>4. f[S] = MergeSpan(f[R], x)
    BY <1>1, <2>1 DEF MergesParts
  <2>5. MergeInv(f[R], R, n)
    BY <1>4, <2>3
  <2>6. \A s \in R : s[1] <= x[1]
    BY <1>2, <2>2 DEF Earlier, SpansUpTo
  <2>7. x \in SpansUpTo(n) /\ R \subseteq SpansUpTo(n) /\ S = R \cup {x}
    BY <1>2, <2>2
  <2> HIDE DEF x, R
  <2> QED BY <2>4, <2>5, <2>6, <2>7, MergeStep
<1> HIDE DEF Good
<1>5. \A c \in Nat : c \in Good
  BY <1>3, <1>4, EveryNumber
<1> QED BY <1>1, <1>2, <1>5 DEF Good

-----------------------------------------------------------------------------
(* Sequences put end to end.                                               *)

\* The join of a sequence of pieces, by the joins of its first pieces.
LEMMA FlattenByPrefix ==
  ASSUME NEW X, NEW n \in Nat, NEW q \in [1..n -> Seq(X)]
  PROVE  \E f \in [0..n -> Seq(X)] :
           /\ f[0] = <<>>
           /\ \A i \in 1..n : f[i] = f[i - 1] \o q[i]
           /\ FlattenSeq(q) = f[n]
<1>1. q \in Seq(Seq(X)) /\ Len(q) = n
  OBVIOUS
<1>2. CASE n = 0
  <2> DEFINE f == [i \in 0..n |-> <<>>]
  <2>1. q = <<>>
    BY <1>1, <1>2
  <2>2. FlattenSeq(q) = <<>>
    BY <2>1 DEF FlattenSeq
  <2>3. f \in [0..n -> Seq(X)] /\ f[0] = <<>> /\ f[n] = <<>> /\ 1..n = {}
    BY <1>2
  <2> HIDE DEF f
  <2> QED BY <2>2, <2>3
<1>3. CASE n > 0
  <2> DEFINE Join(a, i) == a \o q[i]
             Flat(f, c) == f = [i \in 1..c |-> IF i = 1 THEN q[i] ELSE Join(f[i - 1], i)]
             Good == {c \in Nat : \E f : Flat(f, c)}
  <2>1. 0 \in Good
    <3>1. Flat(<<>>, 0)
      OBVIOUS
    <3> HIDE DEF Flat
    <3> QED BY <3>1
  <2>2. ASSUME NEW c \in Nat, c \in Good PROVE c + 1 \in Good
    <3>1. PICK f : Flat(f, c)
      BY <2>2
    <3> DEFINE g == [i \in 1..(c + 1) |-> IF i = 1 THEN q[i] ELSE Join(f[i - 1], i)]
    <3> HIDE DEF Join
    <3>2. \A i \in 1..c : g[i] = f[i]
      BY <3>1
    <3>3. Flat(g, c + 1)
      <4>1. \A i \in 1..(c + 1) : i # 1 => i - 1 \in 1..c
        OBVIOUS
      <4> QED BY <3>2, <4>1
    <3> HIDE DEF g, Flat
    <3> QED BY <3>3
  <2>3. \E f : Flat(f, n)
    <3> HIDE DEF Good, Flat
    <3>1. \A c \in Nat : c \in Good
      BY <2>1, <2>2, EveryNumber
    <3> QED BY <3>1 DEF Good
  <2> DEFINE h == CHOOSE f : Flat(f, n)
  <2>4. Flat(h, n)
    <3> HIDE DEF Flat
    <3> QED BY <2>3
  <2>5. FlattenSeq(q) = h[n]
    BY <1>1, <1>3 DEF FlattenSeq
  <2> HIDE DEF h
  <2>6. h[1] = q[1] /\ \A i \in 1..n : i # 1 => h[i] = h[i - 1] \o q[i]
    <3> HIDE DEF Join
    <3>1. h[1] = q[1]
      BY <1>3, <2>4
    <3>2. \A i \in 1..n : i # 1 => h[i] = Join(h[i - 1], i)
      BY <2>4
    <3> QED BY <3>1, <3>2 DEF Join
  <2> DEFINE f == [i \in 0..n |-> IF i = 0 THEN <<>> ELSE h[i]]
             Typed == {i \in Nat : i \in 1..n => h[i] \in Seq(X)}
  <2>7. \A i \in 1..n : h[i] \in Seq(X)
    <3>1. 0 \in Typed
      OBVIOUS
    <3>2. ASSUME NEW i \in Nat, i \in Typed PROVE i + 1 \in Typed
      <4> SUFFICES ASSUME i + 1 \in 1..n PROVE h[i + 1] \in Seq(X)
        OBVIOUS
      <4>1. q[i + 1] \in Seq(X)
        OBVIOUS
      <4>2. CASE i = 0
        BY <2>6, <4>1, <4>2
      <4>3. CASE i # 0
        <5>1. i \in 1..n /\ h[i] \in Seq(X)
          BY <3>2, <4>3
        <5>2. \A j \in 1..n : j # 1 => h[j] = h[j - 1] \o q[j]
          BY <2>6
        <5>3. i + 1 # 1 /\ (i + 1) - 1 = i
          BY <4>3
        <5>4. h[i + 1] = h[(i + 1) - 1] \o q[i + 1]
          BY <5>2, <5>3, Zenon
        <5> QED BY <4>1, <5>1, <5>3, <5>4
      <4> QED BY <4>2, <4>3
    <3> HIDE DEF Typed
    <3>3. \A i \in Nat : i \in Typed
      BY <3>1, <3>2, EveryNumber
    <3> QED BY <3>3 DEF Typed
  <2>8. f \in [0..n -> Seq(X)] /\ f[0] = <<>> /\ f[n] = h[n]
    BY <1>3, <2>7
  <2>9. ASSUME NEW i \in 1..n PROVE f[i] = f[i - 1] \o q[i]
    <3>1. CASE i = 1
      <4>1. f[i] = q[1] /\ f[i - 1] = <<>> /\ q[1] \in Seq(X)
        BY <2>6, <3>1
      <4> QED BY <3>1, <4>1
    <3>2. CASE i # 1
      <4>1. f[i] = h[i] /\ f[i - 1] = h[i - 1]
        BY <3>2
      <4> QED BY <2>6, <3>2, <4>1
    <3> QED BY <3>1, <3>2
  <2> HIDE DEF f
  <2> QED BY <2>5, <2>8, <2>9
<1>4. n = 0 \/ n > 0
  OBVIOUS
<1> QED BY <1>2, <1>3, <1>4

JoinsThenAppends(X) ==
  \A a \in Seq(X), b \in Seq(X), x \in X : a \o Append(b, x) = Append(a \o b, x)

\* A letter appended to a piece is appended to the join.
LEMMA AppendToJoin == ASSUME NEW X PROVE JoinsThenAppends(X)
BY DEF JoinsThenAppends

\* Parts of a text, one letter longer, empty, and as texts.
LEMMA LongerPart ==
  ASSUME NEW X, NEW s \in Seq(X), NEW i \in 1..Len(s), NEW j \in i..Len(s)
  PROVE  SubSeq(s, i, j) = Append(SubSeq(s, i, j - 1), s[j])
OBVIOUS

LEMMA EmptyPart ==
  ASSUME NEW X, NEW s \in Seq(X), NEW i \in Nat \ {0}
  PROVE  SubSeq(s, i, i - 1) = <<>>
OBVIOUS

LEMMA PartIsSeq ==
  ASSUME NEW X, NEW s \in Seq(X), NEW i \in Nat \ {0}, NEW j \in Nat, j <= Len(s)
  PROVE  SubSeq(s, i, j) \in Seq(X)
OBVIOUS

-----------------------------------------------------------------------------
(* What is masked.                                                         *)

\* A place of a secret is a span of the text, not empty since no secret searched for is.
LEMMA SpansInText ==
  ASSUME NEW X, NEW text \in Seq(X), NEW secrets \in SUBSET Seq(X)
  PROVE  Spans(text, secrets) \subseteq SpansUpTo(Len(text))
<1> SUFFICES ASSUME NEW v \in secrets, Len(v) >= MinScrub, NEW s \in SpansOf(text, v)
             PROVE  s \in SpansUpTo(Len(text))
  BY DEF Spans
<1>1. PICK i \in DOMAIN text : s = <<i, i + Len(v)>> /\ i + Len(v) <= Len(text) + 1
  BY DEF SpansOf
<1>2. Len(v) \in Nat \ {0} /\ i \in 1..Len(text) /\ Len(text) \in Nat
  BY RedactionAssumption
<1> QED BY <1>1, <1>2 DEF SpansUpTo

\* P[i] is what is shown of the first i letters.
ByLetter(P, text, secrets) ==
  /\ P[0] = <<>>
  /\ \A i \in 1..Len(text) :
       /\ ~Covered(text, secrets, i) => P[i] = Append(P[i - 1], text[i])
       /\ Covered(text, secrets, i) /\ i > 1 /\ Covered(text, secrets, i - 1)
            => P[i] = P[i - 1]
       /\ Covered(text, secrets, i) /\ ~(i > 1 /\ Covered(text, secrets, i - 1))
            => P[i] = Append(P[i - 1], Mask)

\* The promise, letter by letter.
LEMMA PromisedByLetter ==
  ASSUME NEW X, NEW text \in Seq(X), NEW secrets \in SUBSET Seq(X)
  PROVE  \E P \in [0..Len(text) -> Seq(X \cup {Mask})] :
           ByLetter(P, text, secrets) /\ P[Len(text)] = Promised(text, secrets)
<1> DEFINE Y == X \cup {Mask}
           C(i) == Covered(text, secrets, i)
           out(i) == IF ~C(i) THEN <<text[i]>>
                     ELSE IF i > 1 /\ C(i - 1) THEN <<>> ELSE <<Mask>>
<1>1. PICK n \in Nat : n = Len(text)
  OBVIOUS
<1>2. text \in Seq(Y) /\ \A i \in 1..n : text[i] \in Y
  BY <1>1
<1> HIDE DEF C
<1> DEFINE q == [i \in 1..n |-> out(i)]
<1>3. \A i \in 1..n : out(i) \in Seq(Y)
  <2>1. \A y \in Y : <<y>> \in Seq(Y)
    OBVIOUS
  <2>2. <<>> \in Seq(Y) /\ Mask \in Y
    OBVIOUS
  <2> HIDE DEF Y
  <2> QED BY <1>2, <2>1, <2>2
<1>4. Promised(text, secrets) = FlattenSeq(q)
  <2>1. DOMAIN text = 1..n
    BY <1>1
  <2> QED BY <2>1 DEF Promised, C
<1>5. \A i \in 1..n : q[i] = out(i)
  OBVIOUS
<1> HIDE DEF out, Y
<1>6. q \in [1..n -> Seq(Y)]
  BY <1>3
<1> HIDE DEF q
<1>7. PICK P \in [0..n -> Seq(Y)] :
        /\ P[0] = <<>>
        /\ \A i \in 1..n : P[i] = P[i - 1] \o q[i]
        /\ FlattenSeq(q) = P[n]
  BY <1>6, FlattenByPrefix, ZenonT(60)
<1>8. ASSUME NEW i \in 1..n
      PROVE  /\ ~C(i) => P[i] = Append(P[i - 1], text[i])
             /\ C(i) /\ i > 1 /\ C(i - 1) => P[i] = P[i - 1]
             /\ C(i) /\ ~(i > 1 /\ C(i - 1)) => P[i] = Append(P[i - 1], Mask)
  <2>1. P[i] = P[i - 1] \o out(i)
    BY <1>5, <1>7
  <2>2. P[i - 1] \in Seq(Y)
    <3>1. i - 1 \in 0..n
      OBVIOUS
    <3> QED BY <3>1
  <2>3. \A a \in Seq(Y) : a \o <<text[i]>> = Append(a, text[i]) /\ a \o <<>> = a
                         /\ a \o <<Mask>> = Append(a, Mask)
    BY <1>2 DEF Y
  <2>4. (~C(i) => out(i) = <<text[i]>>)
        /\ (C(i) /\ i > 1 /\ C(i - 1) => out(i) = <<>>)
        /\ (C(i) /\ ~(i > 1 /\ C(i - 1)) => out(i) = <<Mask>>)
    BY Zenon DEF out
  <2> QED BY <2>1, <2>2, <2>3, <2>4, Zenon
<1>9. ByLetter(P, text, secrets)
  BY <1>1, <1>7, <1>8 DEF ByLetter, C
<1> QED BY <1>1, <1>4, <1>7, <1>9 DEF Y

\* Masking keeps its promise, for any text and any secrets.
THEOREM ScrubIsPromised ==
  ASSUME NEW X, NEW text \in Seq(X), NEW secrets \in SUBSET Seq(X)
  PROVE  Scrub(text, secrets) = Promised(text, secrets)
<1> DEFINE D == Spans(text, secrets)
           Y == X \cup {Mask}
           C(i) == Covered(text, secrets, i)
           m == MergedSpans(D)
<1>1. PICK n \in Nat : n = Len(text)
  OBVIOUS
<1>2. MergeInv(m, D, n)
  BY <1>1, SpansInText, MergedIsMerged
<1>3. PICK k \in Nat : k = Len(m)
  BY <1>2 DEF MergeInv
<1>4. m \in Seq(Nat \X Nat) /\ \A i \in 1..k : m[i][1] \in Nat /\ m[i][2] \in Nat
  BY <1>2, <1>3 DEF MergeInv
<1>4a. \A i \in 1..k : 1 <= m[i][1] /\ m[i][1] < m[i][2] /\ m[i][2] <= n + 1
  BY <1>2, <1>3 DEF MergeInv
<1>4b. \A i, j \in 1..k : i < j => m[i][2] < m[j][1]
  BY <1>2, <1>3 DEF MergeInv
<1>5. \A p \in Nat : C(p) <=> \E i \in 1..k : m[i][1] <= p /\ p < m[i][2]
  BY <1>2, <1>3 DEF MergeInv, Covered
<1>6. text \in Seq(Y) /\ \A i \in 1..n : text[i] \in Y
  BY <1>1
<1> HIDE DEF D, m
<1>7. PICK P \in [0..n -> Seq(Y)] :
        ByLetter(P, text, secrets) /\ P[n] = Promised(text, secrets)
  BY <1>1, PromisedByLetter
<1>9. \A i \in 1..n :
        /\ ~C(i) => P[i] = Append(P[i - 1], text[i])
        /\ C(i) /\ i > 1 /\ C(i - 1) => P[i] = P[i - 1]
        /\ C(i) /\ ~(i > 1 /\ C(i - 1)) => P[i] = Append(P[i - 1], Mask)
  BY <1>1, <1>7, Zenon DEF ByLetter
<1>10. P[0] = <<>>
  BY <1>7 DEF ByLetter
<1> HIDE DEF C
<1>8. \A i \in 0..n : P[i] \in Seq(Y)
  OBVIOUS
\* A run of letters that stay.
<1>11. ASSUME NEW a \in 1..(n + 1), NEW b \in a..(n + 1), \A p \in a..(b - 1) : ~C(p)
       PROVE  P[b - 1] = P[a - 1] \o SubSeq(text, a, b - 1)
  <2> DEFINE Upto(j) == P[a - 1] \o SubSeq(text, a, j)
             Good == {d \in Nat : a + d <= b => P[a + d - 1] = Upto(a + d - 1)}
  <2>1. a - 1 \in 0..n /\ P[a - 1] \in Seq(Y)
    BY <1>8
  <2>2. 0 \in Good
    <3>1. SubSeq(text, a, a - 1) = <<>> /\ a + 0 = a
      BY <1>6, EmptyPart
    <3>2. P[a - 1] \o <<>> = P[a - 1]
      BY <2>1
    <3> QED BY <3>1, <3>2
  <2>3. ASSUME NEW i \in a..(b - 1) PROVE Upto(i) = Append(Upto(i - 1), text[i])
    <3>1. i \in 1..n /\ a \in 1..n /\ i \in a..n
      OBVIOUS
    <3> DEFINE Kept == SubSeq(text, a, i - 1)
    <3>2. SubSeq(text, a, i) = Append(Kept, text[i])
      BY <1>1, <1>6, <3>1, LongerPart
    <3>3. Kept \in Seq(Y) /\ text[i] \in Y
      <4>1. i - 1 \in Nat /\ i - 1 <= Len(text) /\ a \in Nat \ {0}
        BY <1>1, <3>1
      <4> QED BY <1>6, <3>1, <4>1, PartIsSeq
    <3> HIDE DEF Kept, Y
    <3>4. P[a - 1] \o Append(Kept, text[i]) = Append(P[a - 1] \o Kept, text[i])
      <4>1. JoinsThenAppends(Y)
        BY AppendToJoin
      <4> QED BY <2>1, <3>3, <4>1, Zenon DEF JoinsThenAppends
    <3> QED BY <3>2, <3>4 DEF Kept
  <2> HIDE DEF Upto
  <2>4. ASSUME NEW d \in Nat, d \in Good PROVE d + 1 \in Good
    <3> SUFFICES ASSUME a + (d + 1) <= b
                 PROVE  P[a + (d + 1) - 1] = Upto(a + (d + 1) - 1)
      OBVIOUS
    <3> DEFINE i == a + d
    <3>1. i \in 1..n /\ i \in a..(b - 1) /\ a + (d + 1) - 1 = i
      OBVIOUS
    <3>2. P[i - 1] = Upto(i - 1)
      BY <2>4
    <3>3. P[i] = Append(P[i - 1], text[i])
      BY <1>9, <1>11, <3>1
    <3>4. Upto(i) = Append(Upto(i - 1), text[i])
      BY <2>3, <3>1
    <3> QED BY <3>1, <3>2, <3>3, <3>4
  <2> HIDE DEF Good
  <2>5. \A d \in Nat : d \in Good
    BY <2>2, <2>4, EveryNumber
  <2>6. b - a \in Nat /\ a + (b - a) = b /\ b <= b
    OBVIOUS
  <2>7. b - a \in Good
    BY <2>5, <2>6
  <2>8. P[b - 1] = Upto(b - 1)
    BY <2>6, <2>7 DEF Good
  <2> QED BY <2>8 DEF Upto
\* A run of letters that are masked.
<1>12. ASSUME NEW a \in 1..n, NEW b \in (a + 1)..(n + 1), \A p \in a..(b - 1) : C(p),
              a > 1 => ~C(a - 1)
       PROVE  P[b - 1] = Append(P[a - 1], Mask)
  <2> DEFINE Good == {d \in Nat : a + d < b => P[a + d] = Append(P[a - 1], Mask)}
  <2>1. 0 \in Good
    <3>1. C(a) /\ ~(a > 1 /\ C(a - 1)) /\ a + 0 = a
      BY <1>12
    <3> QED BY <1>9, <3>1
  <2>2. ASSUME NEW d \in Nat, d \in Good PROVE d + 1 \in Good
    <3> SUFFICES ASSUME a + (d + 1) < b
                 PROVE  P[a + (d + 1)] = Append(P[a - 1], Mask)
      OBVIOUS
    <3> DEFINE i == a + (d + 1)
    <3>1. /\ i \in 1..n /\ i > 1 /\ i - 1 = a + d /\ i - 1 \in a..(b - 1)
          /\ i \in a..(b - 1) /\ a + d < b
      OBVIOUS
    <3>2. P[i] = P[i - 1]
      BY <1>9, <1>12, <3>1
    <3> QED BY <2>2, <3>1, <3>2
  <2> HIDE DEF Good
  <2>3. \A d \in Nat : d \in Good
    BY <2>1, <2>2, EveryNumber
  <2>4. b - 1 - a \in Nat /\ a + (b - 1 - a) = b - 1 /\ b - 1 < b
    OBVIOUS
  <2>5. b - 1 - a \in Good
    BY <2>3, <2>4
  <2> QED BY <2>4, <2>5 DEF Good
\* The letters between two merged spans, and those after the last, stay.
<1> DEFINE End(i) == IF i = 0 THEN 1 ELSE m[i][2]
<1>13. ASSUME NEW i \in 0..k
       PROVE  /\ End(i) \in 1..(n + 1)
              /\ i < k => /\ i + 1 \in 1..k
                          /\ End(i) <= m[i + 1][1] /\ (i > 0 => End(i) < m[i + 1][1])
  <2>1. CASE i = 0
    <3>1. k > 0 => 1 \in 1..k
      OBVIOUS
    <3> QED BY <1>4a, <2>1, <3>1
  <2>2. CASE i # 0
    <3>1. i \in 1..k /\ (i < k => i + 1 \in 1..k /\ i < i + 1)
      BY <2>2
    <3>2. m[i][2] \in 1..(n + 1)
      <4>1. m[i][1] \in Nat /\ m[i][2] \in Nat
        BY <1>4, <3>1
      <4>2. 1 <= m[i][1] /\ m[i][1] < m[i][2] /\ m[i][2] <= n + 1
        BY <1>4a, <3>1
      <4> QED BY <4>1, <4>2
    <3>3. i < k => m[i][2] < m[i + 1][1] /\ m[i + 1][1] \in Nat
      BY <1>4, <1>4b, <3>1
    <3> QED BY <2>2, <3>1, <3>2, <3>3
  <2> QED BY <2>1, <2>2
<1>14. ASSUME NEW i \in 0..k, NEW p \in Nat, End(i) <= p, i < k => p < m[i + 1][1]
       PROVE  ~C(p)
  <2> SUFFICES ASSUME NEW j \in 1..k, m[j][1] <= p, p < m[j][2]
               PROVE  FALSE
    BY <1>5
  <2>1. m[j][1] \in Nat /\ m[j][2] \in Nat /\ m[j][1] < m[j][2]
    BY <1>4, <1>4a
  <2>2. CASE j <= i
    <3>1. i \in 1..k /\ End(i) = m[i][2]
      BY <2>2
    <3>2. m[i][1] \in Nat /\ m[i][2] \in Nat /\ m[i][1] < m[i][2]
      BY <1>4, <1>4a, <3>1
    <3>3. j < i => m[j][2] < m[i][1]
      BY <1>4b, <3>1
    <3>4. m[j][2] <= m[i][2]
      BY <2>1, <2>2, <3>1, <3>2, <3>3
    <3>5. m[i][2] <= p
      BY <1>14, <3>1
    <3> QED BY <2>1, <3>2, <3>4, <3>5
  <2>3. CASE i < j
    <3>1. i < k /\ i + 1 \in 1..k
      BY <2>3
    <3> DEFINE h == i + 1
    <3>2. m[h][1] \in Nat /\ m[h][2] \in Nat /\ m[h][1] < m[h][2]
      BY <1>4, <1>4a, <3>1
    <3>3. h < j => m[h][2] < m[j][1]
      BY <1>4b, <3>1
    <3>4. h = j \/ h < j
      BY <2>3
    <3>5. p < m[h][1]
      BY <1>14, <3>1
    <3> HIDE DEF h
    <3>6. CASE h = j
      BY <2>1, <3>5, <3>6
    <3>7. CASE h < j
      <4>1. m[h][2] < m[j][1]
        BY <3>3, <3>7
      <4>2. PICK a \in Nat, b \in Nat, c \in Nat : a = m[h][1] /\ b = m[h][2] /\ c = m[j][1]
        BY <2>1, <3>2
      <4>3. a < b
        BY <3>2, <4>2
      <4>4. b < c
        BY <4>1, <4>2
      <4>5. c <= p /\ p < a
        BY <3>5, <4>2
      <4> QED BY <4>3, <4>4, <4>5
    <3> QED BY <3>4, <3>6, <3>7
  <2> QED BY <2>2, <2>3
\* A merged span and the letters before it.
<1>15. ASSUME NEW i \in 1..k
       PROVE  P[m[i][2] - 1] =
                Append(P[End(i - 1) - 1] \o SubSeq(text, End(i - 1), m[i][1] - 1), Mask)
  <2> DEFINE e == End(i - 1)
             a == m[i][1]
             b == m[i][2]
  <2>1. i - 1 \in 0..k /\ i - 1 < k /\ (i - 1) + 1 = i
    OBVIOUS
  <2>2. e \in 1..(n + 1) /\ e <= a /\ (i - 1 > 0 => e < a)
    BY <1>13, <2>1
  <2>3. a \in Nat /\ b \in Nat /\ 1 <= a /\ a < b /\ b <= n + 1
    BY <1>4, <1>4a
  <2>4. \A p \in Nat : e <= p /\ p < a => ~C(p)
    BY <1>14, <2>1
  <2>5. \A p \in a..(b - 1) : C(p)
    <3> SUFFICES ASSUME NEW p \in a..(b - 1) PROVE C(p)
      OBVIOUS
    <3>1. p \in Nat /\ a <= p /\ p < b
      <4> HIDE DEF a, b
      <4> QED BY <2>3
    <3> QED BY <1>5, <3>1
  <2>6. a > 1 => ~C(a - 1)
    <3>1. i = 1 => e = 1
      OBVIOUS
    <3> HIDE DEF e, a, b
    <3>2. i # 1 => e < a
      BY <2>2
    <3>3. a > 1 => a - 1 \in Nat /\ e <= a - 1 /\ a - 1 < a
      BY <2>2, <2>3, <3>1, <3>2
    <3> QED BY <2>4, <3>3
  <2> HIDE DEF e, a, b
  <2>7. P[a - 1] = P[e - 1] \o SubSeq(text, e, a - 1)
    <3>1. a \in e..(n + 1) /\ \A p \in e..(a - 1) : ~C(p)
      BY <2>2, <2>3, <2>4
    <3> QED BY <1>11, <2>2, <3>1
  <2>8. P[b - 1] = Append(P[a - 1], Mask)
    <3>1. a \in 1..n /\ b \in (a + 1)..(n + 1)
      BY <2>3
    <3> QED BY <1>12, <2>5, <2>6, <3>1
  <2> QED BY <2>7, <2>8 DEF e, a, b
\* The output of the code, piece by piece.
<1> DEFINE Piece(i) == SubSeq(text, IF i = 1 THEN 1 ELSE m[i - 1][2], m[i][1] - 1)
           q == [i \in 1..k |-> Append(Piece(i), Mask)]
<1>16. ASSUME NEW i \in 1..k
       PROVE  Piece(i) = SubSeq(text, End(i - 1), m[i][1] - 1)
  <2>1. (IF i = 1 THEN 1 ELSE m[i - 1][2]) = End(i - 1)
    BY (i = 1) <=> (i - 1 = 0)
  <2> QED BY <2>1
<1>17. ASSUME NEW i \in 1..k PROVE Piece(i) \in Seq(Y)
  <2>1. m[i][1] \in Nat /\ m[i][2] \in Nat /\ 1 <= m[i][1] /\ m[i][1] < m[i][2] /\ m[i][2] <= n + 1
    BY <1>4, <1>4a
  <2>2. m[i][1] - 1 \in Nat /\ m[i][1] - 1 <= Len(text)
    BY <1>1, <2>1
  <2>3. i - 1 \in 0..k
    OBVIOUS
  <2>4. End(i - 1) \in Nat \ {0}
    BY <1>13, <2>3
  <2> HIDE DEF End, Piece, Y
  <2>5. SubSeq(text, End(i - 1), m[i][1] - 1) \in Seq(Y)
    BY <1>6, <2>2, <2>4, PartIsSeq, Zenon
  <2> QED BY <1>16, <2>5
<1> HIDE DEF Piece
<1>18. q \in [1..k -> Seq(Y)]
  <2>1. Mask \in Y
    OBVIOUS
  <2>2. \A i \in 1..k : Append(Piece(i), Mask) \in Seq(Y)
    BY <1>17, <2>1
  <2> QED BY <2>2
<1>19. PICK F \in [0..k -> Seq(Y)] :
         /\ F[0] = <<>>
         /\ \A i \in 1..k : F[i] = F[i - 1] \o q[i]
         /\ FlattenSeq(q) = F[k]
  <2> HIDE DEF q, Y
  <2> QED BY <1>18, FlattenByPrefix, ZenonT(60)
<1>20. F[k] = P[End(k) - 1]
  <2> DEFINE Good == {i \in Nat : i \in 0..k => F[i] = P[End(i) - 1]}
  <2>1. 0 \in Good
    BY <1>10, <1>19
  <2>2. ASSUME NEW i \in Nat, i \in Good PROVE i + 1 \in Good
    <3> SUFFICES ASSUME i + 1 \in 1..k PROVE F[i + 1] = P[End(i + 1) - 1]
      OBVIOUS
    <3> DEFINE j == i + 1
    <3>1. j \in 1..k /\ j - 1 = i /\ i \in 0..k
      OBVIOUS
    <3>2. F[i] = P[End(i) - 1]
      BY <2>2, <3>1
    <3>3. F[j] = F[i] \o q[j]
      BY <1>19, <3>1
    <3>4. q[j] = Append(Piece(j), Mask)
      BY <3>1
    <3>5. End(j) = m[j][2]
      OBVIOUS
    <3> HIDE DEF j, End, q
    <3>6. P[m[j][2] - 1] = Append(F[i] \o Piece(j), Mask)
      BY <1>15, <1>16, <3>1, <3>2
    <3>7. F[i] \in Seq(Y) /\ Piece(j) \in Seq(Y)
      BY <1>17, <3>1
    <3>8. F[i] \o Append(Piece(j), Mask) = Append(F[i] \o Piece(j), Mask)
      <4>1. Mask \in Y
        OBVIOUS
      <4> HIDE DEF Y
      <4>2. JoinsThenAppends(Y)
        BY AppendToJoin
      <4> QED BY <3>7, <4>1, <4>2, Zenon DEF JoinsThenAppends
    <3>9. F[j] = P[End(j) - 1]
      BY <3>3, <3>4, <3>5, <3>6, <3>8
    <3> QED BY <3>9 DEF j
  <2> HIDE DEF Good
  <2>3. k \in Good
    BY <2>1, <2>2, EveryNumber
  <2>4. k \in 0..k
    OBVIOUS
  <2> QED BY <2>3, <2>4 DEF Good
<1>21. Scrub(text, secrets) = FlattenSeq(q) \o SubSeq(text, End(k), n)
  <2>1. DOMAIN m = 1..k /\ (m = <<>> <=> k = 0)
    BY <1>3, <1>4
  <2>2. (IF m = <<>> THEN 1 ELSE m[Len(m)][2]) = End(k)
    BY <1>3, <2>1
  <2>3. Scrub(text, secrets) =
          FlattenSeq([i \in DOMAIN m |-> Append(Piece(i), Mask)])
            \o SubSeq(text, IF m = <<>> THEN 1 ELSE m[Len(m)][2], Len(text))
    BY DEF Scrub, Piece, m, D
  <2> HIDE DEF End
  <2> QED BY <1>1, <2>1, <2>2, <2>3
<1>22. P[n] = P[End(k) - 1] \o SubSeq(text, End(k), n)
  <2>1. k \in 0..k
    OBVIOUS
  <2>2. End(k) \in 1..(n + 1)
    BY <1>13, <2>1
  <2>3. \A p \in End(k)..n : ~C(p)
    BY <1>14, <2>1, <2>2
  <2> HIDE DEF End
  <2>4. n + 1 \in End(k)..(n + 1) /\ (n + 1) - 1 = n
    BY <2>2
  <2> QED BY <1>11, <2>2, <2>3, <2>4
<1> QED BY <1>7, <1>19, <1>20, <1>21, <1>22

-----------------------------------------------------------------------------
(* What a reader of the masked text learns.                                *)

\* Each letter shown stands for one place of the text: its own letter where no secret
\* covers it, the mask where one does; letters shown side by side stood side by side.
Origins(o, z, i, text, secrets) ==
  /\ o \in [1..Len(z) -> 1..i]
  /\ \A j \in 1..Len(z) :
       IF Covered(text, secrets, o[j]) THEN z[j] = Mask ELSE z[j] = text[o[j]]
  /\ \A j \in 1..Len(z) : j + 1 <= Len(z) =>
       \/ Covered(text, secrets, o[j]) \/ Covered(text, secrets, o[j + 1])
       \/ o[j + 1] = o[j] + 1
  /\ Len(z) > 0 => Covered(text, secrets, o[Len(z)]) \/ o[Len(z)] = i

\* Every shown letter has a place in the text it comes from, as `Origins` says: letter after
\* letter, a shown one appends its own place and a run of covered ones the first of its places.
LEMMA ShownFromText ==
  ASSUME NEW X, NEW text \in Seq(X), NEW secrets \in SUBSET Seq(X),
         NEW P \in [0..Len(text) -> Seq(X \cup {Mask})], ByLetter(P, text, secrets)
  PROVE  \E o : Origins(o, P[Len(text)], Len(text), text, secrets)
<1> DEFINE C(i) == Covered(text, secrets, i)
           Y == X \cup {Mask}
<1>1. PICK n \in Nat : n = Len(text)
  OBVIOUS
<1> DEFINE Good == {i \in Nat : i <= n => \E o : Origins(o, P[i], i, text, secrets)}
<1>2. \A i \in 0..n : P[i] \in Seq(Y)
  BY <1>1
<1>3. P[0] = <<>> /\ Len(P[0]) = 0
  BY DEF ByLetter
<1> HIDE DEF C, Y
<1>4. 0 \in Good
  <2>1. Origins(<<>>, P[0], 0, text, secrets)
    BY <1>3 DEF Origins
  <2> QED BY <2>1
<1>5. ASSUME NEW h \in Nat, h \in Good PROVE h + 1 \in Good
  <2> SUFFICES ASSUME h + 1 <= n PROVE \E o : Origins(o, P[h + 1], h + 1, text, secrets)
    OBVIOUS
  <2>1. PICK i \in 1..n : i = h + 1 /\ i - 1 = h
    OBVIOUS
  <2>2. PICK o : Origins(o, P[h], h, text, secrets)
    BY <1>5
  <2>3. PICK l \in Nat : l = Len(P[h])
    BY <1>2
  <2>4. /\ o \in [1..l -> 1..h]
        /\ \A j \in 1..l : /\ C(o[j]) => P[h][j] = Mask
                           /\ ~C(o[j]) => P[h][j] = text[o[j]]
    BY <2>2, <2>3, Zenon DEF Origins, C
  <2>5. \A j \in 1..l : j + 1 <= l => C(o[j]) \/ C(o[j + 1]) \/ o[j + 1] = o[j] + 1
    BY <2>2, <2>3 DEF Origins, C
  <2>6. l > 0 => C(o[l]) \/ o[l] = h
    BY <2>2, <2>3 DEF Origins, C
  <2>7. ASSUME NEW y, P[i] = Append(P[h], y), IF C(i) THEN y = Mask ELSE y = text[i]
        PROVE  \E oo : Origins(oo, P[i], i, text, secrets)
    <3> DEFINE oo == [j \in 1..(l + 1) |-> IF j = l + 1 THEN i ELSE o[j]]
    <3>1. /\ Len(P[i]) = l + 1 /\ P[i][l + 1] = y
          /\ \A j \in 1..l : P[i][j] = P[h][j]
      BY <1>2, <2>1, <2>3, <2>7
    <3>2. oo[l + 1] = i /\ \A j \in 1..l : oo[j] = o[j]
      OBVIOUS
    <3>3. oo \in [1..(l + 1) -> 1..i]
      BY <2>1, <2>4
    <3> HIDE DEF oo
    <3>4. ASSUME NEW j \in 1..(l + 1)
          PROVE  IF C(oo[j]) THEN P[i][j] = Mask ELSE P[i][j] = text[oo[j]]
      <4>1. CASE j \in 1..l
        BY <2>4, <3>1, <3>2, <4>1
      <4>2. CASE j = l + 1
        BY <2>7, <3>1, <3>2, <4>2
      <4> QED BY <4>1, <4>2
    <3>5. ASSUME NEW j \in 1..(l + 1), j + 1 <= l + 1
          PROVE  C(oo[j]) \/ C(oo[j + 1]) \/ oo[j + 1] = oo[j] + 1
      <4>1. j \in 1..l /\ oo[j] = o[j]
        BY <3>2, <3>5
      <4>2. CASE j + 1 \in 1..l
        BY <2>5, <3>2, <4>1, <4>2
      <4>3. CASE j = l
        <5>1. C(o[l]) \/ o[l] = h
          BY <2>6, <4>1, <4>3
        <5> QED BY <2>1, <3>2, <4>1, <4>3, <5>1
      <4> QED BY <3>5, <4>1, <4>2, <4>3
    <3>6. Origins(oo, P[i], i, text, secrets)
      BY <3>1, <3>2, <3>3, <3>4, <3>5 DEF Origins, C
    <3> QED BY <3>6
  <2>8. /\ ~C(i) => P[i] = Append(P[h], text[i])
        /\ C(i) /\ i > 1 /\ C(h) => P[i] = P[h]
        /\ C(i) /\ ~(i > 1 /\ C(h)) => P[i] = Append(P[h], Mask)
    BY <1>1, <2>1 DEF ByLetter, C
  <2>9. CASE ~C(i)
    BY <2>1, <2>7, <2>8, <2>9
  <2>10. CASE C(i) /\ ~(i > 1 /\ C(h))
    BY <2>1, <2>7, <2>8, <2>10
  <2>11. CASE C(i) /\ i > 1 /\ C(h)
    <3>1. P[i] = P[h] /\ Len(P[i]) = l
      BY <2>3, <2>8, <2>11
    <3>2. o \in [1..l -> 1..i]
      BY <2>1, <2>4
    <3>3. l > 0 => C(o[l])
      BY <2>6, <2>11
    <3>4. \A j \in 1..l : IF C(o[j]) THEN P[i][j] = Mask ELSE P[i][j] = text[o[j]]
      BY <2>4, <3>1
    <3>5. Origins(o, P[i], i, text, secrets)
      BY <2>5, <3>1, <3>2, <3>3, <3>4 DEF Origins, C
    <3> QED BY <2>1, <3>5
  <2> QED BY <2>9, <2>10, <2>11
<1> HIDE DEF Good
<1>6. n \in Good
  BY <1>4, <1>5, EveryNumber
<1> QED BY <1>1, <1>6 DEF Good

\* That of the masked text.
LEMMA ScrubFromText ==
  ASSUME NEW X, NEW text \in Seq(X), NEW secrets \in SUBSET Seq(X)
  PROVE  /\ Scrub(text, secrets) \in Seq(X \cup {Mask})
         /\ \E o : Origins(o, Scrub(text, secrets), Len(text), text, secrets)
<1>1. PICK P \in [0..Len(text) -> Seq(X \cup {Mask})] :
        ByLetter(P, text, secrets) /\ P[Len(text)] = Promised(text, secrets)
  BY PromisedByLetter
<1>2. P[Len(text)] = Scrub(text, secrets)
  BY <1>1, ScrubIsPromised
<1>3. Len(text) \in 0..Len(text)
  OBVIOUS
<1>4. \E o : Origins(o, P[Len(text)], Len(text), text, secrets)
  BY <1>1, ShownFromText
<1> QED BY <1>2, <1>3, <1>4

\* The letters that the masked text shows are the mask, and letters of the text that no
\* long enough secret covers.
THEOREM ShownIsUncovered ==
  ASSUME NEW X, NEW text \in Seq(X), NEW secrets \in SUBSET Seq(X)
  PROVE  Range(Scrub(text, secrets)) \subseteq
           {Mask} \cup {text[i] : i \in {j \in DOMAIN text : ~Covered(text, secrets, j)}}
<1>1. PICK z \in Seq(X \cup {Mask}) : z = Scrub(text, secrets)
  BY ScrubFromText
<1>2. PICK o : Origins(o, z, Len(text), text, secrets)
  BY <1>1, ScrubFromText
<1>3. DOMAIN z = 1..Len(z) /\ DOMAIN text = 1..Len(text)
  OBVIOUS
<1>4. ASSUME NEW j \in 1..Len(z)
      PROVE  o[j] \in DOMAIN text
             /\ (z[j] = Mask \/ (~Covered(text, secrets, o[j]) /\ z[j] = text[o[j]]))
  BY <1>2, <1>3 DEF Origins
<1> QED BY <1>1, <1>3, <1>4 DEF Range

\* A part of the shown text without the mask is a part of the text, and is not covered.
PartsShown(z, l, text, n, secrets) ==
  \A i \in 1..l : \A w \in Nat \ {0} :
    (i + w <= l + 1 /\ \A d \in 0..(w - 1) : z[i + d] # Mask)
      => \E a \in 1..n :
           /\ a + w <= n + 1 /\ ~Covered(text, secrets, a)
           /\ \A d \in 0..(w - 1) : z[i + d] = text[a + d]

\* A part of the masked text without a mask is a part of the text no secret covers.
LEMMA ShownPart ==
  ASSUME NEW text, NEW secrets, NEW z, NEW o, NEW n \in Nat, NEW l \in Nat, l = Len(z),
         Origins(o, z, n, text, secrets)
  PROVE  PartsShown(z, l, text, n, secrets)
<1> SUFFICES ASSUME NEW i \in 1..l, NEW w \in Nat \ {0}, i + w <= l + 1,
                    \A d \in 0..(w - 1) : z[i + d] # Mask
             PROVE  \E a \in 1..n :
                      /\ a + w <= n + 1 /\ ~Covered(text, secrets, a)
                      /\ \A d \in 0..(w - 1) : z[i + d] = text[a + d]
  BY DEF PartsShown
<1> DEFINE C(p) == Covered(text, secrets, p)
<1>1. o \in [1..l -> 1..n]
  BY DEF Origins
<1>2. \A j \in 1..l : (C(o[j]) => z[j] = Mask) /\ (~C(o[j]) => z[j] = text[o[j]])
  BY DEF Origins
<1>3. \A j \in 1..l : j + 1 <= l => C(o[j]) \/ C(o[j + 1]) \/ o[j + 1] = o[j] + 1
  BY DEF Origins
<1> HIDE DEF C
<1>4. ASSUME NEW d \in 0..(w - 1)
      PROVE  i + d \in 1..l /\ ~C(o[i + d]) /\ z[i + d] = text[o[i + d]]
  <2>1. i + d \in 1..l
    OBVIOUS
  <2> QED BY <1>2, <2>1
<1>5. PICK a \in 1..n : a = o[i]
  BY <1>1
<1> DEFINE Good == {d \in Nat : d <= w - 1 => o[i + d] = a + d}
<1>6. 0 \in Good
  BY <1>5
<1>7. ASSUME NEW d \in Nat, d \in Good PROVE d + 1 \in Good
  <2> SUFFICES ASSUME d + 1 <= w - 1 PROVE o[i + (d + 1)] = a + (d + 1)
    OBVIOUS
  <2> DEFINE h == i + d
  <2>1. d \in 0..(w - 1) /\ d + 1 \in 0..(w - 1) /\ h + 1 = i + (d + 1)
    OBVIOUS
  <2>2. o[h] = a + d
    BY <1>7, <2>1
  <2>3. h \in 1..l /\ ~C(o[h])
    BY <1>4, <2>1
  <2>4. h + 1 \in 1..l /\ ~C(o[h + 1])
    BY <1>4, <2>1
  <2>5. h + 1 <= l
    BY <2>4
  <2> HIDE DEF h
  <2>6. o[h + 1] = o[h] + 1
    BY <1>3, <2>3, <2>4, <2>5
  <2>7. o[h + 1] = (a + d) + 1
    BY <2>2, <2>6
  <2>8. (a + d) + 1 = a + (d + 1)
    OBVIOUS
  <2> QED BY <2>1, <2>7, <2>8
<1> HIDE DEF Good
<1>8. \A d \in Nat : d \in Good
  BY <1>6, <1>7, EveryNumber
<1>9. \A d \in 0..(w - 1) : o[i + d] = a + d
  BY <1>8 DEF Good
<1>10. a + w <= n + 1
  <2>1. w - 1 \in 0..(w - 1)
    OBVIOUS
  <2>2. o[i + (w - 1)] = a + (w - 1) /\ i + (w - 1) \in 1..l
    BY <1>4, <1>9, <2>1
  <2>3. o[i + (w - 1)] \in 1..n
    BY <1>1, <2>2
  <2>4. a + (w - 1) \in 1..n
    BY <2>2, <2>3
  <2> QED BY <2>4
<1>11. ~C(a)
  <2>1. 0 \in 0..(w - 1) /\ i + 0 = i
    OBVIOUS
  <2> QED BY <1>4, <1>5, <2>1
<1>12. \A d \in 0..(w - 1) : z[i + d] = text[a + d]
  BY <1>4, <1>9
<1> QED BY <1>10, <1>11, <1>12 DEF C

\* The letters of a part.
LEMMA PartAt ==
  ASSUME NEW X, NEW s \in Seq(X), NEW i \in Nat \ {0}, NEW w \in Nat \ {0}, i + w <= Len(s) + 1
  PROVE  /\ SubSeq(s, i, i + w - 1) \in Seq(X)
         /\ Len(SubSeq(s, i, i + w - 1)) = w
         /\ \A d \in 0..(w - 1) : SubSeq(s, i, i + w - 1)[d + 1] = s[i + d]
<1>1. PICK n \in Nat : n = Len(s)
  OBVIOUS
<1>2. i + w - 1 \in Nat /\ i + w - 1 <= n /\ (i + w - 1) - i + 1 = w
  BY <1>1
<1>3. PICK j \in Nat : j = i + w - 1
  BY <1>2
<1>4. SubSeq(s, i, j) \in Seq(X)
  BY <1>1, <1>2, <1>3, PartIsSeq
<1>5. Len(SubSeq(s, i, j)) = w
  BY <1>1, <1>2, <1>3
<1>6. ASSUME NEW d \in 0..(w - 1) PROVE SubSeq(s, i, j)[d + 1] = s[i + d]
  <2>1. d + 1 \in 1..(j - i + 1) /\ i + (d + 1) - 1 = i + d
    BY <1>2, <1>3
  <2>2. \A h \in 1..(j - i + 1) : SubSeq(s, i, j)[h] = s[i + h - 1]
    BY <1>1, <1>2, <1>3
  <2> QED BY <2>1, <2>2
<1> QED BY <1>3, <1>4, <1>5, <1>6

\* Two texts of one length with the same letters are the same.
LEMMA SameLetters ==
  ASSUME NEW X, NEW s \in Seq(X), NEW t \in Seq(X), NEW w \in Nat, Len(s) = w, Len(t) = w,
         \A d \in 0..(w - 1) : s[d + 1] = t[d + 1]
  PROVE  s = t
<1>1. ASSUME NEW h \in 1..w PROVE s[h] = t[h]
  <2>1. h - 1 \in 0..(w - 1) /\ (h - 1) + 1 = h
    OBVIOUS
  <2>2. s[(h - 1) + 1] = t[(h - 1) + 1]
    BY <2>1
  <2> QED BY <2>1, <2>2
<1> QED BY <1>1

\* No long enough secret is left in a masked text, when no secret has the mask in it.
THEOREM NoSecretIsShown ==
  ASSUME NEW X, NEW text \in Seq(X), NEW secrets \in SUBSET Seq(X),
         \A s \in secrets : Mask \notin Range(s)
  PROVE  Spans(Scrub(text, secrets), secrets) = {}
<1>1. PICK z \in Seq(X \cup {Mask}) : z = Scrub(text, secrets)
  BY ScrubFromText
<1>2. PICK o : Origins(o, z, Len(text), text, secrets)
  BY <1>1, ScrubFromText
<1>3. PICK n \in Nat : n = Len(text)
  OBVIOUS
<1>4. PICK l \in Nat : l = Len(z)
  OBVIOUS
<1>5. ASSUME NEW v \in secrets, Len(v) >= MinScrub, NEW i \in 1..l,
             i + Len(v) <= l + 1, SubSeq(z, i, i + Len(v) - 1) = v
      PROVE  FALSE
  <2>1. PICK w \in Nat \ {0} : w = Len(v)
    <3>1. v \in Seq(X)
      OBVIOUS
    <3>2. PICK w \in Nat : w = Len(v)
      BY <3>1
    <3>3. w >= MinScrub
      BY <1>5, <3>2
    <3>4. w # 0
      BY <3>3, RedactionAssumption
    <3> QED BY <3>2, <3>4
  <2>2. i + w <= l + 1 /\ SubSeq(z, i, i + w - 1) = v
    BY <1>5, <2>1
  <2>3. \A d \in 0..(w - 1) : v[d + 1] = z[i + d]
    BY <1>4, <2>2, PartAt
  <2>4. ASSUME NEW d \in 0..(w - 1) PROVE z[i + d] # Mask
    <3>1. d + 1 \in DOMAIN v
      BY <2>1
    <3>2. v[d + 1] \in Range(v)
      BY <3>1 DEF Range
    <3> QED BY <2>3, <3>2
  <2>5. PICK a \in 1..n : /\ a + w <= n + 1 /\ ~Covered(text, secrets, a)
                          /\ \A d \in 0..(w - 1) : z[i + d] = text[a + d]
    <3>1. Origins(o, z, n, text, secrets)
      BY <1>2, <1>3
    <3>2. i + w <= l + 1
      BY <2>2
    <3>3. \A d \in 0..(w - 1) : z[i + d] # Mask
      BY <2>4
    <3>4. \E a \in 1..n : /\ a + w <= n + 1 /\ ~Covered(text, secrets, a)
                          /\ \A d \in 0..(w - 1) : z[i + d] = text[a + d]
      <4>1. PartsShown(z, l, text, n, secrets)
        BY <1>4, <3>1, ShownPart
      <4> QED BY <3>2, <3>3, <4>1, Zenon DEF PartsShown
    <3> QED BY <3>4
  <2> DEFINE u == SubSeq(text, a, a + w - 1)
  <2>6. u \in Seq(X) /\ Len(u) = w /\ \A d \in 0..(w - 1) : u[d + 1] = text[a + d]
    BY <1>3, <2>5, PartAt
  <2> HIDE DEF u
  <2>7. \A d \in 0..(w - 1) : u[d + 1] = v[d + 1]
    BY <2>3, <2>5, <2>6
  <2>8. u = v
    BY <2>1, <2>6, <2>7, SameLetters
  <2>9. <<a, a + w>> \in SpansOf(text, v)
    <3>1. a \in DOMAIN text /\ a + Len(v) <= Len(text) + 1
      BY <1>3, <2>1, <2>5
    <3> QED BY <2>1, <2>8, <3>1 DEF SpansOf, u
  <2>10. <<a, a + w>> \in Spans(text, secrets)
    BY <1>5, <2>9 DEF Spans
  <2>11. Covered(text, secrets, a)
    BY <2>10 DEF Covered
  <2> QED BY <2>5, <2>11
<1>6. DOMAIN z = 1..l
  BY <1>4
<1>7. Spans(z, secrets) = {}
  BY <1>4, <1>5, <1>6 DEF Spans, SpansOf
<1> QED BY <1>1, <1>7
=============================================================================
