------------------------- MODULE Algorithms_proofs -------------------------
(***************************************************************************)
(* Theorems about the pure algorithms, for inputs of any size.  Outline:   *)
(* what parseMarkdown's stack of open sections means, and that             *)
(* wireIdentity's numbers make ids.  IgnoreRules: the walk finds what the  *)
(* rules leave.  Split: each value of a document is shown by one node.     *)
(* TempFile: a file is seeded with what the keys of .temp.json say.        *)
(* SearchQuery: a rewritten query has every symbol of the query, and what  *)
(* FTS5's bareword parser rejects is inside closed strings.                *)
(*                                                                         *)
(* A recursive function is a chosen solution of its equation.  Each one is *)
(* given in closed form here: the closed form solves the equation, and,    *)
(* by induction over a set of numbers, nothing else does.                  *)
(***************************************************************************)
EXTENDS Outline, IgnoreRules, Split, TempFile, SearchQuery, FiniteSetTheorems,
        SequenceTheorems, WellFoundedInduction, TLAPS

-----------------------------------------------------------------------------
(* Numbers.                                                                *)

\* Induction over the natural numbers, for a set.
LEMMA NatSet ==
    ASSUME NEW S, 0 \in S, \A n \in Nat : n \in S => n + 1 \in S
    PROVE  Nat \subseteq S
<1> DEFINE T == Nat \ S
<1> SUFFICES ASSUME T # {} PROVE FALSE
  OBVIOUS
<1>1. PICK x \in T : \A y \in T : ~ (<<y, x>> \in OpToRel(<, Nat))
  <2>1. T \subseteq Nat
    OBVIOUS
  <2> HIDE DEF T
  <2> QED
    BY <2>1, NatLessThanWellFounded, WFMin
<1>2. \A y \in T : ~ (y < x)
  BY <1>1 DEF OpToRel
<1>3. x \in Nat /\ x # 0
  OBVIOUS
<1>4. x - 1 \in Nat /\ x - 1 < x /\ (x - 1) + 1 = x
  BY <1>3
<1> QED
  BY <1>2, <1>4

\* A set of positions that is not empty has a last one.
LEMMA LastPosition ==
    ASSUME NEW n \in Nat, NEW K, K \subseteq 0..n, K # {}
    PROVE  \E m \in K : \A t \in K : t <= m
<1> DEFINE T == {n - s : s \in K}
<1>1. \A s \in K : s \in Nat /\ n - s \in Nat
  OBVIOUS
<1>2. T \subseteq Nat /\ T # {}
  BY <1>1, Zenon
<1>3. PICK x \in T : \A y \in T : ~ (<<y, x>> \in OpToRel(<, Nat))
  <2> HIDE DEF T
  <2> QED
    BY <1>2, NatLessThanWellFounded, WFMin
<1>4. \A y \in T : ~ (y < x)
  BY <1>2, <1>3 DEF OpToRel
<1>5. PICK m \in K : x = n - m
  BY <1>3
<1>6. ASSUME NEW t \in K PROVE t <= m
  <2>1. ~ (n - t < n - m)
    BY <1>4, <1>5
  <2> QED
    BY <1>1, <2>1
<1> QED
  BY <1>6

\* The least of a set of numbers, and the greatest of some positions.
LEMMA MinMax ==
    ASSUME NEW K, K # {}
    PROVE  /\ K \subseteq Nat => Min(K) \in K /\ \A y \in K : Min(K) <= y
           /\ \A n \in Nat : K \subseteq 0..n => Max(K) \in K /\ \A y \in K : y <= Max(K)
<1>1. ASSUME K \subseteq Nat PROVE Min(K) \in K /\ \A y \in K : Min(K) <= y
  <2>1. PICK x \in K : \A y \in K : ~ (<<y, x>> \in OpToRel(<, Nat))
    BY <1>1, NatLessThanWellFounded, WFMin
  <2>2. \A y \in K : ~ (y < x)
    BY <1>1, <2>1 DEF OpToRel
  <2>3. \A y \in K : x <= y
    BY <1>1, <2>2
  <2>4. \E z \in K : \A y \in K : z <= y
    BY <2>3
  <2> QED
    BY <2>4, Zenon DEF Min
<1>2. ASSUME NEW n \in Nat, K \subseteq 0..n PROVE Max(K) \in K /\ \A y \in K : y <= Max(K)
  <2>1. PICK x \in K : \A y \in K : y <= x
    BY <1>2, LastPosition
  <2>2. \A y \in K : x >= y
    BY <1>2, <2>1
  <2>3. \E z \in K : \A y \in K : z >= y
    BY <2>2
  <2>4. Max(K) \in K /\ \A y \in K : Max(K) >= y
    BY <2>3, Zenon DEF Max
  <2> QED
    BY <1>2, <2>4
<1> QED
  BY <1>1, <1>2

\* R gives a value at d from the values at points of lower rank.
IsRecursion(D, A, R, rank, bound, start) ==
    /\ R \in [D -> [[D -> A] -> A]] /\ rank \in [D -> Nat] /\ start \in [D -> A]
    /\ bound \in Nat /\ \A d \in D : rank[d] <= bound
    /\ \A d \in D : \A f, g \in [D -> A] :
          (\A e \in D : rank[e] < rank[d] => f[e] = g[e]) => R[d][f] = R[d][g]

\* Such a recursion has a solution.
LEMMA Recursion ==
    ASSUME NEW D, NEW A, NEW R, NEW rank, NEW bound, NEW start,
           IsRecursion(D, A, R, rank, bound, start)
    PROVE  \E f \in [D -> A] : \A d \in D : f[d] = R[d][f]
<1> USE DEF IsRecursion
<1> DEFINE S == {n \in Nat : \E f \in [D -> A] : \A d \in D : rank[d] < n => f[d] = R[d][f]}
<1>1. 0 \in S
  <2>1. \A d \in D : ~(rank[d] < 0)
    OBVIOUS
  <2> QED
    BY <2>1
<1>2. ASSUME NEW n \in Nat, n \in S PROVE n + 1 \in S
  <2>1. PICK f \in [D -> A] : \A d \in D : rank[d] < n => f[d] = R[d][f]
    BY <1>2
  <2> DEFINE g == [d \in D |-> R[d][f]]
  <2>2. g \in [D -> A] /\ \A d \in D : g[d] = R[d][f]
    OBVIOUS
  <2> HIDE DEF g
  <2>3. ASSUME NEW d \in D, rank[d] < n + 1 PROVE g[d] = R[d][g]
    <3>1. ASSUME NEW e \in D, rank[e] < rank[d] PROVE f[e] = g[e]
      <4>1. rank[e] \in Nat /\ rank[d] \in Nat
        OBVIOUS
      <4>2. rank[e] < n
        BY <2>3, <3>1, <4>1
      <4> QED
        BY <2>1, <2>2, <4>2
    <3>2. R[d][f] = R[d][g]
      BY <2>2, <3>1
    <3> QED
      BY <2>2, <3>2
  <2>4. n + 1 \in Nat
    OBVIOUS
  <2> QED
    BY <2>2, <2>3, <2>4
<1>3. bound + 1 \in S
  <2>1. Nat \subseteq S
    <3> HIDE DEF S
    <3> QED
      BY <1>1, <1>2, NatSet
  <2> QED
    BY <2>1
<1>4. PICK f \in [D -> A] : \A d \in D : rank[d] < bound + 1 => f[d] = R[d][f]
  BY <1>3
<1>5. \A d \in D : rank[d] < bound + 1
  <2>1. \A d \in D : rank[d] \in Nat
    OBVIOUS
  <2> QED
    BY <2>1
<1> QED
  BY <1>4, <1>5

-----------------------------------------------------------------------------
(* Sequences.                                                              *)

\* The first i elements of a sequence.
Cut(p, i) == SubSeq(p, 1, i)

\* Its length and its elements.
LEMMA CutParts ==
    ASSUME NEW S, NEW p \in Seq(S), NEW i \in 0..Len(p)
    PROVE  /\ Cut(p, i) \in Seq(S) /\ Len(Cut(p, i)) = i
           /\ \A j \in 1..i : Cut(p, i)[j] = p[j]
<1>1. i \in Nat /\ i \in Int /\ 1 \in Int /\ Len(p) \in Nat
  OBVIOUS
<1>2. \A j \in 1..i : p[j] \in S
  BY <1>1
<1>3. /\ Cut(p, i) \in Seq(S)
      /\ Len(Cut(p, i)) = IF 1 <= i THEN i - 1 + 1 ELSE 0
      /\ \A j \in 1..(i - 1 + 1) : Cut(p, i)[j] = p[1 + j - 1]
  BY <1>1, <1>2, SubSeqProperties DEF Cut
<1>4. i - 1 + 1 = i /\ \A j \in 1..i : 1 + j - 1 = j
  BY <1>1
<1> QED
  BY <1>1, <1>3, <1>4

\* Cutting a path as long as it is, to nothing, and twice.
LEMMA CutCut ==
    ASSUME NEW S, NEW p \in Seq(S)
    PROVE  /\ Cut(p, Len(p)) = p
           /\ Cut(p, 0) = << >>
           /\ \A i \in 0..Len(p) : \A j \in 0..i : Cut(Cut(p, i), j) = Cut(p, j)
<1>1. Len(p) \in Nat
  OBVIOUS
<1>2. Cut(p, Len(p)) = p
  BY SubSeqFull DEF Cut
<1>3. Cut(p, 0) = << >>
  <2>1. Cut(p, 0) \in Seq(S) /\ Len(Cut(p, 0)) = 0
    BY <1>1, CutParts
  <2> QED
    BY <2>1
<1>4. ASSUME NEW i \in 0..Len(p), NEW j \in 0..i
      PROVE  Cut(Cut(p, i), j) = Cut(p, j)
  <2>1. Cut(p, i) \in Seq(S) /\ Len(Cut(p, i)) = i /\ \A k \in 1..i : Cut(p, i)[k] = p[k]
    BY CutParts
  <2>2. j \in 0..Len(p) /\ \A k \in 1..j : k \in 1..i
    BY <1>1
  <2>3. /\ Cut(Cut(p, i), j) \in Seq(S) /\ Len(Cut(Cut(p, i), j)) = j
        /\ \A k \in 1..j : Cut(Cut(p, i), j)[k] = Cut(p, i)[k]
    BY <2>1, CutParts
  <2>4. /\ Cut(p, j) \in Seq(S) /\ Len(Cut(p, j)) = j
        /\ \A k \in 1..j : Cut(p, j)[k] = p[k]
    BY <2>2, CutParts
  <2>5. \A k \in 1..j : Cut(Cut(p, i), j)[k] = Cut(p, j)[k]
    BY <2>1, <2>2, <2>3, <2>4
  <2> QED
    BY <2>3, <2>4, <2>5
<1> QED
  BY <1>2, <1>3, <1>4

\* The path of an entry.
LEMMA AppendParts ==
    ASSUME NEW S, NEW p \in Seq(S), NEW k \in S
    PROVE  /\ Append(p, k) \in Seq(S) /\ Len(Append(p, k)) = Len(p) + 1
           /\ Append(p, k)[Len(p) + 1] = k
           /\ \A i \in 0..Len(p) : Cut(Append(p, k), i) = Cut(p, i)
<1>1. /\ Append(p, k) \in Seq(S) /\ Len(Append(p, k)) = Len(p) + 1
      /\ Append(p, k)[Len(p) + 1] = k
      /\ \A i \in 1..Len(p) : Append(p, k)[i] = p[i]
      /\ Len(p) \in Nat
  OBVIOUS
<1>2. ASSUME NEW i \in 0..Len(p) PROVE Cut(Append(p, k), i) = Cut(p, i)
  <2> DEFINE q == Append(p, k)
  <2>1. q \in Seq(S) /\ i \in 0..Len(q)
    BY <1>1
  <2>2. \A j \in 1..i : q[j] = p[j]
    BY <1>1
  <2> HIDE DEF q
  <2>3. Cut(q, i) \in Seq(S) /\ Len(Cut(q, i)) = i /\ \A j \in 1..i : Cut(q, i)[j] = q[j]
    BY <2>1, CutParts
  <2>4. Cut(p, i) \in Seq(S) /\ Len(Cut(p, i)) = i /\ \A j \in 1..i : Cut(p, i)[j] = p[j]
    BY CutParts
  <2>5. \A j \in 1..i : Cut(q, i)[j] = Cut(p, i)[j]
    BY <2>2, <2>3, <2>4
  <2>6. Cut(q, i) = Cut(p, i)
    BY <2>3, <2>4, <2>5
  <2> QED
    BY <2>6 DEF q
<1> QED
  BY <1>1, <1>2

\* A longer cut has one more key.
LEMMA CutNext ==
    ASSUME NEW S, NEW p \in Seq(S), NEW i \in 0..(Len(p) - 1)
    PROVE  p[i + 1] \in S /\ Cut(p, i + 1) = Append(Cut(p, i), p[i + 1])
<1> DEFINE k == p[i + 1]
           c == Cut(p, i)
           d == Cut(p, i + 1)
<1>1. i \in 0..Len(p) /\ i + 1 \in 0..Len(p) /\ i + 1 \in 1..Len(p) /\ i \in Nat
  OBVIOUS
<1>2. k \in S
  BY <1>1
<1>3. c \in Seq(S) /\ Len(c) = i /\ \A j \in 1..i : c[j] = p[j]
  BY <1>1, CutParts
<1>4. d \in Seq(S) /\ Len(d) = i + 1 /\ \A j \in 1..(i + 1) : d[j] = p[j]
  BY <1>1, CutParts
<1> HIDE DEF c, d, k
<1>5. /\ Append(c, k) \in Seq(S) /\ Len(Append(c, k)) = i + 1
      /\ \A j \in 1..i : Append(c, k)[j] = c[j]
      /\ Append(c, k)[i + 1] = k
  BY <1>1, <1>2, <1>3
<1>6. \A j \in 1..(i + 1) : j \in 1..i \/ j = i + 1
  BY <1>1
<1>7. \A j \in 1..(i + 1) : d[j] = Append(c, k)[j]
  BY <1>3, <1>4, <1>5, <1>6 DEF k
<1>8. d = Append(c, k)
  BY <1>4, <1>5, <1>7
<1> QED
  BY <1>2, <1>8 DEF c, d, k

\* What FlattenSeq's function satisfies.
IsFlat(seqs, f) ==
    f = [i \in 1..Len(seqs) |-> IF i = 1 THEN seqs[i] ELSE f[i - 1] \o seqs[i]]

\* There is such a function.
LEMMA FlatExists ==
    ASSUME NEW E, NEW seqs \in Seq(Seq(E))
    PROVE  \E f \in [1..Len(seqs) -> Seq(E)] : IsFlat(seqs, f)
<1> DEFINE n == Len(seqs)
           Sol(m, f) == \A i \in 1..m : f[i] = IF i = 1 THEN seqs[i] ELSE f[i - 1] \o seqs[i]
           S == {m \in Nat : m <= n => \E f \in [1..m -> Seq(E)] : Sol(m, f)}
<1>1. n \in Nat /\ \A i \in 1..n : seqs[i] \in Seq(E)
  OBVIOUS
<1>2. 0 \in S
  <2> DEFINE f == [i \in 1..0 |-> << >>]
  <2>1. f \in [1..0 -> Seq(E)] /\ Sol(0, f)
    OBVIOUS
  <2> HIDE DEF Sol, f
  <2> QED
    BY <2>1
<1>3. ASSUME NEW m \in Nat, m \in S PROVE m + 1 \in S
  <2> HIDE DEF Sol
  <2> SUFFICES ASSUME m + 1 <= n PROVE \E f \in [1..(m + 1) -> Seq(E)] : Sol(m + 1, f)
    OBVIOUS
  <2> USE DEF Sol
  <2>1. m <= n /\ m + 1 \in 1..n
    BY <1>1
  <2>2. PICK f \in [1..m -> Seq(E)] : Sol(m, f)
    <3> HIDE DEF Sol
    <3> QED
      BY <1>3, <2>1
  <2> DEFINE e == IF m + 1 = 1 THEN seqs[m + 1] ELSE f[m] \o seqs[m + 1]
             g == [i \in 1..(m + 1) |-> IF i = m + 1 THEN e ELSE f[i]]
  <2>3. e \in Seq(E)
    <3>1. CASE m = 0
      BY <1>1, <2>1, <3>1
    <3>2. CASE m # 0
      <4>1. m \in 1..m /\ f[m] \in Seq(E) /\ seqs[m + 1] \in Seq(E) /\ m + 1 # 1
        BY <1>1, <2>1, <3>2
      <4>2. f[m] \o seqs[m + 1] \in Seq(E)
        BY <4>1, ConcatProperties
      <4> QED
        BY <4>1, <4>2
    <3> QED
      BY <3>1, <3>2
  <2> HIDE DEF e
  <2>4. \A i \in 1..(m + 1) : i = m + 1 \/ i \in 1..m
    OBVIOUS
  <2>5. g \in [1..(m + 1) -> Seq(E)] /\ g[m + 1] = e /\ \A i \in 1..m : g[i] = f[i]
    BY <2>3, <2>4
  <2> HIDE DEF g
  <2>6. ASSUME NEW i \in 1..(m + 1)
        PROVE  g[i] = IF i = 1 THEN seqs[i] ELSE g[i - 1] \o seqs[i]
    <3>1. CASE i = m + 1
      <4>1. m # 0 => m \in 1..m /\ g[m] = f[m] /\ (m + 1) - 1 = m
        BY <2>5
      <4> QED
        BY <2>5, <3>1, <4>1 DEF e
    <3>2. CASE i # m + 1
      <4>1. i \in 1..m /\ g[i] = f[i] /\ (i # 1 => i - 1 \in 1..m /\ g[i - 1] = f[i - 1])
        BY <2>4, <2>5, <3>2
      <4>2. f[i] = IF i = 1 THEN seqs[i] ELSE f[i - 1] \o seqs[i]
        BY <2>2, <4>1
      <4> QED
        BY <4>1, <4>2
    <3> QED
      BY <3>1, <3>2
  <2> QED
    BY <2>5, <2>6
<1>4. Nat \subseteq S
  <2> HIDE DEF S
  <2> QED
    BY <1>2, <1>3, NatSet
<1>5. PICK f \in [1..n -> Seq(E)] : Sol(n, f)
  <2> HIDE DEF Sol
  <2> QED
    BY <1>1, <1>4
<1>6. f = [i \in 1..n |-> IF i = 1 THEN seqs[i] ELSE f[i - 1] \o seqs[i]]
  BY <1>5
<1> QED
  BY <1>5, <1>6 DEF IsFlat

\* What FlattenSeq gives of a sequence that grows.
LEMMA FlattenGrows ==
    ASSUME NEW E, NEW seqs \in Seq(Seq(E)), NEW x \in Seq(E)
    PROVE  /\ FlattenSeq(<< >>) = << >>
           /\ FlattenSeq(seqs) \in Seq(E)
           /\ FlattenSeq(Append(seqs, x)) = FlattenSeq(seqs) \o x
<1> DEFINE n == Len(seqs)
           more == Append(seqs, x)
           f == CHOOSE h : IsFlat(seqs, h)
           g == CHOOSE h : IsFlat(more, h)
           S == {i \in Nat : i \in 1..n => f[i] = g[i] /\ f[i] \in Seq(E)}
<1>1. /\ n \in Nat /\ \A i \in 1..n : seqs[i] \in Seq(E) /\ more[i] = seqs[i]
      /\ more \in Seq(Seq(E)) /\ Len(more) = n + 1 /\ more[n + 1] = x
  OBVIOUS
<1> HIDE DEF more
<1>2. IsFlat(seqs, f) /\ IsFlat(more, g)
  BY <1>1, FlatExists
<1>3. /\ n # 0 => FlattenSeq(seqs) = f[n]
      /\ n = 0 => FlattenSeq(seqs) = seqs
      /\ FlattenSeq(more) = g[n + 1]
  BY <1>1 DEF FlattenSeq, IsFlat
<1> HIDE DEF f, g
<1>4. /\ \A i \in 1..n : f[i] = IF i = 1 THEN seqs[i] ELSE f[i - 1] \o seqs[i]
      /\ \A i \in 1..(n + 1) : g[i] = IF i = 1 THEN more[i] ELSE g[i - 1] \o more[i]
  BY <1>1, <1>2, Zenon DEF IsFlat
<1>5. 0 \in S
  OBVIOUS
<1>6. ASSUME NEW i \in Nat, i \in S PROVE i + 1 \in S
  <2> SUFFICES ASSUME i + 1 \in 1..n PROVE f[i + 1] = g[i + 1] /\ f[i + 1] \in Seq(E)
    OBVIOUS
  <2>1. i + 1 \in 1..(n + 1) /\ (i + 1) - 1 = i /\ more[i + 1] = seqs[i + 1] /\ seqs[i + 1] \in Seq(E)
    BY <1>1
  <2>2. CASE i = 0
    <3>1. i + 1 = 1
      BY <2>2
    <3> QED
      BY <1>4, <2>1, <3>1
  <2>3. CASE i # 0
    <3>1. i \in 1..n /\ i + 1 # 1
      BY <1>1, <2>3
    <3>2. f[i] = g[i] /\ f[i] \in Seq(E)
      BY <1>6, <3>1
    <3>3. f[i + 1] = f[i] \o seqs[i + 1] /\ g[i + 1] = g[i] \o more[i + 1]
      BY <1>4, <2>1, <3>1
    <3>4. f[i] \o seqs[i + 1] \in Seq(E)
      BY <2>1, <3>2, ConcatProperties
    <3> QED
      BY <2>1, <3>2, <3>3, <3>4
  <2> QED
    BY <2>2, <2>3
<1>7. Nat \subseteq S
  <2> HIDE DEF S
  <2> QED
    BY <1>5, <1>6, NatSet
<1>8. FlattenSeq(<< >>) = << >>
  BY DEF FlattenSeq
<1>9. CASE n = 0
  <2>1. seqs = << >> /\ FlattenSeq(seqs) = << >> /\ << >> \in Seq(E) /\ << >> \o x = x
    BY <1>3, <1>9, ConcatEmptySeq
  <2>2. 1 \in 1..(n + 1) /\ n + 1 = 1
    BY <1>9
  <2>3. g[n + 1] = x
    BY <1>1, <1>4, <2>2
  <2> QED
    BY <1>3, <1>8, <2>1, <2>3 DEF more
<1>10. CASE n # 0
  <2>1. n \in 1..n /\ n + 1 \in 1..(n + 1) /\ n + 1 # 1 /\ (n + 1) - 1 = n
    BY <1>1, <1>10
  <2>2. f[n] = g[n] /\ f[n] \in Seq(E)
    BY <1>1, <1>7, <2>1
  <2>3. g[n + 1] = g[n] \o x
    BY <1>1, <1>4, <2>1
  <2> QED
    BY <1>3, <1>8, <1>10, <2>2, <2>3 DEF more
<1> QED
  BY <1>9, <1>10

\* Induction over sequences, for a set.
LEMMA SeqSet ==
    ASSUME NEW E, NEW G, << >> \in G,
           \A s \in Seq(E) : \A c \in E : s \in G => Append(s, c) \in G
    PROVE  Seq(E) \subseteq G
<1> DEFINE S == {n \in Nat : \A s \in Seq(E) : Len(s) = n => s \in G}
<1>1. 0 \in S
  <2>1. \A s \in Seq(E) : Len(s) = 0 => s = << >>
    OBVIOUS
  <2> QED
    BY <2>1
<1>2. ASSUME NEW n \in Nat, n \in S PROVE n + 1 \in S
  <2>1. ASSUME NEW s \in Seq(E), Len(s) = n + 1 PROVE s \in G
    <3> DEFINE p == SubSeq(s, 1, n)
               c == s[n + 1]
    <3>1. c \in E /\ \A i \in 1..n : s[i] \in E
      BY <2>1
    <3>2. /\ p \in Seq(E)
          /\ Len(p) = IF 1 <= n THEN n - 1 + 1 ELSE 0
          /\ \A i \in 1..(n - 1 + 1) : p[i] = s[1 + i - 1]
      BY <3>1, SubSeqProperties
    <3> HIDE DEF p, c
    <3>3. Len(p) = n /\ \A i \in 1..n : p[i] = s[i]
      <4>1. n - 1 + 1 = n /\ \A i \in 1..n : 1 + i - 1 = i
        OBVIOUS
      <4> QED
        BY <3>2, <4>1
    <3>4. Append(p, c) = s
      <4>1. Append(p, c) \in Seq(E) /\ Len(Append(p, c)) = n + 1
        BY <3>1, <3>2, <3>3
      <4>2. ASSUME NEW i \in 1..(n + 1) PROVE Append(p, c)[i] = s[i]
        <5>1. i = n + 1 \/ i \in 1..n
          OBVIOUS
        <5>2. Append(p, c)[n + 1] = c /\ \A j \in 1..n : Append(p, c)[j] = p[j]
          BY <3>1, <3>2, <3>3
        <5> QED
          BY <3>3, <5>1, <5>2 DEF c
      <4> QED
        BY <2>1, <4>1, <4>2, SeqEqual
    <3>5. p \in G
      BY <1>2, <3>2, <3>3
    <3> QED
      BY <3>1, <3>2, <3>4, <3>5
  <2> QED
    BY <2>1
<1>3. Nat \subseteq S
  <2> HIDE DEF S
  <2> QED
    BY <1>1, <1>2, NatSet
<1>4. ASSUME NEW s \in Seq(E) PROVE s \in G
  <2>1. Len(s) \in S
    <3> HIDE DEF S
    <3> QED
      BY <1>3
  <2> QED
    BY <2>1
<1> QED
  BY <1>4

\* Flattening from the left.
LEMMA FlattenCons ==
    ASSUME NEW E, NEW t \in Seq(E), NEW seqs \in Seq(Seq(E))
    PROVE  FlattenSeq(<<t>> \o seqs) = t \o FlattenSeq(seqs)
<1> DEFINE G == {s \in Seq(Seq(E)) : FlattenSeq(<<t>> \o s) = t \o FlattenSeq(s)}
<1>1. FlattenSeq(<< >>) = << >> /\ << >> \in Seq(Seq(E)) /\ << >> \in Seq(E)
  BY FlattenGrows
<1>2. << >> \in G
  <2>1. <<t>> \o << >> = <<t>> /\ t \o << >> = t /\ << >> \o t = t
    BY <1>1, ConcatEmptySeq
  <2>2. Append(<< >>, t) = <<t>>
    OBVIOUS
  <2>3. FlattenSeq(Append(<< >>, t)) = FlattenSeq(<< >>) \o t
    BY <1>1, FlattenGrows
  <2> QED
    BY <1>1, <2>1, <2>2, <2>3
<1>3. ASSUME NEW s \in Seq(Seq(E)), NEW c \in Seq(E), s \in G PROVE Append(s, c) \in G
  <2> DEFINE a == <<t>> \o s
  <2>1. <<t>> \in Seq(Seq(E))
    OBVIOUS
  <2>2. a \in Seq(Seq(E))
    BY <2>1, ConcatProperties
  <2>3. <<t>> \o Append(s, c) = Append(a, c)
    OBVIOUS
  <2>4. FlattenSeq(Append(a, c)) = FlattenSeq(a) \o c
    BY <2>2, FlattenGrows
  <2>5. FlattenSeq(Append(s, c)) = FlattenSeq(s) \o c /\ FlattenSeq(s) \in Seq(E)
    BY FlattenGrows
  <2>6. FlattenSeq(a) = t \o FlattenSeq(s)
    BY <1>3
  <2>7. (t \o FlattenSeq(s)) \o c = t \o (FlattenSeq(s) \o c)
    BY <2>5, ConcatAssociative
  <2>8. Append(s, c) \in Seq(Seq(E))
    OBVIOUS
  <2> QED
    BY <2>3, <2>4, <2>5, <2>6, <2>7, <2>8
<1>4. Seq(Seq(E)) \subseteq G
  <2> HIDE DEF G
  <2> QED
    BY <1>2, <1>3, SeqSet
<1> QED
  BY <1>4

-----------------------------------------------------------------------------
(* Outline: the inductive invariant.                                       *)

\* The stack lists headings of the file being parsed, outermost first.
StackInv ==
    /\ Len(stack) >= 1
    /\ stack[1] = Sentinel
    /\ \A s \in 2..Len(stack) :
          /\ stack[s].node \in 1..Len(out)
          /\ stack[s].level \in Levels
          /\ out[stack[s].node].file = file
          /\ out[stack[s].node].level = stack[s].level
    /\ \A s, t \in 1..Len(stack) :
          s < t => stack[s].level < stack[t].level /\ stack[s].node < stack[t].node

\* A heading of the file is open, or a heading that is open came later and closed it.
HeadingsInv ==
    \A j \in 1..Len(out) :
        out[j].file = file /\ out[j].level # NoLevel =>
            \E s \in 1..Len(stack) : j <= stack[s].node /\ stack[s].level <= out[j].level

\* The files to parse have no node yet.
FilesInv ==
    /\ file \notin todo
    /\ \A j \in 1..Len(out) : out[j].file \notin todo

\* A node of a preamble is its root, or lies below an earlier node of it.
FrontInv ==
    \A k \in 1..Len(out) :
        out[k].front /\ out[k].parent # NoParent =>
            /\ out[k].parent \in 1..(k - 1)
            /\ out[out[k].parent].front
            /\ out[out[k].parent].file = out[k].file

OutlineInv ==
    TypeOK /\ StackInv /\ HeadingsInv /\ FilesInv /\ FrontInv /\ ParentIsNearestHeading

-----------------------------------------------------------------------------
\* Frames and nodes hold numbers.
LEMMA NumbersOK ==
    ASSUME TypeOK
    PROVE  /\ Len(stack) \in Nat /\ Len(out) \in Nat
           /\ \A s \in 1..Len(stack) : stack[s].node \in Nat /\ stack[s].level \in Nat
           /\ \A j \in 1..Len(out) : out[j].level \in Nat
<1>1. \A s \in 1..Len(stack) : stack[s] \in Frames
  BY DEF TypeOK
<1>2. \A j \in 1..Len(out) : out[j] \in NodeRecords
  BY DEF TypeOK
<1>3. Levels \cup {NoLevel} \subseteq Nat
  BY OutlineAssumption DEF Levels, NoLevel
<1> QED
  BY <1>1, <1>2, <1>3 DEF TypeOK, Frames, NodeRecords

\* popSections keeps a prefix of the stack: the sections of a lower level, and no other.
LEMMA PopSectionsKeeps ==
    ASSUME TypeOK, StackInv, NEW level \in Levels
    PROVE  \E m \in 1..Len(stack) :
              /\ PopSections(level) = SubSeq(stack, 1, m)
              /\ stack[m].level < level
              /\ \A s \in 1..Len(stack) : stack[s].level < level => s <= m
<1> DEFINE m == CHOOSE s \in Kept(level) : \A t \in Kept(level) : t <= s
<1>1. m \in Kept(level) /\ \A t \in Kept(level) : t <= m
  <2>1. Kept(level) \subseteq 0..Len(stack) /\ Kept(level) # {} /\ Len(stack) \in Nat
    BY DEF Kept, TypeOK, StackInv
  <2> QED
    BY <2>1, LastPosition
<1> HIDE DEF m
<1>2. m \in 1..Len(stack) /\ stack[m].level < level
  <2>1. stack[1].level < level
    BY OutlineAssumption DEF StackInv, Sentinel, Levels
  <2> QED
    BY <1>1, <2>1 DEF Kept
<1>3. \A s \in 1..Len(stack) : stack[s].level < level => s <= m
  BY <1>1 DEF Kept
<1> QED
  BY <1>2, <1>3 DEF PopSections, m

-----------------------------------------------------------------------------
\* Initially no node is made and one file is being parsed.
LEMMA InitOutline == Init => OutlineInv
BY DEF Init, OutlineInv, TypeOK, StackInv, HeadingsInv, FilesInv, FrontInv,
   ParentIsNearestHeading, Sentinel, Frames, NoParent, NodeRecords

\* A node appended for the file being parsed leaves the parents of the others alone.
LEMMA ParentsKept ==
    ASSUME OutlineInv, NEW r \in NodeRecords, out' = Append(out, r),
           \/ r.front
           \/ r.parent = NoParent /\ Enclosing(Len(out))' = {}
           \/ /\ r.parent \in Enclosing(Len(out))'
              /\ \A j \in Enclosing(Len(out))' : j <= r.parent
    PROVE  ParentIsNearestHeading'
<1> SUFFICES ASSUME NEW k \in 1..Len(out')
             PROVE  \/ out'[k].front
                    \/ out'[k].parent = NoParent /\ Enclosing(k)' = {}
                    \/ /\ out'[k].parent \in Enclosing(k)'
                       /\ \A j \in Enclosing(k)' : j <= out'[k].parent
  BY DEF ParentIsNearestHeading
<1>1. CASE k \in 1..Len(out)
  <2>1. /\ out'[k] = out[k]
        /\ \A j \in 1..(k - 1) : out'[j] = out[j]
    BY <1>1 DEF OutlineInv, TypeOK
  <2>2. Enclosing(k)' = Enclosing(k)
    BY <2>1 DEF Enclosing
  <2> QED
    BY <1>1, <2>1, <2>2 DEF OutlineInv, ParentIsNearestHeading
<1>2. CASE k = Len(out) + 1
  <2>1. k = Len(out') /\ out'[k] = r
    BY <1>2 DEF OutlineInv, TypeOK
  <2> QED
    BY <2>1
<1> QED
  BY <1>1, <1>2 DEF OutlineInv, TypeOK

\* What encloses the node appended.
LEMMA NewEnclosing ==
    ASSUME TypeOK, NEW r \in NodeRecords, out' = Append(out, r)
    PROVE  Enclosing(Len(out))' =
              {j \in 1..Len(out) : /\ out[j].file = r.file
                                   /\ out[j].level # NoLevel
                                   /\ r.level # NoLevel => out[j].level < r.level}
<1>1. /\ Len(out') = Len(out) + 1
      /\ out'[Len(out')] = r
      /\ \A j \in 1..Len(out) : out'[j] = out[j]
  BY DEF TypeOK
<1>2. Len(out') - 1 = Len(out)
  BY <1>1 DEF TypeOK
<1> QED
  BY <1>1, <1>2 DEF Enclosing

\* A file that is being parsed stays out of the files to parse when its nodes are made.
LEMMA FilesKept ==
    ASSUME OutlineInv, NEW r \in NodeRecords, r.file = file, out' = Append(out, r),
           UNCHANGED <<file, todo>>
    PROVE  FilesInv'
BY DEF OutlineInv, TypeOK, FilesInv

\* A node of the body, and a node below one of the preamble, keep the preambles.
LEMMA FrontKept ==
    ASSUME OutlineInv, NEW r \in NodeRecords, out' = Append(out, r),
           \/ ~r.front
           \/ r.parent = NoParent
           \/ /\ r.parent \in 1..Len(out)
              /\ out[r.parent].front /\ out[r.parent].file = r.file
    PROVE  FrontInv'
<1>1. /\ Len(out) \in Nat /\ Len(out') = Len(out) + 1
      /\ out'[Len(out) + 1] = r
      /\ \A j \in 1..Len(out) : out'[j] = out[j]
  BY DEF OutlineInv, TypeOK
<1> SUFFICES ASSUME NEW k \in 1..Len(out'), out'[k].front, out'[k].parent # NoParent
             PROVE  /\ out'[k].parent \in 1..(k - 1)
                    /\ out'[out'[k].parent].front
                    /\ out'[out'[k].parent].file = out'[k].file
  BY DEF FrontInv
<1>2. CASE k = Len(out) + 1
  BY <1>1, <1>2
<1>3. CASE k \in 1..Len(out)
  <2>1. /\ out[k].parent \in 1..(k - 1)
        /\ out[out[k].parent].front
        /\ out[out[k].parent].file = out[k].file
    BY <1>1, <1>3 DEF OutlineInv, FrontInv
  <2>2. out[k].parent \in 1..Len(out)
    BY <1>1, <1>3, <2>1
  <2> QED
    BY <1>1, <1>3, <2>1, <2>2
<1> QED
  BY <1>1, <1>2, <1>3

\* A node that opens no section leaves the stack as it is.
LEMMA StackKept ==
    ASSUME OutlineInv, NEW r \in NodeRecords, r.level = NoLevel, out' = Append(out, r),
           UNCHANGED <<stack, file>>
    PROVE  StackInv' /\ HeadingsInv'
<1>1. /\ Len(out') = Len(out) + 1
      /\ out'[Len(out')] = r
      /\ \A j \in 1..Len(out) : out'[j] = out[j]
  BY DEF OutlineInv, TypeOK
<1>2. StackInv'
  <2>1. Len(out) \in Nat /\ StackInv /\ stack' = stack /\ file' = file
    BY NumbersOK DEF OutlineInv
  <2>2. ASSUME NEW s \in 2..Len(stack)
        PROVE  /\ stack[s].node \in 1..Len(out')
               /\ out'[stack[s].node].file = file
               /\ out'[stack[s].node].level = stack[s].level
    <3>1. /\ stack[s].node \in 1..Len(out)
          /\ out[stack[s].node].file = file
          /\ out[stack[s].node].level = stack[s].level
      BY <2>1 DEF StackInv
    <3>2. stack[s].node \in 1..Len(out')
      BY <1>1, <2>1, <3>1
    <3> QED
      BY <1>1, <3>1, <3>2
  <2> QED
    BY <2>1, <2>2 DEF StackInv
<1>3. HeadingsInv'
  BY <1>1 DEF OutlineInv, TypeOK, HeadingsInv
<1> QED
  BY <1>2, <1>3

\* A preamble and its values keep the invariant.
LEMMA FrontStepInv ==
    ASSUME OutlineInv, Preamble \/ \E p \in 1..Len(out) : FrontValue(p)
    PROVE  OutlineInv'
<1>1. PICK r \in NodeRecords :
          /\ r.file = file /\ r.level = NoLevel /\ r.front
          /\ \/ r.parent = NoParent
             \/ /\ r.parent \in 1..Len(out)
                /\ out[r.parent].front /\ out[r.parent].file = r.file
          /\ out' = Append(out, r) /\ UNCHANGED <<stack, file, todo>>
  <2>1. CASE Preamble
    <3> DEFINE r == [file |-> file, level |-> NoLevel, parent |-> NoParent, front |-> TRUE]
    <3>1. /\ r \in NodeRecords /\ r.file = file /\ r.level = NoLevel /\ r.front
          /\ r.parent = NoParent
          /\ out' = Append(out, r) /\ UNCHANGED <<stack, file, todo>>
      BY <2>1 DEF Preamble, OutlineInv, TypeOK, NodeRecords, NoParent
    <3> QED
      BY <3>1
  <2>2. ASSUME NEW p \in 1..Len(out), FrontValue(p)
        PROVE  \E r \in NodeRecords :
                  /\ r.file = file /\ r.level = NoLevel /\ r.front
                  /\ r.parent \in 1..Len(out)
                  /\ out[r.parent].front /\ out[r.parent].file = r.file
                  /\ out' = Append(out, r) /\ UNCHANGED <<stack, file, todo>>
    <3> DEFINE r == [file |-> file, level |-> NoLevel, parent |-> p, front |-> TRUE]
    <3>1. /\ r \in NodeRecords /\ r.file = file /\ r.level = NoLevel /\ r.front
          /\ r.parent \in 1..Len(out)
          /\ out[r.parent].front /\ out[r.parent].file = r.file
          /\ out' = Append(out, r) /\ UNCHANGED <<stack, file, todo>>
      BY <2>2 DEF FrontValue, OutlineInv, TypeOK, NodeRecords
    <3> QED
      BY <3>1
  <2> QED
    BY <2>1, <2>2
<1>2. TypeOK'
  BY <1>1 DEF OutlineInv, TypeOK
<1>3. ParentIsNearestHeading'
  BY <1>1, ParentsKept
<1>4. FrontInv'
  BY <1>1, FrontKept
<1> QED
  BY <1>1, <1>2, <1>3, <1>4, StackKept, FilesKept DEF OutlineInv

\* A block under the innermost open section keeps the invariant.
LEMMA BlockInv == OutlineInv /\ Block => OutlineInv'
<1> SUFFICES ASSUME OutlineInv, Block PROVE OutlineInv'
  OBVIOUS
<1> DEFINE top == stack[Len(stack)]
           r == [file |-> file, level |-> NoLevel, parent |-> top.node, front |-> FALSE]
<1>1. Len(stack) \in 1..Len(stack) /\ top \in Frames
  BY DEF OutlineInv, TypeOK, StackInv
<1>2. /\ r \in NodeRecords /\ r.file = file /\ r.level = NoLevel /\ r.parent = top.node
      /\ ~r.front
      /\ out' = Append(out, r) /\ UNCHANGED <<stack, file, todo>>
  BY <1>1 DEF Block, AttachNode, OutlineInv, TypeOK, NodeRecords, Frames
<1> HIDE DEF r
<1>3. TypeOK'
  BY <1>2 DEF OutlineInv, TypeOK
<1>4. Enclosing(Len(out))' = {j \in 1..Len(out) : out[j].file = file /\ out[j].level # NoLevel}
  BY <1>2, NewEnclosing DEF OutlineInv
<1>5. \A j \in Enclosing(Len(out))' : j <= top.node
  <2> SUFFICES ASSUME NEW j \in 1..Len(out), out[j].file = file, out[j].level # NoLevel
               PROVE  j <= top.node
    BY <1>4
  <2>1. PICK s \in 1..Len(stack) : j <= stack[s].node
    BY DEF OutlineInv, HeadingsInv
  <2>2. stack[s].node \in Nat /\ top.node \in Nat
    BY <1>1, NumbersOK DEF OutlineInv
  <2>3. s = Len(stack) \/ stack[s].node < top.node
    BY <1>1 DEF OutlineInv, StackInv, TypeOK
  <2> QED
    BY <2>1, <2>2, <2>3
<1>6. CASE Len(stack) = 1
  <2>1. top.node = NoParent
    BY <1>6 DEF OutlineInv, StackInv, Sentinel
  <2>2. Enclosing(Len(out))' = {}
    BY <1>4, <1>5, <2>1 DEF NoParent
  <2>3. ParentIsNearestHeading'
    BY <1>2, <2>1, <2>2, ParentsKept
  <2> QED
    BY <1>2, <1>3, <2>3, StackKept, FilesKept, FrontKept DEF OutlineInv
<1>7. CASE Len(stack) # 1
  <2>1. Len(stack) \in 2..Len(stack)
    BY <1>1, <1>7
  <2>2. top.node \in 1..Len(out) /\ out[top.node].file = file /\ out[top.node].level # NoLevel
    BY <2>1, OutlineAssumption DEF OutlineInv, StackInv, Levels, NoLevel
  <2>3. top.node \in Enclosing(Len(out))'
    BY <1>4, <2>2
  <2>4. ParentIsNearestHeading'
    BY <1>2, <1>5, <2>3, ParentsKept
  <2> QED
    BY <1>2, <1>3, <2>4, StackKept, FilesKept, FrontKept DEF OutlineInv
<1> QED
  BY <1>6, <1>7

\* A heading, which closes the sections of its level and deeper, keeps the invariant.
LEMMA HeadingInv ==
    ASSUME OutlineInv, NEW level \in Levels, Heading(level)
    PROVE  OutlineInv'
<1>1. PICK m \in 1..Len(stack) :
          /\ PopSections(level) = SubSeq(stack, 1, m)
          /\ stack[m].level < level
          /\ \A s \in 1..Len(stack) : stack[s].level < level => s <= m
  BY PopSectionsKeeps DEF OutlineInv
<1> DEFINE open == SubSeq(stack, 1, m)
           n == Len(out) + 1
           section == [node |-> n, level |-> level]
           r == [file |-> file, level |-> level, parent |-> stack[m].node, front |-> FALSE]
<1>2. open \in Seq(Frames) /\ Len(open) = m /\ \A s \in 1..m : open[s] = stack[s]
  BY DEF OutlineInv, TypeOK
<1>3. stack[m] \in Frames /\ level \in Nat \ {0} /\ Len(out) \in Nat
  BY OutlineAssumption DEF OutlineInv, TypeOK, Levels
<1>4. /\ r \in NodeRecords /\ r.file = file /\ r.level = level /\ r.parent = stack[m].node
      /\ ~r.front
      /\ section \in Frames /\ section.node = n /\ section.level = level
      /\ out' = Append(out, r) /\ stack' = Append(open, section) /\ UNCHANGED <<file, todo>>
  BY <1>1, <1>2, <1>3 DEF Heading, AttachNode, OutlineInv, TypeOK, NodeRecords, Frames
<1> HIDE DEF r, open, section
<1>5. TypeOK'
  BY <1>2, <1>4 DEF OutlineInv, TypeOK
<1>6. /\ Len(out') = n
      /\ out'[n] = r
      /\ \A j \in 1..Len(out) : out'[j] = out[j]
  BY <1>4 DEF OutlineInv, TypeOK
<1>7. /\ Len(stack') = m + 1
      /\ stack'[m + 1] = section
      /\ \A s \in 1..m : stack'[s] = stack[s]
  BY <1>2, <1>4
<1>8. StackInv'
  <2>1. Len(stack') >= 1 /\ stack'[1] = Sentinel
    BY <1>7 DEF OutlineInv, StackInv
  <2>2. ASSUME NEW s \in 2..Len(stack')
        PROVE  /\ stack'[s].node \in 1..Len(out')
               /\ stack'[s].level \in Levels
               /\ out'[stack'[s].node].file = file'
               /\ out'[stack'[s].node].level = stack'[s].level
    <3>1. CASE s = m + 1
      BY <1>3, <1>4, <1>6, <1>7, <3>1
    <3>2. CASE s # m + 1
      <4>1. s \in 2..Len(stack) /\ s \in 1..m
        BY <1>7, <3>2 DEF OutlineInv, TypeOK
      <4>2. /\ stack[s].node \in 1..Len(out)
            /\ stack[s].level \in Levels
            /\ out[stack[s].node].file = file
            /\ out[stack[s].node].level = stack[s].level
        BY <4>1 DEF OutlineInv, StackInv
      <4>3. stack'[s] = stack[s] /\ out'[stack[s].node] = out[stack[s].node]
        BY <1>6, <1>7, <4>1, <4>2
      <4>4. stack[s].node \in 1..Len(out')
        BY <1>3, <1>6, <4>2
      <4> QED
        BY <1>4, <4>2, <4>3, <4>4
    <3> QED
      BY <3>1, <3>2
  <2>3. \A s \in 1..m : stack[s].level < level /\ stack[s].node < n
    <3> TAKE s \in 1..m
    <3>1. s = m \/ (stack[s].level < stack[m].level /\ stack[s].node < stack[m].node)
      <4>1. Len(stack) \in Nat
        BY DEF OutlineInv, TypeOK
      <4>2. s \in 1..Len(stack) /\ (s = m \/ s < m)
        BY <4>1
      <4> QED
        BY <4>2, Zenon DEF OutlineInv, StackInv
    <3>2. stack[m].node < n
      <4>1. CASE m = 1
        BY <1>3, <4>1 DEF OutlineInv, StackInv, Sentinel, NoParent
      <4>2. CASE m # 1
        BY <1>3, <4>2 DEF OutlineInv, StackInv, TypeOK
      <4> QED
        BY <4>1, <4>2
    <3>3. stack[s].level \in Nat /\ stack[s].node \in Nat
      BY NumbersOK DEF OutlineInv
    <3> QED
      BY <1>1, <1>3, <3>1, <3>2, <3>3 DEF Frames
  <2>4. ASSUME NEW s \in 1..Len(stack'), NEW t \in 1..Len(stack'), s < t
        PROVE  stack'[s].level < stack'[t].level /\ stack'[s].node < stack'[t].node
    <3>1. s \in 1..m
      BY <1>7, <2>4
    <3>2. CASE t = m + 1
      BY <1>4, <1>7, <2>3, <3>1, <3>2
    <3>3. CASE t # m + 1
      <4>1. t \in 1..m /\ s \in 1..Len(stack) /\ t \in 1..Len(stack)
        BY <1>7, <3>1, <3>3 DEF OutlineInv, TypeOK
      <4> QED
        BY <1>7, <2>4, <3>1, <4>1 DEF OutlineInv, StackInv
    <3> QED
      BY <3>2, <3>3
  <2> QED
    BY <2>1, <2>2, <2>4 DEF StackInv
<1>9. HeadingsInv'
  <2> SUFFICES ASSUME NEW j \in 1..Len(out'), out'[j].file = file, out'[j].level # NoLevel
               PROVE  \E s \in 1..Len(stack') :
                         j <= stack'[s].node /\ stack'[s].level <= out'[j].level
    BY <1>4 DEF HeadingsInv
  <2>1. out'[j].level \in Nat
    <3>1. out'[j] \in NodeRecords /\ Levels \cup {NoLevel} \subseteq Nat
      BY <1>5, OutlineAssumption DEF TypeOK, Levels, NoLevel
    <3> QED
      BY <3>1 DEF NodeRecords
  <2>2. m + 1 \in 1..Len(stack')
    BY <1>7
  <2>3. CASE level <= out'[j].level
    BY <1>4, <1>6, <1>7, <2>2, <2>3
  <2>4. CASE ~(level <= out'[j].level)
    <3>1. j \in 1..Len(out) /\ out'[j] = out[j]
      BY <1>3, <1>4, <1>6, <2>4
    <3>2. PICK s \in 1..Len(stack) : j <= stack[s].node /\ stack[s].level <= out[j].level
      BY <3>1 DEF OutlineInv, HeadingsInv
    <3>3. stack[s].level \in Nat
      BY NumbersOK DEF OutlineInv
    <3>4. s \in 1..m
      BY <1>1, <1>3, <2>1, <2>4, <3>1, <3>2, <3>3
    <3> QED
      BY <1>7, <3>1, <3>2, <3>4
  <2> QED
    BY <2>3, <2>4
<1>10. Enclosing(Len(out))' =
          {j \in 1..Len(out) : out[j].file = file /\ out[j].level # NoLevel /\ out[j].level < level}
  BY <1>3, <1>4, NewEnclosing DEF OutlineInv, NoLevel
<1>11. \A j \in Enclosing(Len(out))' : j <= stack[m].node
  <2> SUFFICES ASSUME NEW j \in 1..Len(out), out[j].file = file, out[j].level # NoLevel,
                      out[j].level < level
               PROVE  j <= stack[m].node
    BY <1>10
  <2>1. PICK s \in 1..Len(stack) : j <= stack[s].node /\ stack[s].level <= out[j].level
    BY DEF OutlineInv, HeadingsInv
  <2>2. stack[s].level \in Nat /\ stack[s].node \in Nat /\ out[j].level \in Nat
    BY NumbersOK DEF OutlineInv
  <2>3. s <= m
    BY <1>1, <1>3, <2>1, <2>2
  <2>4. ASSUME s < m PROVE stack[s].node < stack[m].node
    <3>1. StackInv
      BY DEF OutlineInv
    <3> QED
      BY <2>4, <3>1 DEF StackInv
  <2>5. s = m \/ s < m
    BY <2>3
  <2> QED
    BY <1>3, <2>1, <2>2, <2>4, <2>5 DEF Frames
<1>12. ParentIsNearestHeading'
  <2>1. CASE m = 1
    <3>1. stack[m].node = NoParent
      BY <2>1 DEF OutlineInv, StackInv, Sentinel
    <3>2. Enclosing(Len(out))' = {}
      BY <1>10, <1>11, <3>1 DEF NoParent
    <3> QED
      BY <1>4, <3>1, <3>2, ParentsKept
  <2>2. CASE m # 1
    <3>1. m \in 2..Len(stack)
      BY <2>2
    <3>2. /\ stack[m].node \in 1..Len(out)
          /\ out[stack[m].node].file = file
          /\ out[stack[m].node].level = stack[m].level
          /\ stack[m].level # NoLevel
      BY <3>1, OutlineAssumption DEF OutlineInv, StackInv, Levels, NoLevel
    <3>3. stack[m].node \in Enclosing(Len(out))'
      BY <1>1, <1>10, <3>2
    <3> QED
      BY <1>4, <1>11, <3>3, ParentsKept
  <2> QED
    BY <2>1, <2>2
<1> QED
  BY <1>4, <1>5, <1>8, <1>9, <1>12, FilesKept, FrontKept DEF OutlineInv

\* The next file, which starts with no open section, keeps the invariant.
LEMMA NextFileInv ==
    ASSUME OutlineInv, NEW f \in Files, NextFile(f)
    PROVE  OutlineInv'
<1>1. TypeOK'
  BY DEF NextFile, OutlineInv, TypeOK, Sentinel, Frames, NoParent
<1>2. StackInv'
  BY DEF NextFile, StackInv, Sentinel, NoParent
<1>3. FilesInv' /\ HeadingsInv'
  BY DEF NextFile, OutlineInv, FilesInv, HeadingsInv
<1>4. ParentIsNearestHeading'
  BY DEF NextFile, OutlineInv, ParentIsNearestHeading, Enclosing
<1>5. FrontInv'
  BY DEF NextFile, OutlineInv, FrontInv
<1> QED
  BY <1>1, <1>2, <1>3, <1>4, <1>5 DEF OutlineInv

\* The invariant holds in every reachable state.
LEMMA OutlineInvHolds == Spec => []OutlineInv
<1>1. OutlineInv /\ [Next]_vars => OutlineInv'
  <2> SUFFICES ASSUME OutlineInv, [Next]_vars PROVE OutlineInv'
    OBVIOUS
  <2>1. CASE UNCHANGED vars
    BY <2>1 DEF vars, OutlineInv, TypeOK, StackInv, HeadingsInv, FilesInv, FrontInv,
       ParentIsNearestHeading, Enclosing
  <2> QED
    BY <2>1, FrontStepInv, BlockInv, HeadingInv, NextFileInv DEF Next
<1> QED
  BY <1>1, InitOutline, PTL DEF Spec

\* parseMarkdown keeps the variables in their types.
THEOREM OutlineTypes == Spec => []TypeOK
<1>1. OutlineInv => TypeOK
  BY DEF OutlineInv
<1> QED
  BY <1>1, OutlineInvHolds, PTL

\* parseMarkdown: the parent of a heading or a block is the nearest earlier heading of its
\* file that encloses it, whatever the order of headings and levels and the preambles.
THEOREM StackFindsTheParent == Spec => []ParentIsNearestHeading
<1>1. OutlineInv => ParentIsNearestHeading
  BY DEF OutlineInv
<1> QED
  BY <1>1, OutlineInvHolds, PTL

\* A parent is an earlier node of the same file.
LEMMA ParentsInFile ==
    ASSUME OutlineInv, NEW k \in 1..Len(out), out[k].parent # NoParent
    PROVE  out[k].parent \in 1..(k - 1) /\ out[out[k].parent].file = out[k].file
BY DEF OutlineInv, ParentIsNearestHeading, Enclosing, FrontInv

\* wireIdentity: the sibling numbers of a file's nodes do not depend on the other files.
THEOREM NumbersArePerFile == Spec => []IdentityIsPerFile
<1>1. OutlineInv => IdentityIsPerFile
  <2> SUFFICES ASSUME OutlineInv, NEW k \in 1..Len(out), out[k].parent # NoParent,
                      NEW j \in 1..(k - 1), out[j].parent = out[k].parent
               PROVE  out[j].file = out[k].file
    BY DEF IdentityIsPerFile, SiblingsBefore
  <2>1. j \in 1..Len(out)
    BY NumbersOK DEF OutlineInv
  <2> QED
    BY <2>1, ParentsInFile
<1> QED
  BY <1>1, OutlineInvHolds, PTL

-----------------------------------------------------------------------------
(* Identities.  A compile's ids are a recursive function of its nodes; the *)
(* induction that the function is defined and one-to-one follows the nodes *)
(* as they are made.                                                       *)

\* The earlier siblings of node k among the nodes o, its number, and what an assignment of
\* ids to them satisfies.
BeforeIn(o, k) ==
    {j \in 1..(k - 1) : /\ o[j].parent = o[k].parent
                        /\ o[k].parent = NoParent => o[j].file = o[k].file}
NumberIn(o, k) == Cardinality(BeforeIn(o, k))
AreIds(o, id) ==
    id = [k \in 1..Len(o) |->
             IF o[k].parent = NoParent THEN <<o[k].file, NumberIn(o, k)>>
                                       ELSE Append(id[o[k].parent], NumberIn(o, k))]

\* Ids are sequences of a file and numbers, the root's with one number.
Ids == {s \in Seq(Files \cup Nat) : Len(s) >= 2}

\* The ids of the nodes exist, and no two are equal.
Identified(o) ==
    /\ \E id : AreIds(o, id)
    /\ \A id : AreIds(o, id) => /\ id \in [1..Len(o) -> Ids]
                                /\ \A j, k \in 1..Len(o) : id[j] = id[k] => j = k

\* The nodes o are nodes of a compile: parents come first.
Nested(o) ==
    /\ o \in Seq(NodeRecords)
    /\ \A k \in 1..Len(o) : o[k].parent # NoParent => o[k].parent \in 1..(k - 1)

\* Identity is an assignment of ids when there is one.
LEMMA IdentityAssigns == Identified(out) => AreIds(out, Identity)
<1>1. Identity = CHOOSE id : AreIds(out, id)
  BY DEF Identity, AreIds, NumberIn, BeforeIn, SiblingIndex, SiblingsBefore
<1> QED
  BY <1>1 DEF Identified

\* A node has a number, and a later sibling a larger one.
LEMMA NumbersGrow ==
    ASSUME NEW o, NEW j \in Nat, NEW k \in Nat, j \in BeforeIn(o, k)
    PROVE  NumberIn(o, j) \in Nat /\ NumberIn(o, k) \in Nat /\ NumberIn(o, j) < NumberIn(o, k)
<1>1. IsFiniteSet(BeforeIn(o, j)) /\ IsFiniteSet(BeforeIn(o, k))
  <2>1. IsFiniteSet(1..(j - 1)) /\ IsFiniteSet(1..(k - 1))
    BY FS_Interval
  <2>2. BeforeIn(o, j) \subseteq 1..(j - 1) /\ BeforeIn(o, k) \subseteq 1..(k - 1)
    BY DEF BeforeIn
  <2> QED
    BY <2>1, <2>2, FS_Subset
<1>2. BeforeIn(o, j) \subseteq BeforeIn(o, k)
  BY DEF BeforeIn
<1>3. j \notin BeforeIn(o, j)
  BY DEF BeforeIn
<1>4. BeforeIn(o, j) # BeforeIn(o, k)
  BY <1>3
<1> QED
  BY <1>1, <1>2, <1>4, FS_CardinalityType, FS_Subset DEF NumberIn

\* An occurrence number is a natural number.
LEMMA NumberType ==
    ASSUME NEW o, NEW k \in Nat
    PROVE  NumberIn(o, k) \in Nat
<1>1. IsFiniteSet(1..(k - 1)) /\ BeforeIn(o, k) \subseteq 1..(k - 1)
  BY FS_Interval DEF BeforeIn
<1> QED
  BY <1>1, FS_Subset, FS_CardinalityType DEF NumberIn

\* A node that comes later changes no number.
LEMMA NumbersStay ==
    ASSUME NEW o \in Seq(NodeRecords), NEW r \in NodeRecords, NEW k \in 1..Len(o)
    PROVE  NumberIn(Append(o, r), k) = NumberIn(o, k)
<1>1. Append(o, r)[k] = o[k] /\ \A j \in 1..(k - 1) : Append(o, r)[j] = o[j]
  OBVIOUS
<1>2. BeforeIn(Append(o, r), k) = BeforeIn(o, k)
  BY <1>1 DEF BeforeIn
<1> QED
  BY <1>2 DEF NumberIn

\* Ids that grow by a number agree only when they agreed before.
LEMMA AppendOneToOne ==
    ASSUME NEW S, NEW s \in Seq(S), NEW t \in Seq(S), NEW a \in S, NEW b \in S,
           Append(s, a) = Append(t, b)
    PROVE  s = t /\ a = b
<1>1. Len(s) + 1 = Len(t) + 1
  <2>1. Len(Append(s, a)) = Len(s) + 1 /\ Len(Append(t, b)) = Len(t) + 1
    OBVIOUS
  <2> QED
    BY <2>1
<1>2. Len(s) = Len(t) /\ Len(s) \in Nat
  BY <1>1
<1>3. a = b
  <2>1. Append(s, a)[Len(s) + 1] = a /\ Append(t, b)[Len(t) + 1] = b
    OBVIOUS
  <2> QED
    BY <2>1, <1>2
<1>4. \A i \in 1..Len(s) : s[i] = t[i]
  <2>1. \A i \in 1..Len(s) : Append(s, a)[i] = s[i]
    OBVIOUS
  <2>2. \A i \in 1..Len(t) : Append(t, b)[i] = t[i]
    OBVIOUS
  <2> QED
    BY <1>2, <2>1, <2>2
<1> QED
  BY <1>2, <1>3, <1>4

\* What the ids of the nodes satisfy, node by node.
LEMMA IdEquations ==
    ASSUME NEW o, NEW id
    PROVE  AreIds(o, id) <=>
              /\ id = [k \in 1..Len(o) |-> id[k]]
              /\ \A k \in 1..Len(o) :
                    /\ o[k].parent = NoParent => id[k] = <<o[k].file, NumberIn(o, k)>>
                    /\ o[k].parent # NoParent => id[k] = Append(id[o[k].parent], NumberIn(o, k))
<1>1. ASSUME AreIds(o, id)
      PROVE  /\ id = [k \in 1..Len(o) |-> id[k]]
             /\ \A k \in 1..Len(o) :
                   /\ o[k].parent = NoParent => id[k] = <<o[k].file, NumberIn(o, k)>>
                   /\ o[k].parent # NoParent => id[k] = Append(id[o[k].parent], NumberIn(o, k))
  BY <1>1 DEF AreIds
<1>2. ASSUME id = [k \in 1..Len(o) |-> id[k]],
             \A k \in 1..Len(o) :
                /\ o[k].parent = NoParent => id[k] = <<o[k].file, NumberIn(o, k)>>
                /\ o[k].parent # NoParent => id[k] = Append(id[o[k].parent], NumberIn(o, k))
      PROVE  AreIds(o, id)
  <2>1. \A k \in 1..Len(o) :
           id[k] = IF o[k].parent = NoParent THEN <<o[k].file, NumberIn(o, k)>>
                                             ELSE Append(id[o[k].parent], NumberIn(o, k))
    BY <1>2
  <2> QED
    BY <1>2, <2>1 DEF AreIds
<1> QED
  BY <1>1, <1>2

\* One more node, below a node made before or a root, gets an id of its own.
LEMMA IdentifiedGrows ==
    ASSUME NEW o, Nested(o), Identified(o), NEW r \in NodeRecords, r.parent \in 0..Len(o)
    PROVE  Identified(Append(o, r))
<1> DEFINE p == Append(o, r)
           n == Len(o) + 1
<1>1. /\ Len(o) \in Nat /\ Len(p) = n /\ p[n] = r
      /\ \A k \in 1..Len(o) : p[k] = o[k]
      /\ 1..n = (1..Len(o)) \cup {n}
  BY DEF Nested
<1>2. \A k \in 1..Len(o) : /\ NumberIn(p, k) = NumberIn(o, k)
                           /\ o[k].parent # NoParent => o[k].parent \in 1..Len(o)
  <2>1. \A k \in 1..Len(o) : NumberIn(p, k) = NumberIn(o, k)
    BY NumbersStay DEF Nested
  <2> QED
    BY <1>1, <2>1 DEF Nested
<1>3. r.parent # NoParent => r.parent \in 1..Len(o)
  BY <1>1 DEF NoParent
<1>4. \A k \in 1..n : NumberIn(p, k) \in Nat
  BY <1>1, NumberType
<1> HIDE DEF p
<1>5. \E id : AreIds(p, id)
  <2>1. PICK f : AreIds(o, f)
    BY DEF Identified
  <2> DEFINE last == IF r.parent = NoParent THEN <<r.file, NumberIn(p, n)>>
                                            ELSE Append(f[r.parent], NumberIn(p, n))
             g == [k \in 1..n |-> IF k = n THEN last ELSE f[k]]
  <2>2. g[n] = last /\ \A k \in 1..Len(o) : g[k] = f[k]
    BY <1>1
  <2>3. g = [k \in 1..Len(p) |-> g[k]]
    BY <1>1
  <2> HIDE DEF g
  <2>4. \A k \in 1..Len(o) :
           /\ o[k].parent = NoParent => f[k] = <<o[k].file, NumberIn(o, k)>>
           /\ o[k].parent # NoParent => f[k] = Append(f[o[k].parent], NumberIn(o, k))
    BY <2>1, IdEquations
  <2>5. \A k \in 1..Len(p) :
           /\ p[k].parent = NoParent => g[k] = <<p[k].file, NumberIn(p, k)>>
           /\ p[k].parent # NoParent => g[k] = Append(g[p[k].parent], NumberIn(p, k))
    <3> TAKE k \in 1..Len(p)
    <3>1. CASE k = n
      BY <1>1, <1>3, <2>2, <3>1
    <3>2. CASE k \in 1..Len(o)
      <4>1. p[k] = o[k] /\ NumberIn(p, k) = NumberIn(o, k) /\ g[k] = f[k]
        BY <1>1, <1>2, <2>2, <3>2
      <4>2. o[k].parent # NoParent => g[o[k].parent] = f[o[k].parent]
        BY <1>2, <2>2, <3>2
      <4> QED
        BY <2>4, <3>2, <4>1, <4>2
    <3> QED
      BY <1>1, <3>1, <3>2
  <2> QED
    BY <2>3, <2>5, IdEquations
<1>6. ASSUME NEW g, AreIds(p, g)
      PROVE  g \in [1..Len(p) -> Ids] /\ \A j, k \in 1..Len(p) : g[j] = g[k] => j = k
  <2>1. /\ g = [k \in 1..Len(p) |-> g[k]]
        /\ \A k \in 1..Len(p) :
              /\ p[k].parent = NoParent => g[k] = <<p[k].file, NumberIn(p, k)>>
              /\ p[k].parent # NoParent => g[k] = Append(g[p[k].parent], NumberIn(p, k))
    BY <1>6, IdEquations
  <2> DEFINE f == [k \in 1..Len(o) |-> g[k]]
  <2>2. \A k \in 1..Len(o) : f[k] = g[k]
    OBVIOUS
  <2>3. f = [k \in 1..Len(o) |-> f[k]]
    BY <2>2
  <2> HIDE DEF f
  <2>4. AreIds(o, f)
    <3>1. \A k \in 1..Len(o) :
             /\ o[k].parent = NoParent => f[k] = <<o[k].file, NumberIn(o, k)>>
             /\ o[k].parent # NoParent => f[k] = Append(f[o[k].parent], NumberIn(o, k))
      <4> TAKE k \in 1..Len(o)
      <4>1. /\ p[k] = o[k] /\ NumberIn(p, k) = NumberIn(o, k) /\ f[k] = g[k]
            /\ k \in 1..Len(p)
        BY <1>1, <1>2, <2>2
      <4>2. o[k].parent # NoParent => g[o[k].parent] = f[o[k].parent]
        BY <1>2, <2>2
      <4> QED
        BY <2>1, <4>1, <4>2
    <3> QED
      BY <2>3, <3>1, IdEquations
  <2>5. /\ \A k \in 1..Len(o) : g[k] \in Ids
        /\ \A j, k \in 1..Len(o) : g[j] = g[k] => j = k
    BY <2>2, <2>4 DEF Identified
  <2>6. \A k \in 1..Len(p) : p[k] \in NodeRecords /\ p[k].file \in Files
    <3>1. \A k \in 1..Len(o) : o[k] \in NodeRecords
      BY DEF Nested
    <3>2. \A k \in 1..Len(p) : p[k] \in NodeRecords
      BY <1>1, <3>1
    <3> QED
      BY <3>2 DEF NodeRecords
  <2>7. \A k \in 1..Len(p) : /\ k \in 1..n
                             /\ p[k].parent # NoParent => p[k].parent \in 1..Len(o)
    BY <1>1, <1>2, <1>3
  <2>8. \A k \in 1..Len(p) : /\ p[k].parent = NoParent => g[k] \in Ids /\ Len(g[k]) = 2
                             /\ p[k].parent # NoParent => g[k] \in Ids /\ Len(g[k]) # 2
    <3> TAKE k \in 1..Len(p)
    <3>1. NumberIn(p, k) \in Nat
      BY <1>4, <2>7
    <3>2. CASE p[k].parent = NoParent
      <4>1. g[k] = <<p[k].file, NumberIn(p, k)>>
        BY <2>1, <3>2
      <4>2. g[k] \in Seq(Files \cup Nat) /\ Len(g[k]) = 2
        BY <2>6, <3>1, <4>1
      <4>3. Len(g[k]) >= 2
        BY <4>2
      <4>4. g[k] \in Ids
        BY <4>2, <4>3, Zenon DEF Ids
      <4> QED
        BY <3>2, <4>2, <4>4
    <3>3. CASE p[k].parent # NoParent
      <4>1. g[p[k].parent] \in Seq(Files \cup Nat) /\ Len(g[p[k].parent]) >= 2
        BY <2>5, <2>7, <3>3 DEF Ids
      <4>2. g[k] = Append(g[p[k].parent], NumberIn(p, k))
        BY <2>1, <3>3
      <4>3. g[k] \in Seq(Files \cup Nat) /\ Len(g[k]) = Len(g[p[k].parent]) + 1
        BY <3>1, <4>1, <4>2
      <4>4. Len(g[k]) >= 2 /\ Len(g[k]) # 2
        BY <4>1, <4>3
      <4>5. g[k] \in Ids
        BY <4>3, <4>4 DEF Ids
      <4> QED
        BY <3>3, <4>4, <4>5
    <3> QED
      BY <3>2, <3>3
  <2>9. ASSUME NEW j \in 1..Len(o) PROVE g[j] # g[n]
    <3> SUFFICES ASSUME g[j] = g[n] PROVE FALSE
      OBVIOUS
    <3>1. j \in 1..Len(p) /\ n \in 1..Len(p) /\ j \in 1..(n - 1) /\ j \in Nat /\ n \in Nat
      BY <1>1
    <3>2. NumberIn(p, j) \in Nat /\ NumberIn(p, n) \in Nat
      BY <1>1, <1>4
    <3>3. p[j].parent = NoParent <=> p[n].parent = NoParent
      <4> HIDE DEF n
      <4> QED
        BY <2>8, <3>1, Zenon
    <3>4. j \in BeforeIn(p, n) /\ NumberIn(p, j) = NumberIn(p, n)
      <4>1. CASE p[n].parent = NoParent
        <5>1. p[j].file = p[n].file /\ NumberIn(p, j) = NumberIn(p, n)
          BY <2>1, <3>1, <3>3, <4>1
        <5> QED
          BY <3>1, <3>3, <4>1, <5>1 DEF BeforeIn
      <4>2. CASE p[n].parent # NoParent
        <5>1. Append(g[p[j].parent], NumberIn(p, j)) = Append(g[p[n].parent], NumberIn(p, n))
          BY <2>1, <3>1, <3>3, <4>2
        <5>2. p[j].parent \in 1..Len(o) /\ p[n].parent \in 1..Len(o)
          BY <2>7, <3>1, <3>3, <4>2
        <5>3. g[p[j].parent] \in Seq(Files \cup Nat) /\ g[p[n].parent] \in Seq(Files \cup Nat)
          BY <2>5, <5>2 DEF Ids
        <5>4. g[p[j].parent] = g[p[n].parent] /\ NumberIn(p, j) = NumberIn(p, n)
          <6>1. NumberIn(p, j) \in Files \cup Nat /\ NumberIn(p, n) \in Files \cup Nat
            BY <3>2
          <6> DEFINE s == g[p[j].parent]
                     t == g[p[n].parent]
                     a == NumberIn(p, j)
                     b == NumberIn(p, n)
          <6>2. /\ s \in Seq(Files \cup Nat) /\ t \in Seq(Files \cup Nat)
                /\ a \in Files \cup Nat /\ b \in Files \cup Nat
                /\ Append(s, a) = Append(t, b)
            BY <5>1, <5>3, <6>1
          <6> HIDE DEF s, t, a, b
          <6>3. s = t /\ a = b
            BY <6>2, AppendOneToOne
          <6> QED
            BY <6>3 DEF s, t, a, b
        <5>5. p[j].parent = p[n].parent
          BY <2>5, <5>2, <5>4
        <5> QED
          BY <3>1, <4>2, <5>4, <5>5 DEF BeforeIn
      <4> QED
        BY <4>1, <4>2
    <3> QED
      BY <3>1, <3>4, NumbersGrow
  <2>10. g \in [1..Len(p) -> Ids]
    BY <2>1, <2>8
  <2>11. ASSUME NEW j \in 1..Len(p), NEW k \in 1..Len(p), g[j] = g[k] PROVE j = k
    BY <1>1, <2>5, <2>9, <2>11
  <2> QED
    BY <2>10, <2>11
<1> QED
  BY <1>5, <1>6 DEF Identified, p

\* The ids of the nodes made so far exist and are all different.
LEMMA IdentifiedHolds == Spec => []Identified(out)
<1>1. Init => Identified(out)
  <2> SUFFICES ASSUME Init PROVE Identified(<< >>)
    BY DEF Init
  <2>1. 1..Len(<< >>) = {}
    OBVIOUS
  <2>2. \A id : AreIds(<< >>, id) <=> id = [k \in {} |-> id[k]]
    BY <2>1, IdEquations
  <2>3. AreIds(<< >>, [k \in {} |-> {}])
    BY <2>2
  <2>4. \A id : AreIds(<< >>, id) => id \in [{} -> Ids]
    BY <2>2
  <2> QED
    BY <2>1, <2>3, <2>4 DEF Identified
<1>2. OutlineInv /\ OutlineInv' /\ Identified(out) /\ [Next]_vars => Identified(out)'
  <2> SUFFICES ASSUME OutlineInv, OutlineInv', Identified(out), [Next]_vars
               PROVE  Identified(out')
    OBVIOUS
  <2>1. Nested(out)
    BY ParentsInFile DEF OutlineInv, TypeOK, Nested
  <2>2. out' = out \/ \E r : out' = Append(out, r)
    BY DEF Next, Preamble, FrontValue, Block, Heading, NextFile, AttachNode, vars
  <2>3. ASSUME NEW r, out' = Append(out, r) PROVE Identified(out')
    <3>1. Len(out) \in Nat /\ Len(out') = Len(out) + 1 /\ out'[Len(out')] = r
      BY <2>3 DEF OutlineInv, TypeOK
    <3>2. r \in NodeRecords
      BY <3>1 DEF OutlineInv, TypeOK
    <3>3. r.parent = NoParent \/ r.parent \in 1..Len(out)
      BY <3>1 DEF OutlineInv, ParentIsNearestHeading, Enclosing, FrontInv
    <3>4. r.parent \in 0..Len(out)
      BY <3>1, <3>3 DEF NoParent
    <3> QED
      BY <2>1, <2>3, <3>2, <3>4, IdentifiedGrows
  <2> QED
    BY <2>2, <2>3
<1> QED
  BY <1>1, <1>2, OutlineInvHolds, PTL DEF Spec

\* wireIdentity and IdentifyNode: two nodes of a compile never get the same id.
THEOREM IdsAreUnique == Spec => []IdentitiesAreUnique
<1>1. Identified(out) => IdentitiesAreUnique
  BY IdentityAssigns DEF Identified, IdentitiesAreUnique
<1> QED
  BY <1>1, IdentifiedHolds, PTL

-----------------------------------------------------------------------------
(* IgnoreRules.  matchPath: the recursion over segments and names finds a  *)
(* cut of the path exactly when there is one.                              *)

\* The names between the places a and b of the path are what segment k stands for.
Piece(segments, path, k, a, b) ==
    IF segments[k] = AnyDepth THEN a <= b ELSE b = a + 1 /\ path[b] \in segments[k]

\* The ways to cut the path after place p into a piece for each segment after the i-th.
Cuts(segments, path, i, p) ==
    {cut \in [i..Len(segments) -> 0..Len(path)] :
        /\ cut[i] = p
        /\ cut[Len(segments)] = Len(path)
        /\ \A k \in (i + 1)..Len(segments) : Piece(segments, path, k, cut[k - 1], cut[k])}

Cuttable(segments, path) ==
    [i \in 0..Len(segments) |-> {p \in 0..Len(path) : Cuts(segments, path, i, p) # {}}]

\* What MatchPath's function satisfies.
IsFrom(segments, path, f) ==
    f = [i \in 0..Len(segments) |->
            IF i = Len(segments) THEN {Len(path)}
            ELSE {p \in 0..Len(path) :
                    IF segments[i + 1] = AnyDepth THEN SkipNames(p, f[i + 1])
                    ELSE /\ p < Len(path)
                         /\ MatchSegment(segments[i + 1], path[p + 1])
                         /\ p + 1 \in f[i + 1]}]

\* No segment is left exactly when no name is.
LEMMA CutsEnd ==
    ASSUME NEW segments, NEW path, Len(segments) \in Nat, Len(path) \in Nat,
           NEW p \in 0..Len(path)
    PROVE  Cuts(segments, path, Len(segments), p) # {} <=> p = Len(path)
<1> DEFINE n == Len(segments)
           m == Len(path)
<1>1. ASSUME NEW cut \in Cuts(segments, path, n, p) PROVE p = m
  BY DEF Cuts
<1>2. ASSUME p = m PROVE Cuts(segments, path, n, p) # {}
  <2> DEFINE cut == [k \in n..n |-> m]
  <2>1. cut \in [n..n -> 0..m] /\ cut[n] = m /\ (n + 1)..n = {}
    OBVIOUS
  <2> HIDE DEF cut
  <2>2. cut \in Cuts(segments, path, n, p)
    BY <1>2, <2>1 DEF Cuts
  <2> QED
    BY <2>2
<1> QED
  BY <1>1, <1>2

\* A cut of the rest is a piece for the next segment and a cut of what follows.
LEMMA CutsStep ==
    ASSUME NEW segments, NEW path, Len(segments) \in Nat, Len(path) \in Nat,
           NEW i \in 0..(Len(segments) - 1), NEW p \in 0..Len(path)
    PROVE  Cuts(segments, path, i, p) # {} <=>
              \E q \in 0..Len(path) : /\ Piece(segments, path, i + 1, p, q)
                                      /\ Cuts(segments, path, i + 1, q) # {}
<1> DEFINE n == Len(segments)
           m == Len(path)
<1>1. i \in Nat /\ i + 1 \in (i + 1)..n /\ i + 1 \in i..n /\ i \in i..n /\ n \in (i + 1)..n
  OBVIOUS
<1>2. ASSUME NEW cut \in Cuts(segments, path, i, p)
      PROVE  \E q \in 0..m : /\ Piece(segments, path, i + 1, p, q)
                             /\ Cuts(segments, path, i + 1, q) # {}
  <2>1. /\ cut \in [i..n -> 0..m] /\ cut[i] = p /\ cut[n] = m
        /\ \A k \in (i + 1)..n : Piece(segments, path, k, cut[k - 1], cut[k])
    BY DEF Cuts
  <2> DEFINE rest == [k \in (i + 1)..n |-> cut[k]]
             q == cut[i + 1]
  <2>2. q \in 0..m /\ Piece(segments, path, i + 1, p, q)
    <3>1. Piece(segments, path, i + 1, cut[(i + 1) - 1], cut[i + 1])
      BY <1>1, <2>1
    <3>2. (i + 1) - 1 = i
      BY <1>1
    <3> QED
      BY <1>1, <2>1, <3>1, <3>2
  <2>3. rest \in [(i + 1)..n -> 0..m] /\ \A k \in (i + 1)..n : rest[k] = cut[k]
    BY <2>1
  <2>4. \A k \in ((i + 1) + 1)..n : k - 1 \in (i + 1)..n /\ k \in (i + 1)..n
    BY <1>1
  <2> HIDE DEF rest
  <2>5. \A k \in ((i + 1) + 1)..n : Piece(segments, path, k, rest[k - 1], rest[k])
    BY <2>1, <2>3, <2>4
  <2>6. rest \in Cuts(segments, path, i + 1, q)
    BY <1>1, <2>1, <2>3, <2>5 DEF Cuts
  <2> QED
    BY <2>2, <2>6
<1>3. ASSUME NEW q \in 0..m, Piece(segments, path, i + 1, p, q),
             NEW rest \in Cuts(segments, path, i + 1, q)
      PROVE  Cuts(segments, path, i, p) # {}
  <2>1. /\ rest \in [(i + 1)..n -> 0..m] /\ rest[i + 1] = q /\ rest[n] = m
        /\ \A k \in ((i + 1) + 1)..n : Piece(segments, path, k, rest[k - 1], rest[k])
    BY DEF Cuts
  <2> DEFINE cut == [k \in i..n |-> IF k = i THEN p ELSE rest[k]]
  <2>2. \A k \in i..n : k # i => k \in (i + 1)..n
    BY <1>1
  <2>3. cut \in [i..n -> 0..m] /\ cut[i] = p /\ \A k \in (i + 1)..n : cut[k] = rest[k]
    BY <1>1, <2>1, <2>2
  <2> HIDE DEF cut
  <2>4. ASSUME NEW k \in (i + 1)..n
        PROVE  Piece(segments, path, k, cut[k - 1], cut[k])
    <3>1. CASE k = i + 1
      <4>1. k - 1 = i /\ cut[k - 1] = p /\ cut[k] = q
        BY <1>1, <2>1, <2>3, <3>1
      <4> QED
        BY <1>3, <3>1, <4>1
    <3>2. CASE k # i + 1
      <4>1. k \in ((i + 1) + 1)..n /\ k - 1 \in (i + 1)..n
        BY <1>1, <3>2
      <4> QED
        BY <2>1, <2>3, <4>1
    <3> QED
      BY <3>1, <3>2
  <2>5. cut[n] = m
    BY <1>1, <2>1, <2>3
  <2>6. cut \in Cuts(segments, path, i, p)
    BY <2>3, <2>4, <2>5 DEF Cuts
  <2> QED
    BY <2>6
<1> QED
  BY <1>2, <1>3

\* What MatchPath's function says of a place, given the next segment's places.
NextPlaces(segments, path, i, next) ==
    {p \in 0..Len(path) :
        IF segments[i + 1] = AnyDepth THEN SkipNames(p, next)
        ELSE /\ p < Len(path)
             /\ MatchSegment(segments[i + 1], path[p + 1])
             /\ p + 1 \in next}

\* The equation of MatchPath, one segment at a time.
LEMMA FromEquations ==
    ASSUME NEW segments, NEW path, NEW f
    PROVE  IsFrom(segments, path, f) <=>
              /\ f = [i \in 0..Len(segments) |-> f[i]]
              /\ \A i \in 0..Len(segments) :
                    /\ i = Len(segments) => f[i] = {Len(path)}
                    /\ i # Len(segments) => f[i] = NextPlaces(segments, path, i, f[i + 1])
<1> DEFINE E(i) == IF i = Len(segments) THEN {Len(path)}
                   ELSE NextPlaces(segments, path, i, f[i + 1])
<1>1. IsFrom(segments, path, f) <=> f = [i \in 0..Len(segments) |-> E(i)]
  BY DEF IsFrom, NextPlaces
<1>2. f = [i \in 0..Len(segments) |-> E(i)] <=>
         f = [i \in 0..Len(segments) |-> f[i]] /\ \A i \in 0..Len(segments) : f[i] = E(i)
  <2> HIDE DEF E
  <2>1. ASSUME f = [i \in 0..Len(segments) |-> E(i)]
        PROVE  f = [i \in 0..Len(segments) |-> f[i]] /\ \A i \in 0..Len(segments) : f[i] = E(i)
    BY <2>1
  <2>2. ASSUME f = [i \in 0..Len(segments) |-> f[i]], \A i \in 0..Len(segments) : f[i] = E(i)
        PROVE  f = [i \in 0..Len(segments) |-> E(i)]
    BY <2>2
  <2> QED
    BY <2>1, <2>2
<1>3. (\A i \in 0..Len(segments) : f[i] = E(i)) <=>
         \A i \in 0..Len(segments) :
            /\ i = Len(segments) => f[i] = {Len(path)}
            /\ i # Len(segments) => f[i] = NextPlaces(segments, path, i, f[i + 1])
  OBVIOUS
<1> QED
  BY <1>1, <1>2, <1>3

\* The cuttable places satisfy the equation of matchPath.
LEMMA CuttableStep ==
    ASSUME NEW segments, NEW path, Len(segments) \in Nat, Len(path) \in Nat,
           NEW i \in 0..(Len(segments) - 1)
    PROVE  Cuttable(segments, path)[i] =
              NextPlaces(segments, path, i, Cuttable(segments, path)[i + 1])
<1> DEFINE m == Len(path)
           next == {q \in 0..m : Cuts(segments, path, i + 1, q) # {}}
<1>1. /\ Cuttable(segments, path)[i] = {p \in 0..m : Cuts(segments, path, i, p) # {}}
      /\ Cuttable(segments, path)[i + 1] = next
  BY DEF Cuttable
<1>2. ASSUME NEW p \in 0..m
      PROVE  Cuts(segments, path, i, p) # {} <=>
                \E q \in next : Piece(segments, path, i + 1, p, q)
  BY CutsStep
<1>3. next \subseteq 0..m
  OBVIOUS
<1> HIDE DEF next
<1>4. ASSUME NEW p \in 0..m
      PROVE  (\E q \in next : Piece(segments, path, i + 1, p, q)) <=>
                IF segments[i + 1] = AnyDepth THEN SkipNames(p, next)
                ELSE /\ p < m
                     /\ MatchSegment(segments[i + 1], path[p + 1])
                     /\ p + 1 \in next
  <2>1. CASE segments[i + 1] = AnyDepth
    BY <2>1 DEF Piece, SkipNames
  <2>2. CASE segments[i + 1] # AnyDepth
    <3>1. p + 1 \in next => p < m
      BY <1>3
    <3>2. \A q : Piece(segments, path, i + 1, p, q) <=> q = p + 1 /\ path[q] \in segments[i + 1]
      BY <2>2 DEF Piece
    <3> QED
      BY <2>2, <3>1, <3>2 DEF MatchSegment
  <2> QED
    BY <2>1, <2>2
<1> QED
  BY <1>1, <1>2, <1>4 DEF NextPlaces

\* The cuts of a path solve the equation of MatchPath.
LEMMA CuttableIsFrom ==
    ASSUME NEW segments, NEW path, Len(segments) \in Nat, Len(path) \in Nat
    PROVE  IsFrom(segments, path, Cuttable(segments, path))
<1> DEFINE f == Cuttable(segments, path)
<1>1. f = [i \in 0..Len(segments) |-> f[i]]
  BY DEF Cuttable
<1>2. f[Len(segments)] = {Len(path)}
  <2>1. f[Len(segments)] = {p \in 0..Len(path) : Cuts(segments, path, Len(segments), p) # {}}
    BY DEF Cuttable
  <2>2. \A p \in 0..Len(path) : Cuts(segments, path, Len(segments), p) # {} <=> p = Len(path)
    BY CutsEnd
  <2> QED
    BY <2>1, <2>2
<1>3. ASSUME NEW i \in 0..Len(segments), i # Len(segments)
      PROVE  f[i] = NextPlaces(segments, path, i, f[i + 1])
  BY <1>3, CuttableStep
<1> HIDE DEF f
<1> QED
  BY <1>1, <1>2, <1>3, FromEquations

\* There is no other solution.
LEMMA FromIsCuttable ==
    ASSUME NEW segments, NEW path, Len(segments) \in Nat, Len(path) \in Nat,
           NEW f, IsFrom(segments, path, f)
    PROVE  f[0] = Cuttable(segments, path)[0]
<1> DEFINE g == Cuttable(segments, path)
           n == Len(segments)
           S == {k \in Nat : k <= n => f[n - k] = g[n - k]}
<1>1. /\ f[n] = {Len(path)} /\ g[n] = {Len(path)}
      /\ \A i \in 0..n : i # n => /\ f[i] = NextPlaces(segments, path, i, f[i + 1])
                                  /\ g[i] = NextPlaces(segments, path, i, g[i + 1])
  BY FromEquations, CuttableIsFrom
<1> HIDE DEF g
<1>2. 0 \in S
  <2>1. n - 0 = n
    OBVIOUS
  <2>2. f[n - 0] = g[n - 0]
    BY <1>1, <2>1
  <2> QED
    BY <2>2
<1>3. ASSUME NEW k \in Nat, k \in S PROVE k + 1 \in S
  <2> SUFFICES ASSUME k + 1 <= n PROVE f[n - (k + 1)] = g[n - (k + 1)]
    OBVIOUS
  <2>1. f[n - k] = g[n - k]
    BY <1>3
  <2>2. n - (k + 1) \in 0..n /\ n - (k + 1) # n /\ (n - (k + 1)) + 1 = n - k
    OBVIOUS
  <2> QED
    BY <1>1, <2>1, <2>2
<1>4. Nat \subseteq S
  <2> HIDE DEF S
  <2> QED
    BY <1>2, <1>3, NatSet
<1>5. n \in S /\ n - n = 0
  BY <1>4
<1> QED
  BY <1>5 DEF g

\* matchPath says what Covers says.
LEMMA MatchPathCovers ==
    ASSUME NEW segments, NEW path, Len(segments) \in Nat, Len(path) \in Nat
    PROVE  MatchPath(segments, path) <=> Covers(segments, path)
<1> DEFINE f == CHOOSE g : IsFrom(segments, path, g)
<1>1. MatchPath(segments, path) <=> 0 \in f[0]
  BY DEF MatchPath, IsFrom
<1>2. IsFrom(segments, path, f)
  BY CuttableIsFrom
<1>3. f[0] = {p \in 0..Len(path) : Cuts(segments, path, 0, p) # {}}
  <2> HIDE DEF f
  <2> QED
    BY <1>2, FromIsCuttable DEF Cuttable
<1>4. Cuts(segments, path, 0, 0) # {} <=> Covers(segments, path)
  <2>1. 0 + 1 = 1
    OBVIOUS
  <2> QED
    BY <2>1, Zenon DEF Cuts, Covers, Piece
<1> QED
  BY <1>1, <1>3, <1>4

\* A pattern that is not anchored is one segment that matches the last name.
LEMMA AnyDepthCovers ==
    ASSUME NEW glob, NEW path, Len(path) \in Nat \ {0}
    PROVE  Covers(<<AnyDepth, glob>>, path) <=> MatchSegment(glob, path[Len(path)])
<1> DEFINE segments == <<AnyDepth, glob>>
           m == Len(path)
<1>1. Len(segments) = 2 /\ segments[1] = AnyDepth /\ segments[2] = glob /\ 2 \in Nat
  OBVIOUS
<1>2. ASSUME Covers(segments, path), glob # AnyDepth PROVE path[m] \in glob
  <2>1. PICK cut \in [0..2 -> 0..m] :
           /\ cut[2] = m
           /\ \A i \in 1..2 : IF segments[i] = AnyDepth THEN cut[i - 1] <= cut[i]
                              ELSE cut[i] = cut[i - 1] + 1 /\ path[cut[i]] \in segments[i]
    BY <1>1, <1>2 DEF Covers
  <2>2. 2 \in 1..2
    OBVIOUS
  <2>3. path[cut[2]] \in segments[2]
    BY <1>1, <1>2, <2>1, <2>2
  <2> QED
    BY <1>1, <2>1, <2>3
<1>3. ASSUME MatchSegment(glob, path[m]) PROVE Covers(segments, path)
  <2> DEFINE cut == [k \in 0..2 |-> IF k = 0 THEN 0 ELSE IF k = 1 THEN m - 1 ELSE m]
  <2>1. /\ cut \in [0..2 -> 0..m]
        /\ cut[0] = 0 /\ cut[1] = m - 1 /\ cut[2] = m
    OBVIOUS
  <2> HIDE DEF cut
  <2>2. /\ cut[0] <= cut[1] /\ cut[1] <= cut[2] /\ cut[2] = cut[1] + 1
        /\ 1 - 1 = 0 /\ 2 - 1 = 1 /\ 1..2 = {1, 2}
    BY <2>1
  <2>3. ASSUME NEW i \in 1..2
        PROVE  IF segments[i] = AnyDepth THEN cut[i - 1] <= cut[i]
               ELSE cut[i] = cut[i - 1] + 1 /\ path[cut[i]] \in segments[i]
    <3>1. CASE i = 1
      BY <1>1, <2>2, <3>1
    <3>2. CASE i = 2
      <4>1. glob = AnyDepth \/ path[cut[2]] \in glob
        BY <1>3, <2>1 DEF MatchSegment
      <4> QED
        BY <1>1, <2>2, <3>2, <4>1
    <3> QED
      BY <2>2, <3>1, <3>2
  <2> HIDE DEF segments
  <2> QED
    BY <1>1, <2>1, <2>3 DEF Covers
<1> QED
  BY <1>2, <1>3 DEF MatchSegment

-----------------------------------------------------------------------------
(* Match and the walk.                                                     *)

\* The rules are lines of an ignore file.
RulesOK == rules \in Seq(Lines)

\* matchPattern, with the test for directories, says what the rule says.
LEMMA RuleSays ==
    ASSUME NEW line \in Lines, NEW path, Len(path) \in Nat \ {0}, NEW isDir
    PROVE  (line.dirOnly => isDir) /\ MatchPattern(line, path) <=> Says(line, path, isDir)
<1>1. Len(line.segments) \in Nat
  <2>1. PICK n \in 1..MaxSegments : line.segments \in [1..n -> Globs]
    BY DEF Lines
  <2>2. n \in Nat
    BY IgnoreAssumption
  <2> QED
    BY <2>1, <2>2
<1>2. CASE Anchored(line)
  <2>1. MatchPattern(line, path) <=> MatchPath(line.segments, path)
    BY <1>2 DEF MatchPattern
  <2>2. Says(line, path, isDir) <=> (line.dirOnly => isDir) /\ Covers(line.segments, path)
    BY <1>2 DEF Says, Anchored
  <2> QED
    BY <1>1, <2>1, <2>2, MatchPathCovers
<1>3. CASE ~Anchored(line)
  <2>1. MatchPattern(line, path) <=> MatchSegment(line.segments[1], path[Len(path)])
    BY <1>3 DEF MatchPattern
  <2>2. Says(line, path, isDir) <=>
           (line.dirOnly => isDir) /\ Covers(<<AnyDepth, line.segments[1]>>, path)
    BY <1>3 DEF Says, Anchored
  <2> QED
    BY <2>1, <2>2, AnyDepthCovers
<1> QED
  BY <1>2, <1>3

\* The last of the first i rules that says anything excludes the path.
ExcludedBy(path, isDir, i) ==
    \E a \in 1..i : /\ Says(rules[a], path, isDir) /\ ~rules[a].negated
                    /\ \A b \in (a + 1)..i : ~Says(rules[b], path, isDir)

\* One more rule decides when it says anything.
LEMMA ExcludedStep ==
    ASSUME NEW path, NEW isDir, NEW i \in Nat
    PROVE  ExcludedBy(path, isDir, i + 1) <=>
              IF Says(rules[i + 1], path, isDir) THEN ~rules[i + 1].negated
                                                 ELSE ExcludedBy(path, isDir, i)
<1>1. CASE Says(rules[i + 1], path, isDir)
  <2>1. ASSUME NEW a \in 1..(i + 1), \A b \in (a + 1)..(i + 1) : ~Says(rules[b], path, isDir)
        PROVE  a = i + 1
    BY <1>1, <2>1
  <2>2. i + 1 \in 1..(i + 1) /\ ((i + 1) + 1)..(i + 1) = {}
    OBVIOUS
  <2> QED
    BY <1>1, <2>1, <2>2 DEF ExcludedBy
<1>2. CASE ~Says(rules[i + 1], path, isDir)
  <2>1. \A a \in 1..i : (a + 1)..(i + 1) = ((a + 1)..i) \cup {i + 1}
    OBVIOUS
  <2>2. 1..(i + 1) = (1..i) \cup {i + 1}
    OBVIOUS
  <2> QED
    BY <1>2, <2>1, <2>2 DEF ExcludedBy
<1> QED
  BY <1>1, <1>2

\* What Match's function satisfies.
IsIgnored(path, isDir, f) ==
    f = [i \in 0..Len(rules) |->
            IF i = 0 THEN FALSE
            ELSE IF (rules[i].dirOnly => isDir) /\ MatchPattern(rules[i], path)
            THEN ~rules[i].negated ELSE f[i - 1]]

\* The equation of Match, rule by rule.
LEMMA IgnoredEquations ==
    ASSUME NEW path, NEW isDir, NEW f, IsIgnored(path, isDir, f), Len(rules) \in Nat
    PROVE  /\ ~f[0]
           /\ \A i \in 1..Len(rules) :
                 f[i] <=> IF (rules[i].dirOnly => isDir) /\ MatchPattern(rules[i], path)
                          THEN ~rules[i].negated ELSE f[i - 1]
<1>1. \A i \in 0..Len(rules) :
         f[i] = IF i = 0 THEN FALSE
                ELSE IF (rules[i].dirOnly => isDir) /\ MatchPattern(rules[i], path)
                THEN ~rules[i].negated ELSE f[i - 1]
  BY Zenon DEF IsIgnored
<1>2. 0 \in 0..Len(rules) /\ \A i \in 1..Len(rules) : i \in 0..Len(rules) /\ i # 0
  OBVIOUS
<1>3. f[0] = FALSE
  BY <1>1, <1>2, Zenon
<1>4. ASSUME NEW i \in 1..Len(rules)
      PROVE  f[i] = IF (rules[i].dirOnly => isDir) /\ MatchPattern(rules[i], path)
                    THEN ~rules[i].negated ELSE f[i - 1]
  BY <1>1, <1>2, Zenon
<1> QED
  BY <1>3, <1>4, Zenon

\* The last rule that says anything solves the equation of Match.
LEMMA ExcludedIsIgnored ==
    ASSUME RulesOK, NEW path, Len(path) \in Nat \ {0}, NEW isDir
    PROVE  IsIgnored(path, isDir, [i \in 0..Len(rules) |-> ExcludedBy(path, isDir, i)])
<1> DEFINE n == Len(rules)
           g == [i \in 0..n |-> ExcludedBy(path, isDir, i)]
           E(i) == IF i = 0 THEN FALSE
                   ELSE IF (rules[i].dirOnly => isDir) /\ MatchPattern(rules[i], path)
                   THEN ~rules[i].negated ELSE g[i - 1]
<1>1. n \in Nat /\ \A i \in 1..n : rules[i] \in Lines
  BY DEF RulesOK
<1>2. ASSUME NEW i \in 0..n PROVE ExcludedBy(path, isDir, i) = E(i)
  <2>1. CASE i = 0
    <3>1. ~ExcludedBy(path, isDir, 0)
      BY DEF ExcludedBy
    <3>2. ExcludedBy(path, isDir, 0) = FALSE
      BY <3>1 DEF ExcludedBy
    <3> QED
      BY <2>1, <3>2
  <2>2. CASE i # 0
    <3>1. i - 1 \in Nat /\ i - 1 \in 0..n /\ (i - 1) + 1 = i /\ i \in 1..n
      BY <1>1, <2>2
    <3>2. g[i - 1] = ExcludedBy(path, isDir, i - 1)
      BY <3>1
    <3>3. ExcludedBy(path, isDir, i) <=>
             IF Says(rules[i], path, isDir) THEN ~rules[i].negated
                                            ELSE ExcludedBy(path, isDir, i - 1)
      BY <3>1, ExcludedStep
    <3>4. Says(rules[i], path, isDir) <=>
             (rules[i].dirOnly => isDir) /\ MatchPattern(rules[i], path)
      BY <1>1, <3>1, RuleSays
    <3> HIDE DEF g
    <3>5. ExcludedBy(path, isDir, i) <=> E(i)
      BY <2>2, <3>2, <3>3, <3>4
    <3>6. ExcludedBy(path, isDir, i) \in BOOLEAN /\ E(i) \in BOOLEAN
      BY <2>2, <3>2 DEF ExcludedBy
    <3> QED
      BY <3>5, <3>6
  <2> QED
    BY <2>1, <2>2
<1>3. g = [i \in 0..n |-> E(i)]
  BY <1>2
<1> QED
  BY <1>3 DEF IsIgnored

\* Match says what the last rule that applies says.
LEMMA MatchExcludes ==
    ASSUME RulesOK, NEW path, Len(path) \in Nat \ {0}, NEW isDir
    PROVE  Match(path, isDir) <=> Excluded(path, isDir)
<1> DEFINE n == Len(rules)
           f == CHOOSE h : IsIgnored(path, isDir, h)
           S == {i \in Nat : i <= n => (f[i] <=> ExcludedBy(path, isDir, i))}
<1>0. n \in Nat /\ \A i \in 1..n : rules[i] \in Lines
  BY DEF RulesOK
<1>1. Match(path, isDir) <=> f[n]
  BY DEF Match, IsIgnored
<1>2. IsIgnored(path, isDir, f)
  BY ExcludedIsIgnored
<1> HIDE DEF f
<1>3. 0 \in S
  <2>1. ~f[0]
    BY <1>0, <1>2, IgnoredEquations
  <2>2. ~ExcludedBy(path, isDir, 0)
    BY DEF ExcludedBy
  <2> QED
    BY <2>1, <2>2
<1>4. ASSUME NEW i \in Nat, i \in S PROVE i + 1 \in S
  <2> SUFFICES ASSUME i + 1 <= n PROVE f[i + 1] <=> ExcludedBy(path, isDir, i + 1)
    OBVIOUS
  <2>1. i + 1 \in 1..n /\ i + 1 \in 0..n /\ i + 1 # 0 /\ (i + 1) - 1 = i /\ i <= n
    BY <1>0
  <2>2. f[i + 1] <=> IF (rules[i + 1].dirOnly => isDir) /\ MatchPattern(rules[i + 1], path)
                     THEN ~rules[i + 1].negated ELSE f[(i + 1) - 1]
    BY <1>0, <1>2, <2>1, IgnoredEquations
  <2>3. Says(rules[i + 1], path, isDir) <=>
           (rules[i + 1].dirOnly => isDir) /\ MatchPattern(rules[i + 1], path)
    BY <1>0, <2>1, RuleSays
  <2>4. f[i] <=> ExcludedBy(path, isDir, i)
    BY <1>4, <2>1
  <2> QED
    BY <2>1, <2>2, <2>3, <2>4, ExcludedStep
<1>5. Nat \subseteq S
  <2> HIDE DEF S
  <2> QED
    BY <1>3, <1>4, NatSet
<1>6. f[n] <=> ExcludedBy(path, isDir, n)
  BY <1>0, <1>5
<1> QED
  BY <1>1, <1>6 DEF Excluded, ExcludedByRule, ExcludedBy

\* No directory on the path is skipped or excluded.
Open(path) ==
    \A i \in 1..Len(path) : path[i] \notin SkippedNames /\ ~Excluded(SubSeq(path, 1, i), TRUE)

Visited == Directories \cup {SourceDir}

\* What the walk's function satisfies.
IsEntered(f) ==
    f = [d \in Visited |->
            \/ d = SourceDir
            \/ /\ f[Parent(d)]
               /\ d[Len(d)] \notin SkippedNames
               /\ ~Match(d, TRUE)]

\* The parts of a path.
LEMMA ParentParts ==
    ASSUME NEW path \in Seq(Names) \ {SourceDir}
    PROVE  /\ Len(path) \in Nat \ {0}
           /\ Parent(path) \in Seq(Names) /\ Len(Parent(path)) = Len(path) - 1
           /\ \A i \in 1..(Len(path) - 1) : /\ Parent(path)[i] = path[i]
                                            /\ SubSeq(Parent(path), 1, i) = SubSeq(path, 1, i)
           /\ SubSeq(path, 1, Len(path)) = path
<1>1. Len(path) \in Nat \ {0}
  BY DEF SourceDir
<1>2. Parent(path) \in Seq(Names) /\ Len(Parent(path)) = Len(path) - 1
  <2> DEFINE n == Len(path) - 1
  <2>1. n \in Nat /\ n \in Int /\ 1 \in Int /\ \A i \in 1..n : path[i] \in Names
    BY <1>1
  <2> HIDE DEF n
  <2>2. /\ SubSeq(path, 1, n) \in Seq(Names)
        /\ Len(SubSeq(path, 1, n)) = IF 1 <= n THEN n - 1 + 1 ELSE 0
    BY <2>1, SubSeqProperties
  <2>3. Len(SubSeq(path, 1, n)) = n
    BY <2>1, <2>2
  <2> QED
    BY <2>2, <2>3 DEF Parent, n
<1>3. \A i \in 1..(Len(path) - 1) : Parent(path)[i] = path[i]
  BY <1>1 DEF Parent
<1>4. ASSUME NEW i \in 1..(Len(path) - 1)
      PROVE  SubSeq(Parent(path), 1, i) = SubSeq(path, 1, i)
  <2>1. SubSeq(Parent(path), 1, i) \in Seq(Names) /\ SubSeq(path, 1, i) \in Seq(Names)
    BY <1>1, <1>2
  <2>2. Len(SubSeq(Parent(path), 1, i)) = i /\ Len(SubSeq(path, 1, i)) = i
    BY <1>1, <1>2
  <2>3. \A k \in 1..i : SubSeq(Parent(path), 1, i)[k] = SubSeq(path, 1, i)[k]
    BY <1>1, <1>2, <1>3
  <2> QED
    BY <2>1, <2>2, <2>3
<1>5. SubSeq(path, 1, Len(path)) = path
  BY <1>1
<1> QED
  BY <1>1, <1>2, <1>3, <1>4, <1>5

\* The walk is let into a directory from the one above it.
LEMMA OpenStep ==
    ASSUME NEW path \in Seq(Names) \ {SourceDir}
    PROVE  /\ Open(Parent(path)) <=> \A i \in 1..(Len(path) - 1) :
                                        /\ path[i] \notin SkippedNames
                                        /\ ~Excluded(SubSeq(path, 1, i), TRUE)
           /\ Open(path) <=> /\ Open(Parent(path))
                             /\ path[Len(path)] \notin SkippedNames
                             /\ ~Excluded(path, TRUE)
<1> DEFINE n == Len(path)
<1>1. /\ n \in Nat \ {0} /\ Len(Parent(path)) = n - 1
      /\ \A i \in 1..(n - 1) : /\ Parent(path)[i] = path[i]
                               /\ SubSeq(Parent(path), 1, i) = SubSeq(path, 1, i)
      /\ SubSeq(path, 1, n) = path
  BY ParentParts
<1>2. 1..n = (1..(n - 1)) \cup {n}
  BY <1>1
<1> HIDE DEF n
<1>3. Open(Parent(path)) <=> \A i \in 1..(n - 1) : /\ path[i] \notin SkippedNames
                                                   /\ ~Excluded(SubSeq(path, 1, i), TRUE)
  BY <1>1 DEF Open
<1>4. Open(path) <=> \A i \in 1..n : /\ path[i] \notin SkippedNames
                                     /\ ~Excluded(SubSeq(path, 1, i), TRUE)
  BY DEF Open, n
<1>5. Open(path) <=> /\ Open(Parent(path))
                     /\ path[n] \notin SkippedNames
                     /\ ~Excluded(path, TRUE)
  BY <1>1, <1>2, <1>3, <1>4
<1> QED
  BY <1>3, <1>5 DEF n

\* Directories have names, and their parents are visited before them.
LEMMA DirectoryParts ==
    ASSUME NEW d \in Visited, d # SourceDir
    PROVE  d \in Seq(Names) \ {SourceDir} /\ Parent(d) \in Visited
BY IgnoreAssumption DEF Visited

\* The directories nothing closes solve the equation of Entered.
LEMMA OpenIsEntered ==
    ASSUME RulesOK
    PROVE  IsEntered([d \in Visited |-> Open(d)])
<1> DEFINE g == [d \in Visited |-> Open(d)]
           E(d) == \/ d = SourceDir
                   \/ /\ g[Parent(d)]
                      /\ d[Len(d)] \notin SkippedNames
                      /\ ~Match(d, TRUE)
<1>1. ASSUME NEW d \in Visited PROVE Open(d) = E(d)
  <2>1. CASE d = SourceDir
    <3>1. Open(SourceDir)
      BY DEF Open, SourceDir
    <3>2. Open(d) \in BOOLEAN /\ E(d) \in BOOLEAN
      BY <2>1 DEF Open
    <3> QED
      BY <2>1, <3>1, <3>2
  <2>2. CASE d # SourceDir
    <3>1. d \in Seq(Names) \ {SourceDir} /\ Parent(d) \in Visited
      BY <2>2, DirectoryParts
    <3>2. g[Parent(d)] = Open(Parent(d))
      BY <3>1
    <3>3. Match(d, TRUE) <=> Excluded(d, TRUE)
      BY <3>1, ParentParts, MatchExcludes
    <3> HIDE DEF g
    <3>4. Open(d) <=> E(d)
      BY <2>2, <3>1, <3>2, <3>3, OpenStep
    <3>5. Open(d) \in BOOLEAN /\ E(d) \in BOOLEAN
      BY DEF Open
    <3> QED
      BY <3>4, <3>5
  <2> QED
    BY <2>1, <2>2
<1>2. g = [d \in Visited |-> E(d)]
  BY <1>1
<1> QED
  BY <1>2 DEF IsEntered

\* The walk enters the directories that no rule and no name keeps it from.
LEMMA EnteredOpen ==
    ASSUME RulesOK, NEW dir \in Visited
    PROVE  Entered[dir] <=> Open(dir)
<1> DEFINE f == CHOOSE h : IsEntered(h)
           S == {n \in Nat : \A d \in Visited : Len(d) = n => (f[d] <=> Open(d))}
<1>1. Entered = f
  BY DEF Entered, IsEntered, Visited
<1>2. IsEntered(f)
  BY OpenIsEntered
<1> HIDE DEF f
<1>3. ASSUME NEW d \in Visited
      PROVE  f[d] <=> \/ d = SourceDir
                      \/ /\ f[Parent(d)]
                         /\ d[Len(d)] \notin SkippedNames
                         /\ ~Match(d, TRUE)
  BY <1>2, Zenon DEF IsEntered
<1>4. Open(SourceDir) /\ f[SourceDir] /\ Len(SourceDir) = 0
  <2>1. f[SourceDir]
    BY <1>3 DEF Visited
  <2>2. Open(SourceDir) /\ Len(SourceDir) = 0
    BY DEF Open, SourceDir
  <2> QED
    BY <2>1, <2>2
<1>5. ASSUME NEW d \in Visited, d # SourceDir
      PROVE  /\ Len(d) \in Nat \ {0} /\ Parent(d) \in Visited /\ Len(Parent(d)) = Len(d) - 1
             /\ (f[Parent(d)] <=> Open(Parent(d))) => (f[d] <=> Open(d))
  <2>1. d \in Seq(Names) \ {SourceDir} /\ Parent(d) \in Visited
    BY <1>5, DirectoryParts
  <2>2. Len(d) \in Nat \ {0} /\ Len(Parent(d)) = Len(d) - 1
    BY <2>1, ParentParts
  <2>3. Match(d, TRUE) <=> Excluded(d, TRUE)
    BY <2>2, MatchExcludes
  <2>4. f[d] <=> /\ f[Parent(d)] /\ d[Len(d)] \notin SkippedNames /\ ~Match(d, TRUE)
    BY <1>3, <1>5
  <2>5. Open(d) <=> /\ Open(Parent(d)) /\ d[Len(d)] \notin SkippedNames /\ ~Excluded(d, TRUE)
    BY <2>1, OpenStep
  <2> QED
    BY <2>1, <2>2, <2>3, <2>4, <2>5
<1>6. 0 \in S
  BY <1>4, <1>5
<1>7. ASSUME NEW n \in Nat, n \in S PROVE n + 1 \in S
  <2> SUFFICES ASSUME NEW d \in Visited, Len(d) = n + 1 PROVE f[d] <=> Open(d)
    OBVIOUS
  <2>1. d # SourceDir
    BY <1>4
  <2>2. Parent(d) \in Visited /\ Len(Parent(d)) = n
    BY <1>5, <2>1
  <2>3. f[Parent(d)] <=> Open(Parent(d))
    BY <1>7, <2>2
  <2> QED
    BY <1>5, <2>1, <2>3
<1>8. Nat \subseteq S
  <2> HIDE DEF S
  <2> QED
    BY <1>6, <1>7, NatSet
<1>9. Len(dir) \in Nat
  BY <1>4, <1>5
<1>10. f[dir] <=> Open(dir)
  BY <1>8, <1>9
<1> QED
  BY <1>1, <1>10

\* With well-formed rules the walk finds the supported files that are not excluded, in
\* directories that are neither skipped nor excluded.
LEMMA WalkIsExact ==
    ASSUME RulesOK, NEW f \in Documents
    PROVE  f \in Walk <=> /\ f[Len(f)] \notin Unsupported
                          /\ ~Excluded(f, FALSE)
                          /\ \A i \in 1..(Len(f) - 1) : /\ f[i] \notin SkippedNames
                                                        /\ ~Excluded(SubSeq(f, 1, i), TRUE)
<1>1. f \in Seq(Names) \ {SourceDir} /\ Parent(f) \in Visited
  BY IgnoreAssumption DEF Visited
<1>2. Match(f, FALSE) <=> Excluded(f, FALSE)
  BY <1>1, ParentParts, MatchExcludes
<1>3. Entered[Parent(f)] <=> Open(Parent(f))
  BY <1>1, EnteredOpen
<1>4. Open(Parent(f)) <=> \A i \in 1..(Len(f) - 1) : /\ f[i] \notin SkippedNames
                                                     /\ ~Excluded(SubSeq(f, 1, i), TRUE)
  BY <1>1, OpenStep
<1> QED
  BY <1>2, <1>3, <1>4 DEF Walk

\* The directories a file is in, by their last names.
LEMMA DirectoriesAbove ==
    ASSUME NEW f \in Documents
    PROVE  (\A d \in DirectoriesOf(f) : ~Skipped(d) /\ ~Excluded(d, TRUE))
           <=> \A i \in 1..(Len(f) - 1) : /\ f[i] \notin SkippedNames
                                          /\ ~Excluded(SubSeq(f, 1, i), TRUE)
<1>1. f \in Seq(Names)
  BY IgnoreAssumption
<1>2. \A i \in 1..(Len(f) - 1) : SubSeq(f, 1, i)[Len(SubSeq(f, 1, i))] = f[i]
  BY <1>1
<1> QED
  BY <1>2 DEF DirectoriesOf, Skipped

\* So the walk keeps what is left, and leaves out files and directories.
LEMMA WalkRight == RulesOK => WalkFollowsTheRules
<1> SUFFICES ASSUME RulesOK PROVE WalkFollowsTheRules
  OBVIOUS
<1>1. \A f \in Documents :
          f \in Walk <=> /\ f[Len(f)] \notin Unsupported
                         /\ ~Excluded(f, FALSE)
                         /\ \A d \in DirectoriesOf(f) : ~Skipped(d) /\ ~Excluded(d, TRUE)
  BY WalkIsExact, DirectoriesAbove
<1>2. Walk \subseteq Documents
  BY DEF Walk
<1>3. KeepsWhatIsLeft
  BY <1>1 DEF KeepsWhatIsLeft
<1>4. LeavesOutFiles
  BY <1>1, <1>2 DEF LeavesOutFiles
<1>5. LeavesOutDirectories
  BY <1>1 DEF LeavesOutDirectories, Excluded
<1> QED
  BY <1>3, <1>4, <1>5 DEF WalkFollowsTheRules

\* CompileDir and scan: for any tree of files and any rules, whatever their number, order
\* and depth, the walk finds every supported file that the last matching rule leaves in
\* directories that are neither skipped nor excluded, and no file that is unsupported,
\* excluded, in a skipped directory, or in an excluded one and not brought back by a
\* later rule.
THEOREM WalksFollowTheRules == IgnoreSpec => []WalkFollowsTheRules
<1>1. IgnoreInit => RulesOK
  BY DEF IgnoreInit, RulesOK
<1>2. RulesOK /\ [IgnoreNext]_rules => RulesOK'
  BY DEF RulesOK, IgnoreNext, AddRule
<1> QED
  BY <1>1, <1>2, WalkRight, PTL DEF IgnoreSpec

-----------------------------------------------------------------------------
(* Split: paths and documents.                                             *)

KeyNumbers == 1..MaxKeys

\* What holds of every document: a value is in maps and lists only, and nesting ends.
DataOK ==
    /\ DOMAIN data \subseteq Seq(KeyNumbers)
    /\ data \in [DOMAIN data -> Kinds]
    /\ Root \in DOMAIN data
    /\ \A q \in DOMAIN data : \A i \in 0..(Len(q) - 1) :
          Cut(q, i) \in DOMAIN data /\ data[Cut(q, i)] # "scalar"
    /\ \E b \in Nat : \A q \in DOMAIN data : Len(q) <= b

\* The first document is one.
LEMMA InitData == SplitInit => DataOK
<1> SUFFICES ASSUME SplitInit PROVE DataOK
  OBVIOUS
<1>1. DOMAIN data = {Root} /\ data \in [DOMAIN data -> Kinds]
  BY DEF SplitInit
<1>2. Root \in Seq(KeyNumbers) /\ Len(Root) = 0 /\ 0..(0 - 1) = {} /\ 0 \in Nat
  BY DEF Root
<1> QED
  BY <1>1, <1>2 DEF DataOK

\* A document with one more value is one.
LEMMA NextData == DataOK /\ [SplitNext]_data => DataOK'
<1> SUFFICES ASSUME DataOK, [SplitNext]_data PROVE DataOK'
  OBVIOUS
<1>1. CASE UNCHANGED data
  BY <1>1 DEF DataOK
<1>2. ASSUME NEW p \in DOMAIN data, NEW k \in 1..MaxKeys, NEW kind \in Kinds,
             AddEntry(p, k, kind)
      PROVE  DataOK'
  <2> DEFINE new == Append(p, k)
  <2>1. p \in Seq(KeyNumbers) /\ k \in KeyNumbers
    BY DEF DataOK, KeyNumbers
  <2>2. /\ new \in Seq(KeyNumbers) /\ Len(new) = Len(p) + 1 /\ Len(p) \in Nat
        /\ \A i \in 0..Len(p) : Cut(new, i) = Cut(p, i)
    BY <2>1, AppendParts
  <2>3. data' = [q \in DOMAIN data \cup {new} |-> IF q = new THEN kind ELSE data[q]]
    BY <1>2 DEF AddEntry
  <2>4. new \notin DOMAIN data /\ data[p] # "scalar"
    BY <1>2 DEF AddEntry, Entries
  <2> HIDE DEF new
  <2>5. /\ DOMAIN data' = DOMAIN data \cup {new}
        /\ \A q \in DOMAIN data : data'[q] = data[q]
        /\ data'[new] = kind
    BY <2>3, <2>4
  <2>6. DOMAIN data' \subseteq Seq(KeyNumbers) /\ Root \in DOMAIN data'
    BY <2>2, <2>5 DEF DataOK
  <2>7. data' \in [DOMAIN data' -> Kinds]
    <3>1. \A q \in DOMAIN data \cup {new} : (IF q = new THEN kind ELSE data[q]) \in Kinds
      BY DEF DataOK
    <3> QED
      BY <2>3, <3>1
  <2>8. ASSUME NEW q \in DOMAIN data', NEW i \in 0..(Len(q) - 1)
        PROVE  Cut(q, i) \in DOMAIN data' /\ data'[Cut(q, i)] # "scalar"
    <3>1. CASE q \in DOMAIN data
      BY <2>5, <3>1 DEF DataOK
    <3>2. CASE q = new
      <4>1. i \in 0..Len(p) /\ Cut(q, i) = Cut(p, i)
        BY <2>2, <3>2
      <4>2. CASE i = Len(p)
        BY <2>1, <2>4, <2>5, <4>1, <4>2, CutCut
      <4>3. CASE i # Len(p)
        <5>1. i \in 0..(Len(p) - 1)
          BY <2>2, <4>1, <4>3
        <5> QED
          BY <2>5, <4>1, <5>1 DEF DataOK
      <4> QED
        BY <4>2, <4>3
    <3> QED
      BY <2>5, <3>1, <3>2
  <2>9. \E b \in Nat : \A q \in DOMAIN data' : Len(q) <= b
    <3>1. PICK b \in Nat : \A q \in DOMAIN data : Len(q) <= b
      BY DEF DataOK
    <3>2. b + 1 \in Nat /\ Len(new) <= b + 1
      BY <2>2, <3>1
    <3>3. \A q \in DOMAIN data : Len(q) <= b + 1
      <4>1. \A q \in DOMAIN data : Len(q) \in Nat
        BY DEF DataOK
      <4> QED
        BY <3>1, <4>1
    <3> QED
      BY <2>5, <3>2, <3>3
  <2> QED
    BY <2>6, <2>7, <2>8, <2>9 DEF DataOK
<1> QED
  BY <1>1, <1>2 DEF SplitNext

\* Induction over a document: what holds of a value when it holds of its entries
\* holds of every value.
LEMMA DocumentSet ==
    ASSUME DataOK, NEW G,
           \A p \in DOMAIN data : (\A k \in Entries(p) : Append(p, k) \in G) => p \in G
    PROVE  DOMAIN data \subseteq G
<1>1. PICK b \in Nat : \A q \in DOMAIN data : Len(q) <= b
  BY DEF DataOK
<1> DEFINE S == {n \in Nat : \A p \in DOMAIN data : Len(p) + n >= b + 1 => p \in G}
<1>2. ASSUME NEW p \in DOMAIN data
      PROVE  /\ Len(p) \in Nat
             /\ \A k \in Entries(p) : /\ Append(p, k) \in DOMAIN data
                                      /\ Len(Append(p, k)) = Len(p) + 1
  <2>1. p \in Seq(KeyNumbers)
    BY DEF DataOK
  <2>2. \A k \in Entries(p) : k \in KeyNumbers /\ Append(p, k) \in DOMAIN data
    BY DEF Entries, KeyNumbers
  <2> QED
    BY <2>1, <2>2, AppendParts
<1>3. 0 \in S
  <2>1. \A p \in DOMAIN data : ~(Len(p) + 0 >= b + 1)
    BY <1>1, <1>2
  <2> QED
    BY <2>1
<1>4. ASSUME NEW n \in Nat, n \in S PROVE n + 1 \in S
  <2> SUFFICES ASSUME NEW p \in DOMAIN data, Len(p) + (n + 1) >= b + 1 PROVE p \in G
    OBVIOUS
  <2>1. ASSUME NEW k \in Entries(p) PROVE Append(p, k) \in G
    <3>1. Append(p, k) \in DOMAIN data /\ Len(Append(p, k)) + n >= b + 1
      BY <1>1, <1>2
    <3> QED
      BY <1>4, <3>1
  <2> QED
    BY <2>1
<1>5. Nat \subseteq S
  <2> HIDE DEF S
  <2> QED
    BY <1>3, <1>4, NatSet
<1>6. b + 1 \in S
  <2> HIDE DEF S
  <2> QED
    BY <1>1, <1>5
<1>7. ASSUME NEW p \in DOMAIN data PROVE p \in G
  <2>1. Len(p) + (b + 1) >= b + 1
    BY <1>1, <1>2
  <2> QED
    BY <1>6, <2>1
<1> QED
  BY <1>7

-----------------------------------------------------------------------------
(* What is rendered, and which values make nodes.                          *)

\* q is p or is below it.
Within(p, q) == Len(p) <= Len(q) /\ Cut(q, Len(p)) = p

\* The entry of p that q is or is below.
LEMMA WithinEntry ==
    ASSUME DataOK, NEW p \in DOMAIN data, NEW q \in DOMAIN data
    PROVE  /\ Within(p, p) /\ Within(Root, p)
           /\ Within(p, q) /\ q # p =>
                /\ Len(p) \in 0..(Len(q) - 1)
                /\ \E k \in Entries(p) : /\ Cut(q, Len(p) + 1) = Append(p, k)
                                         /\ Within(Append(p, k), q)
           /\ \A k \in Entries(p) : Within(Append(p, k), q) =>
                /\ Within(p, q) /\ q # p
                /\ Len(p) \in 0..(Len(q) - 1)
                /\ Cut(q, Len(p) + 1) = Append(p, k)
<1>1. p \in Seq(KeyNumbers) /\ q \in Seq(KeyNumbers) /\ Len(p) \in Nat /\ Len(q) \in Nat /\ Len(Root) = 0
  BY DEF DataOK, Root
<1>2. Within(p, p) /\ Within(Root, p)
  BY <1>1, CutCut DEF Within
<1>3. ASSUME Within(p, q), q # p
      PROVE  /\ Len(p) \in 0..(Len(q) - 1)
             /\ \E k \in Entries(p) : /\ Cut(q, Len(p) + 1) = Append(p, k)
                                      /\ Within(Append(p, k), q)
  <2> DEFINE i == Len(p)
             k == q[i + 1]
  <2>1. Cut(q, i) = p /\ i <= Len(q)
    BY <1>3 DEF Within
  <2>2. i # Len(q)
    BY <1>1, <1>3, <2>1, CutCut
  <2>3. i \in 0..(Len(q) - 1) /\ i + 1 \in 0..Len(q)
    BY <1>1, <2>1, <2>2
  <2>4. k \in KeyNumbers /\ Cut(q, i + 1) = Append(p, k)
    BY <1>1, <2>1, <2>3, CutNext
  <2>5. Len(Append(p, k)) = i + 1
    BY <1>1, <2>4, AppendParts
  <2>6. Append(p, k) \in DOMAIN data
    <3>1. CASE i + 1 = Len(q)
      BY <1>1, <2>4, <3>1, CutCut
    <3>2. CASE i + 1 # Len(q)
      <4>1. i + 1 \in 0..(Len(q) - 1)
        BY <1>1, <2>3, <3>2
      <4>2. Cut(q, i + 1) \in DOMAIN data
        BY <4>1 DEF DataOK
      <4> QED
        BY <2>4, <4>2
    <3> QED
      BY <3>1, <3>2
  <2>7. k \in Entries(p)
    BY <2>4, <2>6 DEF Entries, KeyNumbers
  <2>8. Within(Append(p, k), q)
    BY <1>1, <2>3, <2>4, <2>5 DEF Within
  <2> HIDE DEF i, k
  <2> QED
    BY <2>3, <2>4, <2>7, <2>8 DEF i
<1>4. ASSUME NEW k \in Entries(p), Within(Append(p, k), q)
      PROVE  /\ Within(p, q) /\ q # p
             /\ Len(p) \in 0..(Len(q) - 1)
             /\ Cut(q, Len(p) + 1) = Append(p, k)
  <2>1. k \in KeyNumbers
    BY DEF Entries, KeyNumbers
  <2>2. /\ Len(Append(p, k)) = Len(p) + 1
        /\ Cut(Append(p, k), Len(p)) = Cut(p, Len(p))
    BY <1>1, <2>1, AppendParts
  <2>3. Len(p) + 1 <= Len(q) /\ Cut(q, Len(p) + 1) = Append(p, k)
    BY <1>4, <2>2 DEF Within
  <2>4. Len(p) \in 0..(Len(q) - 1) /\ q # p /\ Len(p) \in 0..(Len(p) + 1) /\ Len(p) + 1 \in 0..Len(q)
    BY <1>1, <2>3
  <2>5. Cut(Cut(q, Len(p) + 1), Len(p)) = Cut(q, Len(p))
    BY <1>1, <2>4, CutCut
  <2>6. Cut(q, Len(p)) = p
    BY <1>1, <2>2, <2>3, <2>5, CutCut
  <2> QED
    BY <1>1, <2>3, <2>4, <2>6 DEF Within
<1> QED
  BY <1>2, <1>3, <1>4

\* The values that writeValue shows of p.
Below(p) == {q \in DOMAIN data : Within(p, q) /\ Entries(q) = {}}

\* They are p itself, or those of its entries.
LEMMA BelowStep ==
    ASSUME DataOK, NEW p \in DOMAIN data
    PROVE  /\ Entries(p) = {} => Below(p) = {p}
           /\ Entries(p) # {} => Below(p) = UNION {Below(Append(p, k)) : k \in Entries(p)}
<1>1. ASSUME NEW q \in DOMAIN data
      PROVE  /\ Within(p, p)
             /\ Within(p, q) <=> q = p \/ \E k \in Entries(p) : Within(Append(p, k), q)
  BY WithinEntry
<1>2. ASSUME Entries(p) = {} PROVE Below(p) = {p}
  BY <1>1, <1>2 DEF Below
<1>3. ASSUME Entries(p) # {}
      PROVE  Below(p) = UNION {Below(Append(p, k)) : k \in Entries(p)}
  <2>1. ASSUME NEW q
        PROVE  q \in Below(p) <=> \E k \in Entries(p) : q \in Below(Append(p, k))
    BY <1>1, <1>3 DEF Below
  <2> QED
    BY <2>1
<1> QED
  BY <1>2, <1>3

\* What writeValue's function satisfies.
IsRendered(f) ==
    f = [p \in DOMAIN data |->
            IF Entries(p) = {} THEN {p} ELSE UNION {f[Append(p, k)] : k \in Entries(p)}]

\* What is below a value solves the equation of Rendered.
LEMMA BelowIsRendered ==
    ASSUME DataOK
    PROVE  IsRendered([p \in DOMAIN data |-> Below(p)])
<1> DEFINE g == [p \in DOMAIN data |-> Below(p)]
<1>1. ASSUME NEW p \in DOMAIN data
      PROVE  Below(p) = IF Entries(p) = {} THEN {p}
                        ELSE UNION {g[Append(p, k)] : k \in Entries(p)}
  <2>1. \A k \in Entries(p) : g[Append(p, k)] = Below(Append(p, k))
    BY DEF Entries
  <2> HIDE DEF g
  <2>2. {g[Append(p, k)] : k \in Entries(p)} = {Below(Append(p, k)) : k \in Entries(p)}
    BY <2>1
  <2> QED
    BY <2>2, BelowStep
<1>2. g = [p \in DOMAIN data |-> IF Entries(p) = {} THEN {p}
                                 ELSE UNION {g[Append(p, k)] : k \in Entries(p)}]
  BY <1>1
<1> QED
  BY <1>2 DEF IsRendered

\* writeValue shows the values below p that have no entries.
LEMMA RenderedBelow ==
    ASSUME DataOK, NEW p \in DOMAIN data
    PROVE  Rendered[p] = Below(p)
<1> DEFINE f == CHOOSE h : IsRendered(h)
           G == {q \in DOMAIN data : f[q] = Below(q)}
<1>1. Rendered = f
  BY DEF Rendered, IsRendered
<1>2. IsRendered(f)
  BY BelowIsRendered
<1> HIDE DEF f
<1>3. \A q \in DOMAIN data :
         f[q] = IF Entries(q) = {} THEN {q} ELSE UNION {f[Append(q, k)] : k \in Entries(q)}
  BY <1>2, Zenon DEF IsRendered
<1>4. ASSUME NEW q \in DOMAIN data, \A k \in Entries(q) : Append(q, k) \in G
      PROVE  q \in G
  <2>1. {f[Append(q, k)] : k \in Entries(q)} = {Below(Append(q, k)) : k \in Entries(q)}
    BY <1>4
  <2>2. f[q] = Below(q)
    BY <1>3, <2>1, BelowStep
  <2> QED
    BY <2>2
<1>5. DOMAIN data \subseteq G
  <2> HIDE DEF G
  <2> QED
    BY <1>4, DocumentSet
<1> QED
  BY <1>1, <1>5

\* The entries of p that buildMap makes nodes of.
Promoted(p) == {j \in Entries(p) : data[p] = "map" /\ Promotes(Append(p, j))}

\* The values at and below p that make nodes: all that leads to them is promoted.
Made(p) ==
    {q \in DOMAIN data :
        /\ Within(p, q)
        /\ \A i \in Len(p)..(Len(q) - 1) : data[Cut(q, i)] = "map" /\ Promotes(Cut(q, i + 1))}

\* They are p and those of the entries it promotes.
LEMMA MadeStep ==
    ASSUME DataOK, NEW p \in DOMAIN data
    PROVE  Made(p) = {p} \cup UNION {Made(Append(p, k)) : k \in Promoted(p)}
<1>1. p \in Seq(KeyNumbers) /\ Len(p) \in Nat
  BY DEF DataOK
<1>2. ASSUME NEW q \in Made(p), q # p
      PROVE  \E k \in Promoted(p) : q \in Made(Append(p, k))
  <2>1. /\ q \in DOMAIN data /\ Within(p, q)
        /\ \A i \in Len(p)..(Len(q) - 1) : data[Cut(q, i)] = "map" /\ Promotes(Cut(q, i + 1))
    BY DEF Made
  <2>2. PICK k \in Entries(p) : /\ Cut(q, Len(p) + 1) = Append(p, k)
                                /\ Within(Append(p, k), q)
    BY <1>2, <2>1, WithinEntry
  <2>3. Len(p) \in 0..(Len(q) - 1) /\ Len(q) \in Nat /\ Cut(q, Len(p)) = p
    BY <1>2, <2>1, WithinEntry DEF Within, DataOK
  <2>4. Len(p) \in Len(p)..(Len(q) - 1)
    BY <1>1, <2>3
  <2>5. k \in Promoted(p)
    BY <2>1, <2>2, <2>3, <2>4 DEF Promoted
  <2>6. k \in KeyNumbers
    BY DEF Entries, KeyNumbers
  <2>7. Len(Append(p, k)) = Len(p) + 1
    BY <1>1, <2>6, AppendParts
  <2>8. \A i \in (Len(p) + 1)..(Len(q) - 1) : i \in Len(p)..(Len(q) - 1)
    BY <1>1, <2>3
  <2>9. q \in Made(Append(p, k))
    BY <2>1, <2>2, <2>7, <2>8 DEF Made
  <2> QED
    BY <2>5, <2>9
<1>3. ASSUME NEW k \in Promoted(p), NEW q \in Made(Append(p, k))
      PROVE  q \in Made(p)
  <2>1. k \in Entries(p) /\ k \in KeyNumbers /\ data[p] = "map" /\ Promotes(Append(p, k))
    BY DEF Promoted, Entries, KeyNumbers
  <2>2. Len(Append(p, k)) = Len(p) + 1
    BY <1>1, <2>1, AppendParts
  <2>3. /\ q \in DOMAIN data /\ Within(Append(p, k), q)
        /\ \A i \in (Len(p) + 1)..(Len(q) - 1) :
              data[Cut(q, i)] = "map" /\ Promotes(Cut(q, i + 1))
    BY <2>2 DEF Made
  <2>4. Within(p, q) /\ Cut(q, Len(p) + 1) = Append(p, k) /\ Len(q) \in Nat
    BY <2>1, <2>3, WithinEntry DEF DataOK
  <2>5. Cut(q, Len(p)) = p
    BY <2>4 DEF Within
  <2>6. \A i \in Len(p)..(Len(q) - 1) : i = Len(p) \/ i \in (Len(p) + 1)..(Len(q) - 1)
    BY <1>1, <2>4
  <2>7. \A i \in Len(p)..(Len(q) - 1) : data[Cut(q, i)] = "map" /\ Promotes(Cut(q, i + 1))
    BY <2>1, <2>3, <2>4, <2>5, <2>6
  <2> QED
    BY <2>3, <2>4, <2>7 DEF Made
<1>4. p \in Made(p)
  <2>1. Len(p)..(Len(p) - 1) = {}
    BY <1>1
  <2> QED
    BY <2>1, WithinEntry DEF Made
<1>5. \A q : q \in Made(p) <=> q = p \/ \E k \in Promoted(p) : q \in Made(Append(p, k))
  BY <1>2, <1>3, <1>4
<1> QED
  BY <1>5

\* What buildNode's function satisfies.
IsBuild(f) ==
    f = [p \in DOMAIN data |->
            {NodeOf(p)} \cup
            UNION {f[Append(p, k)] : k \in {j \in Entries(p) : /\ data[p] = "map"
                                                             /\ Promotes(Append(p, j))}}]

NodesOf(p) == {NodeOf(q) : q \in Made(p)}

\* The nodes made at a value: its own and those of the values it promotes.
LEMMA NodesStep ==
    ASSUME DataOK, NEW p \in DOMAIN data
    PROVE  NodesOf(p) = {NodeOf(p)} \cup UNION {NodesOf(Append(p, k)) : k \in Promoted(p)}
<1>1. \A q : q \in Made(p) <=> q = p \/ \E k \in Promoted(p) : q \in Made(Append(p, k))
  BY MadeStep
<1>2. \A n : n \in NodesOf(p) <=> \E q \in Made(p) : n = NodeOf(q)
  BY DEF NodesOf
<1>3. \A k, n : n \in NodesOf(Append(p, k)) <=> \E q \in Made(Append(p, k)) : n = NodeOf(q)
  BY DEF NodesOf
<1>4. \A n : n \in NodesOf(p) <=>
                n = NodeOf(p) \/ \E k \in Promoted(p) : n \in NodesOf(Append(p, k))
  BY <1>1, <1>2, <1>3
<1> QED
  BY <1>4

\* They solve the equation of BuildNode.
LEMMA NodesIsBuild ==
    ASSUME DataOK
    PROVE  IsBuild([p \in DOMAIN data |-> NodesOf(p)])
<1> DEFINE g == [p \in DOMAIN data |-> NodesOf(p)]
<1>1. ASSUME NEW p \in DOMAIN data
      PROVE  NodesOf(p) = {NodeOf(p)} \cup UNION {g[Append(p, k)] : k \in Promoted(p)}
  <2>1. \A k \in Promoted(p) : g[Append(p, k)] = NodesOf(Append(p, k))
    BY DEF Promoted, Entries
  <2> HIDE DEF g
  <2>2. {g[Append(p, k)] : k \in Promoted(p)} = {NodesOf(Append(p, k)) : k \in Promoted(p)}
    BY <2>1
  <2> QED
    BY <2>2, NodesStep
<1>2. g = [p \in DOMAIN data |-> {NodeOf(p)} \cup UNION {g[Append(p, k)] : k \in Promoted(p)}]
  BY <1>1
<1> QED
  BY <1>2 DEF IsBuild, Promoted

\* buildNode makes the nodes of the values that are promoted all the way.
LEMMA BuildNodeNodes ==
    ASSUME DataOK
    PROVE  BuildNode[Root] = NodesOf(Root)
<1> DEFINE f == CHOOSE h : IsBuild(h)
           G == {q \in DOMAIN data : f[q] = NodesOf(q)}
<1>1. BuildNode = f
  BY DEF BuildNode, IsBuild
<1>2. IsBuild(f)
  BY NodesIsBuild
<1> HIDE DEF f
<1>3. \A q \in DOMAIN data :
         f[q] = {NodeOf(q)} \cup UNION {f[Append(q, k)] : k \in Promoted(q)}
  BY <1>2, Zenon DEF IsBuild, Promoted
<1>4. ASSUME NEW q \in DOMAIN data, \A k \in Entries(q) : Append(q, k) \in G
      PROVE  q \in G
  <2>1. \A k \in Promoted(q) : k \in Entries(q)
    BY DEF Promoted
  <2>2. {f[Append(q, k)] : k \in Promoted(q)} = {NodesOf(Append(q, k)) : k \in Promoted(q)}
    BY <1>4, <2>1
  <2>3. f[q] = NodesOf(q)
    BY <1>3, <2>2, NodesStep
  <2> QED
    BY <2>3
<1>5. DOMAIN data \subseteq G
  <2> HIDE DEF G
  <2> QED
    BY <1>4, DocumentSet
<1>6. Root \in G
  <2> HIDE DEF G
  <2> QED
    BY <1>5 DEF DataOK
<1> QED
  BY <1>1, <1>6

-----------------------------------------------------------------------------
(* Every leaf has one node.                                                *)

\* What a node shows of the values without entries.
LEMMA ContentOf ==
    ASSUME DataOK, NEW q \in DOMAIN data, NEW l \in DOMAIN data, Entries(l) = {}
    PROVE  l \in NodeOf(q).content <=>
              \/ data[q] = "scalar" /\ l = q
              \/ /\ data[q] # "scalar" /\ Within(q, l) /\ l # q
                 /\ data[q] = "map" => ~Promotes(Cut(l, Len(q) + 1))
<1>1. data[q] \in Kinds
  BY DEF DataOK
<1>2. ASSUME NEW k \in Entries(q)
      PROVE  l \in Rendered[Append(q, k)] <=> Within(Append(q, k), l)
  <2>1. Append(q, k) \in DOMAIN data
    BY DEF Entries
  <2> QED
    BY <2>1, RenderedBelow DEF Below
<1>3. CASE data[q] = "scalar"
  <2>1. NodeOf(q).content = {q}
    BY <1>3 DEF NodeOf
  <2> QED
    BY <1>3, <2>1
<1>4. CASE data[q] = "list"
  <2>1. NodeOf(q).content = RenderList(q)
    BY <1>4 DEF NodeOf
  <2>2. l \in RenderList(q) <=> \E k \in Entries(q) : Within(Append(q, k), l)
    BY <1>2 DEF RenderList
  <2>3. (\E k \in Entries(q) : Within(Append(q, k), l)) <=> Within(q, l) /\ l # q
    BY WithinEntry
  <2> QED
    BY <1>4, <2>1, <2>2, <2>3
<1>5. CASE data[q] = "map"
  <2>1. NodeOf(q).content = RenderMap(q)
    BY <1>5 DEF NodeOf
  <2>2. l \in RenderMap(q) <=>
           \E k \in Entries(q) : ~Promotes(Append(q, k)) /\ Within(Append(q, k), l)
    BY <1>2 DEF RenderMap
  <2>3. (\E k \in Entries(q) : ~Promotes(Append(q, k)) /\ Within(Append(q, k), l)) <=>
           Within(q, l) /\ l # q /\ ~Promotes(Cut(l, Len(q) + 1))
    <3>1. ASSUME NEW k \in Entries(q), Within(Append(q, k), l)
          PROVE  Within(q, l) /\ l # q /\ Cut(l, Len(q) + 1) = Append(q, k)
      BY <3>1, WithinEntry
    <3>2. ASSUME Within(q, l), l # q
          PROVE  \E k \in Entries(q) : /\ Cut(l, Len(q) + 1) = Append(q, k)
                                       /\ Within(Append(q, k), l)
      BY <3>2, WithinEntry
    <3> QED
      BY <3>1, <3>2
  <2> QED
    BY <1>5, <2>1, <2>2, <2>3
<1> QED
  BY <1>1, <1>3, <1>4, <1>5 DEF Kinds

\* A cut of a leaf is a value of the document, and promotion goes on from one to the next.
LEMMA MadeCuts ==
    ASSUME DataOK, NEW l \in DOMAIN data, NEW i \in 0..Len(l)
    PROVE  /\ Cut(l, i) \in DOMAIN data /\ Len(Cut(l, i)) = i /\ Within(Cut(l, i), l)
           /\ Cut(l, i) \in Made(Root) <=>
                 \A j \in 0..(i - 1) : data[Cut(l, j)] = "map" /\ Promotes(Cut(l, j + 1))
<1>1. l \in Seq(KeyNumbers) /\ Len(l) \in Nat /\ i \in Nat /\ i <= Len(l)
  BY DEF DataOK
<1>2. Cut(l, i) \in Seq(KeyNumbers) /\ Len(Cut(l, i)) = i
  BY <1>1, CutParts
<1>3. Cut(l, i) \in DOMAIN data
  <2>1. CASE i = Len(l)
    BY <1>1, <2>1, CutCut
  <2>2. CASE i # Len(l)
    <3>1. i \in 0..(Len(l) - 1)
      BY <1>1, <2>2
    <3> QED
      BY <3>1 DEF DataOK
  <2> QED
    BY <2>1, <2>2
<1>4. Within(Cut(l, i), l)
  BY <1>1, <1>2 DEF Within
<1>5. \A j \in 0..(i - 1) : /\ Cut(Cut(l, i), j) = Cut(l, j)
                            /\ Cut(Cut(l, i), j + 1) = Cut(l, j + 1)
  <2>1. \A j \in 0..(i - 1) : j \in 0..i /\ j + 1 \in 0..i
    BY <1>1
  <2> QED
    BY <1>1, <2>1, CutCut
<1>6. Within(Root, Cut(l, i)) /\ Len(Root) = 0
  BY <1>3, WithinEntry DEF Root
<1>7. Cut(l, i) \in Made(Root) <=>
         \A j \in 0..(i - 1) : /\ data[Cut(Cut(l, i), j)] = "map"
                               /\ Promotes(Cut(Cut(l, i), j + 1))
  BY <1>2, <1>3, <1>6 DEF Made
<1> QED
  BY <1>2, <1>3, <1>4, <1>5, <1>7

\* A leaf is in the content of the last value on its path that makes a node, and of no other.
LEMMA LeafInOneNode ==
    ASSUME DataOK, NEW l \in Leaves
    PROVE  Cardinality({n \in BuildNode[Root] : l \in n.content}) = 1
<1> DEFINE M == {i \in 0..Len(l) : Cut(l, i) \in Made(Root)}
<1>1. l \in DOMAIN data /\ Entries(l) = {} /\ (l = Root => data[l] = "scalar")
  BY DEF Leaves
<1>2. l \in Seq(KeyNumbers) /\ Len(l) \in Nat /\ Cut(l, Len(l)) = l /\ Cut(l, 0) = Root
  <2>1. l \in Seq(KeyNumbers)
    BY <1>1 DEF DataOK
  <2> QED
    BY <2>1, CutCut DEF Root
<1>3. 0 \in M
  <2>1. 0 \in 0..Len(l) /\ 0..(0 - 1) = {}
    BY <1>2
  <2>2. Cut(l, 0) \in Made(Root)
    BY <1>1, <2>1, MadeCuts
  <2> QED
    BY <2>1, <2>2
<1>4. PICK m \in M : \A t \in M : t <= m
  <2>1. M \subseteq 0..Len(l)
    OBVIOUS
  <2> HIDE DEF M
  <2> QED
    BY <1>2, <1>3, <2>1, LastPosition
<1>5. m \in 0..Len(l) /\ m \in Nat
  BY <1>2
<1> DEFINE o == Cut(l, m)
<1>6. /\ o \in DOMAIN data /\ o \in Made(Root) /\ Len(o) = m /\ Within(o, l)
      /\ \A j \in 0..(m - 1) : data[Cut(l, j)] = "map" /\ Promotes(Cut(l, j + 1))
  BY <1>1, <1>5, MadeCuts
<1>7. l \in NodeOf(o).content
  <2>1. CASE m = Len(l)
    <3>1. o = l
      BY <1>2, <2>1
    <3>2. l = Root
      <4> SUFFICES ASSUME l # Root PROVE FALSE
        OBVIOUS
      <4>1. m # 0
        BY <1>2, <2>1
      <4>2. m - 1 \in 0..(m - 1) /\ (m - 1) + 1 = m
        BY <1>5, <4>1
      <4>3. Promotes(l)
        BY <1>6, <3>1, <4>2
      <4>4. Cardinality(Entries(l)) = 0
        BY <1>1, FS_EmptySet
      <4> QED
        BY <4>3, <4>4, SplitAssumption DEF Promotes
    <3> QED
      BY <1>1, <1>6, <3>1, <3>2, ContentOf
  <2>2. CASE m # Len(l)
    <3>1. m \in 0..(Len(l) - 1) /\ m + 1 \in 0..Len(l)
      BY <1>2, <1>5, <2>2
    <3>2. data[o] # "scalar"
      BY <1>1, <3>1 DEF DataOK
    <3>3. o # l
      BY <1>2, <1>6, <2>2
    <3>4. data[o] = "map" => ~Promotes(Cut(l, m + 1))
      <4> SUFFICES ASSUME data[o] = "map", Promotes(Cut(l, m + 1)) PROVE FALSE
        OBVIOUS
      <4>1. \A j \in 0..((m + 1) - 1) : j = m \/ j \in 0..(m - 1)
        BY <1>5
      <4>2. \A j \in 0..((m + 1) - 1) : data[Cut(l, j)] = "map" /\ Promotes(Cut(l, j + 1))
        BY <1>6, <4>1
      <4>3. Cut(l, m + 1) \in Made(Root)
        BY <1>1, <3>1, <4>2, MadeCuts
      <4>4. m + 1 <= m
        BY <1>4, <3>1, <4>3
      <4> QED
        BY <1>5, <4>4
    <3> HIDE DEF o
    <3> QED
      BY <1>1, <1>6, <3>2, <3>3, <3>4, ContentOf
  <2> QED
    BY <2>1, <2>2
<1>8. ASSUME NEW q \in Made(Root), l \in NodeOf(q).content
      PROVE  q = o
  <2>1. q \in DOMAIN data /\ q \in Seq(KeyNumbers) /\ Len(q) \in Nat
    BY DEF Made, DataOK
  <2>2. Within(q, l) /\ (data[q] = "map" => ~Promotes(Cut(l, Len(q) + 1)))
    <3>1. Within(q, q)
      BY <2>1, WithinEntry
    <3> QED
      BY <1>1, <1>8, <2>1, <3>1, ContentOf
  <2>3. Len(q) <= Len(l) /\ Cut(l, Len(q)) = q
    BY <2>2 DEF Within
  <2>4. Len(q) \in 0..Len(l)
    BY <1>2, <2>1, <2>3
  <2>5. Len(q) <= m
    BY <1>4, <1>8, <2>3, <2>4
  <2>6. ~(Len(q) < m)
    <3> SUFFICES ASSUME Len(q) < m PROVE FALSE
      OBVIOUS
    <3>1. Len(q) \in 0..(m - 1)
      BY <1>5, <2>1
    <3>2. data[q] = "map" /\ Promotes(Cut(l, Len(q) + 1))
      BY <1>6, <2>3, <3>1
    <3> QED
      BY <2>2, <3>2
  <2>7. Len(q) = m
    BY <1>5, <2>1, <2>5, <2>6
  <2> QED
    BY <2>3, <2>7
<1> HIDE DEF o
<1>9. {n \in BuildNode[Root] : l \in n.content} = {NodeOf(o)}
  <2>1. BuildNode[Root] = {NodeOf(q) : q \in Made(Root)}
    BY BuildNodeNodes DEF NodesOf
  <2> QED
    BY <1>6, <1>7, <1>8, <2>1
<1> QED
  BY <1>9, FS_Singleton

\* buildNode, buildMap and buildList: for documents of any shape and size and any
\* threshold of promotion, each value is shown by exactly one node.
THEOREM LeavesAreInOneNode == SplitSpec => []EveryLeafInOneNode
<1>1. DataOK => EveryLeafInOneNode
  BY LeafInOneNode DEF EveryLeafInOneNode
<1> QED
  BY <1>1, InitData, NextData, PTL DEF SplitSpec

-----------------------------------------------------------------------------
(* TempFile: paths.                                                        *)

Segment == STRING \cup {"*"}
Paths == Seq(Segment)

\* Paths are sequences of strings.
LEMMA PathsOfStrings == Seq(STRING) \subseteq Paths
<1>1. ASSUME NEW p \in Seq(STRING) PROVE p \in Seq(Segment)
  <2>1. p \in [1..Len(p) -> STRING] /\ Len(p) \in Nat
    OBVIOUS
  <2>2. p \in [1..Len(p) -> Segment]
    BY <2>1 DEF Segment
  <2> QED
    BY <2>1, <2>2
<1> QED
  BY <1>1 DEF Paths

\* A path is a prefix of another if the other goes on from it.
LEMMA PrefixIsPart ==
    ASSUME NEW S, NEW a \in Seq(S), NEW b \in Seq(S)
    PROVE  /\ \A c \in Seq(S) : b = a \o c => IsPrefix(a, b)
           /\ IsPrefix(a, b) => \E c \in Seq(S) : b = a \o c
           /\ IsPrefix(a, b) <=> Len(a) <= Len(b) /\ Cut(b, Len(a)) = a
<1>1. Cut(a, Len(a)) = a /\ Len(a) \in Nat /\ Len(b) \in Nat
  BY CutCut
<1>2. IsPrefix(a, b) <=> Len(a) <= Len(b) /\ Cut(b, Len(a)) = a
  BY <1>1 DEF IsPrefix, Cut
<1>3. ASSUME NEW c \in Seq(S), b = a \o c PROVE IsPrefix(a, b)
  <2>1. Len(b) = Len(a) + Len(c) /\ Len(c) \in Nat /\ \A i \in 1..Len(a) : b[i] = a[i]
    BY <1>3, ConcatProperties
  <2>2. Len(a) \in 0..Len(b)
    BY <1>1, <2>1
  <2>3. /\ Cut(b, Len(a)) \in Seq(S) /\ Len(Cut(b, Len(a))) = Len(a)
        /\ \A i \in 1..Len(a) : Cut(b, Len(a))[i] = b[i]
    BY <2>2, CutParts
  <2>4. Cut(b, Len(a)) = a
    BY <2>1, <2>3, SeqEqual
  <2> QED
    BY <1>1, <1>2, <2>1, <2>4
<1>4. ASSUME IsPrefix(a, b) PROVE \E c \in Seq(S) : b = a \o c
  <2> DEFINE c == SubSeq(b, Len(a) + 1, Len(b))
  <2>1. Len(a) <= Len(b) /\ SubSeq(b, 1, Len(a)) = a
    BY <1>2, <1>4 DEF Cut
  <2>2. 1 \in 1..(Len(b) + 1) /\ Len(a) \in (1 - 1)..Len(b) /\ Len(b) \in Len(a)..Len(b)
    BY <1>1, <2>1
  <2>3. SubSeq(b, 1, Len(a)) \o c = SubSeq(b, 1, Len(b))
    BY <2>2, ConcatAdjacentSubSeq
  <2>4. SubSeq(b, 1, Len(b)) = b
    BY SubSeqFull
  <2>5. c \in Seq(S)
    <3>1. \A i \in (Len(a) + 1)..Len(b) : b[i] \in S
      BY <1>1
    <3> QED
      BY <1>1, <3>1, SubSeqProperties
  <2> QED
    BY <2>1, <2>3, <2>4, <2>5
<1> QED
  BY <1>2, <1>3, <1>4

\* The prefixes of a path are in order.
LEMMA PrefixOrder ==
    ASSUME NEW S, NEW a \in Seq(S), NEW b \in Seq(S), NEW c \in Seq(S)
    PROVE  /\ IsPrefix(a, a) /\ IsPrefix(<< >>, a)
           /\ IsPrefix(a, b) /\ IsPrefix(b, c) => IsPrefix(a, c)
           /\ IsPrefix(a, b) /\ IsPrefix(b, a) => a = b
           /\ IsPrefix(a, c) /\ IsPrefix(b, c) => IsPrefix(a, b) \/ IsPrefix(b, a)
<1>1. /\ Cut(a, Len(a)) = a /\ Cut(b, Len(b)) = b
      /\ Len(a) \in Nat /\ Len(b) \in Nat /\ Len(c) \in Nat /\ Len(<< >>) = 0 /\ << >> \in Seq(S)
      /\ Cut(a, 0) = << >>
  BY CutCut
<1>2. IsPrefix(a, a) /\ IsPrefix(<< >>, a)
  BY <1>1, PrefixIsPart
<1>3. ASSUME IsPrefix(a, b), IsPrefix(b, c) PROVE IsPrefix(a, c)
  <2>1. Len(a) <= Len(b) /\ Cut(b, Len(a)) = a /\ Len(b) <= Len(c) /\ Cut(c, Len(b)) = b
    BY <1>3, PrefixIsPart
  <2>2. Len(b) \in 0..Len(c) /\ Len(a) \in 0..Len(b) /\ Len(a) <= Len(c)
    BY <1>1, <2>1
  <2>3. Cut(Cut(c, Len(b)), Len(a)) = Cut(c, Len(a))
    BY <2>2, CutCut
  <2> QED
    BY <2>1, <2>2, <2>3, PrefixIsPart
<1>4. ASSUME IsPrefix(a, b), IsPrefix(b, a) PROVE a = b
  <2>1. Len(a) <= Len(b) /\ Cut(b, Len(a)) = a /\ Len(b) <= Len(a)
    BY <1>4, PrefixIsPart
  <2>2. Len(a) = Len(b)
    BY <1>1, <2>1
  <2> QED
    BY <1>1, <2>1, <2>2
<1>5. ASSUME IsPrefix(a, c), IsPrefix(b, c), Len(a) <= Len(b) PROVE IsPrefix(a, b)
  <2>1. Cut(c, Len(a)) = a /\ Len(b) <= Len(c) /\ Cut(c, Len(b)) = b
    BY <1>5, PrefixIsPart
  <2>2. Len(b) \in 0..Len(c) /\ Len(a) \in 0..Len(b)
    BY <1>1, <1>5, <2>1
  <2>3. Cut(Cut(c, Len(b)), Len(a)) = Cut(c, Len(a))
    BY <2>2, CutCut
  <2> QED
    BY <1>5, <2>1, <2>3, PrefixIsPart
<1>6. ASSUME IsPrefix(a, c), IsPrefix(b, c), Len(b) <= Len(a) PROVE IsPrefix(b, a)
  <2>1. Cut(c, Len(b)) = b /\ Len(a) <= Len(c) /\ Cut(c, Len(a)) = a
    BY <1>6, PrefixIsPart
  <2>2. Len(a) \in 0..Len(c) /\ Len(b) \in 0..Len(a)
    BY <1>1, <1>6, <2>1
  <2>3. Cut(Cut(c, Len(a)), Len(b)) = Cut(c, Len(b))
    BY <2>2, CutCut
  <2> QED
    BY <1>6, <2>1, <2>3, PrefixIsPart
<1>7. Len(a) <= Len(b) \/ Len(b) <= Len(a)
  BY <1>1
<1> QED
  BY <1>2, <1>3, <1>4, <1>5, <1>6, <1>7

\* What goes on from a path.
LEMMA PrefixConcat ==
    ASSUME NEW S, NEW x \in Seq(S), NEW a \in Seq(S), NEW b \in Seq(S)
    PROVE  /\ x \o a \in Seq(S)
           /\ IsPrefix(x, x \o a)
           /\ x \o a = x \o b => a = b
           /\ IsPrefix(x \o a, x \o b) <=> IsPrefix(a, b)
           /\ (x \o a) \o b = x \o (a \o b)
           /\ x \o << >> = x /\ << >> \o x = x
           /\ SubSeq(x \o a, Len(x) + 1, Len(x \o a)) = a
<1>1. x \o a \in Seq(S) /\ x \o b \in Seq(S)
  BY ConcatProperties
<1>2. IsPrefix(x, x \o a)
  BY <1>1, PrefixIsPart
<1>3. x \o a = x \o b => a = b
  BY ConcatSimplifications
<1>4. (x \o a) \o b = x \o (a \o b)
  BY ConcatAssociative
<1>5. x \o << >> = x /\ << >> \o x = x
  BY ConcatEmptySeq
<1>6. ASSUME IsPrefix(a, b) PROVE IsPrefix(x \o a, x \o b)
  <2>1. PICK c \in Seq(S) : b = a \o c
    BY <1>6, PrefixIsPart
  <2>2. x \o b = (x \o a) \o c
    BY <2>1, ConcatAssociative
  <2> QED
    BY <1>1, <2>2, PrefixIsPart
<1>7. ASSUME IsPrefix(x \o a, x \o b) PROVE IsPrefix(a, b)
  <2>1. PICK c \in Seq(S) : x \o b = (x \o a) \o c
    <3> DEFINE y == x \o a
               z == x \o b
    <3>1. y \in Seq(S) /\ z \in Seq(S) /\ IsPrefix(y, z)
      BY <1>1, <1>7
    <3> HIDE DEF y, z
    <3>2. \E c \in Seq(S) : z = y \o c
      BY <3>1, PrefixIsPart
    <3> QED
      BY <3>2 DEF y, z
  <2>2. (x \o a) \o c = x \o (a \o c) /\ a \o c \in Seq(S)
    BY ConcatAssociative, ConcatProperties
  <2>3. b = a \o c
    BY <2>1, <2>2, ConcatSimplifications
  <2> QED
    BY <2>3, PrefixIsPart
<1>8. SubSeq(x \o a, Len(x) + 1, Len(x \o a)) = a
  <2> DEFINE s == x \o a
             t == SubSeq(s, Len(x) + 1, Len(s))
  <2>1. /\ Len(s) = Len(x) + Len(a) /\ Len(x) \in Nat /\ Len(a) \in Nat
        /\ \A i \in 1..(Len(x) + Len(a)) : s[i] = IF i <= Len(x) THEN x[i] ELSE a[i - Len(x)]
    <3>1. Len(x) \in Nat /\ Len(a) \in Nat
      OBVIOUS
    <3>2. /\ Len(x \o a) = Len(x) + Len(a)
          /\ \A i \in 1..(Len(x) + Len(a)) :
                (x \o a)[i] = IF i <= Len(x) THEN x[i] ELSE a[i - Len(x)]
      BY ConcatProperties, Zenon
    <3> QED
      BY <3>1, <3>2, Zenon
  <2>2. s \in Seq(S)
    BY <1>1
  <2> HIDE DEF s
  <2>3. \A i \in (Len(x) + 1)..Len(s) : s[i] \in S
    BY <2>1, <2>2
  <2>4. /\ t \in Seq(S)
        /\ Len(t) = IF Len(x) + 1 <= Len(s) THEN Len(s) - (Len(x) + 1) + 1 ELSE 0
        /\ \A i \in 1..(Len(s) - (Len(x) + 1) + 1) : t[i] = s[Len(x) + 1 + i - 1]
    BY <2>1, <2>3, SubSeqProperties
  <2> HIDE DEF t
  <2>5. Len(t) = Len(a) /\ Len(s) - (Len(x) + 1) + 1 = Len(a)
    BY <2>1, <2>4
  <2>6. ASSUME NEW i \in 1..Len(a) PROVE t[i] = a[i]
    <3>1. /\ Len(x) + 1 + i - 1 = Len(x) + i
          /\ Len(x) + i \in 1..(Len(x) + Len(a)) /\ ~(Len(x) + i <= Len(x))
          /\ (Len(x) + i) - Len(x) = i
      BY <2>1
    <3>2. t[i] = s[Len(x) + i]
      BY <2>4, <2>5, <3>1
    <3> QED
      BY <2>1, <3>1, <3>2
  <2>7. t = a
    BY <2>4, <2>5, <2>6, SeqEqual
  <2> QED
    BY <2>7 DEF t, s
<1> QED
  BY <1>1, <1>2, <1>3, <1>4, <1>5, <1>6, <1>7, <1>8

\* The same of paths.
LEMMA PathOrder ==
    ASSUME NEW a \in Paths, NEW b \in Paths, NEW c \in Paths
    PROVE  /\ << >> \in Paths /\ IsPrefix(a, a) /\ IsPrefix(<< >>, a)
           /\ IsPrefix(a, b) /\ IsPrefix(b, c) => IsPrefix(a, c)
           /\ IsPrefix(a, b) /\ IsPrefix(b, a) => a = b
           /\ IsPrefix(a, c) /\ IsPrefix(b, c) => IsPrefix(a, b) \/ IsPrefix(b, a)
<1>1. << >> \in Paths
  BY DEF Paths
<1> QED
  BY <1>1, PrefixOrder, Zenon DEF Paths

\* Paths that go on.
LEMMA PathConcat ==
    ASSUME NEW x \in Paths, NEW a \in Paths
    PROVE  /\ x \o a \in Paths
           /\ IsPrefix(x, x \o a)
           /\ x \o << >> = x /\ << >> \o x = x
           /\ SubSeq(x \o a, Len(x) + 1, Len(x \o a)) = a
           /\ IsPrefix(x, a) => \E c \in Paths : a = x \o c
<1>1. x \in Seq(Segment) /\ a \in Seq(Segment)
  BY DEF Paths
<1>2. IsPrefix(x, a) => \E c \in Seq(Segment) : a = x \o c
  BY <1>1, PrefixIsPart
<1>3. /\ x \o a \in Seq(Segment)
      /\ IsPrefix(x, x \o a)
      /\ x \o << >> = x /\ << >> \o x = x
      /\ SubSeq(x \o a, Len(x) + 1, Len(x \o a)) = a
  BY <1>1, PrefixConcat
<1> QED
  BY <1>2, <1>3, Zenon DEF Paths

\* A common beginning can be dropped.
LEMMA PathCancel ==
    ASSUME NEW x \in Paths, NEW a \in Paths, NEW b \in Paths
    PROVE  /\ a # b => x \o a # x \o b
           /\ IsPrefix(x \o a, x \o b) <=> IsPrefix(a, b)
           /\ IsStrictPrefix(x \o a, x \o b) <=> IsStrictPrefix(a, b)
           /\ (x \o a) \o b = x \o (a \o b)
<1>1. x \in Seq(Segment) /\ a \in Seq(Segment) /\ b \in Seq(Segment)
  BY DEF Paths
<1>2. x \o a = x \o b => a = b
  BY <1>1, ConcatSimplifications
<1>3. IsPrefix(x \o a, x \o b) <=> IsPrefix(a, b)
  BY <1>1, PrefixConcat
<1>4. (x \o a) \o b = x \o (a \o b)
  BY <1>1, PrefixConcat
<1> QED
  BY <1>2, <1>3, <1>4, Zenon DEF IsStrictPrefix

-----------------------------------------------------------------------------
(* Keys and the paths they are about.                                      *)

\* A key has segments.
LEMMA SegmentsParts ==
    ASSUME NEW key \in Keys
    PROVE  Segments(key) \in Paths \ {<< >>}
<1> DEFINE bare == IF Len(key) > 1 /\ Head(key) = "." THEN Tail(key) ELSE key
<1>1. key \in Seq(Segment) /\ key # << >> /\ Len(key) \in Nat \ {0}
  BY TempFileAssumption, PathsOfStrings DEF Paths
<1>2. bare \in Seq(Segment) /\ Len(bare) \in Nat \ {0}
  <2>1. Len(key) > 1 => Tail(key) \in Seq(Segment) /\ Len(Tail(key)) \in Nat \ {0}
    BY <1>1, HeadTailProperties
  <2>2. (bare = key) \/ (Len(key) > 1 /\ bare = Tail(key))
    BY Zenon
  <2> QED
    BY <1>1, <2>1, <2>2, Zenon
<1> HIDE DEF bare
<1>3. CASE Len(bare) > 1 /\ Last(bare) = ""
  <2>1. Segments(key) = SubSeq(bare, 1, Len(bare) - 1)
    BY <1>3 DEF Segments, Front, bare
  <2>2. Len(bare) - 1 \in 0..Len(bare) /\ Len(bare) - 1 # 0
    <3>1. Len(bare) > 1
      BY <1>3, Zenon
    <3>2. \A n \in Nat : n > 1 => n - 1 \in 0..n /\ n - 1 # 0
      OBVIOUS
    <3> QED
      BY <1>2, <3>1, <3>2, Zenon
  <2>3. Cut(bare, Len(bare) - 1) \in Seq(Segment) /\ Len(Cut(bare, Len(bare) - 1)) = Len(bare) - 1
    BY <1>2, <2>2, CutParts
  <2> QED
    <3>1. Segments(key) = Cut(bare, Len(bare) - 1)
      BY <2>1 DEF Cut
    <3> QED
      BY <2>2, <2>3, <3>1 DEF Paths
<1>4. CASE ~(Len(bare) > 1 /\ Last(bare) = "")
  <2>1. Segments(key) = bare
    BY <1>4 DEF Segments, bare
  <2> QED
    BY <1>2, <2>1 DEF Paths
<1> QED
  BY <1>3, <1>4

\* The path a value is about goes on from the path its object is about.
LEMMA LocatedParts ==
    ASSUME NEW at \in Seq(Keys), NEW k \in Keys
    PROVE  /\ Located(<< >>) = << >>
           /\ Located(at) \in Paths
           /\ Located(Append(at, k)) = Located(at) \o Segments(k)
<1> DEFINE parts == [i \in DOMAIN at |-> Segments(at[i])]
           u == Append(at, k)
           more == [i \in DOMAIN u |-> Segments(u[i])]
<1>1. /\ DOMAIN at = 1..Len(at) /\ Len(at) \in Nat /\ \A i \in 1..Len(at) : at[i] \in Keys
      /\ u \in Seq(Keys) /\ Len(u) = Len(at) + 1 /\ DOMAIN u = 1..(Len(at) + 1)
      /\ u[Len(at) + 1] = k /\ \A i \in 1..Len(at) : u[i] = at[i]
  OBVIOUS
<1> HIDE DEF u
<1>2. \A key \in Keys : Segments(key) \in Paths
  BY SegmentsParts
<1>3. parts \in Seq(Paths) /\ Len(parts) = Len(at)
  BY <1>1, <1>2
<1>4. more \in Seq(Paths) /\ Len(more) = Len(at) + 1
  <2>1. \A i \in 1..(Len(at) + 1) : u[i] \in Keys
    BY <1>1
  <2> QED
    BY <1>1, <1>2, <2>1
<1>5. /\ \A i \in 1..Len(at) : parts[i] = Segments(at[i])
      /\ \A i \in 1..(Len(at) + 1) : more[i] = Segments(u[i])
  BY <1>1
<1> HIDE DEF parts, more
<1>6. more = Append(parts, Segments(k))
  <2> DEFINE other == Append(parts, Segments(k))
  <2>1. /\ other \in Seq(Paths) /\ Len(other) = Len(at) + 1
        /\ other[Len(at) + 1] = Segments(k)
        /\ \A i \in 1..Len(at) : other[i] = parts[i]
    BY <1>2, <1>3
  <2> HIDE DEF other
  <2>2. \A i \in 1..(Len(at) + 1) : i = Len(at) + 1 \/ i \in 1..Len(at)
    BY <1>1
  <2>3. \A i \in 1..(Len(at) + 1) : more[i] = other[i]
    BY <1>1, <1>5, <2>1, <2>2
  <2>4. more = other
    BY <1>4, <2>1, <2>3, SeqEqual
  <2> QED
    BY <2>4 DEF other
<1>7. Located(at) = FlattenSeq(parts) /\ Located(u) = FlattenSeq(more)
  BY DEF Located, parts, more
<1>8. Located(<< >>) = << >>
  <2>1. [i \in DOMAIN << >> |-> Segments(<< >>[i])] = << >>
    OBVIOUS
  <2>2. FlattenSeq(<< >>) = << >>
    BY DEF FlattenSeq
  <2> QED
    BY <2>1, <2>2 DEF Located
<1> QED
  BY <1>2, <1>3, <1>6, <1>7, <1>8, FlattenGrows DEF u, Paths

-----------------------------------------------------------------------------
(* Documents.                                                              *)

\* What holds of every document: only objects have keys, and nesting ends.
RawOK ==
    /\ DOMAIN raw \subseteq Seq(Keys)
    /\ raw \in [DOMAIN raw -> Temps \cup {Object, Unusable}]
    /\ << >> \in DOMAIN raw /\ raw[<< >>] = Object
    /\ \A v \in DOMAIN raw : \A i \in 0..(Len(v) - 1) :
          Cut(v, i) \in DOMAIN raw /\ raw[Cut(v, i)] = Object
    /\ IsFiniteSet(DOMAIN raw)
    /\ \E b \in Nat : \A v \in DOMAIN raw : Len(v) <= b

\* The empty document is one.
LEMMA InitRaw == TempFileInit => RawOK
<1> SUFFICES ASSUME TempFileInit PROVE RawOK
  OBVIOUS
<1>1. DOMAIN raw = {<< >>} /\ raw[<< >>] = Object /\ raw \in [DOMAIN raw -> Temps \cup {Object, Unusable}]
  BY DEF TempFileInit
<1>2. << >> \in Seq(Keys) /\ Len(<< >>) = 0 /\ 0..(0 - 1) = {} /\ 0 \in Nat
  OBVIOUS
<1>3. IsFiniteSet({<< >>})
  BY FS_Singleton
<1> QED
  BY <1>1, <1>2, <1>3 DEF RawOK

\* A document with one more key is one.
LEMMA NextRaw == RawOK /\ [TempFileNext]_raw => RawOK'
<1> SUFFICES ASSUME RawOK, [TempFileNext]_raw PROVE RawOK'
  OBVIOUS
<1>1. CASE UNCHANGED raw
  BY <1>1 DEF RawOK
<1>2. ASSUME NEW at \in DOMAIN raw, NEW key \in Keys,
             NEW value \in Temps \cup {Object, Unusable}, AddKey(at, key, value)
      PROVE  RawOK'
  <2> DEFINE new == Append(at, key)
  <2>1. at \in Seq(Keys)
    BY DEF RawOK
  <2>2. /\ new \in Seq(Keys) /\ Len(new) = Len(at) + 1 /\ Len(at) \in Nat
        /\ \A i \in 0..Len(at) : Cut(new, i) = Cut(at, i)
    BY <2>1, AppendParts
  <2>3. raw' = [u \in DOMAIN raw \cup {new} |-> IF u = new THEN value ELSE raw[u]]
    BY <1>2 DEF AddKey
  <2>4. new \notin DOMAIN raw /\ raw[at] = Object
    BY <1>2 DEF AddKey
  <2> HIDE DEF new
  <2>5. /\ DOMAIN raw' = DOMAIN raw \cup {new}
        /\ \A u \in DOMAIN raw : raw'[u] = raw[u]
        /\ raw'[new] = value
    BY <2>3, <2>4
  <2>6. /\ DOMAIN raw' \subseteq Seq(Keys)
        /\ << >> \in DOMAIN raw' /\ raw'[<< >>] = Object
    BY <2>2, <2>5 DEF RawOK
  <2>7. raw' \in [DOMAIN raw' -> Temps \cup {Object, Unusable}]
    <3>1. \A u \in DOMAIN raw \cup {new} :
             (IF u = new THEN value ELSE raw[u]) \in Temps \cup {Object, Unusable}
      BY DEF RawOK
    <3> QED
      BY <2>3, <3>1
  <2>8. ASSUME NEW v \in DOMAIN raw', NEW i \in 0..(Len(v) - 1)
        PROVE  Cut(v, i) \in DOMAIN raw' /\ raw'[Cut(v, i)] = Object
    <3>1. CASE v \in DOMAIN raw
      BY <2>5, <3>1 DEF RawOK
    <3>2. CASE v = new
      <4>1. i \in 0..Len(at) /\ Cut(v, i) = Cut(at, i)
        BY <2>2, <3>2
      <4>2. CASE i = Len(at)
        BY <2>1, <2>4, <2>5, <4>1, <4>2, CutCut
      <4>3. CASE i # Len(at)
        <5>1. i \in 0..(Len(at) - 1)
          BY <2>2, <4>1, <4>3
        <5> QED
          BY <2>5, <4>1, <5>1 DEF RawOK
      <4> QED
        BY <4>2, <4>3
    <3> QED
      BY <2>5, <3>1, <3>2
  <2>9. IsFiniteSet(DOMAIN raw')
    BY <2>5, FS_AddElement DEF RawOK
  <2>10. \E b \in Nat : \A v \in DOMAIN raw' : Len(v) <= b
    <3>1. PICK b \in Nat : \A v \in DOMAIN raw : Len(v) <= b
      BY DEF RawOK
    <3>2. b + 1 \in Nat /\ Len(new) <= b + 1
      BY <2>2, <3>1
    <3>3. \A v \in DOMAIN raw : Len(v) <= b + 1
      <4>1. \A v \in DOMAIN raw : Len(v) \in Nat
        BY DEF RawOK
      <4> QED
        BY <3>1, <4>1
    <3> QED
      BY <2>5, <3>2, <3>3
  <2> QED
    BY <2>6, <2>7, <2>8, <2>9, <2>10 DEF RawOK
<1> QED
  BY <1>1, <1>2 DEF TempFileNext

\* Induction over a document: what holds of a value when it holds of the values of its
\* keys holds of every value.
LEMMA RawSet ==
    ASSUME RawOK, NEW G,
           \A at \in DOMAIN raw : (\A k \in KeysOf(at) : Append(at, k) \in G) => at \in G
    PROVE  DOMAIN raw \subseteq G
<1>1. PICK b \in Nat : \A v \in DOMAIN raw : Len(v) <= b
  BY DEF RawOK
<1> DEFINE S == {n \in Nat : \A at \in DOMAIN raw : Len(at) + n >= b + 1 => at \in G}
<1>2. ASSUME NEW at \in DOMAIN raw
      PROVE  /\ Len(at) \in Nat
             /\ \A k \in KeysOf(at) : /\ Append(at, k) \in DOMAIN raw
                                      /\ Len(Append(at, k)) = Len(at) + 1
  <2>1. at \in Seq(Keys)
    BY DEF RawOK
  <2>2. \A k \in KeysOf(at) : k \in Keys /\ Append(at, k) \in DOMAIN raw
    BY DEF KeysOf
  <2> QED
    BY <2>1, <2>2, AppendParts
<1>3. 0 \in S
  <2>1. \A at \in DOMAIN raw : ~(Len(at) + 0 >= b + 1)
    BY <1>1, <1>2
  <2> QED
    BY <2>1
<1>4. ASSUME NEW n \in Nat, n \in S PROVE n + 1 \in S
  <2> SUFFICES ASSUME NEW at \in DOMAIN raw, Len(at) + (n + 1) >= b + 1 PROVE at \in G
    OBVIOUS
  <2>1. ASSUME NEW k \in KeysOf(at) PROVE Append(at, k) \in G
    <3>1. Append(at, k) \in DOMAIN raw /\ Len(Append(at, k)) + n >= b + 1
      BY <1>1, <1>2
    <3> QED
      BY <1>4, <3>1
  <2> QED
    BY <2>1
<1>5. Nat \subseteq S
  <2> HIDE DEF S
  <2> QED
    BY <1>3, <1>4, NatSet
<1>6. b + 1 \in S
  <2> HIDE DEF S
  <2> QED
    BY <1>1, <1>5
<1>7. ASSUME NEW at \in DOMAIN raw PROVE at \in G
  <2>1. Len(at) + (b + 1) >= b + 1
    BY <1>1, <1>2
  <2> QED
    BY <1>6, <2>1
<1> QED
  BY <1>7

\* An object has finitely many keys.
LEMMA KeysFinite ==
    ASSUME RawOK, NEW at \in DOMAIN raw
    PROVE  IsFiniteSet(KeysOf(at))
<1> DEFINE f == [k \in KeysOf(at) |-> Append(at, k)]
<1>1. at \in Seq(Keys) /\ \A k \in KeysOf(at) : k \in Keys /\ Append(at, k) \in DOMAIN raw
  BY DEF RawOK, KeysOf
<1>2. f \in [KeysOf(at) -> DOMAIN raw]
  BY <1>1
<1>3. \A j, k \in KeysOf(at) : Append(at, j) = Append(at, k) => j = k
  BY <1>1, AppendInjective
<1>4. \A j, k \in KeysOf(at) : f[j] = f[k] => j = k
  BY <1>3
<1>5. f \in Injection(KeysOf(at), DOMAIN raw)
  BY <1>2, <1>4 DEF Injection, IsInjective
<1> HIDE DEF f
<1> QED
  BY <1>5, FS_Injection DEF RawOK

\* The values of some keys of the object at "at", and all that is in them.
Held(at, keys) ==
    {v \in DOMAIN raw : Len(at) < Len(v) /\ Cut(v, Len(at)) = at /\ v[Len(at) + 1] \in keys}
HeldBy(at) == Held(at, KeysOf(at))

\* A key holds its value and what that holds.
LEMMA HeldStep ==
    ASSUME RawOK, NEW at \in DOMAIN raw, NEW done \in SUBSET KeysOf(at), NEW k \in done
    PROVE  LET u == Append(at, k)
           IN  /\ u \in DOMAIN raw /\ k \in Keys
               /\ Held(at, done) = Held(at, done \ {k}) \cup (HeldBy(u) \cup {u})
               /\ Held(at, done \ {k}) \cap (HeldBy(u) \cup {u}) = {}
<1> DEFINE u == Append(at, k)
           n == Len(at)
<1>1. at \in Seq(Keys) /\ k \in Keys /\ u \in DOMAIN raw /\ n \in Nat
  BY DEF RawOK, KeysOf
<1>2. /\ u \in Seq(Keys) /\ Len(u) = n + 1 /\ u[n + 1] = k /\ Cut(u, n) = at
  <2>1. Cut(at, n) = at /\ n \in 0..n
    BY <1>1, CutCut
  <2> QED
    BY <1>1, <2>1, AppendParts
<1> HIDE DEF u, n
<1>3. ASSUME NEW v \in Held(at, done), v[n + 1] = k PROVE v \in HeldBy(u) \cup {u}
  <2>1. v \in DOMAIN raw /\ n < Len(v) /\ Cut(v, n) = at
    BY DEF Held, n
  <2>2. v \in Seq(Keys) /\ Len(v) \in Nat
    BY <2>1 DEF RawOK
  <2>3. n \in 0..(Len(v) - 1) /\ n + 1 \in 0..Len(v)
    BY <1>1, <2>1, <2>2
  <2>4. Cut(v, n + 1) = u
    BY <1>3, <2>1, <2>2, <2>3, CutNext DEF u
  <2>5. CASE n + 1 = Len(v)
    <3>1. v = u
      BY <2>2, <2>4, <2>5, CutCut
    <3> QED
      BY <3>1
  <2>6. CASE n + 1 # Len(v)
    <3> DEFINE j == v[(n + 1) + 1]
    <3>1. n + 1 \in 0..(Len(v) - 1) /\ n + 1 < Len(v)
      BY <1>1, <2>2, <2>3, <2>6
    <3>2. j \in Keys /\ Cut(v, (n + 1) + 1) = Append(u, j)
      BY <2>2, <2>4, <3>1, CutNext
    <3>3. Cut(v, (n + 1) + 1) \in DOMAIN raw
      <4>1. CASE (n + 1) + 1 = Len(v)
        BY <2>1, <2>2, <4>1, CutCut
      <4>2. CASE (n + 1) + 1 # Len(v)
        <5>1. (n + 1) + 1 \in 0..(Len(v) - 1)
          BY <1>1, <2>2, <3>1, <4>2
        <5> QED
          BY <2>1, <5>1 DEF RawOK
      <4> QED
        BY <4>1, <4>2
    <3>4. j \in KeysOf(u)
      BY <3>2, <3>3 DEF KeysOf
    <3> HIDE DEF j
    <3>5. v \in HeldBy(u)
      BY <1>2, <2>1, <2>4, <3>1, <3>4 DEF HeldBy, Held, j
    <3> QED
      BY <3>5
  <2> QED
    BY <2>5, <2>6
<1>4. ASSUME NEW v \in HeldBy(u) \cup {u} PROVE v \in Held(at, done) /\ v[n + 1] = k
  <2>1. CASE v = u
    <3>1. n < n + 1
      BY <1>1
    <3> QED
      BY <1>1, <1>2, <2>1, <3>1 DEF Held, n
  <2>2. CASE v \in HeldBy(u)
    <3>1. v \in DOMAIN raw /\ n + 1 < Len(v) /\ Cut(v, n + 1) = u
      BY <1>2, <2>2 DEF HeldBy, Held
    <3>2. v \in Seq(Keys) /\ Len(v) \in Nat
      BY <3>1 DEF RawOK
    <3>3. n + 1 \in 0..Len(v) /\ n \in 0..(n + 1) /\ n + 1 \in 1..(n + 1) /\ n < Len(v)
      BY <1>1, <3>1, <3>2
    <3>4. Cut(Cut(v, n + 1), n) = Cut(v, n) /\ Cut(v, n + 1)[n + 1] = v[n + 1]
      BY <3>2, <3>3, CutCut, CutParts
    <3> QED
      BY <1>2, <3>1, <3>3, <3>4 DEF Held, n
  <2> QED
    BY <2>1, <2>2
<1>5. /\ \A v \in Held(at, done) : v[n + 1] # k => v \in Held(at, done \ {k})
      /\ \A v \in Held(at, done \ {k}) : v \in Held(at, done) /\ v[n + 1] # k
  BY DEF Held, n
<1>6. /\ u \in DOMAIN raw /\ k \in Keys
      /\ Held(at, done) = Held(at, done \ {k}) \cup (HeldBy(u) \cup {u})
      /\ Held(at, done \ {k}) \cap (HeldBy(u) \cup {u}) = {}
  BY <1>1, <1>3, <1>4, <1>5
<1> QED
  BY <1>6 DEF u

\* What an object holds is about paths that go on from the object's.
LEMMA HeldLocated ==
    ASSUME RawOK, NEW at \in DOMAIN raw, NEW keys, NEW v \in Held(at, keys)
    PROVE  /\ v \in DOMAIN raw /\ Located(at) \in Paths /\ Located(v) \in Paths
           /\ IsStrictPrefix(Located(at), Located(v))
<1> DEFINE n == Len(v)
           S == {m \in Nat : m + 1 <= n => IsStrictPrefix(Located(Cut(v, n - (m + 1))), Located(v))}
<1>1. v \in DOMAIN raw /\ v \in Seq(Keys) /\ n \in Nat /\ Len(at) < n /\ Cut(v, Len(at)) = at
  BY DEF Held, RawOK
<1>2. at \in Seq(Keys) /\ Len(at) \in Nat
  BY DEF RawOK
<1>3. \A w \in Seq(Keys) : Located(w) \in Paths
  <2>1. v[1] \in Keys
    BY <1>1, <1>2
  <2> QED
    BY <2>1, LocatedParts
<1>4. ASSUME NEW i \in 0..(n - 1)
      PROVE  /\ Cut(v, i) \in Seq(Keys) /\ Cut(v, i + 1) \in Seq(Keys)
             /\ IsStrictPrefix(Located(Cut(v, i)), Located(Cut(v, i + 1)))
  <2>1. i \in 0..n /\ i + 1 \in 0..n
    BY <1>1
  <2>2. Cut(v, i) \in Seq(Keys) /\ Cut(v, i + 1) \in Seq(Keys)
    BY <1>1, <2>1, CutParts
  <2>3. v[i + 1] \in Keys /\ Cut(v, i + 1) = Append(Cut(v, i), v[i + 1])
    BY <1>1, CutNext
  <2> DEFINE x == Located(Cut(v, i))
             s == Segments(v[i + 1])
  <2>4. Located(Cut(v, i + 1)) = x \o s
    BY <2>2, <2>3, LocatedParts
  <2>5. x \in Paths /\ s \in Paths /\ s # << >>
    BY <1>3, <2>2, <2>3, SegmentsParts
  <2> HIDE DEF x, s
  <2>6. IsPrefix(x, x \o s) /\ x \o s # x
    BY <2>5, PrefixConcat, ConcatEqualIffEmpty DEF Paths
  <2> QED
    BY <2>2, <2>4, <2>6 DEF IsStrictPrefix, x
<1>5. 0 \in S
  <2> SUFFICES ASSUME 0 + 1 <= n PROVE IsStrictPrefix(Located(Cut(v, n - (0 + 1))), Located(v))
    OBVIOUS
  <2>1. n - (0 + 1) \in 0..(n - 1) /\ (n - (0 + 1)) + 1 = n
    BY <1>1
  <2>2. Cut(v, n) = v
    BY <1>1, CutCut
  <2> QED
    BY <1>4, <2>1, <2>2
<1>6. ASSUME NEW m \in Nat, m \in S PROVE m + 1 \in S
  <2> SUFFICES ASSUME (m + 1) + 1 <= n
               PROVE  IsStrictPrefix(Located(Cut(v, n - ((m + 1) + 1))), Located(v))
    OBVIOUS
  <2> DEFINE i == n - ((m + 1) + 1)
  <2>1. i \in 0..(n - 1) /\ i + 1 = n - (m + 1) /\ m + 1 <= n
    BY <1>1
  <2> DEFINE a == Located(Cut(v, i))
             b == Located(Cut(v, i + 1))
             c == Located(v)
  <2>2. IsStrictPrefix(a, b) /\ a \in Paths /\ b \in Paths /\ c \in Paths
    BY <1>1, <1>3, <1>4, <2>1
  <2>3. IsStrictPrefix(b, c)
    BY <1>6, <2>1
  <2> HIDE DEF a, b, c
  <2>4. IsStrictPrefix(a, c)
    <3>1. IsPrefix(a, b) /\ a # b /\ IsPrefix(b, c)
      BY <2>2, <2>3 DEF IsStrictPrefix
    <3>2. IsPrefix(a, c)
      BY <2>2, <3>1, PrefixOrder DEF Paths
    <3>3. a # c
      BY <2>2, <3>1, PrefixOrder DEF Paths
    <3> QED
      BY <3>2, <3>3 DEF IsStrictPrefix
  <2> QED
    BY <2>4 DEF a, c
<1>7. Nat \subseteq S
  <2> HIDE DEF S
  <2> QED
    BY <1>5, <1>6, NatSet
<1>8. n - Len(at) - 1 \in Nat /\ (n - Len(at) - 1) + 1 <= n /\ n - ((n - Len(at) - 1) + 1) = Len(at)
  BY <1>1, <1>2
<1>9. IsStrictPrefix(Located(Cut(v, Len(at))), Located(v))
  BY <1>7, <1>8
<1> QED
  BY <1>1, <1>2, <1>3, <1>9

-----------------------------------------------------------------------------
(* Trees.  The tree of a set of values has an entry for every path that    *)
(* leads to one of them, with the temperature some value gives it.         *)

Hot(V, y) == {v \in V : raw[v] \in Temps /\ Located(v) = y}
AnyOf(S) == CHOOSE v \in S : TRUE
TempAt(V, y) == IF Hot(V, y) = {} THEN NoTemperature ELSE raw[AnyOf(Hot(V, y))]
Reached(x, V) == {p \in Paths : p = << >> \/ \E v \in V : IsPrefix(x \o p, Located(v))}
TreeOf(x, V) == [p \in Reached(x, V) |-> TempAt(V, x \o p)]

Flawed(V) == \E v \in V : raw[v] = Unusable \/ ~ValidKey(Last(v))
Clash(V) ==
    \E v, w \in V :
        /\ v # w /\ raw[v] \in Temps
        /\ \/ IsStrictPrefix(Located(v), Located(w))
           \/ Located(v) = Located(w) /\ raw[w] \in Temps

\* The values V are about paths that go on from x.
AllFrom(x, V) == x \in Paths /\ \A v \in V : Located(v) \in Paths /\ IsPrefix(x, Located(v))

\* Values that do not clash give a path one temperature.
LEMMA HotOne ==
    ASSUME NEW V, NEW y
    PROVE  /\ TempAt(V, y) # NoTemperature <=> Hot(V, y) # {}
           /\ ~Clash(V) => \A v \in Hot(V, y) : TempAt(V, y) = raw[v]
<1> DEFINE c == AnyOf(Hot(V, y))
<1>1. NoTemperature \notin Temps
  BY TempFileAssumption
<1>2. Hot(V, y) # {} => c \in Hot(V, y) /\ TempAt(V, y) = raw[c]
  BY DEF TempAt, AnyOf
<1>3. Hot(V, y) = {} => TempAt(V, y) = NoTemperature
  BY DEF TempAt
<1> HIDE DEF c
<1>4. c \in Hot(V, y) => raw[c] \in Temps
  BY DEF Hot
<1>5. ASSUME ~Clash(V), NEW v \in Hot(V, y) PROVE TempAt(V, y) = raw[v]
  <2>1. c \in Hot(V, y) /\ TempAt(V, y) = raw[c]
    BY <1>2
  <2>2. v = c
    BY <1>5, <2>1 DEF Hot, Clash
  <2> QED
    BY <2>1, <2>2
<1> QED
  BY <1>1, <1>2, <1>3, <1>4, <1>5

\* Entries, temperatures and children of such a tree.
LEMMA TreeParts ==
    ASSUME NEW x, NEW V, AllFrom(x, V)
    PROVE  LET T == TreeOf(x, V)
           IN  /\ DOMAIN T = Reached(x, V) /\ << >> \in DOMAIN T /\ T # Failed
               /\ \A p \in DOMAIN T : T[p] = TempAt(V, x \o p)
               /\ \A p \in DOMAIN T : T[p] # NoTemperature <=> Hot(V, x \o p) # {}
               /\ \A p \in Paths :
                     HasChildren(T, p) <=> \E v \in V : IsStrictPrefix(x \o p, Located(v))
<1> DEFINE T == TreeOf(x, V)
<1>1. DOMAIN T = Reached(x, V) /\ \A p \in DOMAIN T : T[p] = TempAt(V, x \o p)
  BY DEF TreeOf
<1>2. << >> \in DOMAIN T
  BY <1>1 DEF Reached, Paths
<1>3. T # Failed
  <2>1. DOMAIN Failed = {}
    BY DEF Failed
  <2> QED
    BY <1>2, <2>1
<1>4. \A p \in DOMAIN T : T[p] # NoTemperature <=> Hot(V, x \o p) # {}
  BY <1>1, HotOne
<1> HIDE DEF T
<1>5. ASSUME NEW p \in Paths, HasChildren(T, p)
      PROVE  \E v \in V : IsStrictPrefix(x \o p, Located(v))
  <2>1. PICK q \in DOMAIN T : IsPrefix(p, q) /\ p # q
    BY <1>5 DEF HasChildren, IsStrictPrefix
  <2>2. q \in Paths /\ x \in Paths
    BY <1>1, <2>1 DEF Reached, AllFrom
  <2>3. q # << >>
    <3>1. IsPrefix(<< >>, p)
      BY PrefixOrder DEF Paths
    <3>2. << >> \in Paths
      BY DEF Paths
    <3> QED
      BY <2>1, <3>1, <3>2, PrefixOrder DEF Paths
  <2>4. PICK v \in V : IsPrefix(x \o q, Located(v))
    BY <1>1, <2>1, <2>3 DEF Reached
  <2> DEFINE a == x \o p
             b == x \o q
             c == Located(v)
  <2>5. a \in Paths /\ b \in Paths /\ c \in Paths /\ IsPrefix(a, b) /\ a # b
    <3>1. a \in Paths /\ b \in Paths
      BY <2>2, PrefixConcat DEF Paths
    <3>2. IsPrefix(a, b)
      BY <2>1, <2>2, PrefixConcat DEF Paths
    <3>3. a # b
      BY <2>1, <2>2, PathCancel
    <3>4. c \in Paths
      BY DEF AllFrom
    <3> QED
      BY <3>1, <3>2, <3>3, <3>4
  <2>6. IsPrefix(b, c)
    BY <2>4
  <2> HIDE DEF a, b, c
  <2>7. IsPrefix(a, c) /\ a # c
    BY <2>5, <2>6, PrefixOrder DEF Paths
  <2> QED
    BY <2>7 DEF IsStrictPrefix, a, c
<1>6. ASSUME NEW p \in Paths, NEW v \in V, IsStrictPrefix(x \o p, Located(v))
      PROVE  HasChildren(T, p)
  <2>1. x \in Paths /\ Located(v) \in Paths /\ IsPrefix(x, Located(v))
    BY DEF AllFrom
  <2>2. PICK q \in Paths : Located(v) = x \o q
    BY <2>1, PrefixIsPart DEF Paths
  <2>3. IsPrefix(x \o p, x \o q) /\ x \o p # x \o q
    BY <1>6, <2>2 DEF IsStrictPrefix
  <2>4. IsPrefix(p, q) /\ p # q
    BY <2>1, <2>2, <2>3, PrefixConcat DEF Paths
  <2>5. q \in DOMAIN T
    <3>1. IsPrefix(x \o q, Located(v))
      BY <2>1, <2>2, PrefixOrder DEF Paths
    <3> QED
      BY <1>1, <2>2, <3>1 DEF Reached
  <2> QED
    BY <2>4, <2>5 DEF HasChildren, IsStrictPrefix
<1>7. /\ DOMAIN T = Reached(x, V) /\ << >> \in DOMAIN T /\ T # Failed
      /\ \A p \in DOMAIN T : T[p] = TempAt(V, x \o p)
      /\ \A p \in DOMAIN T : T[p] # NoTemperature <=> Hot(V, x \o p) # {}
      /\ \A p \in Paths :
            HasChildren(T, p) <=> \E v \in V : IsStrictPrefix(x \o p, Located(v))
  BY <1>1, <1>2, <1>3, <1>4, <1>5, <1>6
<1> QED
  BY <1>7 DEF T

\* The parts of InsertKey.
Grafted(leaf, path) == {path \o q : q \in DOMAIN leaf}
Beneath(path, p) == SubSeq(p, Len(path) + 1, Len(p))
PrefixesOf(path) == {SubSeq(path, 1, i) : i \in 0..Len(path)}
Conflict(tree, leaf, path) ==
    \/ \E p \in DOMAIN tree \cap (PrefixesOf(path) \ {path}) : tree[p] # NoTemperature
    \/ \E p \in DOMAIN tree \cap Grafted(leaf, path) :
          TempConflict(tree, p, leaf, Beneath(path, p))
Merged(tree, leaf, path) ==
    [p \in DOMAIN tree \cup PrefixesOf(path) \cup Grafted(leaf, path) |->
        IF p \in Grafted(leaf, path) /\ leaf[Beneath(path, p)] # NoTemperature
        THEN leaf[Beneath(path, p)]
        ELSE IF p \in DOMAIN tree THEN tree[p] ELSE NoTemperature]

\* InsertKey by its parts.
LEMMA InsertKeyParts ==
    ASSUME NEW tree, NEW leaf, NEW key
    PROVE  InsertKey(tree, leaf, key) =
              IF \/ tree = Failed \/ leaf = Failed \/ ~ValidKey(key)
                 \/ Conflict(tree, leaf, Segments(key))
              THEN Failed ELSE Merged(tree, leaf, Segments(key))
BY Zenon DEF InsertKey, Conflict, Merged, Grafted, Beneath, PrefixesOf

\* The prefixes of a path, and what is grafted at it.
LEMMA GraftParts ==
    ASSUME NEW path \in Paths, NEW leaf, DOMAIN leaf \subseteq Paths
    PROVE  /\ \A p : p \in PrefixesOf(path) <=> p \in Paths /\ IsPrefix(p, path)
           /\ \A q \in DOMAIN leaf : path \o q \in Grafted(leaf, path)
           /\ \A p \in Grafted(leaf, path) : /\ p \in Paths /\ Beneath(path, p) \in DOMAIN leaf
                                             /\ p = path \o Beneath(path, p)
<1>1. ASSUME NEW p \in PrefixesOf(path) PROVE p \in Paths /\ IsPrefix(p, path)
  <2>1. PICK i \in 0..Len(path) : p = Cut(path, i)
    BY DEF PrefixesOf, Cut
  <2>2. p \in Paths /\ Len(p) = i
    BY <2>1, CutParts DEF Paths
  <2>3. Len(path) \in Nat /\ i <= Len(path)
    BY DEF Paths
  <2> QED
    BY <2>1, <2>2, <2>3, PrefixIsPart DEF Paths
<1>2. ASSUME NEW p \in Paths, IsPrefix(p, path) PROVE p \in PrefixesOf(path)
  <2>1. Len(p) <= Len(path) /\ Cut(path, Len(p)) = p
    BY <1>2, PrefixIsPart DEF Paths
  <2>2. Len(p) \in 0..Len(path)
    BY <2>1 DEF Paths
  <2> QED
    BY <2>1, <2>2 DEF PrefixesOf, Cut
<1>3. ASSUME NEW p \in Grafted(leaf, path)
      PROVE  p \in Paths /\ Beneath(path, p) \in DOMAIN leaf /\ p = path \o Beneath(path, p)
  <2>1. PICK q \in DOMAIN leaf : p = path \o q
    BY DEF Grafted
  <2>2. q \in Paths
    BY <2>1
  <2>3. p \in Paths /\ Beneath(path, p) = q
    BY <2>1, <2>2, PrefixConcat DEF Paths, Beneath
  <2> QED
    BY <2>1, <2>3
<1>4. \A q \in DOMAIN leaf : path \o q \in Grafted(leaf, path)
  BY DEF Grafted
<1> QED
  BY <1>1, <1>2, <1>3, <1>4

\* The tree of the values V2 is grafted at a path of the tree of the values V1; the value
\* u is the one of the key, and V2 is what it holds.
Grafts(x, path, V1, V2, u) ==
    /\ x \in Paths /\ path \in Paths
    /\ AllFrom(x, V1) /\ AllFrom(x \o path, V2) /\ V1 \cap V2 = {}
    /\ u \in V2 /\ Located(u) = x \o path
    /\ ~Clash(V1) /\ ~Clash(V2)

\* The two trees.
LEMMA GraftTrees ==
    ASSUME NEW x, NEW path, NEW V1, NEW V2, NEW u, Grafts(x, path, V1, V2, u)
    PROVE  LET T1 == TreeOf(x, V1)
               T2 == TreeOf(x \o path, V2)
           IN  /\ DOMAIN T1 = Reached(x, V1) /\ DOMAIN T2 = Reached(x \o path, V2)
               /\ DOMAIN T1 \subseteq Paths /\ DOMAIN T2 \subseteq Paths
               /\ \A q \in Paths : path \o q \in Paths /\ x \o (path \o q) = (x \o path) \o q
               /\ \A p \in DOMAIN T1 : T1[p] # NoTemperature <=> Hot(V1, x \o p) # {}
               /\ \A q \in DOMAIN T2 : T2[q] # NoTemperature <=> Hot(V2, x \o (path \o q)) # {}
               /\ \A p \in Paths :
                     HasChildren(T1, p) <=> \E v \in V1 : IsStrictPrefix(x \o p, Located(v))
               /\ \A q \in Paths :
                     HasChildren(T2, q) <=>
                        \E v \in V2 : IsStrictPrefix(x \o (path \o q), Located(v))
               /\ \A p : p \in PrefixesOf(path) <=> p \in Paths /\ IsPrefix(p, path)
               /\ \A q \in DOMAIN T2 : path \o q \in Grafted(T2, path)
               /\ \A p \in Grafted(T2, path) :
                     /\ p \in Paths /\ Beneath(path, p) \in DOMAIN T2
                     /\ p = path \o Beneath(path, p)
<1> DEFINE T1 == TreeOf(x, V1)
           y == x \o path
           T2 == TreeOf(y, V2)
<1>1. x \in Paths /\ path \in Paths /\ AllFrom(x, V1) /\ AllFrom(y, V2)
  BY DEF Grafts
<1>2. ASSUME NEW q \in Paths PROVE path \o q \in Paths /\ x \o (path \o q) = y \o q
  <2>1. path \o q \in Paths
    BY <1>1, PathConcat
  <2>2. (x \o path) \o q = x \o (path \o q)
    BY <1>1, PathCancel
  <2> QED
    BY <2>1, <2>2, Zenon
<1> HIDE DEF y
<1>3. /\ DOMAIN T1 = Reached(x, V1)
      /\ \A p \in DOMAIN T1 : T1[p] # NoTemperature <=> Hot(V1, x \o p) # {}
      /\ \A p \in Paths :
            HasChildren(T1, p) <=> \E v \in V1 : IsStrictPrefix(x \o p, Located(v))
  BY <1>1, TreeParts
<1>4. /\ DOMAIN T2 = Reached(y, V2)
      /\ \A q \in DOMAIN T2 : T2[q] # NoTemperature <=> Hot(V2, y \o q) # {}
      /\ \A q \in Paths :
            HasChildren(T2, q) <=> \E v \in V2 : IsStrictPrefix(y \o q, Located(v))
  BY <1>1, TreeParts
<1>5. DOMAIN T1 \subseteq Paths /\ DOMAIN T2 \subseteq Paths
  BY <1>3, <1>4 DEF Reached
<1> HIDE DEF T1, T2
<1>6. /\ \A p : p \in PrefixesOf(path) <=> p \in Paths /\ IsPrefix(p, path)
      /\ \A q \in DOMAIN T2 : path \o q \in Grafted(T2, path)
      /\ \A p \in Grafted(T2, path) :
            p \in Paths /\ Beneath(path, p) \in DOMAIN T2 /\ p = path \o Beneath(path, p)
  BY <1>1, <1>5, GraftParts
<1>7. /\ \A q \in DOMAIN T2 : T2[q] # NoTemperature <=> Hot(V2, x \o (path \o q)) # {}
      /\ \A q \in Paths :
            HasChildren(T2, q) <=> \E v \in V2 : IsStrictPrefix(x \o (path \o q), Located(v))
  BY <1>2, <1>4, <1>5
<1> QED
  BY <1>2, <1>3, <1>4, <1>5, <1>6, <1>7 DEF T1, T2, y

\* insertKey and mergeEntry only refuse temperatures that clash.
LEMMA ConflictClashes ==
    ASSUME NEW x, NEW path, NEW V1, NEW V2, NEW u, Grafts(x, path, V1, V2, u),
           Conflict(TreeOf(x, V1), TreeOf(x \o path, V2), path)
    PROVE  Clash(V1 \cup V2)
<1> DEFINE T1 == TreeOf(x, V1)
           T2 == TreeOf(x \o path, V2)
<1>1. /\ DOMAIN T1 \subseteq Paths /\ DOMAIN T2 \subseteq Paths
      /\ \A p \in DOMAIN T1 : T1[p] # NoTemperature <=> Hot(V1, x \o p) # {}
      /\ \A q \in DOMAIN T2 : T2[q] # NoTemperature <=> Hot(V2, x \o (path \o q)) # {}
      /\ \A p \in Paths :
            HasChildren(T1, p) <=> \E v \in V1 : IsStrictPrefix(x \o p, Located(v))
      /\ \A q \in Paths :
            HasChildren(T2, q) <=> \E v \in V2 : IsStrictPrefix(x \o (path \o q), Located(v))
  BY GraftTrees
<1>2. /\ \A p : p \in PrefixesOf(path) <=> p \in Paths /\ IsPrefix(p, path)
      /\ \A p \in Grafted(T2, path) :
            p \in Paths /\ Beneath(path, p) \in DOMAIN T2 /\ p = path \o Beneath(path, p)
  BY GraftTrees
<1>3. /\ x \in Paths /\ path \in Paths /\ V1 \cap V2 = {}
      /\ u \in V2 /\ Located(u) = x \o path
  BY DEF Grafts
<1>4. Conflict(T1, T2, path)
  OBVIOUS
<1> HIDE DEF T1, T2
<1>5. ASSUME NEW p \in DOMAIN T1 \cap (PrefixesOf(path) \ {path}), T1[p] # NoTemperature
      PROVE  Clash(V1 \cup V2)
  <2>1. p \in Paths /\ IsStrictPrefix(p, path)
    BY <1>2 DEF IsStrictPrefix
  <2>2. IsStrictPrefix(x \o p, x \o path)
    BY <1>3, <2>1, PathCancel
  <2>3. PICK v \in V1 : raw[v] \in Temps /\ Located(v) = x \o p
    BY <1>1, <1>5 DEF Hot
  <2>4. v # u /\ IsStrictPrefix(Located(v), Located(u))
    BY <1>3, <2>2, <2>3
  <2> QED
    BY <1>3, <2>3, <2>4 DEF Clash
<1>6. ASSUME NEW p \in DOMAIN T1 \cap Grafted(T2, path),
             TempConflict(T1, p, T2, Beneath(path, p))
      PROVE  Clash(V1 \cup V2)
  <2> DEFINE q == Beneath(path, p)
  <2>1. p \in Paths /\ q \in DOMAIN T2 /\ q \in Paths /\ p = path \o q
    BY <1>1, <1>2
  <2> HIDE DEF q
  <2>2. /\ T1[p] # NoTemperature <=> Hot(V1, x \o p) # {}
        /\ T2[q] # NoTemperature <=> Hot(V2, x \o p) # {}
        /\ HasChildren(T1, p) <=> \E v \in V1 : IsStrictPrefix(x \o p, Located(v))
        /\ HasChildren(T2, q) <=> \E v \in V2 : IsStrictPrefix(x \o p, Located(v))
    BY <1>1, <2>1
  <2>3. \/ Hot(V1, x \o p) # {} /\ Hot(V2, x \o p) # {}
        \/ Hot(V1, x \o p) # {} /\ \E v \in V2 : IsStrictPrefix(x \o p, Located(v))
        \/ Hot(V2, x \o p) # {} /\ \E v \in V1 : IsStrictPrefix(x \o p, Located(v))
    BY <1>6, <2>2 DEF TempConflict, q
  <2>4. CASE Hot(V1, x \o p) # {} /\ Hot(V2, x \o p) # {}
    <3>1. PICK v \in V1, w \in V2 : /\ raw[v] \in Temps /\ Located(v) = x \o p
                                    /\ raw[w] \in Temps /\ Located(w) = x \o p
      BY <2>4 DEF Hot
    <3> QED
      BY <1>3, <3>1 DEF Clash
  <2>5. ASSUME NEW V, NEW W, V \cup W = V1 \cup V2, V \cap W = {}, Hot(V, x \o p) # {},
               \E v \in W : IsStrictPrefix(x \o p, Located(v))
        PROVE  Clash(V1 \cup V2)
    <3>1. PICK v \in V : raw[v] \in Temps /\ Located(v) = x \o p
      BY <2>5 DEF Hot
    <3>2. PICK w \in W : IsStrictPrefix(x \o p, Located(w))
      BY <2>5
    <3>3. v # w /\ v \in V1 \cup V2 /\ w \in V1 \cup V2
      BY <2>5
    <3> QED
      BY <3>1, <3>2, <3>3 DEF Clash
  <2>6. V2 \cup V1 = V1 \cup V2 /\ V2 \cap V1 = {} /\ V1 \cap V2 = {}
    BY <1>3
  <2>7. CASE Hot(V1, x \o p) # {} /\ \E v \in V2 : IsStrictPrefix(x \o p, Located(v))
    BY <2>5, <2>6, <2>7, Zenon
  <2>8. CASE Hot(V2, x \o p) # {} /\ \E v \in V1 : IsStrictPrefix(x \o p, Located(v))
    BY <2>5, <2>6, <2>8, Zenon
  <2> QED
    BY <2>3, <2>4, <2>7, <2>8, Zenon
<1> QED
  BY <1>4, <1>5, <1>6 DEF Conflict

\* They refuse all that do.
LEMMA ClashConflicts ==
    ASSUME NEW x, NEW path, NEW V1, NEW V2, NEW u, Grafts(x, path, V1, V2, u),
           Clash(V1 \cup V2)
    PROVE  Conflict(TreeOf(x, V1), TreeOf(x \o path, V2), path)
<1> DEFINE T1 == TreeOf(x, V1)
           y == x \o path
           T2 == TreeOf(y, V2)
<1>1. /\ DOMAIN T1 = Reached(x, V1) /\ DOMAIN T2 = Reached(y, V2)
      /\ \A q \in Paths : path \o q \in Paths /\ x \o (path \o q) = y \o q
      /\ \A p \in DOMAIN T1 : T1[p] # NoTemperature <=> Hot(V1, x \o p) # {}
      /\ \A q \in DOMAIN T2 : T2[q] # NoTemperature <=> Hot(V2, x \o (path \o q)) # {}
      /\ \A p \in Paths :
            HasChildren(T1, p) <=> \E v \in V1 : IsStrictPrefix(x \o p, Located(v))
      /\ \A q \in Paths :
            HasChildren(T2, q) <=> \E v \in V2 : IsStrictPrefix(x \o (path \o q), Located(v))
  BY GraftTrees
<1>2. /\ \A p : p \in PrefixesOf(path) <=> p \in Paths /\ IsPrefix(p, path)
      /\ \A q \in DOMAIN T2 : path \o q \in Grafted(T2, path)
  BY GraftTrees
<1>3. /\ x \in Paths /\ path \in Paths /\ V1 \cap V2 = {} /\ y \in Paths
      /\ \A v \in V1 : Located(v) \in Paths /\ IsPrefix(x, Located(v))
      /\ \A v \in V2 : Located(v) \in Paths /\ IsPrefix(y, Located(v))
  BY DEF Grafts, AllFrom
<1>4. ASSUME NEW q \in Paths, q \in DOMAIN T2, path \o q \in DOMAIN T1,
             TempConflict(T1, path \o q, T2, q)
      PROVE  Conflict(T1, T2, path)
  <2>1. path \o q \in Grafted(T2, path) /\ Beneath(path, path \o q) = q
    BY <1>2, <1>3, <1>4, PathConcat DEF Beneath
  <2> HIDE DEF T1, T2
  <2> QED
    BY <1>4, <2>1 DEF Conflict
<1> HIDE DEF T1, T2, y
<1>5. PICK v, w \in V1 \cup V2 :
         /\ v # w /\ raw[v] \in Temps
         /\ \/ IsStrictPrefix(Located(v), Located(w))
            \/ Located(v) = Located(w) /\ raw[w] \in Temps
  BY DEF Clash
<1>6. IsPrefix(Located(v), Located(w)) /\ Located(v) \in Paths /\ Located(w) \in Paths
  <2>1. Located(v) \in Paths /\ Located(w) \in Paths
    BY <1>3
  <2> QED
    BY <1>5, <2>1, PathOrder DEF IsStrictPrefix
<1>7. (v \in V1 /\ w \in V2) \/ (v \in V2 /\ w \in V1)
  BY <1>5 DEF Grafts, Clash
<1>8. ASSUME v \in V1, w \in V2, ~IsPrefix(y, Located(v)) PROVE Conflict(T1, T2, path)
  <2>1. IsPrefix(Located(v), y) /\ Located(v) # y
    <3>1. IsPrefix(y, Located(w)) /\ IsPrefix(y, y)
      BY <1>3, <1>8, PathOrder
    <3>2. IsPrefix(Located(v), y) \/ IsPrefix(y, Located(v))
      BY <1>3, <1>6, <3>1, PathOrder
    <3> QED
      BY <1>8, <3>1, <3>2
  <2>2. PICK p \in Paths : Located(v) = x \o p
    BY <1>3, <1>6, <1>8, PathConcat
  <2>3. IsPrefix(p, path) /\ p # path
    <3>1. IsPrefix(x \o p, x \o path) /\ x \o p # x \o path
      BY <2>1, <2>2 DEF y
    <3> QED
      BY <1>3, <2>2, <3>1, PathCancel
  <2>4. p \in DOMAIN T1
    <3>1. IsPrefix(x \o p, Located(v))
      BY <1>6, <2>2, PathOrder
    <3>2. p \in Reached(x, V1)
      BY <1>8, <2>2, <3>1 DEF Reached
    <3> QED
      BY <1>1, <3>2
  <2>5. v \in Hot(V1, x \o p)
    BY <1>5, <1>8, <2>2 DEF Hot
  <2>6. p \in DOMAIN T1 \cap (PrefixesOf(path) \ {path}) /\ T1[p] # NoTemperature
    BY <1>1, <1>2, <2>2, <2>3, <2>4, <2>5
  <2> QED
    BY <2>6 DEF Conflict
<1>9. ASSUME NEW q \in Paths, Located(v) = y \o q
      PROVE  path \o q \in DOMAIN T1 /\ q \in DOMAIN T2
  <2>1. path \o q \in Paths /\ x \o (path \o q) = y \o q
    BY <1>1
  <2>2. IsPrefix(y \o q, Located(w)) /\ IsPrefix(y \o q, Located(v))
    BY <1>6, <1>9, PathOrder
  <2> QED
    BY <1>1, <1>7, <2>1, <2>2 DEF Reached
<1>10. ASSUME v \in V1, w \in V2, IsPrefix(y, Located(v)) PROVE Conflict(T1, T2, path)
  <2>1. PICK q \in Paths : Located(v) = y \o q
    BY <1>3, <1>6, <1>10, PathConcat
  <2>2. path \o q \in DOMAIN T1 /\ q \in DOMAIN T2 /\ x \o (path \o q) = y \o q
    BY <1>1, <1>9, <2>1
  <2>3. v \in Hot(V1, x \o (path \o q))
    BY <1>5, <1>10, <2>1, <2>2 DEF Hot
  <2>4. T1[path \o q] # NoTemperature
    BY <1>1, <2>2, <2>3
  <2>5. T2[q] # NoTemperature \/ HasChildren(T2, q)
    <3>1. CASE IsStrictPrefix(Located(v), Located(w))
      <4>1. HasChildren(T2, q) <=> \E z \in V2 : IsStrictPrefix(x \o (path \o q), Located(z))
        BY <1>1, <2>1
      <4> QED
        BY <1>10, <2>1, <2>2, <3>1, <4>1
    <3>2. CASE Located(v) = Located(w) /\ raw[w] \in Temps
      <4>1. w \in Hot(V2, x \o (path \o q))
        BY <1>10, <2>1, <2>2, <3>2 DEF Hot
      <4> QED
        BY <1>1, <2>2, <4>1
    <3> QED
      BY <1>5, <3>1, <3>2
  <2>6. TempConflict(T1, path \o q, T2, q)
    BY <2>4, <2>5 DEF TempConflict
  <2> QED
    BY <1>4, <2>1, <2>2, <2>6
<1>11. ASSUME v \in V2, w \in V1 PROVE Conflict(T1, T2, path)
  <2>1. PICK q \in Paths : Located(v) = y \o q
    BY <1>3, <1>6, <1>11, PathConcat
  <2>2. path \o q \in DOMAIN T1 /\ q \in DOMAIN T2 /\ x \o (path \o q) = y \o q
    BY <1>1, <1>9, <2>1
  <2>3. v \in Hot(V2, x \o (path \o q))
    BY <1>5, <1>11, <2>1, <2>2 DEF Hot
  <2>4. T2[q] # NoTemperature
    BY <1>1, <2>2, <2>3
  <2>5. T1[path \o q] # NoTemperature \/ HasChildren(T1, path \o q)
    <3>1. CASE IsStrictPrefix(Located(v), Located(w))
      <4>1. path \o q \in Paths
        BY <1>1, <2>1
      <4>2. HasChildren(T1, path \o q) <=>
               \E z \in V1 : IsStrictPrefix(x \o (path \o q), Located(z))
        BY <1>1, <4>1
      <4> QED
        BY <1>11, <2>1, <2>2, <3>1, <4>2
    <3>2. CASE Located(v) = Located(w) /\ raw[w] \in Temps
      <4>1. w \in Hot(V1, x \o (path \o q))
        BY <1>11, <2>1, <2>2, <3>2 DEF Hot
      <4> QED
        BY <1>1, <2>2, <4>1
    <3> QED
      BY <1>5, <3>1, <3>2
  <2>6. TempConflict(T1, path \o q, T2, q)
    BY <2>4, <2>5 DEF TempConflict
  <2> QED
    BY <1>4, <2>1, <2>2, <2>6
<1>12. Conflict(T1, T2, path)
  BY <1>7, <1>8, <1>10, <1>11
<1> QED
  BY <1>12 DEF T1, T2, y

\* Without a clash the merged tree is that of all the values.
LEMMA MergedIsTree ==
    ASSUME NEW x, NEW path, NEW V1, NEW V2, NEW u, Grafts(x, path, V1, V2, u),
           ~Clash(V1 \cup V2)
    PROVE  Merged(TreeOf(x, V1), TreeOf(x \o path, V2), path) = TreeOf(x, V1 \cup V2)
<1> DEFINE T1 == TreeOf(x, V1)
           y == x \o path
           T2 == TreeOf(y, V2)
           V == V1 \cup V2
           M == DOMAIN T1 \cup PrefixesOf(path) \cup Grafted(T2, path)
           at(p) == IF p \in Grafted(T2, path) /\ T2[Beneath(path, p)] # NoTemperature
                    THEN T2[Beneath(path, p)]
                    ELSE IF p \in DOMAIN T1 THEN T1[p] ELSE NoTemperature
<1>1. /\ DOMAIN T1 = Reached(x, V1) /\ DOMAIN T2 = Reached(y, V2)
      /\ \A q \in Paths : path \o q \in Paths /\ x \o (path \o q) = y \o q
      /\ \A q \in DOMAIN T2 : T2[q] # NoTemperature <=> Hot(V2, x \o (path \o q)) # {}
  BY GraftTrees
<1>2. /\ \A p : p \in PrefixesOf(path) <=> p \in Paths /\ IsPrefix(p, path)
      /\ \A q \in DOMAIN T2 : path \o q \in Grafted(T2, path)
      /\ \A p \in Grafted(T2, path) :
            p \in Paths /\ Beneath(path, p) \in DOMAIN T2 /\ p = path \o Beneath(path, p)
  BY GraftTrees
<1>3. /\ x \in Paths /\ path \in Paths /\ y \in Paths /\ V1 \cap V2 = {}
      /\ \A v \in V1 : Located(v) \in Paths /\ IsPrefix(x, Located(v))
      /\ \A v \in V2 : Located(v) \in Paths /\ IsPrefix(y, Located(v))
      /\ u \in V2 /\ Located(u) = y
      /\ ~Clash(V1) /\ ~Clash(V2)
  BY DEF Grafts, AllFrom
<1>4. /\ \A p \in DOMAIN T1 : T1[p] = TempAt(V1, x \o p)
      /\ \A q \in DOMAIN T2 : T2[q] = TempAt(V2, y \o q)
  BY DEF TreeOf
<1>5. Merged(T1, T2, path) = [p \in M |-> at(p)]
  BY DEF Merged
<1> HIDE DEF T1, T2, y
\* The entries are the same.
<1>6. ASSUME NEW p \in M PROVE p \in Reached(x, V)
  <2>1. CASE p \in DOMAIN T1
    BY <1>1, <2>1 DEF Reached
  <2>2. CASE p \in PrefixesOf(path)
    <3>1. p \in Paths /\ IsPrefix(p, path)
      BY <1>2, <2>2
    <3>2. IsPrefix(x \o p, x \o path)
      BY <1>3, <3>1, PathCancel
    <3>3. IsPrefix(x \o p, Located(u)) /\ u \in V
      BY <1>3, <3>2 DEF y
    <3> QED
      BY <3>1, <3>3 DEF Reached
  <2>3. CASE p \in Grafted(T2, path)
    <3> DEFINE q == Beneath(path, p)
    <3>1. p \in Paths /\ q \in DOMAIN T2 /\ p = path \o q
      BY <1>2, <2>3
    <3> HIDE DEF q
    <3>2. q \in Paths
      BY <1>1, <3>1 DEF Reached
    <3>3. x \o p = y \o q
      BY <1>1, <3>1, <3>2
    <3>4. CASE q = << >>
      <4>1. IsPrefix(x \o p, Located(u)) /\ u \in V
        <5>1. y \o q = y /\ IsPrefix(y, y)
          BY <1>3, <3>4, PathConcat, PathOrder
        <5> QED
          BY <1>3, <3>3, <5>1
      <4> QED
        BY <3>1, <4>1 DEF Reached
    <3>5. CASE q # << >>
      <4>1. PICK v \in V2 : IsPrefix(y \o q, Located(v))
        BY <1>1, <3>1, <3>5 DEF Reached
      <4>2. IsPrefix(x \o p, Located(v)) /\ v \in V
        BY <3>3, <4>1
      <4> QED
        BY <3>1, <4>2 DEF Reached
    <3> QED
      BY <3>4, <3>5
  <2> QED
    BY <2>1, <2>2, <2>3
<1>7. ASSUME NEW p \in Paths, NEW v \in V2, IsPrefix(x \o p, Located(v))
      PROVE  p \in PrefixesOf(path) \/ \E q \in DOMAIN T2 : p = path \o q
  <2>1. x \o p \in Paths /\ Located(v) \in Paths /\ IsPrefix(y, Located(v))
    BY <1>3, PathConcat
  <2>2. IsPrefix(x \o p, y) \/ IsPrefix(y, x \o p)
    BY <1>3, <1>7, <2>1, PathOrder
  <2>3. CASE IsPrefix(x \o p, y)
    <3>1. IsPrefix(x \o p, x \o path)
      BY <2>3 DEF y
    <3> QED
      BY <1>2, <1>3, <3>1, PathCancel
  <2>4. CASE IsPrefix(y, x \o p)
    <3>1. IsPrefix(x \o path, x \o p)
      BY <2>4 DEF y
    <3>2. IsPrefix(path, p)
      BY <1>3, <3>1, PathCancel
    <3>3. PICK q \in Paths : p = path \o q
      BY <1>3, <3>2, PathConcat
    <3>4. x \o p = y \o q
      BY <1>1, <3>3
    <3>5. q \in Reached(y, V2)
      BY <1>7, <3>3, <3>4 DEF Reached
    <3> QED
      BY <1>1, <3>3, <3>5
  <2> QED
    BY <2>2, <2>3, <2>4
<1>8. ASSUME NEW p \in Reached(x, V) PROVE p \in M
  <2>1. p \in Paths
    BY DEF Reached
  <2>2. CASE p = << >>
    BY <1>1, <2>1, <2>2 DEF Reached
  <2>3. CASE p # << >>
    <3>1. PICK v \in V : IsPrefix(x \o p, Located(v))
      BY <2>3 DEF Reached
    <3>2. CASE v \in V1
      BY <1>1, <2>1, <3>1, <3>2 DEF Reached
    <3>3. CASE v \in V2
      <4>1. p \in PrefixesOf(path) \/ \E q \in DOMAIN T2 : p = path \o q
        BY <1>7, <2>1, <3>1, <3>3
      <4> QED
        BY <1>2, <4>1
    <3> QED
      BY <3>1, <3>2, <3>3
  <2> QED
    BY <2>2, <2>3
<1>9. M = Reached(x, V)
  BY <1>6, <1>8
\* So are the temperatures.
<1>10. ASSUME NEW p \in M PROVE at(p) = TempAt(V, x \o p)
  <2>1. p \in Paths
    BY <1>6 DEF Reached
  <2>2. Hot(V, x \o p) = Hot(V1, x \o p) \cup Hot(V2, x \o p)
    BY DEF Hot
  <2>3. ASSUME NEW v \in Hot(V2, x \o p)
        PROVE  \E q \in DOMAIN T2 : p = path \o q
    <3>1. v \in V2 /\ Located(v) = x \o p
      BY DEF Hot
    <3>2. IsPrefix(y, x \o p)
      BY <1>3, <3>1
    <3>3. IsPrefix(x \o path, x \o p)
      BY <3>2 DEF y
    <3>4. IsPrefix(path, p)
      BY <1>3, <2>1, <3>3, PathCancel
    <3>5. PICK q \in Paths : p = path \o q
      BY <1>3, <2>1, <3>4, PathConcat
    <3>6. x \o p = y \o q /\ IsPrefix(y \o q, Located(v))
      <4>1. x \o p = y \o q
        BY <1>1, <3>5
      <4>2. Located(v) \in Paths
        BY <1>3, <3>1
      <4> QED
        BY <3>1, <4>1, <4>2, PathOrder
    <3>7. q \in Reached(y, V2)
      BY <3>1, <3>5, <3>6 DEF Reached
    <3> QED
      BY <1>1, <3>5, <3>7
  <2>4. CASE Hot(V2, x \o p) # {}
    <3>1. PICK v \in Hot(V2, x \o p) : TRUE
      BY <2>4
    <3>2. p \in Grafted(T2, path)
      BY <1>2, <2>3, <3>1
    <3> DEFINE q == Beneath(path, p)
    <3>3. q \in DOMAIN T2 /\ p = path \o q
      BY <1>2, <3>2
    <3> HIDE DEF q
    <3>4. x \o p = y \o q
      BY <1>1, <3>3 DEF Reached
    <3>5. T2[q] # NoTemperature
      BY <1>1, <2>4, <3>3
    <3>6. at(p) = T2[q]
      BY <3>2, <3>5 DEF q
    <3>7. T2[q] = raw[v]
      BY <1>3, <1>4, <3>1, <3>3, <3>4, HotOne
    <3>8. TempAt(V, x \o p) = raw[v]
      BY <2>2, <3>1, HotOne
    <3> HIDE DEF at
    <3> QED
      BY <3>6, <3>7, <3>8
  <2>5. CASE Hot(V2, x \o p) = {}
    <3>1. p \in Grafted(T2, path) => T2[Beneath(path, p)] = NoTemperature
      <4> SUFFICES ASSUME p \in Grafted(T2, path) PROVE T2[Beneath(path, p)] = NoTemperature
        OBVIOUS
      <4>1. Beneath(path, p) \in DOMAIN T2 /\ p = path \o Beneath(path, p)
        BY <1>2
      <4> QED
        BY <1>1, <2>5, <4>1
    <3>2. at(p) = IF p \in DOMAIN T1 THEN T1[p] ELSE NoTemperature
      BY <3>1
    <3>3. CASE Hot(V1, x \o p) = {}
      <4>1. TempAt(V, x \o p) = NoTemperature /\ TempAt(V1, x \o p) = NoTemperature
        BY <2>2, <2>5, <3>3, HotOne
      <4> HIDE DEF at
      <4> QED
        BY <1>4, <3>2, <4>1
    <3>4. CASE Hot(V1, x \o p) # {}
      <4>1. PICK v \in Hot(V1, x \o p) : TRUE
        BY <3>4
      <4>2. v \in V1 /\ Located(v) = x \o p
        BY <4>1 DEF Hot
      <4>3. p \in Reached(x, V1)
        <5>1. IsPrefix(x \o p, Located(v))
          BY <1>3, <4>2, PathOrder
        <5> QED
          BY <2>1, <4>2, <5>1 DEF Reached
      <4>4. T1[p] = raw[v]
        BY <1>1, <1>3, <1>4, <4>1, <4>3, HotOne
      <4>5. TempAt(V, x \o p) = raw[v]
        BY <2>2, <4>1, HotOne
      <4> HIDE DEF at
      <4> QED
        BY <1>1, <3>2, <4>3, <4>4, <4>5
    <3> QED
      BY <3>3, <3>4
  <2> QED
    BY <2>4, <2>5
<1> HIDE DEF at, M
<1>11. [p \in M |-> at(p)] = TreeOf(x, V)
  BY <1>9, <1>10 DEF TreeOf
<1> QED
  BY <1>5, <1>11 DEF T1, T2, y

-----------------------------------------------------------------------------
(* buildEntry and parseValue.                                              *)

\* The tree of some keys of an object, and of a value.
Part(at, done) ==
    IF Flawed(Held(at, done)) \/ Clash(Held(at, done)) THEN Failed
    ELSE TreeOf(Located(at), Held(at, done))
Outcome(at) ==
    IF raw[at] = Object THEN Part(at, KeysOf(at))
    ELSE IF raw[at] = Unusable THEN Failed
    ELSE [p \in {<< >>} |-> raw[at]]

\* An object that holds nothing of the document has the tree of no value.
LEMMA TreeOfNone ==
    ASSUME NEW x
    PROVE  TreeOf(x, {}) = NewEntry
<1>1. Reached(x, {}) = {<< >>}
  <2>1. << >> \in Paths
    BY DEF Paths
  <2> QED
    BY <2>1 DEF Reached
<1>2. \A y : TempAt({}, y) = NoTemperature
  BY DEF TempAt, Hot
<1> QED
  BY <1>1, <1>2 DEF TreeOf, NewEntry

\* Only objects hold values.
LEMMA HeldByObject ==
    ASSUME RawOK, NEW at \in DOMAIN raw, HeldBy(at) # {}
    PROVE  raw[at] = Object
<1>1. PICK v \in DOMAIN raw : Len(at) < Len(v) /\ Cut(v, Len(at)) = at
  BY DEF HeldBy, Held
<1>2. Len(at) \in Nat /\ Len(v) \in Nat
  BY <1>1 DEF RawOK
<1>3. Len(at) \in 0..(Len(v) - 1)
  BY <1>1, <1>2
<1> QED
  BY <1>1, <1>3 DEF RawOK

\* A value and what it holds clash only if what it holds does.
LEMMA NoClashAbove ==
    ASSUME RawOK, NEW at \in DOMAIN raw, Clash(HeldBy(at) \cup {at})
    PROVE  Clash(HeldBy(at))
<1>1. PICK v, w \in HeldBy(at) \cup {at} :
         /\ v # w /\ raw[v] \in Temps
         /\ \/ IsStrictPrefix(Located(v), Located(w))
            \/ Located(v) = Located(w) /\ raw[w] \in Temps
  BY DEF Clash
<1>2. HeldBy(at) # {}
  BY <1>1
<1>3. raw[at] = Object /\ Object \notin Temps
  BY <1>2, HeldByObject, TempFileAssumption
<1>4. v \in HeldBy(at)
  BY <1>1, <1>3
<1>5. w # at
  <2> SUFFICES ASSUME w = at PROVE FALSE
    OBVIOUS
  <2>1. IsPrefix(Located(v), Located(at))
    BY <1>1, <1>3 DEF IsStrictPrefix
  <2>2. /\ Located(at) \in Paths /\ Located(v) \in Paths
        /\ IsPrefix(Located(at), Located(v)) /\ Located(at) # Located(v)
    BY <1>4, HeldLocated DEF HeldBy, IsStrictPrefix
  <2> QED
    BY <2>1, <2>2, PathOrder
<1> QED
  BY <1>1, <1>4, <1>5 DEF Clash

\* The paths of a value and of what it holds.
LEMMA HeldFrom ==
    ASSUME RawOK, NEW at \in DOMAIN raw, NEW keys
    PROVE  /\ Located(at) \in Paths
           /\ AllFrom(Located(at), Held(at, keys))
           /\ AllFrom(Located(at), HeldBy(at) \cup {at})
<1>1. at \in Seq(Keys)
  BY DEF RawOK
<1>2. Located(at) \in Paths
  <2>1. CASE Keys = {}
    <3>1. at = << >>
      BY <1>1, <2>1
    <3>2. Located(<< >>) = << >>
      <4>1. [i \in DOMAIN << >> |-> Segments(<< >>[i])] = << >>
        OBVIOUS
      <4> QED
        BY <4>1 DEF Located, FlattenSeq
    <3>3. << >> \in Paths
      BY DEF Paths
    <3> QED
      BY <3>1, <3>2, <3>3, Zenon
  <2>2. CASE Keys # {}
    BY <1>1, <2>2, LocatedParts
  <2> QED
    BY <2>1, <2>2
<1>3. \A ks : \A v \in Held(at, ks) : Located(v) \in Paths /\ IsPrefix(Located(at), Located(v))
  BY HeldLocated DEF IsStrictPrefix
<1>4. IsPrefix(Located(at), Located(at))
  BY <1>2, PathOrder
<1> QED
  BY <1>2, <1>3, <1>4 DEF AllFrom, HeldBy

\* The tree of a value is that of the value and what it holds.
LEMMA OutcomeTree ==
    ASSUME RawOK, NEW at \in DOMAIN raw
    PROVE  Outcome(at) =
              IF raw[at] = Unusable \/ Flawed(HeldBy(at)) \/ Clash(HeldBy(at)) THEN Failed
              ELSE TreeOf(Located(at), HeldBy(at) \cup {at})
<1> DEFINE x == Located(at)
           H == HeldBy(at)
<1>1. x \in Paths
  BY HeldFrom
<1>2. raw[at] \in Temps \cup {Object, Unusable} /\ Temps \cap {NoTemperature, Object, Unusable} = {}
  BY TempFileAssumption DEF RawOK
<1>3. Object # Unusable
  BY DEF Object, Unusable
<1>4. ASSUME NEW p \in Paths, IsPrefix(x \o p, x) PROVE p = << >>
  <2>1. x \o p \in Paths /\ IsPrefix(x, x \o p) /\ x \o << >> = x /\ << >> \in Paths
    BY <1>1, PathConcat, PathOrder
  <2>2. x \o p = x
    BY <1>1, <1>4, <2>1, PathOrder
  <2>3. x \o p = x \o << >>
    BY <2>1, <2>2
  <2> QED
    BY <1>1, <2>1, <2>3, PathCancel
<1>5. CASE raw[at] = Object
  <2>1. Outcome(at) = IF Flawed(H) \/ Clash(H) THEN Failed ELSE TreeOf(x, H)
    BY <1>5 DEF Outcome, Part, HeldBy
  <2>2. TreeOf(x, H \cup {at}) = TreeOf(x, H)
    <3>1. Reached(x, H \cup {at}) = Reached(x, H)
      BY <1>4 DEF Reached
    <3>2. \A y : Hot(H \cup {at}, y) = Hot(H, y)
      BY <1>2, <1>5 DEF Hot
    <3>3. ASSUME NEW y PROVE TempAt(H \cup {at}, y) = TempAt(H, y)
      <4> HIDE DEF H
      <4>1. Hot(H \cup {at}, y) = Hot(H, y)
        BY <3>2
      <4> QED
        BY <4>1 DEF TempAt
    <3> QED
      BY <3>1, <3>3 DEF TreeOf
  <2> QED
    BY <1>3, <1>5, <2>1, <2>2
<1>6. CASE raw[at] = Unusable
  BY <1>3, <1>6 DEF Outcome
<1>7. CASE raw[at] \in Temps
  <2>1. raw[at] # Object /\ raw[at] # Unusable /\ raw[at] # NoTemperature
    BY <1>2, <1>7
  <2>2. Outcome(at) = [p \in {<< >>} |-> raw[at]]
    BY <2>1 DEF Outcome
  <2>3. H = {}
    BY <2>1, HeldByObject
  <2>4. ~Flawed(H) /\ ~Clash(H) /\ H \cup {at} = {at}
    BY <2>3 DEF Flawed, Clash
  <2>5. Reached(x, {at}) = {<< >>}
    <3>1. << >> \in Paths
      BY <1>1, PathOrder
    <3> QED
      BY <1>4, <3>1 DEF Reached
  <2>6. TempAt({at}, x \o << >>) = raw[at]
    <3>1. x \o << >> = x
      BY <1>1, PathConcat
    <3>2. at \in Hot({at}, x)
      BY <1>7 DEF Hot
    <3>3. ~Clash({at})
      BY DEF Clash
    <3> QED
      BY <3>1, <3>2, <3>3, HotOne
  <2>7. TreeOf(x, {at}) = [p \in {<< >>} |-> raw[at]]
    BY <2>5, <2>6 DEF TreeOf
  <2> QED
    BY <2>1, <2>2, <2>4, <2>7
<1> QED
  BY <1>2, <1>5, <1>6, <1>7

\* insertKey: one more key makes the tree of one more key, whichever it is.
LEMMA InsertStep ==
    ASSUME RawOK, NEW at \in DOMAIN raw, NEW done \in SUBSET KeysOf(at), NEW k \in done
    PROVE  InsertKey(Part(at, done \ {k}), Outcome(Append(at, k)), k) = Part(at, done)
<1> DEFINE u == Append(at, k)
           x == Located(at)
           path == Segments(k)
           V1 == Held(at, done \ {k})
           H == HeldBy(u)
           V2 == H \cup {u}
           V == Held(at, done)
<1>1. u \in DOMAIN raw /\ k \in Keys /\ V = V1 \cup V2 /\ V1 \cap V2 = {}
  BY HeldStep
<1>2. at \in Seq(Keys) /\ Last(u) = k
  <2>1. at \in Seq(Keys)
    BY DEF RawOK
  <2>2. Len(u) = Len(at) + 1 /\ u[Len(at) + 1] = k
    BY <1>1, <2>1, AppendParts
  <2> QED
    BY <2>1, <2>2 DEF Last
<1>3. x \in Paths /\ path \in Paths /\ Located(u) = x \o path
  BY <1>1, <1>2, LocatedParts, SegmentsParts
<1>4. AllFrom(x, V1) /\ AllFrom(x \o path, V2)
  <2>1. AllFrom(x, V1)
    BY HeldFrom
  <2>2. AllFrom(Located(u), V2)
    BY <1>1, HeldFrom
  <2> QED
    BY <1>3, <2>1, <2>2
<1>5. Clash(V2) => Clash(H)
  BY <1>1, NoClashAbove
<1>6. Outcome(u) = IF raw[u] = Unusable \/ Flawed(H) \/ Clash(H) THEN Failed
                   ELSE TreeOf(x \o path, V2)
  BY <1>1, <1>3, OutcomeTree
<1>7. /\ Part(at, done \ {k}) = IF Flawed(V1) \/ Clash(V1) THEN Failed ELSE TreeOf(x, V1)
      /\ Part(at, done) = IF Flawed(V) \/ Clash(V) THEN Failed ELSE TreeOf(x, V)
  BY DEF Part
<1> HIDE DEF u, x, path, V1, H, V
<1>8. Flawed(V) <=> Flawed(V1) \/ Flawed(H) \/ raw[u] = Unusable \/ ~ValidKey(k)
  BY <1>1, <1>2 DEF Flawed
<1>9. (Clash(V1) => Clash(V)) /\ (Clash(H) => Clash(V))
  BY <1>1 DEF Clash
<1>10. InsertKey(Part(at, done \ {k}), Outcome(u), k) =
          IF \/ Part(at, done \ {k}) = Failed \/ Outcome(u) = Failed \/ ~ValidKey(k)
             \/ Conflict(Part(at, done \ {k}), Outcome(u), path)
          THEN Failed ELSE Merged(Part(at, done \ {k}), Outcome(u), path)
  BY InsertKeyParts DEF path
<1>11. CASE Flawed(V1) \/ Clash(V1) \/ raw[u] = Unusable \/ Flawed(H) \/ Clash(H) \/ ~ValidKey(k)
  <2>1. Part(at, done) = Failed
    BY <1>7, <1>8, <1>9, <1>11
  <2>2. Part(at, done \ {k}) = Failed \/ Outcome(u) = Failed \/ ~ValidKey(k)
    BY <1>6, <1>7, <1>11
  <2>3. InsertKey(Part(at, done \ {k}), Outcome(u), k) = Part(at, done)
    BY <1>10, <2>1, <2>2
  <2> QED
    BY <2>3 DEF u
<1>12. CASE ~(Flawed(V1) \/ Clash(V1) \/ raw[u] = Unusable \/ Flawed(H) \/ Clash(H) \/ ~ValidKey(k))
  <2> DEFINE T1 == TreeOf(x, V1)
             T2 == TreeOf(x \o path, V2)
  <2>1. Part(at, done \ {k}) = T1 /\ Outcome(u) = T2
    BY <1>6, <1>7, <1>12
  <2>2. T1 # Failed /\ T2 # Failed
    BY <1>4, TreeParts
  <2>3. Grafts(x, path, V1, V2, u)
    BY <1>1, <1>3, <1>4, <1>5, <1>12 DEF Grafts
  <2>4. Conflict(T1, T2, path) <=> Clash(V)
    BY <1>1, <2>3, ConflictClashes, ClashConflicts
  <2>5. ~Clash(V) => Merged(T1, T2, path) = TreeOf(x, V)
    BY <1>1, <2>3, MergedIsTree
  <2>6. Part(at, done) = IF Clash(V) THEN Failed ELSE TreeOf(x, V)
    BY <1>7, <1>8, <1>12
  <2> HIDE DEF T1, T2
  <2>7. InsertKey(Part(at, done \ {k}), Outcome(u), k) =
           IF Conflict(T1, T2, path) THEN Failed ELSE Merged(T1, T2, path)
    BY <1>10, <1>12, <2>1, <2>2
  <2>8. InsertKey(Part(at, done \ {k}), Outcome(u), k) = Part(at, done)
    BY <2>4, <2>5, <2>6, <2>7
  <2> QED
    BY <2>8 DEF u
<1> QED
  BY <1>11, <1>12

\* What the function that BuildEntry computes satisfies.
Inserted(leaves, f, done, k) ==
    {InsertKey(tree, leaf, k) : tree \in f[done \ {k}], leaf \in leaves[k]}
BuiltStep(leaves, f, done) ==
    IF done = {} THEN {NewEntry} ELSE UNION {Inserted(leaves, f, done, k) : k \in done}
IsBuilt(keys, leaves, f) == f = [done \in SUBSET keys |-> BuiltStep(leaves, f, done)]

\* buildEntry: in whatever order the keys are visited, the tree is that of all of them.
LEMMA BuiltPart ==
    ASSUME RawOK, NEW at \in DOMAIN raw, NEW leaves,
           \A k \in KeysOf(at) : leaves[k] = {Outcome(Append(at, k))}
    PROVE  BuildEntry(KeysOf(at), leaves) = {Part(at, KeysOf(at))}
<1> DEFINE keys == KeysOf(at)
           g == [done \in SUBSET keys |-> {Part(at, done)}]
<1>1. Part(at, {}) = NewEntry
  <2>1. Held(at, {}) = {}
    BY DEF Held
  <2>2. ~Flawed({}) /\ ~Clash({})
    BY DEF Flawed, Clash
  <2> QED
    BY <2>1, <2>2, TreeOfNone DEF Part
<1>2. ASSUME NEW f, NEW done \in SUBSET keys, \A k \in done : f[done \ {k}] = {Part(at, done \ {k})}
      PROVE  BuiltStep(leaves, f, done) = {Part(at, done)}
  <2>1. CASE done = {}
    BY <1>1, <2>1 DEF BuiltStep
  <2>2. CASE done # {}
    <3>1. ASSUME NEW k \in done
          PROVE  Inserted(leaves, f, done, k) = {Part(at, done)}
      <4>1. InsertKey(Part(at, done \ {k}), Outcome(Append(at, k)), k) = Part(at, done)
        BY InsertStep
      <4>2. f[done \ {k}] = {Part(at, done \ {k})} /\ leaves[k] = {Outcome(Append(at, k))}
        BY <1>2
      <4> QED
        BY <4>1, <4>2 DEF Inserted
    <3> QED
      BY <2>2, <3>1 DEF BuiltStep
  <2> QED
    BY <2>1, <2>2
<1>3. IsBuilt(keys, leaves, g)
  <2>1. ASSUME NEW done \in SUBSET keys PROVE BuiltStep(leaves, g, done) = {Part(at, done)}
    <3>1. \A k \in done : g[done \ {k}] = {Part(at, done \ {k})}
      OBVIOUS
    <3> HIDE DEF g
    <3> QED
      BY <1>2, <3>1
  <2>2. g = [done \in SUBSET keys |-> BuiltStep(leaves, g, done)]
    BY <2>1
  <2> QED
    BY <2>2 DEF IsBuilt
<1> DEFINE f == CHOOSE h : IsBuilt(keys, leaves, h)
<1>4. BuildEntry(keys, leaves) = f[keys]
  BY DEF BuildEntry, IsBuilt, BuiltStep, Inserted
<1>5. IsBuilt(keys, leaves, f)
  BY <1>3
<1> HIDE DEF f
<1>6. \A done \in SUBSET keys : f[done] = BuiltStep(leaves, f, done)
  BY <1>5, Zenon DEF IsBuilt
<1>7. IsFiniteSet(keys)
  BY KeysFinite
<1> DEFINE N == {n \in Nat : \A done \in SUBSET keys : Cardinality(done) = n => f[done] = {Part(at, done)}}
<1> HIDE DEF keys
<1>8. \A done \in SUBSET keys : IsFiniteSet(done) /\ Cardinality(done) \in Nat
  BY <1>7, FS_Subset, FS_CardinalityType
<1>9. 0 \in N
  <2>1. ASSUME NEW done \in SUBSET keys, Cardinality(done) = 0 PROVE f[done] = {Part(at, done)}
    <3>1. done = {}
      BY <1>8, <2>1, FS_EmptySet
    <3>2. \A k \in done : f[done \ {k}] = {Part(at, done \ {k})}
      BY <3>1
    <3> QED
      BY <1>2, <1>6, <3>2
  <2> QED
    BY <2>1
<1>10. ASSUME NEW n \in Nat, n \in N PROVE n + 1 \in N
  <2>1. ASSUME NEW done \in SUBSET keys, Cardinality(done) = n + 1 PROVE f[done] = {Part(at, done)}
    <3>1. ASSUME NEW k \in done PROVE f[done \ {k}] = {Part(at, done \ {k})}
      <4>1. Cardinality(done \ {k}) = Cardinality(done) - 1
        BY <1>8, FS_RemoveElement
      <4>2. done \ {k} \in SUBSET keys /\ Cardinality(done \ {k}) = n
        BY <2>1, <4>1
      <4> QED
        BY <1>10, <4>2
    <3> QED
      BY <1>2, <1>6, <3>1
  <2> QED
    BY <2>1
<1>11. Nat \subseteq N
  <2> HIDE DEF N
  <2> QED
    BY <1>9, <1>10, NatSet
<1>12. f[keys] = {Part(at, keys)}
  <2>1. keys \in SUBSET keys /\ Cardinality(keys) \in N
    <3> HIDE DEF N
    <3> QED
      BY <1>8, <1>11
  <2> QED
    BY <2>1
<1> QED
  BY <1>4, <1>12 DEF keys

\* What parseValue's function satisfies.
IsParse(f) ==
    f = [at \in DOMAIN raw |->
            IF raw[at] = Object
            THEN BuildEntry(KeysOf(at), [k \in KeysOf(at) |-> f[Append(at, k)]])
            ELSE IF raw[at] = Unusable THEN {Failed}
            ELSE {[p \in {<< >>} |-> raw[at]]}]

\* parseValue gives the tree of a value.
LEMMA ParseOutcome ==
    ASSUME RawOK
    PROVE  Load = {Part(<< >>, KeysOf(<< >>))}
<1> DEFINE g == [at \in DOMAIN raw |-> {Outcome(at)}]
           Step(f, at) ==
              IF raw[at] = Object
              THEN BuildEntry(KeysOf(at), [k \in KeysOf(at) |-> f[Append(at, k)]])
              ELSE IF raw[at] = Unusable THEN {Failed}
              ELSE {[p \in {<< >>} |-> raw[at]]}
<1>1. ASSUME NEW f, NEW at \in DOMAIN raw,
             \A k \in KeysOf(at) : f[Append(at, k)] = {Outcome(Append(at, k))}
      PROVE  Step(f, at) = {Outcome(at)}
  <2> DEFINE leaves == [k \in KeysOf(at) |-> f[Append(at, k)]]
  <2>1. \A k \in KeysOf(at) : leaves[k] = {Outcome(Append(at, k))}
    BY <1>1
  <2>2. Step(f, at) = IF raw[at] = Object THEN BuildEntry(KeysOf(at), leaves)
                      ELSE IF raw[at] = Unusable THEN {Failed}
                      ELSE {[p \in {<< >>} |-> raw[at]]}
    OBVIOUS
  <2> HIDE DEF leaves, Step
  <2>3. BuildEntry(KeysOf(at), leaves) = {Part(at, KeysOf(at))}
    BY <2>1, BuiltPart
  <2> QED
    BY <2>2, <2>3 DEF Outcome
<1>2. IsParse(g)
  <2>1. ASSUME NEW at \in DOMAIN raw PROVE Step(g, at) = {Outcome(at)}
    <3>1. \A k \in KeysOf(at) : g[Append(at, k)] = {Outcome(Append(at, k))}
      BY DEF KeysOf
    <3> HIDE DEF g, Step
    <3> QED
      BY <1>1, <3>1
  <2>2. g = [at \in DOMAIN raw |-> Step(g, at)]
    <3> HIDE DEF Step
    <3> QED
      BY <2>1
  <2> QED
    BY <2>2 DEF IsParse
<1> DEFINE f == CHOOSE h : IsParse(h)
           G == {at \in DOMAIN raw : f[at] = {Outcome(at)}}
<1>3. Load = f[<< >>]
  BY DEF Load, ParseValue, IsParse
<1>4. IsParse(f)
  BY <1>2
<1> HIDE DEF f
<1>5. \A at \in DOMAIN raw : f[at] = Step(f, at)
  BY <1>4, Zenon DEF IsParse
<1>6. ASSUME NEW at \in DOMAIN raw, \A k \in KeysOf(at) : Append(at, k) \in G PROVE at \in G
  <2>1. \A k \in KeysOf(at) : f[Append(at, k)] = {Outcome(Append(at, k))}
    BY <1>6
  <2> HIDE DEF Step
  <2> QED
    BY <1>1, <1>5, <2>1
<1>7. DOMAIN raw \subseteq G
  <2> HIDE DEF G, Step
  <2> QED
    BY <1>6, RawSet
<1>8. f[<< >>] = {Outcome(<< >>)} /\ raw[<< >>] = Object
  BY <1>7 DEF RawOK
<1> QED
  BY <1>3, <1>8 DEF Outcome

-----------------------------------------------------------------------------
(* Resolve.                                                                *)

\* The document as a whole.
LEMMA RootParts ==
    ASSUME RawOK
    PROVE  /\ HeldBy(<< >>) = Values /\ Located(<< >>) = << >> /\ AllFrom(<< >>, Values)
           /\ Flawed(Values) <=> Invalid
           /\ Clash(Values) <=> Ambiguous
<1>1. << >> \in DOMAIN raw /\ Len(<< >>) = 0
  BY DEF RawOK
<1>2. Located(<< >>) = << >>
  <2>1. [i \in DOMAIN << >> |-> Segments(<< >>[i])] = << >>
    OBVIOUS
  <2> QED
    BY <2>1 DEF Located, FlattenSeq
<1>3. ASSUME NEW v \in Values PROVE v \in HeldBy(<< >>)
  <2>1. v \in DOMAIN raw /\ v \in Seq(Keys) /\ v # << >> /\ << >> \in Seq(Keys)
    BY DEF Values, RawOK
  <2>2. Len(v) \in Nat /\ 0 < Len(v) /\ 0 \in 0..(Len(v) - 1) /\ 0 + 1 = 1
    BY <2>1
  <2>3. Cut(v, 0) = << >> /\ v[1] \in Keys /\ Cut(v, 1) = Append(<< >>, v[1])
    <3>1. Cut(v, 0) = << >>
      BY <2>1, CutCut
    <3>2. v[0 + 1] \in Keys /\ Cut(v, 0 + 1) = Append(Cut(v, 0), v[0 + 1])
      BY <2>1, <2>2, CutNext
    <3> QED
      BY <2>2, <3>1, <3>2
  <2>4. Cut(v, 1) \in DOMAIN raw
    <3>1. CASE Len(v) = 1
      BY <2>1, <3>1, CutCut
    <3>2. CASE Len(v) # 1
      <4>0. \A m \in Nat : 0 < m /\ m # 1 => 1 \in 0..(m - 1)
        OBVIOUS
      <4>1. 1 \in 0..(Len(v) - 1)
        BY <2>2, <3>2, <4>0
      <4>2. \A w \in DOMAIN raw : \A i \in 0..(Len(w) - 1) : Cut(w, i) \in DOMAIN raw
        BY DEF RawOK
      <4> QED
        BY <2>1, <4>1, <4>2
    <3> QED
      BY <3>1, <3>2
  <2>5. v[1] \in KeysOf(<< >>)
    BY <2>3, <2>4 DEF KeysOf
  <2>6. v[Len(<< >>) + 1] \in KeysOf(<< >>)
    BY <1>1, <2>5
  <2> QED
    BY <1>1, <2>1, <2>2, <2>3, <2>6 DEF HeldBy, Held
<1>4. ASSUME NEW v \in HeldBy(<< >>) PROVE v \in Values
  <2>1. v \in DOMAIN raw /\ Len(<< >>) < Len(v)
    BY DEF HeldBy, Held
  <2>2. v # << >>
    BY <1>1, <2>1
  <2> QED
    BY <2>1, <2>2 DEF Values
<1>5. HeldBy(<< >>) = Values
  BY <1>3, <1>4
<1>6. AllFrom(<< >>, Values)
  BY <1>1, <1>2, <1>5, HeldFrom DEF HeldBy
<1>7. (Flawed(Values) <=> Invalid) /\ (Clash(Values) <=> Ambiguous)
  BY DEF Flawed, Invalid, Clash, Ambiguous
<1> QED
  BY <1>2, <1>5, <1>6, <1>7

\* An entry with a temperature.
Warm(T, p) == p \in DOMAIN T /\ T[p] # NoTemperature

\* The tree of a document has the temperatures the document gives, and an entry above
\* each of its entries.
LEMMA SeedTree ==
    ASSUME RawOK, ~Ambiguous
    PROVE  LET T == TreeOf(<< >>, Values)
           IN  /\ \A p \in Paths : Warm(T, p) <=> TempsAt(p) # {}
               /\ \A p \in Paths : Warm(T, p) => T[p] \in TempsAt(p)
               /\ \A p, q \in Paths : q \in DOMAIN T /\ IsPrefix(p, q) => p \in DOMAIN T
<1> DEFINE T == TreeOf(<< >>, Values)
<1>1. AllFrom(<< >>, Values) /\ ~Clash(Values)
  BY RootParts
<1>2. /\ DOMAIN T = Reached(<< >>, Values)
      /\ \A p \in DOMAIN T : T[p] = TempAt(Values, << >> \o p)
  BY <1>1, TreeParts
<1>3. \A p \in Paths : << >> \o p = p
  BY PathConcat
<1>4. << >> \in Paths
  BY DEF Paths
<1> HIDE DEF T
<1>5. ASSUME NEW p \in Paths PROVE TempsAt(p) = {raw[v] : v \in Hot(Values, p)}
  BY DEF TempsAt, Hot
<1>6. ASSUME NEW p \in Paths, Hot(Values, p) # {} PROVE p \in DOMAIN T
  <2>1. PICK v \in Values : Located(v) = p
    BY <1>6 DEF Hot
  <2>2. IsPrefix(<< >> \o p, Located(v))
    BY <1>3, <2>1, PathOrder
  <2> QED
    BY <1>2, <2>2 DEF Reached
<1>7. ASSUME NEW p \in Paths, p \in DOMAIN T PROVE T[p] # NoTemperature <=> Hot(Values, p) # {}
  BY <1>2, <1>3, <1>7, HotOne
<1>8. ASSUME NEW p \in Paths PROVE Warm(T, p) <=> TempsAt(p) # {}
  BY <1>5, <1>6, <1>7 DEF Warm
<1>9. ASSUME NEW p \in Paths, Warm(T, p) PROVE T[p] \in TempsAt(p)
  <2>1. p \in DOMAIN T
    BY <1>9 DEF Warm
  <2>2. PICK v \in Hot(Values, p) : TRUE
    BY <1>7, <1>9, <2>1 DEF Warm
  <2>3. T[p] = raw[v]
    BY <1>1, <1>2, <1>3, <2>1, <2>2, HotOne
  <2> QED
    BY <1>5, <2>2, <2>3
<1>10. ASSUME NEW p \in Paths, NEW q \in Paths, q \in DOMAIN T, IsPrefix(p, q) PROVE p \in DOMAIN T
  <2>1. CASE q = << >>
    <3>1. p = << >>
      BY <1>4, <1>10, <2>1, PathOrder
    <3> QED
      BY <1>10, <2>1, <3>1
  <2>2. CASE q # << >>
    <3>1. PICK v \in Values : IsPrefix(q, Located(v))
      BY <1>2, <1>3, <1>10, <2>2 DEF Reached
    <3>2. Located(v) \in Paths
      BY <1>1 DEF AllFrom
    <3>3. IsPrefix(<< >> \o p, Located(v))
      BY <1>3, <1>10, <3>1, <3>2, PathOrder
    <3> QED
      BY <1>2, <3>3 DEF Reached
  <2> QED
    BY <2>1, <2>2
<1>11. /\ \A p \in Paths : Warm(T, p) <=> TempsAt(p) # {}
       /\ \A p \in Paths : Warm(T, p) => T[p] \in TempsAt(p)
       /\ \A p, q \in Paths : q \in DOMAIN T /\ IsPrefix(p, q) => p \in DOMAIN T
  BY <1>8, <1>9, <1>10
<1> QED
  BY <1>11 DEF T

\* One segment of the walk, and what the function that Resolve computes satisfies.
Star(path, i) == Append(Cut(path, i), "*")
Fallback(T, path, temp, i) ==
    IF Star(path, i - 1) \in DOMAIN T /\ T[Star(path, i - 1)] # NoTemperature
    THEN T[Star(path, i - 1)] ELSE temp
Advance(T, path, a, i) ==
    IF a.done THEN a
    ELSE IF Cut(path, i) \notin DOMAIN T THEN [done |-> TRUE, temp |-> Fallback(T, path, a.temp, i)]
    ELSE IF T[Cut(path, i)] # NoTemperature THEN [done |-> TRUE, temp |-> T[Cut(path, i)]]
    ELSE [done |-> FALSE, temp |-> Fallback(T, path, a.temp, i)]
Start == [done |-> FALSE, temp |-> NoTemperature]
IsAfter(T, path, f) ==
    f = [i \in 0..Len(path) |-> IF i = 0 THEN Start ELSE Advance(T, path, f[i - 1], i)]

\* There is such a function.
LEMMA AfterExists ==
    ASSUME NEW T, NEW path \in Paths
    PROVE  \E f : IsAfter(T, path, f)
<1> DEFINE n == Len(path)
           Adv(a, i) == Advance(T, path, a, i)
           Sol(m, f) == f = [i \in 0..m |-> IF i = 0 THEN Start ELSE Adv(f[i - 1], i)]
           S == {m \in Nat : \E f : Sol(m, f)}
<1> HIDE DEF Adv
<1>1. n \in Nat
  BY DEF Paths
<1>2. 0 \in S
  <2> DEFINE f == [i \in 0..0 |-> Start]
  <2>1. Sol(0, f)
    OBVIOUS
  <2> HIDE DEF Sol, f
  <2> QED
    BY <2>1
<1>3. ASSUME NEW m \in Nat, m \in S PROVE m + 1 \in S
  <2>1. PICK f : Sol(m, f)
    <3> HIDE DEF Sol
    <3> QED
      BY <1>3
  <2> DEFINE e == Adv(f[m], m + 1)
             g == [i \in 0..(m + 1) |-> IF i = m + 1 THEN e ELSE f[i]]
  <2>2. \A i \in 0..m : f[i] = IF i = 0 THEN Start ELSE Adv(f[i - 1], i)
    BY <2>1
  <2>3. g[m + 1] = e /\ \A i \in 0..m : g[i] = f[i]
    <3> HIDE DEF e
    <3> QED
      OBVIOUS
  <2>4. ASSUME NEW i \in 0..(m + 1)
        PROVE  (IF i = m + 1 THEN e ELSE f[i]) = IF i = 0 THEN Start ELSE Adv(g[i - 1], i)
    <3>1. CASE i = m + 1
      <4>1. m \in 0..m /\ (m + 1) - 1 = m /\ m + 1 # 0
        OBVIOUS
      <4>2. Adv(g[i - 1], i) = e
        BY <2>3, <3>1, <4>1
      <4> HIDE DEF e, g
      <4> QED
        BY <3>1, <4>1, <4>2
    <3>2. CASE i # m + 1
      <4>1. i \in 0..m /\ (i # 0 => i - 1 \in 0..m)
        BY <3>2
      <4>2. i # 0 => g[i - 1] = f[i - 1]
        BY <2>3, <4>1
      <4> HIDE DEF e, g
      <4> QED
        BY <2>2, <3>2, <4>1, <4>2
    <3> QED
      BY <3>1, <3>2
  <2>5. Sol(m + 1, g)
    <3> HIDE DEF e
    <3> QED
      BY <2>4
  <2> HIDE DEF Sol, g
  <2> QED
    BY <2>5
<1>4. Nat \subseteq S
  <2> HIDE DEF S
  <2> QED
    BY <1>2, <1>3, NatSet
<1>5. PICK f : Sol(n, f)
  <2> HIDE DEF Sol
  <2> QED
    BY <1>1, <1>4
<1> QED
  BY <1>5 DEF IsAfter, Adv

\* The "*" nearest to segment i, and the paths up to segment i.
Globbed(T, path, i, temp) ==
    \/ \E j \in 0..(i - 1) : /\ Warm(T, Star(path, j)) /\ temp = T[Star(path, j)]
                             /\ \A l \in (j + 1)..(i - 1) : ~Warm(T, Star(path, l))
    \/ (\A j \in 0..(i - 1) : ~Warm(T, Star(path, j))) /\ temp = NoTemperature
Cold(T, path, i) == \A j \in 1..i : ~Warm(T, Cut(path, j))
Answer(T, path, temp) ==
    \/ \E j \in 1..Len(path) : Warm(T, Cut(path, j)) /\ temp = T[Cut(path, j)]
    \/ Cold(T, path, Len(path)) /\ Globbed(T, path, Len(path), temp)

\* The fallback is the "*" nearest to the next segment.
LEMMA FallbackGlobs ==
    ASSUME NEW T, NEW path \in Paths, NEW i \in Nat, NEW temp, Globbed(T, path, i, temp)
    PROVE  Globbed(T, path, i + 1, Fallback(T, path, temp, i + 1))
<1> DEFINE s == Star(path, i)
           W(j) == Warm(T, Star(path, j))
<1>1. Fallback(T, path, temp, i + 1) = IF W(i) THEN T[s] ELSE temp
  <2>1. (i + 1) - 1 = i
    OBVIOUS
  <2> QED
    BY <2>1 DEF Fallback, Warm
<1>2. \A j \in 0..((i + 1) - 1) : j = i \/ j \in 0..(i - 1)
  OBVIOUS
<1>3. CASE W(i)
  <2>1. i \in 0..((i + 1) - 1) /\ (i + 1)..((i + 1) - 1) = {}
    OBVIOUS
  <2> QED
    BY <1>1, <1>3, <2>1 DEF Globbed
<1>4. CASE ~W(i)
  <2>1. Fallback(T, path, temp, i + 1) = temp
    BY <1>1, <1>4
  <2>2. CASE \E j \in 0..(i - 1) : /\ W(j) /\ temp = T[Star(path, j)]
                                   /\ \A l \in (j + 1)..(i - 1) : ~W(l)
    <3>1. PICK j \in 0..(i - 1) : /\ W(j) /\ temp = T[Star(path, j)]
                                  /\ \A l \in (j + 1)..(i - 1) : ~W(l)
      BY <2>2
    <3>2. j \in 0..((i + 1) - 1) /\ \A l \in (j + 1)..((i + 1) - 1) : l = i \/ l \in (j + 1)..(i - 1)
      OBVIOUS
    <3>3. \A l \in (j + 1)..((i + 1) - 1) : ~W(l)
      <4> HIDE DEF W
      <4> QED
        BY <1>4, <3>1, <3>2
    <3> QED
      BY <2>1, <3>1, <3>2, <3>3 DEF Globbed
  <2>3. CASE (\A j \in 0..(i - 1) : ~W(j)) /\ temp = NoTemperature
    <3>1. \A j \in 0..((i + 1) - 1) : ~W(j)
      <4> HIDE DEF W
      <4> QED
        BY <1>2, <1>4, <2>3
    <3> QED
      BY <2>1, <2>3, <3>1 DEF Globbed
  <2> QED
    BY <2>2, <2>3 DEF Globbed
<1> QED
  BY <1>3, <1>4

\* Beyond a missing entry there is nothing.
LEMMA MissingIsLast ==
    ASSUME NEW T, NEW path \in Paths, NEW i \in 0..(Len(path) - 1), NEW temp,
           \A p, q \in Paths : q \in DOMAIN T /\ IsPrefix(p, q) => p \in DOMAIN T,
           Cut(path, i + 1) \notin DOMAIN T,
           Cold(T, path, i), Globbed(T, path, i + 1, temp)
    PROVE  Answer(T, path, temp)
<1> DEFINE n == Len(path)
           W(j) == Warm(T, Star(path, j))
<1>1. n \in Nat /\ i \in Nat /\ i + 1 \in 1..n /\ i + 1 \in 0..n /\ path \in Seq(Segment)
  BY DEF Paths
<1>2. ASSUME NEW j \in (i + 1)..n PROVE Cut(path, j) \notin DOMAIN T /\ Star(path, j) \notin DOMAIN T
  <2> DEFINE c == Cut(path, i + 1)
             d == Cut(path, j)
             s == Star(path, j)
  <2>1. j \in 0..n /\ i + 1 \in 0..j
    BY <1>1
  <2>2. d \in Seq(Segment) /\ Len(d) = j /\ c \in Seq(Segment) /\ Len(c) = i + 1
    BY <1>1, <2>1, CutParts
  <2>3. Cut(d, i + 1) = c
    BY <1>1, <2>1, CutCut
  <2>4. s \in Seq(Segment) /\ Len(s) = j + 1 /\ \A l \in 0..j : Cut(s, l) = Cut(d, l)
    <3>1. "*" \in Segment
      BY DEF Segment
    <3> HIDE DEF c
    <3> QED
      BY <2>2, <3>1, AppendParts DEF Star
  <2>5. Cut(s, i + 1) = c
    BY <2>1, <2>3, <2>4
  <2> HIDE DEF c, d, s
  <2>6. IsPrefix(c, d) /\ IsPrefix(c, s)
    <3>1. Len(c) <= Len(d) /\ Len(c) <= Len(s) /\ Cut(d, Len(c)) = c /\ Cut(s, Len(c)) = c
      BY <1>1, <2>1, <2>2, <2>3, <2>4, <2>5
    <3> QED
      BY <2>2, <2>4, <3>1, PrefixIsPart
  <2>7. c \in Paths /\ d \in Paths /\ s \in Paths
    BY <2>2, <2>4 DEF Paths
  <2>8. c \notin DOMAIN T
    BY DEF c
  <2>9. d \notin DOMAIN T /\ s \notin DOMAIN T
    BY <2>6, <2>7, <2>8
  <2> QED
    BY <2>9 DEF d, s
<1>3. Cold(T, path, n)
  <2>1. \A j \in 1..n : j \in 1..i \/ j \in (i + 1)..n
    BY <1>1
  <2> QED
    BY <1>2, <2>1 DEF Cold, Warm
<1>4. \A l \in (i + 1)..(n - 1) : ~W(l)
  <2>1. \A l \in (i + 1)..(n - 1) : l \in (i + 1)..n
    BY <1>1
  <2> QED
    BY <1>2, <2>1 DEF Warm
<1>5. \A l \in 0..(n - 1) : l \in 0..((i + 1) - 1) \/ l \in (i + 1)..(n - 1)
  BY <1>1
<1>6. Globbed(T, path, n, temp)
  <2>1. CASE \E j \in 0..((i + 1) - 1) : /\ W(j) /\ temp = T[Star(path, j)]
                                         /\ \A l \in (j + 1)..((i + 1) - 1) : ~W(l)
    <3>1. PICK j \in 0..((i + 1) - 1) : /\ W(j) /\ temp = T[Star(path, j)]
                                        /\ \A l \in (j + 1)..((i + 1) - 1) : ~W(l)
      BY <2>1
    <3>2. /\ j \in 0..(n - 1)
          /\ \A l \in (j + 1)..(n - 1) : l \in (j + 1)..((i + 1) - 1) \/ l \in (i + 1)..(n - 1)
      BY <1>1
    <3>3. \A l \in (j + 1)..(n - 1) : ~W(l)
      <4> HIDE DEF W
      <4> QED
        BY <1>4, <3>1, <3>2
    <3> QED
      BY <3>1, <3>2, <3>3 DEF Globbed
  <2>2. CASE (\A j \in 0..((i + 1) - 1) : ~W(j)) /\ temp = NoTemperature
    <3>1. \A j \in 0..(n - 1) : ~W(j)
      <4> HIDE DEF W
      <4> QED
        BY <1>4, <1>5, <2>2
    <3> QED
      BY <2>2, <3>1 DEF Globbed
  <2> QED
    BY <2>1, <2>2 DEF Globbed
<1> QED
  BY <1>3, <1>6 DEF Answer

\* Resolve gives the temperature of an entry on the path, or else of the nearest "*".
LEMMA ResolveAnswers ==
    ASSUME NEW T, NEW path \in Paths,
           \A p, q \in Paths : q \in DOMAIN T /\ IsPrefix(p, q) => p \in DOMAIN T
    PROVE  Answer(T, path, Resolve(T, path))
<1> DEFINE n == Len(path)
           Done(t) == [done |-> TRUE, temp |-> t]
           Going(t) == [done |-> FALSE, temp |-> t]
           f == CHOOSE h : IsAfter(T, path, h)
           Inv(i) == \E t : \/ f[i] = Done(t) /\ Answer(T, path, t)
                            \/ f[i] = Going(t) /\ Cold(T, path, i) /\ Globbed(T, path, i, t)
           S == {i \in Nat : i <= n => Inv(i)}
<1>1. n \in Nat
  BY DEF Paths
<1>2. Resolve(T, path) = f[n].temp
  BY DEF Resolve, IsAfter, Advance, Fallback, Star, Start, Cut
<1>3. IsAfter(T, path, f)
  BY AfterExists
<1> HIDE DEF f
<1>4. \A i \in 0..n : f[i] = IF i = 0 THEN Start ELSE Advance(T, path, f[i - 1], i)
  BY <1>3 DEF IsAfter
<1>5. ASSUME NEW i, NEW t PROVE Advance(T, path, Done(t), i) = Done(t)
  BY DEF Advance
<1>6. ASSUME NEW i, NEW t
      PROVE  Advance(T, path, Going(t), i) =
                IF Cut(path, i) \notin DOMAIN T THEN Done(Fallback(T, path, t, i))
                ELSE IF T[Cut(path, i)] # NoTemperature THEN Done(T[Cut(path, i)])
                ELSE Going(Fallback(T, path, t, i))
  BY DEF Advance
<1>7. (\A t : Done(t).temp = t) /\ (\A t : Going(t).temp = t) /\ Start = Going(NoTemperature)
  BY DEF Start
<1> HIDE DEF Done, Going
<1>8. 0 \in S
  <2>1. f[0] = Going(NoTemperature)
    BY <1>1, <1>4, <1>7
  <2>2. Cold(T, path, 0) /\ Globbed(T, path, 0, NoTemperature)
    BY DEF Cold, Globbed
  <2> QED
    BY <2>1, <2>2
<1>9. ASSUME NEW i \in Nat, i \in S PROVE i + 1 \in S
  <2> SUFFICES ASSUME i + 1 <= n PROVE Inv(i + 1)
    OBVIOUS
  <2>1. i \in 0..(n - 1) /\ i + 1 \in 0..n /\ i + 1 \in 1..n /\ i + 1 # 0 /\ (i + 1) - 1 = i /\ i <= n
    BY <1>1
  <2>2. f[i + 1] = Advance(T, path, f[i], i + 1)
    BY <1>4, <2>1
  <2>3. PICK t : \/ f[i] = Done(t) /\ Answer(T, path, t)
                 \/ f[i] = Going(t) /\ Cold(T, path, i) /\ Globbed(T, path, i, t)
    BY <1>9, <2>1
  <2>4. CASE f[i] = Done(t) /\ Answer(T, path, t)
    <3>1. f[i + 1] = Done(t)
      BY <1>5, <2>2, <2>4
    <3> QED
      BY <2>4, <3>1
  <2>5. CASE f[i] = Going(t) /\ Cold(T, path, i) /\ Globbed(T, path, i, t)
    <3> DEFINE c == Cut(path, i + 1)
               u == Fallback(T, path, t, i + 1)
    <3>1. f[i + 1] = IF c \notin DOMAIN T THEN Done(u)
                     ELSE IF T[c] # NoTemperature THEN Done(T[c]) ELSE Going(u)
      BY <1>6, <2>2, <2>5
    <3>2. Globbed(T, path, i + 1, u)
      BY <2>5, FallbackGlobs
    <3>3. c \notin DOMAIN T => Answer(T, path, u)
      BY <2>1, <2>5, <3>2, MissingIsLast
    <3>4. c \in DOMAIN T /\ T[c] # NoTemperature => Answer(T, path, T[c])
      BY <2>1 DEF Answer, Warm
    <3>5. ~(c \in DOMAIN T /\ T[c] # NoTemperature) => Cold(T, path, i + 1)
      <4>1. \A j \in 1..(i + 1) : j = i + 1 \/ j \in 1..i
        OBVIOUS
      <4> QED
        BY <2>5, <4>1 DEF Cold, Warm
    <3> HIDE DEF c, u
    <3> QED
      BY <3>1, <3>2, <3>3, <3>4, <3>5
  <2> QED
    BY <2>3, <2>4, <2>5
<1>10. Nat \subseteq S
  <2> HIDE DEF S
  <2> QED
    BY <1>8, <1>9, NatSet
<1>11. Inv(n)
  <2> HIDE DEF Inv
  <2> QED
    BY <1>1, <1>10
<1>12. PICK t : \/ f[n] = Done(t) /\ Answer(T, path, t)
                \/ f[n] = Going(t) /\ Cold(T, path, n) /\ Globbed(T, path, n, t)
  BY <1>11
<1>13. Answer(T, path, t) /\ f[n].temp = t
  BY <1>7, <1>12 DEF Answer
<1> QED
  BY <1>2, <1>13

\* Such a temperature is the one the keys say.
LEMMA AnswerSeeds ==
    ASSUME RawOK, ~Ambiguous, NEW path \in Paths, NEW temp,
           Answer(TreeOf(<< >>, Values), path, temp)
    PROVE  Seeded(path, temp)
<1> DEFINE T == TreeOf(<< >>, Values)
           n == Len(path)
           keyed == {i \in 1..n : TempsAt(Cut(path, i)) # {}}
           globs == {i \in 0..(n - 1) : TempsAt(Star(path, i)) # {}}
<1>1. n \in Nat /\ path \in Seq(Segment)
  BY DEF Paths
<1>2. ASSUME NEW i \in 0..n PROVE Cut(path, i) \in Paths /\ Star(path, i) \in Paths
  <2>1. Cut(path, i) \in Seq(Segment)
    BY <1>1, CutParts
  <2>2. "*" \in Segment
    BY DEF Segment
  <2> QED
    BY <2>1, <2>2, AppendParts DEF Star, Paths
<1>3. /\ \A p \in Paths : Warm(T, p) <=> TempsAt(p) # {}
      /\ \A p \in Paths : Warm(T, p) => T[p] \in TempsAt(p)
  BY SeedTree
<1> HIDE DEF T
<1>4. \A i \in 1..n : i \in 0..n
  BY <1>1
<1>5. \A i \in 0..(n - 1) : i \in 0..n
  BY <1>1
<1>6. \A i \in 1..n : /\ Warm(T, Cut(path, i)) <=> i \in keyed
                      /\ i \in keyed => T[Cut(path, i)] \in TempsAt(Cut(path, i))
  BY <1>2, <1>3, <1>4
<1>7. \A i \in 0..(n - 1) : /\ Warm(T, Star(path, i)) <=> i \in globs
                            /\ i \in globs => T[Star(path, i)] \in TempsAt(Star(path, i))
  BY <1>2, <1>3, <1>5
<1>8. Seeded(path, temp) <=>
        \/ \E i \in keyed : temp \in TempsAt(Cut(path, i))
        \/ /\ keyed = {}
           /\ \E i \in globs : /\ \A j \in globs : j <= i
                               /\ temp \in TempsAt(Star(path, i))
        \/ keyed = {} /\ globs = {} /\ temp = NoTemperature
  BY DEF Seeded, Cut, Star
<1>9. keyed \subseteq 1..n /\ globs \subseteq 0..(n - 1)
  OBVIOUS
<1> HIDE DEF keyed, globs
<1>10. CASE \E j \in 1..n : Warm(T, Cut(path, j)) /\ temp = T[Cut(path, j)]
  BY <1>6, <1>8, <1>10
<1>11. CASE Cold(T, path, n) /\ Globbed(T, path, n, temp)
  <2>1. keyed = {}
    BY <1>6, <1>9, <1>11 DEF Cold
  <2>2. CASE \E j \in 0..(n - 1) : /\ Warm(T, Star(path, j)) /\ temp = T[Star(path, j)]
                                   /\ \A l \in (j + 1)..(n - 1) : ~Warm(T, Star(path, l))
    <3>1. PICK j \in 0..(n - 1) : /\ Warm(T, Star(path, j)) /\ temp = T[Star(path, j)]
                                  /\ \A l \in (j + 1)..(n - 1) : ~Warm(T, Star(path, l))
      BY <2>2
    <3>2. j \in globs /\ temp \in TempsAt(Star(path, j))
      BY <1>7, <3>1
    <3>3. ASSUME NEW l \in globs PROVE l <= j
      <4>1. l \in 0..(n - 1) /\ Warm(T, Star(path, l))
        BY <1>7, <1>9
      <4>2. l \notin (j + 1)..(n - 1)
        BY <3>1, <4>1
      <4> QED
        BY <1>1, <4>1, <4>2
    <3> QED
      BY <1>8, <2>1, <3>2, <3>3
  <2>3. CASE (\A j \in 0..(n - 1) : ~Warm(T, Star(path, j))) /\ temp = NoTemperature
    <3>1. globs = {}
      BY <1>7, <1>9, <2>3
    <3> QED
      BY <1>8, <2>1, <2>3, <3>1
  <2> QED
    BY <1>11, <2>2, <2>3 DEF Globbed
<1> QED
  BY <1>10, <1>11 DEF Answer, T

\* .temp.json: in whatever order Go visits the keys, a document loads unless a key or a
\* value is invalid or a path is given two temperatures, and a file is seeded with what the
\* keys say of its path, for every document (insertKey, mergeEntry, buildEntry, parseValue
\* and Resolve).
THEOREM LoadsFollowTheKeys == TempFileSpec => []LoadFollowsTheKeys
<1>1. ASSUME RawOK PROVE LoadFollowsTheKeys
  <2>1. /\ HeldBy(<< >>) = Values /\ Located(<< >>) = << >> /\ AllFrom(<< >>, Values)
        /\ Flawed(Values) <=> Invalid
        /\ Clash(Values) <=> Ambiguous
    BY <1>1, RootParts
  <2>2. Load = {IF Invalid \/ Ambiguous THEN Failed ELSE TreeOf(<< >>, Values)}
    <3>1. Held(<< >>, KeysOf(<< >>)) = Values
      BY <2>1 DEF HeldBy
    <3> QED
      BY <1>1, <2>1, <3>1, ParseOutcome DEF Part
  <2>3. TreeOf(<< >>, Values) # Failed
    BY <2>1, TreeParts
  <2>4. ASSUME ~Ambiguous, NEW path \in SeedPaths
        PROVE  Seeded(path, Resolve(TreeOf(<< >>, Values), path))
    <3>1. path \in Paths
      BY TempFileAssumption, PathsOfStrings
    <3> DEFINE T == TreeOf(<< >>, Values)
    <3>2. \A p, q \in Paths : q \in DOMAIN T /\ IsPrefix(p, q) => p \in DOMAIN T
      BY <1>1, <2>4, SeedTree
    <3>3. Answer(T, path, Resolve(T, path))
      <4> HIDE DEF T
      <4> QED
        BY <3>1, <3>2, ResolveAnswers
    <3> QED
      BY <1>1, <2>4, <3>1, <3>3, AnswerSeeds
  <2> QED
    BY <2>2, <2>3, <2>4 DEF LoadFollowsTheKeys
<1> QED
  BY <1>1, InitRaw, NextRaw, PTL DEF TempFileSpec

-----------------------------------------------------------------------------
(* SearchQuery: what a rewrite keeps.                                      *)

Strings == Seq(Symbols)
Dropped == {"space", "quote", "OR"}
KeptOf(c) == IF c \in Dropped THEN << >> ELSE <<c>>
KernelOf(s) == FlattenSeq([i \in DOMAIN s |-> KeptOf(s[i])])
Kernels(ss) == [i \in DOMAIN ss |-> KernelOf(ss[i])]

\* Texts are put together in any order.
Associate(x, y, z) == (x \o y) \o z = x \o (y \o z)

LEMMA StringsAssociate ==
    ASSUME NEW x \in Strings, NEW y \in Strings, NEW z \in Strings
    PROVE  Associate(x, y, z)
BY ConcatAssociative DEF Strings, Associate

\* The kernel of a text that grows.
LEMMA KernelGrows ==
    ASSUME NEW s \in Strings, NEW c \in Symbols
    PROVE  /\ KernelOf(<< >>) = << >> /\ KernelOf(s) \in Strings
           /\ KernelOf(Append(s, c)) = KernelOf(s) \o KeptOf(c)
<1> DEFINE k == [i \in DOMAIN s |-> KeptOf(s[i])]
           m == [i \in DOMAIN Append(s, c) |-> KeptOf(Append(s, c)[i])]
<1>1. \A e \in Symbols : KeptOf(e) \in Strings
  BY DEF KeptOf, Strings
<1>2. s \in Seq(Symbols) /\ Len(s) \in Nat /\ DOMAIN s = 1..Len(s)
  BY DEF Strings
<1>3. k \in Seq(Strings) /\ Len(k) = Len(s) /\ \A i \in 1..Len(s) : k[i] = KeptOf(s[i])
  <2>1. \A i \in 1..Len(s) : KeptOf(s[i]) \in Strings
    BY <1>1, <1>2
  <2> QED
    BY <1>2, <2>1
<1>4. /\ DOMAIN Append(s, c) = 1..(Len(s) + 1)
      /\ Append(s, c)[Len(s) + 1] = c /\ \A i \in 1..Len(s) : Append(s, c)[i] = s[i]
  BY <1>2
<1> HIDE DEF k
<1>5. m = Append(k, KeptOf(c))
  <2>1. KeptOf(c) \in Strings
    BY <1>1
  <2>2. /\ Append(k, KeptOf(c)) \in Seq(Strings) /\ Len(Append(k, KeptOf(c))) = Len(s) + 1
        /\ Append(k, KeptOf(c))[Len(s) + 1] = KeptOf(c)
        /\ \A i \in 1..Len(s) : Append(k, KeptOf(c))[i] = k[i]
    BY <1>2, <1>3, <2>1
  <2>3. \A i \in 1..(Len(s) + 1) : i = Len(s) + 1 \/ i \in 1..Len(s)
    BY <1>2
  <2>4. \A i \in 1..(Len(s) + 1) : m[i] = Append(k, KeptOf(c))[i]
    BY <1>3, <1>4, <2>2, <2>3
  <2>5. m \in Seq(Strings) /\ Len(m) = Len(s) + 1
    <3>1. \A i \in 1..(Len(s) + 1) : KeptOf(Append(s, c)[i]) \in Strings
      BY <1>1, <1>2, <1>4, <2>3
    <3> QED
      BY <1>2, <1>4, <3>1
  <2> HIDE DEF m
  <2> QED
    BY <2>2, <2>4, <2>5, SeqEqual
<1>6. /\ FlattenSeq(<< >>) = << >> /\ FlattenSeq(k) \in Strings
      /\ FlattenSeq(Append(k, KeptOf(c))) = FlattenSeq(k) \o KeptOf(c)
  BY <1>1, <1>3, FlattenGrows DEF Strings
<1>7. KernelOf(<< >>) = << >>
  <2>1. [i \in DOMAIN << >> |-> KeptOf(<< >>[i])] = << >>
    OBVIOUS
  <2> QED
    BY <1>6, <2>1 DEF KernelOf
<1> QED
  BY <1>5, <1>6, <1>7 DEF KernelOf, k

\* The kernel of two texts, of one symbol, and of nothing but what is dropped.
LEMMA KernelConcat ==
    ASSUME NEW a \in Strings, NEW b \in Strings
    PROVE  a \o b \in Strings /\ KernelOf(a \o b) = KernelOf(a) \o KernelOf(b)
<1> DEFINE G == {s \in Strings : KernelOf(a \o s) = KernelOf(a) \o KernelOf(s)}
<1>1. a \in Seq(Symbols) /\ b \in Seq(Symbols)
  BY DEF Strings
<1>2. a \o b \in Strings
  BY <1>1, ConcatProperties DEF Strings
<1>3. PICK e : e \in Symbols
  BY DEF Symbols
<1>4. << >> \in G
  <2>1. << >> \in Strings /\ KernelOf(<< >>) = << >> /\ KernelOf(a) \in Strings
    BY <1>3, KernelGrows DEF Strings
  <2>2. a \o << >> = a /\ KernelOf(a) \o << >> = KernelOf(a)
    BY <1>1, <2>1, ConcatEmptySeq DEF Strings
  <2> QED
    BY <2>1, <2>2
<1>5. ASSUME NEW s \in Seq(Symbols), NEW c \in Symbols, s \in G PROVE Append(s, c) \in G
  <2> DEFINE t == a \o s
  <2>1. t \in Strings /\ s \in Strings
    BY <1>1, ConcatProperties DEF Strings
  <2>2. a \o Append(s, c) = Append(t, c)
    BY <1>1
  <2>3. /\ KernelOf(Append(t, c)) = KernelOf(t) \o KeptOf(c)
        /\ KernelOf(Append(s, c)) = KernelOf(s) \o KeptOf(c)
        /\ KernelOf(s) \in Strings /\ KernelOf(a) \in Strings
    BY <2>1, KernelGrows
  <2>4. KernelOf(t) = KernelOf(a) \o KernelOf(s)
    BY <1>5
  <2>5. KeptOf(c) \in Seq(Symbols)
    BY DEF KeptOf
  <2>6. (KernelOf(a) \o KernelOf(s)) \o KeptOf(c) = KernelOf(a) \o (KernelOf(s) \o KeptOf(c))
    <3>1. Associate(KernelOf(a), KernelOf(s), KeptOf(c))
      BY <2>3, <2>5, StringsAssociate DEF Strings
    <3> QED
      BY <3>1 DEF Associate
  <2>7. Append(s, c) \in Strings
    BY DEF Strings
  <2> QED
    BY <2>2, <2>3, <2>4, <2>6, <2>7
<1>6. Seq(Symbols) \subseteq G
  <2> HIDE DEF G
  <2> QED
    BY <1>4, <1>5, SeqSet
<1> QED
  BY <1>1, <1>2, <1>6

\* The kernel of one symbol, and of nothing but what is dropped.
LEMMA KernelDrops ==
    ASSUME NEW s \in Strings, NEW c \in Symbols
    PROVE  /\ <<c>> \in Strings /\ KernelOf(<<c>>) = KeptOf(c)
           /\ (\A i \in 1..Len(s) : s[i] \in Dropped) => KernelOf(s) = << >>
<1> DEFINE G == {t \in Strings : (\A i \in 1..Len(t) : t[i] \in Dropped) => KernelOf(t) = << >>}
<1>1. << >> \in Strings /\ KernelOf(<< >>) = << >> /\ <<c>> \in Strings
  BY KernelGrows DEF Strings
<1>2. KernelOf(<<c>>) = KeptOf(c)
  <2>1. KernelOf(Append(<< >>, c)) = KernelOf(<< >>) \o KeptOf(c)
    BY <1>1, KernelGrows
  <2>2. Append(<< >>, c) = <<c>>
    OBVIOUS
  <2>3. KeptOf(c) \in Seq(Symbols)
    BY DEF KeptOf
  <2>4. << >> \o KeptOf(c) = KeptOf(c)
    BY <2>3, ConcatEmptySeq
  <2> QED
    BY <1>1, <2>1, <2>2, <2>4
<1>3. << >> \in G
  BY <1>1
<1>4. ASSUME NEW t \in Seq(Symbols), NEW e \in Symbols, t \in G PROVE Append(t, e) \in G
  <2>1. t \in Strings /\ Append(t, e) \in Strings
    BY DEF Strings
  <2>2. ASSUME \A i \in 1..Len(Append(t, e)) : Append(t, e)[i] \in Dropped
        PROVE  KernelOf(Append(t, e)) = << >>
    <3>1. /\ Len(Append(t, e)) = Len(t) + 1 /\ Len(t) \in Nat /\ Append(t, e)[Len(t) + 1] = e
          /\ \A i \in 1..Len(t) : Append(t, e)[i] = t[i]
      OBVIOUS
    <3>2. e \in Dropped /\ \A i \in 1..Len(t) : t[i] \in Dropped
      BY <2>2, <3>1
    <3>3. KernelOf(t) = << >>
      BY <1>4, <3>2
    <3>4. KernelOf(Append(t, e)) = << >> \o << >>
      BY <2>1, <3>2, <3>3, KernelGrows DEF KeptOf
    <3> QED
      BY <3>4
  <2> QED
    BY <2>1, <2>2
<1>5. Seq(Symbols) \subseteq G
  <2> HIDE DEF G
  <2> QED
    BY <1>3, <1>4, SeqSet
<1>6. s \in G
  <2> HIDE DEF G
  <2> QED
    BY <1>5 DEF Strings
<1> QED
  BY <1>1, <1>2, <1>6

\* The kernel of a list of texts.
LEMMA KernelFlatten ==
    ASSUME NEW ss \in Seq(Strings)
    PROVE  /\ FlattenSeq(ss) \in Strings /\ Kernels(ss) \in Seq(Strings)
           /\ KernelOf(FlattenSeq(ss)) = FlattenSeq(Kernels(ss))
<1> DEFINE G == {t \in Seq(Strings) : /\ FlattenSeq(t) \in Strings /\ Kernels(t) \in Seq(Strings)
                                      /\ KernelOf(FlattenSeq(t)) = FlattenSeq(Kernels(t))}
<1>1. PICK e : e \in Symbols
  BY DEF Symbols
<1>2. << >> \in Strings /\ << >> \in Seq(Strings) /\ FlattenSeq(<< >>) = << >> /\ KernelOf(<< >>) = << >>
  <2>1. << >> \in Strings /\ << >> \in Seq(Strings)
    BY DEF Strings
  <2>2. FlattenSeq(<< >>) = << >>
    BY DEF FlattenSeq
  <2>3. KernelOf(<< >>) = << >>
    BY <1>1, <2>1, KernelGrows
  <2> QED
    BY <2>1, <2>2, <2>3
<1>3. << >> \in G
  <2>1. Kernels(<< >>) = << >>
    BY DEF Kernels
  <2> QED
    BY <1>2, <2>1
<1>4. ASSUME NEW t \in Seq(Strings), NEW x \in Strings, t \in G PROVE Append(t, x) \in G
  <2>1. /\ FlattenSeq(t) \in Strings /\ Kernels(t) \in Seq(Strings)
        /\ KernelOf(FlattenSeq(t)) = FlattenSeq(Kernels(t))
    BY <1>4
  <2>2. KernelOf(x) \in Strings
    BY <1>1, KernelGrows
  <2>3. Kernels(Append(t, x)) = Append(Kernels(t), KernelOf(x))
    <3> DEFINE a == Kernels(Append(t, x))
               b == Append(Kernels(t), KernelOf(x))
               n == Len(t)
    <3>1. /\ n \in Nat /\ DOMAIN t = 1..n /\ DOMAIN Append(t, x) = 1..(n + 1)
          /\ Append(t, x)[n + 1] = x /\ \A i \in 1..n : Append(t, x)[i] = t[i]
      OBVIOUS
    <3>2. a = [i \in 1..(n + 1) |-> KernelOf(Append(t, x)[i])]
      BY <3>1 DEF Kernels
    <3>3. Len(Kernels(t)) = n /\ \A i \in 1..n : Kernels(t)[i] = KernelOf(t[i])
      BY <2>1, <3>1 DEF Kernels
    <3>4. /\ b \in Seq(Strings) /\ Len(b) = n + 1 /\ b[n + 1] = KernelOf(x)
          /\ \A i \in 1..n : b[i] = Kernels(t)[i]
      BY <2>1, <2>2, <3>3
    <3>5. \A i \in 1..(n + 1) : i = n + 1 \/ i \in 1..n
      BY <3>1
    <3> HIDE DEF b
    <3>6. \A i \in 1..(n + 1) : KernelOf(Append(t, x)[i]) = b[i]
      BY <3>1, <3>3, <3>4, <3>5
    <3>7. b = [i \in 1..(n + 1) |-> b[i]]
      BY <3>4
    <3> HIDE DEF a, n
    <3>8. a = b
      BY <3>2, <3>6, <3>7
    <3> QED
      BY <3>8 DEF a, b
  <2>4. Append(Kernels(t), KernelOf(x)) \in Seq(Strings) /\ Append(t, x) \in Seq(Strings)
    BY <2>1, <2>2
  <2>5. /\ FlattenSeq(Append(t, x)) = FlattenSeq(t) \o x
        /\ FlattenSeq(Append(Kernels(t), KernelOf(x))) = FlattenSeq(Kernels(t)) \o KernelOf(x)
    BY <2>1, <2>2, FlattenGrows DEF Strings
  <2>6. /\ FlattenSeq(t) \o x \in Strings
        /\ KernelOf(FlattenSeq(t) \o x) = KernelOf(FlattenSeq(t)) \o KernelOf(x)
    BY <2>1, KernelConcat
  <2> QED
    BY <2>1, <2>3, <2>4, <2>5, <2>6
<1>5. Seq(Strings) \subseteq G
  <2> HIDE DEF G
  <2> QED
    BY <1>3, <1>4, SeqSet
<1> QED
  BY <1>5

\* Pieces of a text.
LEMMA PieceParts ==
    ASSUME NEW s \in Strings, NEW i \in 1..(Len(s) + 1), NEW k \in (i - 1)..Len(s)
    PROVE  /\ SubSeq(s, i, k) \in Strings /\ Len(SubSeq(s, i, k)) = k - i + 1
           /\ \A j \in 1..(k - i + 1) : SubSeq(s, i, k)[j] = s[i + j - 1]
           /\ \A n \in k..Len(s) : SubSeq(s, i, n) = SubSeq(s, i, k) \o SubSeq(s, k + 1, n)
<1>1. s \in Seq(Symbols) /\ Len(s) \in Nat /\ i \in Int /\ k \in Int /\ i \in Nat /\ k \in Nat
  BY DEF Strings
<1>2. \A j \in i..k : s[j] \in Symbols
  BY <1>1
<1>3. /\ SubSeq(s, i, k) \in Seq(Symbols)
      /\ Len(SubSeq(s, i, k)) = IF i <= k THEN k - i + 1 ELSE 0
      /\ \A j \in 1..(k - i + 1) : SubSeq(s, i, k)[j] = s[i + j - 1]
  BY <1>1, <1>2, SubSeqProperties
<1>4. ~(i <= k) => k - i + 1 = 0
  BY <1>1
<1>5. ASSUME NEW n \in k..Len(s) PROVE SubSeq(s, i, n) = SubSeq(s, i, k) \o SubSeq(s, k + 1, n)
  BY <1>1, ConcatAdjacentSubSeq
<1> QED
  BY <1>3, <1>4, <1>5 DEF Strings

\* The kernel of a text is that of its two parts, and of a whole text that of its middle
\* when only spaces are around it.
LEMMA KernelPieces ==
    ASSUME NEW s \in Strings, NEW i \in 1..(Len(s) + 1), NEW k \in (i - 1)..Len(s), NEW n \in k..Len(s)
    PROVE  /\ KernelOf(SubSeq(s, i, n)) = KernelOf(SubSeq(s, i, k)) \o KernelOf(SubSeq(s, k + 1, n))
           /\ KernelOf(SubSeq(s, i, k)) \in Strings
           /\ (\A j \in i..k : s[j] \in Dropped) => KernelOf(SubSeq(s, i, k)) = << >>
<1>1. s \in Seq(Symbols) /\ Len(s) \in Nat /\ i \in Nat /\ k \in Nat /\ n \in Nat
  BY DEF Strings
<1>2. k + 1 \in 1..(Len(s) + 1) /\ n \in ((k + 1) - 1)..Len(s)
  BY <1>1
<1> DEFINE a == SubSeq(s, i, k)
           b == SubSeq(s, k + 1, n)
<1>3. /\ a \in Strings /\ b \in Strings /\ SubSeq(s, i, n) = a \o b /\ Len(a) = k - i + 1
      /\ \A j \in 1..(k - i + 1) : a[j] = s[i + j - 1]
  BY <1>2, PieceParts
<1> HIDE DEF a, b
<1>4. KernelOf(a \o b) = KernelOf(a) \o KernelOf(b)
  BY <1>3, KernelConcat
<1>5. PICK e : e \in Symbols
  BY DEF Symbols
<1>6. KernelOf(a) \in Strings
  BY <1>3, <1>5, KernelGrows
<1>7. ASSUME \A j \in i..k : s[j] \in Dropped PROVE KernelOf(a) = << >>
  <2>1. \A j \in 1..(k - i + 1) : i + j - 1 \in i..k
    BY <1>1
  <2>2. \A j \in 1..Len(a) : a[j] \in Dropped
    BY <1>3, <1>7, <2>1
  <2> QED
    BY <1>3, <1>5, <2>2, KernelDrops
<1> QED
  BY <1>3, <1>4, <1>6, <1>7 DEF a, b

\* Every symbol of t is one of q.
DrawnFrom(t, q) == \A j \in 1..Len(t) : \E i \in 1..Len(q) : t[j] = q[i]

\* strings.TrimSpace keeps the kernel and drops spaces only.
LEMMA TrimKeeps ==
    ASSUME NEW s \in Strings
    PROVE  /\ TrimSpace(s) \in Strings /\ Len(TrimSpace(s)) <= Len(s)
           /\ KernelOf(TrimSpace(s)) = KernelOf(s)
           /\ DrawnFrom(TrimSpace(s), s)
           /\ TrimSpace(s) = << >> => \A i \in 1..Len(s) : s[i] = "space"
<1> DEFINE solid == {i \in DOMAIN s : s[i] # "space"}
           n == Len(s)
<1>1. s \in Seq(Symbols) /\ n \in Nat /\ DOMAIN s = 1..n /\ SubSeq(s, 1, n) = s /\ << >> \in Strings
  BY SubSeqFull DEF Strings
<1>2. "space" \in Dropped
  BY DEF Dropped
<1>3. CASE solid = {}
  <2>1. TrimSpace(s) = << >>
    BY <1>3 DEF TrimSpace
  <2>2. \A i \in 1..n : s[i] \in Dropped
    BY <1>1, <1>2, <1>3
  <2>3. PICK e : e \in Symbols
    BY DEF Symbols
  <2>4. KernelOf(s) = << >> /\ KernelOf(<< >>) = << >>
    BY <2>2, <2>3, KernelDrops, KernelGrows
  <2>5. Len(<< >>) = 0 /\ 0 <= n /\ \A j \in 1..0 : FALSE
    BY <1>1
  <2>6. DrawnFrom(<< >>, s)
    BY <2>5 DEF DrawnFrom
  <2>7. \A i \in 1..n : s[i] = "space"
    BY <1>1, <1>3
  <2> QED
    BY <1>1, <2>1, <2>4, <2>5, <2>6, <2>7
<1>4. CASE solid # {}
  <2> DEFINE a == Min(solid)
             b == Max(solid)
  <2>1. solid \subseteq Nat /\ solid \subseteq 0..n
    BY <1>1
  <2>2. TrimSpace(s) = SubSeq(s, a, b)
    BY <1>4 DEF TrimSpace
  <2>3. a \in solid /\ b \in solid /\ \A i \in solid : a <= i /\ i <= b
    <3> HIDE DEF solid
    <3> QED
      BY <1>1, <1>4, <2>1, MinMax
  <2> HIDE DEF a, b
  <2>4. a \in 1..n /\ b \in 1..n /\ a <= b /\ s[a] # "space"
    BY <1>1, <2>3
  <2>5. (\A i \in 1..(a - 1) : s[i] \in Dropped) /\ (\A i \in (b + 1)..n : s[i] \in Dropped)
    <3>1. ASSUME NEW i \in 1..(a - 1) PROVE s[i] \in Dropped
      BY <1>1, <1>2, <2>3, <2>4
    <3>2. ASSUME NEW i \in (b + 1)..n PROVE s[i] \in Dropped
      BY <1>1, <1>2, <2>3, <2>4
    <3> QED
      BY <3>1, <3>2
  <2> DEFINE x == KernelOf(SubSeq(s, 1, a - 1))
             y == KernelOf(SubSeq(s, a, b))
             z == KernelOf(SubSeq(s, b + 1, n))
  <2>6. KernelOf(SubSeq(s, 1, n)) = x \o KernelOf(SubSeq(s, a, n)) /\ x = << >>
    <3>1. 1 \in 1..(n + 1) /\ a - 1 \in (1 - 1)..n /\ n \in (a - 1)..n /\ (a - 1) + 1 = a
      BY <1>1, <2>4
    <3> QED
      BY <2>5, <3>1, KernelPieces
  <2>7. KernelOf(SubSeq(s, a, n)) = y \o z /\ y \in Strings
    <3>1. a \in 1..(n + 1) /\ b \in (a - 1)..n /\ n \in b..n
      BY <1>1, <2>4
    <3> QED
      BY <3>1, KernelPieces
  <2>8. z = << >>
    <3>1. b + 1 \in 1..(n + 1) /\ n \in ((b + 1) - 1)..n /\ n \in n..n
      BY <1>1, <2>4
    <3> QED
      BY <2>5, <3>1, KernelPieces
  <2> HIDE DEF x, y, z
  <2>9. KernelOf(s) = y
    <3>1. y \o << >> = y /\ << >> \o y = y
      BY <2>7, ConcatEmptySeq DEF Strings
    <3> QED
      BY <1>1, <2>6, <2>7, <2>8, <3>1
  <2>10. /\ SubSeq(s, a, b) \in Strings /\ Len(SubSeq(s, a, b)) = b - a + 1
         /\ DrawnFrom(SubSeq(s, a, b), s)
    <3>1. a \in 1..(n + 1) /\ b \in (a - 1)..n /\ \A j \in 1..(b - a + 1) : a + j - 1 \in 1..n
      BY <1>1, <2>4
    <3>2. \A j \in 1..(b - a + 1) : SubSeq(s, a, b)[j] = s[a + j - 1]
      BY <3>1, PieceParts
    <3>3. SubSeq(s, a, b) \in Strings /\ Len(SubSeq(s, a, b)) = b - a + 1
      BY <3>1, PieceParts
    <3> QED
      BY <3>1, <3>2, <3>3 DEF DrawnFrom
  <2>11. b - a + 1 <= n /\ b - a + 1 # 0 /\ Len(<< >>) = 0
    BY <1>1, <2>4
  <2> QED
    BY <2>2, <2>9, <2>10, <2>11 DEF y
<1> QED
  BY <1>3, <1>4

-----------------------------------------------------------------------------
(* SearchQuery: what a split keeps.                                        *)

\* Where the token that starts at or after i ends, and one step of the split.
CutEnd(q, i) == TokenStart(q, i) + TokenEnd(From(q, TokenStart(q, i)))
CutStep(q, f, i) ==
    IF TokenStart(q, i) > Len(q) THEN << >>
    ELSE <<SubSeq(q, TokenStart(q, i), CutEnd(q, i) - 1)>> \o f[CutEnd(q, i)]
IsSplit(q, f) == f = [i \in 1..(Len(q) + 1) |-> CutStep(q, f, i)]

\* The texts a token of q can be.
Pieces(q) == {t \in Strings : Len(t) \in 1..Len(q) /\ DrawnFrom(t, q)}

\* A token has a first symbol and stays inside its text.
LEMMA TokenInside ==
    ASSUME NEW s \in Strings, Len(s) >= 1
    PROVE  TokenEnd(s) \in 1..Len(s)
<1> DEFINE n == Len(s)
           closing == {i \in 2..n : s[i] = "quote"}
           breaks == {i \in 2..n : s[i] = "space" /\ Depth(s, DOMAIN s)[i] = 0}
           c == closing \cup {n}
           b == breaks \cup {n + 1}
<1>1. n \in Nat
  BY DEF Strings
<1>2. TokenEnd(s) = IF s[1] = "quote" THEN Min(c) ELSE Min(b) - 1
  BY DEF TokenEnd
<1>3. c # {} /\ c \subseteq 1..n /\ c \subseteq Nat
  BY <1>1
<1>4. b # {} /\ b \subseteq 2..(n + 1) /\ b \subseteq Nat
  BY <1>1
<1> HIDE DEF b, c
<1>5. Min(c) \in c /\ Min(b) \in b
  BY <1>3, <1>4, MinMax
<1>6. Min(c) \in 1..n /\ Min(b) - 1 \in 1..n
  <2>1. Min(c) \in 1..n /\ Min(b) \in 2..(n + 1)
    BY <1>3, <1>4, <1>5, Zenon
  <2> HIDE DEF n
  <2> QED
    BY <1>1, <2>1
<1> QED
  BY <1>2, <1>6

\* Where a token starts and ends.
LEMMA TokenCut ==
    ASSUME NEW q \in Strings, NEW i \in 1..(Len(q) + 1)
    PROVE  /\ TokenStart(q, i) \in i..(Len(q) + 1)
           /\ \A j \in i..(TokenStart(q, i) - 1) : q[j] = "space"
           /\ TokenStart(q, i) <= Len(q) => CutEnd(q, i) \in (TokenStart(q, i) + 1)..(Len(q) + 1)
<1> DEFINE n == Len(q)
           K == {j \in i..n : q[j] # "space"} \cup {n + 1}
           m == TokenStart(q, i)
<1>1. n \in Nat /\ i \in Nat /\ i <= n + 1
  BY DEF Strings
<1>2. K # {} /\ K \subseteq i..(n + 1) /\ K \subseteq Nat
  BY <1>1
<1>3. m = Min(K)
  BY DEF TokenStart
<1>4. m \in K /\ \A y \in K : m <= y
  <2> HIDE DEF K, m
  <2> QED
    BY <1>2, <1>3, MinMax
<1> HIDE DEF m
<1>5. m \in i..(n + 1)
  BY <1>2, <1>4
<1>6. ASSUME NEW j \in i..(m - 1) PROVE q[j] = "space"
  <2>1. j \in i..n /\ ~(m <= j)
    BY <1>1, <1>5
  <2> QED
    BY <1>4, <2>1
<1>7. ASSUME m <= n PROVE CutEnd(q, i) \in (m + 1)..(n + 1)
  <2> DEFINE s == From(q, m)
  <2>1. m \in 1..(n + 1) /\ n \in (m - 1)..n /\ n - m + 1 >= 1 /\ m \in Nat
    BY <1>1, <1>5, <1>7
  <2>2. s \in Strings /\ Len(s) = n - m + 1
    BY <2>1, PieceParts DEF From
  <2> HIDE DEF s
  <2>3. TokenEnd(s) \in 1..(n - m + 1)
    BY <2>1, <2>2, TokenInside
  <2>4. CutEnd(q, i) = m + TokenEnd(s)
    BY DEF CutEnd, m, s
  <2> QED
    BY <1>1, <2>1, <2>3, <2>4
<1> QED
  BY <1>5, <1>6, <1>7 DEF m

\* One step of the split gives tokens of q, and asks only about what is behind it.
LEMMA CutStepParts ==
    ASSUME NEW q \in Strings, NEW i \in 1..(Len(q) + 1), NEW f,
           \A k \in 1..(Len(q) + 1) : k > i => f[k] \in Seq(Pieces(q))
    PROVE  /\ CutStep(q, f, i) \in Seq(Pieces(q))
           /\ \A g : (\A k \in 1..(Len(q) + 1) : k > i => f[k] = g[k]) =>
                        CutStep(q, f, i) = CutStep(q, g, i)
<1> DEFINE n == Len(q)
           m == TokenStart(q, i)
           e == CutEnd(q, i)
           t == SubSeq(q, m, e - 1)
<1>1. n \in Nat /\ i \in Nat /\ i <= n + 1 /\ m \in i..(n + 1) /\ (m <= n => e \in (m + 1)..(n + 1))
  BY TokenCut DEF Strings
<1>2. CASE m > n
  <2>1. \A g : CutStep(q, g, i) = << >>
    BY <1>2 DEF CutStep
  <2>2. << >> \in Seq(Pieces(q)) /\ CutStep(q, f, i) = << >>
    BY <2>1
  <2> QED
    BY <2>1, <2>2, Zenon
<1>3. CASE ~(m > n)
  <2>1. \A g : CutStep(q, g, i) = <<t>> \o g[e]
    BY <1>3 DEF CutStep
  <2> HIDE DEF m, e
  <2>2. /\ m \in 1..(n + 1) /\ e - 1 \in (m - 1)..n /\ (e - 1) - m + 1 \in 1..n
        /\ e \in 1..(n + 1) /\ e > i
    BY <1>1, <1>3
  <2>3. t \in Strings /\ Len(t) = (e - 1) - m + 1
    BY <2>2, PieceParts
  <2>4. t \in Pieces(q)
    <3>1. \A j \in 1..((e - 1) - m + 1) : t[j] = q[m + j - 1] /\ m + j - 1 \in 1..n
      <4>1. \A j \in 1..((e - 1) - m + 1) : t[j] = q[m + j - 1]
        BY <2>2, PieceParts
      <4>2. \A j \in 1..((e - 1) - m + 1) : m + j - 1 \in 1..n
        BY <1>1, <1>3
      <4> QED
        BY <4>1, <4>2
    <3> QED
      BY <2>2, <2>3, <3>1 DEF Pieces, DrawnFrom
  <2>5. f[e] \in Seq(Pieces(q))
    BY <2>2
  <2> HIDE DEF t, n
  <2>6. <<t>> \o f[e] \in Seq(Pieces(q))
    <3>1. <<t>> \in Seq(Pieces(q))
      BY <2>4
    <3> QED
      BY <2>5, <3>1, ConcatProperties
  <2>7. ASSUME NEW g, \A k \in 1..(n + 1) : k > i => f[k] = g[k]
        PROVE  CutStep(q, f, i) = CutStep(q, g, i)
    BY <2>1, <2>2, <2>7
  <2> QED
    BY <2>1, <2>6, <2>7 DEF n
<1> QED
  BY <1>2, <1>3

\* The split's recursion has a solution.
LEMMA SplitExists ==
    ASSUME NEW q \in Strings
    PROVE  \E f : IsSplit(q, f)
<1> DEFINE n == Len(q)
           D == 1..(n + 1)
           A == Seq(Pieces(q))
           R == [i \in D |-> [f \in [D -> A] |-> CutStep(q, f, i)]]
           rank == [i \in D |-> n + 1 - i]
           start == [i \in D |-> << >>]
<1>1. n \in Nat
  BY DEF Strings
<1>2. rank \in [D -> Nat] /\ \A i \in D : rank[i] <= n + 1
  BY <1>1
<1>3. start \in [D -> A]
  OBVIOUS
<1>4. R \in [D -> [[D -> A] -> A]]
  <2>1. ASSUME NEW i \in D, NEW f \in [D -> A] PROVE CutStep(q, f, i) \in A
    BY CutStepParts
  <2> QED
    BY <2>1
<1>5. ASSUME NEW i \in D, NEW f \in [D -> A], NEW g \in [D -> A],
             \A k \in D : rank[k] < rank[i] => f[k] = g[k]
      PROVE  R[i][f] = R[i][g]
  <2>1. \A k \in D : k > i => rank[k] < rank[i]
    BY <1>1
  <2>2. \A k \in D : k > i => f[k] = g[k] /\ f[k] \in A
    BY <1>5, <2>1
  <2>3. CutStep(q, f, i) = CutStep(q, g, i)
    BY <2>2, CutStepParts
  <2> QED
    BY <2>3
<1>6. \A i \in D : \A f \in [D -> A] : R[i][f] = CutStep(q, f, i)
  OBVIOUS
<1>7. PICK f \in [D -> A] : \A i \in D : f[i] = R[i][f]
  <2>1. n + 1 \in Nat
    BY <1>1
  <2>2. \A i \in D : \A f, g \in [D -> A] :
           (\A k \in D : rank[k] < rank[i] => f[k] = g[k]) => R[i][f] = R[i][g]
    BY <1>5, Zenon
  <2> HIDE DEF D, A, R, rank, start, n
  <2>3. IsRecursion(D, A, R, rank, n + 1, start)
    BY <1>2, <1>3, <1>4, <2>1, <2>2, Zenon DEF IsRecursion
  <2> QED
    BY <2>3, Recursion
<1>8. f = [i \in D |-> CutStep(q, f, i)]
  BY <1>6, <1>7
<1> QED
  BY <1>8 DEF IsSplit

\* splitFTSQuery gives tokens that are not empty and no longer than the query, and keeps
\* every symbol but spaces between tokens.
LEMMA SplitKeeps ==
    ASSUME NEW q \in Strings
    PROVE  /\ SplitFTSQuery(q) \in Seq(Pieces(q))
           /\ KernelOf(FlattenSeq(SplitFTSQuery(q))) = KernelOf(q)
<1> DEFINE n == Len(q)
           D == 1..(n + 1)
           f == CHOOSE g : IsSplit(q, g)
           Good(i) == /\ f[i] \in Seq(Pieces(q))
                      /\ KernelOf(FlattenSeq(f[i])) = KernelOf(From(q, i))
           S == {k \in Nat : \A i \in D : n + 1 - i < k => Good(i)}
<1>1. n \in Nat
  BY DEF Strings
<1>2. SplitFTSQuery(q) = f[1]
  BY DEF SplitFTSQuery, IsSplit, CutStep, CutEnd
<1>3. IsSplit(q, f)
  BY SplitExists
<1> HIDE DEF f
<1>4. \A i \in D : f[i] = CutStep(q, f, i)
  BY <1>3, Zenon DEF IsSplit
<1>5. PICK c : c \in Symbols
  BY DEF Symbols
<1>6. Seq(Pieces(q)) \subseteq Seq(Strings)
  <2>1. Pieces(q) \subseteq Strings
    BY DEF Pieces
  <2> QED
    BY <2>1
<1>7. 0 \in S
  BY <1>1
<1>8. ASSUME NEW k \in Nat, k \in S PROVE k + 1 \in S
  <2> SUFFICES ASSUME NEW i \in D, n + 1 - i < k + 1 PROVE Good(i)
    BY <1>8
  <2>1. ASSUME NEW j \in D, j > i PROVE Good(j)
    <3>1. n + 1 - j < k
      BY <1>1, <2>1
    <3> QED
      BY <1>8, <3>1
  <2> DEFINE m == TokenStart(q, i)
             e == CutEnd(q, i)
             t == SubSeq(q, m, e - 1)
  <2>2. i \in Nat /\ i <= n + 1 /\ m \in i..(n + 1) /\ (m <= n => e \in (m + 1)..(n + 1))
    BY <1>1, TokenCut
  <2>3. KernelOf(SubSeq(q, i, n)) = KernelOf(SubSeq(q, m, n))
    <3>1. \A j \in i..(m - 1) : q[j] \in Dropped
      BY TokenCut DEF Dropped
    <3> HIDE DEF m
    <3>2. i \in 1..(n + 1) /\ m - 1 \in (i - 1)..n /\ n \in (m - 1)..n /\ (m - 1) + 1 = m
      BY <1>1, <2>2
    <3>3. /\ KernelOf(SubSeq(q, i, n)) = KernelOf(SubSeq(q, i, m - 1)) \o KernelOf(SubSeq(q, (m - 1) + 1, n))
          /\ KernelOf(SubSeq(q, i, m - 1)) = << >>
      BY <3>1, <3>2, KernelPieces
    <3>4. SubSeq(q, m, n) \in Strings
      <4>1. m \in 1..(n + 1) /\ n \in (m - 1)..n
        BY <1>1, <2>2
      <4> QED
        BY <4>1, PieceParts
    <3>5. KernelOf(SubSeq(q, m, n)) \in Seq(Symbols)
      BY <1>5, <3>4, KernelGrows DEF Strings
    <3> QED
      BY <3>2, <3>3, <3>5, ConcatEmptySeq
  <2>4. f[i] \in Seq(Pieces(q))
    BY <1>4, <2>1, CutStepParts
  <2>5. CASE m > n
    <3>1. f[i] = << >>
      BY <1>4, <2>5 DEF CutStep
    <3>2. m = n + 1
      BY <1>1, <2>2, <2>5
    <3>3. SubSeq(q, m, n) = << >>
      BY <1>1, <3>2, SubSeqEmpty
    <3>4. FlattenSeq(<< >>) = << >>
      BY DEF FlattenSeq
    <3> QED
      BY <2>3, <2>4, <3>1, <3>3, <3>4 DEF From
  <2>6. CASE ~(m > n)
    <3>1. f[i] = <<t>> \o f[e]
      BY <1>4, <2>6 DEF CutStep
    <3> HIDE DEF m, e
    <3>2. /\ m \in 1..(n + 1) /\ e - 1 \in (m - 1)..n /\ n \in (e - 1)..n
          /\ e \in D /\ e > i /\ (e - 1) + 1 = e
      BY <1>1, <2>2, <2>6
    <3>3. Good(e)
      BY <2>1, <3>2
    <3>4. KernelOf(SubSeq(q, m, n)) = KernelOf(t) \o KernelOf(SubSeq(q, e, n)) /\ t \in Strings
      <4>1. KernelOf(SubSeq(q, m, n)) = KernelOf(t) \o KernelOf(SubSeq(q, (e - 1) + 1, n))
        BY <3>2, KernelPieces
      <4>2. t \in Strings
        BY <3>2, PieceParts
      <4> QED
        BY <3>2, <4>1, <4>2
    <3> HIDE DEF t
    <3>5. f[e] \in Seq(Strings)
      BY <1>6, <3>3
    <3>6. FlattenSeq(<<t>> \o f[e]) = t \o FlattenSeq(f[e]) /\ FlattenSeq(f[e]) \in Strings
      <4>1. FlattenSeq(f[e]) \in Strings
        BY <3>5, KernelFlatten
      <4>2. FlattenSeq(<<t>> \o f[e]) = t \o FlattenSeq(f[e])
        BY <3>4, <3>5, FlattenCons DEF Strings
      <4> QED
        BY <4>1, <4>2
    <3>7. KernelOf(t \o FlattenSeq(f[e])) = KernelOf(t) \o KernelOf(FlattenSeq(f[e]))
      BY <3>4, <3>6, KernelConcat
    <3> QED
      BY <2>3, <2>4, <3>1, <3>3, <3>4, <3>6, <3>7 DEF From
  <2> QED
    BY <2>5, <2>6
<1>9. Good(1)
  <2>1. Nat \subseteq S
    <3> HIDE DEF S
    <3> QED
      BY <1>7, <1>8, NatSet
  <2>2. n + 1 \in S /\ 1 \in D /\ n + 1 - 1 < n + 1
    BY <1>1, <2>1
  <2> QED
    BY <2>2
<1>10. From(q, 1) = q
  BY SubSeqFull DEF From, Strings
<1> QED
  BY <1>2, <1>9, <1>10

-----------------------------------------------------------------------------
(* SearchQuery: what a rewrite of tokens keeps.                            *)

\* Lists of texts with the same kernels have the same kernel.
LEMMA KernelsAgree ==
    ASSUME NEW a \in Seq(Strings), NEW b \in Seq(Strings), DOMAIN a = DOMAIN b,
           \A i \in DOMAIN a : KernelOf(a[i]) = KernelOf(b[i])
    PROVE  FlattenSeq(a) \in Strings /\ KernelOf(FlattenSeq(a)) = KernelOf(FlattenSeq(b))
<1>1. Kernels(a) = Kernels(b)
  BY DEF Kernels
<1> QED
  BY <1>1, KernelFlatten

\* strings.Join with a space keeps the kernel.
LEMMA JoinKeeps ==
    ASSUME NEW tokens \in Seq(Strings)
    PROVE  JoinTokens(tokens) \in Strings /\ KernelOf(JoinTokens(tokens)) = KernelOf(FlattenSeq(tokens))
<1> DEFINE padded == [i \in DOMAIN tokens |-> IF i = 1 THEN tokens[i] ELSE <<"space">> \o tokens[i]]
<1>1. Len(tokens) \in Nat /\ DOMAIN tokens = 1..Len(tokens) /\ \A i \in DOMAIN tokens : tokens[i] \in Strings
  OBVIOUS
<1>2. "space" \in Symbols /\ "space" \in Dropped
  BY DEF Symbols, Dropped
<1>3. ASSUME NEW t \in Strings
      PROVE  <<"space">> \o t \in Strings /\ KernelOf(<<"space">> \o t) = KernelOf(t)
  <2>1. <<"space">> \in Strings /\ KernelOf(<<"space">>) = << >>
    BY <1>2, <1>3, KernelDrops DEF KeptOf
  <2>2. KernelOf(t) \in Seq(Symbols)
    BY <1>2, KernelGrows DEF Strings
  <2>3. << >> \o KernelOf(t) = KernelOf(t)
    BY <2>2, ConcatEmptySeq
  <2> QED
    BY <2>1, <2>3, KernelConcat
<1>4. \A i \in DOMAIN tokens : padded[i] \in Strings /\ KernelOf(padded[i]) = KernelOf(tokens[i])
  BY <1>1, <1>3
<1>5. padded \in Seq(Strings) /\ DOMAIN padded = DOMAIN tokens
  BY <1>1, <1>4
<1>6. JoinTokens(tokens) = FlattenSeq(padded)
  BY DEF JoinTokens
<1> HIDE DEF padded
<1> QED
  BY <1>4, <1>5, <1>6, KernelsAgree

\* A text between two symbols.
LEMMA KernelBetween ==
    ASSUME NEW x \in Strings, NEW c \in Symbols, NEW d \in Symbols
    PROVE  /\ <<c>> \o x \in Strings /\ KernelOf(<<c>> \o x) = KeptOf(c) \o KernelOf(x)
           /\ x \o <<d>> \in Strings /\ KernelOf(x \o <<d>>) = KernelOf(x) \o KeptOf(d)
           /\ (<<c>> \o x) \o <<d>> \in Strings
           /\ KernelOf((<<c>> \o x) \o <<d>>) = (KeptOf(c) \o KernelOf(x)) \o KeptOf(d)
<1>1. /\ <<c>> \in Strings /\ KernelOf(<<c>>) = KeptOf(c)
      /\ <<d>> \in Strings /\ KernelOf(<<d>>) = KeptOf(d)
  BY KernelDrops
<1>2. /\ <<c>> \o x \in Strings /\ KernelOf(<<c>> \o x) = KernelOf(<<c>>) \o KernelOf(x)
      /\ x \o <<d>> \in Strings /\ KernelOf(x \o <<d>>) = KernelOf(x) \o KernelOf(<<d>>)
  BY <1>1, KernelConcat
<1> DEFINE y == <<c>> \o x
           z == <<d>>
<1>3. y \in Strings /\ z \in Strings
  BY <1>1, <1>2
<1> HIDE DEF y, z
<1>4. y \o z \in Strings /\ KernelOf(y \o z) = KernelOf(y) \o KernelOf(z)
  BY <1>3, KernelConcat
<1> QED
  BY <1>1, <1>2, <1>4 DEF y, z

\* Quoting a text adds quotes only.
LEMMA QuoteKeeps ==
    ASSUME NEW s \in Strings
    PROVE  QuoteFTSToken(s) \in Strings /\ KernelOf(QuoteFTSToken(s)) = KernelOf(s)
<1> DEFINE g == [i \in DOMAIN s |-> IF s[i] = "quote" THEN <<"quote", "quote">> ELSE <<s[i]>>]
           k == [i \in DOMAIN s |-> KeptOf(s[i])]
<1>1. s \in Seq(Symbols) /\ Len(s) \in Nat /\ DOMAIN s = 1..Len(s) /\ \A i \in DOMAIN s : s[i] \in Symbols
  BY DEF Strings
<1>2. "quote" \in Symbols /\ "quote" \in Dropped
  BY DEF Symbols, Dropped
<1>3. <<"quote", "quote">> \in Strings /\ KernelOf(<<"quote", "quote">>) = KeptOf("quote")
  <2>1. <<"quote", "quote">> \in Strings
    BY <1>2 DEF Strings
  <2>2. \A i \in 1..Len(<<"quote", "quote">>) : <<"quote", "quote">>[i] \in Dropped
    BY <1>2
  <2> QED
    BY <1>2, <2>1, <2>2, KernelDrops DEF KeptOf
<1>4. ASSUME NEW c \in Symbols PROVE <<c>> \in Strings /\ KernelOf(<<c>>) = KeptOf(c)
  BY KernelDrops
<1>5. \A i \in DOMAIN s : g[i] \in Strings /\ KernelOf(g[i]) = KeptOf(s[i])
  BY <1>1, <1>3, <1>4
<1>6. g \in Seq(Strings) /\ DOMAIN g = DOMAIN s
  BY <1>1, <1>5
<1> DEFINE x == FlattenSeq(g)
<1>7. QuoteFTSToken(s) = (<<"quote">> \o x) \o <<"quote">>
  BY DEF QuoteFTSToken
<1> HIDE DEF g
<1>8. Kernels(g) = k
  BY <1>5, <1>6 DEF Kernels
<1>9. x \in Strings /\ KernelOf(x) = KernelOf(s)
  <2>1. KernelOf(s) = FlattenSeq(k)
    BY DEF KernelOf
  <2> QED
    BY <1>6, <1>8, <2>1, KernelFlatten
<1> HIDE DEF x, k
<1>10. KernelOf(s) \in Seq(Symbols)
  BY <1>2, KernelGrows DEF Strings
<1>11. KeptOf("quote") = << >>
  BY <1>2 DEF KeptOf
<1>12. (<< >> \o KernelOf(s)) \o << >> = KernelOf(s)
  BY <1>10, ConcatEmptySeq
<1> QED
  BY <1>2, <1>7, <1>9, <1>11, <1>12, KernelBetween

\* A prefix term keeps its star.
LEMMA PrefixKeeps ==
    ASSUME NEW s \in Strings
    PROVE  PrefixTerm(s) \in Strings /\ KernelOf(PrefixTerm(s)) = KernelOf(s) \o KeptOf("*")
<1> DEFINE x == IF NeedsFtsQuoting(s) THEN QuoteFTSToken(s) ELSE s
<1>1. x \in Strings /\ KernelOf(x) = KernelOf(s)
  BY QuoteKeeps
<1>2. PrefixTerm(s) = x \o <<"*">>
  BY DEF PrefixTerm
<1>3. "*" \in Symbols
  BY DEF Symbols
<1> HIDE DEF x
<1> QED
  BY <1>1, <1>2, <1>3, KernelBetween

\* A piece of one symbol.
LEMMA PieceOfOne ==
    ASSUME NEW s \in Strings, NEW i \in 1..Len(s)
    PROVE  SubSeq(s, i, i) = <<s[i]>>
<1> DEFINE n == Len(s)
<1>0. n \in Nat
  BY DEF Strings
<1>1. i \in 1..(n + 1) /\ i \in (i - 1)..n /\ i - i + 1 = 1 /\ i + 1 - 1 = i /\ 1 \in 1..1
  BY <1>0
<1>2. SubSeq(s, i, i) \in Seq(Symbols) /\ Len(SubSeq(s, i, i)) = 1 /\ SubSeq(s, i, i)[1] = s[i]
  <2>1. /\ SubSeq(s, i, i) \in Strings /\ Len(SubSeq(s, i, i)) = i - i + 1
        /\ \A j \in 1..(i - i + 1) : SubSeq(s, i, i)[j] = s[i + j - 1]
    BY <1>1, PieceParts
  <2> QED
    BY <1>1, <2>1 DEF Strings
<1> DEFINE x == SubSeq(s, i, i)
           y == s[i]
<1> HIDE DEF x, y
<1>3. x \in Seq(Symbols) /\ Len(x) = 1 /\ x[1] = y
  BY <1>2 DEF x, y
<1>4. x = <<y>>
  BY <1>3
<1> QED
  BY <1>4 DEF x, y

\* The first and the last symbol of a text and what is between them.
LEMMA Ends ==
    ASSUME NEW s \in Strings, Len(s) >= 2
    PROVE  /\ s[1] \in Symbols /\ Last(s) \in Symbols
           /\ Tail(s) \in Strings /\ Len(Tail(s)) = Len(s) - 1
           /\ Front(s) \in Strings /\ Len(Front(s)) = Len(s) - 1
           /\ Inside(s, 1) \in Strings /\ Len(Inside(s, 1)) = Len(s) - 2
           /\ s = <<s[1]>> \o Tail(s)
           /\ s = Front(s) \o <<Last(s)>>
           /\ s = (<<s[1]>> \o Inside(s, 1)) \o <<Last(s)>>
<1> DEFINE n == Len(s)
<1>1. n \in Nat /\ n \in 1..n /\ 1 \in 1..n /\ s \in Seq(Symbols) /\ SubSeq(s, 1, n) = s
  BY SubSeqFull DEF Strings
<1>2. s[1] \in Symbols /\ Last(s) \in Symbols /\ Last(s) = s[n]
  BY <1>1 DEF Last
<1>3. \A i \in 1..n : SubSeq(s, i, i) = <<s[i]>>
  BY PieceOfOne
<1>4. Tail(s) = SubSeq(s, 2, n)
  BY <1>1, TailIsSubSeq
<1>5. Front(s) = SubSeq(s, 1, n - 1) /\ Inside(s, 1) = SubSeq(s, 2, n - 1)
  <2>1. 1 + 1 = 2
    OBVIOUS
  <2> QED
    BY <2>1 DEF Front, Inside
<1>6. Tail(s) \in Strings /\ Len(Tail(s)) = n - 1 /\ s = <<s[1]>> \o Tail(s)
  <2>1. /\ 2 \in 1..(n + 1) /\ n \in (2 - 1)..n /\ n - 2 + 1 = n - 1
        /\ 1 \in 1..(n + 1) /\ 1 \in (1 - 1)..n /\ n \in 1..n /\ 1 + 1 = 2
    BY <1>1
  <2>2. SubSeq(s, 2, n) \in Strings /\ Len(SubSeq(s, 2, n)) = n - 2 + 1
    BY <2>1, PieceParts
  <2>3. SubSeq(s, 1, n) = SubSeq(s, 1, 1) \o SubSeq(s, 1 + 1, n)
    BY <2>1, PieceParts
  <2> QED
    BY <1>1, <1>3, <1>4, <2>1, <2>2, <2>3
<1>7. Front(s) \in Strings /\ Len(Front(s)) = n - 1 /\ s = Front(s) \o <<s[n]>>
  <2>1. /\ 1 \in 1..(n + 1) /\ n - 1 \in (1 - 1)..n /\ (n - 1) - 1 + 1 = n - 1
        /\ n \in (n - 1)..n /\ (n - 1) + 1 = n
    BY <1>1
  <2>2. SubSeq(s, 1, n - 1) \in Strings /\ Len(SubSeq(s, 1, n - 1)) = (n - 1) - 1 + 1
    BY <2>1, PieceParts
  <2>3. SubSeq(s, 1, n) = SubSeq(s, 1, n - 1) \o SubSeq(s, (n - 1) + 1, n)
    BY <2>1, PieceParts
  <2> QED
    BY <1>1, <1>3, <1>5, <2>1, <2>2, <2>3
<1>8. Inside(s, 1) \in Strings /\ Len(Inside(s, 1)) = n - 2 /\ Tail(s) = Inside(s, 1) \o <<s[n]>>
  <2>1. /\ 2 \in 1..(n + 1) /\ n - 1 \in (2 - 1)..n /\ (n - 1) - 2 + 1 = n - 2
        /\ n \in (n - 1)..n /\ (n - 1) + 1 = n
    BY <1>1
  <2>2. SubSeq(s, 2, n - 1) \in Strings /\ Len(SubSeq(s, 2, n - 1)) = (n - 1) - 2 + 1
    BY <2>1, PieceParts
  <2>3. SubSeq(s, 2, n) = SubSeq(s, 2, n - 1) \o SubSeq(s, (n - 1) + 1, n)
    BY <2>1, PieceParts
  <2> QED
    BY <1>1, <1>3, <1>4, <1>5, <2>1, <2>2, <2>3
<1>9. s = (<<s[1]>> \o Inside(s, 1)) \o <<s[n]>>
  <2>1. <<s[1]>> \in Strings /\ <<s[n]>> \in Strings
    BY <1>2 DEF Strings
  <2>2. (<<s[1]>> \o Inside(s, 1)) \o <<s[n]>> = <<s[1]>> \o (Inside(s, 1) \o <<s[n]>>)
    <3>1. Associate(<<s[1]>>, Inside(s, 1), <<s[n]>>)
      BY <1>8, <2>1, StringsAssociate
    <3> QED
      BY <3>1 DEF Associate
  <2> QED
    BY <1>6, <1>8, <2>2, Zenon
<1> QED
  BY <1>2, <1>6, <1>7, <1>8, <1>9

\* Where splitTopLevelComma cuts.
LEMMA CommaInside ==
    ASSUME NEW s \in Strings
    PROVE  SplitTopLevelComma(s) # 0 =>
              SplitTopLevelComma(s) \in 1..Len(s) /\ s[SplitTopLevelComma(s)] = ","
<1> DEFINE commas == {i \in Unquoted(s) : s[i] = "," /\ Depth(s, Unquoted(s))[i] = 0}
<1>1. Len(s) \in Nat /\ DOMAIN s = 1..Len(s)
  BY DEF Strings
<1>2. commas \subseteq 1..Len(s) /\ \A i \in commas : s[i] = ","
  BY <1>1 DEF Unquoted
<1>3. SplitTopLevelComma(s) = IF commas = {} THEN 0 ELSE Min(commas)
  BY DEF SplitTopLevelComma
<1> HIDE DEF commas
<1>4. commas \subseteq Nat
  <2>1. 1..Len(s) \subseteq Nat
    BY <1>1
  <2> QED
    BY <1>2, <2>1, Zenon
<1>5. commas # {} => Min(commas) \in commas
  BY <1>4, MinMax
<1>6. commas # {} => Min(commas) \in 1..Len(s) /\ s[Min(commas)] = ","
  BY <1>2, <1>5
<1> QED
  BY <1>3, <1>6

\* A text before and after one of its symbols.
LEMMA KernelAround ==
    ASSUME NEW s \in Strings, NEW k \in 1..Len(s)
    PROVE  /\ SubSeq(s, 1, k - 1) \in Strings /\ Len(SubSeq(s, 1, k - 1)) <= Len(s)
           /\ From(s, k + 1) \in Strings
           /\ KernelOf(s) = (KernelOf(SubSeq(s, 1, k - 1)) \o KeptOf(s[k])) \o KernelOf(From(s, k + 1))
<1> DEFINE n == Len(s)
           a == SubSeq(s, 1, k - 1)
           b == SubSeq(s, k + 1, n)
           c == <<s[k]>>
<1>1. n \in Nat /\ k \in Nat /\ s \in Seq(Symbols) /\ s[k] \in Symbols /\ SubSeq(s, 1, n) = s
  BY SubSeqFull DEF Strings
<1>2. a \in Strings /\ Len(a) = k - 1 /\ s = a \o SubSeq(s, k, n)
  <2>1. /\ 1 \in 1..(n + 1) /\ k - 1 \in (1 - 1)..n /\ (k - 1) - 1 + 1 = k - 1
        /\ n \in (k - 1)..n /\ (k - 1) + 1 = k
    BY <1>1
  <2>2. a \in Strings /\ Len(a) = (k - 1) - 1 + 1
    BY <2>1, PieceParts
  <2>3. SubSeq(s, 1, n) = a \o SubSeq(s, (k - 1) + 1, n)
    BY <2>1, PieceParts
  <2> QED
    BY <1>1, <2>1, <2>2, <2>3
<1>3. b \in Strings /\ SubSeq(s, k, n) \in Strings /\ SubSeq(s, k, n) = SubSeq(s, k, k) \o b
  <2>1. /\ k \in 1..(n + 1) /\ k \in (k - 1)..n /\ n \in k..n /\ n \in (k - 1)..n
        /\ k + 1 \in 1..(n + 1) /\ n \in ((k + 1) - 1)..n
    BY <1>1
  <2>2. b \in Strings /\ SubSeq(s, k, n) \in Strings
    BY <2>1, PieceParts
  <2>3. SubSeq(s, k, n) = SubSeq(s, k, k) \o b
    BY <2>1, PieceParts
  <2> QED
    BY <2>2, <2>3
<1>4. SubSeq(s, k, k) = c
  BY PieceOfOne
<1>5. c \in Strings /\ KernelOf(c) = KeptOf(s[k])
  BY <1>1, KernelDrops
<1>6. KernelOf(s) = KernelOf(a) \o (KernelOf(c) \o KernelOf(b))
  <2>1. KernelOf(a \o SubSeq(s, k, n)) = KernelOf(a) \o KernelOf(SubSeq(s, k, n))
    BY <1>2, <1>3, KernelConcat
  <2>2. KernelOf(c \o b) = KernelOf(c) \o KernelOf(b)
    BY <1>3, <1>5, KernelConcat
  <2> QED
    BY <1>2, <1>3, <1>4, <2>1, <2>2
<1>7. KernelOf(a) \in Strings /\ KernelOf(c) \in Strings /\ KernelOf(b) \in Strings
  BY <1>1, <1>2, <1>3, <1>5, KernelGrows
<1>8. k - 1 <= n
  BY <1>1
<1>9. KernelOf(a) \o (KernelOf(c) \o KernelOf(b)) = (KernelOf(a) \o KernelOf(c)) \o KernelOf(b)
  <2>1. Associate(KernelOf(a), KernelOf(c), KernelOf(b))
    BY <1>7, StringsAssociate
  <2> QED
    BY <2>1 DEF Associate
<1> QED
  BY <1>2, <1>3, <1>5, <1>6, <1>8, <1>9 DEF From

\* A rewrite gives texts for those of up to n symbols, keeps their kernels, and is that of g.
Typed(rw, n) == \A t \in Texts : Len(t) <= n => rw[t] \in Strings
Keeping(rw, n) == \A t \in Texts : Len(t) <= n => KernelOf(rw[t]) = KernelOf(t)
Agree(rw, g, n) == \A t \in Texts : Len(t) <= n => rw[t] = g[t]

\* What holds up to m symbols holds up to fewer.
LEMMA Fewer ==
    ASSUME NEW rw, NEW m \in Nat, NEW n \in Nat, n <= m
    PROVE  /\ Typed(rw, m) => Typed(rw, n)
           /\ Keeping(rw, m) => Keeping(rw, n)
           /\ \A g : Agree(rw, g, m) => Agree(rw, g, n)
<1>1. ASSUME NEW t \in Texts, Len(t) <= n PROVE Len(t) <= m
  <2>1. Len(t) \in Nat
    BY DEF Texts
  <2> QED
    BY <1>1, <2>1
<1> QED
  BY <1>1, Zenon DEF Typed, Keeping, Agree

\* rewriteFTSExpressionTerms gives a text, keeps the kernel if the rewrite of its tokens
\* does, and looks at those only.
LEMMA ExpressionKeeps ==
    ASSUME NEW s \in Strings, Len(s) <= MaxSymbols, NEW rw, Typed(rw, Len(s))
    PROVE  /\ RewriteFTSExpressionTerms(rw, s) \in Strings
           /\ Keeping(rw, Len(s)) => KernelOf(RewriteFTSExpressionTerms(rw, s)) = KernelOf(s)
           /\ \A g : Agree(rw, g, Len(s)) =>
                  RewriteFTSExpressionTerms(rw, s) = RewriteFTSExpressionTerms(g, s)
<1> DEFINE tokens == SplitFTSQuery(s)
           texts(g) == [i \in DOMAIN tokens |-> IF IsFTSOperator(tokens[i]) THEN tokens[i] ELSE g[tokens[i]]]
<1>1. tokens \in Seq(Pieces(s)) /\ KernelOf(FlattenSeq(tokens)) = KernelOf(s)
  BY SplitKeeps
<1>2. \A g : RewriteFTSExpressionTerms(g, s) = JoinTokens(texts(g))
  BY DEF RewriteFTSExpressionTerms
<1> HIDE DEF tokens
<1>3. \A p \in Pieces(s) : p \in Strings /\ p \in Texts /\ Len(p) <= Len(s)
  <2>1. Len(s) \in Nat /\ MaxSymbols \in Nat
    BY SearchQueryAssumption DEF Strings
  <2> QED
    BY <2>1 DEF Pieces, Texts, Strings
<1>4. /\ Len(tokens) \in Nat /\ DOMAIN tokens = 1..Len(tokens)
      /\ \A i \in DOMAIN tokens : tokens[i] \in Pieces(s)
  BY <1>1
<1>5. \A i \in DOMAIN tokens : tokens[i] \in Strings /\ tokens[i] \in Texts /\ Len(tokens[i]) <= Len(s)
  BY <1>3, <1>4, Zenon
<1>6. tokens \in Seq(Strings)
  <2>1. Pieces(s) \subseteq Strings
    BY <1>3, Zenon
  <2> QED
    BY <1>1, <2>1
<1>7. texts(rw) \in Seq(Strings) /\ DOMAIN texts(rw) = DOMAIN tokens
  <2>1. \A i \in DOMAIN tokens : texts(rw)[i] \in Strings
    BY <1>5 DEF Typed
  <2> QED
    BY <1>4, <2>1
<1>8. RewriteFTSExpressionTerms(rw, s) \in Strings
  <2> HIDE DEF texts
  <2> QED
    BY <1>2, <1>7, JoinKeeps
<1>9. ASSUME Keeping(rw, Len(s))
      PROVE  KernelOf(RewriteFTSExpressionTerms(rw, s)) = KernelOf(s)
  <2>1. \A i \in DOMAIN tokens : KernelOf(texts(rw)[i]) = KernelOf(tokens[i])
    BY <1>5, <1>9 DEF Keeping
  <2> HIDE DEF texts
  <2>2. KernelOf(JoinTokens(texts(rw))) = KernelOf(FlattenSeq(texts(rw)))
    BY <1>7, JoinKeeps
  <2>3. KernelOf(FlattenSeq(texts(rw))) = KernelOf(FlattenSeq(tokens))
    BY <1>6, <1>7, <2>1, KernelsAgree
  <2> QED
    BY <1>1, <1>2, <2>2, <2>3
<1>10. ASSUME NEW g, Agree(rw, g, Len(s))
       PROVE  RewriteFTSExpressionTerms(rw, s) = RewriteFTSExpressionTerms(g, s)
  <2>1. texts(rw) = texts(g)
    BY <1>5, <1>10 DEF Agree
  <2> QED
    BY <1>2, <2>1
<1> QED
  BY <1>8, <1>9, <1>10

\* What is inside the parentheses of a text.
LEMMA InnerParts ==
    ASSUME NEW s \in Texts, s[1] # Last(s)
    PROVE  LET inner == TrimSpace(Inside(s, 1))
           IN  /\ s \in Strings /\ Len(s) - 1 \in Nat /\ inner \in Strings
               /\ Len(inner) <= Len(s) - 1 /\ Len(inner) <= MaxSymbols /\ Len(inner) \in Nat
               /\ KernelOf(s) = (KeptOf(s[1]) \o KernelOf(inner)) \o KeptOf(Last(s))
<1> DEFINE inner == TrimSpace(Inside(s, 1))
           x == Inside(s, 1)
<1>1. s \in Strings /\ Len(s) \in 1..MaxSymbols /\ MaxSymbols \in Nat
  BY SearchQueryAssumption DEF Texts, Strings
<1>2. Len(s) >= 2
  BY <1>1 DEF Last
<1>3. /\ s[1] \in Symbols /\ Last(s) \in Symbols /\ x \in Strings /\ Len(x) = Len(s) - 2
      /\ s = (<<s[1]>> \o x) \o <<Last(s)>>
  BY <1>1, <1>2, Ends
<1>4. inner \in Strings /\ Len(inner) <= Len(x) /\ KernelOf(inner) = KernelOf(x)
  BY <1>3, TrimKeeps
<1>5. KernelOf((<<s[1]>> \o x) \o <<Last(s)>>) = (KeptOf(s[1]) \o KernelOf(x)) \o KeptOf(Last(s))
  BY <1>3, KernelBetween
<1>6. Len(inner) \in Nat
  BY <1>4 DEF Strings
<1> HIDE DEF inner, x
<1>7. Len(s) - 1 \in Nat /\ Len(inner) <= Len(s) - 1 /\ Len(inner) <= MaxSymbols
  BY <1>1, <1>2, <1>3, <1>4, <1>6
<1> QED
  BY <1>1, <1>3, <1>4, <1>5, <1>6, <1>7 DEF inner

\* rewriteParenthesizedExpression gives a text, keeps the kernel if the rewrite of shorter
\* texts does, and looks at those only.
LEMMA ParenKeeps ==
    ASSUME NEW s \in Texts, s[1] = "(", Last(s) = ")", NEW rw, Typed(rw, Len(s) - 1)
    PROVE  /\ RewriteParenthesizedExpression(rw, s) \in Strings
           /\ Keeping(rw, Len(s) - 1) => KernelOf(RewriteParenthesizedExpression(rw, s)) = KernelOf(s)
           /\ \A g : Agree(rw, g, Len(s) - 1) =>
                  RewriteParenthesizedExpression(rw, s) = RewriteParenthesizedExpression(g, s)
<1> DEFINE inner == TrimSpace(Inside(s, 1))
           m == Len(s) - 1
           x(g) == RewriteFTSExpressionTerms(g, inner)
<1>1. /\ s \in Strings /\ m \in Nat /\ inner \in Strings
      /\ Len(inner) <= m /\ Len(inner) <= MaxSymbols /\ Len(inner) \in Nat
      /\ KernelOf(s) = (KeptOf("(") \o KernelOf(inner)) \o KeptOf(")")
  BY InnerParts
<1>2. \A g : RewriteParenthesizedExpression(g, s) =
                IF inner = << >> THEN s ELSE (<<"(">> \o x(g)) \o <<")">>
  BY DEF RewriteParenthesizedExpression
<1>3. "(" \in Symbols /\ ")" \in Symbols
  BY DEF Symbols, Opening
<1> HIDE DEF inner, m
<1>4. /\ Typed(rw, Len(inner)) /\ (Keeping(rw, m) => Keeping(rw, Len(inner)))
      /\ \A g : Agree(rw, g, m) => Agree(rw, g, Len(inner))
  BY <1>1, Fewer DEF m
<1>5. /\ x(rw) \in Strings /\ (Keeping(rw, m) => KernelOf(x(rw)) = KernelOf(inner))
      /\ \A g : Agree(rw, g, m) => x(rw) = x(g)
  BY <1>1, <1>4, ExpressionKeeps
<1> HIDE DEF x
<1>6. /\ (<<"(">> \o x(rw)) \o <<")">> \in Strings
      /\ KernelOf((<<"(">> \o x(rw)) \o <<")">>) = (KeptOf("(") \o KernelOf(x(rw))) \o KeptOf(")")
  BY <1>3, <1>5, KernelBetween
<1>7. RewriteParenthesizedExpression(rw, s) \in Strings
  BY <1>1, <1>2, <1>6
<1>8. Keeping(rw, m) => KernelOf(RewriteParenthesizedExpression(rw, s)) = KernelOf(s)
  BY <1>1, <1>2, <1>5, <1>6
<1>9. \A g : Agree(rw, g, m) =>
             RewriteParenthesizedExpression(rw, s) = RewriteParenthesizedExpression(g, s)
  BY <1>2, <1>5
<1> QED
  BY <1>7, <1>8, <1>9 DEF m

\* Lengths and kernels of texts.
LEMMA TextParts ==
    ASSUME NEW s \in Strings, NEW c \in Symbols
    PROVE  Len(s) \in Nat /\ KernelOf(s) \in Strings /\ KeptOf(c) \in Strings /\ <<c>> \in Strings
<1>1. Len(s) \in Nat /\ <<c>> \in Strings /\ << >> \in Strings
  BY DEF Strings
<1>2. KeptOf(c) \in Strings
  BY <1>1 DEF KeptOf
<1> QED
  BY <1>1, <1>2, KernelGrows

\* A comma and a space.
LEMMA CommaText == <<",", "space">> \in Strings /\ KernelOf(<<",", "space">>) = KeptOf(",")
<1>1. "," \in Symbols /\ "space" \in Symbols /\ "space" \in Dropped
  BY DEF Symbols, Dropped
<1> DEFINE c == <<",">>
<1>2. c \in Strings /\ KernelOf(c) = KeptOf(",") /\ KeptOf(",") \in Strings
  <2>1. << >> \in Strings
    BY DEF Strings
  <2> QED
    BY <1>1, <2>1, KernelDrops, TextParts
<1>3. Append(c, "space") = <<",", "space">> /\ Append(c, "space") \in Strings
  <2>1. ASSUME NEW e \in Symbols, NEW f \in Symbols
        PROVE  Append(<<e>>, f) = <<e, f>> /\ Append(<<e>>, f) \in Strings
    <3>1. <<e>> \in Seq(Symbols) /\ Len(<<e>>) = 1 /\ <<e>>[1] = e
      OBVIOUS
    <3>2. <<e, f>> \in Seq(Symbols) /\ Len(<<e, f>>) = 2 /\ <<e, f>>[1] = e /\ <<e, f>>[2] = f
      OBVIOUS
    <3> DEFINE x == <<e>>
               y == <<e, f>>
    <3> HIDE DEF x, y
    <3>3. /\ Append(x, f) \in Seq(Symbols) /\ Len(Append(x, f)) = 2
          /\ Append(x, f)[1] = e /\ Append(x, f)[2] = f
      BY <3>1 DEF x
    <3>4. \A i \in 1..2 : i = 1 \/ i = 2
      OBVIOUS
    <3>5. Append(x, f) = y
      BY <3>2, <3>3, <3>4, SeqEqual DEF y
    <3> QED
      BY <3>3, <3>5 DEF Strings, x, y
  <2> QED
    BY <1>1, <2>1
<1> HIDE DEF c
<1>4. KernelOf(Append(c, "space")) = KernelOf(c) \o KeptOf("space")
  BY <1>1, <1>2, KernelGrows
<1>5. KeptOf("space") = << >>
  BY <1>1 DEF KeptOf
<1>6. KeptOf(",") \o << >> = KeptOf(",")
  BY <1>2, ConcatEmptySeq DEF Strings
<1> QED
  BY <1>2, <1>3, <1>4, <1>5, <1>6

\* A NEAR with a distance: terms x, a comma, the distance y.
LEMMA KernelNear ==
    ASSUME NEW x \in Strings, NEW y \in Strings, NEW c \in Symbols, NEW d \in Symbols
    PROVE  LET long == (((<<c>> \o x) \o <<",", "space">>) \o y) \o <<d>>
           IN  /\ long \in Strings
               /\ KernelOf(long) = (KeptOf(c) \o ((KernelOf(x) \o KeptOf(",")) \o KernelOf(y))) \o KeptOf(d)
<1> DEFINE a == <<c>> \o x
           b == <<",", "space">>
           e == a \o b
           f == e \o y
<1>1. a \in Strings /\ KernelOf(a) = KeptOf(c) \o KernelOf(x)
  BY KernelBetween
<1>2. b \in Strings /\ KernelOf(b) = KeptOf(",")
  BY CommaText
<1> HIDE DEF a, b
<1>3. e \in Strings /\ KernelOf(e) = KernelOf(a) \o KernelOf(b)
  BY <1>1, <1>2, KernelConcat
<1> HIDE DEF e
<1>4. f \in Strings /\ KernelOf(f) = KernelOf(e) \o KernelOf(y)
  BY <1>3, KernelConcat
<1> HIDE DEF f
<1>5. f \o <<d>> \in Strings /\ KernelOf(f \o <<d>>) = KernelOf(f) \o KeptOf(d)
  BY <1>4, KernelBetween
<1> DEFINE k == KeptOf(c)
           u == KernelOf(x)
           v == KeptOf(",")
           w == KernelOf(y)
<1>6. k \in Strings /\ u \in Strings /\ v \in Strings /\ w \in Strings
  <2>1. "," \in Symbols
    BY DEF Symbols
  <2> QED
    BY <2>1, TextParts
<1>7. KernelOf(f) = ((k \o u) \o v) \o w
  BY <1>1, <1>2, <1>3, <1>4
<1> HIDE DEF k, u, v, w
<1> DEFINE z == u \o v
<1>8. z \in Strings
  BY <1>6, ConcatProperties DEF Strings
<1>9. k \o z = (k \o u) \o v
  <2>1. Associate(k, u, v)
    BY <1>6, StringsAssociate
  <2> QED
    BY <2>1 DEF Associate
<1>10. k \o (z \o w) = (k \o z) \o w
  <2>1. Associate(k, z, w)
    BY <1>6, <1>8, StringsAssociate
  <2> QED
    BY <2>1 DEF Associate
<1>11. KernelOf(f) = k \o ((u \o v) \o w)
  BY <1>7, <1>9, <1>10, Zenon
<1> QED
  BY <1>5, <1>11 DEF a, b, e, f, k, u, v, w

\* rewriteNearExpression gives a text, keeps the kernel if the rewrite of shorter texts does,
\* and looks at those only.
LEMMA NearKeeps ==
    ASSUME NEW s \in Texts, s[1] = "NEAR(", Last(s) = ")", NEW rw, Typed(rw, Len(s) - 1)
    PROVE  /\ RewriteNearExpression(rw, s) \in Strings
           /\ Keeping(rw, Len(s) - 1) => KernelOf(RewriteNearExpression(rw, s)) = KernelOf(s)
           /\ \A g : Agree(rw, g, Len(s) - 1) => RewriteNearExpression(rw, s) = RewriteNearExpression(g, s)
<1> DEFINE inner == TrimSpace(Inside(s, 1))
           comma == SplitTopLevelComma(inner)
           terms == TrimSpace(SubSeq(inner, 1, comma - 1))
           rest == TrimSpace(From(inner, comma + 1))
           m == Len(s) - 1
           x(g, t) == RewriteFTSExpressionTerms(g, t)
           short(g) == (<<"NEAR(">> \o x(g, inner)) \o <<")">>
           long(g) == (((<<"NEAR(">> \o x(g, terms)) \o <<",", "space">>) \o rest) \o <<")">>
<1>1. /\ s \in Strings /\ m \in Nat /\ inner \in Strings
      /\ Len(inner) <= m /\ Len(inner) <= MaxSymbols /\ Len(inner) \in Nat
      /\ KernelOf(s) = (KeptOf("NEAR(") \o KernelOf(inner)) \o KeptOf(")")
  BY InnerParts
<1>2. \A g : RewriteNearExpression(g, s) =
                IF inner = << >> THEN s ELSE IF comma = 0 THEN short(g) ELSE long(g)
  BY DEF RewriteNearExpression
<1>3. /\ "NEAR(" \in Symbols /\ ")" \in Symbols /\ "," \in Symbols /\ "space" \in Symbols
      /\ "space" \in Dropped
  BY DEF Symbols, Opening, Dropped
<1>4. ASSUME NEW t \in Strings, Len(t) <= Len(inner)
      PROVE  /\ x(rw, t) \in Strings /\ (Keeping(rw, m) => KernelOf(x(rw, t)) = KernelOf(t))
             /\ \A g : Agree(rw, g, m) => x(rw, t) = x(g, t)
  <2> HIDE DEF inner, m
  <2>1. Len(t) \in Nat /\ Len(t) <= m /\ Len(t) <= MaxSymbols
    BY <1>1, <1>4, SearchQueryAssumption DEF Strings
  <2>2. /\ Typed(rw, Len(t)) /\ (Keeping(rw, m) => Keeping(rw, Len(t)))
        /\ \A g : Agree(rw, g, m) => Agree(rw, g, Len(t))
    BY <1>1, <2>1, Fewer DEF m
  <2> QED
    BY <2>1, <2>2, ExpressionKeeps
<1>5. CASE inner = << >>
  BY <1>1, <1>2, <1>5
<1>6. CASE inner # << >> /\ comma = 0
  <2>1. \A g : RewriteNearExpression(g, s) = short(g)
    BY <1>2, <1>6
  <2>2. /\ x(rw, inner) \in Strings /\ (Keeping(rw, m) => KernelOf(x(rw, inner)) = KernelOf(inner))
        /\ \A g : Agree(rw, g, m) => x(rw, inner) = x(g, inner)
    BY <1>1, <1>4
  <2> HIDE DEF x, inner, m
  <2>3. /\ short(rw) \in Strings
        /\ KernelOf(short(rw)) = (KeptOf("NEAR(") \o KernelOf(x(rw, inner))) \o KeptOf(")")
    BY <1>3, <2>2, KernelBetween
  <2>4. \A g : Agree(rw, g, m) => short(rw) = short(g)
    BY <2>2
  <2> HIDE DEF short
  <2> QED
    BY <1>1, <2>1, <2>2, <2>3, <2>4 DEF m
<1>7. CASE inner # << >> /\ comma # 0
  <2> DEFINE before == SubSeq(inner, 1, comma - 1)
             after == From(inner, comma + 1)
  <2>1. \A g : RewriteNearExpression(g, s) = long(g)
    BY <1>2, <1>7
  <2>2. comma \in 1..Len(inner) /\ inner[comma] = ","
    <3> HIDE DEF inner
    <3> QED
      BY <1>1, <1>7, CommaInside
  <2>3. /\ before \in Strings /\ Len(before) <= Len(inner) /\ after \in Strings
        /\ KernelOf(inner) = (KernelOf(before) \o KeptOf(",")) \o KernelOf(after)
    <3> HIDE DEF inner, comma
    <3> QED
      BY <1>1, <2>2, KernelAround
  <2>4. /\ terms \in Strings /\ Len(terms) <= Len(before) /\ KernelOf(terms) = KernelOf(before)
        /\ rest \in Strings /\ KernelOf(rest) = KernelOf(after)
    BY <2>3, TrimKeeps
  <2>5. Len(terms) <= Len(inner)
    <3> HIDE DEF terms, before, inner
    <3> DEFINE i == Len(terms)
               j == Len(before)
               k == Len(inner)
    <3>1. i \in Nat /\ j \in Nat /\ k \in Nat /\ i <= j /\ j <= k
      BY <1>1, <1>3, <2>3, <2>4, TextParts
    <3> HIDE DEF i, j, k
    <3>2. i <= k
      BY <3>1
    <3> QED
      BY <3>2 DEF i, k
  <2>6. /\ x(rw, terms) \in Strings /\ (Keeping(rw, m) => KernelOf(x(rw, terms)) = KernelOf(terms))
        /\ \A g : Agree(rw, g, m) => x(rw, terms) = x(g, terms)
    BY <1>4, <2>4, <2>5
  <2> HIDE DEF x, inner, m, comma, terms, rest, before, after
  <2>7. /\ long(rw) \in Strings
        /\ KernelOf(long(rw)) = (KeptOf("NEAR(") \o ((KernelOf(x(rw, terms)) \o KeptOf(","))
                                                  \o KernelOf(rest))) \o KeptOf(")")
    <3> DEFINE t == x(rw, terms)
    <3> HIDE DEF t
    <3>1. t \in Strings /\ rest \in Strings
      BY <2>4, <2>6 DEF t
    <3>2. /\ (((<<"NEAR(">> \o t) \o <<",", "space">>) \o rest) \o <<")">> \in Strings
          /\ KernelOf((((<<"NEAR(">> \o t) \o <<",", "space">>) \o rest) \o <<")">>)
                = (KeptOf("NEAR(") \o ((KernelOf(t) \o KeptOf(",")) \o KernelOf(rest))) \o KeptOf(")")
      BY <1>3, <3>1, KernelNear
    <3> QED
      BY <3>2, Zenon DEF t
  <2>8. \A g : Agree(rw, g, m) => long(rw) = long(g)
    BY <2>6
  <2> HIDE DEF long
  <2>9. Keeping(rw, m) => KernelOf(long(rw)) = KernelOf(s)
    BY <1>1, <2>3, <2>4, <2>6, <2>7
  <2> QED
    BY <2>1, <2>7, <2>8, <2>9 DEF m
<1> QED
  BY <1>5, <1>6, <1>7

-----------------------------------------------------------------------------
(* SearchQuery: what a rewrite of a query keeps.                           *)

\* What rewriteFTSToken's recursion satisfies.
IsRewrite(rw) == rw = [s \in Texts |-> RewriteToken(rw, s)]

\* A term that is neither a string, a NEAR, in parentheses nor in a column.
LEMMA TermKeeps ==
    ASSUME NEW s \in Texts
    PROVE  LET texts == IF Last(s) = "*" /\ Len(s) > 1 THEN PrefixTerm(Front(s))
                      ELSE IF NeedsFtsQuoting(s) THEN QuoteFTSToken(s) ELSE s
           IN  texts \in Strings /\ KernelOf(texts) = KernelOf(s)
<1>1. s \in Strings /\ Len(s) \in Nat
  BY DEF Texts, Strings
<1>2. QuoteFTSToken(s) \in Strings /\ KernelOf(QuoteFTSToken(s)) = KernelOf(s)
  BY <1>1, QuoteKeeps
<1>3. ASSUME Last(s) = "*", Len(s) > 1
      PROVE  PrefixTerm(Front(s)) \in Strings /\ KernelOf(PrefixTerm(Front(s))) = KernelOf(s)
  <2>1. Len(s) >= 2
    BY <1>1, <1>3
  <2>2. "*" \in Symbols /\ Front(s) \in Strings /\ s = Front(s) \o <<"*">>
    BY <1>1, <1>3, <2>1, Ends
  <2>3. KernelOf(Front(s) \o <<"*">>) = KernelOf(Front(s)) \o KeptOf("*")
    BY <2>2, KernelBetween
  <2> QED
    BY <2>2, <2>3, PrefixKeeps
<1> QED
  BY <1>1, <1>2, <1>3

\* One step gives a text, keeps the kernel if the rewrite of shorter texts does, and looks
\* at those only.
LEMMA StepKeeps ==
    ASSUME NEW s \in Texts, NEW rw, Typed(rw, Len(s) - 1)
    PROVE  /\ RewriteToken(rw, s) \in Strings
           /\ Keeping(rw, Len(s) - 1) => KernelOf(RewriteToken(rw, s)) = KernelOf(s)
           /\ \A g : Agree(rw, g, Len(s) - 1) => RewriteToken(rw, s) = RewriteToken(g, s)
<1> DEFINE near == s[1] = "NEAR(" /\ Last(s) = ")"
           paren == s[1] = "(" /\ Last(s) = ")"
           column == s[1] = "label:" /\ Len(s) > 1
           term == IF Last(s) = "*" /\ Len(s) > 1 THEN PrefixTerm(Front(s))
                   ELSE IF NeedsFtsQuoting(s) THEN QuoteFTSToken(s) ELSE s
<1>1. s \in Strings /\ Len(s) \in 1..MaxSymbols /\ MaxSymbols \in Nat /\ Len(s) \in Nat
  BY SearchQueryAssumption DEF Texts, Strings
<1>2. CASE s[1] = "quote"
  <2>1. \A g : RewriteToken(g, s) = s
    BY <1>2 DEF RewriteToken
  <2> QED
    BY <1>1, <2>1
<1>3. CASE near
  <2>1. \A g : RewriteToken(g, s) = RewriteNearExpression(g, s)
    BY <1>3 DEF RewriteToken
  <2> QED
    BY <1>3, <2>1, NearKeeps
<1>4. CASE paren
  <2>1. \A g : RewriteToken(g, s) = RewriteParenthesizedExpression(g, s)
    BY <1>4 DEF RewriteToken
  <2> QED
    BY <1>4, <2>1, ParenKeeps
<1>5. CASE column
  <2>1. \A g : RewriteToken(g, s) = <<"label:">> \o g[Tail(s)]
    BY <1>5 DEF RewriteToken
  <2>2. Len(s) >= 2
    BY <1>1, <1>5
  <2>3. /\ "label:" \in Symbols /\ Tail(s) \in Strings /\ Len(Tail(s)) = Len(s) - 1
        /\ s = <<"label:">> \o Tail(s)
    BY <1>1, <1>5, <2>2, Ends
  <2> DEFINE t == Tail(s)
  <2> HIDE DEF t
  <2>4. t \in Texts /\ Len(t) <= Len(s) - 1
    <3>1. Len(t) \in 1..MaxSymbols /\ Len(t) <= Len(s) - 1
      BY <1>1, <2>2, <2>3 DEF t
    <3> QED
      BY <2>3, <3>1 DEF t, Texts, Strings
  <2>5. rw[t] \in Strings
    BY <2>4 DEF Typed
  <2>6. /\ <<"label:">> \o rw[t] \in Strings
        /\ KernelOf(<<"label:">> \o rw[t]) = KeptOf("label:") \o KernelOf(rw[t])
        /\ KernelOf(s) = KeptOf("label:") \o KernelOf(t)
    <3>1. KernelOf(<<"label:">> \o Tail(s)) = KeptOf("label:") \o KernelOf(Tail(s))
      BY <2>3, KernelBetween
    <3>2. /\ <<"label:">> \o rw[t] \in Strings
          /\ KernelOf(<<"label:">> \o rw[t]) = KeptOf("label:") \o KernelOf(rw[t])
      BY <2>3, <2>5, KernelBetween
    <3> QED
      BY <2>3, <3>1, <3>2 DEF t
  <2>7. \A g : RewriteToken(g, s) = <<"label:">> \o g[t]
    BY <2>1 DEF t
  <2>8. Keeping(rw, Len(s) - 1) => KernelOf(rw[t]) = KernelOf(t)
    BY <2>4 DEF Keeping
  <2>9. \A g : Agree(rw, g, Len(s) - 1) => rw[t] = g[t]
    BY <2>4 DEF Agree
  <2> QED
    BY <2>6, <2>7, <2>8, <2>9
<1>6. CASE s[1] # "quote" /\ ~near /\ ~paren /\ ~column
  <2>1. \A g : RewriteToken(g, s) = term
    BY <1>6 DEF RewriteToken
  <2>2. term \in Strings /\ KernelOf(term) = KernelOf(s)
    BY TermKeeps
  <2> HIDE DEF term
  <2> QED
    BY <2>1, <2>2
<1> QED
  BY <1>2, <1>3, <1>4, <1>5, <1>6

\* The recursion of rewriteFTSToken has a solution.
LEMMA RewriteExists == \E rw : IsRewrite(rw)
<1> DEFINE R == [s \in Texts |-> [f \in [Texts -> Strings] |-> RewriteToken(f, s)]]
           rank == [s \in Texts |-> Len(s)]
           start == [s \in Texts |-> << >>]
<1>1. \A s \in Texts : Len(s) \in Nat /\ Len(s) \in 1..MaxSymbols /\ Len(s) <= MaxSymbols
  BY SearchQueryAssumption DEF Texts
<1>2. rank \in [Texts -> Nat] /\ \A s \in Texts : rank[s] <= MaxSymbols
  BY <1>1
<1>3. start \in [Texts -> Strings]
  BY DEF Strings
<1>4. ASSUME NEW f \in [Texts -> Strings], NEW n PROVE Typed(f, n)
  BY DEF Typed
<1>5. R \in [Texts -> [[Texts -> Strings] -> Strings]]
  <2>1. ASSUME NEW s \in Texts, NEW f \in [Texts -> Strings] PROVE RewriteToken(f, s) \in Strings
    BY <1>4, StepKeeps
  <2> QED
    BY <2>1
<1>6. \A s \in Texts : \A f, g \in [Texts -> Strings] :
         (\A t \in Texts : rank[t] < rank[s] => f[t] = g[t]) => R[s][f] = R[s][g]
  <2> SUFFICES ASSUME NEW s \in Texts, NEW f \in [Texts -> Strings], NEW g \in [Texts -> Strings],
                      \A t \in Texts : rank[t] < rank[s] => f[t] = g[t]
               PROVE  R[s][f] = R[s][g]
    OBVIOUS
  <2>1. \A t \in Texts : Len(t) <= Len(s) - 1 => rank[t] < rank[s]
    BY <1>1
  <2>2. Agree(f, g, Len(s) - 1)
    BY <2>1 DEF Agree
  <2>3. RewriteToken(f, s) = RewriteToken(g, s)
    BY <1>4, <2>2, StepKeeps
  <2> QED
    BY <2>3
<1>7. \A s \in Texts : \A f \in [Texts -> Strings] : R[s][f] = RewriteToken(f, s)
  OBVIOUS
<1>8. PICK f \in [Texts -> Strings] : \A s \in Texts : f[s] = R[s][f]
  <2> HIDE DEF R, rank, start
  <2>1. IsRecursion(Texts, Strings, R, rank, MaxSymbols, start)
    BY <1>2, <1>3, <1>5, <1>6, SearchQueryAssumption, Zenon DEF IsRecursion
  <2> QED
    BY <2>1, Recursion
<1>9. f = [s \in Texts |-> RewriteToken(f, s)]
  BY <1>7, <1>8
<1> QED
  BY <1>9 DEF IsRewrite

\* rewriteFTSToken gives texts and keeps their kernels.
LEMMA TokenKeeps ==
    ASSUME NEW s \in Texts
    PROVE  RewriteFTSToken[s] \in Strings /\ KernelOf(RewriteFTSToken[s]) = KernelOf(s)
<1> DEFINE rw == CHOOSE f : IsRewrite(f)
           S == {n \in Nat : Typed(rw, n) /\ Keeping(rw, n)}
<1>1. RewriteFTSToken = rw
  BY DEF RewriteFTSToken, IsRewrite
<1>2. IsRewrite(rw)
  BY RewriteExists
<1> HIDE DEF rw
<1>3. \A t \in Texts : rw[t] = RewriteToken(rw, t)
  BY <1>2, Zenon DEF IsRewrite
<1>4. \A t \in Texts : Len(t) \in Nat /\ Len(t) >= 1
  BY SearchQueryAssumption DEF Texts
<1>5. 0 \in S
  <2>1. \A t \in Texts : ~(Len(t) <= 0)
    BY <1>4
  <2> QED
    BY <2>1 DEF Typed, Keeping
<1>6. ASSUME NEW n \in Nat, n \in S PROVE n + 1 \in S
  <2>1. ASSUME NEW t \in Texts, Len(t) <= n + 1
        PROVE  rw[t] \in Strings /\ KernelOf(rw[t]) = KernelOf(t)
    <3>1. Len(t) - 1 \in Nat /\ Len(t) - 1 <= n
      BY <1>4, <2>1
    <3>2. Typed(rw, Len(t) - 1) /\ Keeping(rw, Len(t) - 1)
      BY <1>6, <3>1, Fewer
    <3> QED
      BY <1>3, <3>2, StepKeeps
  <2> QED
    BY <2>1 DEF Typed, Keeping
<1>7. Len(s) \in S
  <2>1. Nat \subseteq S
    <3> HIDE DEF S
    <3> QED
      BY <1>5, <1>6, NatSet
  <2> QED
    BY <1>4, <2>1
<1>8. Len(s) <= Len(s)
  BY <1>4
<1> QED
  BY <1>1, <1>7, <1>8 DEF Typed, Keeping

\* rewriteQuery keeps the kernel of a query.
LEMMA QueryKeeps ==
    ASSUME NEW q \in Strings, Len(q) <= MaxSymbols
    PROVE  KernelOf(RewriteQuery(q)) = KernelOf(q)
<1> DEFINE trimmed == TrimSpace(q)
           tokens == SplitFTSQuery(trimmed)
           joined(i) == i > 1 /\ ~IsFTSOperator(tokens[i]) /\ ~IsFTSOperator(tokens[i - 1])
           prefix(i) == IF joined(i) THEN <<"OR", "space">> ELSE << >>
           texts == [i \in DOMAIN tokens |-> prefix(i) \o RewriteFTSToken[tokens[i]]]
<1>1. trimmed \in Strings /\ Len(trimmed) <= Len(q) /\ KernelOf(trimmed) = KernelOf(q)
  BY TrimKeeps
<1>2. "OR" \in Symbols /\ "OR" \in Dropped /\ "space" \in Symbols /\ "space" \in Dropped
  BY DEF Symbols, Barewords, Dropped
<1>3. RewriteQuery(q) = JoinTokens(texts)
  BY DEF RewriteQuery
<1> HIDE DEF trimmed
<1>4. tokens \in Seq(Pieces(trimmed)) /\ KernelOf(FlattenSeq(tokens)) = KernelOf(trimmed)
  BY <1>1, SplitKeeps
<1>5. \A p \in Pieces(trimmed) : p \in Strings /\ p \in Texts
  <2>1. Len(trimmed) \in Nat /\ Len(q) \in Nat /\ MaxSymbols \in Nat
    BY <1>1, <1>2, TextParts, SearchQueryAssumption
  <2>2. Len(trimmed) <= MaxSymbols
    BY <1>1, <2>1
  <2> QED
    BY <2>1, <2>2 DEF Pieces, Texts, Strings
<1> HIDE DEF tokens
<1>6. /\ Len(tokens) \in Nat /\ DOMAIN tokens = 1..Len(tokens)
      /\ \A i \in DOMAIN tokens : tokens[i] \in Pieces(trimmed)
  BY <1>4
<1>7. tokens \in Seq(Strings)
  <2>1. Pieces(trimmed) \subseteq Strings
    BY <1>5, Zenon
  <2> QED
    BY <1>4, <2>1
<1>8. ASSUME NEW i \in DOMAIN tokens
      PROVE  prefix(i) \in Strings /\ KernelOf(prefix(i)) = << >>
  <2>1. << >> \in Strings /\ <<"OR", "space">> \in Strings
    BY <1>2 DEF Strings
  <2>2. KernelOf(<< >>) = << >>
    BY <1>2, <2>1, KernelGrows
  <2>3. \A j \in 1..Len(<<"OR", "space">>) : <<"OR", "space">>[j] \in Dropped
    BY <1>2
  <2>4. KernelOf(<<"OR", "space">>) = << >>
    BY <1>2, <2>1, <2>3, KernelDrops
  <2> QED
    BY <2>1, <2>2, <2>4
<1> HIDE DEF prefix
<1>9. ASSUME NEW i \in DOMAIN tokens
      PROVE  texts[i] \in Strings /\ KernelOf(texts[i]) = KernelOf(tokens[i])
  <2> DEFINE t == RewriteFTSToken[tokens[i]]
  <2>1. tokens[i] \in Texts /\ tokens[i] \in Strings
    BY <1>5, <1>6
  <2>2. t \in Strings /\ KernelOf(t) = KernelOf(tokens[i])
    BY <2>1, TokenKeeps
  <2>3. texts[i] = prefix(i) \o t
    OBVIOUS
  <2> HIDE DEF t
  <2> DEFINE p == prefix(i)
  <2> HIDE DEF p
  <2>4. p \o t \in Strings /\ KernelOf(p \o t) = << >> \o KernelOf(t)
    <3>1. p \in Strings /\ KernelOf(p) = << >>
      BY <1>8 DEF p
    <3> QED
      BY <2>2, <3>1, KernelConcat
  <2>5. << >> \o KernelOf(t) = KernelOf(t)
    <3>1. KernelOf(t) \in Strings
      BY <1>2, <2>2, TextParts
    <3> QED
      BY <3>1, ConcatEmptySeq DEF Strings
  <2> QED
    BY <2>2, <2>3, <2>4, <2>5 DEF p
<1>10. texts \in Seq(Strings) /\ DOMAIN texts = DOMAIN tokens
  BY <1>6, <1>9
<1> HIDE DEF texts
<1>11. KernelOf(JoinTokens(texts)) = KernelOf(FlattenSeq(texts))
  BY <1>10, JoinKeeps
<1>12. KernelOf(FlattenSeq(texts)) = KernelOf(FlattenSeq(tokens))
  BY <1>7, <1>9, <1>10, KernelsAgree
<1> QED
  BY <1>1, <1>3, <1>4, <1>11, <1>12

\* Typing keeps a query a text within its bound.
LEMMA QueryIsText == QuerySpec => [](query \in Strings /\ Len(query) <= MaxSymbols)
<1> DEFINE Inv == query \in Strings /\ Len(query) <= MaxSymbols
<1>1. QueryInit => Inv
  BY SearchQueryAssumption DEF QueryInit, Strings
<1>2. Inv /\ [QueryNext]_query => Inv'
  <2> SUFFICES ASSUME Inv, [QueryNext]_query PROVE Inv'
    OBVIOUS
  <2>1. CASE UNCHANGED query
    BY <2>1
  <2>2. ASSUME NEW symbol \in Symbols, Type(symbol) PROVE Inv'
    <3>1. query \in Seq(Symbols) /\ Len(query) \in Nat /\ MaxSymbols \in Nat /\ Len(query) < MaxSymbols
      BY <2>2, SearchQueryAssumption DEF Type, Strings
    <3>2. query' = Append(query, symbol)
      BY <2>2 DEF Type
    <3>3. query' \in Seq(Symbols) /\ Len(query') = Len(query) + 1
      BY <3>1, <3>2
    <3> QED
      BY <3>1, <3>3 DEF Strings
  <2> QED
    BY <2>1, <2>2 DEF QueryNext
<1> QED
  BY <1>1, <1>2, PTL DEF QuerySpec

\* Splitting, rewriting and joining a query loses no symbol, repeats none and keeps their
\* order, whatever the query and however long: only spaces, quotes and OR come and go
\* (rewriteQuery).
THEOREM RewritesKeepTheQuery == QuerySpec => []RewriteKeepsTheQuery
<1> DEFINE Inv == query \in Strings /\ Len(query) <= MaxSymbols
<1>1. Inv => RewriteKeepsTheQuery
  <2> SUFFICES ASSUME Inv PROVE RewriteKeepsTheQuery
    OBVIOUS
  <2>1. KernelOf(RewriteQuery(query)) = KernelOf(query)
    BY QueryKeeps
  <2> QED
    BY <2>1 DEF RewriteKeepsTheQuery, KernelOf, KeptOf, Dropped
<1> QED
  BY <1>1, QueryIsText, PTL

-----------------------------------------------------------------------------
(* SearchQuery: what is outside strings.                                   *)

\* X holds the positions P of a part of m symbols and the positions Q of one of n after it.
Follows(m, n, P, Q, X) ==
    /\ m \in Nat /\ n \in Nat /\ P \subseteq 1..m /\ Q \subseteq 1..n /\ X \subseteq 1..(m + n)
    /\ \A i \in 1..m : i \in X <=> i \in P
    /\ \A j \in 1..n : m + j \in X <=> j \in Q

\* Positions of two parts are counted one after the other.
LEMMA FollowCount ==
    ASSUME NEW m, NEW n, NEW P, NEW Q, NEW X, Follows(m, n, P, Q, X)
    PROVE  Cardinality(P) \in Nat /\ Cardinality(Q) \in Nat /\ Cardinality(X) = Cardinality(P) + Cardinality(Q)
<1> DEFINE R == {m + j : j \in Q}
           f == [j \in Q |-> m + j]
<1>0. /\ m \in Nat /\ n \in Nat /\ P \subseteq 1..m /\ Q \subseteq 1..n /\ X \subseteq 1..(m + n)
      /\ \A i \in 1..m : i \in X <=> i \in P
      /\ \A j \in 1..n : m + j \in X <=> j \in Q
  BY DEF Follows
<1>1. IsFiniteSet(P) /\ IsFiniteSet(Q)
  <2>1. IsFiniteSet(1..m) /\ IsFiniteSet(1..n)
    BY <1>0, FS_Interval
  <2> QED
    BY <1>0, <2>1, FS_Subset
<1>2. Cardinality(P) \in Nat /\ Cardinality(Q) \in Nat
  BY <1>1, FS_CardinalityType
<1>3. f \in Bijection(Q, R)
  <2>1. f \in [Q -> R]
    OBVIOUS
  <2>2. \A i, j \in Q : f[i] = f[j] => i = j
    <3>1. \A i, j \in Q : i \in Int /\ j \in Int /\ m \in Int
      BY <1>0
    <3>2. \A i, j \in Q : m + i = m + j => i = j
      BY <3>1
    <3> QED
      BY <3>2
  <2>3. \A t \in R : \E j \in Q : f[j] = t
    OBVIOUS
  <2> HIDE DEF f, R
  <2> QED
    BY <2>1, <2>2, <2>3 DEF Bijection, Injection, Surjection, IsInjective
<1>4. IsFiniteSet(R) /\ Cardinality(R) = Cardinality(Q)
  <2> HIDE DEF f, R
  <2> QED
    BY <1>1, <1>3, FS_Bijection DEF ExistsBijection
<1>5. P \cap R = {}
  BY <1>0
<1>6. X = P \cup R
  <2>1. ASSUME NEW i \in X PROVE i \in P \cup R
    <3>1. CASE i <= m
      BY <1>0, <3>1
    <3>2. CASE ~(i <= m)
      <4>1. i - m \in 1..n /\ i = m + (i - m)
        BY <1>0, <3>2
      <4>2. i - m \in Q
        BY <1>0, <4>1
      <4> QED
        BY <4>1, <4>2
    <3> QED
      BY <3>1, <3>2
  <2>2. P \subseteq X /\ R \subseteq X
    <3>1. \A i \in P : i \in X
      BY <1>0
    <3>2. \A j \in Q : m + j \in X
      BY <1>0
    <3> QED
      BY <3>1, <3>2
  <2> QED
    BY <2>1, <2>2
<1> HIDE DEF R
<1>7. Cardinality(P \cup R) = Cardinality(P) + Cardinality(Q) - 0
  BY <1>1, <1>4, <1>5, FS_Union, FS_EmptySet
<1> QED
  BY <1>2, <1>6, <1>7

\* The symbols of two texts.
LEMMA ConcatParts ==
    ASSUME NEW a \in Strings, NEW b \in Strings
    PROVE  /\ a \o b \in Strings /\ Len(a \o b) = Len(a) + Len(b)
           /\ Len(a) \in Nat /\ Len(b) \in Nat
           /\ \A i \in 1..Len(a) : (a \o b)[i] = a[i]
           /\ \A j \in 1..Len(b) : (a \o b)[Len(a) + j] = b[j]
<1>1. a \in Seq(Symbols) /\ b \in Seq(Symbols) /\ Len(a) \in Nat /\ Len(b) \in Nat
  BY DEF Strings
<1>2. a \o b \in Seq(Symbols) /\ Len(a \o b) = Len(a) + Len(b)
  BY <1>1, ConcatProperties
<1>3. \A i \in 1..(Len(a) + Len(b)) : (a \o b)[i] = IF i <= Len(a) THEN a[i] ELSE b[i - Len(a)]
  BY <1>1, ConcatProperties
<1>4. \A i \in 1..Len(a) : (a \o b)[i] = a[i]
  BY <1>1, <1>3
<1>5. ASSUME NEW j \in 1..Len(b) PROVE (a \o b)[Len(a) + j] = b[j]
  <2>1. Len(a) + j \in 1..(Len(a) + Len(b)) /\ ~(Len(a) + j <= Len(a)) /\ (Len(a) + j) - Len(a) = j
    BY <1>1
  <2> QED
    BY <1>3, <2>1
<1> QED
  BY <1>1, <1>2, <1>4, <1>5 DEF Strings

\* Quotes in two texts.
LEMMA QuotesConcat ==
    ASSUME NEW a \in Strings, NEW b \in Strings
    PROVE  /\ \A i \in 1..(Len(a) + 1) : QuotesBefore(a \o b, i) = QuotesBefore(a, i) /\ QuotesBefore(a, i) \in Nat
           /\ \A k \in 1..(Len(b) + 1) : /\ QuotesBefore(b, k) \in Nat
                 /\ QuotesBefore(a \o b, Len(a) + k) = QuotesBefore(a, Len(a) + 1) + QuotesBefore(b, k)
<1> DEFINE m == Len(a)
           c == a \o b
           Q(s, i) == {j \in 1..(i - 1) : s[j] = "quote"}
<1>1. /\ m \in Nat /\ Len(b) \in Nat /\ \A i \in 1..m : c[i] = a[i]
      /\ \A j \in 1..Len(b) : c[m + j] = b[j]
  BY ConcatParts
<1>2. \A s, i : QuotesBefore(s, i) = Cardinality(Q(s, i))
  BY DEF QuotesBefore
<1> HIDE DEF c, m
<1>3. ASSUME NEW i \in 1..(m + 1) PROVE QuotesBefore(c, i) = QuotesBefore(a, i) /\ QuotesBefore(a, i) \in Nat
  <2>1. 1..(i - 1) \subseteq 1..m /\ i - 1 \in Nat
    BY <1>1
  <2>2. Q(c, i) = Q(a, i) /\ Q(a, i) \subseteq 1..(i - 1)
    BY <1>1, <2>1
  <2>3. IsFiniteSet(1..(i - 1))
    BY <2>1, FS_Interval
  <2> HIDE DEF Q
  <2>4. Cardinality(Q(a, i)) \in Nat
    BY <2>2, <2>3, FS_Subset, FS_CardinalityType
  <2> QED
    BY <1>2, <2>2, <2>4
<1>4. ASSUME NEW k \in 1..(Len(b) + 1)
      PROVE  /\ QuotesBefore(b, k) \in Nat
             /\ QuotesBefore(c, m + k) = QuotesBefore(a, m + 1) + QuotesBefore(b, k)
  <2> DEFINE n == k - 1
             P == Q(a, m + 1)
             R == Q(b, k)
             X == Q(c, m + k)
  <2>1. /\ n \in Nat /\ (m + 1) - 1 = m /\ (m + k) - 1 = m + n /\ 1..n \subseteq 1..Len(b)
        /\ 1..m \subseteq 1..(m + n) /\ \A j \in 1..n : m + j \in 1..(m + n)
    BY <1>1
  <2>2. P \in SUBSET (1..m) /\ R \in SUBSET (1..n) /\ X \in SUBSET (1..(m + n))
    BY <2>1
  <2>3. \A i \in 1..m : i \in X <=> i \in P
    BY <1>1, <2>1
  <2>4. \A j \in 1..n : m + j \in X <=> j \in R
    BY <1>1, <2>1
  <2> HIDE DEF P, R, X, n
  <2>5. Cardinality(R) \in Nat /\ Cardinality(X) = Cardinality(P) + Cardinality(R)
    <3>1. Follows(m, n, P, R, X)
      BY <1>1, <2>1, <2>2, <2>3, <2>4 DEF Follows
    <3> QED
      BY <3>1, FollowCount
  <2> QED
    BY <1>2, <2>5 DEF P, R, X
<1> QED
  BY <1>3, <1>4 DEF c, m

\* Every string of s is closed.
Closed(s) == QuotesBefore(s, Len(s) + 1) % 2 = 0

\* What is outside the strings of two texts.
LEMMA UnquotedConcat ==
    ASSUME NEW a \in Strings, NEW b \in Strings, Closed(a)
    PROVE  /\ \A i \in 1..Len(a) : i \in Unquoted(a \o b) <=> i \in Unquoted(a)
           /\ \A j \in 1..Len(b) : Len(a) + j \in Unquoted(a \o b) <=> j \in Unquoted(b)
           /\ Closed(a \o b) <=> Closed(b)
           /\ Unquoted(a \o b) \subseteq 1..(Len(a) + Len(b))
           /\ Unquoted(a) \subseteq 1..Len(a) /\ Unquoted(b) \subseteq 1..Len(b)
<1> DEFINE m == Len(a)
           c == a \o b
           n == Len(b)
<1>1. m \in Nat /\ n \in Nat /\ Len(c) = m + n /\ c \in Strings
  BY ConcatParts
<1>2. DOMAIN a = 1..m /\ DOMAIN b = 1..n /\ DOMAIN c = 1..(m + n)
  <2> HIDE DEF c
  <2> QED
    BY <1>1 DEF Strings
<1>3. /\ \A i \in 1..(m + 1) : QuotesBefore(c, i) = QuotesBefore(a, i) /\ QuotesBefore(a, i) \in Nat
      /\ \A k \in 1..(n + 1) : /\ QuotesBefore(b, k) \in Nat
            /\ QuotesBefore(c, m + k) = QuotesBefore(a, m + 1) + QuotesBefore(b, k)
  BY QuotesConcat
<1>4. ASSUME NEW x \in Nat, NEW y \in Nat, x % 2 = 0 PROVE (x + y) % 2 = y % 2
  BY <1>4
<1> HIDE DEF c
<1>5. \A k \in 1..(n + 1) : QuotesBefore(c, m + k) % 2 = QuotesBefore(b, k) % 2
  <2>1. m + 1 \in 1..(m + 1)
    BY <1>1
  <2>2. QuotesBefore(a, m + 1) \in Nat /\ QuotesBefore(a, m + 1) % 2 = 0
    BY <1>3, <2>1 DEF Closed
  <2> QED
    BY <1>3, <1>4, <2>2
<1>6. \A i \in 1..m : i \in Unquoted(c) <=> i \in Unquoted(a)
  <2>1. \A i \in 1..m : i \in 1..(m + n) /\ i \in 1..(m + 1)
    BY <1>1
  <2> QED
    BY <1>2, <1>3, <2>1 DEF Unquoted
<1>7. \A j \in 1..n : m + j \in Unquoted(c) <=> j \in Unquoted(b)
  <2>1. \A j \in 1..n : m + j \in 1..(m + n) /\ j \in 1..(n + 1)
    BY <1>1
  <2> QED
    BY <1>2, <1>5, <2>1 DEF Unquoted
<1>8. Closed(c) <=> Closed(b)
  <2>1. n + 1 \in 1..(n + 1) /\ m + (n + 1) = (m + n) + 1
    BY <1>1
  <2> QED
    BY <1>1, <1>5, <2>1 DEF Closed
<1>9. Unquoted(c) \subseteq 1..(m + n) /\ Unquoted(a) \subseteq 1..m /\ Unquoted(b) \subseteq 1..n
  BY <1>2 DEF Unquoted
<1> QED
  BY <1>6, <1>7, <1>8, <1>9 DEF c

\* Symbols of C outside strings, up to i.
Seen(s, C, i) == {j \in Unquoted(s) : j <= i /\ s[j] \in C}
Count(s, C, i) == Cardinality(Seen(s, C, i))

\* Those of two texts.
LEMMA CountConcat ==
    ASSUME NEW a \in Strings, NEW b \in Strings, Closed(a), NEW C
    PROVE  /\ \A i \in 0..Len(a) : Count(a \o b, C, i) = Count(a, C, i) /\ Count(a, C, i) \in Nat
           /\ \A k \in 0..Len(b) : /\ Count(b, C, k) \in Nat
                 /\ Count(a \o b, C, Len(a) + k) = Count(a, C, Len(a)) + Count(b, C, k)
<1> DEFINE m == Len(a)
           c == a \o b
<1>1. /\ m \in Nat /\ Len(b) \in Nat /\ \A i \in 1..m : c[i] = a[i]
      /\ \A j \in 1..Len(b) : c[m + j] = b[j]
  BY ConcatParts
<1>2. /\ \A i \in 1..m : i \in Unquoted(c) <=> i \in Unquoted(a)
      /\ \A j \in 1..Len(b) : m + j \in Unquoted(c) <=> j \in Unquoted(b)
      /\ Unquoted(c) \subseteq 1..(m + Len(b)) /\ Unquoted(a) \subseteq 1..m /\ Unquoted(b) \subseteq 1..Len(b)
  BY UnquotedConcat
<1> HIDE DEF c, m
<1>3. ASSUME NEW i \in 0..m PROVE Count(c, C, i) = Count(a, C, i) /\ Count(a, C, i) \in Nat
  <2>1. \A j \in 1..(m + Len(b)) : j <= i => j \in 1..m /\ j \in 1..i
    BY <1>1
  <2>2. 1..m \subseteq 1..(m + Len(b)) /\ i \in Nat
    BY <1>1
  <2>3. Seen(c, C, i) = Seen(a, C, i) /\ Seen(a, C, i) \subseteq 1..i
    BY <1>1, <1>2, <2>1, <2>2 DEF Seen
  <2>4. IsFiniteSet(1..i)
    BY <2>2, FS_Interval
  <2>5. Cardinality(Seen(a, C, i)) \in Nat
    BY <2>3, <2>4, FS_Subset, FS_CardinalityType
  <2> QED
    BY <2>3, <2>5 DEF Count
<1>4. ASSUME NEW k \in 0..Len(b)
      PROVE  Count(b, C, k) \in Nat /\ Count(c, C, m + k) = Count(a, C, m) + Count(b, C, k)
  <2> DEFINE P == Seen(a, C, m)
             R == Seen(b, C, k)
             X == Seen(c, C, m + k)
  <2>1. /\ k \in Nat /\ 1..k \subseteq 1..Len(b) /\ 1..m \subseteq 1..(m + k)
        /\ \A j \in 1..k : m + j \in 1..(m + k) /\ m + j <= m + k /\ j <= k
        /\ \A i \in 1..m : i <= m /\ i <= m + k
        /\ \A i \in 1..(m + Len(b)) : i <= m + k => i \in 1..(m + k)
        /\ \A j \in 1..Len(b) : j <= k => j \in 1..k
    BY <1>1
  <2>2. P \in SUBSET (1..m) /\ R \in SUBSET (1..k) /\ X \in SUBSET (1..(m + k))
    BY <1>2, <2>1 DEF Seen
  <2>3. \A i \in 1..m : i \in X <=> i \in P
    BY <1>1, <1>2, <2>1 DEF Seen
  <2>4. \A j \in 1..k : m + j \in X <=> j \in R
    BY <1>1, <1>2, <2>1 DEF Seen
  <2> HIDE DEF P, R, X
  <2>5. Cardinality(R) \in Nat /\ Cardinality(X) = Cardinality(P) + Cardinality(R)
    <3>1. Follows(m, k, P, R, X)
      BY <1>1, <2>1, <2>2, <2>3, <2>4 DEF Follows
    <3> QED
      BY <3>1, FollowCount
  <2> QED
    BY <2>5 DEF P, R, X, Count
<1> QED
  BY <1>3, <1>4 DEF c, m

\* Parentheses lead from depth d to depth e and never below 0, and every string is closed.
Level(s, d, e) ==
    /\ Closed(s)
    /\ \A i \in 1..Len(s) : Count(s, {")"}, i) <= d + Count(s, Opening, i)
    /\ d + Count(s, Opening, Len(s)) = e + Count(s, {")"}, Len(s))

LEMMA LevelConcat ==
    ASSUME NEW a \in Strings, NEW b \in Strings, NEW d \in Nat, NEW e \in Nat, NEW f \in Nat,
           Level(a, d, e), Level(b, e, f)
    PROVE  Level(a \o b, d, f)
<1> DEFINE m == Len(a)
           n == Len(b)
           c == a \o b
           open(s, i) == Count(s, Opening, i)
           shut(s, i) == Count(s, {")"}, i)
<1>1. m \in Nat /\ n \in Nat /\ Len(c) = m + n
  BY ConcatParts
<1>2. Closed(a) /\ Closed(b) /\ Closed(c)
  BY UnquotedConcat DEF Level
<1>3. /\ \A i \in 0..m : /\ open(c, i) = open(a, i) /\ open(a, i) \in Nat
                          /\ shut(c, i) = shut(a, i) /\ shut(a, i) \in Nat
      /\ \A k \in 0..n : /\ open(b, k) \in Nat /\ open(c, m + k) = open(a, m) + open(b, k)
                          /\ shut(b, k) \in Nat /\ shut(c, m + k) = shut(a, m) + shut(b, k)
  <2>1. /\ \A i \in 0..m : open(c, i) = open(a, i) /\ open(a, i) \in Nat
        /\ \A k \in 0..n : open(b, k) \in Nat /\ open(c, m + k) = open(a, m) + open(b, k)
    BY <1>2, CountConcat, Zenon
  <2>2. /\ \A i \in 0..m : shut(c, i) = shut(a, i) /\ shut(a, i) \in Nat
        /\ \A k \in 0..n : shut(b, k) \in Nat /\ shut(c, m + k) = shut(a, m) + shut(b, k)
    BY <1>2, CountConcat, Zenon
  <2> HIDE DEF c, open, shut, m, n
  <2> QED
    BY <2>1, <2>2
<1>4. /\ \A i \in 1..m : shut(a, i) <= d + open(a, i)
      /\ d + open(a, m) = e + shut(a, m)
      /\ \A k \in 1..n : shut(b, k) <= e + open(b, k)
      /\ e + open(b, n) = f + shut(b, n)
  BY DEF Level
<1> HIDE DEF c, open, shut, m, n
<1>5. ASSUME NEW i \in 1..(m + n) PROVE shut(c, i) <= d + open(c, i)
  <2>1. CASE i <= m
    <3>1. i \in 0..m /\ i \in 1..m
      BY <1>1, <2>1
    <3> QED
      BY <1>3, <1>4, <3>1
  <2>2. CASE ~(i <= m)
    <3> DEFINE k == i - m
    <3>1. k \in 0..n /\ k \in 1..n /\ i = m + k /\ m \in 0..m
      BY <1>1, <2>2
    <3> HIDE DEF k
    <3>2. /\ open(a, m) \in Nat /\ shut(a, m) \in Nat /\ open(b, k) \in Nat /\ shut(b, k) \in Nat
          /\ open(c, i) = open(a, m) + open(b, k) /\ shut(c, i) = shut(a, m) + shut(b, k)
      BY <1>3, <3>1
    <3>3. shut(b, k) <= e + open(b, k)
      BY <1>4, <3>1
    <3> QED
      BY <1>4, <3>2, <3>3
  <2> QED
    BY <2>1, <2>2
<1>6. d + open(c, m + n) = f + shut(c, m + n)
  <2>1. m \in 0..m /\ n \in 0..n
    BY <1>1
  <2>2. /\ open(a, m) \in Nat /\ shut(a, m) \in Nat /\ open(b, n) \in Nat /\ shut(b, n) \in Nat
        /\ open(c, m + n) = open(a, m) + open(b, n) /\ shut(c, m + n) = shut(a, m) + shut(b, n)
    BY <1>3, <2>1
  <2> QED
    BY <1>4, <2>2
<1> QED
  BY <1>1, <1>2, <1>5, <1>6 DEF Level, c, open, shut, m, n

\* A text that keeps the depth of 0 keeps that of 1.
LEMMA LevelLift ==
    ASSUME NEW s \in Strings, Level(s, 0, 0)
    PROVE  Level(s, 1, 1)
<1>1. Closed(s) /\ s \o << >> = s /\ << >> \in Strings /\ Len(s) \in Nat
  BY ConcatEmptySeq DEF Level, Strings
<1>2. \A i \in 0..Len(s) : Count(s, Opening, i) \in Nat /\ Count(s, {")"}, i) \in Nat
  <2>1. \A i \in 0..Len(s) : Count(s, Opening, i) \in Nat
    BY <1>1, CountConcat
  <2>2. \A i \in 0..Len(s) : Count(s, {")"}, i) \in Nat
    BY <1>1, CountConcat
  <2> QED
    BY <2>1, <2>2
<1>3. 1..Len(s) \subseteq 0..Len(s) /\ Len(s) \in 0..Len(s)
  BY <1>1
<1>4. ASSUME NEW i \in 1..Len(s) PROVE Count(s, {")"}, i) <= 1 + Count(s, Opening, i)
  <2>1. Count(s, {")"}, i) <= 0 + Count(s, Opening, i)
    BY DEF Level
  <2>2. Count(s, Opening, i) \in Nat /\ Count(s, {")"}, i) \in Nat
    BY <1>2, <1>3
  <2> QED
    BY <2>1, <2>2
<1>5. 1 + Count(s, Opening, Len(s)) = 1 + Count(s, {")"}, Len(s))
  <2>1. 0 + Count(s, Opening, Len(s)) = 0 + Count(s, {")"}, Len(s))
    BY DEF Level
  <2>2. Count(s, Opening, Len(s)) \in Nat /\ Count(s, {")"}, Len(s)) \in Nat
    BY <1>2, <1>3
  <2> QED
    BY <2>1, <2>2
<1> QED
  BY <1>1, <1>4, <1>5 DEF Level

\* Outside strings nothing needs quoting, and a star follows a term.
Shield(s) ==
    \A i \in Unquoted(s) :
        /\ s[i] \notin {"-", ","}
        /\ s[i] = "*" => i > 1 /\ s[i - 1] \in Barewords \cup {"quote"}

LEMMA ShieldConcat ==
    ASSUME NEW a \in Strings, NEW b \in Strings, Closed(a), Shield(a),
           \/ Shield(b)
           \/ b = <<"*">> /\ Len(a) # 0 /\ a[Len(a)] \in Barewords \cup {"quote"}
    PROVE  Shield(a \o b)
<1> DEFINE m == Len(a)
           n == Len(b)
           c == a \o b
           Term(x) == x \in Barewords \cup {"quote"}
<1>1. /\ m \in Nat /\ n \in Nat /\ \A i \in 1..m : c[i] = a[i]
      /\ \A j \in 1..n : c[m + j] = b[j]
  BY ConcatParts
<1>2. /\ \A i \in 1..m : i \in Unquoted(c) <=> i \in Unquoted(a)
      /\ \A j \in 1..n : m + j \in Unquoted(c) <=> j \in Unquoted(b)
      /\ Unquoted(c) \subseteq 1..(m + n)
  BY UnquotedConcat
<1>3. \A i \in Unquoted(a) : a[i] \notin {"-", ","} /\ (a[i] = "*" => i > 1 /\ Term(a[i - 1]))
  BY DEF Shield
<1> HIDE DEF c, Term
<1>4. ASSUME NEW i \in Unquoted(c)
      PROVE  c[i] \notin {"-", ","} /\ (c[i] = "*" => i > 1 /\ Term(c[i - 1]))
  <2>1. CASE i <= m
    <3>1. i \in 1..m
      BY <1>1, <1>2, <2>1
    <3>2. i > 1 => i - 1 \in 1..m
      BY <1>1, <3>1
    <3> QED
      BY <1>1, <1>2, <1>3, <3>1, <3>2
  <2>2. CASE ~(i <= m)
    <3> DEFINE j == i - m
    <3>1. j \in 1..n /\ i = m + j /\ (j > 1 => j - 1 \in 1..n /\ i - 1 = m + (j - 1) /\ i > 1)
      BY <1>1, <1>2, <2>2
    <3> HIDE DEF j
    <3>2. j \in Unquoted(b) /\ c[i] = b[j] /\ (j > 1 => i > 1 /\ c[i - 1] = b[j - 1])
      BY <1>1, <1>2, <3>1
    <3>3. CASE Shield(b)
      <4>1. b[j] \notin {"-", ","} /\ (b[j] = "*" => j > 1 /\ Term(b[j - 1]))
        BY <3>2, <3>3 DEF Shield, Term
      <4> QED
        BY <3>2, <4>1
    <3>4. CASE b = <<"*">> /\ m # 0 /\ Term(a[m])
      <4>1. j = 1 /\ b[j] = "*"
        BY <3>1, <3>4
      <4>2. i > 1 /\ i - 1 = m /\ m \in 1..m
        BY <1>1, <3>1, <3>4, <4>1
      <4>3. c[i - 1] = a[m]
        BY <1>1, <4>2
      <4> QED
        BY <3>2, <3>4, <4>1, <4>2, <4>3
    <3> QED
      BY <3>3, <3>4 DEF Term
  <2> QED
    BY <2>1, <2>2
<1> QED
  BY <1>4 DEF Shield, c, Term

\* A text of one symbol that is no quote.
LEMMA OneSymbol ==
    ASSUME NEW c \in Symbols, c # "quote"
    PROVE  /\ <<c>> \in Strings /\ Closed(<<c>>) /\ Unquoted(<<c>>) = {1}
           /\ \A C : Count(<<c>>, C, 1) = IF c \in C THEN 1 ELSE 0
<1> DEFINE s == <<c>>
<1>1. s \in Strings /\ Len(s) = 1 /\ s[1] = c /\ DOMAIN s = 1..1
  BY DEF Strings
<1> HIDE DEF s
<1>2. \A i \in 1..2 : {j \in 1..(i - 1) : s[j] = "quote"} = {}
  BY <1>1
<1>3. \A i \in 1..2 : QuotesBefore(s, i) = 0
  BY <1>2, FS_EmptySet DEF QuotesBefore
<1>4. Closed(s)
  BY <1>1, <1>3 DEF Closed
<1>5. Unquoted(s) = {1}
  BY <1>1, <1>3 DEF Unquoted
<1>6. ASSUME NEW C PROVE Count(s, C, 1) = IF c \in C THEN 1 ELSE 0
  <2>1. Seen(s, C, 1) = IF c \in C THEN {1} ELSE {}
    BY <1>1, <1>5 DEF Seen
  <2>2. Cardinality({1}) = 1 /\ Cardinality({}) = 0
    BY FS_Singleton, FS_EmptySet
  <2> QED
    BY <2>1, <2>2 DEF Count
<1> QED
  BY <1>1, <1>4, <1>5, <1>6 DEF s

\* The depths before and after one symbol.
LEMMA OneLevel ==
    ASSUME NEW c \in Symbols, c # "quote"
    PROVE  /\ c \notin Opening /\ c # ")" => Level(<<c>>, 0, 0)
           /\ c \in Opening => Level(<<c>>, 0, 1)
           /\ c = ")" => Level(<<c>>, 1, 0)
           /\ c \notin {"-", "*", ","} => Shield(<<c>>)
<1>1. ")" \notin Opening
  BY DEF Opening
<1>2. Count(<<c>>, Opening, 1) = IF c \in Opening THEN 1 ELSE 0
  BY OneSymbol
<1>3. Count(<<c>>, {")"}, 1) = IF c = ")" THEN 1 ELSE 0
  BY OneSymbol
<1>4. Closed(<<c>>) /\ Unquoted(<<c>>) = {1}
  BY OneSymbol
<1>5. <<c>>[1] = c /\ Len(<<c>>) = 1 /\ 1..1 = {1}
  OBVIOUS
<1> DEFINE s == <<c>>
<1> HIDE DEF s
<1>6. /\ Count(s, Opening, 1) = IF c \in Opening THEN 1 ELSE 0
      /\ Count(s, {")"}, 1) = IF c = ")" THEN 1 ELSE 0
      /\ Closed(s) /\ Unquoted(s) = {1} /\ s[1] = c /\ Len(s) = 1 /\ 1..Len(s) = {1}
  BY <1>2, <1>3, <1>4, <1>5 DEF s
<1>7. c \notin Opening /\ c # ")" => Level(s, 0, 0)
  BY <1>6 DEF Level
<1>8. c \in Opening => Level(s, 0, 1)
  BY <1>1, <1>6 DEF Level
<1>9. c = ")" => Level(s, 1, 0)
  BY <1>1, <1>6 DEF Level
<1>10. c \notin {"-", "*", ","} => Shield(s)
  BY <1>6 DEF Shield
<1> QED
  BY <1>7, <1>8, <1>9, <1>10 DEF s

\* Texts FTS5 can be given.
SafeTexts == {s \in Strings : Level(s, 0, 0) /\ Shield(s)}

LEMMA SafeConcat ==
    ASSUME NEW a \in SafeTexts, NEW b \in SafeTexts
    PROVE  a \o b \in SafeTexts
<1>1. a \in Strings /\ b \in Strings /\ Level(a, 0, 0) /\ Level(b, 0, 0) /\ Shield(a) /\ Shield(b) /\ Closed(a)
  BY DEF SafeTexts, Level
<1>2. a \o b \in Strings
  BY <1>1, ConcatParts
<1>3. Level(a \o b, 0, 0)
  BY <1>1, LevelConcat
<1>4. Shield(a \o b)
  BY <1>1, ShieldConcat
<1> QED
  BY <1>2, <1>3, <1>4 DEF SafeTexts

\* A star may follow a term.
LEMMA SafeStar ==
    ASSUME NEW a \in SafeTexts, Len(a) # 0, a[Len(a)] \in Barewords \cup {"quote"}
    PROVE  a \o <<"*">> \in SafeTexts
<1>1. a \in Strings /\ Level(a, 0, 0) /\ Shield(a) /\ Closed(a)
  BY DEF SafeTexts, Level
<1>2. "*" \in Symbols /\ "*" # "quote" /\ "*" \notin Opening /\ "*" # ")"
  BY DEF Symbols, Opening
<1> DEFINE b == <<"*">>
<1>3. b \in Strings /\ Level(b, 0, 0)
  BY <1>2, OneSymbol, OneLevel
<1>4. Shield(a \o b)
  BY <1>1, <1>3, ShieldConcat
<1> HIDE DEF b
<1>5. a \o b \in Strings
  BY <1>1, <1>3, ConcatParts
<1>6. Level(a \o b, 0, 0)
  BY <1>1, <1>3, LevelConcat
<1> QED
  BY <1>4, <1>5, <1>6 DEF SafeTexts, b

\* Parentheses may stand around a safe text.
LEMMA SafeParens ==
    ASSUME NEW x \in SafeTexts, NEW c \in Opening
    PROVE  (<<c>> \o x) \o <<")">> \in SafeTexts
<1> DEFINE a == <<c>>
           b == <<")">>
<1>1. c \in Symbols /\ c # "quote" /\ c \notin {"-", "*", ","}
  BY DEF Symbols, Opening
<1>2. ")" \in Symbols
  BY DEF Symbols
<1>3. a \in Strings /\ Closed(a) /\ Level(a, 0, 1) /\ Shield(a)
  BY <1>1, OneSymbol, OneLevel
<1>4. b \in Strings /\ Level(b, 1, 0) /\ Shield(b)
  BY <1>2, OneSymbol, OneLevel
<1>5. x \in Strings /\ Level(x, 0, 0) /\ Level(x, 1, 1) /\ Shield(x)
  BY LevelLift DEF SafeTexts
<1> HIDE DEF a, b
<1> DEFINE y == a \o x
<1>6. y \in Strings /\ Level(y, 0, 1) /\ Shield(y)
  <2>1. y \in Strings
    BY <1>3, <1>5, ConcatParts
  <2>2. Level(y, 0, 1)
    BY <1>3, <1>5, LevelConcat
  <2>3. Shield(y)
    BY <1>3, <1>5, ShieldConcat
  <2> QED
    BY <2>1, <2>2, <2>3
<1> HIDE DEF y
<1>7. y \o b \in Strings
  BY <1>4, <1>6, ConcatParts
<1>8. Level(y \o b, 0, 0)
  BY <1>4, <1>6, LevelConcat
<1>9. Shield(y \o b)
  <2>1. Closed(y)
    BY <1>6 DEF Level
  <2> QED
    BY <1>4, <1>6, <2>1, ShieldConcat
<1> QED
  BY <1>7, <1>8, <1>9 DEF SafeTexts, a, b, y

-----------------------------------------------------------------------------
(* SearchQuery: which texts are safe.                                      *)

\* Texts of words, spaces and column names are safe.
Harmless == Barewords \cup {"space", "label:"}

LEMMA HarmlessAreSafe ==
    ASSUME NEW s \in Strings, \A i \in 1..Len(s) : s[i] \in Harmless
    PROVE  s \in SafeTexts
<1>1. << >> \in SafeTexts
  <2> DEFINE e == << >>
  <2>1. e \in Strings /\ Len(e) = 0 /\ DOMAIN e = {}
    BY DEF Strings
  <2> HIDE DEF e
  <2>2. Unquoted(e) = {}
    BY <2>1 DEF Unquoted
  <2>3. \A C : Count(e, C, 0) = 0
    <3>1. \A C : Seen(e, C, 0) = {}
      BY <2>2 DEF Seen
    <3> QED
      BY <3>1, FS_EmptySet DEF Count
  <2>4. Closed(e)
    <3>1. {j \in 1..((0 + 1) - 1) : e[j] = "quote"} = {}
      OBVIOUS
    <3>2. QuotesBefore(e, 0 + 1) = 0
      BY <3>1, FS_EmptySet DEF QuotesBefore
    <3> QED
      BY <2>1, <3>2 DEF Closed
  <2>5. Level(e, 0, 0)
    BY <2>1, <2>3, <2>4 DEF Level
  <2>6. Shield(e)
    BY <2>2 DEF Shield
  <2> QED
    BY <2>1, <2>5, <2>6 DEF SafeTexts, e
<1>2. ASSUME NEW c \in Harmless PROVE <<c>> \in SafeTexts
  <2>1. c \in Symbols /\ c # "quote" /\ c \notin Opening /\ c # ")" /\ c \notin {"-", "*", ","}
    BY DEF Harmless, Symbols, Barewords, Opening
  <2> QED
    BY <2>1, OneSymbol, OneLevel DEF SafeTexts
<1>3. ASSUME NEW t \in Seq(Harmless), NEW c \in Harmless, t \in SafeTexts PROVE Append(t, c) \in SafeTexts
  <2>1. Append(t, c) = t \o <<c>>
    OBVIOUS
  <2> QED
    BY <1>2, <1>3, <2>1, SafeConcat
<1>4. Seq(Harmless) \subseteq SafeTexts
  BY <1>1, <1>3, SeqSet
<1>5. s \in Seq(Harmless)
  BY DEF Strings
<1> QED
  BY <1>4, <1>5

\* The harmless texts a rewrite adds or keeps.
LEMMA AddedAreSafe ==
    /\ << >> \in SafeTexts /\ <<"space">> \in SafeTexts /\ <<"OR">> \in SafeTexts
    /\ <<"label:">> \in SafeTexts /\ <<"OR", "space">> \in SafeTexts
<1>1. "space" \in Symbols /\ "OR" \in Symbols /\ "label:" \in Symbols
  BY DEF Symbols, Barewords
<1>2. "space" \in Harmless /\ "OR" \in Harmless /\ "label:" \in Harmless
  BY DEF Harmless, Barewords
<1>3. ASSUME NEW c \in Symbols, c \in Harmless PROVE <<c>> \in SafeTexts
  <2>1. <<c>> \in Strings
    BY DEF Strings
  <2>2. \A i \in 1..Len(<<c>>) : <<c>>[i] \in Harmless
    BY <1>3
  <2> QED
    BY <2>1, <2>2, HarmlessAreSafe
<1>4. <<"OR", "space">> \in SafeTexts
  <2>1. <<"OR", "space">> = <<"OR">> \o <<"space">>
    OBVIOUS
  <2> QED
    BY <1>1, <1>2, <1>3, <2>1, SafeConcat
<1>5. << >> \in SafeTexts
  <2>1. << >> \in Strings
    BY DEF Strings
  <2>2. \A i \in 1..Len(<< >>) : << >>[i] \in Harmless
    OBVIOUS
  <2> QED
    BY <2>1, <2>2, HarmlessAreSafe
<1> QED
  BY <1>1, <1>2, <1>3, <1>4, <1>5

\* Flattening a text of one symbol each gives it back.
LEMMA FlattenSymbols ==
    ASSUME NEW s \in Strings
    PROVE  FlattenSeq([i \in DOMAIN s |-> <<s[i]>>]) = s
<1> DEFINE g(t) == [i \in DOMAIN t |-> <<t[i]>>]
           G == {t \in Strings : FlattenSeq(g(t)) = t}
<1>1. << >> \in G
  <2>1. g(<< >>) = << >> /\ << >> \in Strings /\ << >> \in Seq(Strings)
    BY DEF Strings
  <2>2. FlattenSeq(<< >>) = << >>
    BY <2>1, FlattenGrows DEF Strings
  <2> QED
    BY <2>1, <2>2
<1>2. ASSUME NEW t \in Seq(Symbols), NEW c \in Symbols, t \in G PROVE Append(t, c) \in G
  <2>1. Append(t, c) \in Strings /\ <<c>> \in Seq(Symbols)
    BY DEF Strings
  <2>2. g(t) \in Seq(Seq(Symbols))
    <3>1. Len(t) \in Nat /\ DOMAIN t = 1..Len(t) /\ \A i \in 1..Len(t) : t[i] \in Symbols
      OBVIOUS
    <3>2. \A i \in 1..Len(t) : <<t[i]>> \in Seq(Symbols)
      BY <3>1
    <3> QED
      BY <3>1, <3>2
  <2>3. g(Append(t, c)) = Append(g(t), <<c>>)
    OBVIOUS
  <2>4. FlattenSeq(Append(g(t), <<c>>)) = FlattenSeq(g(t)) \o <<c>>
    <3> HIDE DEF g
    <3> QED
      BY <2>1, <2>2, FlattenGrows
  <2>5. FlattenSeq(g(t)) = t
    BY <1>2
  <2>6. t \o <<c>> = Append(t, c)
    OBVIOUS
  <2> HIDE DEF g
  <2> QED
    BY <2>1, <2>3, <2>4, <2>5, <2>6
<1>3. Seq(Symbols) \subseteq G
  <2> HIDE DEF G
  <2> QED
    BY <1>1, <1>2, SeqSet
<1> QED
  BY <1>3 DEF Strings

\* The symbols of a text in quotes.
LEMMA QuoteLayout ==
    ASSUME NEW s \in Strings
    PROVE  LET q == (<<"quote">> \o s) \o <<"quote">>
               n == Len(s)
           IN  /\ n \in Nat /\ q \in Strings /\ Len(q) = n + 2 /\ q[1] = "quote" /\ q[n + 2] = "quote"
               /\ \A i \in 2..(n + 1) : q[i] = s[i - 1]
<1> DEFINE a == <<"quote">>
           n == Len(s)
           y == a \o s
           q == y \o a
<1>1. "quote" \in Symbols
  BY DEF Symbols
<1>2. a \in Strings /\ Len(a) = 1 /\ a[1] = "quote"
  BY <1>1 DEF Strings
<1> HIDE DEF a
<1>3. /\ y \in Strings /\ Len(y) = Len(a) + n /\ n \in Nat
      /\ \A i \in 1..Len(a) : y[i] = a[i]
      /\ \A j \in 1..n : y[Len(a) + j] = s[j]
  BY <1>2, ConcatParts
<1> HIDE DEF y
<1>4. /\ q \in Strings /\ Len(q) = Len(y) + Len(a)
      /\ \A i \in 1..Len(y) : q[i] = y[i]
      /\ \A j \in 1..Len(a) : q[Len(y) + j] = a[j]
  BY <1>2, <1>3, ConcatParts
<1> HIDE DEF q, n
<1>5. Len(y) = n + 1 /\ Len(q) = n + 2 /\ 1 \in 1..Len(y) /\ 1 \in 1..Len(a) /\ Len(y) + 1 = n + 2
  BY <1>2, <1>3, <1>4
<1>6. q[1] = "quote"
  BY <1>2, <1>3, <1>4, <1>5
<1>7. q[n + 2] = "quote"
  BY <1>2, <1>4, <1>5
<1>8. ASSUME NEW i \in 2..(n + 1) PROVE q[i] = s[i - 1]
  <2>1. i - 1 \in 1..n /\ Len(a) + (i - 1) = i /\ i \in 1..Len(y)
    BY <1>2, <1>3, <1>5
  <2> QED
    BY <1>3, <1>4, <2>1
<1> QED
  BY <1>3, <1>4, <1>5, <1>6, <1>7, <1>8 DEF a, n, y, q

\* A text without quotes is safe in quotes.
LEMMA QuotedIsSafe ==
    ASSUME NEW s \in Strings, \A i \in 1..Len(s) : s[i] # "quote"
    PROVE  LET q == QuoteFTSToken(s) IN q \in SafeTexts /\ Len(q) # 0 /\ q[Len(q)] = "quote"
<1> DEFINE n == Len(s)
           q == QuoteFTSToken(s)
           Q(i) == {j \in 1..(i - 1) : q[j] = "quote"}
<1>1. q = (<<"quote">> \o s) \o <<"quote">>
  <2>0. DOMAIN s = 1..n
    BY DEF Strings
  <2>1. [i \in DOMAIN s |-> IF s[i] = "quote" THEN <<"quote", "quote">> ELSE <<s[i]>>] = [i \in DOMAIN s |-> <<s[i]>>]
    BY <2>0
  <2>2. FlattenSeq([i \in DOMAIN s |-> <<s[i]>>]) = s
    BY FlattenSymbols
  <2> QED
    BY <2>1, <2>2 DEF QuoteFTSToken
<1>2. /\ n \in Nat /\ q \in Strings /\ Len(q) = n + 2 /\ q[1] = "quote" /\ q[n + 2] = "quote"
      /\ \A i \in 2..(n + 1) : q[i] = s[i - 1]
  BY <1>1, QuoteLayout
<1> HIDE DEF q
<1>3. \A i \in 2..(n + 1) : q[i] # "quote"
  <2>1. \A i \in 2..(n + 1) : i - 1 \in 1..n
    BY <1>2
  <2> QED
    BY <1>2, <2>1
<1> HIDE DEF n
<1>4. \A i \in 2..(n + 2) : QuotesBefore(q, i) = 1
  <2>1. \A i \in 2..(n + 2) : Q(i) = {1}
    <3> SUFFICES ASSUME NEW i \in 2..(n + 2) PROVE Q(i) = {1}
      OBVIOUS
    <3>1. 1 \in 1..(i - 1) /\ \A j \in 1..(i - 1) : j = 1 \/ j \in 2..(n + 1)
      BY <1>2
    <3> QED
      BY <1>2, <1>3, <3>1
  <2> QED
    BY <2>1, FS_Singleton DEF QuotesBefore
<1>5. QuotesBefore(q, n + 3) = 2
  <2>1. Q(n + 3) = {1} \cup {n + 2}
    <3>1. (n + 3) - 1 = n + 2 /\ 1 \in 1..(n + 2) /\ n + 2 \in 1..(n + 2)
      BY <1>2
    <3>2. \A j \in 1..(n + 2) : j = 1 \/ j = n + 2 \/ j \in 2..(n + 1)
      BY <1>2
    <3> QED
      BY <1>2, <1>3, <3>1, <3>2
  <2>2. n + 2 \notin {1}
    BY <1>2
  <2>3. IsFiniteSet({1}) /\ Cardinality({1}) = 1
    BY FS_Singleton
  <2>4. Cardinality({1} \cup {n + 2}) = 1 + 1
    BY <2>2, <2>3, FS_AddElement
  <2>5. 1 + 1 = 2
    OBVIOUS
  <2>6. QuotesBefore(q, n + 3) = Cardinality(Q(n + 3))
    BY DEF QuotesBefore
  <2> HIDE DEF Q
  <2> QED
    BY <2>1, <2>4, <2>5, <2>6, Zenon
<1>6. Closed(q)
  <2>1. Len(q) + 1 = n + 3
    BY <1>2, <1>3
  <2> QED
    BY <1>5, <2>1 DEF Closed
<1>7. Unquoted(q) \subseteq {1}
  <2>1. DOMAIN q = 1..(n + 2)
    BY <1>2, <1>3 DEF Strings
  <2>2. ASSUME NEW i \in Unquoted(q) PROVE i = 1
    <3>1. i \in 1..(n + 2) /\ QuotesBefore(q, i) % 2 = 0
      BY <2>1 DEF Unquoted
    <3>2. i \in 2..(n + 2) => FALSE
      BY <1>4, <3>1
    <3> QED
      BY <1>2, <3>1, <3>2
  <2> QED
    BY <2>2
<1>8. ASSUME NEW C, "quote" \notin C, NEW i PROVE Count(q, C, i) = 0
  <2>1. Seen(q, C, i) = {}
    BY <1>2, <1>7, <1>8 DEF Seen
  <2> QED
    BY <2>1, FS_EmptySet DEF Count
<1>9. Level(q, 0, 0)
  <2>1. \A i : Count(q, Opening, i) = 0
    BY <1>8 DEF Opening
  <2>2. \A i : Count(q, {")"}, i) = 0
    BY <1>8
  <2> QED
    BY <1>6, <2>1, <2>2 DEF Level
<1>10. Shield(q)
  BY <1>2, <1>7 DEF Shield
<1>11. q \in SafeTexts /\ Len(q) # 0 /\ q[Len(q)] = "quote"
  BY <1>2, <1>3, <1>9, <1>10 DEF SafeTexts
<1> QED
  BY <1>11 DEF q

\* Safe texts stay safe when they are joined with spaces.
LEMMA JoinIsSafe ==
    ASSUME NEW tokens \in Seq(SafeTexts)
    PROVE  JoinTokens(tokens) \in SafeTexts
<1> DEFINE padded == [i \in DOMAIN tokens |-> IF i = 1 THEN tokens[i] ELSE <<"space">> \o tokens[i]]
           G == {ss \in Seq(SafeTexts) : FlattenSeq(ss) \in SafeTexts}
<1>1. Len(tokens) \in Nat /\ DOMAIN tokens = 1..Len(tokens) /\ \A i \in DOMAIN tokens : tokens[i] \in SafeTexts
  OBVIOUS
<1>2. <<"space">> \in SafeTexts /\ << >> \in SafeTexts
  BY AddedAreSafe
<1>3. \A i \in DOMAIN tokens : padded[i] \in SafeTexts
  BY <1>1, <1>2, SafeConcat
<1>4. padded \in Seq(SafeTexts)
  BY <1>1, <1>3
<1>5. << >> \in G
  <2>1. << >> \in Seq(Seq(Symbols)) /\ << >> \in Seq(Symbols)
    OBVIOUS
  <2>2. FlattenSeq(<< >>) = << >>
    BY <2>1, FlattenGrows
  <2> QED
    BY <1>2, <2>2
<1>6. ASSUME NEW ss \in Seq(SafeTexts), NEW t \in SafeTexts, ss \in G PROVE Append(ss, t) \in G
  <2>1. SafeTexts \subseteq Seq(Symbols)
    BY DEF SafeTexts, Strings
  <2>2. ss \in Seq(Seq(Symbols)) /\ t \in Seq(Symbols)
    BY <2>1
  <2>3. FlattenSeq(Append(ss, t)) = FlattenSeq(ss) \o t
    BY <2>2, FlattenGrows
  <2>4. FlattenSeq(ss) \in SafeTexts
    BY <1>6
  <2>5. FlattenSeq(ss) \o t \in SafeTexts
    BY <2>4, SafeConcat
  <2>6. Append(ss, t) \in Seq(SafeTexts)
    OBVIOUS
  <2> QED
    BY <2>3, <2>5, <2>6
<1>7. Seq(SafeTexts) \subseteq G
  <2> HIDE DEF G
  <2> QED
    BY <1>5, <1>6, SeqSet
<1>8. JoinTokens(tokens) = FlattenSeq(padded)
  BY DEF JoinTokens
<1> HIDE DEF padded
<1> QED
  BY <1>4, <1>7, <1>8

-----------------------------------------------------------------------------
(* SearchQuery: a rewrite makes plain texts safe.                          *)

\* What a user types without quotes, and without a comma if there is a NEAR.
Lacks(s, symbol) == \A i \in 1..Len(s) : s[i] # symbol
Plain(s) == Lacks(s, "quote") /\ (Lacks(s, ",") \/ Lacks(s, "NEAR("))

\* rw makes plain texts of up to n symbols safe.
Shielding(rw, n) == \A t \in Texts : Len(t) <= n /\ Plain(t) => rw[t] \in SafeTexts

\* Fewer symbols, and symbols of a plain text.
LEMMA PlainParts ==
    ASSUME NEW q, Plain(q)
    PROVE  /\ \A t : DrawnFrom(t, q) => Plain(t)
           /\ \A rw : \A m \in Nat : \A n \in Nat : n <= m /\ Shielding(rw, m) => Shielding(rw, n)
<1>1. \A t : DrawnFrom(t, q) => Plain(t)
  <2>1. \A t, c : DrawnFrom(t, q) /\ Lacks(q, c) => Lacks(t, c)
    BY DEF DrawnFrom, Lacks
  <2> QED
    BY <2>1 DEF Plain
<1>2. ASSUME NEW m \in Nat, NEW n \in Nat, n <= m, NEW t \in Texts, Len(t) <= n PROVE Len(t) <= m
  <2>1. Len(t) \in Nat
    BY DEF Texts
  <2> QED
    BY <1>2, <2>1
<1> QED
  BY <1>1, <1>2, Zenon DEF Shielding

\* rewriteFTSExpressionTerms makes a plain text safe if the rewrite of its tokens does.
LEMMA ExpressionIsSafe ==
    ASSUME NEW s \in Strings, Len(s) <= MaxSymbols, Plain(s), NEW rw, Shielding(rw, Len(s))
    PROVE  RewriteFTSExpressionTerms(rw, s) \in SafeTexts
<1> DEFINE tokens == SplitFTSQuery(s)
           texts == [i \in DOMAIN tokens |-> IF IsFTSOperator(tokens[i]) THEN tokens[i] ELSE rw[tokens[i]]]
<1>1. tokens \in Seq(Pieces(s))
  BY SplitKeeps
<1>2. RewriteFTSExpressionTerms(rw, s) = JoinTokens(texts)
  BY DEF RewriteFTSExpressionTerms
<1> HIDE DEF tokens
<1>3. \A p \in Pieces(s) : p \in Texts /\ Len(p) <= Len(s) /\ Plain(p)
  <2>1. Len(s) \in Nat /\ MaxSymbols \in Nat
    BY SearchQueryAssumption DEF Strings
  <2>2. \A p \in Pieces(s) : p \in Texts /\ Len(p) <= Len(s)
    BY <2>1 DEF Pieces, Texts, Strings
  <2>3. \A p \in Pieces(s) : Plain(p)
    BY PlainParts DEF Pieces
  <2> QED
    BY <2>2, <2>3
<1>4. /\ Len(tokens) \in Nat /\ DOMAIN tokens = 1..Len(tokens)
      /\ \A i \in DOMAIN tokens : tokens[i] \in Pieces(s)
  BY <1>1
<1>5. \A p \in Pieces(s) : rw[p] \in SafeTexts
  BY <1>3, Zenon DEF Shielding
<1>6. \A p : IsFTSOperator(p) => p \in SafeTexts
  BY AddedAreSafe DEF IsFTSOperator
<1>7. \A i \in DOMAIN tokens : texts[i] \in SafeTexts
  BY <1>4, <1>5, <1>6
<1>8. texts \in Seq(SafeTexts)
  BY <1>4, <1>7
<1> HIDE DEF texts
<1> QED
  BY <1>2, <1>8, JoinIsSafe

\* What is inside the parentheses of a plain text.
LEMMA PlainInner ==
    ASSUME NEW s \in Texts, Plain(s), s[1] \in Opening, Last(s) = ")"
    PROVE  LET inner == TrimSpace(Inside(s, 1))
           IN  /\ Plain(inner) /\ (s[1] = "NEAR(" => SplitTopLevelComma(inner) = 0)
               /\ inner = << >> => s \in SafeTexts
<1> DEFINE x == Inside(s, 1)
           inner == TrimSpace(x)
<1>1. s \in Strings /\ Len(s) \in 1..MaxSymbols /\ MaxSymbols \in Nat
  BY SearchQueryAssumption DEF Texts, Strings
<1>2. Len(s) >= 2
  <2>1. s[1] # Last(s)
    BY DEF Opening
  <2> QED
    BY <1>1, <2>1 DEF Last
<1>3. /\ x \in Strings /\ Len(x) = Len(s) - 2 /\ s = (<<s[1]>> \o x) \o <<Last(s)>>
  BY <1>1, <1>2, Ends
<1>4. DrawnFrom(x, s)
  <2>1. x = SubSeq(s, 2, Len(s) - 1)
    BY DEF Inside
  <2>2. 2 \in 1..(Len(s) + 1) /\ Len(s) - 1 \in (2 - 1)..Len(s) /\ (Len(s) - 1) - 2 + 1 = Len(s) - 2
    BY <1>1, <1>2
  <2>3. \A j \in 1..((Len(s) - 1) - 2 + 1) : x[j] = s[2 + j - 1]
    BY <1>1, <2>1, <2>2, PieceParts
  <2>4. \A j \in 1..Len(x) : x[j] = s[2 + j - 1] /\ 2 + j - 1 \in 1..Len(s)
    BY <1>1, <1>2, <1>3, <2>2, <2>3
  <2> QED
    BY <2>4 DEF DrawnFrom
<1> HIDE DEF x
<1>5. /\ inner \in Strings /\ DrawnFrom(inner, x)
      /\ inner = << >> => \A i \in 1..Len(x) : x[i] = "space"
  BY <1>3, TrimKeeps
<1>6. Plain(inner) /\ (Lacks(s, ",") => Lacks(inner, ","))
  <2>1. Plain(x)
    BY <1>4, PlainParts
  <2>2. Plain(inner)
    BY <1>5, <2>1, PlainParts
  <2>3. Lacks(s, ",") => Lacks(inner, ",")
    BY <1>4, <1>5 DEF DrawnFrom, Lacks
  <2> QED
    BY <2>2, <2>3
<1>7. inner = << >> => s \in SafeTexts
  <2> SUFFICES ASSUME inner = << >> PROVE s \in SafeTexts
    OBVIOUS
  <2>1. \A i \in 1..Len(x) : x[i] \in Harmless
    BY <1>5 DEF Harmless
  <2>2. x \in SafeTexts
    BY <1>3, <2>1, HarmlessAreSafe
  <2>3. (<<s[1]>> \o x) \o <<")">> \in SafeTexts
    BY <2>2, SafeParens
  <2> QED
    BY <1>3, <2>3
<1> HIDE DEF inner
<1>8. s[1] = "NEAR(" => SplitTopLevelComma(inner) = 0
  <2> SUFFICES ASSUME s[1] = "NEAR(", SplitTopLevelComma(inner) # 0 PROVE FALSE
    OBVIOUS
  <2>1. SplitTopLevelComma(inner) \in 1..Len(inner) /\ inner[SplitTopLevelComma(inner)] = ","
    BY <1>5, CommaInside
  <2>2. ~Lacks(s, "NEAR(")
    BY <1>1 DEF Lacks
  <2>3. Lacks(inner, ",")
    BY <1>6, <2>2 DEF Plain
  <2> QED
    BY <2>1, <2>3 DEF Lacks
<1> QED
  BY <1>6, <1>7, <1>8 DEF inner, x

\* Parentheses and NEAR around a plain text become safe if the rewrite of shorter texts does.
LEMMA ParensAreSafe ==
    ASSUME NEW s \in Texts, Plain(s), Last(s) = ")", NEW rw, Shielding(rw, Len(s) - 1)
    PROVE  /\ s[1] = "(" => RewriteParenthesizedExpression(rw, s) \in SafeTexts
           /\ s[1] = "NEAR(" => RewriteNearExpression(rw, s) \in SafeTexts
<1> SUFFICES ASSUME s[1] \in Opening
             PROVE  /\ s[1] = "(" => RewriteParenthesizedExpression(rw, s) \in SafeTexts
                    /\ s[1] = "NEAR(" => RewriteNearExpression(rw, s) \in SafeTexts
  BY DEF Opening
<1> DEFINE inner == TrimSpace(Inside(s, 1))
           x == RewriteFTSExpressionTerms(rw, inner)
<1>1. /\ Plain(inner) /\ (s[1] = "NEAR(" => SplitTopLevelComma(inner) = 0)
      /\ inner = << >> => s \in SafeTexts
  BY PlainInner
<1>2. /\ inner \in Strings /\ Len(s) - 1 \in Nat
      /\ Len(inner) <= Len(s) - 1 /\ Len(inner) <= MaxSymbols /\ Len(inner) \in Nat
  <2>1. s[1] # Last(s)
    BY DEF Opening
  <2> QED
    BY <2>1, InnerParts
<1>3. /\ RewriteParenthesizedExpression(rw, s) = IF inner = << >> THEN s ELSE (<<"(">> \o x) \o <<")">>
      /\ s[1] = "NEAR(" =>
             RewriteNearExpression(rw, s) = IF inner = << >> THEN s ELSE (<<"NEAR(">> \o x) \o <<")">>
  BY <1>1 DEF RewriteParenthesizedExpression, RewriteNearExpression
<1> HIDE DEF inner
<1>4. Shielding(rw, Len(inner))
  BY <1>1, <1>2, PlainParts
<1>5. x \in SafeTexts
  BY <1>1, <1>2, <1>4, ExpressionIsSafe
<1> HIDE DEF x
<1>6. "(" \in Opening /\ "NEAR(" \in Opening
  BY DEF Opening
<1>7. (<<"(">> \o x) \o <<")">> \in SafeTexts
  BY <1>5, <1>6, SafeParens
<1>8. (<<"NEAR(">> \o x) \o <<")">> \in SafeTexts
  BY <1>5, <1>6, SafeParens
<1> QED
  BY <1>1, <1>3, <1>7, <1>8

\* A plain text is safe once it is quoted if it needs it, and ends with a term.
LEMMA QuotedIfNeeded ==
    ASSUME NEW s \in Strings, Plain(s), Len(s) # 0
    PROVE  LET x == IF NeedsFtsQuoting(s) THEN QuoteFTSToken(s) ELSE s
           IN  x \in SafeTexts /\ Len(x) # 0 /\ x[Len(x)] \in Barewords \cup {"quote"}
<1>1. Len(s) \in Nat /\ DOMAIN s = 1..Len(s) /\ Len(s) \in 1..Len(s)
  BY DEF Strings
<1>2. CASE NeedsFtsQuoting(s)
  <2>1. \A i \in 1..Len(s) : s[i] # "quote"
    BY DEF Plain, Lacks
  <2> QED
    BY <1>2, <2>1, QuotedIsSafe
<1>3. CASE ~NeedsFtsQuoting(s)
  <2>1. \A i \in 1..Len(s) : s[i] \in Barewords
    BY <1>1, <1>3 DEF NeedsFtsQuoting
  <2>2. \A i \in 1..Len(s) : s[i] \in Harmless
    BY <2>1 DEF Harmless
  <2>3. s \in SafeTexts
    BY <2>2, HarmlessAreSafe
  <2> QED
    BY <1>1, <1>3, <2>1, <2>3
<1> QED
  BY <1>2, <1>3

\* A plain term that is neither a NEAR, in parentheses nor in a column.
LEMMA TermIsSafe ==
    ASSUME NEW s \in Texts, Plain(s)
    PROVE  (IF Last(s) = "*" /\ Len(s) > 1 THEN PrefixTerm(Front(s))
            ELSE IF NeedsFtsQuoting(s) THEN QuoteFTSToken(s) ELSE s) \in SafeTexts
<1>1. s \in Strings /\ Len(s) \in Nat /\ Len(s) # 0
  BY DEF Texts, Strings
<1>2. (IF NeedsFtsQuoting(s) THEN QuoteFTSToken(s) ELSE s) \in SafeTexts
  BY <1>1, QuotedIfNeeded
<1>3. ASSUME Last(s) = "*", Len(s) > 1 PROVE PrefixTerm(Front(s)) \in SafeTexts
  <2> DEFINE t == Front(s)
             x == IF NeedsFtsQuoting(t) THEN QuoteFTSToken(t) ELSE t
  <2>1. Len(s) >= 2
    BY <1>1, <1>3
  <2>2. t \in Strings /\ Len(t) = Len(s) - 1 /\ s = t \o <<Last(s)>> /\ Last(s) \in Symbols
    BY <1>1, <2>1, Ends
  <2>3. Len(t) # 0
    BY <1>1, <2>1, <2>2
  <2>4. DrawnFrom(t, s)
    <3>1. <<Last(s)>> \in Strings
      BY <2>2 DEF Strings
    <3>2. \A i \in 1..Len(t) : (t \o <<Last(s)>>)[i] = t[i]
      BY <2>2, <3>1, ConcatParts
    <3>3. \A i \in 1..Len(t) : s[i] = t[i] /\ i \in 1..Len(s)
      BY <1>1, <2>2, <3>2
    <3> QED
      BY <3>3 DEF DrawnFrom
  <2> HIDE DEF t
  <2>5. x \in SafeTexts /\ Len(x) # 0 /\ x[Len(x)] \in Barewords \cup {"quote"}
    BY <2>2, <2>3, <2>4, PlainParts, QuotedIfNeeded
  <2>6. PrefixTerm(t) = x \o <<"*">>
    BY DEF PrefixTerm
  <2> HIDE DEF x
  <2>7. PrefixTerm(t) \in SafeTexts
    BY <2>5, <2>6, SafeStar
  <2> QED
    BY <2>7 DEF t
<1> QED
  BY <1>2, <1>3

\* One step makes a plain text safe if the rewrite of shorter texts does.
LEMMA StepIsSafe ==
    ASSUME NEW s \in Texts, Plain(s), NEW rw, Shielding(rw, Len(s) - 1)
    PROVE  RewriteToken(rw, s) \in SafeTexts
<1> DEFINE near == s[1] = "NEAR(" /\ Last(s) = ")"
           paren == s[1] = "(" /\ Last(s) = ")"
           column == s[1] = "label:" /\ Len(s) > 1
           term == IF Last(s) = "*" /\ Len(s) > 1 THEN PrefixTerm(Front(s))
                   ELSE IF NeedsFtsQuoting(s) THEN QuoteFTSToken(s) ELSE s
<1>1. /\ s \in Strings /\ Len(s) \in 1..MaxSymbols /\ MaxSymbols \in Nat /\ Len(s) \in Nat
      /\ 1 \in 1..Len(s)
  BY SearchQueryAssumption DEF Texts, Strings
<1>2. s[1] # "quote"
  BY <1>1 DEF Plain, Lacks
<1>3. CASE near
  <2>1. RewriteToken(rw, s) = RewriteNearExpression(rw, s)
    BY <1>3 DEF RewriteToken
  <2> QED
    BY <1>3, <2>1, ParensAreSafe
<1>4. CASE paren
  <2>1. RewriteToken(rw, s) = RewriteParenthesizedExpression(rw, s)
    BY <1>4 DEF RewriteToken
  <2> QED
    BY <1>4, <2>1, ParensAreSafe
<1>5. CASE column
  <2> DEFINE t == Tail(s)
  <2>1. RewriteToken(rw, s) = <<"label:">> \o rw[t]
    BY <1>5 DEF RewriteToken
  <2>2. Len(s) >= 2
    BY <1>1, <1>5
  <2>3. t \in Strings /\ Len(t) = Len(s) - 1
    BY <1>1, <2>2, Ends
  <2>4. \A i \in 1..Len(t) : t[i] = s[i + 1] /\ i + 1 \in 1..Len(s)
    <3>1. s \in Seq(Symbols) /\ s # << >>
      BY <1>1 DEF Strings
    <3>2. \A i \in 1..(Len(s) - 1) : t[i] = s[i + 1]
      BY <3>1
    <3> QED
      BY <1>1, <2>3, <3>2
  <2> HIDE DEF t
  <2>5. Plain(t)
    <3>1. DrawnFrom(t, s)
      BY <2>4 DEF DrawnFrom
    <3> QED
      BY <3>1, PlainParts
  <2>6. t \in Texts /\ Len(t) <= Len(s) - 1
    <3>1. Len(t) \in 1..MaxSymbols /\ Len(t) <= Len(s) - 1
      BY <1>1, <2>2, <2>3
    <3> QED
      BY <2>3, <3>1 DEF Texts, Strings
  <2>7. rw[t] \in SafeTexts
    BY <2>5, <2>6 DEF Shielding
  <2>8. <<"label:">> \in SafeTexts
    BY AddedAreSafe
  <2> QED
    BY <2>1, <2>7, <2>8, SafeConcat
<1>6. CASE ~near /\ ~paren /\ ~column
  <2>1. RewriteToken(rw, s) = term
    BY <1>2, <1>6 DEF RewriteToken
  <2>2. term \in SafeTexts
    BY TermIsSafe
  <2> HIDE DEF term
  <2> QED
    BY <2>1, <2>2
<1> QED
  BY <1>3, <1>4, <1>5, <1>6

\* rewriteFTSToken makes plain texts safe.
LEMMA TokenIsSafe ==
    ASSUME NEW s \in Texts, Plain(s)
    PROVE  RewriteFTSToken[s] \in SafeTexts
<1> DEFINE rw == CHOOSE f : IsRewrite(f)
           S == {n \in Nat : Shielding(rw, n)}
<1>1. RewriteFTSToken = rw
  BY DEF RewriteFTSToken, IsRewrite
<1>2. IsRewrite(rw)
  BY RewriteExists
<1> HIDE DEF rw
<1>3. \A t \in Texts : rw[t] = RewriteToken(rw, t)
  BY <1>2, Zenon DEF IsRewrite
<1>4. \A t \in Texts : Len(t) \in Nat /\ Len(t) >= 1
  BY SearchQueryAssumption DEF Texts
<1>5. 0 \in S
  <2>1. \A t \in Texts : ~(Len(t) <= 0)
    BY <1>4
  <2> QED
    BY <2>1 DEF Shielding
<1>6. ASSUME NEW n \in Nat, n \in S PROVE n + 1 \in S
  <2>1. ASSUME NEW t \in Texts, Len(t) <= n + 1, Plain(t) PROVE rw[t] \in SafeTexts
    <3>1. Len(t) - 1 \in Nat /\ Len(t) - 1 <= n
      BY <1>4, <2>1
    <3>2. Shielding(rw, Len(t) - 1)
      BY <1>6, <2>1, <3>1, PlainParts
    <3> QED
      BY <1>3, <2>1, <3>2, StepIsSafe
  <2> QED
    BY <2>1 DEF Shielding
<1>7. Len(s) \in S
  <2>1. Nat \subseteq S
    <3> HIDE DEF S
    <3> QED
      BY <1>5, <1>6, NatSet
  <2> QED
    BY <1>4, <2>1
<1>8. Len(s) <= Len(s)
  BY <1>4
<1> QED
  BY <1>1, <1>7, <1>8 DEF Shielding

\* rewriteQuery makes a plain query safe.
LEMMA QueryIsSafe ==
    ASSUME NEW q \in Strings, Len(q) <= MaxSymbols, Plain(q)
    PROVE  RewriteQuery(q) \in SafeTexts
<1> DEFINE trimmed == TrimSpace(q)
           tokens == SplitFTSQuery(trimmed)
           joined(i) == i > 1 /\ ~IsFTSOperator(tokens[i]) /\ ~IsFTSOperator(tokens[i - 1])
           prefix(i) == IF joined(i) THEN <<"OR", "space">> ELSE << >>
           texts == [i \in DOMAIN tokens |-> prefix(i) \o RewriteFTSToken[tokens[i]]]
<1>1. trimmed \in Strings /\ Len(trimmed) <= Len(q) /\ DrawnFrom(trimmed, q)
  BY TrimKeeps
<1>2. RewriteQuery(q) = JoinTokens(texts)
  BY DEF RewriteQuery
<1> HIDE DEF trimmed
<1>3. tokens \in Seq(Pieces(trimmed))
  BY <1>1, SplitKeeps
<1>4. \A p \in Pieces(trimmed) : p \in Texts /\ Plain(p)
  <2>1. Len(trimmed) \in Nat /\ Len(q) \in Nat /\ MaxSymbols \in Nat
    BY <1>1, SearchQueryAssumption DEF Strings
  <2>2. Len(trimmed) <= MaxSymbols
    BY <1>1, <2>1
  <2>3. Plain(trimmed)
    BY <1>1, PlainParts
  <2>4. \A p \in Pieces(trimmed) : Plain(p)
    BY <2>3, PlainParts DEF Pieces
  <2>5. \A p \in Pieces(trimmed) : p \in Texts
    BY <2>1, <2>2 DEF Pieces, Texts, Strings
  <2> QED
    BY <2>4, <2>5
<1> HIDE DEF tokens
<1>5. /\ Len(tokens) \in Nat /\ DOMAIN tokens = 1..Len(tokens)
      /\ \A i \in DOMAIN tokens : tokens[i] \in Pieces(trimmed)
  BY <1>3
<1>6. \A i \in DOMAIN tokens : prefix(i) \in SafeTexts
  BY AddedAreSafe
<1> HIDE DEF prefix
<1>7. ASSUME NEW i \in DOMAIN tokens PROVE texts[i] \in SafeTexts
  <2> DEFINE p == prefix(i)
             t == RewriteFTSToken[tokens[i]]
  <2>1. texts[i] = p \o t
    OBVIOUS
  <2>2. p \in SafeTexts
    BY <1>6
  <2>3. t \in SafeTexts
    BY <1>4, <1>5, TokenIsSafe
  <2> HIDE DEF p, t
  <2> QED
    BY <2>1, <2>2, <2>3, SafeConcat
<1>8. texts \in Seq(SafeTexts)
  BY <1>5, <1>7
<1> HIDE DEF texts
<1> QED
  BY <1>2, <1>8, JoinIsSafe

\* Outside the strings of a safe text nothing needs quoting.
LEMMA SafeMeans ==
    ASSUME NEW s \in SafeTexts
    PROVE  /\ Balanced(s)
           /\ \A i \in Unquoted(s) :
                  /\ s[i] \notin {"-", ","}
                  /\ s[i] = "*" => i > 1 /\ s[i - 1] \in Barewords \cup {"quote"}
<1> DEFINE open(i) == Count(s, Opening, i)
           shut(i) == Count(s, {")"}, i)
<1>1. s \in Strings /\ Level(s, 0, 0) /\ Shield(s) /\ Closed(s)
  BY DEF SafeTexts, Level
<1>2. Len(s) \in Nat /\ DOMAIN s = 1..Len(s) /\ s \o << >> = s /\ << >> \in Strings
  BY <1>1, ConcatEmptySeq DEF Strings
<1>3. 1..Len(s) \subseteq 0..Len(s) /\ Len(s) \in 0..Len(s)
  BY <1>2
<1>4. \A i \in 0..Len(s) : open(i) \in Nat
  BY <1>1, <1>2, CountConcat
<1>5. \A i \in 0..Len(s) : shut(i) \in Nat
  BY <1>1, <1>2, CountConcat
<1>6. (\A i \in 1..Len(s) : shut(i) <= 0 + open(i)) /\ 0 + open(Len(s)) = 0 + shut(Len(s))
  BY <1>1 DEF Level
<1>7. \A i : /\ open(i) = Cardinality({j \in Unquoted(s) : j <= i /\ s[j] \in Opening})
             /\ shut(i) = Cardinality({j \in Unquoted(s) : j <= i /\ s[j] = ")"})
  <2>1. \A i : Seen(s, {")"}, i) = {j \in Unquoted(s) : j <= i /\ s[j] = ")"}
    BY DEF Seen
  <2> QED
    BY <2>1 DEF Count, Seen
<1> HIDE DEF open, shut
<1>8. (\A i \in 1..Len(s) : shut(i) <= open(i)) /\ open(Len(s)) = shut(Len(s))
  BY <1>3, <1>4, <1>5, <1>6
<1>9. Balanced(s)
  BY <1>1, <1>2, <1>7, <1>8 DEF Balanced, Closed
<1> QED
  BY <1>1, <1>9 DEF Shield

\* A text without a symbol lacks it.
LEMMA LacksMeans == ASSUME NEW s \in Strings PROVE \A c : ~Has(s, c) => Lacks(s, c)
<1>1. DOMAIN s = 1..Len(s)
  BY DEF Strings
<1> QED
  BY <1>1, Zenon DEF Has, Lacks

\* What a user types without quotes, and without a comma if there is a NEAR, however
\* long: outside strings it has barewords, column filters, matched parentheses and stars
\* that follow a term, and its strings are closed (quoteFTSToken, rewriteQuery).
THEOREM TermsStayShielded == QuerySpec => []TermsAreShielded
<1> DEFINE Inv == query \in Strings /\ Len(query) <= MaxSymbols
<1>1. Inv => TermsAreShielded
  <2> SUFFICES ASSUME Inv, ~Has(query, "quote"), ~Has(query, ",") \/ ~Has(query, "NEAR(")
               PROVE  RewriteQuery(query) \in SafeTexts
    BY SafeMeans DEF TermsAreShielded
  <2>1. \A c : ~Has(query, c) => Lacks(query, c)
    BY LacksMeans
  <2>2. Plain(query)
    BY <2>1 DEF Plain
  <2> QED
    BY <2>2, QueryIsSafe
<1> QED
  BY <1>1, QueryIsText, PTL

=============================================================================
