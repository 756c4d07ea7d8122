----------------------------- MODULE Induction -----------------------------
(***************************************************************************)
(* Induction for data whose proofs cannot hand an operator to a theorem:   *)
(* what would be a predicate is a set here, and the right-hand side of a   *)
(* recursive definition is a function.  With it the texts and numbers that *)
(* PyExt writes are proved about for every length.                         *)
(***************************************************************************)
EXTENDS Integers, SequencesExt, SequenceTheorems, WellFoundedInduction, TLAPS

Pairs == {p \in Nat \X Nat : p[1] < p[2]}

LEMMA PairsWellFounded == IsWellFoundedOn(Pairs, Nat)
<1>1. Pairs = OpToRel(<, Nat)
  BY DEF Pairs, OpToRel
<1> QED  BY <1>1, NatLessThanWellFounded

(* A set with 0 and with the successor of each of its numbers has all.     *)
LEMMA SetInduction ==
    ASSUME NEW S, 0 \in S, \A n \in Nat : n \in S => n + 1 \in S
    PROVE  Nat \subseteq S
<1> SUFFICES ASSUME NEW k \in Nat, k \notin S PROVE FALSE
  OBVIOUS
<1> DEFINE T == Nat \ S
<1>1. T \subseteq Nat /\ T # {}
  OBVIOUS
<1>2. PICK m \in T : \A y \in T : ~(<<y, m>> \in Pairs)
  <2> HIDE DEF T
  <2> QED  BY <1>1, WFMin, PairsWellFounded, Zenon
<1>3. m # 0 /\ m - 1 \in Nat /\ m - 1 < m
  BY <1>2, SMT
<1>4. m - 1 \in T
  BY <1>3, SMT
<1> QED  BY <1>2, <1>3, <1>4 DEF Pairs

(* The same up to a bound.                                                 *)
LEMMA BoundedInduction ==
    ASSUME NEW m \in Nat, NEW S, 0 \in S, \A n \in 0..(m - 1) : n \in S => n + 1 \in S
    PROVE  0..m \subseteq S
<1> DEFINE T == {n \in Nat : n <= m => n \in S}
<1>1. 0 \in T /\ \A n \in Nat : n \in T => n + 1 \in T
  OBVIOUS
<1>2. Nat \subseteq T
  <2> HIDE DEF T
  <2> QED  BY <1>1, SetInduction
<1> QED  BY <1>2

(* A recursive definition has a solution if its right-hand side looks only *)
(* at places of a lower rank.                                              *)
LooksBelow(D, R, rank, F) ==
    \A g, h \in [D -> R] : \A i \in D :
       (\A j \in D : rank[j] < rank[i] => g[j] = h[j]) => F[<<g, i>>] = F[<<h, i>>]
Solution(D, F, g) == \A i \in D : g[i] = F[<<g, i>>]

LEMMA RecursiveFunction ==
    ASSUME NEW D, NEW R, NEW m \in Nat, NEW rank \in [D -> 0..m],
           NEW F \in [[D -> R] \X D -> R], R # {}, LooksBelow(D, R, rank, F)
    PROVE  \E g \in [D -> R] : Solution(D, F, g)
<1> DEFINE Solves(g, n) == \A i \in D : rank[i] < n => g[i] = F[<<g, i>>]
           S == {n \in Nat : \E g \in [D -> R] : Solves(g, n)}
<1>1. 0 \in S
  <2>1. PICK r \in R : TRUE
    OBVIOUS
  <2>2. [i \in D |-> r] \in [D -> R] /\ Solves([i \in D |-> r], 0)
    OBVIOUS
  <2> QED  BY <2>2
<1>2. ASSUME NEW n \in Nat, n \in S PROVE n + 1 \in S
  <2>1. PICK g \in [D -> R] : Solves(g, n)
    BY <1>2
  <2> DEFINE h == [i \in D |-> F[<<g, i>>]]
  <2>2. h \in [D -> R]
    OBVIOUS
  <2>3. ASSUME NEW i \in D, rank[i] < n + 1 PROVE h[i] = F[<<h, i>>]
    <3>1. \A j \in D : rank[j] < rank[i] => h[j] = g[j]
      BY <2>1, <2>3
    <3>2. F[<<h, i>>] = F[<<g, i>>]
      <4> HIDE DEF h
      <4> QED  BY <2>2, <3>1 DEF LooksBelow
    <3> QED  BY <3>2
  <2>4. Solves(h, n + 1)
    <3> HIDE DEF h
    <3> QED  BY <2>3
  <2> HIDE DEF h, Solves
  <2> QED  BY <2>2, <2>4
<1>3. m + 1 \in S
  <2> HIDE DEF S
  <2> QED  BY <1>1, <1>2, SetInduction
<1>4. PICK g \in [D -> R] : Solves(g, m + 1)
  BY <1>3
<1> QED  BY <1>4 DEF Solution

(* What FlattenSeq has joined after each part. *)
Joins(flat, seqs, n, f) ==
    /\ flat = f[n] /\ f[1] = seqs[1]
    /\ \A i \in 1..(n - 1) : f[i + 1] = f[i] \o seqs[i + 1]

LEMMA FlattenSteps ==
    ASSUME NEW V, NEW n \in Nat, n > 0, NEW seqs \in Seq(Seq(V)), Len(seqs) = n
    PROVE  \E f \in [1..n -> Seq(V)] : Joins(FlattenSeq(seqs), seqs, n, f)
<1> DEFINE D == 1..n
           R == Seq(V)
           Step(g, i) == IF i = 1 THEN seqs[i] ELSE g[i - 1] \o seqs[i]
           F == [p \in [D -> R] \X D |-> Step(p[1], p[2])]
           rank == [i \in D |-> i]
           f == CHOOSE f : f = [i \in 1..Len(seqs) |->
                                  IF i = 1 THEN seqs[i] ELSE f[i - 1] \o seqs[i]]
<1>1. FlattenSeq(seqs) = f[n]
  BY DEF FlattenSeq
<1>2. ASSUME NEW g \in [D -> R], NEW i \in D PROVE Step(g, i) \in R
  <2>1. CASE i = 1
    BY <2>1
  <2>2. CASE i # 1
    <3>1. i - 1 \in D
      BY <2>2
    <3> QED  BY <2>2, <3>1
  <2> QED  BY <2>1, <2>2
<1>3. rank \in [D -> 0..n] /\ \A i \in D : rank[i] = i
  OBVIOUS
<1>4. R # {}
  <2>1. <<>> \in R
    OBVIOUS
  <2> QED  BY <2>1
<1>5. ASSUME NEW g \in [D -> R], NEW h \in [D -> R], NEW i \in D,
             \A j \in D : rank[j] < rank[i] => g[j] = h[j]
      PROVE  Step(g, i) = Step(h, i)
  <2>1. i # 1 => i - 1 \in D /\ rank[i - 1] < rank[i]
    BY <1>3
  <2> QED  BY <1>5, <2>1
<1>6. PICK g \in [D -> R] : \A i \in D : g[i] = Step(g, i)
  <2> HIDE DEF D, R, rank, Step, f
  <2>1. F \in [[D -> R] \X D -> R]
    BY <1>2
  <2>2. \A h \in [D -> R], i \in D : F[<<h, i>>] = Step(h, i)
    OBVIOUS
  <2> HIDE DEF F
  <2>3. LooksBelow(D, R, rank, F)
    <3> SUFFICES ASSUME NEW h \in [D -> R], NEW u \in [D -> R], NEW i \in D,
                        \A j \in D : rank[j] < rank[i] => h[j] = u[j]
                 PROVE  F[<<h, i>>] = F[<<u, i>>]
      BY DEF LooksBelow
    <3>1. Step(h, i) = Step(u, i)
      BY <1>5
    <3> QED  BY <2>2, <3>1
  <2>4. \E g \in [D -> R] : Solution(D, F, g)
    BY <1>3, <1>4, <2>1, <2>3, RecursiveFunction
  <2> QED  BY <2>2, <2>4 DEF Solution
<1>7. f = [i \in D |-> Step(f, i)]
  <2>1. g = [i \in D |-> Step(g, i)]
    <3> HIDE DEF Step, R, D
    <3> QED  BY <1>6
  <2> QED  BY <2>1
<1> DEFINE Joined(s, t) == s \o t
<1>8. \A h : /\ Step(h, 1) = seqs[1]
             /\ \A i \in 1..(n - 1) : Step(h, i + 1) = Joined(h[i], seqs[i + 1])
  <2> TAKE h
  <2>1. ASSUME NEW i \in 1..(n - 1) PROVE Step(h, i + 1) = Joined(h[i], seqs[i + 1])
    <3>1. (i + 1) - 1 = i /\ i + 1 # 1
      OBVIOUS
    <3> QED  BY <3>1, Zenon
  <2> QED  BY <2>1
<1>9. \A s, t \in R : Joined(s, t) \in R
  OBVIOUS
<1> HIDE DEF f, F, rank, Step, R, Joined
<1>10. \A i \in 1..n : f[i] = Step(f, i) /\ seqs[i] \in R
  <2>1. \A i \in 1..n : seqs[i] \in R
    BY DEF R
  <2> QED  BY <1>7, <2>1
<1>11. f[1] = seqs[1] /\ 1 \in 1..n
  BY <1>8, <1>10
<1>12. ASSUME NEW i \in 1..(n - 1) PROVE f[i + 1] = Joined(f[i], seqs[i + 1]) /\ i + 1 \in 1..n
  BY <1>8, <1>10
<1>13. f \in [D -> R]
  <2> DEFINE S == {i \in 0..n : i > 0 => f[i] \in R}
  <2>1. 0 \in S
    OBVIOUS
  <2>2. ASSUME NEW i \in 0..(n - 1), i \in S PROVE i + 1 \in S
    <3>1. CASE i = 0
      BY <1>10, <1>11, <3>1
    <3>2. CASE i # 0
      <4>1. i \in 1..(n - 1) /\ f[i] \in R
        BY <2>2, <3>2
      <4>2. f[i + 1] \in R
        BY <1>9, <1>10, <1>12, <4>1
      <4> QED  BY <4>2
    <3> QED  BY <3>1, <3>2
  <2> HIDE DEF S
  <2>3. 0..n \subseteq S
    BY <2>1, <2>2, BoundedInduction
  <2>4. \A i \in D : f[i] \in R
    BY <2>3 DEF S
  <2> HIDE DEF D
  <2> QED  BY <1>7, <2>4
<1> QED  BY <1>1, <1>11, <1>12, <1>13 DEF R, Joined, Joins

(* Where the parts of a flattened sequence are: off[k] is how much the     *)
(* first k parts are together.                                             *)
IsLayout(flat, seqs, n, off) ==
    /\ off \in [0..n -> Nat] /\ off[0] = 0 /\ off[n] = Len(flat)
    /\ \A k \in 1..n : /\ off[k] = off[k - 1] + Len(seqs[k])
                       /\ \A j \in 1..Len(seqs[k]) :
                             /\ off[k - 1] + j \in 1..Len(flat)
                             /\ flat[off[k - 1] + j] = seqs[k][j]

LEMMA FlattenLayout ==
    ASSUME NEW V, NEW n \in Nat, NEW seqs \in Seq(Seq(V)), Len(seqs) = n
    PROVE  /\ FlattenSeq(seqs) \in Seq(V)
           /\ \E off : IsLayout(FlattenSeq(seqs), seqs, n, off)
<1>1. \A k \in 1..n : seqs[k] \in Seq(V) /\ Len(seqs[k]) \in Nat
  OBVIOUS
<1>2. CASE n = 0
  <2>1. FlattenSeq(seqs) = seqs /\ seqs = <<>>
    BY <1>2 DEF FlattenSeq
  <2>2. IsLayout(seqs, seqs, n, [i \in 0..n |-> 0])
    BY <1>2 DEF IsLayout
  <2> QED  BY <2>1, <2>2
<1>3. CASE n > 0
  <2>0. PICK f \in [1..n -> Seq(V)] : Joins(FlattenSeq(seqs), seqs, n, f)
    BY <1>3, FlattenSteps
  <2>1. /\ FlattenSeq(seqs) = f[n] /\ f[1] = seqs[1]
        /\ \A i \in 1..(n - 1) : f[i + 1] = f[i] \o seqs[i + 1]
    BY <2>0 DEF Joins
  <2> DEFINE off == [i \in 0..n |-> IF i = 0 THEN 0 ELSE Len(f[i])]
  <2>2. off \in [0..n -> Nat] /\ off[0] = 0 /\ \A i \in 1..n : off[i] = Len(f[i])
    OBVIOUS
  <2> HIDE DEF off
  <2>3. ASSUME NEW i \in 1..(n - 1)
        PROVE  /\ off[i + 1] = off[i] + Len(seqs[i + 1])
               /\ \A x \in 1..off[i + 1] :
                     f[i + 1][x] = IF x <= off[i] THEN f[i][x] ELSE seqs[i + 1][x - off[i]]
    <3>1. f[i] \in Seq(V) /\ seqs[i + 1] \in Seq(V) /\ i + 1 \in 1..n /\ i \in 1..n
      BY <1>1
    <3>2. /\ Len(f[i] \o seqs[i + 1]) = Len(f[i]) + Len(seqs[i + 1])
          /\ \A x \in 1..(Len(f[i]) + Len(seqs[i + 1])) :
                (f[i] \o seqs[i + 1])[x] =
                   IF x <= Len(f[i]) THEN f[i][x] ELSE seqs[i + 1][x - Len(f[i])]
      BY <3>1, ConcatProperties
    <3> QED  BY <2>1, <2>2, <3>1, <3>2
  <2>4. \A k \in 1..n : off[k] = off[k - 1] + Len(seqs[k])
    <3> TAKE k \in 1..n
    <3>1. CASE k = 1
      BY <2>1, <2>2, <3>1
    <3>2. CASE k # 1
      <4>1. k - 1 \in 1..(n - 1) /\ (k - 1) + 1 = k
        BY <3>2
      <4> QED  BY <2>3, <4>1
    <3> QED  BY <3>1, <3>2
  <2> DEFINE Placed(i) == \A k \in 1..i : \A j \in 1..Len(seqs[k]) :
                             /\ off[k - 1] + j \in 1..off[i]
                             /\ f[i][off[k - 1] + j] = seqs[k][j]
             S == {i \in 0..n : Placed(i)}
  <2>5. 0 \in S
    OBVIOUS
  <2>6. ASSUME NEW i \in 0..(n - 1), i \in S PROVE i + 1 \in S
    <3>1. ASSUME NEW k \in 1..(i + 1), NEW j \in 1..Len(seqs[k])
          PROVE  /\ off[k - 1] + j \in 1..off[i + 1]
                 /\ f[i + 1][off[k - 1] + j] = seqs[k][j]
      <4>1. /\ off[i] \in Nat /\ off[k - 1] \in Nat /\ off[i + 1] \in Nat
            /\ k \in 1..n /\ i + 1 \in 1..n
        BY <2>2
      <4>2. Len(seqs[k]) \in Nat /\ Len(seqs[i + 1]) \in Nat /\ j \in Nat
        BY <1>1, <4>1
      <4>3. off[i + 1] = off[i] + Len(seqs[i + 1])
        <5>1. (i + 1) - 1 = i
          OBVIOUS
        <5> QED  BY <2>4, <4>1, <5>1
      <4>4. CASE i = 0
        <5>1. k = 1 /\ off[k - 1] = 0
          BY <2>2, <4>4
        <5> QED  BY <2>1, <2>2, <4>1, <4>2, <4>3, <4>4, <5>1
      <4>5. CASE i # 0
        <5>1. \A x \in 1..off[i + 1] :
                 f[i + 1][x] = IF x <= off[i] THEN f[i][x] ELSE seqs[i + 1][x - off[i]]
          <6>1. i \in 1..(n - 1)
            BY <4>5
          <6> QED  BY <2>3, <6>1
        <5>2. CASE k = i + 1
          <6>1. off[k - 1] = off[i]
            BY <5>2
          <6>2. off[i] + j \in 1..off[i + 1] /\ ~(off[i] + j <= off[i]) /\ (off[i] + j) - off[i] = j
            BY <4>1, <4>2, <4>3, <5>2
          <6>3. f[i + 1][off[i] + j] = seqs[i + 1][j]
            BY <5>1, <6>2, Zenon
          <6> QED  BY <5>2, <6>1, <6>2, <6>3
        <5>3. CASE k # i + 1
          <6>1. k \in 1..i
            BY <5>3
          <6>2. off[k - 1] + j \in 1..off[i]
            BY <2>6, <6>1
          <6>3. f[i][off[k - 1] + j] = seqs[k][j]
            BY <2>6, <6>1
          <6>4. off[k - 1] + j \in 1..off[i + 1] /\ off[k - 1] + j <= off[i]
            <7>1. off[i] <= off[i + 1]
              BY <4>1, <4>2, <4>3
            <7> DEFINE x == off[k - 1] + j
            <7>2. x \in 1..off[i]
              BY <6>2
            <7> HIDE DEF x
            <7>3. x \in 1..off[i + 1] /\ x <= off[i]
              BY <4>1, <7>1, <7>2
            <7> QED  BY <7>3 DEF x
          <6> QED  BY <5>1, <6>3, <6>4
        <5> QED  BY <5>2, <5>3
      <4> QED  BY <4>4, <4>5
    <3>2. Placed(i + 1)
      BY <3>1
    <3> HIDE DEF Placed
    <3> QED  BY <3>2
  <2>7. Placed(n)
    <3> HIDE DEF S, Placed
    <3>1. 0..n \subseteq S
      BY <2>5, <2>6, BoundedInduction
    <3> QED  BY <3>1 DEF S
  <2>8. IsLayout(f[n], seqs, n, off)
    BY <1>3, <2>2, <2>4, <2>7 DEF IsLayout
  <2> HIDE DEF Placed, S
  <2> QED  BY <1>3, <2>1, <2>8
<1> QED  BY <1>2, <1>3

(* A sequence whose parts are not empty is as long as it has parts, and    *)
(* longer unless each part has length 1.                                   *)
LEMMA LayoutGrows ==
    ASSUME NEW n \in Nat, NEW flat, NEW seqs, NEW off, IsLayout(flat, seqs, n, off),
           \A k \in 1..n : Len(seqs[k]) \in Nat \ {0}
    PROVE  /\ Len(flat) \in Nat /\ Len(flat) >= n
           /\ Len(flat) = n => \A k \in 0..n : off[k] = k
<1>1. /\ off \in [0..n -> Nat] /\ off[0] = 0 /\ off[n] = Len(flat)
      /\ \A k \in 1..n : off[k] = off[k - 1] + Len(seqs[k])
  BY DEF IsLayout
<1>2. ASSUME NEW k \in 1..n PROVE off[k] >= off[k - 1] + 1 /\ off[k] \in Nat /\ off[k - 1] \in Nat
  <2>1. k - 1 \in 0..n /\ k \in 0..n /\ Len(seqs[k]) >= 1 /\ Len(seqs[k]) \in Nat
    OBVIOUS
  <2>2. off[k] \in Nat /\ off[k - 1] \in Nat /\ off[k] = off[k - 1] + Len(seqs[k])
    BY <1>1, <2>1
  <2> QED  BY <2>1, <2>2
<1>3. \A k \in 0..n : off[k] >= k
  <2> DEFINE S == {k \in 0..n : off[k] >= k}
  <2>1. 0 \in S
    BY <1>1
  <2>2. ASSUME NEW k \in 0..(n - 1), k \in S PROVE k + 1 \in S
    <3>1. k + 1 \in 1..n /\ (k + 1) - 1 = k
      OBVIOUS
    <3>2. off[k + 1] >= off[k] + 1 /\ off[k + 1] \in Nat /\ off[k] \in Nat
      BY <1>2, <3>1
    <3> QED  BY <2>2, <3>1, <3>2
  <2> HIDE DEF S
  <2>3. 0..n \subseteq S
    BY <2>1, <2>2, BoundedInduction
  <2> QED  BY <2>3 DEF S
<1>4. \A d \in 0..n : off[n] >= off[n - d] + d
  <2> DEFINE S == {d \in 0..n : off[n] >= off[n - d] + d}
  <2>1. 0 \in S
    BY <1>1
  <2>2. ASSUME NEW d \in 0..(n - 1), d \in S PROVE d + 1 \in S
    <3>1. n - d \in 1..n /\ (n - d) - 1 = n - (d + 1)
      OBVIOUS
    <3>2. off[n - d] >= off[n - (d + 1)] + 1 /\ off[n - d] \in Nat /\ off[n - (d + 1)] \in Nat
      BY <1>2, <3>1
    <3>3. off[n] \in Nat /\ off[n] >= off[n - d] + d
      BY <1>1, <2>2
    <3> QED  BY <3>2, <3>3
  <2> HIDE DEF S
  <2>3. 0..n \subseteq S
    BY <2>1, <2>2, BoundedInduction
  <2> QED  BY <2>3 DEF S
<1>5. ASSUME Len(flat) = n, NEW k \in 0..n PROVE off[k] = k
  <2>1. n - k \in 0..n /\ n - (n - k) = k /\ off[k] \in Nat /\ off[k] >= k
    BY <1>1, <1>3
  <2>2. off[n] >= off[k] + (n - k)
    BY <1>4, <2>1
  <2> QED  BY <1>1, <1>5, <2>1, <2>2
<1>6. Len(flat) \in Nat /\ Len(flat) >= n
  BY <1>1, <1>3
<1> QED  BY <1>5, <1>6

(* What FlattenSeq joins may be joined part by part.                       *)
LEMMA FlattenNone == FlattenSeq(<<>>) = <<>>
BY DEF FlattenSeq

(* One piece alone. *)
LEMMA FlattenOne ==
    ASSUME NEW V, NEW s \in Seq(V)
    PROVE  FlattenSeq(<<s>>) = s
<1>1. <<s>> \in Seq(Seq(V)) /\ Len(<<s>>) = 1 /\ <<s>>[1] = s
  OBVIOUS
<1>2. PICK f \in [1..1 -> Seq(V)] : Joins(FlattenSeq(<<s>>), <<s>>, 1, f)
  <2>1. 1 \in Nat /\ 1 > 0
    OBVIOUS
  <2> QED  BY <1>1, <2>1, FlattenSteps, Zenon
<1> QED  BY <1>1, <1>2 DEF Joins

(* Pieces behind others. *)
LEMMA FlattenConcat ==
    ASSUME NEW V, NEW a \in Seq(Seq(V)), NEW b \in Seq(Seq(V))
    PROVE  FlattenSeq(a \o b) = FlattenSeq(a) \o FlattenSeq(b)
<1> DEFINE n == Len(a)  m == Len(b)  c == a \o b
<1>0. n \in Nat /\ m \in Nat
  OBVIOUS
<1>1. FlattenSeq(a) \in Seq(V) /\ FlattenSeq(b) \in Seq(V)
  BY FlattenLayout, <1>0
<1>2. CASE a = <<>>
  <2>1. a \o b = b
    BY <1>2
  <2>2. <<>> \o FlattenSeq(b) = FlattenSeq(b)
    BY <1>1
  <2> QED  BY <1>2, <2>1, <2>2, FlattenNone
<1>3. CASE b = <<>>
  <2>1. a \o b = a
    BY <1>3
  <2>2. FlattenSeq(a) \o <<>> = FlattenSeq(a)
    BY <1>1
  <2> QED  BY <1>3, <2>1, <2>2, FlattenNone
<1>4. CASE a # <<>> /\ b # <<>>
  <2>1. n > 0 /\ m > 0
    BY <1>4
  <2>2. /\ c \in Seq(Seq(V)) /\ Len(c) = n + m
        /\ \A i \in 1..n : c[i] = a[i] /\ a[i] \in Seq(V)
        /\ \A j \in 1..m : c[n + j] = b[j] /\ b[j] \in Seq(V)
    <3>1. /\ c \in Seq(Seq(V)) /\ Len(c) = n + m
          /\ \A i \in 1..(n + m) : c[i] = IF i <= n THEN a[i] ELSE b[i - n]
      BY ConcatProperties
    <3>2. \A i \in 1..n : a[i] \in Seq(V)
      OBVIOUS
    <3>3. \A j \in 1..m : b[j] \in Seq(V)
      OBVIOUS
    <3> HIDE DEF n, m, c
    <3>4. \A i \in 1..n : c[i] = a[i]
      BY <1>0, <3>1
    <3>5. \A j \in 1..m : c[n + j] = b[j]
      BY <1>0, <3>1
    <3> QED  BY <3>1, <3>2, <3>3, <3>4, <3>5
  <2> HIDE DEF c
  <2>3. PICK f \in [1..(n + m) -> Seq(V)] : Joins(FlattenSeq(c), c, n + m, f)
    <3>1. n + m \in Nat /\ n + m > 0
      BY <1>0, <2>1
    <3> QED  BY <2>2, <3>1, FlattenSteps
  <2>4. PICK h \in [1..n -> Seq(V)] : Joins(FlattenSeq(a), a, n, h)
    BY <1>0, <2>1, FlattenSteps
  <2>5. PICK u \in [1..m -> Seq(V)] : Joins(FlattenSeq(b), b, m, u)
    BY <1>0, <2>1, FlattenSteps
  <2> HIDE DEF n, m
  <2> DEFINE S == {i \in 0..n : i > 0 => f[i] = h[i]}
             T == {j \in 0..m : j > 0 => f[n + j] = h[n] \o u[j]}
  <2>6. 0 \in S
    BY <1>0
  <2>7. ASSUME NEW i \in 0..(n - 1), i \in S PROVE i + 1 \in S
    <3>1. CASE i = 0
      <4>1. f[1] = c[1] /\ h[1] = a[1] /\ c[1] = a[1]
        BY <1>0, <2>1, <2>2, <2>3, <2>4 DEF Joins
      <4> QED  BY <3>1, <4>1, <1>0, <2>1
    <3>2. CASE i # 0
      <4>1. i \in 1..(n - 1) /\ i \in 1..((n + m) - 1) /\ i + 1 \in 1..n
        BY <1>0, <3>2, <2>1
      <4>2. f[i + 1] = f[i] \o c[i + 1] /\ h[i + 1] = h[i] \o a[i + 1]
        BY <2>3, <2>4, <4>1, Zenon DEF Joins
      <4>3. f[i] = h[i] /\ c[i + 1] = a[i + 1]
        BY <2>2, <2>7, <4>1
      <4>4. f[i + 1] = h[i + 1]
        BY <4>2, <4>3, Zenon
      <4> QED  BY <4>1, <4>4
    <3> QED  BY <3>1, <3>2
  <2>8. f[n] = h[n]
    <3>1. 0..n \subseteq S
      <4> HIDE DEF S
      <4> QED  BY <1>0, <2>6, <2>7, BoundedInduction
    <3> QED  BY <1>0, <2>1, <3>1
  <2>9. 0 \in T
    BY <1>0
  <2>10. ASSUME NEW j \in 0..(m - 1), j \in T PROVE j + 1 \in T
    <3>1. CASE j = 0
      <4>1. f[n + 1] = f[n] \o c[n + 1]
        <5>1. n \in 1..((n + m) - 1)
          BY <1>0, <2>1
        <5> QED  BY <2>3, <5>1, Zenon DEF Joins
      <4>2. c[n + 1] = b[1] /\ u[1] = b[1]
        BY <1>0, <2>1, <2>2, <2>5 DEF Joins
      <4>3. f[n + 1] = h[n] \o u[1]
        BY <4>1, <4>2, <2>8, Zenon
      <4>4. j + 1 = 1 /\ j + 1 \in 0..m
        BY <1>0, <2>1, <3>1
      <4> QED  BY <4>3, <4>4
    <3>2. CASE j # 0
      <4>1. /\ j \in 1..(m - 1) /\ n + j \in 1..((n + m) - 1) /\ j + 1 \in 1..m /\ j \in 1..m
            /\ n \in 1..n /\ (n + j) + 1 = n + (j + 1)
        BY <1>0, <3>2, <2>1
      <4>2. f[n + (j + 1)] = f[n + j] \o c[n + (j + 1)] /\ u[j + 1] = u[j] \o b[j + 1]
        <5>1. f[(n + j) + 1] = f[n + j] \o c[(n + j) + 1]
          BY <2>3, <4>1, Zenon DEF Joins
        <5>2. u[j + 1] = u[j] \o b[j + 1]
          BY <2>5, <4>1, Zenon DEF Joins
        <5> QED  BY <4>1, <5>1, <5>2, Zenon
      <4>3. f[n + j] = h[n] \o u[j] /\ c[n + (j + 1)] = b[j + 1]
        <5>1. j > 0
          BY <1>0, <4>1
        <5>2. f[n + j] = h[n] \o u[j]
          BY <2>10, <5>1, Zenon
        <5> QED  BY <2>2, <4>1, <5>2, Zenon
      <4>4. (h[n] \o u[j]) \o b[j + 1] = h[n] \o (u[j] \o b[j + 1])
        <5> DEFINE x == h[n]  y == u[j]  z == b[j + 1]
        <5>1. x \in Seq(V) /\ y \in Seq(V) /\ z \in Seq(V)
          BY <2>2, <4>1, Zenon
        <5> HIDE DEF x, y, z
        <5>2. (x \o y) \o z = x \o (y \o z)
          BY <5>1, ConcatAssociative
        <5> QED  BY <5>2, Zenon DEF x, y, z
      <4>5. f[n + (j + 1)] = h[n] \o u[j + 1]
        BY <4>2, <4>3, <4>4, Zenon
      <4>6. j + 1 \in 0..m
        BY <4>1, <1>0
      <4> QED  BY <4>5, <4>6
    <3> QED  BY <3>1, <3>2
  <2>11. f[n + m] = h[n] \o u[m]
    <3>1. 0..m \subseteq T
      <4> HIDE DEF T
      <4> QED  BY <1>0, <2>9, <2>10, BoundedInduction
    <3>2. m \in 0..m /\ m > 0
      BY <1>0, <2>1
    <3> QED  BY <3>1, <3>2
  <2> QED  BY <2>3, <2>4, <2>5, <2>11 DEF Joins, c
<1> QED  BY <1>2, <1>3, <1>4
=============================================================================
