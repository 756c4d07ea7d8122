-------------------------- MODULE LongRepr_proofs --------------------------
(***************************************************************************)
(* The conversion of an int never overflows a word of its buffer and       *)
(* prints the number, for every length of the int and every pair of bases  *)
(* of which the product fits a word.  The value of a sequence of digits is *)
(* a recursive function; Induction is what its lemmas rest on.             *)
(***************************************************************************)
EXTENDS LongRepr, Induction

(* What Values computes: the recursive definition as a fact.               *)
IsValues(f, seq, n, base, top) ==
    /\ f \in [1..(n + 1) -> Nat] /\ f[n + 1] = top
    /\ \A j \in 1..n : f[j] = seq[j] + base * f[j + 1]

LEMMA SumInNat == \A b, x, y \in Nat : y + b * x \in Nat
OBVIOUS

LEMMA ValuesSteps ==
    ASSUME NEW n \in Nat, NEW seq, \A j \in 1..n : seq[j] \in Nat,
           NEW base \in Nat, NEW top \in Nat
    PROVE  IsValues(Values(seq, n, base, top), seq, n, base, top)
<1> DEFINE D == 1..(n + 1)
           Step(g, j) == IF j > n THEN top ELSE seq[j] + base * g[j + 1]
           F == [p \in [D -> Nat] \X D |-> Step(p[1], p[2])]
           rank == [j \in D |-> (n + 1) - j]
           f == CHOOSE f : f = [j \in 1..(n + 1) |->
                                  IF j > n THEN top ELSE seq[j] + base * f[j + 1]]
<1>1. Values(seq, n, base, top) = f
  BY DEF Values
<1>2. ASSUME NEW g \in [D -> Nat], NEW j \in D PROVE Step(g, j) \in Nat
  <2>1. CASE j > n
    BY <2>1
  <2>2. CASE ~(j > n)
    <3>1. j \in 1..n /\ j + 1 \in D
      BY <2>2
    <3>2. g[j + 1] \in Nat
      BY <3>1
    <3>3. seq[j] \in Nat /\ base * g[j + 1] \in Nat
      BY <3>1, <3>2
    <3> QED  BY <2>2, <3>3, SMTT(30)
  <2> QED  BY <2>1, <2>2
<1>3. rank \in [D -> 0..n] /\ \A j \in D : rank[j] = (n + 1) - j
  OBVIOUS
<1>4. ASSUME NEW g \in [D -> Nat], NEW h \in [D -> Nat], NEW j \in D,
             \A l \in D : rank[l] < rank[j] => g[l] = h[l]
      PROVE  Step(g, j) = Step(h, j)
  <2>1. ~(j > n) => j + 1 \in D /\ rank[j + 1] < rank[j]
    BY <1>3
  <2> QED  BY <1>4, <2>1
<1>5. PICK g \in [D -> Nat] : \A j \in D : g[j] = Step(g, j)
  <2> HIDE DEF D, rank, Step, f
  <2>1. F \in [[D -> Nat] \X D -> Nat]
    BY <1>2
  <2>2. \A h \in [D -> Nat], j \in D : F[<<h, j>>] = Step(h, j)
    OBVIOUS
  <2> HIDE DEF F
  <2>3. LooksBelow(D, Nat, rank, F)
    <3> SUFFICES ASSUME NEW h \in [D -> Nat], NEW u \in [D -> Nat], NEW j \in D,
                        \A l \in D : rank[l] < rank[j] => h[l] = u[l]
                 PROVE  F[<<h, j>>] = F[<<u, j>>]
      BY DEF LooksBelow
    <3>1. Step(h, j) = Step(u, j)
      BY <1>4
    <3> QED  BY <2>2, <3>1
  <2>4. \E g \in [D -> Nat] : Solution(D, F, g)
    BY <1>3, <2>1, <2>3, RecursiveFunction
  <2> QED  BY <2>2, <2>4 DEF Solution
<1>6. f = [j \in D |-> Step(f, j)]
  <2>1. g = [j \in D |-> Step(g, j)]
    <3> HIDE DEF Step, D
    <3> QED  BY <1>5
  <2> QED  BY <2>1
<1>7. /\ \A h : Step(h, n + 1) = top
      /\ \A h : \A j \in 1..n : Step(h, j) = seq[j] + base * h[j + 1]
      /\ n + 1 \in D /\ \A j \in 1..n : j \in D /\ j + 1 \in D
      /\ \A l \in 0..n : n + 1 - l \in D
      /\ \A l \in 0..(n - 1) : n - l \in 1..n /\ (n - l) + 1 = n + 1 - l /\ n - l = n + 1 - (l + 1)
      /\ \A j \in D : n + 1 - j \in 0..n /\ n + 1 - (n + 1 - j) = j
  OBVIOUS
<1>8. \A j \in D : f[j] = Step(f, j)
  <2> HIDE DEF f, Step
  <2> QED  BY <1>6
<1>9. f[n + 1] = top /\ \A j \in 1..n : f[j] = seq[j] + base * f[j + 1]
  <2> HIDE DEF f, Step
  <2> QED  BY <1>7, <1>8
<1> HIDE DEF f, Step, F, rank
<1>10. \A j \in D : f[j] \in Nat
  <2> DEFINE S == {l \in 0..n : f[n + 1 - l] \in Nat}
  <2>1. 0 \in S
    BY <1>9
  <2>2. ASSUME NEW l \in 0..(n - 1), l \in S PROVE l + 1 \in S
    <3>1. n - l \in 1..n /\ (n - l) + 1 = n + 1 - l /\ n - l = n + 1 - (l + 1)
      BY <1>7
    <3>2. f[(n - l) + 1] \in Nat /\ seq[n - l] \in Nat
      BY <2>2, <3>1
    <3>3. f[n - l] = seq[n - l] + base * f[(n - l) + 1]
      BY <1>9, <3>1
    <3>4. seq[n - l] + base * f[(n - l) + 1] \in Nat
      BY <3>2, SumInNat, Zenon
    <3>5. f[n + 1 - (l + 1)] \in Nat
      BY <3>1, <3>3, <3>4, Zenon
    <3> QED  BY <2>2, <3>5
  <2> HIDE DEF S
  <2>3. 0..n \subseteq S
    BY <2>1, <2>2, BoundedInduction
  <2> QED  BY <1>7, <2>3 DEF S
<1>11. f \in [D -> Nat]
  <2> HIDE DEF D
  <2> QED  BY <1>6, <1>10
<1> QED  BY <1>1, <1>9, <1>11 DEF IsValues

(* Where two numbers have the same digits they have the same values, if    *)
(* they have the same value above them.                                    *)
Aligned(f, s, m, g, u, n, a, c, d) ==
    /\ m \in Nat /\ n \in Nat /\ a \in Nat /\ c \in Nat /\ d \in Int
    /\ 1 <= a /\ 1 <= a + d /\ a <= c /\ c <= m + 1 /\ c + d <= n + 1
    /\ f[c] = g[c + d] /\ \A j \in a..(c - 1) : s[j] = u[j + d]

LEMMA SameValues ==
    ASSUME NEW m, NEW n, NEW s, NEW u, NEW f, NEW g, NEW base, NEW v, NEW w,
           IsValues(f, s, m, base, v), IsValues(g, u, n, base, w),
           NEW a, NEW c, NEW d, Aligned(f, s, m, g, u, n, a, c, d)
    PROVE  \A j \in a..c : f[j] = g[j + d]
<1> USE DEF Aligned
<1> DEFINE S == {l \in 0..(c - a) : f[c - l] = g[c - l + d]}
<1>0. c - a \in Nat
  OBVIOUS
<1>1. 0 \in S
  BY <1>0
<1>2. ASSUME NEW l \in 0..((c - a) - 1), l \in S PROVE l + 1 \in S
  <2> DEFINE j == c - (l + 1)
  <2>1. /\ j \in a..(c - 1) /\ j \in 1..m /\ j + d \in 1..n
        /\ j + 1 = c - l /\ (j + d) + 1 = c - l + d /\ l + 1 \in 0..(c - a)
    OBVIOUS
  <2> HIDE DEF j
  <2>2. f[j] = s[j] + base * f[j + 1] /\ g[j + d] = u[j + d] + base * g[(j + d) + 1]
    BY <2>1 DEF IsValues
  <2>3. s[j] = u[j + d] /\ f[c - l] = g[c - l + d]
    BY <1>2, <2>1
  <2>4. f[j + 1] = g[(j + d) + 1]
    BY <2>1, <2>3
  <2>5. f[j] = g[j + d]
    BY <2>2, <2>3, <2>4, Zenon
  <2> QED  BY <2>1, <2>5 DEF j
<1> HIDE DEF S
<1>3. 0..(c - a) \subseteq S
  BY <1>0, <1>1, <1>2, BoundedInduction
<1>4. ASSUME NEW j \in a..c PROVE f[j] = g[j + d]
  <2>1. c - j \in 0..(c - a) /\ c - (c - j) = j
    OBVIOUS
  <2> QED  BY <1>3, <2>1 DEF S
<1> QED  BY <1>4

-----------------------------------------------------------------------------
(* Values of a longer number, of one that is put behind another, and of    *)
(* one with a digit that is changed.                                       *)

AreDigits(seq, n) == \A j \in 1..n : seq[j] \in Nat
SameDigits(s, u, n) == \A j \in 1..n : s[j] = u[j]
IsTop(x, seq, n, base, top) == x = seq[n + 1] + base * top

LEMMA ValuesExtend ==
    ASSUME NEW n \in Nat, NEW seq, AreDigits(seq, n + 1),
           NEW base \in Nat, NEW top \in Nat, NEW x, IsTop(x, seq, n, base, top)
    PROVE  x \in Nat /\ Values(seq, n + 1, base, top)[1] = Values(seq, n, base, x)[1]
<1> USE DEF AreDigits, IsTop
<1> DEFINE f == Values(seq, n + 1, base, top)
           g == Values(seq, n, base, x)
<1>1. x \in Nat
  <2>1. n + 1 \in 1..(n + 1)
    OBVIOUS
  <2> QED  BY <2>1, SumInNat, Zenon
<1>2. IsValues(f, seq, n + 1, base, top)
  <2>1. n + 1 \in Nat
    OBVIOUS
  <2> QED  BY <2>1, ValuesSteps
<1>3. IsValues(g, seq, n, base, x)
  <2>1. \A j \in 1..n : seq[j] \in Nat
    OBVIOUS
  <2> QED  BY <1>1, <2>1, ValuesSteps
<1> HIDE DEF f, g
<1>4. f[n + 1] = g[n + 1]
  <2>1. n + 1 \in 1..(n + 1)
    OBVIOUS
  <2>2. f[n + 1] = seq[n + 1] + base * f[(n + 1) + 1] /\ f[(n + 1) + 1] = top
    BY <1>2, <2>1, Zenon DEF IsValues
  <2>3. g[n + 1] = x
    BY <1>3 DEF IsValues
  <2> QED  BY <2>2, <2>3, Zenon
<1>5. \A j \in 1..(n + 1) : f[j] = g[j + 0]
  <2>1. /\ n + 1 \in Nat /\ 1 \in Nat /\ 0 \in Int /\ 1 <= 1 + 0 /\ 1 <= n + 1
        /\ n + 1 <= (n + 1) + 1 /\ (n + 1) + 0 <= n + 1 /\ (n + 1) + 0 = n + 1 /\ 1 <= 1
        /\ \A j \in 1..((n + 1) - 1) : j + 0 = j
    OBVIOUS
  <2>2. \A j \in 1..((n + 1) - 1) : seq[j] = seq[j + 0]
    BY <2>1
  <2>3. Aligned(f, seq, n + 1, g, seq, n, 1, n + 1, 0)
    BY <1>4, <2>1, <2>2 DEF Aligned
  <2> QED  BY <1>2, <1>3, <2>3, SameValues
<1>6. 1 \in 1..(n + 1) /\ 1 + 0 = 1
  OBVIOUS
<1>7. f[1] = g[1]
  BY <1>5, <1>6
<1> QED  BY <1>1, <1>7 DEF f, g

LEMMA ValuesCongruent ==
    ASSUME NEW n \in Nat, NEW s, NEW u, AreDigits(s, n), SameDigits(s, u, n),
           NEW base \in Nat, NEW top \in Nat
    PROVE  Values(s, n, base, top)[1] = Values(u, n, base, top)[1]
<1> USE DEF AreDigits, SameDigits
<1> DEFINE f == Values(s, n, base, top)
           g == Values(u, n, base, top)
<1>1. IsValues(f, s, n, base, top)
  BY ValuesSteps
<1>2. IsValues(g, u, n, base, top)
  <2>1. \A j \in 1..n : u[j] \in Nat
    OBVIOUS
  <2> QED  BY <2>1, ValuesSteps
<1> HIDE DEF f, g
<1>3. f[n + 1] = g[(n + 1) + 0]
  BY <1>1, <1>2 DEF IsValues
<1>4. /\ n + 1 \in Nat /\ 1 \in Nat /\ 0 \in Int /\ 1 <= 1 + 0 /\ 1 <= n + 1
      /\ n + 1 <= n + 1 /\ (n + 1) + 0 <= n + 1 /\ 1 <= 1
      /\ \A j \in 1..((n + 1) - 1) : j + 0 = j /\ j \in 1..n
  OBVIOUS
<1>5. \A j \in 1..((n + 1) - 1) : s[j] = u[j + 0]
  BY <1>4
<1>6. \A j \in 1..(n + 1) : f[j] = g[j + 0]
  <2>1. Aligned(f, s, n, g, u, n, 1, n + 1, 0)
    BY <1>3, <1>4, <1>5 DEF Aligned
  <2> QED  BY <1>1, <1>2, <2>1, SameValues
<1>7. 1 \in 1..(n + 1) /\ 1 + 0 = 1
  OBVIOUS
<1>8. f[1] = g[1]
  BY <1>6, <1>7
<1> QED  BY <1>8 DEF f, g

LEMMA ConcatValues ==
    ASSUME NEW s \in Seq(Nat), NEW t \in Seq(Nat), NEW base \in Nat, NEW top \in Nat
    PROVE  /\ Values(t, Len(t), base, top)[1] \in Nat
           /\ Values(s \o t, Len(s \o t), base, top)[1]
                 = Values(s, Len(s), base, Values(t, Len(t), base, top)[1])[1]
<1> DEFINE m == Len(s)
           n == Len(t)
           x == Values(t, n, base, top)[1]
<1>0. m \in Nat /\ n \in Nat /\ m = Len(s) /\ n = Len(t) /\ x = Values(t, n, base, top)[1]
  BY LenProperties
<1> HIDE DEF m, n, x
<1> USE <1>0
<1> DEFINE st == s \o t
           f == Values(st, m + n, base, top)
           g == Values(t, n, base, top)
           h == Values(s, m, base, x)
<1>1. /\ st \in Seq(Nat) /\ Len(st) = m + n /\ m + n \in Nat
      /\ \A j \in 1..m : st[j] = s[j] /\ s[j] \in Nat
      /\ \A j \in (m + 1)..(m + n) : st[j] = t[j - m]
      /\ \A j \in 1..n : t[j] \in Nat
      /\ \A j \in 1..(m + n) : st[j] \in Nat
  <2>1. st \in Seq(Nat) /\ Len(st) = m + n /\ m + n \in Nat
    <3>1. st \in Seq(Nat) /\ Len(st) = Len(s) + Len(t)
      BY ConcatProperties
    <3>2. m + n \in Nat
      OBVIOUS
    <3> HIDE DEF st
    <3> QED  BY <3>1, <3>2
  <2>2. \A j \in 1..(m + n) : st[j] = IF j <= m THEN s[j] ELSE t[j - m]
    BY ConcatProperties
  <2>3. \A j \in 1..m : st[j] = s[j] /\ s[j] \in Nat
    <3>1. \A j \in 1..m : j \in 1..(m + n) /\ j <= m
      OBVIOUS
    <3>2. \A j \in 1..m : s[j] \in Nat
      OBVIOUS
    <3> HIDE DEF st
    <3> QED  BY <2>2, <3>1, <3>2
  <2>4. \A j \in (m + 1)..(m + n) : st[j] = t[j - m]
    <3>1. \A j \in (m + 1)..(m + n) : j \in 1..(m + n) /\ ~(j <= m)
      OBVIOUS
    <3> HIDE DEF st
    <3> QED  BY <2>2, <3>1
  <2>5. \A j \in 1..n : t[j] \in Nat
    OBVIOUS
  <2> HIDE DEF st
  <2>6. \A j \in 1..(m + n) : st[j] \in Nat
    BY <2>1, ElementOfSeq
  <2> QED  BY <2>1, <2>3, <2>4, <2>5, <2>6
<1> HIDE DEF st
<1>2. IsValues(g, t, n, base, top) /\ IsValues(f, st, m + n, base, top)
  BY <1>1, ValuesSteps
<1>3. x \in Nat
  <2>1. 1 \in 1..(n + 1) /\ x = g[1]
    OBVIOUS
  <2> HIDE DEF f, g, h
  <2> QED  BY <1>2, <2>1, ZenonT(30) DEF IsValues
<1>4. IsValues(h, s, m, base, x)
  BY <1>1, <1>3, ValuesSteps
<1>5. x = g[1]
  OBVIOUS
<1> HIDE DEF f, g, h
<1>6. f[m + 1] = g[1]
  <2>1. /\ -m \in Int /\ m + 1 \in Nat /\ m + n + 1 \in Nat /\ 1 <= m + 1 /\ 1 <= m + 1 + (-m)
        /\ m + 1 <= m + n + 1 /\ m + n + 1 <= (m + n) + 1 /\ (m + n + 1) + (-m) <= n + 1
        /\ (m + n + 1) + (-m) = n + 1 /\ (m + 1) + (-m) = 1 /\ m + 1 \in (m + 1)..(m + n + 1)
        /\ \A j \in (m + 1)..((m + n + 1) - 1) : j \in (m + 1)..(m + n) /\ j - m = j + (-m)
        /\ (m + n) + 1 = m + n + 1
    OBVIOUS
  <2>2. f[m + n + 1] = g[(m + n + 1) + (-m)]
    BY <1>2, <2>1 DEF IsValues
  <2>3. \A j \in (m + 1)..((m + n + 1) - 1) : st[j] = t[j + (-m)]
    BY <1>1, <2>1
  <2>4. \A j \in (m + 1)..(m + n + 1) : f[j] = g[j + (-m)]
    <3>1. Aligned(f, st, m + n, g, t, n, m + 1, m + n + 1, -m)
      BY <1>1, <2>1, <2>2, <2>3 DEF Aligned
    <3> QED  BY <1>2, <3>1, SameValues
  <2> QED  BY <2>1, <2>4
<1>7. f[1] = h[1]
  <2>1. /\ 0 \in Int /\ m + 1 \in Nat /\ 1 \in Nat /\ 1 <= 1 /\ 1 <= 1 + 0 /\ 1 <= m + 1
        /\ m + 1 <= (m + n) + 1 /\ (m + 1) + 0 <= m + 1 /\ (m + 1) + 0 = m + 1 /\ 1 + 0 = 1
        /\ 1 \in 1..(m + 1)
        /\ \A j \in 1..((m + 1) - 1) : j \in 1..m /\ j + 0 = j
    OBVIOUS
  <2>2. f[m + 1] = h[(m + 1) + 0]
    BY <1>4, <1>5, <1>6, <2>1 DEF IsValues
  <2>3. \A j \in 1..((m + 1) - 1) : st[j] = s[j + 0]
    BY <1>1, <2>1
  <2>4. \A j \in 1..(m + 1) : f[j] = h[j + 0]
    <3>1. Aligned(f, st, m + n, h, s, m, 1, m + 1, 0)
      BY <1>1, <2>1, <2>2, <2>3 DEF Aligned
    <3> HIDE <1>0
    <3> QED  BY <1>2, <1>4, <3>1, SameValues
  <2> QED  BY <2>1, <2>4
<1> QED  BY <1>1, <1>3, <1>7 DEF f, h, st

-----------------------------------------------------------------------------
(* The loops that write digits of base 10.                                 *)

LEMMA DivTen ==
    ASSUME NEW r \in Nat
    PROVE  /\ r \div 10 \in Nat /\ r % 10 \in 0..9 /\ r = (r % 10) + 10 * (r \div 10)
           /\ r > 0 => r \div 10 < r
           /\ r < 10 => r \div 10 = 0 /\ r % 10 = r
           /\ r >= 10 => r \div 10 > 0
OBVIOUS

(* A function that takes one step from each place to the next.             *)
Iterates(g, m, first, G) == g[0] = first /\ \A j \in 1..m : g[j] = G[g[j - 1]]

LEMMA Iteration ==
    ASSUME NEW m \in Nat, NEW R, NEW first \in R, NEW G \in [R -> R]
    PROVE  \E g \in [0..m -> R] : Iterates(g, m, first, G)
<1> DEFINE D == 0..m
           Step(g, j) == IF j = 0 THEN first ELSE G[g[j - 1]]
           F == [p \in [D -> R] \X D |-> Step(p[1], p[2])]
           rank == [j \in D |-> j]
<1>1. ASSUME NEW g \in [D -> R], NEW j \in D PROVE Step(g, j) \in R
  <2>1. j # 0 => j - 1 \in D
    OBVIOUS
  <2> QED  BY <2>1
<1>2. rank \in [D -> 0..m] /\ \A j \in D : rank[j] = j
  OBVIOUS
<1>3. ASSUME NEW g \in [D -> R], NEW h \in [D -> R], NEW j \in D,
             \A l \in D : rank[l] < rank[j] => g[l] = h[l]
      PROVE  Step(g, j) = Step(h, j)
  <2>1. j # 0 => j - 1 \in D /\ rank[j - 1] < rank[j]
    BY <1>2
  <2> QED  BY <1>3, <2>1
<1>4. PICK g \in [D -> R] : \A j \in D : g[j] = Step(g, j)
  <2> HIDE DEF D, rank, Step
  <2>1. F \in [[D -> R] \X D -> R]
    BY <1>1
  <2>2. \A h \in [D -> R], j \in D : F[<<h, j>>] = Step(h, j)
    OBVIOUS
  <2> HIDE DEF F
  <2>3. LooksBelow(D, R, rank, F)
    <3> SUFFICES ASSUME NEW h \in [D -> R], NEW u \in [D -> R], NEW j \in D,
                        \A l \in D : rank[l] < rank[j] => h[l] = u[l]
                 PROVE  F[<<h, j>>] = F[<<u, j>>]
      BY DEF LooksBelow
    <3>1. Step(h, j) = Step(u, j)
      BY <1>3
    <3> QED  BY <2>2, <3>1
  <2>4. \E g \in [D -> R] : Solution(D, F, g)
    BY <1>2, <2>1, <2>3, RecursiveFunction
  <2> QED  BY <2>2, <2>4 DEF Solution
<1>5. Iterates(g, m, first, G)
  BY <1>4 DEF Iterates
<1> QED  BY <1>5

LEMMA TensSteps ==
    /\ \A n \in 0..DECIMAL_SHIFT : TenTo[n] \in Nat
    /\ TenTo[0] = 1
    /\ \A n \in 1..DECIMAL_SHIFT : TenTo[n] = 10 * TenTo[n - 1]
<1> DEFINE m == DECIMAL_SHIFT
           G == [x \in Nat |-> 10 * x]
<1>1. m \in Nat
  BY LongAssumption
<1> HIDE DEF m
<1>2. PICK g \in [0..m -> Nat] : Iterates(g, m, 1, G)
  <2>1. G \in [Nat -> Nat]
    OBVIOUS
  <2> HIDE DEF G
  <2> QED  BY <1>1, <2>1, Iteration
<1>3. g = [n \in 0..m |-> IF n = 0 THEN 1 ELSE 10 * g[n - 1]]
  <2>1. \A n \in 0..m : g[n] = IF n = 0 THEN 1 ELSE 10 * g[n - 1]
    <3> TAKE n \in 0..m
    <3>1. n # 0 => n \in 1..m /\ n - 1 \in 0..m
      BY <1>1
    <3> QED  BY <1>2, <3>1 DEF Iterates
  <2> QED  BY <2>1
<1>4. TenTo = [n \in 0..m |-> IF n = 0 THEN 1 ELSE 10 * TenTo[n - 1]]
  BY <1>3 DEF TenTo, m
<1>5. \A n \in 0..m : TenTo[n] = IF n = 0 THEN 1 ELSE 10 * TenTo[n - 1]
  BY <1>4, Zenon
<1>6. TenTo[0] = 1 /\ \A n \in 1..m : TenTo[n] = 10 * TenTo[n - 1]
  BY <1>1, <1>5
<1>7. \A n \in 0..m : TenTo[n] \in Nat
  <2> DEFINE S == {n \in 0..m : TenTo[n] \in Nat}
  <2>1. 0 \in S
    BY <1>1, <1>6
  <2>2. ASSUME NEW n \in 0..(m - 1), n \in S PROVE n + 1 \in S
    <3>1. n + 1 \in 1..m /\ (n + 1) - 1 = n
      BY <1>1
    <3> QED  BY <1>6, <2>2, <3>1
  <2> HIDE DEF S
  <2>3. 0..m \subseteq S
    BY <1>1, <2>1, <2>2, BoundedInduction
  <2> QED  BY <2>3 DEF S
<1> QED  BY <1>6, <1>7 DEF m

(* The loop that writes a digit of the buffer: the remainders it goes      *)
(* through.                                                                *)
LEMMA PaddedSteps ==
    ASSUME NEW n \in Nat
    PROVE  \E rem \in [0..DECIMAL_SHIFT -> Nat] :
              /\ rem[0] = n
              /\ \A j \in 1..DECIMAL_SHIFT : rem[j] = rem[j - 1] \div 10
              /\ Padded(n) = [j \in 1..DECIMAL_SHIFT |-> rem[j - 1] % 10]
<1> DEFINE m == DECIMAL_SHIFT
           G == [x \in Nat |-> x \div 10]
           f == CHOOSE f : f = [j \in 0..m |-> IF j = 0 THEN n ELSE f[j - 1] \div 10]
<1>1. m \in Nat
  BY LongAssumption
<1>2. Padded(n) = [j \in 1..m |-> f[j - 1] % 10]
  BY DEF Padded
<1> HIDE DEF m
<1>3. PICK g \in [0..m -> Nat] : Iterates(g, m, n, G)
  <2>1. G \in [Nat -> Nat]
    BY DivTen
  <2> HIDE DEF G
  <2> QED  BY <1>1, <2>1, Iteration
<1>4. \A j \in 0..m : j # 0 => j \in 1..m /\ j - 1 \in 0..m
  BY <1>1
<1>5. g = [j \in 0..m |-> IF j = 0 THEN n ELSE g[j - 1] \div 10]
  <2>1. \A j \in 0..m : g[j] = IF j = 0 THEN n ELSE g[j - 1] \div 10
    BY <1>3, <1>4 DEF Iterates
  <2> QED  BY <2>1
<1>6. f = [j \in 0..m |-> IF j = 0 THEN n ELSE f[j - 1] \div 10]
  BY <1>5
<1> HIDE DEF f
<1>7. \A j \in 0..m : f[j] = IF j = 0 THEN n ELSE f[j - 1] \div 10
  BY <1>6, Zenon
<1>8. f[0] = n /\ \A j \in 1..m : f[j] = f[j - 1] \div 10
  BY <1>1, <1>7
<1>9. \A j \in 0..m : f[j] \in Nat
  <2> DEFINE S == {j \in 0..m : f[j] \in Nat}
  <2>1. 0 \in S
    BY <1>1, <1>8
  <2>2. ASSUME NEW j \in 0..(m - 1), j \in S PROVE j + 1 \in S
    <3>1. j + 1 \in 1..m /\ (j + 1) - 1 = j
      BY <1>1
    <3>2. f[j] \in Nat /\ f[j + 1] = f[j] \div 10
      BY <1>8, <2>2, <3>1
    <3> QED  BY <3>1, <3>2, DivTen
  <2> HIDE DEF S
  <2>3. 0..m \subseteq S
    BY <1>1, <2>1, <2>2, BoundedInduction
  <2> QED  BY <2>3 DEF S
<1>10. f \in [0..m -> Nat]
  BY <1>6, <1>9
<1> QED  BY <1>2, <1>8, <1>10 DEF m

(* Padded writes a digit of the buffer and all of it.                      *)
LEMMA PaddedValue ==
    ASSUME NEW n \in 0..(DECIMAL_BASE - 1), NEW top \in Nat
    PROVE  /\ Padded(n) \in Seq(0..9) /\ Len(Padded(n)) = DECIMAL_SHIFT
           /\ Values(Padded(n), DECIMAL_SHIFT, 10, top)[1] = n + DECIMAL_BASE * top
<1> DEFINE m == DECIMAL_SHIFT
           P == Padded(n)
           g == Values(P, m, 10, top)
<1>1. m \in Nat /\ m >= 1 /\ DECIMAL_BASE = TenTo[m] /\ DECIMAL_BASE \in Nat /\ n \in Nat
  BY LongAssumption
<1>2. /\ \A j \in 0..m : TenTo[j] \in Nat
      /\ TenTo[0] = 1
      /\ \A j \in 1..m : TenTo[j] = 10 * TenTo[j - 1]
  BY TensSteps
<1>3. PICK rem \in [0..m -> Nat] : /\ rem[0] = n
                                   /\ \A j \in 1..m : rem[j] = rem[j - 1] \div 10
                                   /\ P = [j \in 1..m |-> rem[j - 1] % 10]
  BY <1>1, PaddedSteps
<1> HIDE DEF m, P, g
<1>4. \A j \in 1..m : P[j] = rem[j - 1] % 10 /\ P[j] \in 0..9 /\ P[j] \in Nat
  <2> TAKE j \in 1..m
  <2>1. rem[j - 1] \in Nat
    BY <1>1
  <2>2. P[j] = rem[j - 1] % 10
    BY <1>3
  <2>3. rem[j - 1] % 10 \in 0..9
    BY <2>1, DivTen, Zenon
  <2>4. \A x \in 0..9 : x \in Nat
    OBVIOUS
  <2> QED  BY <2>2, <2>3, <2>4, Zenon
<1>5. P \in Seq(0..9) /\ Len(P) = m
  <2> DEFINE T == 0..9
  <2>1. P \in [1..m -> T]
    <3>1. P = [j \in 1..m |-> P[j]]
      BY <1>3
    <3>2. \A j \in 1..m : P[j] \in T
      BY <1>4
    <3> HIDE DEF T
    <3> QED  BY <3>1, <3>2
  <2> HIDE DEF T
  <2>2. P \in Seq(T)
    BY <1>1, <2>1
  <2>3. Len(P) = m
    BY <1>1, <2>1, <2>2
  <2> QED  BY <2>2, <2>3 DEF T
<1>6. IsValues(g, P, m, 10, top)
  BY <1>1, <1>4, ValuesSteps DEF g
<1>7. \A j \in 0..m : rem[j] < TenTo[m - j]
  <2> DEFINE S == {j \in 0..m : rem[j] < TenTo[m - j]}
  <2>1. 0 \in S
    BY <1>1, <1>3
  <2>2. ASSUME NEW j \in 0..(m - 1), j \in S PROVE j + 1 \in S
    <3>1. /\ j + 1 \in 1..m /\ (j + 1) - 1 = j /\ m - j \in 1..m /\ m - (j + 1) \in 0..m
          /\ (m - j) - 1 = m - (j + 1) /\ j \in 0..m /\ j + 1 \in 0..m
      BY <1>1
    <3> DEFINE a == TenTo[m - (j + 1)]
               r == rem[j]
    <3>2. a \in Nat /\ r \in Nat /\ TenTo[m - j] = 10 * a /\ r < 10 * a
      BY <1>2, <2>2, <3>1
    <3>3. rem[j + 1] = r \div 10
      BY <1>3, <3>1
    <3> HIDE DEF a, r
    <3>4. r \div 10 < a
      BY <3>2
    <3> QED  BY <3>1, <3>3, <3>4 DEF a
  <2> HIDE DEF S
  <2>3. 0..m \subseteq S
    BY <1>1, <2>1, <2>2, BoundedInduction
  <2> QED  BY <2>3 DEF S
<1>8. \A l \in 0..m : g[m + 1 - l] = rem[m - l] + TenTo[l] * top
  <2> DEFINE S == {l \in 0..m : g[m + 1 - l] = rem[m - l] + TenTo[l] * top}
  <2>1. 0 \in S
    <3>1. rem[m] = 0
      <4>1. m \in 0..m /\ m - m = 0
        BY <1>1
      <4>2. rem[m] < 1 /\ rem[m] \in Nat
        BY <1>2, <1>7, <4>1
      <4> QED  BY <4>2
    <3>2. g[m + 1] = top
      BY <1>6 DEF IsValues
    <3> QED  BY <1>1, <1>2, <3>1, <3>2
  <2>2. ASSUME NEW l \in 0..(m - 1), l \in S PROVE l + 1 \in S
    <3>1. /\ l + 1 \in 1..m /\ (l + 1) - 1 = l /\ m - l \in 1..m /\ (m - l) + 1 = m + 1 - l
          /\ (m - l) - 1 = m - (l + 1) /\ m + 1 - (l + 1) = m - l /\ l \in 0..m /\ l + 1 \in 0..m
          /\ m - (l + 1) \in 0..m
      BY <1>1
    <3> DEFINE a == TenTo[l]
               r == rem[m - (l + 1)]
    <3>2. a \in Nat /\ r \in Nat /\ TenTo[l + 1] = 10 * a /\ rem[m - l] = r \div 10 /\ P[m - l] = r % 10
      BY <1>2, <1>3, <1>4, <3>1
    <3>3. g[m - l] = P[m - l] + 10 * g[(m - l) + 1]
      BY <1>6, <3>1 DEF IsValues
    <3>4. g[(m - l) + 1] = r \div 10 + a * top
      BY <2>2, <3>1, <3>2
    <3> HIDE DEF a, r
    <3>5. (r % 10) + 10 * (r \div 10 + a * top) = r + (10 * a) * top
      <4> DEFINE x == a * top
      <4>1. x \in Nat /\ (10 * a) * top = 10 * x
        BY <3>2
      <4> HIDE DEF x
      <4>2. (r % 10) + 10 * (r \div 10 + x) = r + 10 * x
        BY <3>2, <4>1
      <4> QED  BY <4>1, <4>2 DEF x
    <3>6. g[m + 1 - (l + 1)] = r + TenTo[l + 1] * top
      BY <3>1, <3>2, <3>3, <3>4, <3>5
    <3> QED  BY <3>1, <3>6 DEF r
  <2> HIDE DEF S
  <2>3. 0..m \subseteq S
    BY <1>1, <2>1, <2>2, BoundedInduction
  <2> QED  BY <2>3 DEF S
<1>9. g[1] = n + DECIMAL_BASE * top
  <2>1. m \in 0..m /\ m + 1 - m = 1 /\ m - m = 0
    BY <1>1
  <2>2. g[m + 1 - m] = rem[m - m] + TenTo[m] * top
    BY <1>8, <2>1
  <2> QED  BY <1>1, <1>3, <2>1, <2>2
<1> QED  BY <1>5, <1>9 DEF m, P, g

LEMMA OneDigit ==
    ASSUME NEW d \in Nat, NEW x \in Nat
    PROVE  Values(<<d>>, 1, 10, x)[1] = d + 10 * x
<1> DEFINE s == <<d>>
           g == Values(s, 1, 10, x)
<1>1. \A j \in 1..1 : s[j] = d
  OBVIOUS
<1> HIDE DEF s
<1>2. \A j \in 1..1 : s[j] \in Nat
  BY <1>1
<1>3. IsValues(g, s, 1, 10, x)
  BY <1>2, ValuesSteps
<1> HIDE DEF g
<1>4. g[1] = d + 10 * x
  BY <1>1, <1>3 DEF IsValues
<1> QED  BY <1>4 DEF g, s

(* The digits of a number and nothing else.                                *)
IsNumeral(s, n) == /\ s \in Seq(0..9) /\ Len(s) \in Nat \ {0}
                   /\ Values(s, Len(s), 10, 0)[1] = n
                   /\ n # 0 => s[Len(s)] # 0
                   /\ n = 0 => Len(s) = 1

LEMMA ShortNumeral == \A n \in 0..9 : IsNumeral(<<n>>, n)
<1> TAKE n \in 0..9
<1> DEFINE s == <<n>>
<1>1. s \in Seq(0..9) /\ Len(s) = 1 /\ s[1] = n
  OBVIOUS
<1>2. Values(s, 1, 10, 0)[1] = n
  BY OneDigit
<1> HIDE DEF s
<1>3. IsNumeral(s, n)
  BY <1>1, <1>2 DEF IsNumeral
<1> QED  BY <1>3 DEF s

LEMMA LongerNumeral ==
    ASSUME NEW n \in Nat, n >= 10, NEW s, IsNumeral(s, n \div 10)
    PROVE  IsNumeral(<<n % 10>> \o s, n)
<1> DEFINE t == <<n % 10>>
           st == t \o s
           q == n \div 10
           m == Len(s)
<1>1. q \in Nat /\ q > 0 /\ n % 10 \in 0..9 /\ n = (n % 10) + 10 * q
  BY DivTen
<1>2. t \in Seq(0..9) /\ Len(t) = 1
  BY <1>1
<1>3. /\ s \in Seq(0..9) /\ m \in Nat \ {0} /\ s[m] # 0
      /\ Values(s, m, 10, 0)[1] = q
  BY <1>1 DEF IsNumeral
<1>4. \A x \in Nat : Values(t, 1, 10, x)[1] = (n % 10) + 10 * x
  BY <1>1, OneDigit
<1> HIDE DEF t, q, m
<1>5. /\ st \in Seq(0..9) /\ Len(st) = 1 + m
      /\ \A j \in 1..(1 + m) : st[j] = IF j <= 1 THEN t[j] ELSE s[j - 1]
  <2>1. /\ st \in Seq(0..9) /\ Len(st) = Len(t) + Len(s)
        /\ \A j \in 1..(Len(t) + Len(s)) : st[j] = IF j <= Len(t) THEN t[j] ELSE s[j - Len(t)]
    BY <1>2, <1>3, ConcatProperties
  <2>2. Len(t) = 1 /\ Len(s) = m
    BY <1>2 DEF m
  <2> HIDE DEF st
  <2> QED  BY <2>1, <2>2
<1>6. Values(st, Len(st), 10, 0)[1] = Values(t, 1, 10, q)[1]
  <2>1. t \in Seq(Nat) /\ s \in Seq(Nat)
    <3>1. 0..9 \subseteq Nat
      OBVIOUS
    <3> QED  BY <1>2, <1>3, <3>1, SeqMonotonic
  <2>2. Values(t \o s, Len(t \o s), 10, 0)[1] = Values(t, Len(t), 10, Values(s, Len(s), 10, 0)[1])[1]
    BY <2>1, ConcatValues
  <2> QED  BY <1>2, <1>3, <2>2 DEF m
<1> HIDE DEF st
<1>7. Values(st, Len(st), 10, 0)[1] = n
  BY <1>1, <1>4, <1>6
<1>8. st[Len(st)] # 0
  <2>1. 1 + m \in 1..(1 + m) /\ ~(1 + m <= 1) /\ (1 + m) - 1 = m
    BY <1>3
  <2>2. st[1 + m] = s[m]
    BY <1>5, <2>1
  <2> QED  BY <1>3, <1>5, <2>2
<1>9. IsNumeral(st, n)
  BY <1>3, <1>5, <1>7, <1>8 DEF IsNumeral
<1> QED  BY <1>9 DEF st, t

LEMMA CharactersValue ==
    ASSUME NEW n \in Nat
    PROVE  IsNumeral(Characters(n), n)
<1> DEFINE D == 0..n
           R == Seq(0..9)
           Step(g, r) == <<r % 10>> \o (IF r < 10 THEN <<>> ELSE g[r \div 10])
           F == [p \in [D -> R] \X D |-> Step(p[1], p[2])]
           rank == [r \in D |-> r]
           f == CHOOSE f : f = [rem \in 0..n |->
                    <<rem % 10>> \o (IF rem < 10 THEN <<>> ELSE f[rem \div 10])]
<1>1. Characters(n) = f[n]
  BY DEF Characters
<1>2. \A r \in D : /\ r \in Nat /\ r % 10 \in 0..9 /\ <<r % 10>> \in R
                   /\ r >= 10 => r \div 10 \in D /\ r \div 10 < r
  <2> TAKE r \in D
  <2>1. r \in Nat /\ r % 10 \in 0..9 /\ r \div 10 \in Nat /\ (r > 0 => r \div 10 < r)
    BY DivTen
  <2>2. <<r % 10>> \in R
    BY <2>1
  <2> QED  BY <2>1, <2>2
<1>3. <<>> \in R /\ \A s, t \in R : s \o t \in R
  OBVIOUS
<1>4. ASSUME NEW g \in [D -> R], NEW r \in D PROVE Step(g, r) \in R
  <2>1. ~(r < 10) => g[r \div 10] \in R
    BY <1>2
  <2> HIDE DEF R
  <2> QED  BY <1>2, <1>3, <2>1
<1>5. rank \in [D -> 0..n] /\ \A r \in D : rank[r] = r
  OBVIOUS
<1>6. ASSUME NEW g \in [D -> R], NEW h \in [D -> R], NEW r \in D,
             \A l \in D : rank[l] < rank[r] => g[l] = h[l]
      PROVE  Step(g, r) = Step(h, r)
  <2>1. ~(r < 10) => r \div 10 \in D /\ rank[r \div 10] < rank[r]
    BY <1>2, <1>5
  <2> QED  BY <1>6, <2>1
<1>7. PICK g \in [D -> R] : \A r \in D : g[r] = Step(g, r)
  <2> HIDE DEF D, R, rank, Step, f
  <2>1. F \in [[D -> R] \X D -> R]
    BY <1>4
  <2>2. \A h \in [D -> R], r \in D : F[<<h, r>>] = Step(h, r)
    OBVIOUS
  <2> HIDE DEF F
  <2>3. LooksBelow(D, R, rank, F)
    <3> SUFFICES ASSUME NEW h \in [D -> R], NEW u \in [D -> R], NEW r \in D,
                        \A l \in D : rank[l] < rank[r] => h[l] = u[l]
                 PROVE  F[<<h, r>>] = F[<<u, r>>]
      BY DEF LooksBelow
    <3>1. Step(h, r) = Step(u, r)
      BY <1>6
    <3> QED  BY <2>2, <3>1
  <2>4. \E g \in [D -> R] : Solution(D, F, g)
    BY <1>3, <1>5, <2>1, <2>3, RecursiveFunction
  <2> QED  BY <2>2, <2>4 DEF Solution
<1>8. f = [r \in D |-> Step(f, r)]
  <2>1. g = [r \in D |-> Step(g, r)]
    <3> HIDE DEF Step, R, D
    <3> QED  BY <1>7
  <2> QED  BY <2>1, Zenon
<1>9. \A r \in D : f[r] = Step(f, r)
  <2> HIDE DEF f, Step
  <2> QED  BY <1>8
<1>10. \A h : \A r \in D : /\ r < 10 => Step(h, r) = <<r>>
                           /\ r >= 10 => Step(h, r) = <<r % 10>> \o h[r \div 10]
  <2> TAKE h
  <2> TAKE r \in D
  <2>1. CASE r < 10
    <3>1. r % 10 = r
      BY <2>1, DivTen
    <3>2. <<r % 10>> \o <<>> = <<r % 10>>
      OBVIOUS
    <3> QED  BY <2>1, <3>1, <3>2
  <2>2. CASE ~(r < 10)
    BY <2>2
  <2> QED  BY <2>1, <2>2
<1> HIDE DEF f, Step, F, rank, R
<1>11. \A r \in D : /\ r < 10 => f[r] = <<r>>
                    /\ r >= 10 => f[r] = <<r % 10>> \o f[r \div 10]
  BY <1>9, <1>10
<1>12. n \in D
  OBVIOUS
<1> DEFINE S == {l \in 0..n : \A r \in D : r <= l => IsNumeral(f[r], r)}
<1>13. ASSUME NEW l \in D, \A r \in D : r < l => IsNumeral(f[r], r) PROVE IsNumeral(f[l], l)
  <2>1. CASE l < 10
    <3>1. l \in 0..9 /\ f[l] = <<l>>
      <4>1. l \in 0..9
        BY <2>1
      <4> HIDE DEF D
      <4> QED  BY <1>11, <2>1, <4>1
    <3> QED  BY <3>1, ShortNumeral
  <2>2. CASE ~(l < 10)
    <3>1. l \in Nat /\ l >= 10 /\ l \div 10 \in D /\ l \div 10 < l
      BY <1>2, <2>2
    <3>2. f[l] = <<l % 10>> \o f[l \div 10] /\ IsNumeral(f[l \div 10], l \div 10)
      BY <1>11, <1>13, <3>1
    <3>3. IsNumeral(<<l % 10>> \o f[l \div 10], l)
      BY <3>1, <3>2, LongerNumeral
    <3> QED  BY <3>2, <3>3
  <2> QED  BY <2>1, <2>2
<1>14. 0 \in S
  <2>1. 0 \in D /\ \A r \in D : ~(r < 0) /\ (r <= 0 => r = 0)
    OBVIOUS
  <2> HIDE DEF D
  <2>2. IsNumeral(f[0], 0)
    BY <1>13, <2>1
  <2> QED  BY <2>1, <2>2
<1>15. ASSUME NEW l \in 0..(n - 1), l \in S PROVE l + 1 \in S
  <2>1. l + 1 \in D /\ l + 1 \in 0..n /\ \A r \in D : (r < l + 1 => r <= l) /\ (r <= l + 1 => r <= l \/ r = l + 1)
    OBVIOUS
  <2>2. \A r \in D : r <= l => IsNumeral(f[r], r)
    BY <1>15
  <2>3. IsNumeral(f[l + 1], l + 1)
    BY <1>13, <2>1, <2>2
  <2> HIDE DEF D
  <2> QED  BY <2>1, <2>2, <2>3
<1> HIDE DEF S
<1>16. 0..n \subseteq S
  BY <1>14, <1>15, BoundedInduction
<1>17. IsNumeral(f[n], n)
  BY <1>12, <1>16 DEF S
<1> QED  BY <1>1, <1>17

-----------------------------------------------------------------------------
(* What the steps of the conversion do to values.                          *)

(* One digit of the buffer is multiplied: what was carried and the digit   *)
(* are worth what is carried on and the digit that is left.                *)
LEMMA Multiplied == \A a, b, c, z, r, h, t, x \in Nat :
    (z = c * b + h /\ z = r + a * x) => h + b * (c + a * t) = r + a * (x + b * t)
OBVIOUS

IsCarry(s, u, n, p, base, b, h, x) ==
    /\ n \in Nat /\ p \in 1..n /\ base \in Nat /\ b \in Nat /\ h \in Nat /\ x \in Nat
    /\ \A j \in 1..n : s[j] \in Nat /\ u[j] \in Nat /\ (j # p => u[j] = s[j])
    /\ s[p] * b + h = u[p] + base * x

LEMMA CarryValue ==
    ASSUME NEW n, NEW s, NEW u, NEW p, NEW base, NEW b, NEW h, NEW x,
           IsCarry(s, u, n, p, base, b, h, x)
    PROVE  Values(u, p, base, x + b * Values(u, n, base, 0)[p + 1])[1]
              = Values(s, p - 1, base, h + b * Values(s, n, base, 0)[p])[1]
<1> DEFINE S == Values(s, n, base, 0)
           U == Values(u, n, base, 0)
           c == s[p]
           r == u[p]
           t == S[p + 1]
           y == x + b * t
           w == h + b * S[p]
<1> USE DEF IsCarry
<1>1. IsValues(S, s, n, base, 0) /\ IsValues(U, u, n, base, 0)
  BY ValuesSteps
<1>2. /\ p + 1 \in Nat /\ n + 1 \in Nat /\ 0 \in Int /\ 1 <= p + 1 /\ 1 <= (p + 1) + 0
      /\ p + 1 <= n + 1 /\ n + 1 <= n + 1 /\ (n + 1) + 0 <= n + 1
      /\ \A j \in (p + 1)..((n + 1) - 1) : j \in 1..n /\ j # p /\ j + 0 = j
      /\ (n + 1) + 0 = n + 1 /\ p + 1 \in (p + 1)..(n + 1) /\ (p + 1) + 0 = p + 1
      /\ p + 1 \in 1..(n + 1) /\ p - 1 \in Nat /\ (p - 1) + 1 = p /\ p \in Nat
      /\ \A j \in 1..(p - 1) : j \in 1..n /\ j # p
  OBVIOUS
<1>3. U[p + 1] = t
  <2> HIDE DEF S, U
  <2>1. \A j \in (p + 1)..((n + 1) - 1) : u[j] = s[j + 0]
    BY <1>2
  <2>2. U[n + 1] = S[(n + 1) + 0]
    BY <1>1, <1>2 DEF IsValues
  <2>3. Aligned(U, u, n, S, s, n, p + 1, n + 1, 0)
    BY <1>2, <2>1, <2>2 DEF Aligned
  <2>4. \A j \in (p + 1)..(n + 1) : U[j] = S[j + 0]
    BY <1>1, <2>3, SameValues
  <2> QED  BY <1>2, <2>4
<1>4. t \in Nat /\ c \in Nat /\ r \in Nat /\ S[p] = c + base * t
  <2> HIDE DEF S, U
  <2> QED  BY <1>1, <1>2 DEF IsValues
<1> HIDE DEF S, U, t, c, r
<1>5. c * b + h = r + base * x
  BY DEF c, r
<1>6. y \in Nat /\ w = r + base * y
  <2>1. y \in Nat
    BY <1>4, SumInNat
  <2>2. c * b + h \in Nat
    BY <1>4
  <2>3. h + b * (c + base * t) = r + base * y
    BY <1>4, <1>5, <2>2, Multiplied
  <2> QED  BY <1>4, <2>1, <2>3
<1> HIDE DEF y, w
<1>7. AreDigits(u, (p - 1) + 1)
  BY DEF AreDigits
<1>8. IsTop(w, u, p - 1, base, y)
  BY <1>2, <1>6 DEF r, IsTop
<1>9. w \in Nat /\ Values(u, (p - 1) + 1, base, y)[1] = Values(u, p - 1, base, w)[1]
  BY <1>2, <1>6, <1>7, <1>8, ValuesExtend
<1>10. Values(u, p, base, y)[1] = Values(u, p - 1, base, w)[1]
  BY <1>2, <1>9
<1>11. Values(u, p - 1, base, w)[1] = Values(s, p - 1, base, w)[1]
  <2>1. AreDigits(u, p - 1) /\ SameDigits(u, s, p - 1)
    BY <1>2 DEF AreDigits, SameDigits
  <2> QED  BY <1>2, <1>9, <2>1, ValuesCongruent
<1>12. x + b * U[p + 1] = y /\ h + b * S[p] = w
  BY <1>3 DEF y, w
<1> QED  BY <1>10, <1>11, <1>12 DEF S, U

(* What is left over is one more digit, and what is carried on.            *)
IsQuotient(x, d, base, y) == d \in Nat /\ base \in Nat /\ x \in Nat /\ y = d + base * x

LEMMA PushValue ==
    ASSUME NEW s \in Seq(Nat), NEW n \in Nat, Len(s) = n, NEW d, NEW base, NEW x, NEW y,
           IsQuotient(x, d, base, y)
    PROVE  Values(Append(s, d), n + 1, base, x)[1] = Values(s, n, base, y)[1]
<1> USE DEF IsQuotient
<1> DEFINE u == Append(s, d)
<1>1. /\ n + 1 \in 1..(n + 1) /\ 1 \in 1..(n + 1) /\ 1 \in 1..(n + 1)
      /\ \A j \in 1..n : u[j] = s[j] /\ s[j] \in Nat
      /\ u[n + 1] = d
      /\ \A j \in 1..(n + 1) : u[j] \in Nat
  <2>1. /\ u \in Seq(Nat) /\ Len(u) = n + 1
        /\ \A j \in 1..n : u[j] = s[j]
        /\ u[n + 1] = d
    BY AppendProperties
  <2>2. \A j \in 1..n : s[j] \in Nat
    OBVIOUS
  <2> HIDE DEF u
  <2>3. \A j \in 1..(n + 1) : u[j] \in Nat
    BY <2>1, ElementOfSeq
  <2> QED  BY <2>1, <2>2, <2>3
<1> HIDE DEF u
<1>2. IsTop(y, u, n, base, x)
  BY <1>1 DEF IsTop
<1>3. y \in Nat /\ Values(u, n + 1, base, x)[1] = Values(u, n, base, y)[1]
  <2>1. AreDigits(u, n + 1)
    BY <1>1 DEF AreDigits
  <2> QED  BY <1>2, <2>1, ValuesExtend
<1>4. Values(s, n, base, y)[1] = Values(u, n, base, y)[1]
  <2>1. AreDigits(s, n) /\ SameDigits(s, u, n)
    BY <1>1 DEF AreDigits, SameDigits
  <2> QED  BY <1>3, <2>1, ValuesCongruent
<1> QED  BY <1>3, <1>4 DEF u

(* A number without digits is what stands on them.                         *)
LEMMA NoDigits ==
    ASSUME NEW s, NEW base \in Nat, NEW top \in Nat
    PROVE  Values(s, 0, base, top)[1] = top
<1>1. \A j \in 1..0 : s[j] \in Nat
  OBVIOUS
<1>2. IsValues(Values(s, 0, base, top), s, 0, base, top)
  BY <1>1, ValuesSteps
<1>3. 0 + 1 = 1
  OBVIOUS
<1> QED  BY <1>2, <1>3 DEF IsValues

(* Euclid: a quotient is less than b if the number is less than a * b.     *)
LEMMA Division ==
    ASSUME NEW z \in Nat, NEW a \in Nat, a > 0
    PROVE  /\ z \div a \in Nat /\ z % a \in 0..(a - 1)
           /\ z - (z \div a) * a \in 0..(a - 1)
           /\ a * (z \div a) <= z
<1>1. z \div a \in Int /\ z % a \in 0..(a - 1)
  OBVIOUS
<1>2. z = a * (z \div a) + (z % a)
  OBVIOUS
<1>3. ASSUME z \div a < 0 PROVE FALSE
  <2>1. a * (z \div a) <= a * (-1)
    BY <1>1, <1>3
  <2> QED  BY <1>1, <1>2, <2>1
<1> QED  BY <1>1, <1>2, <1>3

LEMMA QuotientBound ==
    ASSUME NEW z \in Nat, NEW a \in Nat, NEW b \in Nat, a > 0, z < a * b
    PROVE  z \div a < b
<1> DEFINE q == z \div a
<1>1. q \in Nat /\ a * q <= z
  BY Division
<1>2. ASSUME q >= b PROVE FALSE
  <2>1. a * q >= a * b
    BY <1>1, <1>2
  <2> QED  BY <1>1, <2>1
<1> QED  BY <1>1, <1>2

LEMMA QuotientIsLess ==
    ASSUME NEW z \in Nat, NEW a \in Nat, a > 1
    PROVE  z \div a <= z
<1> DEFINE q == z \div a
<1>1. q \in Nat /\ a * q <= z
  BY Division
<1> HIDE DEF q
<1>2. q <= a * q
  BY <1>1
<1>3. a * q \in Nat
  BY <1>1
<1>4. q <= z
  BY <1>1, <1>2, <1>3
<1> QED  BY <1>4 DEF q

LEMMA ElementIn ==
    ASSUME NEW S, NEW s \in Seq(S), NEW j \in 1..Len(s)
    PROVE  s[j] \in S
OBVIOUS

(* One more digit shifted in fits a word, and stays below BASE times       *)
(* DECIMAL_BASE.                                                           *)
LEMMA ShiftBound ==
    ASSUME NEW d \in 0..(DECIMAL_BASE - 1), NEW h \in 0..(BASE - 1)
    PROVE  /\ d * BASE + h \in Nat
           /\ d * BASE + h < DECIMAL_BASE * BASE
           /\ d * BASE + h < WORD
<1>1. /\ BASE \in Nat /\ DECIMAL_BASE \in Nat /\ WORD \in Nat /\ DECIMAL_BASE * BASE <= WORD
  BY LongAssumption
<1>2. d * BASE <= (DECIMAL_BASE - 1) * BASE
  BY <1>1
<1>3. (DECIMAL_BASE - 1) * BASE = DECIMAL_BASE * BASE - BASE
  BY <1>1
<1>4. d * BASE \in Nat /\ DECIMAL_BASE * BASE \in Nat
  BY <1>1
<1> DEFINE x == d * BASE
           y == DECIMAL_BASE * BASE
<1> HIDE DEF x, y
<1>5. x \in Nat /\ y \in Nat /\ x <= y - BASE /\ y <= WORD
  BY <1>1, <1>2, <1>3, <1>4 DEF x, y
<1>6. x + h \in Nat /\ x + h < y /\ x + h < WORD
  BY <1>1, <1>5
<1> QED  BY <1>6 DEF x, y

-----------------------------------------------------------------------------
LEMMA ObjectTyped ==
    ASSUME object \in Ints
    PROVE  /\ digits \in Seq(0..(BASE - 1)) /\ Len(digits) \in Nat /\ Len(digits) >= 1
           /\ object.size \in Nat /\ object.size <= Len(digits)
           /\ object.size > 0 => digits[object.size] # 0
           /\ object.negative \in BOOLEAN /\ (object.negative => object.size > 0)
           /\ object.bool => ~object.negative /\ object.size <= 1 /\ digits[1] = object.size
<1>1. /\ object \in [digits : Seq(0..(BASE - 1)) \ {<<>>}, size : Nat,
                     negative : BOOLEAN, bool : BOOLEAN, tagged : BOOLEAN]
      /\ object.size <= Len(object.digits)
      /\ object.size > 0 => object.digits[object.size] # 0
      /\ object.negative => object.size > 0
      /\ object.bool => ~object.negative /\ object.size <= 1 /\ object.digits[1] = object.size
  BY LongAssumption
<1>2. /\ object.digits \in Seq(0..(BASE - 1)) /\ object.digits # <<>>
      /\ object.size \in Nat /\ object.negative \in BOOLEAN
  BY <1>1
<1>3. Len(object.digits) \in Nat \ {0}
  BY <1>2, EmptySeq
<1> QED  BY <1>1, <1>2, <1>3 DEF digits

(* The digits of the int and the value from each of them on. *)
LEMMA NumberSteps ==
    ASSUME object \in Ints
    PROVE  /\ \A j \in 1..Len(digits) : digits[j] \in 0..(BASE - 1)
           /\ IsValues(Number, digits, object.size, BASE, 0)
           /\ Number[object.size + 1] = 0
           /\ \A j \in 1..object.size : Number[j] = digits[j] + BASE * Number[j + 1]
           /\ \A j \in 1..(object.size + 1) : Number[j] \in Nat
           /\ object.size = 0 => Number[1] = 0
           /\ object.size = 1 => Number[1] = digits[1]
<1>1. /\ digits \in Seq(0..(BASE - 1)) /\ Len(digits) \in Nat
      /\ object.size \in Nat /\ object.size <= Len(digits) /\ BASE \in Nat
  BY ObjectTyped, LongAssumption
<1>2. \A j \in 1..Len(digits) : digits[j] \in 0..(BASE - 1)
  BY <1>1, ElementOfSeq
<1>3. \A j \in 1..object.size : digits[j] \in Nat
  BY <1>1, <1>2
<1>4. IsValues(Number, digits, object.size, BASE, 0)
  BY <1>1, <1>3, ValuesSteps DEF Number
<1>5. /\ Number[object.size + 1] = 0
      /\ \A j \in 1..object.size : Number[j] = digits[j] + BASE * Number[j + 1]
      /\ \A j \in 1..(object.size + 1) : Number[j] \in Nat
  BY <1>4 DEF IsValues
<1>6. object.size = 0 => Number[1] = 0
  BY <1>5
<1>7. ASSUME object.size = 1 PROVE Number[1] = digits[1]
  <2>1. Number[1 + 1] = 0 /\ 1 \in 1..object.size
    BY <1>5, <1>7
  <2>2. Number[1] = digits[1] + BASE * Number[1 + 1] /\ digits[1] \in Nat
    BY <1>3, <1>5, <2>1
  <2> QED  BY <1>1, <2>1, <2>2
<1> QED  BY <1>2, <1>4, <1>5, <1>6, <1>7

(* The digits of the buffer and the value from each of them on. *)
LEMMA BufferSteps ==
    ASSUME NEW b \in Seq(0..(DECIMAL_BASE - 1))
    PROVE  /\ Len(b) \in Nat /\ b \in Seq(Nat)
           /\ \A j \in 1..Len(b) : b[j] \in 0..(DECIMAL_BASE - 1) /\ b[j] \in Nat
           /\ IsValues(Values(b, Len(b), DECIMAL_BASE, 0), b, Len(b), DECIMAL_BASE, 0)
           /\ \A j \in 1..(Len(b) + 1) : Values(b, Len(b), DECIMAL_BASE, 0)[j] \in Nat
           /\ Values(b, Len(b), DECIMAL_BASE, 0)[Len(b) + 1] = 0
<1>1. Len(b) \in Nat /\ 0 \in Nat /\ DECIMAL_BASE \in Nat /\ 0..(DECIMAL_BASE - 1) \subseteq Nat
  BY LongAssumption, LenProperties
<1>2. \A j \in 1..Len(b) : b[j] \in 0..(DECIMAL_BASE - 1) /\ b[j] \in Nat
  BY <1>1, ElementOfSeq
<1>3. b \in Seq(Nat)
  BY <1>1, SeqMonotonic
<1>4. IsValues(Values(b, Len(b), DECIMAL_BASE, 0), b, Len(b), DECIMAL_BASE, 0)
  BY <1>1, <1>2, ValuesSteps
<1>5. /\ \A j \in 1..(Len(b) + 1) : Values(b, Len(b), DECIMAL_BASE, 0)[j] \in Nat
      /\ Values(b, Len(b), DECIMAL_BASE, 0)[Len(b) + 1] = 0
  BY <1>4 DEF IsValues
<1> QED  BY <1>1, <1>2, <1>3, <1>4, <1>5

(* The invariant holds for every object the program is given. *)
LEMMA InitInv == Init => InductiveInv /\ PrintsTheNumber
<1> SUFFICES ASSUME Init PROVE InductiveInv /\ PrintsTheNumber
  OBVIOUS
<1>1. object \in Ints /\ object.size \in Nat
  BY ObjectTyped DEF Init
<1>2. TypeOK
  BY <1>1, LongAssumption DEF Init, TypeOK
<1>3. ValueKept /\ NoZeroInFront /\ NotYet /\ PrintsTheNumber
  BY DEF Init, ValueKept, NoZeroInFront, NotYet, PrintsTheNumber
<1> QED  BY <1>2, <1>3, LongAssumption DEF Init, InductiveInv, HiFits, NoOverflow

(* What is left of the digits is never more than there are. *)
LEMMA HeaderInv == InductiveInv /\ ReadHeader => InductiveInv'
<1> SUFFICES ASSUME InductiveInv, ReadHeader PROVE InductiveInv'
  OBVIOUS
<1>1. /\ object \in Ints /\ object.size \in Nat /\ object.negative \in BOOLEAN
      /\ object.negative => object.size > 0
  BY ObjectTyped DEF InductiveInv, TypeOK
<1>2. UNCHANGED <<object, hi, k, buff, out>> /\ pc' = "digit" /\ pc = "header"
  BY DEF ReadHeader
<1>3. i' = object.size /\ sign' \in Int /\ (sign' < 0 <=> object.negative)
  <2>1. \A n \in Nat, f \in 0..2 : (8 * n + f) \div 8 = n /\ (8 * n + f) % 4 = f /\ 8 * n + f \in Nat
    OBVIOUS
  <2>2. /\ LvTag(object) \div 8 = object.size /\ SignOfTag(LvTag(object)) \in Int
        /\ SignOfTag(LvTag(object)) < 0 <=> object.negative
    <3> DEFINE f == IF object.negative THEN 2 ELSE IF object.size = 0 THEN 1 ELSE 0
    <3>1. f \in 0..2 /\ LvTag(object) = 8 * object.size + f /\ (f = 2 <=> object.negative)
      BY DEF LvTag
    <3> HIDE DEF f
    <3>2. LvTag(object) \div 8 = object.size /\ LvTag(object) % 4 = f
      BY <1>1, <2>1, <3>1
    <3> QED  BY <3>1, <3>2 DEF SignOfTag
  <2>3. CASE object.tagged
    BY <2>2, <2>3 DEF ReadHeader
  <2>4. CASE ~object.tagged
    BY <1>1, <2>4 DEF ReadHeader, ObSize
  <2> QED  BY <2>3, <2>4
<1>4. buff' = <<>> /\ out' = <<>>
  BY <1>2 DEF InductiveInv, NotYet
<1>5. TypeOK'
  BY <1>1, <1>2, <1>3 DEF InductiveInv, TypeOK
<1>6. ValueKept'
  <2>1. ValueOf(<<>>, DECIMAL_BASE) = 0
    <3>1. Len(<<>>) = 0 /\ DECIMAL_BASE \in Nat /\ 0 \in Nat
      BY LongAssumption
    <3> QED  BY <3>1, NoDigits DEF ValueOf
  <2>2. Number[object.size + 1] = 0
    BY <1>1, NumberSteps
  <2>3. Number' = Number
    BY <1>2 DEF Number, digits
  <2>4. ValueOf(buff', DECIMAL_BASE) = Number'[i' + 1]
    BY <1>3, <1>4, <2>1, <2>2, <2>3
  <2> QED  BY <1>2, <2>4 DEF ValueKept
<1>7. NoZeroInFront' /\ NotYet'
  BY <1>2, <1>3, <1>4 DEF NoZeroInFront, NotYet
<1> QED  BY <1>2, <1>5, <1>6, <1>7 DEF InductiveInv, HiFits, NoOverflow

(* The next digit stands below the buffer. *)
LEMMA NextDigitInv == InductiveInv /\ NextDigit => InductiveInv'
<1> SUFFICES ASSUME InductiveInv, NextDigit PROVE InductiveInv'
  OBVIOUS
<1>1. /\ object \in Ints /\ digits \in Seq(0..(BASE - 1)) /\ Len(digits) \in Nat
      /\ object.size \in Nat /\ object.size <= Len(digits)
  BY ObjectTyped DEF InductiveInv, TypeOK
<1>2. /\ UNCHANGED <<object, sign, buff, out>> /\ pc = "digit" /\ pc' = "carry" /\ k' = 1
      /\ i' = i - 1 /\ i \in 1..object.size /\ hi' = digits[i]
      /\ buff \in Seq(0..(DECIMAL_BASE - 1))
  BY <1>1 DEF NextDigit, InductiveInv, TypeOK
<1>3. hi' \in 0..(BASE - 1) /\ hi' \in Nat
  <2>1. i \in 1..Len(digits)
    BY <1>1, <1>2
  <2> QED  BY <1>1, <1>2, <2>1, NumberSteps
<1>4. TypeOK'
  BY <1>1, <1>2, <1>3, LongAssumption DEF InductiveInv, TypeOK
<1>5. HiFits'
  BY <1>3, LongAssumption DEF HiFits
<1>6. ASSUME k' <= Len(buff') PROVE Shifted' < WORD
  <2>1. buff' \in Seq(0..(DECIMAL_BASE - 1)) /\ k' \in 1..Len(buff')
    BY <1>2, <1>6, BufferSteps
  <2>2. buff'[k'] \in 0..(DECIMAL_BASE - 1)
    BY <2>1, ElementIn
  <2> QED  BY <1>3, <2>2, ShiftBound DEF Shifted
<1>7. ValueKept'
  <2>1. Len(buff) \in Nat /\ 1 \in 1..(Len(buff) + 1) /\ Buffered[1] \in Nat
    BY <1>2, BufferSteps DEF Buffered
  <2>2. Buffered[1] = Number[i + 1]
    BY <1>2 DEF InductiveInv, ValueKept, ValueOf, Buffered
  <2>3. Number[i] = digits[i] + BASE * Number[i + 1]
    BY <1>1, <1>2, NumberSteps
  <2>4. Number' = Number /\ Buffered' = Buffered
    BY <1>2 DEF Number, digits, Buffered
  <2> DEFINE x == hi' + BASE * Buffered[1]
  <2>5. x \in Nat /\ x = Number[i]
    BY <1>2, <1>3, <2>1, <2>2, <2>3, SumInNat, LongAssumption
  <2> HIDE DEF x
  <2>6. Values(buff, 0, DECIMAL_BASE, x)[1] = x
    BY <2>5, NoDigits, LongAssumption
  <2>7. k' - 1 = 0 /\ i' + 1 = i /\ k' <= Len(buff') + 1
    BY <1>2, <2>1
  <2>8. hi' + BASE * Buffered'[k'] = x
    BY <1>2, <2>4 DEF x
  <2>9. Values(buff', k' - 1, DECIMAL_BASE, hi' + BASE * Buffered'[k'])[1] = Number'[i' + 1]
    BY <1>2, <2>4, <2>5, <2>6, <2>7, <2>8, Zenon
  <2> QED  BY <1>2, <2>7, <2>9 DEF ValueKept
<1>8. NoZeroInFront' /\ NotYet'
  BY <1>2 DEF InductiveInv, NoZeroInFront, NotYet
<1> QED  BY <1>4, <1>5, <1>6, <1>7, <1>8 DEF InductiveInv, NoOverflow

(* The quotient of what was shifted is less than BASE again, the rest is   *)
(* a digit of the buffer again, and together they are what they were.      *)
LEMMA CarryInv == InductiveInv /\ Carry => InductiveInv'
<1> SUFFICES ASSUME InductiveInv, Carry PROVE InductiveInv'
  OBVIOUS
<1> DEFINE z == Shifted
           n == Len(buff)
           rest == z - (z \div DECIMAL_BASE) * DECIMAL_BASE
<1>0. BASE \in Nat /\ BASE > 1 /\ DECIMAL_BASE \in Nat /\ DECIMAL_BASE > 1
  BY LongAssumption
<1>1. /\ UNCHANGED <<object, pc, sign, i, out>> /\ pc = "carry" /\ k' = k + 1
      /\ k \in 1..n /\ hi' = z \div DECIMAL_BASE
      /\ buff' = [buff EXCEPT ![k] = rest]
      /\ buff \in Seq(0..(DECIMAL_BASE - 1)) /\ n \in Nat /\ k \in Nat
  BY DEF Carry, InductiveInv, TypeOK
<1>2. /\ \A j \in 1..n : buff[j] \in 0..(DECIMAL_BASE - 1) /\ buff[j] \in Nat
      /\ \A j \in 1..(n + 1) : Buffered[j] \in Nat
  BY <1>1, BufferSteps DEF Buffered
<1>3. buff[k] \in 0..(DECIMAL_BASE - 1) /\ buff[k] \in Nat /\ hi \in 0..(BASE - 1) /\ hi \in Nat
  BY <1>0, <1>1, <1>2 DEF InductiveInv, TypeOK, HiFits
<1>4. z \in Nat /\ z < DECIMAL_BASE * BASE
  BY <1>3, ShiftBound DEF Shifted
<1>5. z = buff[k] * BASE + hi
  BY DEF Shifted
<1> HIDE DEF z
<1>6. /\ hi' \in Nat /\ rest \in 0..(DECIMAL_BASE - 1) /\ rest \in Nat /\ hi' < BASE
      /\ z = rest + DECIMAL_BASE * hi'
  <2>1. hi' \in Nat /\ rest \in 0..(DECIMAL_BASE - 1)
    <3>1. z \div DECIMAL_BASE \in Nat /\ rest \in 0..(DECIMAL_BASE - 1)
      BY <1>0, <1>4, Division
    <3> QED  BY <1>1, <3>1
  <2>2. hi' < BASE
    <3>1. z \div DECIMAL_BASE < BASE
      BY <1>0, <1>4, QuotientBound
    <3> QED  BY <1>1, <3>1
  <2>3. z = rest + DECIMAL_BASE * hi'
    <3> DEFINE q == z \div DECIMAL_BASE
    <3>1. q \in Nat /\ hi' = q
      BY <1>1, <2>1
    <3> HIDE DEF q
    <3>2. z = (z - q * DECIMAL_BASE) + DECIMAL_BASE * q
      BY <1>0, <1>4, <3>1
    <3> QED  BY <3>1, <3>2 DEF q
  <2> QED  BY <1>0, <2>1, <2>2, <2>3
<1> HIDE DEF rest, n
<1>7. /\ buff' \in Seq(0..(DECIMAL_BASE - 1)) /\ Len(buff') = n
      /\ buff'[k] = rest /\ \A j \in 1..n : j # k => buff'[j] = buff[j]
  BY <1>1, <1>6, ExceptSeq DEF n
<1>8. TypeOK'
  BY <1>1, <1>6, <1>7 DEF InductiveInv, TypeOK
<1>9. ASSUME k' <= Len(buff') PROVE Shifted' < WORD
  <2>1. k' \in 1..Len(buff')
    BY <1>1, <1>7, <1>9
  <2>2. buff'[k'] \in 0..(DECIMAL_BASE - 1)
    BY <1>7, <2>1, ElementIn
  <2>3. hi' \in 0..(BASE - 1)
    BY <1>0, <1>6
  <2> QED  BY <2>2, <2>3, ShiftBound DEF Shifted
<1>10. ValueKept'
  <2>1. \A j \in 1..n : buff[j] \in Nat /\ buff'[j] \in Nat
    BY <1>1, <1>2, <1>6, <1>7
  <2>2. buff[k] * BASE + hi = buff'[k] + DECIMAL_BASE * hi'
    BY <1>5, <1>6, <1>7
  <2>3. Values(buff', k, DECIMAL_BASE, hi' + BASE * Values(buff', n, DECIMAL_BASE, 0)[k + 1])[1]
           = Values(buff, k - 1, DECIMAL_BASE, hi + BASE * Values(buff, n, DECIMAL_BASE, 0)[k])[1]
    <3>1. IsCarry(buff, buff', n, k, DECIMAL_BASE, BASE, hi, hi')
      BY <1>0, <1>1, <1>3, <1>6, <1>7, <2>1, <2>2 DEF IsCarry
    <3> QED  BY <3>1, CarryValue
  <2>4. Values(buff, k - 1, DECIMAL_BASE, hi + BASE * Values(buff, n, DECIMAL_BASE, 0)[k])[1]
           = Number[i + 1]
    BY <1>1 DEF InductiveInv, ValueKept, Buffered, n
  <2>5. Number' = Number /\ Buffered' = Values(buff', n, DECIMAL_BASE, 0)
    BY <1>1, <1>7 DEF Number, digits, Buffered
  <2>6. k' - 1 = k /\ k' <= Len(buff') + 1
    BY <1>1, <1>7
  <2>7. Values(buff', k' - 1, DECIMAL_BASE, hi' + BASE * Buffered'[k'])[1] = Number'[i' + 1]
    BY <1>1, <2>3, <2>4, <2>5, <2>6, Zenon
  <2> QED  BY <1>1, <2>6, <2>7 DEF ValueKept
<1>11. NoZeroInFront'
  <2> SUFFICES ASSUME k' <= n \/ hi' = 0 PROVE buff'[n] # 0
    BY <1>1, <1>7 DEF NoZeroInFront
  <2>1. buff[n] # 0 /\ n \in 1..n
    <3>1. buff # <<>> /\ k <= Len(buff)
      BY <1>1 DEF n
    <3>2. buff[Len(buff)] # 0
      BY <1>1, <3>1 DEF InductiveInv, NoZeroInFront
    <3> QED  BY <1>1, <3>2 DEF n
  <2>2. CASE k # n
    BY <1>7, <2>1, <2>2
  <2>3. CASE k = n
    <3>1. hi' = 0
      BY <1>1, <2>3
    <3>2. z = rest
      BY <1>0, <1>6, <3>1
    <3>3. buff[k] * BASE >= 1
      <4>1. buff[k] # 0
        BY <2>1, <2>3
      <4> QED  BY <1>0, <1>3, <4>1
    <3>4. buff[k] * BASE \in Nat
      BY <1>0, <1>3
    <3>5. z # 0
      BY <1>3, <1>5, <3>3, <3>4
    <3> QED  BY <1>7, <2>3, <3>2, <3>5
  <2> QED  BY <2>2, <2>3
<1>12. NotYet'
  BY <1>1 DEF InductiveInv, NotYet
<1> QED  BY <1>6, <1>8, <1>9, <1>10, <1>11, <1>12 DEF InductiveInv, HiFits, NoOverflow

LEMMA PushInv == InductiveInv /\ Push => InductiveInv'
<1> SUFFICES ASSUME InductiveInv, Push PROVE InductiveInv'
  OBVIOUS
<1> DEFINE low == hi % DECIMAL_BASE
           n == Len(buff)
<1>0. BASE \in Nat /\ BASE > 1 /\ DECIMAL_BASE \in Nat /\ DECIMAL_BASE > 1
  BY LongAssumption
<1>1. /\ UNCHANGED <<object, pc, sign, i, out>> /\ pc = "carry" /\ k' = k + 1
      /\ hi' = hi \div DECIMAL_BASE /\ hi # 0 /\ buff' = Append(buff, low)
      /\ buff \in Seq(0..(DECIMAL_BASE - 1)) /\ n \in Nat
      /\ k \in Nat /\ k > n /\ hi \in Nat /\ hi < BASE
  BY DEF Push, InductiveInv, TypeOK, HiFits
<1>2. k = n + 1
  BY <1>1 DEF InductiveInv, ValueKept
<1>3. low \in 0..(DECIMAL_BASE - 1) /\ low \in Nat /\ hi' \in Nat /\ hi' < BASE
      /\ hi = low + DECIMAL_BASE * hi'
  <2>1. low \in 0..(DECIMAL_BASE - 1) /\ hi' \in Nat
    <3>1. hi \in Nat /\ DECIMAL_BASE \in Nat /\ DECIMAL_BASE > 0
      BY <1>0, <1>1
    <3>2. low \in 0..(DECIMAL_BASE - 1) /\ hi \div DECIMAL_BASE \in Nat
      BY <3>1, Division
    <3> QED  BY <1>1, <3>2
  <2>2. hi' <= hi
    BY <1>0, <1>1, QuotientIsLess
  <2>3. hi = low + DECIMAL_BASE * hi'
    BY <1>0, <1>1
  <2> QED  BY <1>0, <1>1, <2>1, <2>2, <2>3
<1> HIDE DEF low
<1>4. /\ buff' \in Seq(0..(DECIMAL_BASE - 1)) /\ Len(buff') = n + 1 /\ buff'[n + 1] = low
  BY <1>1, <1>3, AppendProperties
<1>5. TypeOK'
  BY <1>1, <1>3, <1>4 DEF InductiveInv, TypeOK
<1>6. ~(k' <= Len(buff')) /\ k' <= Len(buff') + 1
  BY <1>1, <1>2, <1>4
<1>7. ValueKept'
  <2> HIDE DEF n
  <2>1. buff \in Seq(Nat) /\ Len(buff) = n /\ Values(buff, n, DECIMAL_BASE, 0)[n + 1] = 0
    BY <1>1, BufferSteps DEF n
  <2>2. Values(Append(buff, low), n + 1, DECIMAL_BASE, hi')[1]
           = Values(buff, n, DECIMAL_BASE, hi)[1]
    <3>1. IsQuotient(hi', low, DECIMAL_BASE, hi)
      BY <1>0, <1>3 DEF IsQuotient
    <3> QED  BY <1>1, <2>1, <3>1, PushValue
  <2>3. Values(buff, k - 1, DECIMAL_BASE, hi + BASE * Values(buff, n, DECIMAL_BASE, 0)[k])[1]
           = Number[i + 1]
    BY <1>1 DEF InductiveInv, ValueKept, Buffered, n
  <2>4. k - 1 = n /\ hi + BASE * 0 = hi
    BY <1>0, <1>1, <1>2
  <2>5. Values(buff, n, DECIMAL_BASE, hi)[1] = Number[i + 1]
    BY <1>2, <2>1, <2>3, <2>4, Zenon
  <2>6. Number' = Number /\ Buffered' = Values(buff', n + 1, DECIMAL_BASE, 0)
    BY <1>1, <1>4 DEF Number, digits, Buffered
  <2>7. Buffered'[k'] = 0
    <3>1. Values(buff', Len(buff'), DECIMAL_BASE, 0)[Len(buff') + 1] = 0
      BY <1>4, BufferSteps
    <3> QED  BY <1>1, <1>2, <1>4, <2>6, <3>1
  <2>8. k' - 1 = n + 1 /\ hi' + BASE * 0 = hi'
    BY <1>0, <1>1, <1>2, <1>3
  <2>9. Values(buff', k' - 1, DECIMAL_BASE, hi' + BASE * Buffered'[k'])[1] = Number'[i' + 1]
    BY <1>1, <1>3, <2>2, <2>5, <2>6, <2>7, <2>8, Zenon
  <2> QED  BY <1>1, <1>6, <2>9 DEF ValueKept
<1>8. NoZeroInFront'
  <2> SUFFICES ASSUME hi' = 0 PROVE low # 0
    BY <1>1, <1>4, <1>6 DEF NoZeroInFront
  <2> QED  BY <1>0, <1>1, <1>3
<1>9. NotYet'
  BY <1>1 DEF InductiveInv, NotYet
<1> QED  BY <1>3, <1>5, <1>6, <1>7, <1>8, <1>9 DEF InductiveInv, HiFits, NoOverflow

LEMMA EndCarryInv == InductiveInv /\ EndCarry => InductiveInv'
<1> SUFFICES ASSUME InductiveInv, EndCarry PROVE InductiveInv'
  OBVIOUS
<1> DEFINE n == Len(buff)
<1>0. BASE \in Nat /\ DECIMAL_BASE \in Nat
  BY LongAssumption
<1>1. /\ UNCHANGED <<object, sign, i, hi, k, buff, out>> /\ pc = "carry" /\ pc' = "digit"
      /\ hi = 0 /\ k > n /\ k \in Nat /\ buff \in Seq(0..(DECIMAL_BASE - 1)) /\ n \in Nat
  BY DEF EndCarry, InductiveInv, TypeOK
<1>2. k = n + 1
  BY <1>1 DEF InductiveInv, ValueKept
<1>3. Buffered[n + 1] = 0
  BY <1>1, BufferSteps DEF Buffered
<1>4. k - 1 = n /\ hi + BASE * 0 = 0
  BY <1>0, <1>1, <1>2
<1>5. Values(buff, k - 1, DECIMAL_BASE, hi + BASE * Buffered[k])[1] = Number[i + 1]
  BY <1>1 DEF InductiveInv, ValueKept
<1>6. ValueOf(buff, DECIMAL_BASE) = Number[i + 1]
  BY <1>2, <1>3, <1>4, <1>5 DEF ValueOf
<1>7. ValueOf(buff', DECIMAL_BASE) = Number'[i' + 1]
  BY <1>1, <1>6 DEF Number, digits
<1>8. ValueKept' /\ NoZeroInFront' /\ NotYet'
  BY <1>1, <1>7 DEF InductiveInv, ValueKept, NoZeroInFront, NotYet
<1>9. TypeOK' /\ HiFits' /\ NoOverflow'
  BY <1>1 DEF InductiveInv, TypeOK, HiFits, NoOverflow
<1> QED  BY <1>8, <1>9 DEF InductiveInv

LEMMA EndDigitsInv == InductiveInv /\ EndDigits => InductiveInv'
<1> SUFFICES ASSUME InductiveInv, EndDigits PROVE InductiveInv'
  OBVIOUS
<1>0. DECIMAL_BASE \in Nat /\ DECIMAL_BASE > 1
  BY LongAssumption
<1>1. /\ UNCHANGED <<object, sign, i, hi, out>> /\ pc = "digit" /\ pc' = "write" /\ k' = 1
      /\ i = 0 /\ buff \in Seq(0..(DECIMAL_BASE - 1)) /\ out = <<>>
      /\ buff' = IF buff = <<>> THEN <<0>> ELSE buff
  <2>1. /\ UNCHANGED <<object, sign, i, hi, out>> /\ pc = "digit" /\ pc' = "write" /\ k' = 1
        /\ i = 0 /\ buff' = IF buff = <<>> THEN <<0>> ELSE buff
    BY DEF EndDigits
  <2>2. buff \in Seq(0..(DECIMAL_BASE - 1))
    BY DEF InductiveInv, TypeOK
  <2>3. out = <<>>
    BY <2>1 DEF InductiveInv, NotYet
  <2> QED  BY <2>1, <2>2, <2>3
<1>2. /\ buff' \in Seq(0..(DECIMAL_BASE - 1)) /\ Len(buff') \in Nat \ {0}
      /\ Buffered'[1] = Number[1] /\ Buffered'[1] \in Nat
      /\ Len(buff') > 1 => buff'[Len(buff')] # 0
  <2>1. ValueOf(buff, DECIMAL_BASE) = Number[1]
    BY <1>1 DEF InductiveInv, ValueKept
  <2>2. CASE buff = <<>>
    <3> DEFINE s == <<0>>
    <3>1. s \in Seq(0..(DECIMAL_BASE - 1)) /\ Len(s) = 1
      <4>1. 0 \in 0..(DECIMAL_BASE - 1)
        BY <1>0
      <4> QED  BY <4>1
    <3>2. s[1] = 0 /\ buff' = s
      BY <1>1, <2>2
    <3> HIDE DEF s
    <3>3. /\ IsValues(Values(s, Len(s), DECIMAL_BASE, 0), s, Len(s), DECIMAL_BASE, 0)
          /\ Values(s, Len(s), DECIMAL_BASE, 0)[Len(s) + 1] = 0
      BY <3>1, BufferSteps
    <3>4. Values(s, 1, DECIMAL_BASE, 0)[1] = s[1] + DECIMAL_BASE * Values(s, 1, DECIMAL_BASE, 0)[1 + 1]
      BY <3>1, <3>3 DEF IsValues
    <3>5. Values(s, 1, DECIMAL_BASE, 0)[1] = 0
      <4>1. Values(s, 1, DECIMAL_BASE, 0)[1 + 1] = 0
        BY <3>1, <3>3
      <4>2. 0 + DECIMAL_BASE * 0 = 0
        BY <1>0
      <4> QED  BY <3>2, <3>4, <4>1, <4>2
    <3>6. Number[1] = 0
      <4>1. Len(<<>>) = 0 /\ Values(<<>>, 0, DECIMAL_BASE, 0)[1] = 0
        BY <1>0, NoDigits
      <4> QED  BY <2>1, <2>2, <4>1 DEF ValueOf
    <3>7. Buffered' = Values(s, 1, DECIMAL_BASE, 0)
      BY <3>1, <3>2 DEF Buffered
    <3>8. Buffered'[1] = 0 /\ Number[1] = 0
      BY <3>5, <3>6, <3>7
    <3>9. buff' \in Seq(0..(DECIMAL_BASE - 1)) /\ Len(buff') = 1
      BY <3>1, <3>2
    <3> QED  BY <3>8, <3>9
  <2>3. CASE buff # <<>>
    <3>1. buff' = buff /\ Len(buff) \in Nat \ {0}
      BY <1>1, <2>3, EmptySeq
    <3>2. buff[Len(buff)] # 0
      BY <1>1, <2>3 DEF InductiveInv, NoZeroInFront
    <3>3. Values(buff, Len(buff), DECIMAL_BASE, 0)[1] \in Nat
      <4>1. 1 \in 1..(Len(buff) + 1)
        BY <3>1
      <4> QED  BY <1>1, <4>1, BufferSteps
    <3> QED  BY <1>1, <2>1, <3>1, <3>2, <3>3 DEF Buffered, ValueOf
  <2> QED  BY <2>2, <2>3
<1>3. TypeOK'
  BY <1>1, <1>2 DEF InductiveInv, TypeOK
<1>4. ValueKept'
  <2>1. Len(<<>>) = 0 /\ <<>> \in Seq(0..9) /\ 10 \in Nat
    OBVIOUS
  <2> DEFINE x == Buffered'[1]
  <2>2. x \in Nat /\ x = Number[1]
    BY <1>2
  <2> HIDE DEF x
  <2>3. Values(<<>>, 0, 10, x)[1] = x
    BY <2>1, <2>2, NoDigits
  <2>4. Values(out', Len(out'), 10, Buffered'[k'])[1] = Number'[1]
    BY <1>1, <2>1, <2>2, <2>3 DEF x, Number, digits
  <2> QED  BY <1>1, <1>2, <2>1, <2>4 DEF ValueKept
<1>5. NoZeroInFront' /\ NotYet' /\ HiFits' /\ NoOverflow'
  BY <1>1, <1>2 DEF InductiveInv, NoZeroInFront, NotYet, HiFits, NoOverflow
<1> QED  BY <1>3, <1>4, <1>5 DEF InductiveInv

(* A digit of the buffer goes behind what is written. *)
LEMMA WriteDigitInv == InductiveInv /\ WriteDigit => InductiveInv'
<1> SUFFICES ASSUME InductiveInv, WriteDigit PROVE InductiveInv'
  OBVIOUS
<1> DEFINE n == Len(buff)
           P == Padded(buff[k])
           t == Buffered[k + 1]
<1>0. DECIMAL_BASE \in Nat /\ DECIMAL_BASE > 1
  BY LongAssumption
<1>1. /\ UNCHANGED <<object, pc, sign, i, hi, buff>> /\ pc = "write" /\ k' = k + 1
      /\ k \in 1..n /\ k < n /\ n \in Nat /\ buff \in Seq(0..(DECIMAL_BASE - 1))
      /\ out' = out \o P /\ out \in Seq(0..9)
  BY DEF WriteDigit, InductiveInv, TypeOK, ValueKept
<1>2. /\ k + 1 \in 1..(n + 1) /\ k' <= n /\ t \in Nat /\ buff[k] \in 0..(DECIMAL_BASE - 1)
      /\ Buffered[k] = buff[k] + DECIMAL_BASE * t
  <2>1. k + 1 \in 1..(n + 1) /\ k' <= n
    BY <1>1
  <2>2. t \in Nat /\ buff[k] \in 0..(DECIMAL_BASE - 1)
    BY <1>1, <2>1, BufferSteps DEF Buffered
  <2>3. IsValues(Buffered, buff, n, DECIMAL_BASE, 0)
    BY <1>1, BufferSteps DEF Buffered
  <2> QED  BY <1>1, <2>1, <2>2, <2>3 DEF IsValues
<1> HIDE DEF t, P, n
<1>3. P \in Seq(0..9) /\ Values(P, Len(P), 10, t)[1] = Buffered[k]
  BY <1>2, PaddedValue DEF P
<1>4. out' \in Seq(0..9)
  BY <1>1, <1>3, ConcatProperties
<1>5. Values(out', Len(out'), 10, t)[1] = Values(out, Len(out), 10, Buffered[k])[1]
  <2>1. out \in Seq(Nat) /\ P \in Seq(Nat) /\ 10 \in Nat
    <3>1. 0..9 \subseteq Nat
      OBVIOUS
    <3> QED  BY <1>1, <1>3, <3>1, SeqMonotonic
  <2>2. Values(out \o P, Len(out \o P), 10, t)[1] = Values(out, Len(out), 10, Values(P, Len(P), 10, t)[1])[1]
    BY <1>2, <2>1, ConcatValues
  <2> QED  BY <1>1, <1>3, <2>2
<1>6. ValueKept'
  <2>1. Values(out, Len(out), 10, Buffered[k])[1] = Number[1]
    BY <1>1 DEF InductiveInv, ValueKept
  <2>2. Number' = Number /\ Buffered' = Buffered /\ Buffered'[k'] = t
    BY <1>1 DEF Number, digits, Buffered, t
  <2> QED  BY <1>1, <1>2, <1>4, <1>5, <2>1, <2>2 DEF ValueKept, n
<1>7. TypeOK'
  <2>1. out' \in Seq(0..Minus)
    <3>1. 0..9 \subseteq 0..Minus
      BY DEF Minus
    <3> QED  BY <1>4, <3>1, SeqMonotonic
  <2> QED  BY <1>1, <2>1 DEF InductiveInv, TypeOK
<1>8. NoZeroInFront' /\ NotYet' /\ HiFits' /\ NoOverflow'
  BY <1>1 DEF InductiveInv, NoZeroInFront, NotYet, HiFits, NoOverflow
<1> QED  BY <1>6, <1>7, <1>8 DEF InductiveInv

(* The numeral of the number, and a minus sign if it is negative, is what  *)
(* is to be printed.                                                       *)
LEMMA Printed ==
    ASSUME NEW s \in Seq(0..9), NEW minus \in BOOLEAN, NEW m \in Nat \ {0}, Len(s) = m,
           out' = s \o MinusIf(minus), minus <=> object'.negative,
           Values(s, m, 10, 0)[1] = Number'[1], m > 1 => s[m] # 0
    PROVE  PrintsTheNumber' /\ out' \in Seq(0..Minus)
<1>0. 0..9 \subseteq 0..Minus /\ Minus \in 0..Minus /\ Minus \notin 0..9
  BY DEF Minus
<1>1. s \in Seq(0..Minus) /\ m \in 1..m /\ s[m] \in 0..9
  BY <1>0, SeqMonotonic
<1>2. CASE minus
  <2>1. out' = Append(s, Minus)
    <3>1. out' = s \o <<Minus>>
      BY <1>2 DEF MinusIf
    <3>2. s \o <<Minus>> = Append(s, Minus)
      BY <1>0, <1>1, AppendIsConcat
    <3> QED  BY <3>1, <3>2
  <2>2. /\ out' \in Seq(0..Minus) /\ Len(out') = m + 1 /\ out'[m + 1] = Minus
        /\ \A j \in 1..m : out'[j] = s[j]
    BY <1>0, <1>1, <2>1, AppendProperties
  <2>3. Negative'
    BY <2>2 DEF Negative
  <2>4. SubSeq(out', 1, Len(out') - 1) = s
    <3>1. (m + 1) - 1 = m /\ 1 \in 1..(m + 1) /\ 1 - 1 = 0
      OBVIOUS
    <3>2. SubSeq(Append(s, Minus), 1, m) = s
      BY <1>0, <1>1
    <3> QED  BY <2>1, <2>2, <3>1, <3>2
  <2>5. Shown' = s
    BY <2>3, <2>4 DEF Shown
  <2> QED  BY <1>2, <2>2, <2>3, <2>5 DEF PrintsTheNumber, ValueOf
<1>3. CASE ~minus
  <2>1. out' = s
    <3>1. s \o <<>> = s
      BY <1>1
    <3> QED  BY <1>3, <3>1 DEF MinusIf
  <2>2. ~Negative'
    BY <1>0, <1>1, <2>1 DEF Negative
  <2>3. Shown' = s
    BY <2>1, <2>2 DEF Shown
  <2> QED  BY <1>1, <1>3, <2>1, <2>2, <2>3 DEF PrintsTheNumber, ValueOf
<1> QED  BY <1>2, <1>3

LEMMA WriteLastInv == InductiveInv /\ WriteLast => InductiveInv' /\ PrintsTheNumber'
<1> SUFFICES ASSUME InductiveInv, WriteLast PROVE InductiveInv' /\ PrintsTheNumber'
  OBVIOUS
<1> DEFINE n == Len(buff)
           c == Characters(buff[n])
           s == out \o c
<1>0. DECIMAL_BASE \in Nat
  BY LongAssumption
<1>1. /\ UNCHANGED <<object, sign, i, hi, k, buff>> /\ pc = "write" /\ pc' = "done"
      /\ k = n /\ n \in Nat \ {0} /\ buff \in Seq(0..(DECIMAL_BASE - 1))
      /\ out' = s \o MinusIf(sign < 0) /\ out \in Seq(0..9)
  BY DEF WriteLast, InductiveInv, TypeOK, ValueKept
<1>2. /\ n \in 1..n /\ n \in Nat /\ buff[n] \in Nat /\ Buffered[n] = buff[n]
      /\ n > 1 => buff[n] # 0
  <2>1. n \in 1..n /\ n \in Nat
    BY <1>1
  <2>2. /\ buff[n] \in Nat /\ IsValues(Buffered, buff, n, DECIMAL_BASE, 0)
    BY <1>1, <2>1, BufferSteps DEF Buffered
  <2> HIDE DEF n
  <2>3. Buffered[n] = buff[n] + DECIMAL_BASE * 0
    BY <2>1, <2>2 DEF IsValues
  <2>4. n > 1 => buff[n] # 0
    BY <1>1 DEF InductiveInv, NoZeroInFront, n
  <2> QED  BY <1>0, <2>1, <2>2, <2>3, <2>4
<1>3. IsNumeral(c, buff[n])
  BY <1>2, CharactersValue
<1> HIDE DEF c, s, n
<1>4. /\ c \in Seq(0..9) /\ Len(c) \in Nat \ {0} /\ Values(c, Len(c), 10, 0)[1] = buff[n]
      /\ buff[n] # 0 => c[Len(c)] # 0
      /\ buff[n] = 0 => Len(c) = 1
  BY <1>3 DEF IsNumeral
<1>5. /\ s \in Seq(0..9) /\ Len(s) = Len(out) + Len(c) /\ Len(s) \in Nat \ {0}
      /\ s[Len(s)] = c[Len(c)] /\ Len(out) \in Nat
  <2>1. /\ s \in Seq(0..9) /\ Len(s) = Len(out) + Len(c)
        /\ \A j \in 1..(Len(out) + Len(c)) : s[j] = IF j <= Len(out) THEN out[j] ELSE c[j - Len(out)]
    BY <1>1, <1>4, ConcatProperties DEF s
  <2>2. Len(out) \in Nat
    BY <1>1, LenProperties
  <2> DEFINE a == Len(out)
             b == Len(c)
  <2>3. /\ a \in Nat /\ b \in Nat \ {0} /\ Len(s) = a + b
        /\ \A j \in 1..(a + b) : s[j] = IF j <= a THEN out[j] ELSE c[j - a]
    BY <1>4, <2>1, <2>2
  <2> HIDE DEF a, b
  <2>4. a + b \in 1..(a + b) /\ ~(a + b <= a) /\ (a + b) - a = b /\ a + b \in Nat \ {0}
    BY <2>3
  <2>5. s[a + b] = c[b]
    BY <2>3, <2>4
  <2> QED  BY <2>1, <2>2, <2>3, <2>4, <2>5 DEF a, b
<1>6. Values(s, Len(s), 10, 0)[1] = Number[1]
  <2>1. out \in Seq(Nat) /\ c \in Seq(Nat) /\ 10 \in Nat /\ 0 \in Nat
    <3>1. 0..9 \subseteq Nat
      OBVIOUS
    <3> QED  BY <1>1, <1>4, <3>1, SeqMonotonic
  <2>2. Values(out \o c, Len(out \o c), 10, 0)[1] = Values(out, Len(out), 10, Values(c, Len(c), 10, 0)[1])[1]
    BY <2>1, ConcatValues
  <2>3. Values(out, Len(out), 10, Buffered[k])[1] = Number[1]
    BY <1>1 DEF InductiveInv, ValueKept
  <2> QED  BY <1>1, <1>2, <1>4, <2>2, <2>3 DEF s
<1>7. Len(s) > 1 => s[Len(s)] # 0
  <2> SUFFICES ASSUME Len(s) > 1, buff[n] = 0 PROVE FALSE
    BY <1>4, <1>5
  <2>1. n = 1 /\ Len(c) = 1
    BY <1>1, <1>2, <1>4
  <2>2. Len(out) # 0
    BY <1>5, <2>1
  <2>3. out = <<>>
    BY <1>1, <2>1 DEF InductiveInv, NotYet
  <2> QED  BY <2>2, <2>3
<1>8. (sign < 0) \in BOOLEAN /\ ((sign < 0) <=> object'.negative) /\ Number' = Number
  BY <1>1 DEF InductiveInv, NotYet, Number, digits
<1>9. PrintsTheNumber' /\ out' \in Seq(0..Minus)
  <2> DEFINE minus == sign < 0
             m == Len(s)
  <2>1. /\ s \in Seq(0..9) /\ minus \in BOOLEAN /\ m \in Nat \ {0} /\ Len(s) = m
        /\ out' = s \o MinusIf(minus) /\ (minus <=> object'.negative)
        /\ Values(s, m, 10, 0)[1] = Number'[1] /\ (m > 1 => s[m] # 0)
    BY <1>1, <1>5, <1>6, <1>7, <1>8
  <2> HIDE DEF minus, m
  <2> QED  BY <2>1, Printed
<1>10. InductiveInv'
  BY <1>1, <1>9 DEF InductiveInv, TypeOK, HiFits, NoOverflow, ValueKept, NoZeroInFront, NotYet
<1> QED  BY <1>9, <1>10

LEMMA ReadBoolInv == InductiveInv /\ ReadBool => InductiveInv' /\ PrintsTheNumber'
<1> SUFFICES ASSUME InductiveInv, ReadBool PROVE InductiveInv' /\ PrintsTheNumber'
  OBVIOUS
<1>1. /\ object \in Ints /\ object.size \in 0..1 /\ digits[1] = object.size /\ ~object.negative
  BY ObjectTyped DEF InductiveInv, TypeOK, ReadBool
<1>2. /\ UNCHANGED <<object, sign, i, hi, k, buff>> /\ pc = "header" /\ pc' = "done"
      /\ sign = 0
  BY DEF ReadBool, InductiveInv, NotYet
<1>3. PICK d \in {0, 1} : out' = <<d>> /\ d = digits[1]
  BY <1>1 DEF ReadBool
<1> DEFINE s == <<d>>
           minus == FALSE
           m == 1
<1>4. s \in Seq(0..9) /\ Len(s) = 1 /\ s \o <<>> = s /\ d \in Nat /\ d \in 0..9
  BY <1>3
<1>5. Number' = Number /\ Number[1] = d
  BY <1>1, <1>2, <1>3, NumberSteps DEF Number, digits
<1>6. Values(s, 1, 10, 0)[1] = d
  <2>1. d \in Nat /\ 0 \in Nat /\ d + 10 * 0 = d
    BY <1>4
  <2>2. Values(<<d>>, 1, 10, 0)[1] = d + 10 * 0
    BY <2>1, OneDigit
  <2> QED  BY <2>1, <2>2
<1>7. PrintsTheNumber' /\ out' \in Seq(0..Minus)
  <2>1. /\ s \in Seq(0..9) /\ minus \in BOOLEAN /\ m \in Nat \ {0} /\ Len(s) = m
        /\ out' = s \o MinusIf(minus) /\ (minus <=> object'.negative)
        /\ Values(s, m, 10, 0)[1] = Number'[1] /\ (m > 1 => s[m] # 0)
    BY <1>1, <1>2, <1>3, <1>4, <1>5, <1>6 DEF MinusIf
  <2> HIDE DEF s, minus, m
  <2> QED  BY <2>1, Printed
<1>8. InductiveInv'
  BY <1>1, <1>2, <1>7 DEF InductiveInv, TypeOK, HiFits, NoOverflow, ValueKept, NoZeroInFront, NotYet
<1> QED  BY <1>7, <1>8

LEMMA ReadCompactInv == InductiveInv /\ ReadCompact => InductiveInv' /\ PrintsTheNumber'
<1> SUFFICES ASSUME InductiveInv, ReadCompact PROVE InductiveInv' /\ PrintsTheNumber'
  OBVIOUS
<1>1. /\ object \in Ints /\ object.size \in Nat /\ object.negative \in BOOLEAN
      /\ object.size > 0 => digits[object.size] # 0
      /\ object.negative => object.size > 0
      /\ digits[1] \in Nat
  <2>1. 1 \in 1..Len(digits)
    BY ObjectTyped DEF InductiveInv, TypeOK
  <2>2. digits[1] \in 0..(BASE - 1)
    BY <2>1, NumberSteps DEF InductiveInv, TypeOK
  <2> QED  BY <2>2, ObjectTyped, LongAssumption DEF InductiveInv, TypeOK
<1>2. /\ UNCHANGED <<object, i, hi, k, buff>> /\ pc = "header" /\ pc' = "done"
      /\ sign' = SignOfTag(LvTag(object)) /\ LvTag(object) < 16
  BY DEF ReadCompact, IsCompact
<1> DEFINE d == digits[1]
           value == sign' * d
           minus == value < 0
           number == IF minus THEN -value ELSE value
           s == Characters(number)
           m == Len(s)
<1>3. out' = s \o MinusIf(minus)
  BY DEF ReadCompact
<1>4. /\ sign' \in {-1, 0, 1} /\ (sign' < 0 <=> object.negative)
      /\ sign' = 0 <=> object.size = 0
      /\ object.size \in {0, 1}
  <2>1. CASE object.negative
    <3>1. LvTag(object) = 8 * object.size + 2
      BY <2>1 DEF LvTag
    <3>2. object.size = 1
      BY <1>1, <1>2, <2>1, <3>1
    <3>3. sign' = -1
      BY <1>2, <3>1, <3>2 DEF SignOfTag
    <3> QED  BY <2>1, <3>2, <3>3
  <2>2. CASE ~object.negative /\ object.size = 0
    <3>1. LvTag(object) = 1
      BY <2>2 DEF LvTag
    <3> QED  BY <1>2, <2>2, <3>1 DEF SignOfTag
  <2>3. CASE ~object.negative /\ object.size # 0
    <3>1. LvTag(object) = 8 * object.size
      BY <1>1, <2>3 DEF LvTag
    <3>2. object.size = 1
      BY <1>1, <1>2, <2>3, <3>1
    <3>3. sign' = 1
      BY <1>2, <3>1, <3>2 DEF SignOfTag
    <3> QED  BY <2>3, <3>2, <3>3
  <2> QED  BY <2>1, <2>2, <2>3
<1>5. /\ number \in Nat /\ number = Number[1] /\ (minus <=> object.negative)
  <2>1. object.size = 0 => Number[1] = 0
    BY <1>1, NumberSteps
  <2>2. object.size = 1 => Number[1] = d /\ d # 0
    BY <1>1, NumberSteps
  <2>3. d \in Nat
    BY <1>1
  <2> HIDE DEF d
  <2>4. CASE sign' = -1
    BY <1>4, <2>2, <2>3, <2>4
  <2>5. CASE sign' = 0
    BY <1>4, <2>1, <2>3, <2>5
  <2>6. CASE sign' = 1
    BY <1>4, <2>2, <2>3, <2>6
  <2> QED  BY <1>4, <2>4, <2>5, <2>6
<1> HIDE DEF number, value
<1>6. IsNumeral(s, number)
  BY <1>5, CharactersValue
<1> HIDE DEF s, minus
<1>7. PrintsTheNumber' /\ out' \in Seq(0..Minus)
  <2>1. /\ s \in Seq(0..9) /\ m \in Nat \ {0} /\ Len(s) = m
        /\ Values(s, m, 10, 0)[1] = number /\ (number # 0 => s[m] # 0) /\ (number = 0 => m = 1)
    BY <1>6 DEF IsNumeral
  <2>2. minus \in BOOLEAN
    BY DEF minus
  <2>3. Number' = Number
    BY <1>2 DEF Number, digits
  <2>4. /\ s \in Seq(0..9) /\ minus \in BOOLEAN /\ m \in Nat \ {0} /\ Len(s) = m
        /\ out' = s \o MinusIf(minus) /\ (minus <=> object'.negative)
        /\ Values(s, m, 10, 0)[1] = Number'[1] /\ (m > 1 => s[m] # 0)
    BY <1>2, <1>3, <1>5, <2>1, <2>2, <2>3
  <2> HIDE DEF m
  <2> QED  BY <2>4, Printed
<1>8. InductiveInv'
  BY <1>1, <1>2, <1>4, <1>7 DEF InductiveInv, TypeOK, HiFits, NoOverflow, ValueKept, NoZeroInFront, NotYet
<1> QED  BY <1>7, <1>8

LEMMA StepInv ==
    InductiveInv /\ PrintsTheNumber /\ [Next]_vars => InductiveInv' /\ PrintsTheNumber'
<1> SUFFICES ASSUME InductiveInv, PrintsTheNumber, [Next]_vars
             PROVE  InductiveInv' /\ PrintsTheNumber'
  OBVIOUS
<1>1. CASE Done \/ UNCHANGED vars
  <2>1. UNCHANGED vars
    BY <1>1 DEF Done
  <2>2. UNCHANGED <<digits, Number, Buffered, Shifted, Negative, Shown>>
    BY <2>1 DEF vars, digits, Number, Buffered, Shifted, Negative, Shown
  <2>3. InductiveInv'
    BY <2>1, <2>2 DEF vars, InductiveInv, TypeOK, HiFits, NoOverflow, ValueKept, NoZeroInFront, NotYet
  <2>4. PrintsTheNumber'
    BY <2>1, <2>2 DEF vars, PrintsTheNumber
  <2> QED  BY <2>3, <2>4
<1>2. CASE ReadHeader \/ NextDigit \/ Carry \/ Push \/ EndCarry \/ EndDigits \/ WriteDigit
  <2>1. pc' # "done"
    BY <1>2 DEF ReadHeader, NextDigit, Carry, Push, EndCarry, EndDigits, WriteDigit
  <2>2. PrintsTheNumber'
    BY <2>1 DEF PrintsTheNumber
  <2> QED  BY <1>2, <2>2, HeaderInv, NextDigitInv, CarryInv, PushInv, EndCarryInv,
              EndDigitsInv, WriteDigitInv
<1> QED  BY <1>1, <1>2, ReadBoolInv, ReadCompactInv, WriteLastInv DEF Next

(* Every int is converted without an overflow, with decimal digits of the  *)
(* size WriteDigit expects, and without losing its value on the way:       *)
(* PyLongObject::repr, for the bases of both builds of CPython.            *)
THEOREM ConversionIsSafe == Spec => []InductiveInv
<1> QED  BY InitInv, StepInv, PTL DEF Spec

(* The text is the number, whatever its length: its digits in base 10, its *)
(* sign, and no zero in front (PyLongObject::repr, the compact and the     *)
(* long way).                                                              *)
THEOREM TextIsTheNumber == Spec => []PrintsTheNumber
<1> QED  BY InitInv, StepInv, PTL DEF Spec
=============================================================================
