-------------------------- MODULE DictObject_proofs --------------------------
(***************************************************************************)
(* Proofs about the listing of dicts and sets, for every set of keys and   *)
(* values, every size of a table and every history of operations.          *)
(***************************************************************************)
EXTENDS DictObject, FiniteSetTheorems, FunctionTheorems, SequenceTheorems, TLAPS

(* The loops of pairValues and listValue: Nth runs through a set of        *)
(* indices, in order.                                                      *)
UpTo(S, k) == {i \in S : i <= k}

LEMMA IndicesAreFinite ==
    ASSUME NEW n \in Nat, NEW S \in SUBSET (1..n)
    PROVE  /\ IsFiniteSet(S) /\ Cardinality(S) \in Nat
           /\ \A k \in S : k \in Int
<1>1. 1 \in Int /\ n \in Int
  OBVIOUS
<1>2. IsFiniteSet(1..n)
  BY <1>1, FS_Interval
<1>3. IsFiniteSet(S)
  BY <1>2, FS_Subset
<1> QED  BY <1>3, FS_CardinalityType

LEMMA CountsGrow ==
    ASSUME NEW n \in Nat, NEW S \in SUBSET (1..n), NEW k \in S, NEW l \in S, k < l
    PROVE  /\ Cardinality(UpTo(S, k)) \in 1..Cardinality(S)
           /\ Cardinality(UpTo(S, k)) < Cardinality(UpTo(S, l))
<1>1. IsFiniteSet(S)
  BY IndicesAreFinite
<1>2. ASSUME NEW m \in S
      PROVE  /\ IsFiniteSet(UpTo(S, m))
             /\ Cardinality(UpTo(S, m)) \in Nat
             /\ Cardinality(UpTo(S, m)) <= Cardinality(S)
  <2>1. UpTo(S, m) \in SUBSET S
    BY DEF UpTo
  <2> QED  BY <1>1, <2>1, FS_Subset, FS_CardinalityType
<1>3. UpTo(S, k) \in SUBSET UpTo(S, l)
  <2>1. \A i \in S : i \in Int
    BY IndicesAreFinite
  <2>2. \A i \in S : i <= k => i <= l
    BY <2>1
  <2> QED  BY <2>2 DEF UpTo
<1>4. l \in UpTo(S, l) /\ l \notin UpTo(S, k)
  <2>1. k \in Int /\ l \in Int
    BY IndicesAreFinite
  <2> QED  BY <2>1 DEF UpTo
<1>5. k \in UpTo(S, k)
  BY IndicesAreFinite DEF UpTo
<1>6. Cardinality(UpTo(S, k)) <= Cardinality(UpTo(S, l))
      /\ Cardinality(UpTo(S, k)) # Cardinality(UpTo(S, l))
  BY <1>2, <1>3, <1>4, FS_Subset
<1>7. Cardinality(UpTo(S, k)) # 0
  BY <1>2, <1>5, FS_EmptySet
<1>8. Cardinality(S) \in Nat
  BY <1>1, FS_CardinalityType
<1> QED  BY <1>2, <1>6, <1>7, <1>8

LEMMA CountOf ==
    ASSUME NEW n \in Nat, NEW S \in SUBSET (1..n), NEW k \in S
    PROVE  /\ Cardinality(UpTo(S, k)) \in 1..Cardinality(S)
           /\ Cardinality(UpTo(S, k)) \in Nat
           /\ Cardinality(S) \in Nat
<1>1. IsFiniteSet(S)
  BY IndicesAreFinite
<1>2. UpTo(S, k) \in SUBSET S /\ k \in UpTo(S, k)
  BY IndicesAreFinite DEF UpTo
<1>3. Cardinality(S) \in Nat
  BY <1>1, FS_CardinalityType
<1>4. IsFiniteSet(UpTo(S, k)) /\ Cardinality(UpTo(S, k)) <= Cardinality(S)
  BY <1>1, <1>2, FS_Subset
<1>5. Cardinality(UpTo(S, k)) \in Nat
  BY <1>4, FS_CardinalityType
<1>6. Cardinality(UpTo(S, k)) # 0
  BY <1>2, <1>4, FS_EmptySet
<1> QED  BY <1>3, <1>4, <1>5, <1>6

LEMMA NthOfCount ==
    ASSUME NEW n \in Nat, NEW S \in SUBSET (1..n), NEW k \in S
    PROVE  Nth(S, Cardinality(UpTo(S, k))) = k
<1> DEFINE j == Cardinality(UpTo(S, k))
<1>1. \A i \in S : Cardinality(UpTo(S, i)) = j => i = k
  <2> TAKE i \in S
  <2>1. CASE i < k
    <3>1. Cardinality(UpTo(S, i)) < j
      BY <2>1, CountsGrow
    <3>2. Cardinality(UpTo(S, i)) \in Nat
      BY CountOf
    <3> QED  BY <3>1, <3>2
  <2>2. CASE k < i
    <3>1. j < Cardinality(UpTo(S, i))
      BY <2>2, CountsGrow
    <3>2. j \in Nat
      BY CountOf
    <3> QED  BY <3>1, <3>2
  <2> QED  BY <2>1, <2>2, IndicesAreFinite
<1>2. \A i \in S : Cardinality({m \in S : m <= i}) = j <=> i = k
  BY <1>1 DEF UpTo
<1>3. Nth(S, j) = CHOOSE i \in S : Cardinality({m \in S : m <= i}) = j
  BY DEF Nth
<1>4. (CHOOSE i \in S : Cardinality({m \in S : m <= i}) = j) = k
  BY <1>2
<1> QED  BY <1>3, <1>4

LEMMA NthIsMember ==
    ASSUME NEW n \in Nat, NEW S \in SUBSET (1..n), NEW j \in 1..Cardinality(S)
    PROVE  Nth(S, j) \in S /\ Cardinality(UpTo(S, Nth(S, j))) = j
<1> DEFINE f == [k \in S |-> Cardinality(UpTo(S, k))]
           T == 1..Cardinality(S)
<1>1. IsFiniteSet(S)
  BY IndicesAreFinite
<1>2. Cardinality(S) \in Nat
  BY <1>1, FS_CardinalityType
<1>3. f \in Injection(S, T)
  <2>1. f \in [S -> T]
    BY CountOf
  <2>2. \A k, l \in S : f[k] = f[l] => k = l
    BY NthOfCount
  <2> QED  BY <2>1, <2>2 DEF Injection, IsInjective
<1>4. IsFiniteSet(T) /\ Cardinality(T) = Cardinality(S)
  <2>1. IsFiniteSet(T) /\ Cardinality(T) = IF 1 > Cardinality(S) THEN 0 ELSE Cardinality(S) - 1 + 1
    BY <1>2, FS_Interval
  <2> QED  BY <1>2, <2>1
<1>5. f \in Surjection(S, T)
  BY <1>3, <1>4, FS_Injection
<1>6. PICK k \in S : f[k] = j
  BY <1>5 DEF Surjection
<1>7. Nth(S, j) = k
  BY <1>6, NthOfCount
<1> QED  BY <1>6, <1>7

(* The order is that of the numbers. *)
LEMMA NthIsOrdered ==
    ASSUME NEW n \in Nat, NEW S \in SUBSET (1..n),
           NEW i \in 1..Cardinality(S), NEW j \in 1..Cardinality(S), i < j
    PROVE  Nth(S, i) < Nth(S, j)
<1>1. /\ Nth(S, i) \in S /\ Cardinality(UpTo(S, Nth(S, i))) = i
      /\ Nth(S, j) \in S /\ Cardinality(UpTo(S, Nth(S, j))) = j
  BY NthIsMember
<1>2. Cardinality(S) \in Nat
  BY IndicesAreFinite
<1>3. ~(j < i) /\ i # j
  BY <1>2
<1>4. ~(Nth(S, j) < Nth(S, i))
  BY <1>1, <1>3, CountsGrow
<1>5. Nth(S, i) \in Int /\ Nth(S, j) \in Int
  BY <1>1, IndicesAreFinite
<1> QED  BY <1>1, <1>3, <1>4, <1>5

-----------------------------------------------------------------------------

LEMMA Exponents ==
    ASSUME NEW n \in Log2Sizes
    PROVE  n \in Nat /\ 2 ^ n \in Nat /\ IndexSize(n) = IndexBytes(n)
BY ObjectAssumption, PowerAssumption DEF IndexSize, IndexBytes

LEMMA Shape ==
    ASSUME TypeOK
    PROVE  /\ dict.layout \in Layouts /\ dict.log2 \in Nat /\ dict.kind \in 0..2
           /\ dict.hashed \in BOOLEAN /\ dict.split \in BOOLEAN
           /\ dict.entries \in Seq(Entry) /\ dict.values \in Seq(Values \cup {NULL})
           /\ DOMAIN dict.entries = 1..Len(dict.entries) /\ Len(dict.entries) \in Nat
           /\ DOMAIN dict.values = 1..Len(dict.values) /\ Len(dict.values) \in Nat
           /\ DOMAIN items = 1..Len(items) /\ Len(items) \in Nat
           /\ \A k \in DOMAIN dict.entries :
                 KeyAt(k) \in Keys \cup {NULL, Dummy} /\ dict.entries[k].value \in Values \cup {NULL}
           /\ \A j \in DOMAIN items :
                 /\ items[j] = <<items[j][1], items[j][2]>>
                 /\ items[j][1] \in Keys /\ items[j][2] \in Values \cup {NULL}
<1>1. /\ dict.layout \in Layouts /\ dict.log2 \in Nat /\ dict.kind \in 0..2
      /\ dict.hashed \in BOOLEAN /\ dict.split \in BOOLEAN
      /\ dict.entries \in Seq(Entry) /\ dict.values \in Seq(Values \cup {NULL})
  BY DEF TypeOK, DictRecord
<1>2. \A e \in Entry : e.key \in Keys \cup {NULL, Dummy} /\ e.value \in Values \cup {NULL}
  BY DEF Entry
<1>3. \A p \in Keys \X (Values \cup {NULL}) :
         p = <<p[1], p[2]>> /\ p[1] \in Keys /\ p[2] \in Values \cup {NULL}
  OBVIOUS
<1>4. \A k \in DOMAIN dict.entries : dict.entries[k] \in Entry
  BY <1>1
<1>5. \A j \in DOMAIN items : items[j] \in Keys \X (Values \cup {NULL})
  BY DEF TypeOK
<1>6. DOMAIN items = 1..Len(items) /\ Len(items) \in Nat
  BY DEF TypeOK
<1>7. /\ DOMAIN dict.entries = 1..Len(dict.entries) /\ Len(dict.entries) \in Nat
      /\ DOMAIN dict.values = 1..Len(dict.values) /\ Len(dict.values) \in Nat
  BY <1>1
<1> QED  BY <1>1, <1>2, <1>3, <1>4, <1>5, <1>6, <1>7 DEF KeyAt

(* The code finds the entries, and as many as there are. *)
LEMMA FindsAll ==
    ASSUME TypeOK, LaidOut
    PROVE  FindsEntries(dict) /\ TableSize(dict) = Len(dict.entries)
<1>1. dict.layout \in Hashed \/ IndexSize(dict.log2) = dict.indexBytes
  BY Exponents DEF LaidOut
<1>2. dict.hashed = ~(dict.layout = "kinds" /\ dict.kind # 0)
  BY Shape DEF LaidOut
<1> QED  BY <1>1, <1>2 DEF FindsEntries, TableSize, LaidOut

(* The theorem about bounds needs no more than where things lie. *)
LEMMA BoundsFollow == ContentInv => ReadsInBounds
<1> SUFFICES ASSUME ContentInv PROVE InBounds(dict)
  BY DEF ReadsInBounds
<1>1. TableSize(dict) = Len(dict.entries) /\ Len(dict.entries) \in Nat
  BY FindsAll, Shape DEF ContentInv
<1>2. ~IsCombined(dict) => Len(dict.entries) <= Len(dict.values)
  BY DEF ContentInv, LaidOut, IsCombined
<1> QED  BY <1>1, <1>2 DEF InBounds

(* On a dict the loop of pairValues keeps the entries that carry an item,  *)
(* and there are as many of them as items.                                 *)
LEMMA OccupiedCarries ==
    ASSUME ContentInv, ~IsSet(dict)
    PROVE  /\ Occupied(dict) = {k \in DOMAIN dict.entries : Carries(k)}
           /\ Occupied(dict) \in SUBSET (1..Len(dict.entries))
<1>1. TypeOK /\ LaidOut /\ Tidy
  BY DEF ContentInv
<1>2. TableSize(dict) = Len(dict.entries) /\ DOMAIN dict.entries = 1..Len(dict.entries)
  BY <1>1, FindsAll, Shape
<1>3. ASSUME NEW k \in DOMAIN dict.entries, ValueAt(dict, k) # NULL
      PROVE  KeyAt(k) \in Keys
  BY <1>1, <1>3 DEF Tidy
<1>4. \A k \in DOMAIN dict.entries : KeyAt(k) \in Keys => KeyAt(k) # NULL
  BY DictAssumption
<1> QED  BY <1>2, <1>3, <1>4 DEF Occupied, Carries, KeyAt

(* Items and the entries that carry them are one to one. *)
LEMMA OneToOne ==
    ASSUME ContentInv,
           NEW S, S = {k \in DOMAIN dict.entries : Carries(k)}
    PROVE  /\ Cardinality(S) = Len(items)
           /\ S \in SUBSET (1..Len(dict.entries)) /\ Len(dict.entries) \in Nat
<1>1. TypeOK /\ Tidy /\ SamePairs
  BY DEF ContentInv
<1> DEFINE Place(j) == CHOOSE k \in S : KeyAt(k) = items[j][1]
           f == [j \in 1..Len(items) |-> Place(j)]
<1>2. \A j \in 1..Len(items) : \E k \in S : KeyAt(k) = items[j][1]
  BY <1>1, Shape DEF SamePairs
<1>3. \A j \in 1..Len(items) : Place(j) \in S /\ KeyAt(Place(j)) = items[j][1]
  BY <1>2
<1>4. f \in [1..Len(items) -> S]
  BY <1>3
<1>5. \A i, j \in 1..Len(items) : f[i] = f[j] => i = j
  BY <1>1, <1>3, Shape DEF Tidy
<1>6. ASSUME NEW k \in S PROVE \E j \in 1..Len(items) : f[j] = k
  <2>1. PICK j \in DOMAIN items : items[j] = <<KeyAt(k), ValueAt(dict, k)>>
    BY <1>1, <1>6 DEF SamePairs
  <2>2. j \in 1..Len(items) /\ items[j][1] = KeyAt(k) /\ KeyAt(k) \in Keys
    BY <1>1, <1>6, <2>1, Shape DEF Carries
  <2>3. Place(j) = k
    BY <1>1, <1>3, <2>2 DEF Tidy
  <2> QED  BY <2>2, <2>3
<1>7. f \in Bijection(1..Len(items), S)
  BY <1>4, <1>5, <1>6 DEF Bijection, Injection, Surjection, IsInjective
<1>8. ExistsBijection(1..Len(items), S)
  BY <1>7 DEF ExistsBijection
<1>9. Len(items) \in Nat
  BY <1>1, Shape
<1> QED  BY <1>1, <1>8, <1>9, Shape, FS_CountingElements

LEMMA MappingFollows == ContentInv => ListsTheMapping
<1> SUFFICES ASSUME ContentInv, ~IsSet(dict)
             PROVE  /\ Len(PairValues(dict)) = Len(items)
                    /\ {PairValues(dict)[j] : j \in DOMAIN PairValues(dict)}
                         = {items[j] : j \in DOMAIN items}
  BY DEF ListsTheMapping
<1> DEFINE S == Occupied(dict)
           n == Len(dict.entries)
           Pair(k) == <<KeyAt(k), ValueAt(dict, k)>>
<1>1. TypeOK /\ LaidOut /\ SamePairs
  BY DEF ContentInv
<1>2. S = {k \in DOMAIN dict.entries : Carries(k)}
  BY OccupiedCarries
<1>3. Cardinality(S) = Len(items) /\ S \in SUBSET (1..n) /\ n \in Nat
  BY <1>2, OneToOne
<1>4. PairValues(dict) = [j \in 1..Len(items) |-> Pair(Nth(S, j))]
  BY <1>1, <1>3, FindsAll DEF PairValues, KeyAt
<1>5. Len(items) \in Nat /\ DOMAIN items = 1..Len(items)
  BY <1>1, Shape
<1>6. Len(PairValues(dict)) = Len(items) /\ DOMAIN PairValues(dict) = 1..Len(items)
  BY <1>4, <1>5
<1>7. ASSUME NEW j \in 1..Len(items)
      PROVE  \E i \in DOMAIN items : items[i] = PairValues(dict)[j]
  <2>1. Nth(S, j) \in S
    BY <1>3, NthIsMember
  <2>2. \E i \in DOMAIN items : items[i] = Pair(Nth(S, j))
    BY <1>1, <1>2, <2>1 DEF SamePairs
  <2> QED  BY <1>4, <2>2
<1>8. ASSUME NEW i \in DOMAIN items
      PROVE  \E j \in 1..Len(items) : PairValues(dict)[j] = items[i]
  <2>1. PICK k \in S : items[i] = Pair(k)
    BY <1>1, <1>2 DEF SamePairs
  <2>2. Cardinality(UpTo(S, k)) \in 1..Len(items)
    BY <1>3, CountOf
  <2>3. Nth(S, Cardinality(UpTo(S, k))) = k
    BY <1>3, NthOfCount
  <2> QED  BY <1>4, <2>1, <2>2, <2>3
<1> DEFINE pairs == PairValues(dict)
<1> HIDE DEF pairs
<1>9. {pairs[j] : j \in DOMAIN pairs} = {items[j] : j \in DOMAIN items}
  <2>1. DOMAIN pairs = 1..Len(items)
    BY <1>6 DEF pairs
  <2>2. \A j \in 1..Len(items) : \E i \in DOMAIN items : items[i] = pairs[j]
    BY <1>7 DEF pairs
  <2>3. \A i \in DOMAIN items : \E j \in 1..Len(items) : pairs[j] = items[i]
    BY <1>8 DEF pairs
  <2> QED  BY <2>1, <2>2, <2>3
<1> QED  BY <1>6, <1>9 DEF pairs

LEMMA OrderFollows == ContentInv => ListsInOrder
<1> SUFFICES ASSUME ContentInv, KeepsOrder(dict)
             PROVE  PairValues(dict) = items
  BY DEF ListsInOrder
<1> DEFINE S == Occupied(dict)
           n == Len(dict.entries)
           Pair(k) == <<KeyAt(k), ValueAt(dict, k)>>
<1>1. TypeOK /\ LaidOut /\ Tidy /\ SamePairs /\ SameOrder
  BY DEF ContentInv
<1>2. S = {k \in DOMAIN dict.entries : Carries(k)}
  BY OccupiedCarries DEF KeepsOrder, IsSet, SetLayouts
<1>3. Cardinality(S) = Len(items) /\ S \in SUBSET (1..n) /\ n \in Nat
  BY <1>2, OneToOne
<1>4. PairValues(dict) = [j \in 1..Len(items) |-> Pair(Nth(S, j))]
  BY <1>1, <1>3, FindsAll DEF PairValues, KeyAt
<1>5. Len(items) \in Nat /\ DOMAIN items = 1..Len(items)
  BY <1>1, Shape
<1>6. PICK place \in [1..Len(items) -> S] :
               \A j \in 1..Len(items) : items[j] = Pair(place[j])
  <2> DEFINE Q(j) == CHOOSE k \in S : items[j] = Pair(k)
  <2>1. \A j \in 1..Len(items) : Q(j) \in S /\ items[j] = Pair(Q(j))
    BY <1>1, <1>2, <1>5 DEF SamePairs
  <2> HIDE DEF Q
  <2>2. [j \in 1..Len(items) |-> Q(j)] \in [1..Len(items) -> S]
    BY <2>1
  <2> QED  BY <2>1, <2>2
<1>7. \A i, j \in 1..Len(items) : i < j => place[i] < place[j]
  BY <1>1, <1>2, <1>5, <1>6 DEF SameOrder
(* The first i items are carried by as many entries, which are the first.  *)
<1>8. ASSUME NEW i \in 1..Len(items)
      PROVE  Cardinality(UpTo(S, place[i])) = i
  <2> DEFINE f == [j \in 1..i |-> place[j]]
             T == UpTo(S, place[i])
  <2>1. i \in Nat /\ 1..i \subseteq 1..Len(items)
    BY <1>5
  <2>2. \A j \in 1..i : place[j] \in T
    <3>1. ASSUME NEW j \in 1..i PROVE place[j] <= place[i]
      <4>1. j = i \/ j < i
        BY <2>1
      <4>2. place[i] \in Int /\ place[j] \in Int
        BY <1>3, <1>6, <2>1
      <4> QED  BY <1>7, <2>1, <4>1, <4>2
    <3> QED  BY <1>6, <2>1, <3>1 DEF UpTo
  <2>3. \A j, l \in 1..i : place[j] = place[l] => j = l
    <3>1. ASSUME NEW j \in 1..i, NEW l \in 1..i, place[j] = place[l] PROVE j = l
      <4>1. ~(j < l) /\ ~(l < j)
        <5>1. place[j] \in Int
          BY <1>3, <1>6, <2>1
        <5> QED  BY <1>7, <2>1, <3>1, <5>1
      <4> QED  BY <2>1, <4>1
    <3> QED  BY <3>1
  <2>4. \A k \in T : \E j \in 1..i : place[j] = k
    <3>1. ASSUME NEW k \in T PROVE \E j \in 1..i : place[j] = k
      <4>1. k \in S /\ k <= place[i]
        BY DEF UpTo
      <4>2. PICK j \in 1..Len(items) : items[j] = Pair(k)
        BY <1>1, <1>2, <1>5, <4>1 DEF SamePairs
      <4>3. place[j] = k
        <5>1. KeyAt(place[j]) = KeyAt(k) /\ KeyAt(k) \in Keys
          BY <1>2, <1>6, <4>1, <4>2 DEF Carries
        <5> QED  BY <1>1, <1>2, <1>6, <4>1, <5>1 DEF Tidy
      <4>4. ~(i < j)
        <5>1. place[i] \in Int /\ k \in Int
          BY <1>3, <1>6, <4>1
        <5> QED  BY <1>7, <4>1, <4>3, <5>1
      <4> QED  BY <2>1, <4>3, <4>4
    <3> QED  BY <3>1
  <2>5. f \in Bijection(1..i, T)
    BY <2>2, <2>3, <2>4 DEF Bijection, Injection, Surjection, IsInjective
  <2> QED  BY <2>1, <2>5, FS_CountingElements DEF ExistsBijection
<1>9. \A i \in 1..Len(items) : PairValues(dict)[i] = items[i]
  <2> TAKE i \in 1..Len(items)
  <2>1. place[i] \in S
    BY <1>6
  <2>2. Nth(S, i) = place[i]
    BY <1>3, <1>8, <2>1, NthOfCount
  <2> QED  BY <1>4, <1>6, <2>2
<1>10. items = [j \in 1..Len(items) |-> items[j]]
  BY <1>1, <1>5 DEF TypeOK
<1> QED  BY <1>4, <1>9, <1>10

LEMMA MembersFollow == ContentInv => ListsTheMembers
<1> SUFFICES ASSUME ContentInv, IsSet(dict)
             PROVE  ListsTheMembers
  BY DEF ListsTheMembers
<1> DEFINE S == Listed(dict)
           n == Len(dict.entries)
           At(x) == {j \in DOMAIN ListValue(dict) : ListValue(dict)[j] = x}
<1>1. TypeOK /\ LaidOut /\ Tidy /\ SamePairs
  BY DEF ContentInv
<1>2. /\ S = {k \in 1..n : KeyAt(k) \notin {NULL, GetDummyPtr(dict)}}
      /\ DOMAIN dict.entries = 1..n /\ n \in Nat
  BY <1>1, FindsAll, Shape DEF Listed, KeyAt
<1>3. S \in SUBSET (1..n)
  BY <1>2
<1>4. Cardinality(S) \in Nat
  BY <1>2, <1>3, IndicesAreFinite
<1>5. /\ DOMAIN ListValue(dict) = 1..Cardinality(S)
      /\ \A j \in 1..Cardinality(S) : ListValue(dict)[j] = KeyAt(Nth(S, j))
  BY DEF ListValue, KeyAt
<1>6. ASSUME NEW x \in Keys
      PROVE  Cardinality(At(x)) = IF x \in KeysOf(items) THEN 1 ELSE 0
  <2>1. CASE x \in KeysOf(items)
    <3>1. PICK k \in DOMAIN dict.entries : KeyAt(k) = x
      BY <1>1, <2>1 DEF KeysOf, SamePairs
    <3>2. k \in S
      BY <1>2, <3>1, DictAssumption DEF GetDummyPtr
    <3> DEFINE c == Cardinality(UpTo(S, k))
    <3>3. c \in 1..Cardinality(S) /\ Nth(S, c) = k
      BY <1>2, <1>3, <3>2, CountOf, NthOfCount
    <3>4. ASSUME NEW j \in 1..Cardinality(S), KeyAt(Nth(S, j)) = x PROVE j = c
      <4>1. Nth(S, j) \in S /\ Cardinality(UpTo(S, Nth(S, j))) = j
        BY <1>2, <1>3, NthIsMember
      <4>2. Nth(S, j) = k
        BY <1>1, <1>2, <3>1, <3>4, <4>1 DEF Tidy
      <4> QED  BY <4>1, <4>2
    <3>5. At(x) = {c}
      BY <1>5, <3>1, <3>3, <3>4
    <3> QED  BY <2>1, <3>5, FS_Singleton
  <2>2. CASE x \notin KeysOf(items)
    <3>1. ASSUME NEW j \in 1..Cardinality(S), KeyAt(Nth(S, j)) = x PROVE FALSE
      <4>1. Nth(S, j) \in DOMAIN dict.entries
        BY <1>2, <1>3, NthIsMember
      <4>2. Carries(Nth(S, j))
        BY <3>1 DEF Carries
      <4>3. \E i \in DOMAIN items : items[i][1] = x
        BY <1>1, <3>1, <4>1, <4>2 DEF SamePairs
      <4> QED  BY <2>2, <4>3 DEF KeysOf
    <3>2. At(x) = {}
      BY <1>5, <3>1
    <3> QED  BY <2>2, <3>2, FS_EmptySet
  <2> QED  BY <2>1, <2>2
<1>7. ASSUME NEW j \in DOMAIN ListValue(dict)
      PROVE  ListValue(dict)[j] \in IF DummyIsKnown(dict) THEN Keys ELSE Keys \cup {Dummy}
  <2>1. Nth(S, j) \in S /\ Nth(S, j) \in DOMAIN dict.entries
    BY <1>2, <1>3, <1>5, NthIsMember
  <2>2. KeyAt(Nth(S, j)) \in Keys \cup {Dummy}
    BY <1>1, <1>2, <2>1, Shape
  <2>3. DummyIsKnown(dict) => GetDummyPtr(dict) = Dummy
    BY DEF DummyIsKnown, GetDummyPtr, IsSet, SetLayouts
  <2> QED  BY <1>2, <1>5, <2>1, <2>2, <2>3
<1> QED  BY <1>6, <1>7 DEF ListsTheMembers

-----------------------------------------------------------------------------

(* What an entry put into a free slot changes. *)
SameFrame(d, e) ==
    /\ e.layout = d.layout /\ e.log2 = d.log2 /\ e.indexBytes = d.indexBytes
    /\ e.kind = d.kind /\ e.hashed = d.hashed /\ e.split = d.split

LEMMA PutChanges ==
    ASSUME NEW d \in DictRecord, NEW k \in FreeSlots(d), NEW e \in Entry,
           NEW p, p = Put(d, k, e)
    PROVE  /\ p \in DictRecord /\ SameFrame(d, p) /\ p.values = d.values
           /\ DOMAIN p.entries = DOMAIN d.entries \cup {k} /\ p.entries[k] = e
           /\ \A l \in DOMAIN d.entries : l # k => p.entries[l] = d.entries[l]
           /\ Len(p.entries) = IF k \in DOMAIN d.entries THEN Len(d.entries) ELSE k
           /\ k \in DOMAIN d.entries \/ (k = Len(d.entries) + 1 /\ d.layout \notin Hashed
                                        /\ k <= MaxEntries)
<1>1. d.entries \in Seq(Entry) /\ DOMAIN d.entries = 1..Len(d.entries) /\ Len(d.entries) \in Nat
  BY DEF DictRecord
<1>2. k \in DOMAIN d.entries \/ (k = Len(d.entries) + 1 /\ d.layout \notin Hashed
                               /\ k <= MaxEntries)
  BY <1>1, ObjectAssumption DEF FreeSlots
<1>3. CASE k \in DOMAIN d.entries
  <2>1. p = [d EXCEPT !.entries = [d.entries EXCEPT ![k] = e]]
    BY <1>3 DEF Put
  <2>2. [d.entries EXCEPT ![k] = e] \in Seq(Entry)
        /\ Len([d.entries EXCEPT ![k] = e]) = Len(d.entries)
    BY <1>1, <1>3
  <2>3. p \in DictRecord /\ SameFrame(d, p) /\ p.values = d.values
        /\ p.entries = [d.entries EXCEPT ![k] = e]
    BY <2>1, <2>2 DEF DictRecord, SameFrame
  <2> QED  BY <1>1, <1>3, <2>2, <2>3
<1>4. CASE k \notin DOMAIN d.entries
  <2>1. p = [d EXCEPT !.entries = Append(d.entries, e)]
    BY <1>4 DEF Put
  <2>2. /\ Append(d.entries, e) \in Seq(Entry)
        /\ Len(Append(d.entries, e)) = Len(d.entries) + 1
        /\ DOMAIN Append(d.entries, e) = 1..(Len(d.entries) + 1)
        /\ \A l \in 1..Len(d.entries) : Append(d.entries, e)[l] = d.entries[l]
        /\ Append(d.entries, e)[Len(d.entries) + 1] = e
    BY <1>1, AppendProperties
  <2>3. p \in DictRecord /\ SameFrame(d, p) /\ p.values = d.values
        /\ p.entries = Append(d.entries, e)
    BY <2>1, <2>2 DEF DictRecord, SameFrame
  <2>4. 1..(Len(d.entries) + 1) = (1..Len(d.entries)) \cup {Len(d.entries) + 1}
    BY <1>1
  <2> QED  BY <1>1, <1>2, <1>4, <2>2, <2>3, <2>4
<1> QED  BY <1>3, <1>4

(* An item appended to the others. *)
LEMMA ItemAppended ==
    ASSUME TypeOK, NEW x \in Keys, NEW w \in Values \cup {NULL},
           items' = Append(items, <<x, w>>)
    PROVE  /\ items' \in Seq(Keys \X (Values \cup {NULL}))
           /\ DOMAIN items' = DOMAIN items \cup {Len(items) + 1}
           /\ Len(items) + 1 \notin DOMAIN items
           /\ items'[Len(items) + 1] = <<x, w>>
           /\ \A j \in DOMAIN items : items'[j] = items[j] /\ j < Len(items) + 1
           /\ Len(items) + 1 \in Int
<1> DEFINE I == Keys \X (Values \cup {NULL})
<1>1. items \in Seq(I) /\ <<x, w>> \in I /\ Len(items) \in Nat /\ DOMAIN items = 1..Len(items)
  BY DEF TypeOK
<1>2. /\ Append(items, <<x, w>>) \in Seq(I)
      /\ DOMAIN Append(items, <<x, w>>) = 1..(Len(items) + 1)
      /\ \A l \in 1..Len(items) : Append(items, <<x, w>>)[l] = items[l]
      /\ Append(items, <<x, w>>)[Len(items) + 1] = <<x, w>>
  BY <1>1, AppendProperties
<1>3. 1..(Len(items) + 1) = (1..Len(items)) \cup {Len(items) + 1}
  BY <1>1
<1> QED  BY <1>1, <1>2, <1>3

(* A new item and the entry that carries it, whichever way it got there.   *)
Gains(k, x, w) ==
    /\ dict'.layout = dict.layout /\ dict'.split = dict.split
    /\ DOMAIN dict'.entries = DOMAIN dict.entries \cup {k}
    /\ KeyAt(k)' = x /\ ValueAt(dict, k)' = w
    /\ w = NULL <=> IsSet(dict)
    /\ k \in DOMAIN dict.entries => ~Carries(k)
    /\ \A l \in DOMAIN dict.entries : l # k =>
          KeyAt(l)' = KeyAt(l) /\ KeyAt(l) # x /\ ValueAt(dict, l)' = ValueAt(dict, l)
    /\ KeepsOrder(dict) => \A l \in DOMAIN dict.entries : KeyAt(l) \in KeysOf(items) => l < k
    /\ dict.layout = "compact" /\ dict.split => k = Len(items) + 1
    /\ items' = Append(items, <<x, w>>)

LEMMA GainKeeps ==
    ASSUME TypeOK, Tidy, SamePairs, SameOrder, NEW k, NEW x \in Keys,
           NEW w \in Values \cup {NULL}, x \notin KeysOf(items), Gains(k, x, w)
    PROVE  Tidy' /\ SamePairs' /\ SameOrder'
<1> DEFINE m == Len(items) + 1
<1>1. /\ DOMAIN items' = DOMAIN items \cup {m} /\ m \notin DOMAIN items
      /\ items'[m] = <<x, w>> /\ m \in Int
      /\ \A j \in DOMAIN items : items'[j] = items[j] /\ j < m
  BY ItemAppended DEF Gains
<1> HIDE DEF m
<1>2. /\ dict'.split = dict.split /\ IsSet(dict') = IsSet(dict) /\ KeepsOrder(dict') = KeepsOrder(dict)
      /\ dict'.layout = dict.layout
  BY DEF Gains, IsSet, KeepsOrder
<1>3. /\ DOMAIN dict'.entries = DOMAIN dict.entries \cup {k}
      /\ KeyAt(k)' = x /\ ValueAt(dict', k) = w
      /\ w = NULL <=> IsSet(dict)
  BY DEF Gains
<1>4. \A l \in DOMAIN dict.entries : l # k =>
         /\ KeyAt(l)' = KeyAt(l) /\ KeyAt(l) # x /\ ValueAt(dict', l) = ValueAt(dict, l)
         /\ Carries(l)' <=> Carries(l)
  BY <1>2 DEF Gains, Carries
<1>5. Carries(k)'
  BY <1>2, <1>3 DEF Carries
<1>6. Tidy'
  <2>1. ASSUME NEW l \in DOMAIN dict'.entries
        PROVE  /\ KeyAt(l)' \notin Keys \/ IsSet(dict') => ValueAt(dict', l) = NULL
               /\ KeyAt(l)' \in Keys /\ ~dict'.split => Carries(l)'
    BY <1>2, <1>3, <1>4, <1>5 DEF Tidy
  <2>2. ASSUME NEW i \in DOMAIN dict'.entries, NEW l \in DOMAIN dict'.entries,
               KeyAt(i)' \in Keys, KeyAt(i)' = KeyAt(l)'
        PROVE  i = l
    BY <1>3, <1>4, <2>2 DEF Tidy
  <2>3. ASSUME NEW i \in DOMAIN items', NEW j \in DOMAIN items', items'[i][1] = items'[j][1]
        PROVE  i = j
    BY <1>1, <2>3 DEF Tidy, KeysOf
  <2> QED  BY <2>1, <2>2, <2>3 DEF Tidy
<1>7. SamePairs'
  <2>1. ASSUME NEW j \in DOMAIN items'
        PROVE  \E l \in DOMAIN dict'.entries :
                  Carries(l)' /\ items'[j] = <<KeyAt(l)', ValueAt(dict', l)>>
    <3>1. CASE j = m
      BY <1>1, <1>3, <1>5, <3>1
    <3>2. CASE j \in DOMAIN items
      <4>1. PICK l \in DOMAIN dict.entries :
                   Carries(l) /\ items[j] = <<KeyAt(l), ValueAt(dict, l)>>
        BY <3>2 DEF SamePairs
      <4>2. l # k
        BY <4>1 DEF Gains
      <4> QED  BY <1>1, <1>3, <1>4, <3>2, <4>1, <4>2
    <3> QED  BY <1>1, <3>1, <3>2
  <2>2. ASSUME NEW l \in DOMAIN dict'.entries, Carries(l)'
        PROVE  \E j \in DOMAIN items' : items'[j] = <<KeyAt(l)', ValueAt(dict', l)>>
    <3>1. CASE l = k
      BY <1>1, <1>3, <3>1
    <3>2. CASE l # k
      <4>1. PICK j \in DOMAIN items : items[j] = <<KeyAt(l), ValueAt(dict, l)>>
        BY <1>3, <1>4, <2>2, <3>2 DEF SamePairs
      <4> QED  BY <1>1, <1>3, <1>4, <3>2, <4>1
    <3> QED  BY <3>1, <3>2
  <2> QED  BY <2>1, <2>2 DEF SamePairs
<1>8. SameOrder'
  <2>1. ASSUME NEW i \in DOMAIN items', NEW j \in DOMAIN items',
               NEW l \in DOMAIN dict'.entries, NEW h \in DOMAIN dict'.entries,
               KeyAt(l)' = items'[i][1], KeyAt(h)' = items'[j][1]
        PROVE  /\ KeepsOrder(dict) /\ i < j => l < h
               /\ dict.layout = "compact" /\ dict.split => l = i
    <3>1. i \in DOMAIN items => l # k /\ KeyAt(l) = items[i][1]
      BY <1>1, <1>3, <1>4, <2>1 DEF KeysOf
    <3>2. j \in DOMAIN items => h # k /\ KeyAt(h) = items[j][1]
      BY <1>1, <1>3, <1>4, <2>1 DEF KeysOf
    <3>3. i = m => l = k
      BY <1>1, <1>3, <1>4, <2>1
    <3>4. j = m => h = k
      BY <1>1, <1>3, <1>4, <2>1
    <3>5. CASE i \in DOMAIN items /\ j \in DOMAIN items
      BY <1>3, <3>1, <3>2, <3>5 DEF SameOrder
    <3>6. CASE i \in DOMAIN items /\ j = m
      <4>1. l \in DOMAIN dict.entries /\ KeyAt(l) \in KeysOf(items)
        BY <1>3, <3>1, <3>6 DEF KeysOf
      <4>2. KeepsOrder(dict) => l < k
        BY <4>1 DEF Gains
      <4>3. dict.layout = "compact" /\ dict.split => l = i
        BY <3>1, <3>6, <4>1 DEF SameOrder
      <4> QED  BY <3>4, <3>6, <4>2, <4>3
    <3>7. CASE i = m
      <4>1. ~(i < j)
        <5>1. items \in Seq(Keys \X (Values \cup {NULL}))
          BY DEF TypeOK
        <5>2. \A q \in DOMAIN items : q \in Int
          BY <5>1
        <5> QED  BY <1>1, <3>7, <5>2
      <4>2. dict.layout = "compact" /\ dict.split => k = m
        BY DEF Gains, m
      <4> QED  BY <3>3, <3>7, <4>1, <4>2
    <3> QED  BY <1>1, <3>5, <3>6, <3>7
  <2> QED  BY <1>2, <2>1 DEF SameOrder
<1> QED  BY <1>6, <1>7, <1>8

(* An item that goes, and with it what its entry carries. *)
Loses(k, m) ==
    /\ dict'.layout = dict.layout /\ dict'.split = dict.split
    /\ DOMAIN dict'.entries = DOMAIN dict.entries
    /\ ValueAt(dict, k)' = NULL /\ ~Carries(k)'
    /\ KeyAt(k)' = KeyAt(k) \/ KeyAt(k)' \notin Keys
    /\ KeyAt(k)' \in Keys => dict.split
    /\ \A l \in DOMAIN dict.entries : l # k =>
          KeyAt(l)' = KeyAt(l) /\ ValueAt(dict, l)' = ValueAt(dict, l)
    /\ KeyAt(k) = items[m][1]
    /\ ~(dict.split /\ dict.layout = "compact")
    /\ items' = Without(items, m)

LEMMA ItemRemoved ==
    ASSUME TypeOK, NEW m \in DOMAIN items, items' = Without(items, m)
    PROVE  /\ items' \in Seq(Keys \X (Values \cup {NULL}))
           /\ DOMAIN items \subseteq Int
           /\ \A i \in DOMAIN items' : \E j \in DOMAIN items : j # m /\ items'[i] = items[j]
           /\ \A j \in DOMAIN items : j # m => \E i \in DOMAIN items' : items'[i] = items[j]
           /\ \A i, j \in DOMAIN items' : i < j =>
                 \E g, h \in DOMAIN items : /\ g < h /\ g # m /\ h # m
                                           /\ items'[i] = items[g] /\ items'[j] = items[h]
<1> DEFINE I == Keys \X (Values \cup {NULL})
           n == Len(items)
           At(i) == IF i < m THEN i ELSE i + 1
<1>1. items \in Seq(I) /\ n \in Nat /\ DOMAIN items = 1..n /\ m \in 1..n
  BY DEF TypeOK
<1>2. items' = [i \in 1..n - 1 |-> items[At(i)]]
  BY DEF Without
<1>3. \A i \in 1..n - 1 : At(i) \in 1..n /\ At(i) # m
  BY <1>1
<1>4. \A i, j \in 1..n - 1 : i < j => At(i) < At(j)
  BY <1>1
<1>5. \A j \in 1..n : j # m => \E i \in 1..n - 1 : At(i) = j
  <2>1. ASSUME NEW j \in 1..n, j < m PROVE j \in 1..n - 1 /\ At(j) = j
    BY <1>1, <2>1
  <2>2. ASSUME NEW j \in 1..n, m < j PROVE j - 1 \in 1..n - 1 /\ At(j - 1) = j
    BY <1>1, <2>2
  <2> QED  BY <1>1, <2>1, <2>2
<1>6. n - 1 \in Nat
  BY <1>1
<1> HIDE DEF At
<1>7. DOMAIN items' = 1..n - 1 /\ \A i \in 1..n - 1 : items'[i] = items[At(i)]
  BY <1>2
<1>8. items' \in Seq(I)
  <2>1. \A i \in 1..n - 1 : items[At(i)] \in I
    BY <1>1, <1>3
  <2>2. items' \in [1..n - 1 -> I]
    BY <1>2, <2>1
  <2> QED  BY <1>6, <2>2, SeqDef
<1>9. \A i \in DOMAIN items' : \E j \in DOMAIN items : j # m /\ items'[i] = items[j]
  BY <1>1, <1>3, <1>7
<1>10. \A j \in DOMAIN items : j # m => \E i \in DOMAIN items' : items'[i] = items[j]
  BY <1>1, <1>5, <1>7
<1>11. ASSUME NEW i \in DOMAIN items', NEW j \in DOMAIN items', i < j
       PROVE  \E g, h \in DOMAIN items : /\ g < h /\ g # m /\ h # m
                                        /\ items'[i] = items[g] /\ items'[j] = items[h]
  <2>1. i \in 1..n - 1 /\ j \in 1..n - 1
    BY <1>7
  <2>2. At(i) < At(j) /\ At(i) \in DOMAIN items /\ At(j) \in DOMAIN items
        /\ At(i) # m /\ At(j) # m
    BY <1>1, <1>3, <1>4, <1>11, <2>1
  <2> QED  BY <1>7, <2>1, <2>2
<1>12. DOMAIN items \subseteq Int
  BY <1>1
<1> QED  BY <1>8, <1>9, <1>10, <1>11, <1>12

LEMMA LossKeeps ==
    ASSUME TypeOK, Tidy, SamePairs, SameOrder,
           NEW k \in DOMAIN dict.entries, NEW m \in DOMAIN items, Loses(k, m)
    PROVE  Tidy' /\ SamePairs' /\ SameOrder'
<1>1. /\ \A i \in DOMAIN items' : \E j \in DOMAIN items : j # m /\ items'[i] = items[j]
      /\ \A j \in DOMAIN items : j # m => \E i \in DOMAIN items' : items'[i] = items[j]
      /\ \A i, j \in DOMAIN items' : i < j =>
            \E g, h \in DOMAIN items : /\ g < h /\ g # m /\ h # m
                                      /\ items'[i] = items[g] /\ items'[j] = items[h]
      /\ DOMAIN items' \subseteq Int
  <2>1. items' = Without(items, m)
    BY DEF Loses
  <2>2. items' \in Seq(Keys \X (Values \cup {NULL}))
    BY <2>1, ItemRemoved
  <2>3. DOMAIN items' \subseteq Int
    BY <2>2
  <2> QED  BY <2>1, <2>3, ItemRemoved
<1>2. /\ dict'.split = dict.split /\ IsSet(dict') = IsSet(dict) /\ KeepsOrder(dict') = KeepsOrder(dict)
      /\ dict'.layout = dict.layout /\ DOMAIN dict'.entries = DOMAIN dict.entries
      /\ ~(dict.split /\ dict.layout = "compact")
  BY DEF Loses, IsSet, KeepsOrder
<1>3. /\ ValueAt(dict', k) = NULL /\ ~Carries(k)'
      /\ KeyAt(k)' = KeyAt(k) \/ KeyAt(k)' \notin Keys
      /\ KeyAt(k)' \in Keys => dict.split
      /\ KeyAt(k) = items[m][1] /\ items[m][1] \in Keys
  BY Shape DEF Loses
<1>4. \A l \in DOMAIN dict.entries : l # k =>
         /\ KeyAt(l)' = KeyAt(l) /\ ValueAt(dict', l) = ValueAt(dict, l)
         /\ Carries(l)' <=> Carries(l)
  BY <1>2 DEF Loses, Carries
<1>5. Tidy'
  <2>1. ASSUME NEW l \in DOMAIN dict'.entries
        PROVE  /\ KeyAt(l)' \notin Keys \/ IsSet(dict') => ValueAt(dict', l) = NULL
               /\ KeyAt(l)' \in Keys /\ ~dict'.split => Carries(l)'
    BY <1>2, <1>3, <1>4 DEF Tidy
  <2>2. ASSUME NEW i \in DOMAIN dict'.entries, NEW l \in DOMAIN dict'.entries,
               KeyAt(i)' \in Keys, KeyAt(i)' = KeyAt(l)'
        PROVE  i = l
    BY <1>2, <1>3, <1>4, <2>2 DEF Tidy
  <2>3. ASSUME NEW i \in DOMAIN items', NEW j \in DOMAIN items', items'[i][1] = items'[j][1]
        PROVE  i = j
    <3>1. ~(i < j) /\ ~(j < i)
      <4>1. ASSUME NEW p \in DOMAIN items', NEW q \in DOMAIN items', p < q
            PROVE  items'[p][1] # items'[q][1]
        <5>1. PICK g, h \in DOMAIN items : g < h /\ items'[p] = items[g] /\ items'[q] = items[h]
          BY <1>1, <4>1
        <5>2. g # h
          <6>1. g \in Int /\ h \in Int
            BY Shape
          <6> QED  BY <5>1, <6>1
        <5> QED  BY <5>1, <5>2 DEF Tidy
      <4> QED  BY <2>3, <4>1
    <3>2. i \in Int /\ j \in Int
      BY <1>1
    <3> QED  BY <3>1, <3>2
  <2> QED  BY <2>1, <2>2, <2>3 DEF Tidy
<1>6. SamePairs'
  <2>1. ASSUME NEW i \in DOMAIN items'
        PROVE  \E l \in DOMAIN dict'.entries :
                  Carries(l)' /\ items'[i] = <<KeyAt(l)', ValueAt(dict', l)>>
    <3>1. PICK j \in DOMAIN items : j # m /\ items'[i] = items[j]
      BY <1>1
    <3>2. PICK l \in DOMAIN dict.entries :
                 Carries(l) /\ items[j] = <<KeyAt(l), ValueAt(dict, l)>>
      BY DEF SamePairs
    <3>3. l # k
      BY <1>3, <3>1, <3>2 DEF Tidy
    <3> QED  BY <1>2, <1>4, <3>1, <3>2, <3>3
  <2>2. ASSUME NEW l \in DOMAIN dict'.entries, Carries(l)'
        PROVE  \E i \in DOMAIN items' : items'[i] = <<KeyAt(l)', ValueAt(dict', l)>>
    <3>1. l # k
      BY <1>3, <2>2
    <3>2. PICK j \in DOMAIN items : items[j] = <<KeyAt(l), ValueAt(dict, l)>>
      BY <1>2, <1>4, <2>2, <3>1 DEF SamePairs
    <3>3. j # m
      <4>1. items[j][1] = KeyAt(l) /\ items[j][1] \in Keys
        BY <3>2, Shape
      <4> QED  BY <1>2, <1>3, <3>1, <4>1 DEF Tidy
    <3> QED  BY <1>1, <1>2, <1>4, <3>1, <3>2, <3>3
  <2> QED  BY <2>1, <2>2 DEF SamePairs
<1>7. SameOrder'
  <2>1. ASSUME NEW i \in DOMAIN items', NEW j \in DOMAIN items',
               NEW l \in DOMAIN dict'.entries, NEW h \in DOMAIN dict'.entries,
               KeyAt(l)' = items'[i][1], KeyAt(h)' = items'[j][1], KeepsOrder(dict), i < j
        PROVE  l < h
    <3>1. PICK p, q \in DOMAIN items : p < q /\ items'[i] = items[p] /\ items'[j] = items[q]
      BY <1>1, <2>1
    <3>2. items[p][1] \in Keys /\ items[q][1] \in Keys
      BY Shape
    <3>3. KeyAt(l) = items[p][1] /\ KeyAt(h) = items[q][1]
      BY <1>2, <1>3, <1>4, <2>1, <3>1, <3>2
    <3> QED  BY <1>2, <2>1, <3>1, <3>3 DEF SameOrder
  <2> QED  BY <1>2, <2>1 DEF SameOrder
<1> QED  BY <1>5, <1>6, <1>7

-----------------------------------------------------------------------------

(* A key that no item has is in no entry that carries one. *)
LEMMA Absent ==
    ASSUME TypeOK, Tidy, SamePairs, NEW x \in Keys, x \notin KeysOf(items)
    PROVE  \A l \in DOMAIN dict.entries : KeyAt(l) = x => ~Carries(l) /\ dict.split
<1>1. ASSUME NEW l \in DOMAIN dict.entries, KeyAt(l) = x, Carries(l) PROVE FALSE
  <2>1. PICK j \in DOMAIN items : items[j] = <<KeyAt(l), ValueAt(dict, l)>>
    BY <1>1 DEF SamePairs
  <2>2. items[j][1] = x
    BY <1>1, <2>1
  <2> QED  BY <2>2 DEF KeysOf
<1> QED  BY <1>1, Shape DEF Tidy

(* Free slots carry nothing, and behind the last entry comes only one.     *)
LEMMA FreeSlot ==
    ASSUME TypeOK, LaidOut, NEW k \in FreeSlots(dict)
    PROVE  /\ k \in DOMAIN dict.entries => ~Carries(k) /\ KeyAt(k) \notin Keys
           /\ dict.layout \notin Hashed => \A l \in DOMAIN dict.entries : l < k
<1>1. k \in DOMAIN dict.entries => KeyAt(k) \notin Keys
  <2>1. CASE dict.layout \in Hashed
    BY <2>1, DictAssumption DEF FreeSlots, KeyAt
  <2>2. CASE dict.layout \notin Hashed
    <3>1. k = Len(dict.entries) + 1
      BY <2>2 DEF FreeSlots
    <3> QED  BY <3>1, Shape
  <2> QED  BY <2>1, <2>2
<1>2. ASSUME dict.layout \notin Hashed, NEW l \in DOMAIN dict.entries PROVE l < k
  <2>1. k = Len(dict.entries) + 1
    BY <1>2 DEF FreeSlots
  <2> QED  BY <2>1, Shape
<1> QED  BY <1>1, <1>2 DEF Carries

(* A put keeps the layout, whether or not a value is set beside it.        *)
LEMMA PutKeepsLayout ==
    ASSUME TypeOK, LaidOut, NEW k \in FreeSlots(dict), NEW e \in Entry, NEW p,
           p = Put(dict, k, e), SameFrame(dict, dict'), dict'.entries = p.entries,
           DOMAIN dict'.values = DOMAIN dict.values, Len(dict'.values) = Len(dict.values),
           \A l \in DOMAIN dict.values : l # k => dict'.values[l] = dict.values[l]
    PROVE  LaidOut'
<1>1. /\ DOMAIN p.entries = DOMAIN dict.entries \cup {k}
      /\ Len(p.entries) = IF k \in DOMAIN dict.entries THEN Len(dict.entries) ELSE k
      /\ k \in DOMAIN dict.entries \/ (k = Len(dict.entries) + 1 /\ dict.layout \notin Hashed
                                      /\ k <= MaxEntries)
  BY PutChanges DEF TypeOK
<1>2. WellFormed(dict') /\ dict'.log2 \in Log2Sizes /\ dict'.indexBytes = IndexBytes(dict'.log2)
      /\ (dict'.hashed <=> ~(dict'.layout = "kinds" /\ dict'.kind # 0))
  BY DEF LaidOut, SameFrame, WellFormed, IsSet
<1>3. dict'.layout \in Hashed => Len(dict'.entries) = 2 ^ dict'.log2
  BY <1>1 DEF LaidOut, SameFrame
<1>4. dict'.split => Len(dict'.entries) <= Len(dict'.values)
  BY <1>1 DEF LaidOut, SameFrame
<1>5. dict'.split /\ dict'.layout \notin Hashed => Len(dict'.values) = MaxEntries
  BY DEF LaidOut, SameFrame
<1>6. \A l \in DOMAIN dict'.values \ DOMAIN dict'.entries : dict'.values[l] = NULL
  BY <1>1 DEF LaidOut
<1> QED  BY <1>2, <1>3, <1>4, <1>5, <1>6 DEF LaidOut

LEMMA InsertKeeps ==
    ASSUME ContentInv, NEW x \in Keys, NEW w \in Values \cup {NULL},
           x \notin KeysOf(items), ~dict.split, w = NULL <=> IsSet(dict),
           NEW k \in FreeSlots(dict), dict' = Put(dict, k, [key |-> x, value |-> w]),
           items' = Append(items, <<x, w>>)
    PROVE  ContentInv'
<1> DEFINE e == [key |-> x, value |-> w]
<1>1. TypeOK /\ LaidOut /\ Tidy /\ SamePairs /\ SameOrder /\ dict \in DictRecord
  BY DEF ContentInv, TypeOK
<1>2. e \in Entry /\ e.key = x /\ e.value = w
  BY DEF Entry
<1> HIDE DEF e
<1>3. /\ dict' \in DictRecord /\ SameFrame(dict, dict') /\ dict'.values = dict.values
      /\ DOMAIN dict'.entries = DOMAIN dict.entries \cup {k} /\ dict'.entries[k] = e
      /\ \A l \in DOMAIN dict.entries : l # k => dict'.entries[l] = dict.entries[l]
  <2>1. dict' = Put(dict, k, e)
    BY DEF e
  <2>2. PICK p : p = Put(dict, k, e)
    OBVIOUS
  <2>3. /\ p \in DictRecord /\ SameFrame(dict, p) /\ p.values = dict.values
        /\ DOMAIN p.entries = DOMAIN dict.entries \cup {k} /\ p.entries[k] = e
        /\ \A l \in DOMAIN dict.entries : l # k => p.entries[l] = dict.entries[l]
    BY <1>1, <1>2, <2>2, PutChanges
  <2> QED  BY <2>1, <2>2, <2>3
<1>4. TypeOK'
  BY <1>1, <1>3, ItemAppended DEF TypeOK
<1>5. LaidOut'
  <2>1. dict' = Put(dict, k, e)
    BY DEF e
  <2> QED  BY <1>1, <1>2, <1>3, <2>1, PutKeepsLayout
<1>6. Gains(k, x, w)
  <2>1. /\ dict'.layout = dict.layout /\ dict'.split = dict.split
        /\ IsCombined(dict) /\ IsCombined(dict')
    BY <1>1, <1>3, Shape DEF SameFrame, IsCombined
  <2>2. KeyAt(k)' = x /\ ValueAt(dict', k) = w
    BY <1>2, <1>3, <2>1 DEF KeyAt, ValueAt
  <2>3. k \in DOMAIN dict.entries => ~Carries(k)
    BY <1>1, FreeSlot
  <2>4. \A l \in DOMAIN dict.entries : l # k =>
          KeyAt(l)' = KeyAt(l) /\ KeyAt(l) # x /\ ValueAt(dict', l) = ValueAt(dict, l)
    BY <1>1, <1>3, <2>1, Absent DEF KeyAt, ValueAt
  <2>5. KeepsOrder(dict) => \A l \in DOMAIN dict.entries : l < k
    BY <1>1, FreeSlot DEF KeepsOrder, Hashed, SetLayouts
  <2> QED  BY <1>3, <2>1, <2>2, <2>3, <2>4, <2>5 DEF Gains
<1> QED  BY <1>1, <1>4, <1>5, <1>6, GainKeeps DEF ContentInv

LEMMA IndexIs ==
    ASSUME NEW x, HasKey(dict, x)
    PROVE  IndexOf(dict, x) \in DOMAIN dict.entries /\ KeyAt(IndexOf(dict, x)) = x
BY DEF HasKey, IndexOf, KeyAt

(* Of a split table the values are elsewhere. *)
LEMMA SplitValues ==
    ASSUME TypeOK, LaidOut, dict.split
    PROVE  /\ ~IsSet(dict) /\ dict.layout # "table"
           /\ \A d, k : d.layout = dict.layout /\ d.split = dict.split
                         => ValueAt(d, k) = d.values[k]
           /\ DOMAIN dict.entries \subseteq DOMAIN dict.values
           /\ FreeSlots(dict) \subseteq DOMAIN dict.values
<1>1. ~IsSet(dict) /\ dict.layout # "table"
  BY DEF LaidOut, WellFormed
<1>2. DOMAIN dict.entries \subseteq DOMAIN dict.values
  BY Shape DEF LaidOut
<1>3. FreeSlots(dict) \subseteq DOMAIN dict.values
  <2>1. CASE dict.layout \in Hashed
    BY <1>2, <2>1 DEF FreeSlots
  <2>2. CASE dict.layout \notin Hashed
    BY <2>2, Shape, ObjectAssumption DEF FreeSlots, LaidOut
  <2> QED  BY <2>1, <2>2
<1> QED  BY <1>1, <1>2, <1>3 DEF ValueAt, IsCombined

(* A value set in the array of the instance. *)
LEMMA SetValue ==
    ASSUME NEW d \in DictRecord, NEW k \in DOMAIN d.values, NEW v \in Values \cup {NULL},
           NEW e, e = [d EXCEPT !.values[k] = v]
    PROVE  /\ e \in DictRecord /\ SameFrame(d, e) /\ e.entries = d.entries
           /\ DOMAIN e.values = DOMAIN d.values /\ Len(e.values) = Len(d.values)
           /\ e.values[k] = v
           /\ \A l \in DOMAIN d.values : l # k => e.values[l] = d.values[l]
<1>1. d.values \in Seq(Values \cup {NULL})
  BY DEF DictRecord
<1>2. e = [d EXCEPT !.values = [d.values EXCEPT ![k] = v]]
  OBVIOUS
<1>3. /\ [d.values EXCEPT ![k] = v] \in Seq(Values \cup {NULL})
      /\ Len([d.values EXCEPT ![k] = v]) = Len(d.values)
  BY <1>1
<1>4. e \in DictRecord /\ SameFrame(d, e) /\ e.entries = d.entries
      /\ e.values = [d.values EXCEPT ![k] = v]
  BY <1>2, <1>3 DEF DictRecord, SameFrame
<1> QED  BY <1>1, <1>3, <1>4

LEMMA InsertSplitKeeps ==
    ASSUME ContentInv, NEW x \in Keys, NEW v \in Values, InsertSplit(x, v)
    PROVE  ContentInv'
<1>1. TypeOK /\ LaidOut /\ Tidy /\ SamePairs /\ SameOrder /\ dict \in DictRecord
  BY DEF ContentInv, TypeOK
<1>2. x \notin KeysOf(items) /\ dict.split /\ items' = Append(items, <<x, v>>)
  BY DEF InsertSplit
<1> DEFINE e == [key |-> x, value |-> NULL]
<1>3. PICK k \in IF HasKey(dict, x) THEN {IndexOf(dict, x)} ELSE FreeSlots(dict) :
         /\ dict.layout = "compact" => k = Len(items) + 1
         /\ dict' = [(IF HasKey(dict, x) THEN dict ELSE Put(dict, k, e)) EXCEPT !.values[k] = v]
  BY DEF InsertSplit
<1> DEFINE keyed == IF HasKey(dict, x) THEN dict ELSE Put(dict, k, e)
<1>4. e \in Entry /\ e.key = x
  BY DEF Entry
<1> HIDE DEF e
<1>5. /\ HasKey(dict, x) => k \in DOMAIN dict.entries /\ KeyAt(k) = x
      /\ ~HasKey(dict, x) => k \in FreeSlots(dict)
  BY <1>3, IndexIs
<1>6. /\ keyed \in DictRecord /\ SameFrame(dict, keyed) /\ keyed.values = dict.values
      /\ DOMAIN keyed.entries = DOMAIN dict.entries \cup {k} /\ keyed.entries[k].key = x
      /\ \A l \in DOMAIN dict.entries : l # k => keyed.entries[l] = dict.entries[l]
  <2>1. CASE HasKey(dict, x)
    BY <1>1, <1>3, <1>5, <2>1 DEF KeyAt, SameFrame
  <2>2. CASE ~HasKey(dict, x)
    <3>1. keyed = Put(dict, k, e)
      BY <1>3, <2>2
    <3> QED  BY <1>1, <1>4, <1>5, <2>2, <3>1, PutChanges
  <2> QED  BY <2>1, <2>2
<1>7. k \in DOMAIN keyed.values /\ ~IsSet(dict)
  BY <1>1, <1>2, <1>5, <1>6, SplitValues
<1>8. /\ dict' \in DictRecord /\ SameFrame(keyed, dict') /\ dict'.entries = keyed.entries
      /\ DOMAIN dict'.values = DOMAIN dict.values /\ Len(dict'.values) = Len(dict.values)
      /\ dict'.values[k] = v
      /\ \A l \in DOMAIN dict.values : l # k => dict'.values[l] = dict.values[l]
  <2>1. PICK p : p = [keyed EXCEPT !.values[k] = v]
    OBVIOUS
  <2>2. /\ p \in DictRecord /\ SameFrame(keyed, p) /\ p.entries = keyed.entries
        /\ DOMAIN p.values = DOMAIN keyed.values /\ Len(p.values) = Len(keyed.values)
        /\ p.values[k] = v
        /\ \A l \in DOMAIN keyed.values : l # k => p.values[l] = keyed.values[l]
    BY <1>6, <1>7, <2>1, SetValue
  <2> QED  BY <1>3, <1>6, <2>1, <2>2
<1>9. SameFrame(dict, dict')
  BY <1>6, <1>8 DEF SameFrame
<1>10. TypeOK'
  BY <1>1, <1>2, <1>8, ItemAppended DEF TypeOK
<1>11. LaidOut'
  <2>1. CASE HasKey(dict, x)
    <3>1. dict'.entries = dict.entries
      BY <1>3, <1>8, <2>1
    <3>2. \A l \in DOMAIN dict.values \ DOMAIN dict.entries : dict'.values[l] = NULL
      BY <1>1, <1>5, <1>8, <2>1 DEF LaidOut
    <3> QED  BY <1>1, <1>8, <1>9, <3>1, <3>2 DEF LaidOut, SameFrame, WellFormed, IsSet
  <2>2. CASE ~HasKey(dict, x)
    <3>1. keyed = Put(dict, k, e) /\ k \in FreeSlots(dict)
      BY <1>3, <1>5, <2>2
    <3> QED  BY <1>1, <1>4, <1>8, <1>9, <3>1, PutKeepsLayout
  <2> QED  BY <2>1, <2>2
<1>12. Gains(k, x, v)
  <2>1. /\ dict'.layout = dict.layout /\ dict'.split = dict.split
        /\ \A l : /\ ValueAt(dict, l) = dict.values[l]
                 /\ ValueAt(dict', l) = dict'.values[l]
    BY <1>1, <1>2, <1>9, SplitValues DEF SameFrame
  <2>2. KeyAt(k)' = x /\ ValueAt(dict', k) = v /\ v # NULL
    BY <1>6, <1>8, <2>1, DictAssumption DEF KeyAt
  <2>3. k \in DOMAIN dict.entries => ~Carries(k)
    BY <1>1, <1>2, <1>5, Absent, FreeSlot
  <2>4. \A l \in DOMAIN dict.entries : l # k =>
          KeyAt(l)' = KeyAt(l) /\ KeyAt(l) # x /\ ValueAt(dict', l) = ValueAt(dict, l)
    <3>1. ASSUME NEW l \in DOMAIN dict.entries, l # k
          PROVE  KeyAt(l)' = KeyAt(l) /\ ValueAt(dict', l) = ValueAt(dict, l)
      <4>1. l \in DOMAIN dict.values
        BY <1>1, <1>2, SplitValues
      <4> QED  BY <1>6, <1>8, <2>1, <3>1, <4>1 DEF KeyAt
    <3>2. ASSUME NEW l \in DOMAIN dict.entries, l # k, KeyAt(l) = x PROVE FALSE
      <4>1. HasKey(dict, x)
        BY <3>2 DEF HasKey, KeyAt
      <4> QED  BY <1>1, <1>5, <3>2, <4>1 DEF Tidy
    <3> QED  BY <3>1, <3>2
  <2>5. ASSUME KeepsOrder(dict), NEW l \in DOMAIN dict.entries, KeyAt(l) \in KeysOf(items)
        PROVE  l < k
    <3>1. dict.layout = "compact" /\ k = Len(items) + 1
      BY <1>2, <1>3, <2>5 DEF KeepsOrder
    <3>2. PICK i \in DOMAIN items : KeyAt(l) = items[i][1]
      BY <2>5 DEF KeysOf
    <3>3. l = i
      BY <1>1, <1>2, <3>1, <3>2 DEF SameOrder
    <3> QED  BY <1>1, <3>1, <3>3, Shape
  <2> QED  BY <1>2, <1>3, <1>6, <1>7, <1>8, <2>1, <2>2, <2>3, <2>4, <2>5 DEF Gains
<1> QED  BY <1>1, <1>2, <1>10, <1>11, <1>12, GainKeeps DEF ContentInv

LEMMA ShareKeyKeeps ==
    ASSUME ContentInv, NEW x \in Keys, ShareKey(x)
    PROVE  ContentInv'
<1>1. TypeOK /\ LaidOut /\ Tidy /\ SamePairs /\ SameOrder /\ dict \in DictRecord
  BY DEF ContentInv, TypeOK
<1> DEFINE e == [key |-> x, value |-> NULL]
<1>2. PICK k \in FreeSlots(dict) : dict' = Put(dict, k, e)
  BY DEF ShareKey
<1>3. dict.split /\ ~HasKey(dict, x) /\ items' = items
  BY DEF ShareKey
<1>4. e \in Entry /\ e.key = x
  BY DEF Entry
<1> HIDE DEF e
<1>5. /\ dict' \in DictRecord /\ SameFrame(dict, dict') /\ dict'.values = dict.values
      /\ DOMAIN dict'.entries = DOMAIN dict.entries \cup {k} /\ dict'.entries[k] = e
      /\ \A l \in DOMAIN dict.entries : l # k => dict'.entries[l] = dict.entries[l]
  <2>1. PICK p : p = Put(dict, k, e)
    OBVIOUS
  <2>2. /\ p \in DictRecord /\ SameFrame(dict, p) /\ p.values = dict.values
        /\ DOMAIN p.entries = DOMAIN dict.entries \cup {k} /\ p.entries[k] = e
        /\ \A l \in DOMAIN dict.entries : l # k => p.entries[l] = dict.entries[l]
    BY <1>1, <1>4, <2>1, PutChanges
  <2> QED  BY <1>2, <2>1, <2>2
<1>6. TypeOK'
  BY <1>1, <1>3, <1>5 DEF TypeOK
<1>7. LaidOut'
  BY <1>1, <1>2, <1>4, <1>5, PutKeepsLayout
<1>8. /\ dict'.layout = dict.layout /\ dict'.split = dict.split
      /\ \A l : /\ ValueAt(dict, l) = dict.values[l]
               /\ ValueAt(dict', l) = dict'.values[l]
      /\ ~IsSet(dict) /\ ~IsSet(dict') /\ KeepsOrder(dict') = KeepsOrder(dict)
  BY <1>1, <1>3, <1>5, SplitValues DEF SameFrame, IsSet, KeepsOrder
<1>9. ValueAt(dict', k) = NULL
  <2>1. CASE k \in DOMAIN dict.entries
    <3>1. KeyAt(k) \notin Keys
      BY <1>1, <2>1, FreeSlot
    <3>2. ValueAt(dict, k) = NULL
      BY <1>1, <2>1, <3>1 DEF Tidy
    <3> QED  BY <1>5, <1>8, <3>2
  <2>2. CASE k \notin DOMAIN dict.entries
    <3>1. k \in DOMAIN dict.values
      BY <1>1, <1>3, SplitValues
    <3>2. dict.values[k] = NULL
      BY <1>1, <2>2, <3>1 DEF LaidOut
    <3> QED  BY <1>5, <1>8, <3>2
  <2> QED  BY <2>1, <2>2
<1>10. \A l \in DOMAIN dict.entries :
         /\ ValueAt(dict', l) = ValueAt(dict, l)
         /\ l # k => KeyAt(l)' = KeyAt(l)
         /\ Carries(l)' <=> Carries(l)
         /\ KeyAt(l) # x
  <2> TAKE l \in DOMAIN dict.entries
  <2>1. ValueAt(dict', l) = ValueAt(dict, l) /\ (l # k => KeyAt(l)' = KeyAt(l))
    BY <1>5, <1>8 DEF KeyAt
  <2>2. KeyAt(l) # x
    BY <1>3 DEF HasKey, KeyAt
  <2>3. l = k => ~Carries(l) /\ ~Carries(l)'
    BY <1>1, <1>8, <1>9, FreeSlot DEF Carries
  <2> QED  BY <1>8, <2>1, <2>2, <2>3 DEF Carries
<1>11. KeyAt(k)' = x /\ ~Carries(k)'
  BY <1>4, <1>5, <1>8, <1>9 DEF KeyAt, Carries
<1>12. x \notin KeysOf(items)
  <2>1. ASSUME NEW j \in DOMAIN items PROVE items[j][1] # x
    <3>1. PICK l \in DOMAIN dict.entries : items[j] = <<KeyAt(l), ValueAt(dict, l)>>
      BY <1>1 DEF SamePairs
    <3> QED  BY <1>10, <3>1
  <2> QED  BY <2>1 DEF KeysOf
<1>13. Tidy'
  <2>1. ASSUME NEW l \in DOMAIN dict'.entries
        PROVE  /\ KeyAt(l)' \notin Keys \/ IsSet(dict') => ValueAt(dict', l) = NULL
               /\ KeyAt(l)' \in Keys /\ ~dict'.split => Carries(l)'
    BY <1>1, <1>3, <1>5, <1>8, <1>9, <1>10 DEF Tidy
  <2>2. ASSUME NEW i \in DOMAIN dict'.entries, NEW l \in DOMAIN dict'.entries,
               KeyAt(i)' \in Keys, KeyAt(i)' = KeyAt(l)'
        PROVE  i = l
    BY <1>1, <1>5, <1>10, <1>11, <2>2 DEF Tidy
  <2> QED  BY <1>1, <1>3, <2>1, <2>2 DEF Tidy
<1>14. SamePairs'
  <2>1. ASSUME NEW j \in DOMAIN items'
        PROVE  \E l \in DOMAIN dict'.entries :
                  Carries(l)' /\ items'[j] = <<KeyAt(l)', ValueAt(dict', l)>>
    <3>1. PICK l \in DOMAIN dict.entries :
                 Carries(l) /\ items[j] = <<KeyAt(l), ValueAt(dict, l)>>
      BY <1>1, <1>3 DEF SamePairs
    <3>2. l # k
      BY <1>10, <1>11, <3>1
    <3> QED  BY <1>3, <1>5, <1>10, <3>1, <3>2
  <2>2. ASSUME NEW l \in DOMAIN dict'.entries, Carries(l)'
        PROVE  \E j \in DOMAIN items' : items'[j] = <<KeyAt(l)', ValueAt(dict', l)>>
    <3>1. l # k /\ l \in DOMAIN dict.entries
      BY <1>5, <1>11, <2>2
    <3> QED  BY <1>1, <1>3, <1>10, <2>2, <3>1 DEF SamePairs
  <2> QED  BY <2>1, <2>2 DEF SamePairs
<1>15. SameOrder'
  <2>1. ASSUME NEW l \in DOMAIN dict'.entries, KeyAt(l)' \in KeysOf(items)
        PROVE  l \in DOMAIN dict.entries /\ KeyAt(l)' = KeyAt(l)
    BY <1>5, <1>10, <1>11, <1>12, <2>1
  <2>2. \A i \in DOMAIN items : items[i][1] \in KeysOf(items)
    BY DEF KeysOf
  <2> QED  BY <1>1, <1>3, <1>8, <2>1, <2>2 DEF SameOrder
<1> QED  BY <1>6, <1>7, <1>13, <1>14, <1>15 DEF ContentInv

(* An entry set in its place. *)
LEMMA SetEntry ==
    ASSUME NEW d \in DictRecord, NEW k \in DOMAIN d.entries, NEW e \in Entry,
           NEW p, p = [d EXCEPT !.entries[k] = e]
    PROVE  /\ p \in DictRecord /\ SameFrame(d, p) /\ p.values = d.values
           /\ DOMAIN p.entries = DOMAIN d.entries /\ p.entries[k] = e
           /\ \A l \in DOMAIN d.entries : l # k => p.entries[l] = d.entries[l]
           /\ Len(p.entries) = Len(d.entries)
<1>1. d.entries \in Seq(Entry)
  BY DEF DictRecord
<1>2. p = [d EXCEPT !.entries = [d.entries EXCEPT ![k] = e]]
  OBVIOUS
<1>3. [d.entries EXCEPT ![k] = e] \in Seq(Entry)
      /\ Len([d.entries EXCEPT ![k] = e]) = Len(d.entries)
  BY <1>1
<1>4. p \in DictRecord /\ SameFrame(d, p) /\ p.values = d.values
      /\ p.entries = [d.entries EXCEPT ![k] = e]
  BY <1>2, <1>3 DEF DictRecord, SameFrame
<1> QED  BY <1>1, <1>3, <1>4

(* What replacing and deleting have in common: one entry gets the value w, *)
(* and a key z that is its own, or none.                                   *)
Sets(k, z, w) ==
    /\ dict' \in DictRecord /\ SameFrame(dict, dict')
    /\ DOMAIN dict'.entries = DOMAIN dict.entries /\ Len(dict'.entries) = Len(dict.entries)
    /\ DOMAIN dict'.values = DOMAIN dict.values /\ Len(dict'.values) = Len(dict.values)
    /\ \A l \in DOMAIN dict.values \ DOMAIN dict.entries : dict'.values[l] = dict.values[l]
    /\ KeyAt(k)' = z /\ ValueAt(dict, k)' = w
    /\ \A l \in DOMAIN dict.entries : l # k =>
          KeyAt(l)' = KeyAt(l) /\ ValueAt(dict, l)' = ValueAt(dict, l)

LEMMA SetsKeepsLayout ==
    ASSUME LaidOut, NEW k, NEW z, NEW w, Sets(k, z, w)
    PROVE  LaidOut'
BY DEF LaidOut, Sets, SameFrame, WellFormed, IsSet

LEMMA SettingValue ==
    ASSUME TypeOK, LaidOut, NEW k \in DOMAIN dict.entries, NEW w \in Values \cup {NULL},
           dict.split, NEW p, p = [dict EXCEPT !.values[k] = w], dict' = p
    PROVE  Sets(k, KeyAt(k), w)
<1>1. dict \in DictRecord /\ k \in DOMAIN dict.values
  BY SplitValues DEF TypeOK
<1>2. /\ p \in DictRecord /\ SameFrame(dict, p) /\ p.entries = dict.entries
      /\ DOMAIN p.values = DOMAIN dict.values /\ Len(p.values) = Len(dict.values)
      /\ p.values[k] = w
      /\ \A l \in DOMAIN dict.values : l # k => p.values[l] = dict.values[l]
  BY <1>1, SetValue
<1>3. \A l : ValueAt(dict, l) = dict.values[l] /\ ValueAt(p, l) = p.values[l]
  <2>1. dict.layout # "table" /\ p.layout # "table" /\ p.split
    BY <1>2, SplitValues DEF SameFrame
  <2> QED  BY <2>1 DEF ValueAt, IsCombined
<1>4. DOMAIN dict.entries \subseteq DOMAIN dict.values
  BY SplitValues
<1> QED  BY <1>2, <1>3, <1>4 DEF Sets, KeyAt

LEMMA SettingEntry ==
    ASSUME TypeOK, LaidOut, NEW k \in DOMAIN dict.entries, NEW z \in Keys \cup {NULL, Dummy},
           NEW w \in Values \cup {NULL}, NEW e, e = [key |-> z, value |-> w],
           ~dict.split, NEW p, p = [dict EXCEPT !.entries[k] = e], dict' = p
    PROVE  Sets(k, z, w)
<1>1. dict \in DictRecord
  BY DEF TypeOK
<1>2. e \in Entry /\ e.key = z /\ e.value = w
  BY DEF Entry
<1>3. /\ p \in DictRecord /\ SameFrame(dict, p) /\ p.values = dict.values
      /\ DOMAIN p.entries = DOMAIN dict.entries /\ p.entries[k] = e
      /\ \A l \in DOMAIN dict.entries : l # k => p.entries[l] = dict.entries[l]
      /\ Len(p.entries) = Len(dict.entries)
  BY <1>1, <1>2, SetEntry
<1>4. \A l : ValueAt(dict, l) = dict.entries[l].value /\ ValueAt(p, l) = p.entries[l].value
  BY <1>3 DEF ValueAt, IsCombined, SameFrame
<1> QED  BY <1>2, <1>3, <1>4 DEF Sets, KeyAt

LEMMA DeleteKeeps ==
    ASSUME ContentInv, NEW x \in Keys, Delete(x)
    PROVE  ContentInv'
<1>1. TypeOK /\ LaidOut /\ Tidy /\ SamePairs /\ SameOrder
  BY DEF ContentInv
<1> PICK k : k = IndexOf(dict, x)
  OBVIOUS
<1> PICK gone : gone = IF dict.layout \in Hashed THEN Dummy ELSE NULL
  OBVIOUS
<1> PICK z : z = IF dict.split THEN KeyAt(k) ELSE gone
  OBVIOUS
<1>2. PICK m \in DOMAIN items : items[m][1] = x /\ items' = Without(items, m)
  BY DEF Delete
<1>3. /\ ~(dict.split /\ dict.layout = "compact")
      /\ dict' = IF dict.split THEN [dict EXCEPT !.values[k] = NULL]
                 ELSE [dict EXCEPT !.entries[k] = [key |-> gone, value |-> NULL]]
  BY DEF Delete
<1>4. k \in DOMAIN dict.entries /\ KeyAt(k) = x
  <2>1. PICK l \in DOMAIN dict.entries : items[m] = <<KeyAt(l), ValueAt(dict, l)>>
    BY <1>1, <1>2 DEF SamePairs
  <2>2. HasKey(dict, x)
    BY <1>2, <2>1 DEF HasKey, KeyAt
  <2> QED  BY <2>2, IndexIs
<1>5. Sets(k, z, NULL)
  <2>1. CASE dict.split
    BY <1>1, <1>3, <1>4, <2>1, SettingValue
  <2>2. CASE ~dict.split
    BY <1>1, <1>3, <1>4, <2>2, SettingEntry
  <2> QED  BY <2>1, <2>2
<1>6. z \in Keys => dict.split /\ z = KeyAt(k)
  BY DictAssumption
<1>7. TypeOK'
  BY <1>1, <1>2, <1>5, ItemRemoved DEF TypeOK, Sets
<1>8. LaidOut'
  BY <1>1, <1>5, SetsKeepsLayout
<1>9. Loses(k, m)
  <2>1. dict'.layout = dict.layout /\ dict'.split = dict.split
    BY <1>5 DEF Sets, SameFrame
  <2>2. z \in Keys => ~IsSet(dict')
    BY <1>1, <1>6, <2>1, SplitValues DEF IsSet
  <2>3. ValueAt(dict', k) = NULL /\ KeyAt(k)' = z
    BY <1>5 DEF Sets
  <2>4. ~Carries(k)'
    BY <2>2, <2>3 DEF Carries
  <2> QED  BY <1>2, <1>3, <1>4, <1>5, <1>6, <2>1, <2>3, <2>4 DEF Loses, Sets
<1> QED  BY <1>1, <1>4, <1>7, <1>8, <1>9, LossKeeps DEF ContentInv

LEMMA ReplaceKeeps ==
    ASSUME ContentInv, NEW x \in Keys, NEW v \in Values, Replace(x, v)
    PROVE  ContentInv'
<1>1. TypeOK /\ LaidOut /\ Tidy /\ SamePairs /\ SameOrder /\ dict \in DictRecord
  BY DEF ContentInv, TypeOK
<1> PICK k : k = IndexOf(dict, x)
  OBVIOUS
<1>2. PICK m \in DOMAIN items :
         /\ items[m][1] = x
         /\ dict' = IF dict.split THEN [dict EXCEPT !.values[k] = v]
                    ELSE [dict EXCEPT !.entries[k].value = v]
         /\ items' = [items EXCEPT ![m] = <<x, v>>]
  BY DEF Replace
<1>3. k \in DOMAIN dict.entries /\ KeyAt(k) = x
  <2>1. PICK l \in DOMAIN dict.entries : items[m] = <<KeyAt(l), ValueAt(dict, l)>>
    BY <1>1 DEF SamePairs
  <2>2. HasKey(dict, x)
    BY <1>2, <2>1 DEF HasKey, KeyAt
  <2> QED  BY <2>2, IndexIs
<1>4. [dict.entries[k] EXCEPT !.value = v] = [key |-> x, value |-> v]
  <2>1. dict.entries[k] \in Entry
    BY <1>1, <1>3 DEF DictRecord
  <2> QED  BY <1>3, <2>1 DEF Entry, KeyAt
<1>5. dict' = IF dict.split THEN [dict EXCEPT !.values[k] = v]
              ELSE [dict EXCEPT !.entries[k] = [key |-> x, value |-> v]]
  BY <1>2, <1>4
<1>6. Sets(k, x, v)
  <2>1. CASE dict.split
    BY <1>1, <1>3, <1>5, <2>1, SettingValue
  <2>2. CASE ~dict.split
    BY <1>1, <1>3, <1>5, <2>2, SettingEntry
  <2> QED  BY <2>1, <2>2
<1>7. /\ items' \in Seq(Keys \X (Values \cup {NULL})) /\ DOMAIN items' = DOMAIN items
      /\ items'[m] = <<x, v>> /\ \A j \in DOMAIN items : j # m => items'[j] = items[j]
      /\ \A j \in DOMAIN items : items'[j][1] = items[j][1]
  BY <1>2 DEF TypeOK, ContentInv
<1>8. TypeOK'
  BY <1>6, <1>7 DEF TypeOK, Sets
<1>9. LaidOut'
  BY <1>1, <1>6, SetsKeepsLayout
<1>10. /\ ~IsSet(dict) /\ ~IsSet(dict') /\ v # NULL
       /\ dict'.split = dict.split /\ dict'.layout = dict.layout
       /\ KeepsOrder(dict') = KeepsOrder(dict)
       /\ DOMAIN dict'.entries = DOMAIN dict.entries
       /\ \A l \in DOMAIN dict.entries : KeyAt(l)' = KeyAt(l)
       /\ \A l \in DOMAIN dict.entries : l # k => ValueAt(dict', l) = ValueAt(dict, l)
       /\ ValueAt(dict', k) = v
  BY <1>3, <1>6, DictAssumption DEF Replace, Sets, SameFrame, IsSet, KeepsOrder
<1>11. /\ \A l \in DOMAIN dict.entries : l # k => (Carries(l)' <=> Carries(l))
       /\ Carries(k)'
  BY <1>3, <1>10 DEF Carries
<1>12. Tidy'
  BY <1>1, <1>3, <1>7, <1>10, <1>11 DEF Tidy
<1>13. \A l \in DOMAIN dict.entries : KeyAt(l) = x => l = k
  BY <1>1, <1>3 DEF Tidy
<1>14. SamePairs'
  <2>1. ASSUME NEW j \in DOMAIN items'
        PROVE  \E l \in DOMAIN dict'.entries :
                  Carries(l)' /\ items'[j] = <<KeyAt(l)', ValueAt(dict', l)>>
    <3>1. CASE j = m
      BY <1>3, <1>7, <1>10, <1>11, <3>1
    <3>2. CASE j # m
      <4>1. PICK l \in DOMAIN dict.entries :
                   Carries(l) /\ items[j] = <<KeyAt(l), ValueAt(dict, l)>>
        BY <1>1, <1>7 DEF SamePairs
      <4>2. l # k
        BY <1>1, <1>2, <1>3, <1>7, <3>2, <4>1 DEF Tidy
      <4> QED  BY <1>7, <1>10, <1>11, <3>2, <4>1, <4>2
    <3> QED  BY <3>1, <3>2
  <2>2. ASSUME NEW l \in DOMAIN dict'.entries, Carries(l)'
        PROVE  \E j \in DOMAIN items' : items'[j] = <<KeyAt(l)', ValueAt(dict', l)>>
    <3>1. CASE l = k
      BY <1>3, <1>7, <1>10, <3>1
    <3>2. CASE l # k
      <4>1. PICK j \in DOMAIN items : items[j] = <<KeyAt(l), ValueAt(dict, l)>>
        BY <1>1, <1>10, <1>11, <2>2, <3>2 DEF SamePairs
      <4>2. j # m
        BY <1>2, <1>10, <1>13, <3>2, <4>1
      <4> QED  BY <1>7, <1>10, <3>2, <4>1, <4>2
    <3> QED  BY <3>1, <3>2
  <2> QED  BY <2>1, <2>2 DEF SamePairs
<1>15. SameOrder'
  <2>1. \A i \in DOMAIN items' : i \in DOMAIN items /\ items'[i][1] = items[i][1]
    BY <1>7
  <2> QED  BY <1>1, <1>10, <2>1 DEF SameOrder
<1> QED  BY <1>8, <1>9, <1>12, <1>14, <1>15 DEF ContentInv

(* An empty table. *)
LEMMA NewTableIs ==
    ASSUME NEW layout \in Layouts, NEW log2 \in Log2Sizes, NEW kind \in 0..2,
           NEW split \in BOOLEAN, NEW t, t = NewTable(layout, log2, kind, split)
    PROVE  /\ t \in DictRecord /\ t.layout = layout /\ t.log2 = log2 /\ t.kind = kind
           /\ t.split = split /\ t.indexBytes = IndexBytes(log2)
           /\ t.hashed <=> ~(layout = "kinds" /\ kind # 0)
           /\ Len(t.entries) = IF layout \in Hashed THEN 2 ^ log2 ELSE 0
           /\ \A k \in DOMAIN t.entries : t.entries[k] = EmptyEntry
           /\ Len(t.values) = IF ~split THEN 0
                              ELSE IF Len(t.entries) = 0 THEN MaxEntries ELSE Len(t.entries)
           /\ \A k \in DOMAIN t.values : t.values[k] = NULL
<1> DEFINE slots == IF layout \in Hashed THEN 2 ^ log2 ELSE 0
           room == IF slots = 0 THEN MaxEntries ELSE slots
           E == [k \in 1..slots |-> EmptyEntry]
           V == IF ~split THEN <<>> ELSE [k \in 1..room |-> NULL]
<1>1. slots \in Nat /\ room \in Nat /\ log2 \in Nat
  BY Exponents, ObjectAssumption
<1>2. EmptyEntry \in Entry
  BY DEF EmptyEntry, Entry
<1> HIDE DEF slots, room
<1>3. /\ E \in Seq(Entry) /\ Len(E) = slots /\ DOMAIN E = 1..slots
      /\ \A k \in DOMAIN E : E[k] = EmptyEntry
  BY <1>1, <1>2
<1>4. /\ V \in Seq(Values \cup {NULL}) /\ Len(V) = (IF ~split THEN 0 ELSE room)
      /\ \A k \in DOMAIN V : V[k] = NULL
  BY <1>1
<1>5. IndexBytes(log2) \in {1, 2, 4, 8}
  BY DEF IndexBytes
<1>6. t = [layout |-> layout, log2 |-> log2, indexBytes |-> IndexBytes(log2), kind |-> kind,
           hashed |-> ~(layout = "kinds" /\ kind # 0), entries |-> E, split |-> split,
           values |-> V]
  BY DEF NewTable, slots, room
<1> HIDE DEF E, V
<1>7. t \in DictRecord
  BY <1>1, <1>3, <1>4, <1>5, <1>6 DEF DictRecord
<1>8. /\ t.layout = layout /\ t.log2 = log2 /\ t.kind = kind /\ t.split = split
      /\ t.indexBytes = IndexBytes(log2) /\ t.entries = E /\ t.values = V
  BY <1>6
<1>11. t.hashed = ~(layout = "kinds" /\ kind # 0)
  BY <1>6
<1>9. Len(t.entries) = slots /\ Len(t.values) = (IF ~split THEN 0 ELSE room)
  BY <1>3, <1>4, <1>8
<1>10. /\ \A k \in DOMAIN t.entries : t.entries[k] = EmptyEntry
       /\ \A k \in DOMAIN t.values : t.values[k] = NULL
  BY <1>3, <1>4, <1>8
<1> QED  BY <1>7, <1>8, <1>9, <1>10, <1>11 DEF slots, room

(* The items put into an empty table, each at its place.                   *)
Packs(place) ==
    /\ dict'.layout = dict.layout /\ ~dict'.split
    /\ place \in [DOMAIN items -> DOMAIN dict'.entries]
    /\ \A i, j \in DOMAIN items : place[i] = place[j] => i = j
    /\ KeepsOrder(dict)' => \A i, j \in DOMAIN items : i < j => place[i] < place[j]
    /\ \A j \in DOMAIN items :
          dict'.entries[place[j]] = [key |-> items[j][1], value |-> items[j][2]]
    /\ \A k \in DOMAIN dict'.entries :
          (\A j \in DOMAIN items : place[j] # k) => dict'.entries[k] = EmptyEntry
    /\ items' = items

LEMMA PackKeeps ==
    ASSUME TypeOK, Tidy, SamePairs, NEW place, Packs(place)
    PROVE  Tidy' /\ SamePairs' /\ SameOrder'
<1>1. \A j \in DOMAIN items :
         /\ items[j] = <<items[j][1], items[j][2]>>
         /\ items[j][1] \in Keys
         /\ items[j][2] = NULL <=> IsSet(dict)
  <2> TAKE j \in DOMAIN items
  <2>1. PICK k \in DOMAIN dict.entries :
               Carries(k) /\ items[j] = <<KeyAt(k), ValueAt(dict, k)>>
    BY DEF SamePairs
  <2>2. items[j][2] = ValueAt(dict, k)
    BY <2>1
  <2>3. items[j][2] = NULL <=> IsSet(dict)
    BY <2>1, <2>2 DEF Carries, Tidy
  <2> QED  BY <2>3, Shape
<1>2. /\ dict'.layout = dict.layout /\ ~dict'.split /\ IsSet(dict') = IsSet(dict)
      /\ items' = items
  BY DEF Packs, IsSet
<1>3. \A k : KeyAt(k)' = dict'.entries[k].key /\ ValueAt(dict', k) = dict'.entries[k].value
  BY <1>2 DEF KeyAt, ValueAt, IsCombined
<1>4. ASSUME NEW j \in DOMAIN items
      PROVE  /\ place[j] \in DOMAIN dict'.entries
             /\ KeyAt(place[j])' = items[j][1] /\ ValueAt(dict', place[j]) = items[j][2]
             /\ Carries(place[j])'
  <2>1. place[j] \in DOMAIN dict'.entries
        /\ dict'.entries[place[j]] = [key |-> items[j][1], value |-> items[j][2]]
    BY DEF Packs
  <2>2. KeyAt(place[j])' = items[j][1] /\ ValueAt(dict', place[j]) = items[j][2]
    BY <1>3, <2>1 DEF KeyAt
  <2> QED  BY <1>1, <1>2, <2>1, <2>2 DEF Carries
<1>5. ASSUME NEW k \in DOMAIN dict'.entries
      PROVE  \/ \E j \in DOMAIN items : place[j] = k
             \/ KeyAt(k)' = NULL /\ ValueAt(dict', k) = NULL
  BY <1>3 DEF Packs, EmptyEntry
<1>6. NULL \notin Keys
  BY DictAssumption
<1>7. \A i, j \in DOMAIN items : place[i] = place[j] => i = j
  BY DEF Packs
<1>8. Tidy'
  <2>1. ASSUME NEW k \in DOMAIN dict'.entries
        PROVE  /\ KeyAt(k)' \notin Keys \/ IsSet(dict') => ValueAt(dict', k) = NULL
               /\ KeyAt(k)' \in Keys /\ ~dict'.split => Carries(k)'
    BY <1>1, <1>2, <1>4, <1>5, <1>6
  <2>2. ASSUME NEW k \in DOMAIN dict'.entries, NEW l \in DOMAIN dict'.entries,
               KeyAt(k)' \in Keys, KeyAt(k)' = KeyAt(l)'
        PROVE  k = l
    <3>1. PICK i \in DOMAIN items : place[i] = k
      BY <1>5, <1>6, <2>2
    <3>2. PICK j \in DOMAIN items : place[j] = l
      BY <1>5, <1>6, <2>2
    <3>3. items[i][1] = items[j][1]
      BY <1>4, <2>2, <3>1, <3>2
    <3> QED  BY <3>1, <3>2, <3>3 DEF Tidy
  <2> QED  BY <1>2, <2>1, <2>2 DEF Tidy
<1>9. SamePairs'
  <2>1. ASSUME NEW k \in DOMAIN dict'.entries, Carries(k)'
        PROVE  \E j \in DOMAIN items : items[j] = <<KeyAt(k)', ValueAt(dict', k)>>
    <3>1. KeyAt(k)' # NULL
      BY <1>6, <2>1 DEF Carries
    <3>2. PICK j \in DOMAIN items : place[j] = k
      BY <1>5, <3>1
    <3> QED  BY <1>1, <1>4, <3>2
  <2>2. ASSUME NEW j \in DOMAIN items
        PROVE  \E k \in DOMAIN dict'.entries :
                  Carries(k)' /\ items[j] = <<KeyAt(k)', ValueAt(dict', k)>>
    BY <1>1, <1>4
  <2> QED  BY <1>2, <2>1, <2>2 DEF SamePairs
<1>10. SameOrder'
  <2>1. ASSUME NEW i \in DOMAIN items, NEW j \in DOMAIN items,
               NEW k \in DOMAIN dict'.entries, NEW l \in DOMAIN dict'.entries,
               KeyAt(k)' = items[i][1], KeyAt(l)' = items[j][1], KeepsOrder(dict'), i < j
        PROVE  k < l
    <3>1. PICK p \in DOMAIN items : place[p] = k
      BY <1>1, <1>5, <1>6, <2>1
    <3>2. PICK q \in DOMAIN items : place[q] = l
      BY <1>1, <1>5, <1>6, <2>1
    <3>3. p = i /\ q = j
      BY <1>4, <2>1, <3>1, <3>2 DEF Tidy
    <3> QED  BY <2>1, <3>1, <3>2, <3>3 DEF Packs
  <2> QED  BY <1>2, <2>1 DEF SameOrder
<1> QED  BY <1>8, <1>9, <1>10

LEMMA InitHolds == Init => ContentInv
<1> SUFFICES ASSUME Init PROVE ContentInv
  OBVIOUS
<1>1. PICK layout \in Layouts, log2 \in Log2Sizes, kind \in 0..2, split \in BOOLEAN :
         dict = NewTable(layout, log2, kind, split) /\ WellFormed(dict)
  BY DEF Init, Tables
<1>2. items = <<>>
  BY DEF Init
<1>3. /\ dict \in DictRecord /\ dict.layout = layout /\ dict.log2 = log2 /\ dict.kind = kind
      /\ dict.split = split /\ dict.indexBytes = IndexBytes(log2)
      /\ dict.hashed <=> ~(layout = "kinds" /\ kind # 0)
      /\ Len(dict.entries) = IF layout \in Hashed THEN 2 ^ log2 ELSE 0
      /\ \A k \in DOMAIN dict.entries : dict.entries[k] = EmptyEntry
      /\ Len(dict.values) = IF ~split THEN 0
                            ELSE IF Len(dict.entries) = 0 THEN MaxEntries ELSE Len(dict.entries)
      /\ \A k \in DOMAIN dict.values : dict.values[k] = NULL
  <2>1. PICK t : t = NewTable(layout, log2, kind, split)
    OBVIOUS
  <2>2. dict = t
    BY <1>1, <2>1
  <2>3. t \in DictRecord /\ t.layout = layout /\ t.log2 = log2 /\ t.kind = kind
    BY <2>1, NewTableIs
  <2> QED  BY <2>1, <2>2, <2>3, NewTableIs
<1>4. TypeOK
  BY <1>2, <1>3 DEF TypeOK
<1>5. LaidOut
  <2>1. dict.split => Len(dict.entries) <= Len(dict.values)
    BY <1>3, <1>4, Shape, ObjectAssumption
  <2>2. dict.split /\ dict.layout \notin Hashed => Len(dict.values) = MaxEntries
    BY <1>3
  <2> QED  BY <1>1, <1>3, <2>1, <2>2 DEF LaidOut
<1>6. \A k \in DOMAIN dict.entries : KeyAt(k) = NULL /\ KeyAt(k) \notin Keys
  BY <1>3, DictAssumption DEF KeyAt, EmptyEntry
<1>7. \A k \in DOMAIN dict.entries : ValueAt(dict, k) = NULL
  <2>1. CASE dict.split
    BY <1>3, <1>4, <1>5, <2>1, SplitValues
  <2>2. CASE ~dict.split
    BY <1>3, <2>2 DEF ValueAt, IsCombined, EmptyEntry
  <2> QED  BY <2>1, <2>2
<1>8. DOMAIN items = {}
  BY <1>2
<1>9. Tidy /\ SamePairs /\ SameOrder
  BY <1>6, <1>7, <1>8 DEF Tidy, SamePairs, SameOrder, Carries
<1> QED  BY <1>4, <1>5, <1>9 DEF ContentInv

LEMMA RebuildKeeps ==
    ASSUME ContentInv, NEW log2 \in Log2Sizes, NEW kind \in 0..1, Rebuild(log2, kind)
    PROVE  ContentInv'
<1>1. TypeOK /\ LaidOut /\ Tidy /\ SamePairs
  BY DEF ContentInv
<1> DEFINE fresh == NewTable(dict.layout, log2, kind, FALSE)
           packed == [j \in DOMAIN items |-> [key |-> items[j][1], value |-> items[j][2]]]
<1>2. /\ fresh \in DictRecord /\ fresh.layout = dict.layout /\ fresh.log2 = log2
      /\ fresh.kind = kind /\ fresh.split = FALSE /\ fresh.indexBytes = IndexBytes(log2)
      /\ fresh.hashed <=> ~(dict.layout = "kinds" /\ kind # 0)
      /\ Len(fresh.entries) = IF dict.layout \in Hashed THEN 2 ^ log2 ELSE 0
      /\ \A k \in DOMAIN fresh.entries : fresh.entries[k] = EmptyEntry
      /\ Len(fresh.values) = 0
  <2>1. dict.layout \in Layouts /\ kind \in 0..2 /\ FALSE \in BOOLEAN
    BY <1>1, Shape
  <2>2. PICK layout \in Layouts, split \in BOOLEAN : layout = dict.layout /\ split = FALSE
    BY <2>1
  <2>3. PICK t : t = NewTable(layout, log2, kind, split)
    OBVIOUS
  <2>4. fresh = t
    BY <2>2, <2>3
  <2> HIDE DEF fresh
  <2>5. /\ t \in DictRecord /\ t.layout = layout /\ t.log2 = log2
        /\ t.kind = kind /\ t.split = split /\ t.indexBytes = IndexBytes(log2)
        /\ t.hashed <=> ~(layout = "kinds" /\ kind # 0)
        /\ Len(t.entries) = IF layout \in Hashed THEN 2 ^ log2 ELSE 0
        /\ \A k \in DOMAIN t.entries : t.entries[k] = EmptyEntry
        /\ Len(t.values) = IF ~split THEN 0
                           ELSE IF Len(t.entries) = 0 THEN MaxEntries ELSE Len(t.entries)
    BY <2>1, <2>3, NewTableIs
  <2> QED  BY <2>2, <2>4, <2>5
<1>3. WellFormed(fresh) /\ items' = items
  BY DEF Rebuild
<1>4. \/ /\ dict.layout \notin Hashed
         /\ dict' = [fresh EXCEPT !.entries = packed]
      \/ /\ dict.layout \in Hashed
         /\ \E place \in [DOMAIN items -> DOMAIN fresh.entries] :
               /\ \A i, j \in DOMAIN items : place[i] = place[j] => i = j
               /\ dict' = [fresh EXCEPT !.entries =
                     [k \in DOMAIN @ |->
                        IF \E j \in DOMAIN items : place[j] = k
                        THEN packed[CHOOSE j \in DOMAIN items : place[j] = k]
                        ELSE EmptyEntry]]
  BY DEF Rebuild
<1> HIDE DEF fresh
<1>5. /\ packed \in Seq(Entry) /\ DOMAIN packed = DOMAIN items
      /\ \A j \in DOMAIN items : packed[j] = [key |-> items[j][1], value |-> items[j][2]]
      /\ \A j \in DOMAIN items : packed[j] \in Entry
  <2>1. \A j \in DOMAIN items : [key |-> items[j][1], value |-> items[j][2]] \in Entry
    BY <1>1, Shape DEF Entry
  <2>2. DOMAIN items = 1..Len(items) /\ Len(items) \in Nat
    BY <1>1, Shape
  <2>3. packed \in [1..Len(items) -> Entry]
    BY <2>1, <2>2
  <2> QED  BY <2>1, <2>2, <2>3, SeqDef
<1> HIDE DEF packed
(* Whatever the layout, the new entries are a sequence E in which each     *)
(* item has a place of its own.                                            *)
<1> DEFINE Fits(E, place) ==
             /\ dict.layout \in Hashed => Len(E) = Len(fresh.entries)
             /\ place \in [DOMAIN items -> DOMAIN E]
             /\ \A i, j \in DOMAIN items : place[i] = place[j] => i = j
             /\ dict.layout \notin Hashed => \A j \in DOMAIN items : place[j] = j
             /\ \A j \in DOMAIN items : E[place[j]] = packed[j]
             /\ \A k \in DOMAIN E :
                   (\A j \in DOMAIN items : place[j] # k) => E[k] = EmptyEntry
<1>6. ASSUME NEW E \in Seq(Entry), NEW place, Fits(E, place),
             dict' = [fresh EXCEPT !.entries = E]
      PROVE  ContentInv'
  <2>1. /\ dict' \in DictRecord /\ dict'.entries = E /\ dict'.values = fresh.values
        /\ SameFrame(fresh, dict')
    BY <1>2, <1>6 DEF DictRecord, SameFrame
  <2>2. TypeOK'
    BY <1>1, <1>3, <2>1 DEF TypeOK
  <2>3. dict'.layout = dict.layout /\ ~dict'.split
    BY <1>2, <2>1 DEF SameFrame
  <2>4. KeepsOrder(dict') => dict.layout \notin Hashed
    BY <2>3 DEF KeepsOrder, Hashed, SetLayouts
  <2>5. Packs(place)
    BY <1>3, <1>5, <1>6, <2>1, <2>3, <2>4 DEF Packs
  <2>6. DOMAIN dict'.values = {}
    <3>1. fresh.values \in Seq(Values \cup {NULL}) /\ Len(fresh.values) = 0
      BY <1>2 DEF DictRecord
    <3> QED  BY <2>1, <3>1
  <2>7. WellFormed(dict') /\ dict'.log2 \in Log2Sizes
    BY <1>2, <1>3, <2>1 DEF WellFormed, SameFrame, IsSet
  <2>8. LaidOut'
    BY <1>2, <1>6, <2>1, <2>3, <2>6, <2>7 DEF LaidOut, SameFrame
  <2>9. Tidy' /\ SamePairs' /\ SameOrder'
    BY <1>1, <2>5, PackKeeps
  <2> QED  BY <2>2, <2>8, <2>9 DEF ContentInv
<1>7. CASE /\ dict.layout \notin Hashed
           /\ dict' = [fresh EXCEPT !.entries = packed]
  <2> DEFINE place == [j \in DOMAIN items |-> j]
  <2>1. /\ place \in [DOMAIN items -> DOMAIN packed]
        /\ \A i, j \in DOMAIN items : place[i] = place[j] => i = j
        /\ \A j \in DOMAIN items : place[j] = j
        /\ \A k \in DOMAIN packed : \E j \in DOMAIN items : place[j] = k
    BY <1>5
  <2> HIDE DEF place
  <2>2. \A j \in DOMAIN items : packed[place[j]] = packed[j]
    BY <2>1
  <2>3. Fits(packed, place)
    BY <1>7, <2>1, <2>2
  <2> HIDE DEF Fits
  <2> QED  BY <1>5, <1>6, <1>7, <2>3
<1>8. CASE /\ dict.layout \in Hashed
           /\ \E place \in [DOMAIN items -> DOMAIN fresh.entries] :
                 /\ \A i, j \in DOMAIN items : place[i] = place[j] => i = j
                 /\ dict' = [fresh EXCEPT !.entries =
                       [k \in DOMAIN @ |->
                          IF \E j \in DOMAIN items : place[j] = k
                          THEN packed[CHOOSE j \in DOMAIN items : place[j] = k]
                          ELSE EmptyEntry]]
  <2>1. PICK place \in [DOMAIN items -> DOMAIN fresh.entries] :
                 /\ \A i, j \in DOMAIN items : place[i] = place[j] => i = j
                 /\ dict' = [fresh EXCEPT !.entries =
                       [k \in DOMAIN fresh.entries |->
                          IF \E j \in DOMAIN items : place[j] = k
                          THEN packed[CHOOSE j \in DOMAIN items : place[j] = k]
                          ELSE EmptyEntry]]
    BY <1>8
  <2> DEFINE In(k) == CHOOSE j \in DOMAIN items : place[j] = k
             At(k) == IF \E j \in DOMAIN items : place[j] = k THEN packed[In(k)] ELSE EmptyEntry
             E == [k \in DOMAIN fresh.entries |-> At(k)]
  <2>2. \A j \in DOMAIN items : In(place[j]) = j
    BY <2>1
  <2>3. \A k : (\E j \in DOMAIN items : place[j] = k) => In(k) \in DOMAIN items
    OBVIOUS
  <2>4. dict' = [fresh EXCEPT !.entries = E]
    BY <2>1
  <2> HIDE DEF In
  <2>5. \A k \in DOMAIN fresh.entries : At(k) \in Entry
    <3>1. EmptyEntry \in Entry
      BY DEF EmptyEntry, Entry
    <3> QED  BY <1>5, <2>3, <3>1
  <2>6. /\ \A j \in DOMAIN items : At(place[j]) = packed[j]
        /\ \A k : (\A j \in DOMAIN items : place[j] # k) => At(k) = EmptyEntry
    BY <2>2
  <2>7. DOMAIN fresh.entries = 1..Len(fresh.entries) /\ Len(fresh.entries) \in Nat
    <3>1. fresh.entries \in Seq(Entry)
      BY <1>2 DEF DictRecord
    <3> QED  BY <3>1
  <2> HIDE DEF At
  <2>8. E \in Seq(Entry) /\ Len(E) = Len(fresh.entries) /\ DOMAIN E = DOMAIN fresh.entries
    <3>1. E \in [1..Len(fresh.entries) -> Entry]
      BY <2>5, <2>7
    <3> QED  BY <2>7, <3>1, SeqDef
  <2>9. /\ \A j \in DOMAIN items : E[place[j]] = packed[j]
        /\ \A k \in DOMAIN E :
              (\A j \in DOMAIN items : place[j] # k) => E[k] = EmptyEntry
    BY <2>6, <2>8
  <2> HIDE DEF E
  <2>10. Fits(E, place)
    BY <1>8, <2>1, <2>8, <2>9
  <2> HIDE DEF Fits
  <2> QED  BY <1>6, <2>4, <2>8, <2>10
<1> QED  BY <1>4, <1>7, <1>8

(* Whatever happens to a dict or a set, its entries and its items remain   *)
(* the same pairs, and where PyExt looks for them.                         *)
THEOREM ContentInvariance == Spec => []ContentInv
<1>1. Init => ContentInv
  BY InitHolds
<1>2. ASSUME ContentInv, [Next]_vars PROVE ContentInv'
  <2>1. ASSUME NEW x \in Keys, NEW v \in Values, Insert(x, v) PROVE ContentInv'
    <3>1. v # NULL /\ v \in Values \cup {NULL}
      BY DictAssumption
    <3> QED  BY <1>2, <2>1, <3>1, InsertKeeps DEF Insert
  <2>2. ASSUME NEW x \in Keys, AddMember(x) PROVE ContentInv'
    <3>1. IsSet(dict) /\ ~dict.split
      BY <1>2, <2>2, SplitValues, Shape DEF AddMember, ContentInv
    <3> QED  BY <1>2, <2>2, <3>1, InsertKeeps DEF AddMember
  <2>3. CASE UNCHANGED vars
    BY <1>2, <2>3 DEF vars, ContentInv, TypeOK, LaidOut, Tidy, SamePairs, SameOrder,
       Carries, KeyAt, ValueAt, IsCombined, IsSet, WellFormed, KeepsOrder
  <2> QED  BY <1>2, <2>1, <2>2, <2>3, InsertSplitKeeps, ShareKeyKeeps, DeleteKeeps,
              ReplaceKeeps, RebuildKeeps DEF Next
<1> QED  BY <1>1, <1>2, PTL DEF Spec

(* pairValues lists every item of a dict once and nothing else, whatever   *)
(* was inserted, deleted, shared and rebuilt (src/objects/PyDictObject.cpp *)
(* :148).                                                                  *)
THEOREM EveryItemIsListed == Spec => []ListsTheMapping
BY ContentInvariance, MappingFollows, PTL

(* Since 3.6 a listing is in the order of insertion, except for the split  *)
(* tables of 3.11 (src/objects/PyDictObject.cpp:148).                      *)
THEOREM ItemsAreInOrder == Spec => []ListsInOrder
BY ContentInvariance, OrderFollows, PTL

(* listValue lists every member of a set once, and of the removed ones     *)
(* none whose dummy it knows (src/objects/PySetObject.cpp:30).             *)
THEOREM EveryMemberIsListed == Spec => []ListsTheMembers
BY ContentInvariance, MembersFollow, PTL

(* The loop of pairValues stays within the entries and within the values   *)
(* of a split table (src/objects/PyDictObject.cpp:148).                    *)
THEOREM ListingStaysInBounds == Spec => []ReadsInBounds
BY ContentInvariance, BoundsFollow, PTL
=============================================================================
