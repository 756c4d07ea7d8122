------------------------- MODULE InstanceDict_proofs -------------------------
(***************************************************************************)
(* Proofs about InstanceDict: InductiveInv is one, and ShowsTheAttributes  *)
(* follows from it.  That a listing of the entries of a dict is a listing  *)
(* of its items is not proved again: the dict over the shared keys, and    *)
(* the one that owns its entries, are dicts of DictObject that satisfy     *)
(* ContentInv, and the theorems about those are used through an instance.  *)
(***************************************************************************)
EXTENDS InstanceDict, FiniteSetTheorems, TLAPS

D == INSTANCE DictObject_proofs
     WITH dict <- Source, items <- items, Log2Sizes <- {3}, MaxEntries <- MaxKeys

-----------------------------------------------------------------------------

(* The constants of DictObject are good ones. *)
LEMMA DictConstants ==
    D!DictAssumption /\ D!ObjectAssumption /\ D!PowerAssumption
<1>1. 2 ^ 3 = 8
  OBVIOUS
<1>2. D!DictAssumption /\ D!ObjectAssumption
  BY DictAssumption, InstanceAssumption DEF D!DictAssumption, D!ObjectAssumption
<1>3. D!PowerAssumption
  BY <1>1 DEF D!PowerAssumption
<1> QED  BY <1>2, <1>3

(* The modules count alike: both names stand for one definition. *)
LEMMA SameCount == \A S : D!Cardinality(S) = Cardinality(S)
BY DEF D!Cardinality, Cardinality

(* What the loops of both modules index with is an index. *)
LEMMA NthIsIn ==
    ASSUME NEW n \in Nat, NEW S \in SUBSET (1..n), NEW j \in 1..Cardinality(S)
    PROVE  Nth(S, j) \in S
<1>1. j \in 1..D!Cardinality(S)
  BY SameCount
<1>2. D!Nth(S, j) \in S /\ D!Cardinality(D!UpTo(S, D!Nth(S, j))) = j
  BY <1>1, DictConstants, D!NthIsMember
<1>3. D!Nth(S, j) = Nth(S, j)
  BY SameCount DEF D!Nth, Nth
<1> QED  BY <1>2, <1>3

LEMMA Shape ==
    ASSUME TypeOK
    PROVE  /\ DOMAIN keys = 1..Len(keys) /\ Len(keys) \in Nat /\ Len(keys) <= MaxKeys
           /\ DOMAIN array = 1..MaxKeys /\ MaxKeys \in Nat
           /\ DOMAIN items = 1..Len(items) /\ Len(items) \in Nat
           /\ \A k \in DOMAIN keys : k \in DOMAIN array /\ keys[k] \in Keys
           /\ \A k \in DOMAIN array : array[k] \in Values \cup {NULL}
           /\ \A j \in DOMAIN items : /\ items[j] = <<items[j][1], items[j][2]>>
                                      /\ items[j][1] \in Keys /\ items[j][2] \in Values
<1>1. \A p \in Keys \X Values : p = <<p[1], p[2]>> /\ p[1] \in Keys /\ p[2] \in Values
  OBVIOUS
<1>2. \A j \in DOMAIN items : items[j] \in Keys \X Values
  BY DEF TypeOK
<1>3. MaxKeys \in Nat
  BY InstanceAssumption
<1> QED  BY <1>1, <1>2, <1>3 DEF TypeOK

-----------------------------------------------------------------------------

(* The dict over the shared keys and the array is a dict of DictObject. *)
LEMMA SplitDict ==
    ASSUME TypeOK, Held, InTheArray, valid
    PROVE  D!ContentInv
<1> DEFINE s == Split(keys, array)
<1>1. Source = s
  BY DEF Source
<1>2. /\ s.layout = "kinds" /\ s.log2 = 3 /\ s.indexBytes = 1 /\ s.kind = 2
      /\ s.hashed = FALSE /\ s.split = TRUE /\ s.values = array
      /\ s.entries = [k \in DOMAIN keys |-> [key |-> keys[k], value |-> NULL]]
  BY DEF Split
<1>3. /\ DOMAIN s.entries = 1..Len(keys) /\ Len(s.entries) = Len(keys)
      /\ \A k \in DOMAIN keys : s.entries[k].key = keys[k] /\ s.entries[k].value = NULL
  BY <1>2, Shape
<1>4. DOMAIN s.values = 1..MaxKeys /\ Len(s.values) = MaxKeys
  BY <1>2, Shape
<1>5. ~D!IsSet(Source) /\ Source.layout \notin D!Hashed
  BY <1>1, <1>2 DEF D!IsSet, D!SetLayouts, D!Hashed
<1>6. D!TypeOK
  <2>1. s.entries \in Seq(D!Entry)
    BY <1>2, Shape DEF D!Entry
  <2>2. s.values \in Seq(Values \cup {NULL})
    <3>1. MaxKeys \in Nat /\ array \in [1..MaxKeys -> Values \cup {NULL}]
      BY Shape DEF TypeOK
    <3> QED  BY <1>2, <3>1
  <2>3. s \in D!DictRecord
    BY <2>1, <2>2 DEF Split, D!DictRecord, D!Layouts
  <2>4. items \in Seq(Keys \X (Values \cup {NULL}))
    BY DEF TypeOK
  <2> QED  BY <1>1, <2>3, <2>4 DEF D!TypeOK
<1>7. D!LaidOut
  <2>1. D!WellFormed(Source)
    BY <1>1, <1>2, <1>5 DEF D!WellFormed, D!Sizes
  <2>2. \A k \in DOMAIN Source.values \ DOMAIN Source.entries : Source.values[k] = NULL
    BY <1>1, <1>2, <1>3, Shape DEF InTheArray
  <2>3. Source.split => Len(Source.entries) <= Len(Source.values)
    BY <1>1, <1>3, <1>4, Shape
  <2> QED  BY <1>1, <1>2, <1>4, <1>5, <2>1, <2>2, <2>3 DEF D!LaidOut, D!IndexBytes
<1>8. \A k \in DOMAIN keys : D!KeyAt(k) = keys[k] /\ D!ValueAt(Source, k) = array[k]
  BY <1>1, <1>2, <1>3 DEF D!KeyAt, D!ValueAt, D!IsCombined
<1>9. \A k \in DOMAIN keys : D!Carries(k) <=> array[k] # NULL
  BY <1>5, <1>8, Shape DEF D!Carries
<1>10. DOMAIN Source.entries = DOMAIN keys
  BY <1>1, <1>2
<1>11. D!Tidy
  BY <1>1, <1>2, <1>5, <1>8, <1>10, Shape DEF D!Tidy, Held
<1>12. D!SamePairs
  BY <1>8, <1>9, <1>10, Shape, DictAssumption DEF D!SamePairs, InTheArray
<1>13. D!SameOrder
  BY <1>1, <1>2 DEF D!SameOrder, D!KeepsOrder
<1> QED  BY <1>6, <1>7, <1>11, <1>12, <1>13 DEF D!ContentInv

(* So is the one that owns its entries. *)
LEMMA CombinedDict ==
    ASSUME TypeOK, Held, ~valid
    PROVE  D!ContentInv
<1> DEFINE s == Combined(items)
<1>1. Source = s
  BY DEF Source
<1>2. /\ s.layout = "kinds" /\ s.log2 = 3 /\ s.indexBytes = 1 /\ s.kind = 1
      /\ s.hashed = FALSE /\ s.split = FALSE /\ s.values = <<>>
      /\ s.entries = [j \in DOMAIN items |-> [key |-> items[j][1], value |-> items[j][2]]]
  BY DEF Combined
<1>3. /\ DOMAIN s.entries = 1..Len(items) /\ Len(s.entries) = Len(items)
      /\ \A j \in DOMAIN items : /\ s.entries[j].key = items[j][1]
                                 /\ s.entries[j].value = items[j][2]
  BY <1>2, Shape
<1>5. ~D!IsSet(Source) /\ Source.layout \notin D!Hashed
  BY <1>1, <1>2 DEF D!IsSet, D!SetLayouts, D!Hashed
<1>6. D!TypeOK
  <2>1. s.entries \in Seq(D!Entry)
    BY <1>2, Shape DEF D!Entry
  <2>2. s.values \in Seq(Values \cup {NULL})
    BY <1>2
  <2>3. s \in D!DictRecord
    BY <2>1, <2>2 DEF Combined, D!DictRecord, D!Layouts
  <2>4. items \in Seq(Keys \X (Values \cup {NULL}))
    BY DEF TypeOK
  <2> QED  BY <1>1, <2>3, <2>4 DEF D!TypeOK
<1>7. D!LaidOut
  <2>1. D!WellFormed(Source)
    BY <1>1, <1>2, <1>5 DEF D!WellFormed, D!Sizes
  <2> QED  BY <1>1, <1>2, <1>5, <2>1 DEF D!LaidOut, D!IndexBytes
<1>8. \A j \in DOMAIN items : D!KeyAt(j) = items[j][1] /\ D!ValueAt(Source, j) = items[j][2]
  BY <1>1, <1>2, <1>3 DEF D!KeyAt, D!ValueAt, D!IsCombined
<1>9. \A j \in DOMAIN items : items[j][2] # NULL
  BY Shape, DictAssumption
<1>10. DOMAIN Source.entries = DOMAIN items
  BY <1>1, <1>2
<1>11. \A j \in DOMAIN items : D!Carries(j)
  BY <1>8, <1>9, Shape DEF D!Carries
<1>12. D!Tidy
  BY <1>1, <1>2, <1>5, <1>8, <1>10, <1>11, Shape DEF D!Tidy, Held
<1>13. D!SamePairs
  BY <1>8, <1>10, <1>11, Shape DEF D!SamePairs
<1>14. D!SameOrder
  BY <1>1, <1>2, <1>8, <1>10 DEF D!SameOrder, D!KeepsOrder, Held
<1> QED  BY <1>6, <1>7, <1>12, <1>13, <1>14 DEF D!ContentInv

(* Reading the array by its own loop or through a dict over it is the same. *)
LEMMA ArrayAsDict ==
    ASSUME TypeOK, Held, InTheArray, valid
    PROVE  ManagedPairValues = D!PairValues(Source)
<1> DEFINE occupied == {k \in DOMAIN keys : array[k] # NULL}
<1>1. /\ Source.entries = [k \in DOMAIN keys |-> [key |-> keys[k], value |-> NULL]]
      /\ Source.layout = "kinds" /\ Source.split = TRUE /\ Source.values = array
  BY DEF Source, Split
<1>2. \A k \in DOMAIN keys : /\ Source.entries[k].key = keys[k]
                             /\ D!ValueAt(Source, k) = array[k]
  BY <1>1 DEF D!ValueAt, D!IsCombined
<1>3. D!FindsEntries(Source) /\ D!TableSize(Source) = Len(Source.entries)
  BY SplitDict, DictConstants, D!FindsAll DEF D!ContentInv
<1>4. D!TableSize(Source) = Len(keys)
  BY <1>1, <1>3, Shape
<1>5. D!Occupied(Source) = occupied
  BY <1>2, <1>4, Shape, DictAssumption DEF D!Occupied
<1>6. occupied \in SUBSET (1..Len(keys))
  BY Shape
<1>7. \A j : D!Nth(occupied, j) = Nth(occupied, j)
  BY SameCount DEF D!Nth, Nth
<1>8. ASSUME NEW j \in 1..Cardinality(occupied)
      PROVE  Nth(occupied, j) \in DOMAIN keys
  BY <1>6, Shape, NthIsIn
<1>9. ManagedPairValues = [j \in 1..Cardinality(occupied) |->
                             <<keys[Nth(occupied, j)], array[Nth(occupied, j)]>>]
  BY DEF ManagedPairValues
<1>10. D!PairValues(Source) = [j \in 1..Cardinality(occupied) |->
          LET k == D!Nth(occupied, j) IN <<Source.entries[k].key, D!ValueAt(Source, k)>>]
  BY <1>3, <1>5, SameCount DEF D!PairValues
<1> QED  BY <1>2, <1>7, <1>8, <1>9, <1>10

LEMMA SamePairValues == PairValues(Source) = D!PairValues(Source)
<1>1. Hashed = D!Hashed
  BY DEF Hashed, SetLayouts, D!Hashed, D!SetLayouts
<1>2. FindsEntries(Source) = D!FindsEntries(Source) /\ TableSize(Source) = D!TableSize(Source)
  BY <1>1 DEF FindsEntries, TableSize, IndexSize, D!FindsEntries, D!TableSize, D!IndexSize
<1>3. \A k : ValueAt(Source, k) = D!ValueAt(Source, k)
  BY DEF ValueAt, IsCombined, D!ValueAt, D!IsCombined
<1>4. Occupied(Source) = D!Occupied(Source)
  BY <1>2, <1>3 DEF Occupied, D!Occupied
<1>5. \A S, j : Nth(S, j) = D!Nth(S, j)
  BY SameCount DEF Nth, D!Nth
<1> QED  BY <1>2, <1>3, <1>4, <1>5, SameCount DEF PairValues, D!PairValues

(* Whatever holds the attributes lists the items. *)
LEMMA SourceIsListed ==
    ASSUME TypeOK, Held, InTheArray
    PROVE  /\ Len(PairValues(Source)) = Len(items)
           /\ {PairValues(Source)[j] : j \in DOMAIN PairValues(Source)}
                = {items[j] : j \in DOMAIN items}
<1>1. D!ContentInv
  BY SplitDict, CombinedDict DEF TypeOK
<1>2. D!ListsTheMapping
  BY <1>1, DictConstants, D!MappingFollows
<1>3. ~D!IsSet(Source)
  BY DEF D!IsSet, D!SetLayouts, Source, Split, Combined
<1> QED  BY <1>2, <1>3, SamePairValues DEF D!ListsTheMapping

-----------------------------------------------------------------------------

(* PyObject::dict rounds the same sum up as CPython, since the offset is a *)
(* multiple of the word.                                                   *)
LEMMA AlignedPlace ==
    ASSUME TypeOK, ~type.managed, ~SizeInTag
    PROVE  /\ DictOffset = DictPlace /\ TpDictOffset # 0
           /\ DictPlace # -3 * Word /\ ~(DictPlace >= ObjectSize)
<1>1. /\ type.basic \in Nat /\ type.item \in Nat /\ type.dictoffset \in Int
      /\ type.dictoffset # 0 /\ type.dictoffset % 8 = 0
      /\ type.basic + type.dictoffset >= 0 /\ type.dictoffset < type.basic
  BY InstanceAssumption, TypeAssumption DEF TypeOK, TypeRecord
<1> DEFINE A == Absolute(obSize) * type.item
<1>2. Absolute(obSize) \in Nat /\ Size = obSize /\ TpDictOffset = type.dictoffset
  BY DEF TypeOK, Absolute, Size, TpDictOffset
<1>3. A \in Nat
  BY <1>1, <1>2
<1>4. ObjectSize = Align(type.basic + A)
  BY DEF ObjectSize
<1> HIDE DEF A
<1>5. Align(type.basic + A) \in Int /\ Align(type.basic + A) >= type.basic
  BY <1>1, <1>3 DEF Align, Word
<1>6. CASE type.dictoffset >= 0
  BY <1>1, <1>2, <1>4, <1>5, <1>6 DEF DictOffset, DictPlace, Word
<1>7. CASE type.dictoffset < 0
  <2>1. DictOffset = Align(type.dictoffset + type.basic + A)
    BY <1>1, <1>2, <1>7 DEF DictOffset, A
  <2>2. DictPlace = Align(type.basic + A) + type.dictoffset
    BY <1>1, <1>4, <1>7 DEF DictPlace
  <2>3. Align(type.dictoffset + type.basic + A) = Align(type.basic + A) + type.dictoffset
    BY <1>1, <1>3 DEF Align, Word
  <2> QED  BY <1>1, <1>2, <1>4, <1>5, <1>7, <2>1, <2>2, <2>3 DEF Word
<1> QED  BY <1>1, <1>6, <1>7

(* The word behind an object with a managed dict of 3.12 or later. *)
LEMMA BehindTheObject ==
    ASSUME TypeOK, type.managed, version \in {"3.12", "3.13"}
    PROVE  WordAt(DictOffset) = beyond
<1>1. type.basic \in Nat /\ type.item = 0 /\ type.basic % 8 = 0
  BY InstanceAssumption, TypeAssumption DEF TypeOK, TypeRecord
<1>2. Absolute(Size) * 0 = 0 /\ Absolute(obSize) * 0 = 0
  <2>1. obSize \in Int
    BY DEF TypeOK
  <2>2. Absolute(obSize) \in Int
    BY <2>1 DEF Absolute
  <2>3. Size \in Int
    BY <2>1, <2>2 DEF Size
  <2>4. Absolute(Size) \in Int
    BY <2>3 DEF Absolute
  <2> QED  BY <2>2, <2>4
<1>3. TpDictOffset = -1
  BY DEF TpDictOffset
<1>4. DictOffset = Align(-1 + type.basic)
  <2>1. DictOffset = Align(TpDictOffset + type.basic + Absolute(Size) * type.item)
    BY <1>3 DEF DictOffset
  <2> QED  BY <1>1, <1>2, <1>3, <2>1
<1>5. ObjectSize = Align(type.basic)
  BY <1>1, <1>2 DEF ObjectSize
<1>6. Align(-1 + type.basic) = type.basic /\ Align(type.basic) = type.basic
  BY <1>1 DEF Align, Word
<1>7. DictOffset = type.basic /\ ObjectSize = type.basic /\ -3 * Word # type.basic
  BY <1>1, <1>4, <1>5, <1>6 DEF Word
<1> QED  BY <1>1, <1>7 DEF WordAt

(* In 3.11 tp_dictoffset leads to the word at -3. *)
LEMMA BeforeTheObject ==
    ASSUME TypeOK, type.managed, version = "3.11"
    PROVE  WordAt(DictOffset) = below3
<1>1. type.basic \in Nat /\ type.item = 0
  BY InstanceAssumption, TypeAssumption DEF TypeOK, TypeRecord
<1>2. Size = obSize /\ obSize \in Int
  BY DEF TypeOK, Size, SizeInTag
<1>3. Absolute(obSize) \in Int
  BY <1>2 DEF Absolute
<1>4. TpDictOffset = -type.basic - 24 /\ TpDictOffset < 0
  BY <1>1 DEF TpDictOffset, Word
<1>5. DictOffset = Align(0 - 24)
  <2>1. DictOffset = Align(TpDictOffset + type.basic + Absolute(Size) * type.item)
    BY <1>4 DEF DictOffset
  <2> QED  BY <1>1, <1>2, <1>3, <1>4, <2>1
<1>6. Align(0 - 24) = 0 - 24
  <2>1. \A n \in Int : n % 8 = 0 => Align(n) = n
    BY DEF Align, Word
  <2>2. 0 - 24 \in Int /\ (0 - 24) % 8 = 0
    OBVIOUS
  <2> QED  BY <2>1, <2>2
<1>7. -3 * Word = 0 - 24
  BY DEF Word
<1>8. ~(0 - 24 >= ObjectSize)
  <2>1. ObjectSize = Align(type.basic)
    BY <1>1, <1>3 DEF ObjectSize
  <2> QED  BY <1>1, <2>1 DEF Align, Word
<1> QED  BY <1>5, <1>6, <1>7, <1>8 DEF WordAt

LEMMA WordsLead == ASSUME TypeOK, Placed PROVE LeadsThere
<1> SUFFICES ASSUME ~SizeInTag
             PROVE  /\ FoundIn = "dict" <=> HasDict
                    /\ valid /\ ~HasDict => FoundIn = "values"
  BY DEF LeadsThere
<1>1. CASE ~type.managed
  <2>1. ManagedDict = "none"
    BY <1>1 DEF ManagedDict, IsManagedDict
  <2>2. FoundIn = atOffset
    BY <1>1, <2>1, AlignedPlace DEF FoundIn, WordAt
  <2> QED  BY <1>1, <2>2 DEF Placed, HasDict
<1>2. CASE type.managed
  <2>1. version \in {"3.11", "3.12", "3.13"}
    BY <1>2, InstanceAssumption DEF TypeOK, Placed
  <2>2. HasDict <=> below3 = "dict"
    BY <1>2 DEF Placed, HasDict
  <2>3. HasDict => ManagedDict = "dict"
    <3>1. CASE version = "3.11"
      BY <1>2, <2>2, <3>1 DEF Placed, ManagedDict, IsManagedDict
    <3>2. CASE version = "3.12"
      BY <1>2, <2>2, <3>2 DEF Placed, ManagedDict, IsManagedDict
    <3>3. CASE version = "3.13"
      BY <1>2, <2>2, <3>3 DEF Placed, ManagedDict, IsManagedDict
    <3> QED  BY <2>1, <3>1, <3>2, <3>3
  <2>4. ~HasDict => ManagedDict \in {"none", "values"}
    BY <1>2, <2>1, <2>2 DEF Placed, ManagedDict, IsManagedDict
  <2>5. valid /\ ~HasDict => ManagedDict = "values"
    BY <1>2, <2>1, <2>2 DEF Placed, ManagedDict, IsManagedDict, HasInlineValues
  <2>6. ~HasDict => WordAt(DictOffset) # "dict"
    BY <1>2, <2>2, InstanceAssumption DEF TypeOK, WordAt
  <2> QED  BY <2>3, <2>4, <2>5, <2>6 DEF FoundIn
<1> QED  BY <1>1, <1>2

(* Without array and dict no other word is read as a dict. *)
LEMMA NothingFound ==
    ASSUME TypeOK, Placed, ~SizeInTag, ReadsBeyond => beyond = "null", ~HasDict, ~valid
    PROVE  FoundIn \in {"none", "null", "values"}
<1>1. CASE ~type.managed
  <2>1. ManagedDict = "none"
    BY <1>1 DEF ManagedDict, IsManagedDict
  <2>2. FoundIn = atOffset
    BY <1>1, <2>1, AlignedPlace DEF FoundIn, WordAt
  <2> QED  BY <1>1, <2>2 DEF Placed, HasDict
<1>2. CASE type.managed
  <2>1. version \in {"3.11", "3.12", "3.13"}
    BY <1>2, InstanceAssumption DEF TypeOK, Placed
  <2>2. below3 = "null" /\ (version = "3.11" => below4 = "null")
    BY <1>2 DEF Placed, HasDict
  <2>3. CASE version = "3.11"
    <3>1. ManagedDict = "none"
      BY <1>2, <2>2, <2>3 DEF ManagedDict, IsManagedDict
    <3> QED  BY <1>2, <2>2, <2>3, <3>1, BeforeTheObject DEF FoundIn
  <2>4. CASE version = "3.12"
    <3>1. ManagedDict = "none" /\ ~type.inline
      BY <1>2, <2>2, <2>4 DEF ManagedDict, IsManagedDict, Placed
    <3>2. beyond = "null"
      BY <1>2, <2>4, <3>1 DEF ReadsBeyond, IsManagedDict, HasInlineValues
    <3> QED  BY <1>2, <2>4, <3>1, <3>2, BehindTheObject DEF FoundIn
  <2>5. CASE version = "3.13"
    <3>1. CASE type.inline
      <4>1. ManagedDict = "values"
        BY <1>2, <2>2, <2>5, <3>1 DEF ManagedDict, IsManagedDict, HasInlineValues
      <4> QED  BY <4>1 DEF FoundIn
    <3>2. CASE ~type.inline
      <4>1. ManagedDict = "none"
        BY <1>2, <2>2, <2>5, <3>2 DEF ManagedDict, IsManagedDict, HasInlineValues
      <4>2. beyond = "null"
        BY <1>2, <2>5, <3>2 DEF ReadsBeyond, IsManagedDict, HasInlineValues
      <4> QED  BY <1>2, <2>5, <4>1, <4>2, BehindTheObject DEF FoundIn
    <3> QED  BY <3>1, <3>2 DEF Placed, TypeOK
  <2> QED  BY <2>1, <2>3, <2>4, <2>5
<1> QED  BY <1>1, <1>2

(* What the invariant was found for. *)
LEMMA AttributesFollow == InductiveInv => ShowsTheAttributes
<1> SUFFICES ASSUME InductiveInv, ~SizeInTag, ReadsBeyond => beyond = "null"
             PROVE  /\ Len(Attributes) = Len(items)
                    /\ {Attributes[j] : j \in DOMAIN Attributes} = {items[j] : j \in DOMAIN items}
  BY DEF ShowsTheAttributes
<1>1. TypeOK /\ Placed /\ Held /\ InTheArray /\ LeadsThere
  BY DEF InductiveInv
<1>2. CASE HasDict
  <2>1. Attributes = PairValues(Source)
    BY <1>1, <1>2 DEF LeadsThere, Held, Attributes
  <2> QED  BY <1>1, <2>1, SourceIsListed
<1>3. CASE ~HasDict /\ valid
  <2>1. Attributes = ManagedPairValues
    BY <1>1, <1>3 DEF LeadsThere, Attributes
  <2>2. Attributes = PairValues(Source)
    BY <1>1, <1>3, <2>1, ArrayAsDict, SamePairValues
  <2> QED  BY <1>1, <2>2, SourceIsListed
<1>4. CASE ~HasDict /\ ~valid
  <2>1. items = <<>> /\ array = EmptyArray
    BY <1>1, <1>4 DEF Held
  <2>2. {k \in DOMAIN keys : array[k] # NULL} = {}
    BY <1>1, <2>1, Shape DEF EmptyArray
  <2>3. ManagedPairValues = <<>>
    <3>1. \A S : S = {} => Cardinality(S) = 0
      BY FS_EmptySet
    <3>2. 1..Cardinality({k \in DOMAIN keys : array[k] # NULL}) = {}
      BY <2>2, <3>1
    <3> QED  BY <3>2 DEF ManagedPairValues
  <2>4. FoundIn \in {"none", "null", "values"}
    BY <1>1, <1>4, NothingFound
  <2>5. Attributes = <<>>
    BY <2>3, <2>4 DEF Attributes
  <2> QED  BY <2>1, <2>5
<1> QED  BY <1>2, <1>3, <1>4

-----------------------------------------------------------------------------

(* w is items with x set to v: the other items and the new one. *)
HasItem(w, x, v) ==
    /\ w \in Seq(Keys \X Values)
    /\ \A i, j \in DOMAIN w : w[i][1] = w[j][1] => i = j
    /\ \E j \in DOMAIN w : w[j] = <<x, v>>
    /\ \A j \in DOMAIN w : \/ w[j] = <<x, v>>
                           \/ \E i \in DOMAIN items : items[i] = w[j] /\ items[i][1] # x
    /\ \A i \in DOMAIN items : items[i][1] # x => \E j \in DOMAIN w : w[j] = items[i]

(* That is what SetInArray and SetInDict make of the items. *)
LEMMA ItemSet ==
    ASSUME TypeOK, \A i, j \in DOMAIN items : items[i][1] = items[j][1] => i = j,
           NEW x \in Keys, NEW v \in Values,
           NEW w, w = With(items, x, v)
    PROVE  HasItem(w, x, v)
<1> SUFFICES
      /\ w \in Seq(Keys \X Values)
      /\ \A i, j \in DOMAIN w : w[i][1] = w[j][1] => i = j
      /\ \E j \in DOMAIN w : w[j] = <<x, v>>
      /\ \A j \in DOMAIN w : \/ w[j] = <<x, v>>
                             \/ \E i \in DOMAIN items : items[i] = w[j] /\ items[i][1] # x
      /\ \A i \in DOMAIN items : items[i][1] # x => \E j \in DOMAIN w : w[j] = items[i]
  BY Zenon DEF HasItem
<1>1. DOMAIN items = 1..Len(items) /\ Len(items) \in Nat
  BY Shape
<1>2. CASE x \in KeysOf(items)
  <2>1. w = [j \in DOMAIN items |-> IF items[j][1] = x THEN <<x, v>> ELSE items[j]]
    BY <1>2 DEF With
  <2>2. PICK h \in DOMAIN items : items[h][1] = x
    BY <1>2 DEF KeysOf
  <2>3. \A j \in DOMAIN items : w[j] \in Keys \X Values /\ w[j][1] = items[j][1]
    BY <2>1, Shape
  <2>4. DOMAIN w = DOMAIN items
    BY <2>1
  <2>5. w \in Seq(Keys \X Values)
    BY <1>1, <2>1, <2>3
  <2>6. \A i, j \in DOMAIN w : w[i][1] = w[j][1] => i = j
    BY <2>3, <2>4
  <2>7. w[h] = <<x, v>> /\ h \in DOMAIN w
    BY <2>1, <2>2, <2>4
  <2>8. \A j \in DOMAIN w : w[j] = <<x, v>> \/ (w[j] = items[j] /\ items[j][1] # x)
    BY <2>1, <2>4
  <2>9. \A i \in DOMAIN items : items[i][1] # x => w[i] = items[i]
    BY <2>1
  <2> QED  BY <2>4, <2>5, <2>6, <2>7, <2>8, <2>9
<1>3. CASE x \notin KeysOf(items)
  <2>1. w = Append(items, <<x, v>>)
    BY <1>3 DEF With
  <2>2. \A j \in DOMAIN items : items[j][1] # x
    BY <1>3 DEF KeysOf
  <2>3. /\ DOMAIN w = 1..Len(items) + 1 /\ w[Len(items) + 1] = <<x, v>>
        /\ \A j \in DOMAIN items : w[j] = items[j] /\ j \in DOMAIN w
    BY <1>1, <2>1 DEF TypeOK
  <2>4. w \in Seq(Keys \X Values)
    BY <2>1 DEF TypeOK
  <2>5. \A j \in DOMAIN w : j \in DOMAIN items \/ j = Len(items) + 1
    BY <1>1, <2>3
  <2>6. \A i, j \in DOMAIN w : w[i][1] = w[j][1] => i = j
    <3>1. \A j \in DOMAIN items : w[j][1] = items[j][1] /\ w[j][1] # x
      BY <2>2, <2>3
    <3>2. w[Len(items) + 1][1] = x
      BY <2>3
    <3> QED  BY <2>5, <3>1, <3>2
  <2>7. Len(items) + 1 \in DOMAIN w
    BY <1>1, <2>3
  <2>8. \A j \in DOMAIN w : w[j] = <<x, v>> \/ (j \in DOMAIN items /\ w[j] = items[j])
    BY <2>3, <2>5
  <2> QED  BY <2>2, <2>3, <2>4, <2>6, <2>7, <2>8
<1> QED  BY <1>2, <1>3

(* The items after one is deleted are the others. *)
LEMMA ItemGone ==
    ASSUME TypeOK, \A i, j \in DOMAIN items : items[i][1] = items[j][1] => i = j,
           NEW h \in DOMAIN items,
           NEW w, w = Without(items, h)
    PROVE  /\ w \in Seq(Keys \X Values)
           /\ \A i, j \in DOMAIN w : w[i][1] = w[j][1] => i = j
           /\ \A j \in DOMAIN w : \E i \in DOMAIN items : items[i] = w[j] /\ i # h
           /\ \A i \in DOMAIN items : i # h => \E j \in DOMAIN w : w[j] = items[i]
<1>1. DOMAIN items = 1..Len(items) /\ Len(items) \in Nat /\ h \in 1..Len(items)
  BY Shape
<1> DEFINE From(j) == IF j < h THEN j ELSE j + 1
<1>2. w = [j \in 1..Len(items) - 1 |-> items[From(j)]]
  BY DEF Without
<1>3. \A j \in 1..Len(items) - 1 : From(j) \in DOMAIN items /\ From(j) # h
  BY <1>1
<1>4. \A i, j \in 1..Len(items) - 1 : From(i) = From(j) => i = j
  BY <1>1
<1>5. \A i \in DOMAIN items : i # h => \E j \in 1..Len(items) - 1 : From(j) = i
  <2>1. ASSUME NEW i \in DOMAIN items, i # h
        PROVE  \E j \in 1..Len(items) - 1 : From(j) = i
    <3>1. CASE i < h
      <4>1. i \in 1..Len(items) - 1 /\ From(i) = i
        BY <1>1, <3>1
      <4> QED  BY <4>1
    <3>2. CASE i > h
      <4>1. i - 1 \in 1..Len(items) - 1 /\ From(i - 1) = i
        BY <1>1, <3>2
      <4> QED  BY <4>1
    <3> QED  BY <1>1, <2>1, <3>1, <3>2
  <2> QED  BY <2>1
<1> HIDE DEF From
<1>6. \A j \in 1..Len(items) - 1 : w[j] = items[From(j)]
  BY <1>2
<1>7. w \in Seq(Keys \X Values)
  <2>1. \A j \in DOMAIN items : items[j] \in Keys \X Values
    BY Shape DEF TypeOK
  <2>2. Len(items) - 1 \in Nat
    BY <1>1
  <2> QED  BY <1>2, <1>3, <2>1, <2>2
<1>8. DOMAIN w = 1..Len(items) - 1
  BY <1>2
<1>9. \A i, j \in DOMAIN w : w[i][1] = w[j][1] => i = j
  BY <1>3, <1>4, <1>6, <1>8
<1>10. \A j \in DOMAIN w : \E i \in DOMAIN items : items[i] = w[j] /\ i # h
  BY <1>3, <1>6, <1>8
<1>11. \A i \in DOMAIN items : i # h => \E j \in DOMAIN w : w[j] = items[i]
  BY <1>5, <1>6, <1>8
<1> QED  BY <1>7, <1>9, <1>10, <1>11

(* The shared keys after a key got its place among them. *)
LEMMA KeyPlaced ==
    ASSUME TypeOK, \A k, l \in DOMAIN keys : keys[k] = keys[l] => k = l,
           NEW x \in Keys, NEW names,
           \/ x \in {keys[k] : k \in DOMAIN keys} /\ names = keys
           \/ /\ x \notin {keys[k] : k \in DOMAIN keys} /\ Len(keys) < MaxKeys
              /\ names = Append(keys, x)
    PROVE  /\ names \in Seq(Keys) /\ Len(names) <= MaxKeys
           /\ \A k, l \in DOMAIN names : names[k] = names[l] => k = l
           /\ \A k \in DOMAIN keys : k \in DOMAIN names /\ names[k] = keys[k]
           /\ \A k \in DOMAIN names \ DOMAIN keys : names[k] = x /\ k \in DOMAIN array
           /\ PlaceOf(names, x) \in DOMAIN names /\ names[PlaceOf(names, x)] = x
<1>1. DOMAIN keys = 1..Len(keys) /\ Len(keys) \in Nat /\ DOMAIN array = 1..MaxKeys
  BY Shape
<1>2. (\E k \in DOMAIN names : names[k] = x) =>
         PlaceOf(names, x) \in DOMAIN names /\ names[PlaceOf(names, x)] = x
  BY DEF PlaceOf
<1>3. CASE x \in {keys[k] : k \in DOMAIN keys} /\ names = keys
  BY <1>2, <1>3 DEF TypeOK
<1>4. CASE /\ x \notin {keys[k] : k \in DOMAIN keys} /\ Len(keys) < MaxKeys
           /\ names = Append(keys, x)
  <2>1. \A k \in DOMAIN keys : keys[k] # x
    BY <1>4
  <2>2. /\ DOMAIN names = 1..Len(keys) + 1 /\ names[Len(keys) + 1] = x
        /\ \A k \in DOMAIN keys : names[k] = keys[k] /\ k \in DOMAIN names
        /\ Len(names) = Len(keys) + 1
    <3>1. keys \in Seq(Keys) /\ names = Append(keys, x)
      BY <1>4 DEF TypeOK
    <3>2. Len(names) = Len(keys) + 1 /\ DOMAIN names = 1..Len(keys) + 1
      BY <3>1
    <3>3. \A k \in 1..Len(keys) : names[k] = keys[k]
      BY <3>1
    <3>4. names[Len(keys) + 1] = x
      BY <3>1
    <3> QED  BY <1>1, <3>2, <3>3, <3>4
  <2>3. names \in Seq(Keys)
    BY <1>4 DEF TypeOK
  <2>4. Len(names) <= MaxKeys /\ Len(keys) + 1 \in 1..MaxKeys
    <3>1. MaxKeys \in Nat /\ Len(keys) < MaxKeys
      BY <1>4, Shape, Zenon
    <3>2. Len(keys) \in Nat /\ Len(names) = Len(keys) + 1
      BY <1>1, <2>2
    <3> DEFINE n == Len(keys)
               m == Len(names)
    <3>3. MaxKeys \in Nat /\ n < MaxKeys /\ n \in Nat /\ m = n + 1
      BY <3>1, <3>2
    <3> HIDE DEF n, m
    <3>4. m <= MaxKeys /\ n + 1 \in 1..MaxKeys
      BY <3>3
    <3> QED  BY <3>4 DEF n, m
  <2>5. \A k \in DOMAIN names : k \in DOMAIN keys \/ k = Len(keys) + 1
    BY <1>1, <2>2
  <2>6. Len(keys) + 1 \in DOMAIN names
    BY <1>1, <2>2
  <2> QED  BY <1>1, <1>2, <2>1, <2>2, <2>3, <2>4, <2>5, <2>6
<1> QED  BY <1>3, <1>4

-----------------------------------------------------------------------------

LEMMA InitHolds == Init => InductiveInv
<1> SUFFICES ASSUME Init PROVE InductiveInv
  OBVIOUS
<1>1. type \in Types /\ version \in Versions /\ beyond \in BeyondWords
  BY DEF Init
<1>2. obSize \in Int
  <2>1. {0} \subseteq Int /\ Sizes \subseteq Int
    BY InstanceAssumption
  <2> QED  BY <2>1 DEF Init
<1>3. type.managed \in BOOLEAN /\ type.inline \in BOOLEAN /\ (type.inline => type.managed)
  BY <1>1, InstanceAssumption, TypeAssumption DEF TypeRecord
<1>4. /\ type.managed => version # "3.10"
      /\ type.inline => version = "3.13"
  BY DEF Init
<1>5. /\ valid \in BOOLEAN
      /\ valid => type.managed /\ (version = "3.13" => type.inline)
  <2>1. CASE type.managed /\ version \in {"3.11", "3.12"}
    BY <2>1 DEF Init
  <2>2. CASE ~(type.managed /\ version \in {"3.11", "3.12"})
    BY <1>3, <2>2 DEF Init
  <2> QED  BY <2>1, <2>2
<1>6. /\ keys = <<>> /\ items = <<>> /\ array = EmptyArray /\ atOffset = "null"
      /\ below3 = IF version = "3.12" /\ valid THEN "values" ELSE "null"
      /\ below4 = IF version # "3.11" THEN "weakref" ELSE IF valid THEN "values" ELSE "null"
  BY DEF Init
<1>7. ~HasDict
  BY <1>6 DEF HasDict
<1>8. TypeOK
  <2>1. Len(keys) <= MaxKeys
    BY <1>6, InstanceAssumption
  <2> QED  BY <1>1, <1>2, <1>5, <1>6, <2>1 DEF TypeOK, EmptyArray
<1>9. Placed
  BY <1>4, <1>5, <1>6, <1>7 DEF Placed
<1>10. Held
  BY <1>6, <1>7 DEF Held
<1>11. InTheArray
  BY <1>6 DEF InTheArray, EmptyArray
<1> QED  BY <1>8, <1>9, <1>10, <1>11, WordsLead DEF InductiveInv

LEMMA SetInArrayKeeps ==
    ASSUME InductiveInv, NEW x \in Keys, NEW v \in Values, SetInArray(x, v)
    PROVE  TypeOK' /\ Placed' /\ Held' /\ InTheArray'
<1>1. TypeOK /\ Placed /\ Held /\ InTheArray /\ valid
  BY DEF InductiveInv, SetInArray
<1>2. /\ version' = version /\ type' = type /\ obSize' = obSize /\ beyond' = beyond
      /\ below4' = below4 /\ below3' = below3 /\ atOffset' = atOffset /\ valid' = valid
  BY DEF SetInArray, layout
<1> DEFINE place == PlaceOf(keys', x)
<1>3. /\ keys' \in Seq(Keys) /\ Len(keys') <= MaxKeys
      /\ \A k, l \in DOMAIN keys' : keys'[k] = keys'[l] => k = l
      /\ \A k \in DOMAIN keys : k \in DOMAIN keys' /\ keys'[k] = keys[k]
      /\ \A k \in DOMAIN keys' \ DOMAIN keys : keys'[k] = x /\ k \in DOMAIN array
      /\ place \in DOMAIN keys' /\ keys'[place] = x
  <2>1. \/ x \in {keys[k] : k \in DOMAIN keys} /\ keys' = keys
        \/ /\ x \notin {keys[k] : k \in DOMAIN keys} /\ Len(keys) < MaxKeys
           /\ keys' = Append(keys, x)
    BY DEF SetInArray
  <2>2. \A k, l \in DOMAIN keys : keys[k] = keys[l] => k = l
    BY <1>1 DEF Held
  <2> QED  BY <1>1, <2>1, <2>2, KeyPlaced
<1> HIDE DEF place
<1>4. array' = [array EXCEPT ![place] = v]
  BY DEF SetInArray, place
<1>5. place \in DOMAIN array /\ \A k \in DOMAIN keys' : k \in DOMAIN array
  BY <1>1, <1>3, Shape
<1>6. DOMAIN array' = DOMAIN array /\ array'[place] = v
  BY <1>1, <1>4, <1>5 DEF TypeOK
<1>7. \A k \in DOMAIN array : k # place => array'[k] = array[k]
  BY <1>4
<1>8. /\ items' \in Seq(Keys \X Values)
      /\ \A i, j \in DOMAIN items' : items'[i][1] = items'[j][1] => i = j
      /\ \E j \in DOMAIN items' : items'[j] = <<x, v>>
      /\ \A j \in DOMAIN items' : \/ items'[j] = <<x, v>>
                                   \/ \E i \in DOMAIN items : items[i] = items'[j] /\ items[i][1] # x
      /\ \A i \in DOMAIN items : items[i][1] # x => \E j \in DOMAIN items' : items'[j] = items[i]
  <2>1. items' = With(items, x, v)
    BY DEF SetInArray
  <2>2. \A i, j \in DOMAIN items : items[i][1] = items[j][1] => i = j
    BY <1>1 DEF Held
  <2> DEFINE w == items'
  <2>3. w = With(items, x, v) /\ TypeOK /\ x \in Keys /\ v \in Values
    BY <1>1, <2>1
  <2> HIDE DEF w
  <2>4. HasItem(w, x, v)
    BY <2>2, <2>3, ItemSet
  <2> QED  BY <2>4, Zenon DEF w, HasItem
<1>9. TypeOK'
  <2>1. array' \in [1..MaxKeys -> Values \cup {NULL}]
    BY <1>1, <1>4 DEF TypeOK
  <2> QED  BY <1>1, <1>2, <1>3, <1>8, <2>1 DEF TypeOK
<1>10. HasDict' <=> HasDict
  BY <1>2 DEF HasDict
<1>11. Placed'
  BY <1>1, <1>2, <1>10 DEF Placed
<1>12. Held'
  <2>1. HasDict' => dict' = Source'
    BY <1>1, <1>2, <1>10 DEF SetInArray, Source
  <2> QED  BY <1>1, <1>2, <1>3, <1>8, <2>1 DEF Held
<1>13. InTheArray'
  <2>1. ASSUME NEW k \in DOMAIN array' \ DOMAIN keys' PROVE array'[k] = NULL
    <3>1. k \in DOMAIN array \ DOMAIN keys /\ k # place
      BY <1>3, <1>6, <2>1
    <3> QED  BY <1>1, <1>7, <3>1 DEF InTheArray
  <2>2. ASSUME NEW j \in DOMAIN items'
        PROVE  \E k \in DOMAIN keys' : items'[j] = <<keys'[k], array'[k]>>
    <3>1. CASE items'[j] = <<x, v>>
      BY <1>3, <1>6, <3>1
    <3>2. CASE \E i \in DOMAIN items : items[i] = items'[j] /\ items[i][1] # x
      <4>1. PICK i \in DOMAIN items : items[i] = items'[j] /\ items[i][1] # x
        BY <3>2
      <4>2. PICK k \in DOMAIN keys : items[i] = <<keys[k], array[k]>>
        BY <1>1 DEF InTheArray
      <4>3. k # place /\ k \in DOMAIN array /\ k \in DOMAIN keys' /\ keys'[k] = keys[k]
        BY <1>3, <1>5, <4>1, <4>2
      <4> QED  BY <1>7, <4>1, <4>2, <4>3
    <3> QED  BY <1>8, <3>1, <3>2
  <2>3. ASSUME NEW k \in DOMAIN keys', array'[k] # NULL
        PROVE  \E j \in DOMAIN items' : items'[j] = <<keys'[k], array'[k]>>
    <3>1. CASE k = place
      BY <1>3, <1>6, <1>8, <3>1
    <3>2. CASE k # place
      <4>1. k \in DOMAIN keys /\ keys'[k] # x
        BY <1>3, <3>2
      <4>2. keys'[k] = keys[k] /\ array'[k] = array[k]
        BY <1>3, <1>5, <1>7, <3>2, <4>1
      <4>3. PICK i \in DOMAIN items : items[i] = <<keys[k], array[k]>>
        BY <1>1, <2>3, <4>1, <4>2 DEF InTheArray
      <4>4. items[i][1] # x
        BY <4>1, <4>2, <4>3
      <4> QED  BY <1>8, <4>2, <4>3, <4>4
    <3> QED  BY <3>1, <3>2
  <2> QED  BY <2>1, <2>2, <2>3 DEF InTheArray
<1> QED  BY <1>9, <1>11, <1>12, <1>13

(* A dict that is pointed to is found. *)
LEMMA DictPlaced ==
    ASSUME TypeOK, Placed, PointToDict, UNCHANGED layout,
           valid' \in BOOLEAN, valid' => valid
    PROVE  HasDict' /\ Placed'
<1>1. version' = version /\ type' = type
  BY DEF layout
<1>2. CASE type.managed
  <2>1. /\ below3' = "dict" /\ atOffset' = "null"
        /\ version = "3.11" => below4' = "null"
    BY <1>2 DEF PointToDict, Placed
  <2>2. HasDict'
    BY <2>1 DEF HasDict
  <2> QED  BY <1>1, <1>2, <2>1, <2>2 DEF Placed
<1>3. CASE ~type.managed
  <2>1. atOffset' = "dict" /\ below3' = "null"
    BY <1>3 DEF PointToDict, Placed
  <2> QED  BY <1>1, <1>3, <2>1 DEF Placed, HasDict
<1> QED  BY <1>2, <1>3

LEMMA SetInDictKeeps ==
    ASSUME InductiveInv, NEW x \in Keys, NEW v \in Values, SetInDict(x, v)
    PROVE  TypeOK' /\ Placed' /\ Held' /\ InTheArray'
<1>1. TypeOK /\ Placed /\ Held
  BY DEF InductiveInv
<1>2. /\ version' = version /\ type' = type /\ obSize' = obSize /\ beyond' = beyond
      /\ keys' = keys /\ valid' = FALSE /\ array' = EmptyArray
      /\ dict' = Combined(items') /\ items' = With(items, x, v)
  BY DEF SetInDict, layout
<1>3. HasDict' /\ Placed'
  <2>1. PointToDict /\ UNCHANGED layout
    BY DEF SetInDict
  <2> QED  BY <1>1, <1>2, <2>1, DictPlaced
<1>4. /\ items' \in Seq(Keys \X Values)
      /\ \A i, j \in DOMAIN items' : items'[i][1] = items'[j][1] => i = j
  <2>1. \A i, j \in DOMAIN items : items[i][1] = items[j][1] => i = j
    BY <1>1 DEF Held
  <2>2. HasItem(items', x, v)
    BY <1>1, <1>2, <2>1, ItemSet
  <2> QED  BY <2>2, Zenon DEF HasItem
<1>5. TypeOK'
  <2>1. array' \in [1..MaxKeys -> Values \cup {NULL}]
    BY <1>2 DEF EmptyArray
  <2> QED  BY <1>1, <1>2, <1>4, <2>1 DEF TypeOK
<1>6. Held'
  <2>1. dict' = Source'
    BY <1>2 DEF Source
  <2>2. EmptyArray' = EmptyArray
    BY DEF EmptyArray
  <2> QED  BY <1>1, <1>2, <1>3, <1>4, <2>1, <2>2 DEF Held
<1>7. InTheArray'
  BY <1>2 DEF InTheArray
<1> QED  BY <1>3, <1>5, <1>6, <1>7

LEMMA MaterializeKeeps ==
    ASSUME InductiveInv, Materialize
    PROVE  TypeOK' /\ Placed' /\ Held' /\ InTheArray'
<1>1. TypeOK /\ Placed /\ Held /\ InTheArray
  BY DEF InductiveInv
<1>2. /\ version' = version /\ type' = type /\ obSize' = obSize /\ beyond' = beyond
      /\ keys' = keys /\ valid' = valid /\ array' = array /\ items' = items
      /\ dict' = Source
  BY DEF Materialize, layout
<1>3. HasDict' /\ Placed'
  <2>1. PointToDict /\ UNCHANGED layout
    BY DEF Materialize
  <2> QED  BY <1>1, <1>2, <2>1, DictPlaced DEF TypeOK
<1>4. TypeOK' /\ InTheArray'
  BY <1>1, <1>2 DEF TypeOK, InTheArray
<1>5. Held'
  <2>1. dict' = Source'
    BY <1>2 DEF Source
  <2> QED  BY <1>1, <1>2, <1>3, <2>1 DEF Held, EmptyArray
<1> QED  BY <1>3, <1>4, <1>5

LEMMA DelAttrKeeps ==
    ASSUME InductiveInv, NEW x \in Keys, DelAttr(x)
    PROVE  TypeOK' /\ Placed' /\ Held' /\ InTheArray'
<1>1. TypeOK /\ Placed /\ Held /\ InTheArray
  BY DEF InductiveInv
<1>2. /\ version' = version /\ type' = type /\ obSize' = obSize /\ beyond' = beyond
      /\ below4' = below4 /\ below3' = below3 /\ atOffset' = atOffset
      /\ keys' = keys /\ valid' = valid
  BY DEF DelAttr, layout
<1>3. PICK h \in DOMAIN items : items[h][1] = x /\ items' = Without(items, h)
  BY DEF DelAttr
<1>4. /\ items' \in Seq(Keys \X Values)
      /\ \A i, j \in DOMAIN items' : items'[i][1] = items'[j][1] => i = j
      /\ \A j \in DOMAIN items' : \E i \in DOMAIN items : items[i] = items'[j] /\ i # h
      /\ \A i \in DOMAIN items : i # h => \E j \in DOMAIN items' : items'[j] = items[i]
  <2>1. \A i, j \in DOMAIN items : items[i][1] = items[j][1] => i = j
    BY <1>1 DEF Held
  <2> QED  BY <1>1, <1>3, <2>1, ItemGone
<1>5. \A i \in DOMAIN items : i # h => items[i][1] # x
  BY <1>1, <1>3 DEF Held
<1> DEFINE place == PlaceOf(keys, x)
<1>6. valid => place \in DOMAIN keys /\ keys[place] = x
  <2>1. ASSUME valid PROVE \E k \in DOMAIN keys : keys[k] = x
    <3>1. PICK k \in DOMAIN keys : items[h] = <<keys[k], array[k]>>
      BY <1>1, <2>1 DEF InTheArray
    <3> QED  BY <1>3, <3>1
  <2> QED  BY <2>1 DEF PlaceOf
<1>7. array' = IF valid THEN [array EXCEPT ![place] = NULL] ELSE array
  BY DEF DelAttr
<1> HIDE DEF place
<1>8. TypeOK'
  <2>1. array' \in [1..MaxKeys -> Values \cup {NULL}]
    BY <1>1, <1>7 DEF TypeOK
  <2> QED  BY <1>1, <1>2, <1>4, <2>1 DEF TypeOK
<1>9. HasDict' <=> HasDict
  BY <1>2 DEF HasDict
<1>10. Placed'
  BY <1>1, <1>2, <1>9 DEF Placed
<1>11. Held'
  <2>1. HasDict' => dict' = Source'
    BY <1>2, <1>9 DEF DelAttr, Source
  <2>2. ~valid => array' = EmptyArray
    BY <1>1, <1>7 DEF Held
  <2>3. ~valid => HasDict
    <3>1. items # <<>>
      BY <1>3
    <3> QED  BY <1>1, <3>1 DEF Held
  <2> QED  BY <1>1, <1>2, <1>4, <1>9, <2>1, <2>2, <2>3 DEF Held, EmptyArray
<1>12. InTheArray'
  <2> SUFFICES ASSUME valid PROVE InTheArray'
    BY <1>2 DEF InTheArray
  <2>1. /\ DOMAIN array' = DOMAIN array /\ array'[place] = NULL
        /\ \A k \in DOMAIN array : k # place => array'[k] = array[k]
    BY <1>1, <1>6, <1>7, Shape
  <2>2. \A k \in DOMAIN keys : k \in DOMAIN array /\ (keys[k] = x => k = place)
    BY <1>1, <1>6, Shape DEF Held
  <2>3. ASSUME NEW k \in DOMAIN array' \ DOMAIN keys' PROVE array'[k] = NULL
    BY <1>1, <1>2, <2>1, <2>3 DEF InTheArray
  <2>4. ASSUME NEW j \in DOMAIN items'
        PROVE  \E k \in DOMAIN keys' : items'[j] = <<keys'[k], array'[k]>>
    <3>1. PICK i \in DOMAIN items : items[i] = items'[j] /\ i # h
      BY <1>4
    <3>2. PICK k \in DOMAIN keys : items[i] = <<keys[k], array[k]>>
      BY <1>1 DEF InTheArray
    <3>3. k # place
      BY <1>5, <1>6, <3>1, <3>2
    <3> QED  BY <1>2, <2>1, <2>2, <3>1, <3>2, <3>3
  <2>5. ASSUME NEW k \in DOMAIN keys', array'[k] # NULL
        PROVE  \E j \in DOMAIN items' : items'[j] = <<keys'[k], array'[k]>>
    <3>1. k \in DOMAIN keys /\ k # place /\ array'[k] = array[k] /\ keys'[k] = keys[k]
      BY <1>2, <2>1, <2>2, <2>5
    <3>2. PICK i \in DOMAIN items : items[i] = <<keys[k], array[k]>>
      BY <1>1, <2>5, <3>1 DEF InTheArray
    <3>3. i # h
      BY <1>3, <2>2, <3>1, <3>2
    <3> QED  BY <1>4, <3>1, <3>2, <3>3
  <2> QED  BY <2>3, <2>4, <2>5 DEF InTheArray
<1> QED  BY <1>8, <1>10, <1>11, <1>12

LEMMA DelDictKeeps ==
    ASSUME InductiveInv, DelDict
    PROVE  TypeOK' /\ Placed' /\ Held' /\ InTheArray'
<1>1. TypeOK /\ Placed /\ Held
  BY DEF InductiveInv
<1>2. /\ version' = version /\ type' = type /\ obSize' = obSize /\ beyond' = beyond
      /\ keys' = keys /\ valid' = FALSE /\ array' = EmptyArray /\ items' = <<>>
      /\ below3' = "null" /\ atOffset' = "null"
      /\ below4' = IF version = "3.11" THEN "null" ELSE below4
  BY DEF DelDict, layout
<1>3. ~HasDict'
  BY <1>2 DEF HasDict
<1>4. TypeOK'
  <2>1. array' \in [1..MaxKeys -> Values \cup {NULL}]
    BY <1>2 DEF EmptyArray
  <2>2. items' \in Seq(Keys \X Values)
    BY <1>2
  <2> QED  BY <1>1, <1>2, <2>1, <2>2 DEF TypeOK
<1>5. Placed'
  BY <1>1, <1>2, <1>3 DEF Placed
<1>6. Held'
  BY <1>1, <1>2, <1>3 DEF Held, EmptyArray
<1>7. InTheArray'
  BY <1>2 DEF InTheArray
<1> QED  BY <1>4, <1>5, <1>6, <1>7

LEMMA ShareKeyKeeps ==
    ASSUME InductiveInv, NEW x \in Keys, ShareKey(x)
    PROVE  TypeOK' /\ Placed' /\ Held' /\ InTheArray'
<1>1. TypeOK /\ Placed /\ Held /\ InTheArray
  BY DEF InductiveInv
<1>2. /\ version' = version /\ type' = type /\ obSize' = obSize /\ beyond' = beyond
      /\ below4' = below4 /\ below3' = below3 /\ atOffset' = atOffset
      /\ array' = array /\ valid' = valid /\ items' = items
  BY DEF ShareKey, layout
<1>3. /\ keys' \in Seq(Keys) /\ Len(keys') <= MaxKeys
      /\ \A k, l \in DOMAIN keys' : keys'[k] = keys'[l] => k = l
      /\ \A k \in DOMAIN keys : k \in DOMAIN keys' /\ keys'[k] = keys[k]
      /\ \A k \in DOMAIN keys' \ DOMAIN keys : keys'[k] = x /\ k \in DOMAIN array
  <2>1. /\ x \notin {keys[k] : k \in DOMAIN keys} /\ Len(keys) < MaxKeys
        /\ keys' = Append(keys, x)
    BY DEF ShareKey
  <2>2. \A k, l \in DOMAIN keys : keys[k] = keys[l] => k = l
    BY <1>1 DEF Held
  <2>3. \/ x \in {keys[k] : k \in DOMAIN keys} /\ keys' = keys
        \/ /\ x \notin {keys[k] : k \in DOMAIN keys} /\ Len(keys) < MaxKeys
           /\ keys' = Append(keys, x)
    BY <2>1
  <2> DEFINE names == keys'
  <2> HIDE DEF names
  <2>4. /\ names \in Seq(Keys) /\ Len(names) <= MaxKeys
        /\ \A k, l \in DOMAIN names : names[k] = names[l] => k = l
        /\ \A k \in DOMAIN keys : k \in DOMAIN names /\ names[k] = keys[k]
        /\ \A k \in DOMAIN names \ DOMAIN keys : names[k] = x /\ k \in DOMAIN array
    BY <1>1, <2>2, <2>3, KeyPlaced DEF names
  <2> QED  BY <2>4 DEF names
<1>4. TypeOK'
  BY <1>1, <1>2, <1>3 DEF TypeOK
<1>5. HasDict' <=> HasDict
  BY <1>2 DEF HasDict
<1>6. Placed'
  BY <1>1, <1>2, <1>5 DEF Placed
<1>7. Held'
  <2>1. HasDict' => dict' = Source'
    <3>1. CASE valid
      BY <1>2, <1>5, <3>1 DEF ShareKey, Source
    <3>2. CASE ~valid
      BY <1>1, <1>2, <1>5, <3>2 DEF ShareKey, Source, Held
    <3> QED  BY <3>1, <3>2
  <2> QED  BY <1>1, <1>2, <1>3, <1>5, <2>1 DEF Held, EmptyArray
<1>8. InTheArray'
  <2> SUFFICES ASSUME valid PROVE InTheArray'
    BY <1>2 DEF InTheArray
  <2>1. \A k \in DOMAIN array \ DOMAIN keys : array[k] = NULL
    BY <1>1 DEF InTheArray
  <2>2. \A k \in DOMAIN array' \ DOMAIN keys' : array'[k] = NULL
    BY <1>2, <1>3, <2>1
  <2>3. \A j \in DOMAIN items' : \E k \in DOMAIN keys' : items'[j] = <<keys'[k], array'[k]>>
    <3>1. \A j \in DOMAIN items : \E k \in DOMAIN keys : items[j] = <<keys[k], array[k]>>
      BY <1>1 DEF InTheArray
    <3> QED  BY <1>2, <1>3, <3>1
  <2>4. ASSUME NEW k \in DOMAIN keys', array'[k] # NULL
        PROVE  \E j \in DOMAIN items' : items'[j] = <<keys'[k], array'[k]>>
    <3>1. k \in DOMAIN keys
      BY <1>2, <1>3, <2>1, <2>4
    <3> QED  BY <1>1, <1>2, <1>3, <2>4, <3>1 DEF InTheArray
  <2> QED  BY <2>2, <2>3, <2>4 DEF InTheArray
<1> QED  BY <1>4, <1>6, <1>7, <1>8

LEMMA StepHolds == InductiveInv /\ [Next]_vars => InductiveInv'
<1> SUFFICES ASSUME InductiveInv, [Next]_vars
             PROVE  TypeOK' /\ Placed' /\ Held' /\ InTheArray'
  <2>1. TypeOK' /\ Placed' => LeadsThere'
    BY WordsLead, PTL
  <2> QED  BY <2>1 DEF InductiveInv
<1>1. ASSUME NEW x \in Keys, NEW v \in Values, SetInArray(x, v)
      PROVE  TypeOK' /\ Placed' /\ Held' /\ InTheArray'
  BY <1>1, SetInArrayKeeps
<1>2. ASSUME NEW x \in Keys, NEW v \in Values, SetInDict(x, v)
      PROVE  TypeOK' /\ Placed' /\ Held' /\ InTheArray'
  BY <1>2, SetInDictKeeps
<1>3. ASSUME NEW x \in Keys, DelAttr(x)
      PROVE  TypeOK' /\ Placed' /\ Held' /\ InTheArray'
  BY <1>3, DelAttrKeeps
<1>4. ASSUME NEW x \in Keys, ShareKey(x)
      PROVE  TypeOK' /\ Placed' /\ Held' /\ InTheArray'
  BY <1>4, ShareKeyKeeps
<1>5. CASE Materialize
  BY <1>5, MaterializeKeeps
<1>6. CASE DelDict
  BY <1>6, DelDictKeeps
<1>7. CASE UNCHANGED vars
  BY <1>7 DEF vars, InductiveInv, TypeOK, Placed, Held, InTheArray, HasDict, Source, EmptyArray
<1> QED  BY <1>1, <1>2, <1>3, <1>4, <1>5, <1>6, <1>7 DEF Next

-----------------------------------------------------------------------------

(* Wherever CPython moves the attributes of an instance, its words lead    *)
(* PyObject::managedDict and PyObject::dict to them, for every type, every *)
(* number of shared keys and each version: what follows a set, a delete,   *)
(* vars(obj) or del obj.__dict__ is again such a memory.                   *)
THEOREM PlacesAreFound == Spec => []InductiveInv
BY InitHolds, StepHolds, PTL DEF Spec

(* So the details of an instance list each attribute once, with its value  *)
(* (PyObject::details, PyManagedDict::pairValues).                         *)
THEOREM AttributesAreListed == Spec => []ShowsTheAttributes
BY PlacesAreFound, AttributesFollow, PTL
=============================================================================
