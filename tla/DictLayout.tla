----------------------------- MODULE DictLayout -----------------------------
(***************************************************************************)
(* How PyExt reads a dict of the debuggee: PyDictObject::pairValues and    *)
(* PyManagedDict::pairValues (src/objects/PyDictObject.cpp) over the keys  *)
(* object (src/objects/PyDictKeysObject.cpp), in the layouts the source    *)
(* distinguishes by the fields a structure has:                            *)
(*   "table"     Python 2, ma_table and ma_mask;                           *)
(*   "entries"   Python <= 3.5, a hash table in ma_keys->dk_entries;       *)
(*   "compact"   Python >= 3.6, entries behind dk_indices, dk_size;        *)
(*   "kinds"     Python >= 3.11, dk_log2_size and dk_kind.                 *)
(* A set is read by PySetObject::listValue (src/objects/PySetObject.cpp)   *)
(* from a hash table of keys.  Its layouts differ by the symbol that names *)
(* the key of a removed entry: "set34" exports _PySet_Dummy, "set33" a     *)
(* single !dummy, "set27" has one in every translation unit.               *)
(***************************************************************************)
EXTENDS Integers, Sequences, FiniteSets

CONSTANTS Keys,      \* keys of a dict
          Values,    \* values of a dict
          NULL,      \* the null pointer
          Dummy      \* the key of a removed entry of a hash table

ASSUME DictAssumption == /\ NULL \notin Keys \cup Values \cup {Dummy}
                         /\ Dummy \notin Keys

SetLayouts == {"set27", "set33", "set34"}
Layouts == {"table", "entries", "compact", "kinds"} \cup SetLayouts
Hashed == {"table", "entries"} \cup SetLayouts

Entry == [key : Keys \cup {NULL, Dummy}, value : Values \cup {NULL}]
EmptyEntry == [key |-> NULL, value |-> NULL]

(* A dict or a set as it lies in memory.  indexBytes and hashed say how    *)
(* CPython laid out the keys object: the width of an index and whether an  *)
(* entry holds the hash too.  values is the array of a split table, <<>>   *)
(* otherwise.                                                              *)
DictRecord == [layout : Layouts, log2 : Nat, indexBytes : {1, 2, 4, 8}, kind : 0..2,
               hashed : BOOLEAN, entries : Seq(Entry), split : BOOLEAN,
               values : Seq(Values \cup {NULL})]

-----------------------------------------------------------------------------

(* Wrong on purpose: the limits taken for exponents one too large. *)
IndexSizeLate(log2) == IF log2 <= 8 THEN 1 ELSE IF log2 <= 16 THEN 2
                       ELSE IF log2 <= 32 THEN 4 ELSE 8

(* The width of an index of dk_indices, on a 64-bit target. *)
IndexSize(log2) == LET size == 2 ^ log2
                   IN  IF size <= 255 THEN 1
                       ELSE IF size <= 65535 THEN 2
                       ELSE IF log2 < 32 THEN 4 ELSE 8

(* PyDictKeysObject::getEntriesTable finds the entries of a compact table  *)
(* behind the indices, as PyDictUnicodeEntry (without a hash) or           *)
(* PyDictKeyEntry.  At another address or with another stride it would     *)
(* read no entry.                                                          *)
FindsEntries(d) ==
    \/ d.layout \in Hashed
    \/ /\ IndexSize(d.log2) = d.indexBytes
       /\ d.hashed = ~(d.layout = "kinds" /\ d.kind # 0)

(* Wrong on purpose: as many entries as there are indices. *)
TableSizeByIndices(d) == 2 ^ d.log2

(* getEntriesTableSize: mask + 1, dk_size or dk_nentries.  A set has a     *)
(* mask too.                                                               *)
TableSize(d) == IF d.layout \in Hashed THEN 2 ^ d.log2 ELSE Len(d.entries)

(* Wrong on purpose: the values of a split table are taken from its keys. *)
IsCombinedAlways(d) == d.layout \in Layouts

(* getIsCombined: no mask means Python 3, and no values a combined table. *)
IsCombined(d) == d.layout = "table" \/ ~d.split

ValueAt(d, k) == IF IsCombined(d) THEN d.entries[k].value ELSE d.values[k]

(* Wrong on purpose: an entry counts when it has a key. *)
OccupiedByKey(d) == {k \in 1..TableSize(d) : d.entries[k].key # NULL}

(* The indices of the loop of pairValues that are not skipped. *)
Occupied(d) == {k \in 1..TableSize(d) : d.entries[k].key # NULL /\ ValueAt(d, k) # NULL}

(* The j-th smallest member of a set of naturals, as the loop meets them. *)
Nth(S, j) == CHOOSE k \in S : Cardinality({i \in S : i <= k}) = j

(* PyDictObject::pairValues. *)
PairValues(d) ==
    IF FindsEntries(d)
    THEN [j \in 1..Cardinality(Occupied(d)) |->
            LET k == Nth(Occupied(d), j) IN <<d.entries[k].key, ValueAt(d, k)>>]
    ELSE <<>>

(* Wrong on purpose: only the newest name of the dummy is looked up. *)
GetDummyPtrNewest(d) == IF d.layout = "set34" THEN Dummy ELSE NULL

(* getDummyPtr: the first of the two symbols that evaluates, or null. *)
GetDummyPtr(d) == IF d.layout \in {"set33", "set34"} THEN Dummy ELSE NULL

(* PySetObject::listValue: every entry but the empty and the removed ones. *)
Listed(d) == {k \in 1..TableSize(d) : d.entries[k].key \notin {NULL, GetDummyPtr(d)}}
ListValue(d) ==
    [j \in 1..Cardinality(Listed(d)) |-> d.entries[Nth(Listed(d), j)].key]

(* What the loop reads stays in the arrays it reads from. *)
InBounds(d) == /\ TableSize(d) <= Len(d.entries)
               /\ ~IsCombined(d) => TableSize(d) <= Len(d.values)
=============================================================================
