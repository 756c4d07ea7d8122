----------------------------- MODULE DictObject -----------------------------
(***************************************************************************)
(* A dict or a set while the debuggee changes it.  The debuggee is         *)
(* CPython, which inserts, replaces and deletes entries, lets other        *)
(* instances add keys to a shared keys object, and moves a dict to a       *)
(* larger or a combined table.  Whenever the debugger stops it, PyExt must *)
(* list the mapping, or the members, that Python has.                      *)
(***************************************************************************)
EXTENDS DictLayout

CONSTANTS Log2Sizes,   \* the exponents of the table sizes
          MaxEntries   \* the most entries of a compact table

ASSUME ObjectAssumption == /\ Log2Sizes \subseteq Nat
                           /\ MaxEntries \in Nat

(* Arithmetic that the provers have no rule for; TLC computes it. *)
ASSUME PowerAssumption ==
    \A n \in Log2Sizes : /\ 2 ^ n \in Nat
                         /\ 2 ^ n <= 255 <=> n < 8
                         /\ 2 ^ n <= 65535 <=> n < 16

VARIABLES dict,    \* the dict, or the set, in memory
          items    \* the mapping it stands for, in the order of insertion;
                   \* the members of a set are paired with NULL

vars == <<dict, items>>

KeysOf(pairs) == {pairs[j][1] : j \in DOMAIN pairs}
IndexOf(d, x) == CHOOSE k \in DOMAIN d.entries : d.entries[k].key = x
Without(pairs, j) == [i \in 1..Len(pairs) - 1 |-> pairs[IF i < j THEN i ELSE i + 1]]
HasKey(d, x) == \E k \in DOMAIN d.entries : d.entries[k].key = x

(* CPython's own width of an index, by the exponent of the table size. *)
IndexBytes(log2) == IF log2 < 8 THEN 1 ELSE IF log2 < 16 THEN 2
                    ELSE IF log2 < 32 THEN 4 ELSE 8

NewTable(layout, log2, kind, split) ==
    LET slots == IF layout \in Hashed THEN 2 ^ log2 ELSE 0
    IN  [layout |-> layout, log2 |-> log2, indexBytes |-> IndexBytes(log2),
         kind |-> kind, hashed |-> ~(layout = "kinds" /\ kind # 0),
         entries |-> [k \in 1..slots |-> EmptyEntry], split |-> split,
         values |-> IF ~split THEN <<>>
                    ELSE [k \in 1..(IF slots = 0 THEN MaxEntries ELSE slots) |-> NULL]]

(* A hash table must fit in the model; an index table need not, since only *)
(* its width matters.                                                      *)
Sizes(layout) == {n \in Log2Sizes : layout \in Hashed => n <= 2}

Tables(layouts, splits) ==
    {NewTable(layout, log2, kind, split) : layout \in layouts, log2 \in Log2Sizes,
                                           kind \in 0..2, split \in splits}

IsSet(d) == d.layout \in SetLayouts

WellFormed(d) == /\ d.log2 \in Sizes(d.layout)
                 /\ d.split => d.layout # "table" /\ ~IsSet(d)
                 /\ d.kind # 0 => d.layout = "kinds"
                 /\ d.layout = "kinds" => (d.split <=> d.kind = 2)

Init == /\ dict \in {d \in Tables(Layouts, BOOLEAN) : WellFormed(d)}
        /\ items = <<>>

-----------------------------------------------------------------------------

(* Where a new key may go: a free slot of a hash table, or behind the last *)
(* entry of a compact one.                                                 *)
FreeSlots(d) ==
    IF d.layout \in Hashed
    THEN {k \in DOMAIN d.entries : d.entries[k].key \in {NULL, Dummy}}
    ELSE IF Len(d.entries) < MaxEntries THEN {Len(d.entries) + 1} ELSE {}

Put(d, k, e) == IF k \in DOMAIN d.entries THEN [d EXCEPT !.entries[k] = e]
                ELSE [d EXCEPT !.entries = Append(@, e)]

(* A key and its value get into a table. *)
Insert(x, v) ==
    /\ x \notin KeysOf(items)
    /\ ~dict.split /\ ~IsSet(dict)
    /\ \E k \in FreeSlots(dict) : dict' = Put(dict, k, [key |-> x, value |-> v])
    /\ items' = Append(items, <<x, v>>)

(* A member gets into a set, into an empty slot or that of a removed one. *)
AddMember(x) ==
    /\ x \notin KeysOf(items)
    /\ IsSet(dict)
    /\ \E k \in FreeSlots(dict) : dict' = Put(dict, k, [key |-> x, value |-> NULL])
    /\ items' = Append(items, <<x, NULL>>)

(* In a split table the value goes into the array of the instance, to the  *)
(* shared key when there is one.  Before 3.11 a compact table takes keys   *)
(* only in the order of the shared keys.                                   *)
InsertSplit(x, v) ==
    /\ x \notin KeysOf(items)
    /\ dict.split
    /\ \E k \in IF HasKey(dict, x) THEN {IndexOf(dict, x)} ELSE FreeSlots(dict) :
          /\ dict.layout = "compact" => k = Len(items) + 1
          /\ LET keyed == IF HasKey(dict, x) THEN dict
                          ELSE Put(dict, k, [key |-> x, value |-> NULL])
             IN  dict' = [keyed EXCEPT !.values[k] = v]
    /\ items' = Append(items, <<x, v>>)

(* Another instance of the class adds a key to the shared keys. *)
ShareKey(x) ==
    /\ dict.split /\ ~HasKey(dict, x)
    /\ \E k \in FreeSlots(dict) : dict' = Put(dict, k, [key |-> x, value |-> NULL])
    /\ UNCHANGED items

Replace(x, v) ==
    /\ ~IsSet(dict)
    /\ \E j \in DOMAIN items :
          /\ items[j][1] = x
          /\ LET k == IndexOf(dict, x)
             IN  dict' = IF dict.split THEN [dict EXCEPT !.values[k] = v]
                         ELSE [dict EXCEPT !.entries[k].value = v]
          /\ items' = [items EXCEPT ![j] = <<x, v>>]

(* Deleting leaves a dummy in a hash table and a hole in a compact one; in *)
(* a split table the shared key stays.  The split tables of 3.6 to 3.10 do *)
(* not allow it: they are combined first.                                  *)
Delete(x) ==
    /\ ~(dict.split /\ dict.layout = "compact")
    /\ \E j \in DOMAIN items : items[j][1] = x /\ items' = Without(items, j)
    /\ LET k == IndexOf(dict, x)
           gone == IF dict.layout \in Hashed THEN Dummy ELSE NULL
       IN  dict' = IF dict.split THEN [dict EXCEPT !.values[k] = NULL]
                   ELSE [dict EXCEPT !.entries[k] = [key |-> gone, value |-> NULL]]

(* A new combined table with the same items: it grew, lost its holes, or   *)
(* stopped being a split table.                                            *)
Rebuild(log2, kind) ==
    LET fresh == NewTable(dict.layout, log2, kind, FALSE)
        packed == [j \in DOMAIN items |-> [key |-> items[j][1], value |-> items[j][2]]]
    IN  /\ WellFormed(fresh)
        /\ \/ /\ dict.layout \notin Hashed
              /\ dict' = [fresh EXCEPT !.entries = packed]
           \/ /\ dict.layout \in Hashed /\ Len(items) <= Len(fresh.entries)
              /\ \E place \in [DOMAIN items -> DOMAIN fresh.entries] :
                    /\ \A i, j \in DOMAIN items : place[i] = place[j] => i = j
                    /\ dict' = [fresh EXCEPT !.entries =
                          [k \in DOMAIN @ |->
                             IF \E j \in DOMAIN items : place[j] = k
                             THEN packed[CHOOSE j \in DOMAIN items : place[j] = k]
                             ELSE EmptyEntry]]
        /\ UNCHANGED items

Next == \/ \E x \in Keys, v \in Values :
              Insert(x, v) \/ InsertSplit(x, v) \/ Replace(x, v)
        \/ \E x \in Keys : AddMember(x) \/ ShareKey(x) \/ Delete(x)
        \/ \E log2 \in Log2Sizes, kind \in 0..1 : Rebuild(log2, kind)

Spec == Init /\ [][Next]_vars

-----------------------------------------------------------------------------

(* Where things lie, after any sequence of operations. *)
TypeOK == /\ dict \in DictRecord
          /\ items \in Seq(Keys \X (Values \cup {NULL}))

LaidOut ==
    /\ WellFormed(dict) /\ dict.log2 \in Log2Sizes
    /\ dict.indexBytes = IndexBytes(dict.log2)
    /\ dict.hashed <=> ~(dict.layout = "kinds" /\ dict.kind # 0)
    /\ dict.layout \in Hashed => Len(dict.entries) = 2 ^ dict.log2
    /\ dict.split => Len(dict.entries) <= Len(dict.values)
    /\ dict.split /\ dict.layout \notin Hashed => Len(dict.values) = MaxEntries
    /\ \A k \in DOMAIN dict.values \ DOMAIN dict.entries : dict.values[k] = NULL

(* An entry without a key has no value, one with a key has one unless the  *)
(* keys are shared; no key has two entries, and none is in two items.      *)
KeyAt(k) == dict.entries[k].key
Carries(k) == KeyAt(k) \in Keys /\ (IsSet(dict) \/ ValueAt(dict, k) # NULL)
Tidy ==
    /\ \A k \in DOMAIN dict.entries :
          /\ KeyAt(k) \notin Keys \/ IsSet(dict) => ValueAt(dict, k) = NULL
          /\ KeyAt(k) \in Keys /\ ~dict.split => Carries(k)
    /\ \A k, l \in DOMAIN dict.entries : KeyAt(k) \in Keys /\ KeyAt(k) = KeyAt(l) => k = l
    /\ \A i, j \in DOMAIN items : items[i][1] = items[j][1] => i = j

(* The entries that stand for an item, and the items, are the same pairs.  *)
SamePairs ==
    /\ \A j \in DOMAIN items : \E k \in DOMAIN dict.entries :
          Carries(k) /\ items[j] = <<KeyAt(k), ValueAt(dict, k)>>
    /\ \A k \in DOMAIN dict.entries : Carries(k) =>
          \E j \in DOMAIN items : items[j] = <<KeyAt(k), ValueAt(dict, k)>>

(* The entries of a compact table are in the order of insertion; in the    *)
(* split tables before 3.11 the first entries are those of the items.      *)
KeepsOrder(d) == d.layout = "compact" \/ (d.layout = "kinds" /\ ~d.split)
SameOrder ==
    \A i, j \in DOMAIN items, k, l \in DOMAIN dict.entries :
       KeyAt(k) = items[i][1] /\ KeyAt(l) = items[j][1] =>
          /\ KeepsOrder(dict) /\ i < j => k < l
          /\ dict.layout = "compact" /\ dict.split => k = i

ContentInv == TypeOK /\ LaidOut /\ Tidy /\ SamePairs /\ SameOrder

(* Whatever was inserted, deleted, shared and rebuilt, pairValues lists    *)
(* each item of the mapping exactly once and nothing else: no removed      *)
(* entry, and no key that only another instance has.                       *)
ListsTheMapping ==
    ~IsSet(dict) =>
       /\ Len(PairValues(dict)) = Len(items)
       /\ {PairValues(dict)[j] : j \in DOMAIN PairValues(dict)}
            = {items[j] : j \in DOMAIN items}

(* listValue lists every member of a set once and nothing else, whatever   *)
(* was removed and added again in its place.  In Python 2 it cannot know   *)
(* the dummy, and lists it for every removed member whose slot was not     *)
(* used again (PySetObject.cpp:30).                                        *)
DummyIsKnown(d) == d.layout # "set27"
ListsTheMembers ==
    IsSet(dict) =>
       LET listed == ListValue(dict)
           at(x)  == {j \in DOMAIN listed : listed[j] = x}
       IN  /\ \A x \in Keys : Cardinality(at(x)) = IF x \in KeysOf(items) THEN 1 ELSE 0
           /\ \A j \in DOMAIN listed :
                 listed[j] \in IF DummyIsKnown(dict) THEN Keys ELSE Keys \cup {Dummy}

(* Since Python 3.6 a dict keeps the order of insertion; the listing shows *)
(* it, except for the split tables of 3.11, whose order of insertion is    *)
(* kept elsewhere.                                                         *)
ListsInOrder ==
    KeepsOrder(dict) => PairValues(dict) = items

(* The loop reads neither past the entries nor past the values of a split  *)
(* table (PyDictObject.cpp:148-157).                                       *)
ReadsInBounds == InBounds(dict)
=============================================================================
