---------------------------- MODULE InstanceDict ----------------------------
(***************************************************************************)
(* Where PyExt finds the attributes of an instance: PyObject::managedDict  *)
(* and PyObject::dict (src/objects/PyObject.cpp).  CPython keeps them in a *)
(* place that depends on its version and on what the program did before:   *)
(* for a type without a managed dict in a dict pointer at tp_dictoffset,   *)
(* from the end of the object when that is negative, and otherwise in      *)
(*   "3.11"    an array of values at word -4, a dict at word -3;           *)
(*   "3.12"    either of them at word -3, the array tagged in its low bit; *)
(*   "3.13"    a dict at word -3, the array behind the object when the     *)
(*             type has inline values.                                     *)
(* The array belongs to the shared keys of the type.                       *)
(***************************************************************************)
EXTENDS DictLayout

CONSTANTS Versions,    \* the versions of CPython
          Types,       \* the types: their sizes and dict offset
          Sizes,       \* the values of ob_size
          BeyondWords, \* what the word behind an object may hold
          Rubbish,     \* what is listed when some other word is read as a dict
          MaxKeys      \* the most shared keys

TypeRecord == [basic : Nat, item : Nat, dictoffset : Int, managed : BOOLEAN,
               inline : BOOLEAN, int : BOOLEAN]

ASSUME InstanceAssumption == /\ Versions \subseteq {"3.10", "3.11", "3.12", "3.13"}
                             /\ Types \subseteq TypeRecord
                             /\ Sizes \subseteq Int
                             /\ BeyondWords \subseteq {"null", "junk"}
                             /\ MaxKeys \in Nat

(* What CPython makes sure of: only a managed dict has inline values, and  *)
(* an object with one is of fixed size, in whole words; any other dict has *)
(* a pointer of its own inside the object, at a multiple of its size.      *)
ASSUME TypeAssumption ==
    \A t \in Types :
       /\ t.inline => t.managed
       /\ t.managed => t.item = 0 /\ t.basic % 8 = 0
       /\ ~t.managed => /\ t.dictoffset # 0 /\ t.dictoffset % 8 = 0
                        /\ t.basic + t.dictoffset >= 0
                        /\ t.dictoffset < t.basic

VARIABLES version, type, obSize,
          below4,    \* the word at -4: "null", "values" or something else
          below3,    \* the word at -3: "null", "values" (tagged) or "dict"
          atOffset,  \* the word at tp_dictoffset: "null" or "dict"
          beyond,    \* the word behind the object: "null" or "junk"
          keys,      \* ht_cached_keys
          array,     \* the array of values
          valid,     \* CPython still uses the array
          dict,      \* the dict object, when there is one
          items      \* the attributes, in the order they were set

layout == <<version, type, obSize, beyond>>
vars == <<version, type, obSize, below4, below3, atOffset, beyond, keys, array,
          valid, dict, items>>

Word == 8
Align(n) == ((n + (Word - 1)) \div Word) * Word
Absolute(n) == IF n < 0 THEN -n ELSE n

-----------------------------------------------------------------------------

IsManagedDict == type.managed
HasInlineValues == type.inline

(* Wrong on purpose: the values behind the object come before the dict. *)
ManagedDictValuesFirst ==
    IF ~IsManagedDict THEN "none"
    ELSE IF HasInlineValues THEN "values"
    ELSE IF version = "3.13" /\ below3 # "dict" THEN "none"
    ELSE IF version = "3.11" /\ below4 # "null" THEN "values"
    ELSE IF below3 = "null" THEN "none" ELSE below3

(* PyObject::managedDict: "none", or where it reads the attributes from.   *)
ManagedDict ==
    CASE ~IsManagedDict -> "none"
      [] IsManagedDict /\ version = "3.13" ->
           IF below3 = "dict" THEN "dict"
           ELSE IF HasInlineValues THEN "values" ELSE "none"
      [] IsManagedDict /\ version = "3.12" -> IF below3 = "null" THEN "none" ELSE below3
      [] IsManagedDict /\ version = "3.11" ->
           IF below4 # "null" THEN "values"
           ELSE IF below3 = "null" THEN "none" ELSE below3

(* tp_dictoffset as CPython fills it in: for a managed dict it leads to    *)
(* word -3 in 3.11 and says nothing since.                                 *)
TpDictOffset == IF ~type.managed THEN type.dictoffset
                ELSE IF version = "3.11" THEN -type.basic - 3 * Word ELSE -1

(* PyVarObject::size.  Since 3.12 an int has its sign and size in lv_tag,  *)
(* which is where ob_size was.                                             *)
SizeInTag == type.int /\ version \in {"3.12", "3.13"}
Size == IF SizeInTag
        THEN 8 * Absolute(obSize) + (IF obSize = 0 THEN 1 ELSE IF obSize < 0 THEN 2 ELSE 0)
        ELSE obSize

(* The place of the dict pointer by tp_dictoffset. *)
DictOffset ==
    IF TpDictOffset >= 0 THEN TpDictOffset
    ELSE Align(TpDictOffset + type.basic + Absolute(Size) * type.item)

(* CPython: the object with its items, aligned, less the offset. *)
ObjectSize == Align(type.basic + Absolute(obSize) * type.item)
DictPlace == IF type.dictoffset >= 0 THEN type.dictoffset
             ELSE ObjectSize + type.dictoffset

(* The word a dict pointer is read from. *)
WordAt(offset) == CASE offset = -3 * Word -> below3
                    [] ~type.managed /\ offset = DictPlace -> atOffset
                    [] offset >= ObjectSize -> beyond
                    [] OTHER -> "junk"

(* PyObject::dict: when there is no managed dict, tp_dictoffset decides. *)
FoundIn == IF ManagedDict # "none" THEN ManagedDict
           ELSE IF TpDictOffset = 0 THEN "null"
           ELSE WordAt(DictOffset)

(* Wrong on purpose: the values are numbered without the holes. *)
ManagedPairValuesPacked ==
    LET present == SelectSeq(array, LAMBDA v : v # NULL)
    IN  [j \in 1..(IF Len(present) < Len(keys) THEN Len(present) ELSE Len(keys)) |->
           <<keys[j], present[j]>>]

(* PyManagedDict::pairValues: the shared keys with the values at the same  *)
(* place.                                                                  *)
ManagedPairValues ==
    LET occupied == {k \in DOMAIN keys : array[k] # NULL}
    IN  [j \in 1..Cardinality(occupied) |->
           <<keys[Nth(occupied, j)], array[Nth(occupied, j)]>>]

(* PyObject::details lists no dict when there is none, and reads whatever  *)
(* other word it finds as the address of one.                              *)
Attributes == CASE FoundIn = "values" -> ManagedPairValues
                [] FoundIn = "dict" -> PairValues(dict)
                [] FoundIn \in {"none", "null"} -> <<>>
                [] FoundIn = "junk" -> Rubbish

-----------------------------------------------------------------------------

EmptyArray == [k \in 1..MaxKeys |-> NULL]
KeysOf(pairs) == {pairs[j][1] : j \in DOMAIN pairs}
Without(pairs, j) == [i \in 1..Len(pairs) - 1 |-> pairs[IF i < j THEN i ELSE i + 1]]

(* A dict that owns its entries, and one over the shared keys and the array. *)
Combined(pairs) ==
    [layout |-> "kinds", log2 |-> 3, indexBytes |-> 1, kind |-> 1, hashed |-> FALSE,
     entries |-> [j \in DOMAIN pairs |-> [key |-> pairs[j][1], value |-> pairs[j][2]]],
     split |-> FALSE, values |-> <<>>]
Split(names, vals) ==
    [layout |-> "kinds", log2 |-> 3, indexBytes |-> 1, kind |-> 2, hashed |-> FALSE,
     entries |-> [k \in DOMAIN names |-> [key |-> names[k], value |-> NULL]],
     split |-> TRUE, values |-> vals]

HasDict == atOffset = "dict" \/ below3 = "dict"

(* The dict that holds the attributes, or that vars(obj) would make. *)
Source == IF valid THEN Split(keys, array) ELSE Combined(items)

(* An instance is created: with an array if its type can have one. *)
Init == /\ version \in Versions
        /\ type \in {t \in Types : /\ t.managed => version # "3.10"
                                   /\ t.inline => version = "3.13"}
        /\ obSize \in IF type.item = 0 THEN {0} ELSE Sizes
        /\ beyond \in BeyondWords
        /\ valid \in IF type.managed /\ version \in {"3.11", "3.12"} THEN BOOLEAN
                     ELSE {type.inline}
        /\ below4 = IF version # "3.11" THEN "weakref" ELSE IF valid THEN "values" ELSE "null"
        /\ below3 = IF version = "3.12" /\ valid THEN "values" ELSE "null"
        /\ atOffset = "null"
        /\ keys = <<>> /\ array = EmptyArray
        /\ dict = Combined(<<>>) /\ items = <<>>

(* Memory once the dict holds the attributes: its pointer, and for the     *)
(* array what CPython leaves of it.                                        *)
PointToDict ==
    /\ atOffset' = IF type.managed THEN atOffset ELSE "dict"
    /\ below3' = IF type.managed THEN "dict" ELSE below3
    /\ below4' = IF version = "3.11" THEN "null" ELSE below4

(* The items after an attribute is set. *)
With(pairs, x, v) == IF x \in KeysOf(pairs)
                     THEN [j \in DOMAIN pairs |-> IF pairs[j][1] = x THEN <<x, v>> ELSE pairs[j]]
                     ELSE Append(pairs, <<x, v>>)
PlaceOf(names, x) == CHOOSE k \in DOMAIN names : names[k] = x

(* An attribute is set in the array, whoever reads it: the key is shared   *)
(* already or there is room for it.                                        *)
SetInArray(x, v) ==
    /\ valid
    /\ \/ x \in {keys[k] : k \in DOMAIN keys} /\ UNCHANGED keys
       \/ /\ x \notin {keys[k] : k \in DOMAIN keys} /\ Len(keys) < MaxKeys
          /\ keys' = Append(keys, x)
    /\ array' = [array EXCEPT ![PlaceOf(keys', x)] = v]
    /\ dict' = IF HasDict THEN Split(keys', array') ELSE dict
    /\ items' = With(items, x, v)
    /\ UNCHANGED <<layout, below4, below3, atOffset, valid>>

(* An attribute is set in a dict of its own, which is made when needed; the *)
(* array is given up.                                                      *)
SetInDict(x, v) ==
    /\ valid => Len(keys) = MaxKeys /\ x \notin {keys[k] : k \in DOMAIN keys}
    /\ items' = With(items, x, v)
    /\ dict' = Combined(items')
    /\ PointToDict
    /\ valid' = FALSE /\ array' = EmptyArray
    /\ UNCHANGED <<layout, keys>>

(* vars(obj) makes a dict over the array. *)
Materialize ==
    /\ ~HasDict
    /\ dict' = Source
    /\ PointToDict
    /\ UNCHANGED <<layout, keys, array, valid, items>>

DelAttr(x) ==
    /\ \E j \in DOMAIN items : items[j][1] = x /\ items' = Without(items, j)
    /\ array' = IF valid THEN [array EXCEPT ![PlaceOf(keys, x)] = NULL] ELSE array
    /\ dict' = IF ~HasDict THEN dict
               ELSE IF valid THEN Split(keys, array') ELSE Combined(items')
    /\ UNCHANGED <<layout, below4, below3, atOffset, keys, valid>>

(* del obj.__dict__ leaves an instance with neither. *)
DelDict ==
    /\ items' = <<>> /\ dict' = Combined(<<>>)
    /\ below3' = "null" /\ atOffset' = "null"
    /\ below4' = IF version = "3.11" THEN "null" ELSE below4
    /\ valid' = FALSE /\ array' = EmptyArray
    /\ UNCHANGED <<layout, keys>>

(* Another instance of the type sets an attribute. *)
ShareKey(x) ==
    /\ IsManagedDict
    /\ x \notin {keys[k] : k \in DOMAIN keys} /\ Len(keys) < MaxKeys
    /\ keys' = Append(keys, x)
    /\ dict' = IF HasDict /\ valid THEN Split(keys', array) ELSE dict
    /\ UNCHANGED <<layout, below4, below3, atOffset, array, valid, items>>

Next == \/ \E x \in Keys, v \in Values : SetInArray(x, v) \/ SetInDict(x, v)
        \/ \E x \in Keys : DelAttr(x) \/ ShareKey(x)
        \/ Materialize \/ DelDict

Spec == Init /\ [][Next]_vars

-----------------------------------------------------------------------------

TypeOK == /\ version \in Versions /\ type \in Types /\ obSize \in Int
          /\ beyond \in BeyondWords
          /\ keys \in Seq(Keys) /\ Len(keys) <= MaxKeys
          /\ array \in [1..MaxKeys -> Values \cup {NULL}]
          /\ items \in Seq(Keys \X Values) /\ valid \in BOOLEAN

(* What the words before the object hold, and the one at tp_dictoffset. *)
Placed ==
    /\ type.managed => version # "3.10"
    /\ type.inline => version = "3.13"
    /\ ~type.managed => below3 = "null" /\ ~valid /\ atOffset \in {"null", "dict"}
    /\ type.managed =>
          /\ atOffset = "null" /\ below3 \in {"null", "values", "dict"}
          /\ below3 = "values" <=> version = "3.12" /\ valid /\ ~HasDict
          /\ version = "3.11" => below4 = IF valid /\ ~HasDict THEN "values" ELSE "null"
          /\ version = "3.13" /\ valid => type.inline

(* The array, while it is used, and the items are the same pairs, and a    *)
(* dict is one over the array or holds the items itself.                   *)
Held ==
    /\ \A k, l \in DOMAIN keys : keys[k] = keys[l] => k = l
    /\ \A i, j \in DOMAIN items : items[i][1] = items[j][1] => i = j
    /\ ~valid => array = EmptyArray /\ (HasDict \/ items = <<>>)
    /\ HasDict => dict = Source

InTheArray ==
    valid => /\ \A k \in DOMAIN array \ DOMAIN keys : array[k] = NULL
             /\ \A j \in DOMAIN items : \E k \in DOMAIN keys :
                   items[j] = <<keys[k], array[k]>>
             /\ \A k \in DOMAIN keys : array[k] # NULL =>
                   \E j \in DOMAIN items : items[j] = <<keys[k], array[k]>>

(* A dict is found when there is one, and the array when the attributes    *)
(* are nowhere else.                                                       *)
LeadsThere ==
    ~SizeInTag => /\ FoundIn = "dict" <=> HasDict
                  /\ valid /\ ~HasDict => FoundIn = "values"

(* Whichever of the places an instance moved its attributes through, the   *)
(* words of the object lead PyObject::dict to the place that holds them.   *)
InductiveInv == TypeOK /\ Placed /\ Held /\ InTheArray /\ LeadsThere

(* An instance with neither array nor dict, of a class whose dict is       *)
(* managed: since 3.12 PyObject::dict goes on with the dict offset of -1,  *)
(* to the word behind the object.                                          *)
ReadsBeyond == /\ IsManagedDict /\ ~HasInlineValues /\ version \in {"3.12", "3.13"}
               /\ ~valid /\ ~HasDict

(* However the attributes were set, deleted and moved between the array    *)
(* and a dict, the details of the instance list each of them once, with    *)
(* its value, and nothing else.  Where the code looks at a wrong place     *)
(* this is not claimed: for an int of 3.12 or later, and for an instance   *)
(* with neither array nor dict that has a word other than 0 behind it.     *)
ShowsTheAttributes ==
    ~SizeInTag /\ (ReadsBeyond => beyond = "null")
       => /\ Len(Attributes) = Len(items)
          /\ {Attributes[j] : j \in DOMAIN Attributes} = {items[j] : j \in DOMAIN items}

(* PyObject.cpp:99, "the managed dict has not been materialized yet": such *)
(* an instance has no dict to show, so none is read from its memory.       *)
UnmaterializedShowsNone ==
    version = "3.13" /\ IsManagedDict /\ ~HasInlineValues /\ ~HasDict
       => FoundIn \in {"none", "null"}
=============================================================================
