------------------------------- MODULE Types -------------------------------
(***************************************************************************)
(* The types of the debuggee as PyExt sees them: which of its classes      *)
(* make() chooses for the name of a type (src/objects/PyObjectMake.cpp),   *)
(* and the definitions of members behind tp_members                        *)
(* (src/objects/PyTypeObject.cpp, src/PyMemberDef.cpp).                    *)
(***************************************************************************)
EXTENDS Integers, Sequences

CONSTANT TypeTable   \* the types of the debuggee, by their names

Null == 0

(* The classes of PyExt, as far as repr() and details() tell them apart.   *)
(* "fields" are slice, range and weakref, which may have null fields;      *)
(* "value" is a class whose text is made of what it reads itself, perhaps  *)
(* a name; "instance" is PyObject, for the types PyExt does not know.      *)
Sequential == {"list", "tuple"}
Tables == {"set", "dict"}
Leaves == {"value", "type", "frame", "memoryview", "super", "instance"}
Kinds == Sequential \cup Tables \cup {"cell", "fields"} \cup Leaves
IsContainer(kind) == kind \in Kinds \ Leaves

(* factoryTable.  "int" stands for every other name of a "value": str,     *)
(* bytes, float, code, function and so on.                                 *)
SetNames == {"set", "frozenset"}
DictNames == {"dict", "frozendict"}
FieldsNames == {"slice", "range", "weakref"}
FrameNames == {"frame", "generator", "coroutine", "async_generator"}
builtinTypes == Sequential \cup SetNames \cup DictNames \cup FieldsNames \cup FrameNames
                \cup {"cell", "int", "memoryview", "super", "type"}

(* PyObject::make for a name; PyObject when the table has no entry. *)
MadeAs(name) == CASE name \in SetNames -> "set"
                  [] name \in DictNames -> "dict"
                  [] name \in FieldsNames -> "fields"
                  [] name \in FrameNames -> "frame"
                  [] name = "int" -> "value"
                  [] name \in Sequential \cup {"cell", "memoryview", "super", "type"} -> name
                  [] OTHER -> "instance"

-----------------------------------------------------------------------------

T_OBJECT == 6
T_OBJECT_EX == 16

(* What a class declares: members of an object, each at an offset.  mro is *)
(* the order in which Python looks through its bases, itself first.        *)
MemberDef == [type : {T_OBJECT, T_OBJECT_EX}, offset : Nat]
TypeRecord == [mro : Seq(STRING), defs : Seq(MemberDef)]

ASSUME TypesAssumption ==
    \A n \in DOMAIN TypeTable :
       /\ TypeTable[n] \in TypeRecord
       /\ \A j \in DOMAIN TypeTable[n].mro : TypeTable[n].mro[j] \in DOMAIN TypeTable

(* tp_members in memory: the words of each definition, which are its name, *)
(* type, offset, flags and documentation, and a last definition without a  *)
(* name.  What lies behind is unknown.  A class without members may have a *)
(* null pointer, <<>> here.                                                *)
Name == 1
MemberWords(t) ==
    LET defs == TypeTable[t].defs
    IN  IF defs = <<>> THEN <<>>
        ELSE [w \in 1..(5 * (Len(defs) + 1)) |->
                LET k == (w - 1) \div 5 + 1
                    field == (w - 1) % 5
                IN  IF k > Len(defs) THEN Null
                    ELSE CASE field = 0 -> Name
                           [] field = 1 -> defs[k].type
                           [] field = 2 -> defs[k].offset
                           [] OTHER -> 0]

(* Wrong on purpose: a definition without the word for its flags. *)
MemberDefSizeShort == 4

(* The words of a PyMemberDef, which members() assumes when the debugger   *)
(* has no symbol for the structure.                                        *)
MemberDefSize == 5

(* PyTypeObject::members: the k-th turn of either loop, and what the two   *)
(* classes of PyMemberDef read there.                                      *)
Word(t, k, i) == MemberWords(t)[MemberDefSize * (k - 1) + i]
MemberEnds(t, k) == MemberWords(t) = <<>> \/ Word(t, k, 1) = Null
MemberType(t, k) == Word(t, k, 2)
MemberOffset(t, k) == Word(t, k, 3)
=============================================================================
