------------------------------- MODULE MCRepr -------------------------------
EXTENDS ReprText

(* Three objects and an address that is not in the dump. *)
Missing == 4
MCAddresses == 1..4

(* Types: S has a slot, a member that is no object and another slot; D     *)
(* derives from it with a slot of its own, and from list, with none.       *)
Slots(offsets) == [k \in DOMAIN offsets |-> [type |-> T_OBJECT_EX, offset |-> offsets[k]]]
Type(name, bases, defs) == [mro |-> <<name>> \o bases \o <<"object">>, defs |-> defs]
UserTypes == {"object", "S", "D", "M"}
MCTypes == [n \in builtinTypes \cup UserTypes |->
              CASE n = "S" -> Type(n, <<>>, <<[type |-> T_OBJECT_EX, offset |-> 1],
                                             [type |-> T_OBJECT, offset |-> 2],
                                             [type |-> T_OBJECT_EX, offset |-> 3]>>)
                [] n = "D" -> Type(n, <<"S", "list">>, Slots(<<4>>))
                [] n = "range" -> Type(n, <<>>, Slots(<<1, 2>>))
                [] n = "M" -> Type(n, <<"type">>, <<>>)
                [] n = "object" -> [mro |-> <<n>>, defs |-> <<>>]
                [] OTHER -> Type(n, <<>>, <<>>)]

Object(type, items) == [type |-> type, items |-> items, words |-> <<>>, dict |-> Null,
                        subclasses |-> 0, locals |-> <<>>,
                        extents |-> [ndim |-> 0, shape |-> <<>>, strides |-> <<>>]]
Lists(type, A) == {Object(type, s) : s \in UNION {[1..n -> A] : n \in 0..2}}
Dicts(type, A) == {Object(type, s) : s \in {<<>>} \cup (A \X A)}
Cells(A) == {Object("cell", <<a>>) : a \in A \cup {Null}}
Fields(A) == {Object("slice", <<a, b>>) : a, b \in A \cup {Null}}
Containers(A) == Lists("list", A) \cup Dicts("dict", A) \cup Cells(A) \cup Fields(A)
Named(A) == {Object("int", <<a, Null>>) : a \in A}
Ranges(A) == {[Object("range", <<a, b>>) EXCEPT !.words = <<a, b>>] : a, b \in A}

(* Instances with slots, one of them set, a word that is no object, and a  *)
(* dict.                                                                   *)
Instances(A) == {[Object("D", s) EXCEPT !.words = <<a, Missing, Null, b>>, !.dict = d] :
                    s \in {<<>>, <<2>>, <<1, 3>>}, a, b \in A \cup {Null}, d \in {Null, 2}}
                \cup {[Object("S", <<>>) EXCEPT !.words = <<a, Missing, a, Null>>] : a \in A}

(* A generator with a variable that is not set, a memoryview of two        *)
(* dimensions and one without, super objects, types of the interpreter, of *)
(* an extension module and of the program, a function with a dict.         *)
Holders(A) ==
    {[Object("generator", <<3>>) EXCEPT !.locals = <<Null, a, a>>] : a \in A}
    \cup {[Object("memoryview", <<>>) EXCEPT !.locals = <<a>>,
              !.extents = [ndim |-> n, shape |-> [k \in 1..n |-> k + 1], strides |-> <<>>]] :
            a \in A \cup {Null}, n \in 0..2}
    \cup {Object("super", <<a, b>>) : a, b \in A \cup {Null}}
    \cup {[Object(t, <<>>) EXCEPT !.subclasses = n, !.dict = IF n = 0 THEN d ELSE Null] :
            t \in {"type", "M"}, n \in 0..2, d \in {Null, 2}}
    \cup {[Object("int", <<3>>) EXCEPT !.dict = d] : d \in {Null, 2}}

Graph(command, o1, o2, o3, rank, height) ==
    [command |-> command, root |-> 1,
     objs |-> [a \in 1..3 |-> CASE a = 1 -> o1 [] a = 2 -> o2 [] a = 3 -> o3],
     static |-> <<[type |-> IF o1.subclasses = 1 THEN 1 ELSE 4, dict |-> 2],
                  [type |-> 4, dict |-> 3]>>,
     rank |-> rank, height |-> height]
Pyobj == [name |-> "pyobj", arg |-> "expression"]

(* Containers whose items lie behind them, instances that refer to anything. *)
LayeredGraphs ==
    {Graph([Pyobj EXCEPT !.name = c], o1, o2, o3, <<2, 1, 0, 0>>, 2) :
        c \in {"pyobj", "struct"},
        o1 \in Containers({2, 3, Missing}) \cup Lists("set", {2, 3}) \cup Ranges({2, 3})
               \cup Instances({2, 3, Missing}) \cup Holders({2, 3, Missing}),
        o2 \in Dicts("dict", {3, Missing}) \cup Named({1, Missing})
               \cup {Object("tuple", <<3>>), Object("type", <<>>)},
        o3 \in {Object("int", <<>>), [Object("S", <<>>) EXCEPT !.words = <<1, 1, Null>>], Object("list", <<>>)}}

FrameGraphs ==
    {[Graph([name |-> "pyinterpreterframe", arg |-> arg], o1, Object("int", <<>>),
            Object("int", <<>>), <<0, 0, 0, 0>>, 0) EXCEPT !.root = root] :
        arg \in {"expression", "number", "bad"}, root \in {1, Missing},
        o1 \in {[Object("frame", <<>>) EXCEPT !.locals = <<2, Null, a>>] : a \in {2, Missing}}}

(* A dict is one, only its type has the index of a type, and the slots of  *)
(* an instance of S are its own.                                           *)
Sensible(g) == /\ g.objs[1].dict = Null \/ g.objs[2].type = "dict"
               /\ g.objs[1].subclasses # 1 \/ g.objs[2].type = "dict"
               /\ g.objs[1].type = "M" => g.objs[1].subclasses = 0
               /\ g.objs[3].type = "S" => g.objs[1].type # "D"
MCGraphs == {g \in LayeredGraphs \cup FrameGraphs : Sensible(g)}
=============================================================================
