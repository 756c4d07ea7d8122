-------------------------------- MODULE Repr --------------------------------
(***************************************************************************)
(* The commands that show objects (src/extension.cpp) and the recursion    *)
(* they start: repr() of an object calls repr() of the objects it contains *)
(* (src/objects).  !pyobj prints the repr() and the details() of an        *)
(* object, !pyinterpreterframe the details of a frame that is no object,   *)
(* and the handler of known structs appends a repr() to a line of the      *)
(* debugger.  The C++ call stack is a variable; it is finite.  An address  *)
(* that cannot be read makes make() throw, which ends the command with     *)
(* what it had printed.                                                    *)
(***************************************************************************)
EXTENDS Types

CONSTANTS Addresses,   \* addresses that occur in the debuggee
          Graphs,      \* object graphs, see IsGraph
          StackLimit,  \* how many nested calls of repr() the stack holds
          ChunkSize,   \* the most the debugger takes as one output
          AppendLimit  \* the room on a line of the debugger

ASSUME NullAssumption == Null \notin Addresses

(* An object: its type, the objects its repr() reads and the words at the  *)
(* offsets of its members.  The items of a dict are its keys and values in *)
(* turn, those of a frame or generator its names.  dict is the dict of an  *)
(* instance (see InstanceDict) or of a type; subclasses is that field of a *)
(* type built into the interpreter, an index, and 0 for all other types.   *)
(* locals are the variables of a frame or generator, or the exporter of a  *)
(* memoryview; extents its ndim, shape and strides, <<>> for null.         *)
ObjectRecord == [type : STRING, items : Seq(Addresses \cup {Null}),
                 words : Seq(Addresses \cup {Null}),
                 dict : Addresses \cup {Null}, subclasses : Nat,
                 locals : Seq(Addresses \cup {Null}),
                 extents : [ndim : Int, shape : Seq(Nat), strides : Seq(Nat)]]

(* What the user does: a command with an argument that is an expression, a *)
(* number or neither, or looking at a struct (the argument is its address).*)
CommandRecord == [name : {"pyobj", "pyinterpreterframe", "struct"},
                  arg : {"expression", "number", "bad"}]

(* static is where a type built into the interpreter has its dict.  rank   *)
(* gives each object a depth, and height bounds it: see Ranked.            *)
IsGraph(g) == /\ g.command \in CommandRecord
              /\ g.root \in Addresses
              /\ DOMAIN g.objs \subseteq Addresses
              /\ \A a \in DOMAIN g.objs : /\ g.objs[a] \in ObjectRecord
                                         /\ g.objs[a].type \in DOMAIN TypeTable
              /\ g.static \in Seq([type : Addresses, dict : Addresses])
              /\ g.rank \in [Addresses -> Nat]
              /\ g.height \in Nat

ASSUME ReprAssumption == /\ StackLimit \in Nat \ {0}
                         /\ ChunkSize \in Nat \ {0} /\ AppendLimit \in Nat \ {0}
                         /\ \A g \in Graphs : IsGraph(g)

VARIABLES graph,    \* the debuggee and the command
          pc,       \* the part of the command, and how it ended
          stack,    \* the calls of repr(): [at, as, next item]
          cursor,   \* details(): the type of the mro and its member
          jobs,     \* the members details() has found and not yet printed
          text,     \* the string being built
          printed   \* the outputs the user sees

vars == <<graph, pc, stack, cursor, jobs, text, printed>>

Readable(a) == a \in DOMAIN graph.objs
KindOf(g, a) == MadeAs(g.objs[a].type)
Root == graph.objs[graph.root]
ItemsOf(f) == graph.objs[f.at].items
Call(a, kind) == [at |-> a, as |-> kind, next |-> 0]
Token(what, a) == [what |-> what, at |-> a]
Start == [type |-> 1, member |-> 1]

(* Containers contain each other to a bounded depth. *)
Ranked(g) == /\ \A a \in Addresses : g.rank[a] <= g.height
             /\ \A a \in DOMAIN g.objs : IsContainer(KindOf(g, a)) =>
                   \A k \in DOMAIN g.objs[a].items :
                      g.objs[a].items[k] \in DOMAIN g.objs =>
                         g.rank[g.objs[a].items[k]] < g.rank[a]

Init == /\ graph \in Graphs
        /\ pc = "make"
        /\ stack = <<>> /\ cursor = Start /\ jobs = <<>>
        /\ text = <<>> /\ printed = <<>>

-----------------------------------------------------------------------------

(* An ExtException: nothing catches it before the engine does. *)
Throw == /\ pc' = "failed"
         /\ UNCHANGED <<graph, stack, cursor, jobs, text, printed>>

Calling == {"repr", "bases", "members", "dict"}
Running == pc \in Calling /\ stack # <<>>
Top == stack[Len(stack)]
Below == SubSeq(stack, 1, Len(stack) - 1)
Advanced == Append(Below, [Top EXCEPT !.next = @ + 1])

(* A call of repr() for an item, after what is written before it. *)
CallRepr(frames, call, written) ==
    /\ IF Len(frames) < StackLimit
       THEN pc' = pc /\ stack' = Append(frames, call)
       ELSE pc' = "overflow" /\ stack' = frames
    /\ text' = text \o written
    /\ UNCHANGED <<graph, cursor, jobs, printed>>

(* evalOffset, make, and the lines before the repr().  A frame that is no  *)
(* object has no type to read, and no repr().                              *)
Make ==
    /\ pc = "make"
    /\ IF Readable(graph.root) /\ (graph.command.name = "struct" \/ graph.command.arg # "bad")
       THEN /\ IF graph.command.name = "pyinterpreterframe"
               THEN pc' = "locals" /\ stack' = stack
               ELSE pc' = "repr" /\ stack' = <<Call(graph.root, KindOf(graph, graph.root))>>
            /\ printed' = IF graph.command.name = "pyinterpreterframe" THEN printed
                          ELSE <<<<Token("header", graph.root)>>>>
            /\ UNCHANGED <<graph, cursor, jobs, text>>
       ELSE Throw

(* fieldAsPyObject: a null pointer gives no object, any other is read. *)
Optional(a) == a = Null \/ Readable(a)

(* fieldAsPyObject<PyTypeObject>: an object of another class is dropped.   *)
TypeField(a, f) == IF a # Null /\ KindOf(graph, a) = "type" THEN Token("type", a)
                   ELSE Token("none", f.at)

(* PyObject::repr and the repr() of objects that contain no others, with   *)
(* the names they read; that of super has two types in it.                 *)
ReprValue ==
    /\ Running /\ ~IsContainer(Top.as)
    /\ IF \A k \in DOMAIN ItemsOf(Top) : Top.as # "instance" => Optional(ItemsOf(Top)[k])
       THEN /\ text' = text \o <<Token(Top.as, Top.at)>>
                       \o (IF Top.as # "super" THEN <<>>
                           ELSE [k \in DOMAIN ItemsOf(Top) |-> TypeField(ItemsOf(Top)[k], Top)])
            /\ stack' = Below
            /\ UNCHANGED <<graph, pc, cursor, jobs, printed>>
       ELSE Throw

(* PyListObject::repr, PyTupleObject::repr, PySliceObject::repr and        *)
(* PyWeakrefObject::repr open their bracket.                               *)
OpenSequence ==
    /\ Running /\ Top.as \in Sequential \cup {"fields"} /\ Top.next = 0
    /\ text' = Append(text, Token("open", Top.at))
    /\ stack' = Advanced
    /\ UNCHANGED <<graph, pc, cursor, jobs, printed>>

(* PySetObject::listValue and PyDict::pairValues make all their objects    *)
(* before anything is written.                                             *)
OpenTable ==
    /\ Running /\ Top.as \in Tables /\ Top.next = 0
    /\ IF \A k \in DOMAIN ItemsOf(Top) : Readable(ItemsOf(Top)[k])
       THEN /\ text' = Append(text, Token("open", Top.at))
            /\ stack' = Advanced
            /\ UNCHANGED <<graph, pc, cursor, jobs, printed>>
       ELSE Throw

(* PyCellObject::repr: itself, then its reference, which it takes for      *)
(* granted.                                                                *)
OpenCell ==
    /\ Running /\ Top.as = "cell" /\ Top.next = 0
    /\ text' = Append(text, Token("cell", Top.at))
    /\ stack' = Advanced
    /\ UNCHANGED <<graph, pc, cursor, jobs, printed>>

(* What is written before an item: ": " before a value of a dict and the   *)
(* reference of a cell, ", " between items.                                *)
Separator(f) == IF f.as = "cell" \/ (f.as = "dict" /\ f.next % 2 = 0)
                THEN <<Token(":", f.at)>>
                ELSE IF f.next = 1 THEN <<>> ELSE <<Token(",", f.at)>>

(* A field that is null (or a dead referent) has a fixed text. *)
IsNullField(f) == f.as = "fields" /\ ItemsOf(f)[f.next] = Null

(* Wrong on purpose: an item is made as what contains it. *)
ItemAsContainer ==
    /\ Running /\ IsContainer(Top.as) /\ Top.next \in 1..Len(ItemsOf(Top))
    /\ ~IsNullField(Top)
    /\ LET a == ItemsOf(Top)[Top.next]
       IN  IF Readable(a) THEN CallRepr(Advanced, Call(a, Top.as), Separator(Top))
           ELSE Throw

(* "None", "?", "dead" *)
NullField ==
    /\ Running /\ IsContainer(Top.as) /\ Top.next \in 1..Len(ItemsOf(Top))
    /\ IsNullField(Top)
    /\ text' = text \o Separator(Top) \o <<Token("none", Top.at)>>
    /\ stack' = Advanced
    /\ UNCHANGED <<graph, pc, cursor, jobs, printed>>

(* The next item: at() of a sequence makes it now. *)
Item ==
    /\ Running /\ IsContainer(Top.as) /\ Top.next \in 1..Len(ItemsOf(Top))
    /\ ~IsNullField(Top)
    /\ LET a == ItemsOf(Top)[Top.next]
       IN  IF Readable(a)
           THEN CallRepr(Advanced, Call(a, KindOf(graph, a)), Separator(Top))
           ELSE Throw

(* What is written behind the last item: in a set and in a dict each item  *)
(* is followed by a comma, the last one too.                               *)
Ending(f) == (IF f.as \in Tables /\ f.next > 1 THEN <<Token(",", f.at)>> ELSE <<>>)
             \o (IF f.as = "cell" THEN <<>> ELSE <<Token("close", f.at)>>)

(* The call returns. *)
Close ==
    /\ Running /\ IsContainer(Top.as) /\ Top.next = Len(ItemsOf(Top)) + 1
    /\ text' = text \o Ending(Top)
    /\ stack' = Below
    /\ UNCHANGED <<graph, pc, cursor, jobs, printed>>

-----------------------------------------------------------------------------

(* Wrong on purpose: the text as one output, however long it is. *)
ChunksTooLong(content) == IF content = <<>> THEN <<>> ELSE <<content>>

(* printDml: the outputs for a text, none for an empty one. *)
Chunks(content) ==
    [k \in 1..((Len(content) + ChunkSize - 1) \div ChunkSize) |->
       LET last == k * ChunkSize
       IN  SubSeq(content, last - ChunkSize + 1,
                  IF last <= Len(content) THEN last ELSE Len(content))]

(* The test before the text is appended to a line. *)
TooLong(used) == Len(text) > AppendLimit \/ used > AppendLimit - Len(text)

(* AppendBufferString of the engine needs room for a terminating null. *)
Appendable(used, n) == used + n + 1 <= AppendLimit

(* KnownStructObjectHandler gets the repr(): a message replaces a long one. *)
AppendRepr ==
    /\ pc = "repr" /\ stack = <<>> /\ graph.command.name = "struct"
    /\ LET line  == printed[1]
           shown == IF TooLong(Len(line)) THEN <<Token("toolong", graph.root)>> ELSE text
       IN  IF Appendable(Len(line), Len(shown))
           THEN /\ printed' = <<line \o shown>>
                /\ pc' = "done"
                /\ UNCHANGED <<graph, stack, cursor, jobs, text>>
           ELSE Throw

HasLocals == KindOf(graph, graph.root) \in {"frame", "memoryview"}

(* The repr is complete and printed; details() of the class starts. *)
EndRepr ==
    /\ pc = "repr" /\ stack = <<>> /\ graph.command.name # "struct"
    /\ printed' = printed \o Chunks(text) /\ text' = <<>>
    /\ pc' = IF HasLocals THEN "locals"
             ELSE IF Root.type \in builtinTypes THEN "slots" ELSE "bases"
    /\ UNCHANGED <<graph, stack, cursor, jobs>>

-----------------------------------------------------------------------------

(* PyTypeObject::mro *)
Mro == TypeTable[Root.type].mro
TypeAtCursor == Mro[cursor.type]

(* PyObject::details shows the object as each of its built-in bases. *)
Base ==
    /\ pc = "bases" /\ stack = <<>> /\ cursor.type \in DOMAIN Mro
    /\ stack' = IF TypeAtCursor \in builtinTypes
                THEN <<Call(graph.root, MadeAs(TypeAtCursor))>> ELSE <<>>
    /\ cursor' = [cursor EXCEPT !.type = @ + 1]
    /\ UNCHANGED <<graph, pc, jobs, text, printed>>

EndBases ==
    /\ pc = "bases" /\ stack = <<>> /\ cursor.type \notin DOMAIN Mro
    /\ pc' = "slots" /\ cursor' = Start
    /\ UNCHANGED <<graph, stack, jobs, text, printed>>

(* Wrong on purpose: a slot that is not set counts as unreadable. *)
CollectAll(a) ==
    IF Readable(a) THEN jobs' = Append(jobs, Call(a, KindOf(graph, a))) /\ pc' = pc
    ELSE pc' = "failed" /\ UNCHANGED jobs

(* A slot or a variable is made an object at once and printed later; one   *)
(* that is not set is passed over.                                         *)
Collect(a) ==
    IF Readable(a) THEN jobs' = Append(jobs, Call(a, KindOf(graph, a))) /\ pc' = pc
    ELSE /\ pc' = IF a = Null THEN pc ELSE "failed"
         /\ UNCHANGED jobs

(* PyObject::slots: the members that hold objects, of every class in the   *)
(* mro.                                                                    *)
Slot ==
    /\ pc = "slots" /\ cursor.type \in DOMAIN Mro
    /\ IF MemberEnds(TypeAtCursor, cursor.member)
       THEN /\ cursor' = [type |-> cursor.type + 1, member |-> 1]
            /\ UNCHANGED <<pc, jobs>>
       ELSE /\ cursor' = [cursor EXCEPT !.member = @ + 1]
            /\ IF MemberType(TypeAtCursor, cursor.member) = T_OBJECT_EX
               THEN Collect(Root.words[MemberOffset(TypeAtCursor, cursor.member)])
               ELSE UNCHANGED <<pc, jobs>>
    /\ UNCHANGED <<graph, stack, text, printed>>

(* localsplus() of a frame or generator; exporter() of a memoryview. *)
Local ==
    /\ pc = "locals" /\ cursor.member \in DOMAIN Root.locals
    /\ cursor' = [cursor EXCEPT !.member = @ + 1]
    /\ Collect(Root.locals[cursor.member])
    /\ UNCHANGED <<graph, stack, text, printed>>

EndCollecting ==
    /\ \/ pc = "slots" /\ cursor.type \notin DOMAIN Mro
       \/ pc = "locals" /\ cursor.member \notin DOMAIN Root.locals
    /\ pc' = "members"
    /\ UNCHANGED <<graph, stack, cursor, jobs, text, printed>>

(* The next of the members found. *)
NextJob ==
    /\ pc = "members" /\ stack = <<>> /\ jobs # <<>>
    /\ stack' = <<Head(jobs)>>
    /\ jobs' = Tail(jobs)
    /\ UNCHANGED <<graph, pc, cursor, text, printed>>

(* PyTypeObject::getStaticBuiltinIndex: -1 for other types. *)
getStaticBuiltinIndex(o) == o.subclasses - 1

(* dict(): that of a type built into the interpreter lies in an array,     *)
(* whose elements count from 0.                                            *)
Dict(o) == IF MadeAs(o.type) = "type" /\ getStaticBuiltinIndex(o) >= 0
           THEN LET i == getStaticBuiltinIndex(o) + 1
                IN  IF i \in DOMAIN graph.static THEN graph.static[i].dict ELSE Null
           ELSE o.dict

(* The dict comes last; a type is taken to have one. *)
ShowDict ==
    /\ pc = "members" /\ stack = <<>> /\ jobs = <<>>
    /\ IF HasLocals \/ (Dict(Root) = Null /\ KindOf(graph, graph.root) # "type")
       THEN /\ pc' = "dict"
            /\ UNCHANGED <<graph, stack, cursor, jobs, text, printed>>
       ELSE IF Readable(Dict(Root))
       THEN /\ pc' = "dict" /\ stack' = <<Call(Dict(Root), "dict")>>
            /\ UNCHANGED <<graph, cursor, jobs, text, printed>>
       ELSE Throw

(* PyMemoryViewObject::shape and strides. *)
Extent(n, array) == IF n <= 0 \/ array = <<>> THEN <<>>
                    ELSE [k \in 1..n |-> Token("extent", array[k])]
Extents(e) == Extent(e.ndim, e.shape) \o Extent(e.ndim, e.strides)

(* The details are printed at once, when all of them are there;            *)
(* !pyinterpreterframe has printed nothing until then.                     *)
Heading(g) == IF g.command.name = "pyinterpreterframe" THEN <<<<Token("header", g.root)>>>>
              ELSE <<>>
EndDetails ==
    /\ pc = "dict" /\ stack = <<>>
    /\ pc' = "done"
    /\ printed' = (printed \o Heading(graph)) \o Chunks(text \o Extents(Root.extents))
    /\ text' = <<>>
    /\ UNCHANGED <<graph, stack, cursor, jobs>>

Finished == pc \in {"done", "failed", "overflow"} /\ UNCHANGED vars

Step == \/ Make \/ ReprValue \/ OpenSequence \/ OpenTable \/ OpenCell
        \/ NullField \/ Item \/ Close \/ AppendRepr \/ EndRepr
        \/ Base \/ EndBases \/ Slot \/ Local \/ EndCollecting \/ NextJob
        \/ ShowDict \/ EndDetails

Next == Step \/ Finished

Spec == Init /\ [][Next]_vars

(* A command runs on by itself until it returns. *)
FairSpec == Spec /\ WF_vars(Step)

-----------------------------------------------------------------------------

CallRecord == [at : Addresses, as : Kinds, next : Nat]
PCs == Calling \cup {"make", "slots", "locals", "done", "failed", "overflow"}

TypeOK == /\ IsGraph(graph)
          /\ pc \in PCs
          /\ stack \in Seq(CallRecord) /\ jobs \in Seq(CallRecord)
          /\ cursor \in [type : Nat, member : Nat]

(* While containers nest to a bounded depth, so does the recursion: a      *)
(* stack for the height of the graph, and for the two calls that details() *)
(* and !pyobj may add, is never exhausted, however often objects are       *)
(* shared and whatever instances refer to.                                 *)
StackIsEnough == Ranked(graph) /\ graph.height + 2 <= StackLimit => pc # "overflow"

(* What an object may be shown as: the kind of its type, of a base of its  *)
(* type when it is the one the command is for, a dict when that has it as  *)
(* its dict.                                                               *)
ShownAs(a) == {KindOf(graph, a)}
              \cup (IF a = graph.root THEN {MadeAs(Mro[j]) : j \in DOMAIN Mro} ELSE {})
              \cup (IF a = Dict(Root) THEN {"dict"} ELSE {})

(* Why: the calls are for objects that can be read, as one of the kinds    *)
(* they may be shown as; from the second call on, each is of the kind of   *)
(* its object, and its depth and the rank of its object together stay      *)
(* below the height.                                                       *)
CallOK(call, i) == /\ Readable(call.at) /\ call.as \in ShownAs(call.at)
                   /\ i > 1 => /\ call.as = KindOf(graph, call.at)
                               /\ Ranked(graph) =>
                                     graph.rank[call.at] + i <= graph.height + 2
CallsOK == \A i \in DOMAIN stack : CallOK(stack[i], i)
JobsOK == /\ pc \notin {"make", "failed"} => Readable(graph.root)
          /\ \A j \in DOMAIN jobs : /\ Readable(jobs[j].at)
                                   /\ jobs[j].as \in ShownAs(jobs[j].at)
InductiveInv == TypeOK /\ CallsOK /\ JobsOK

(* Only an object that cannot be read, the root or one that some object    *)
(* refers to, ends the command early: never a slot or a variable that is   *)
(* not set.  A line of the debugger may be full already, and a text that   *)
(* fills it to the last character leaves no room for the terminating null, *)
(* which the test forgets (extension.cpp:55).                              *)
SlotsOf(o) == {o.words[d.offset] : d \in {d2 \in UNION {
                   {TypeTable[n].defs[k] : k \in DOMAIN TypeTable[n].defs} :
                      n \in {TypeTable[o.type].mro[j] :
                               j \in DOMAIN TypeTable[o.type].mro}} :
                          d2.type = T_OBJECT_EX}}
EdgesFrom(a) == LET o == graph.objs[a]
                IN  ({o.items[k] : k \in DOMAIN o.items}
                       \ (IF ShownAs(a) \subseteq {"fields"} \cup Leaves THEN {Null} ELSE {}))
                    \cup ((SlotsOf(o) \cup {o.locals[k] : k \in DOMAIN o.locals}) \ {Null})
                    \cup ({Dict(o)} \ (IF KindOf(graph, a) = "type" THEN {} ELSE {Null}))
LineIsFull == /\ graph.command.name = "struct" /\ printed # <<>>
              /\ \/ Len(printed[1]) + 2 > AppendLimit
                 \/ Len(printed[1]) + Len(text) = AppendLimit
RefersToUnreadable ==
    \E a \in DOMAIN graph.objs : \E b \in EdgesFrom(a) : ~Readable(b)
FailsForAReason ==
    pc = "failed" => \/ ~Readable(graph.root)
                     \/ graph.command.arg = "bad"
                     \/ RefersToUnreadable
                     \/ LineIsFull

(* No single output is longer than the debugger takes.                     *)
EveryOutputFits ==
    \A k \in DOMAIN printed :
       Len(printed[k]) <= IF graph.command.name = "struct" THEN AppendLimit ELSE ChunkSize

(* With a deep enough stack the command returns for every graph whose      *)
(* containers do not contain themselves, whatever instances refer to.      *)
Returns == Ranked(graph) /\ graph.height + 2 <= StackLimit => <>(pc \in {"done", "failed"})
=============================================================================
