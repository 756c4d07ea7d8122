------------------------------ MODULE ReprText ------------------------------
(***************************************************************************)
(* What the commands are meant to print, as a function of the object graph *)
(* alone.                                                                  *)
(***************************************************************************)
EXTENDS Repr, SequencesExt

(* The text of an object shown as one of its kinds is made of the texts of *)
(* its items.                                                              *)
ItemText(g, a, as, k, texts) ==
    LET x == g.objs[a].items[k]
    IN  Separator([at |-> a, as |-> as, next |-> k])
        \o (IF as = "fields" /\ x = Null THEN <<Token("none", a)>>
            ELSE IF x \in DOMAIN g.objs THEN texts[x][KindOf(g, x)] ELSE <<>>)
ItemTexts(g, a, as, texts) == [k \in DOMAIN g.objs[a].items |-> ItemText(g, a, as, k, texts)]
Opening(a, as) == <<Token(IF as = "cell" THEN "cell" ELSE "open", a)>>
Behind(g, a, as) == Ending([at |-> a, as |-> as, next |-> Len(g.objs[a].items) + 1])
TypeNames(g, a) ==
    LET items == g.objs[a].items
    IN  [k \in DOMAIN items |-> IF items[k] = Null THEN Token("none", a) ELSE Token("type", items[k])]
ObjectText(g, a, as, texts) ==
    IF as = "super" THEN <<Token(as, a)>> \o TypeNames(g, a)
    ELSE IF ~IsContainer(as) THEN <<Token(as, a)>>
    ELSE Opening(a, as) \o (FlattenSeq(ItemTexts(g, a, as, texts)) \o Behind(g, a, as))

(* The texts of all objects, cut off below n levels.                       *)
Deepest(g) == g.height + 2
TextsOf(g) ==
    LET Texts[n \in 0..Deepest(g)] ==
          [a \in DOMAIN g.objs |-> [as \in Kinds |->
              IF n = 0 THEN <<>> ELSE ObjectText(g, a, as, Texts[n - 1])]]
    IN  Texts
TextOf(g, a, as) == IF a \in DOMAIN g.objs THEN TextsOf(g)[Deepest(g)][a][as] ELSE <<>>
Whole(g, a) == TextOf(g, a, IF a \in DOMAIN g.objs THEN KindOf(g, a) ELSE "value")

(* The details: the object as each of its built-in bases; what its classes *)
(* declare of it, class by class; its dict.  A frame, generator or         *)
(* memoryview shows its variables instead.  What is not set is left out.   *)
MroOf(g) == TypeTable[g.objs[g.root].type].mro
BaseTexts(g) ==
    LET mro == MroOf(g)
    IN  [k \in DOMAIN mro |-> IF mro[k] \in builtinTypes THEN TextOf(g, g.root, MadeAs(mro[k]))
                              ELSE <<>>]
MemberTexts(g, t) ==
    LET defs == TypeTable[t].defs
    IN  [k \in DOMAIN defs |-> IF defs[k].type = T_OBJECT_EX
                               THEN Whole(g, g.objs[g.root].words[defs[k].offset])
                               ELSE <<>>]
SlotTexts(g) == [k \in DOMAIN MroOf(g) |-> FlattenSeq(MemberTexts(g, MroOf(g)[k]))]
LocalTexts(g) == LET locals == g.objs[g.root].locals
                 IN  [k \in DOMAIN locals |-> Whole(g, locals[k])]
DictOf(g, a) ==
    IF \E i \in DOMAIN g.static : g.static[i].type = a
    THEN g.static[CHOOSE i \in DOMAIN g.static : g.static[i].type = a].dict
    ELSE g.objs[a].dict
ShowsLocals(g) == KindOf(g, g.root) \in {"frame", "memoryview"}
DictText(g) == IF ShowsLocals(g) THEN <<>> ELSE TextOf(g, DictOf(g, g.root), "dict")
ExtentsText(g) == LET e == g.objs[g.root].extents
                     all == e.shape \o e.strides
                 IN  [k \in DOMAIN all |-> Token("extent", all[k])]
Details(g) ==
    (IF ShowsLocals(g) THEN FlattenSeq(LocalTexts(g))
     ELSE (IF g.objs[g.root].type \in builtinTypes THEN <<>> ELSE FlattenSeq(BaseTexts(g)))
          \o FlattenSeq(SlotTexts(g)))
    \o (DictText(g) \o ExtentsText(g))

Header(g) == <<Token("header", g.root)>>
Expected(g) ==
    LET own == Whole(g, g.root)
    IN  CASE g.command.name = "pyobj" -> (Header(g) \o own) \o Details(g)
          [] g.command.name = "pyinterpreterframe" -> Header(g) \o Details(g)
          [] g.command.name = "struct" ->
               Header(g) \o IF Len(Header(g) \o own) <= AppendLimit THEN own
                            ELSE <<Token("toolong", g.root)>>

(* A graph that a process can have: shape and strides have an entry for    *)
(* each dimension, an interpreter's type knows its place, and what         *)
(* !pyinterpreterframe is given is a frame.                                *)
Consistent(g) ==
    /\ LET e == g.objs[g.root].extents
       IN  e.shape = <<>> \/ Len(e.shape) = e.ndim
    /\ LET e == g.objs[g.root].extents
       IN  e.strides = <<>> \/ Len(e.strides) = e.ndim
    /\ \A i \in DOMAIN g.static : g.static[i].type \in DOMAIN g.objs =>
          /\ KindOf(g, g.static[i].type) = "type"
          /\ g.objs[g.static[i].type].subclasses = i
    /\ g.command.name = "pyinterpreterframe" => ShowsLocals(g)

(* A command that gets to its end has printed the header, the repr and the *)
(* details of the object: every item once, in order, under its container,  *)
(* with the separators at their places.  There are two exceptions.  For    *)
(* super of a class whose metaclass is not type the cast of                *)
(* fieldAsPyObject fails, and NULL is printed; and the dict of a type that *)
(* an extension module defines statically is looked up in the array of the *)
(* types of the interpreter (PyTypeObject.cpp:151).                        *)
IsSuper(o) == \/ MadeAs(o.type) = "super"
              \/ \E j \in DOMAIN TypeTable[o.type].mro : MadeAs(TypeTable[o.type].mro[j]) = "super"
PlainMetaclasses(g) ==
    \A a \in DOMAIN g.objs : IsSuper(g.objs[a]) =>
       \A k \in DOMAIN g.objs[a].items :
          LET x == g.objs[a].items[k]
          IN  x \in DOMAIN g.objs => KindOf(g, x) = "type"
ExtensionType(g) == /\ g.objs[g.root].subclasses # 0
                    /\ \A i \in DOMAIN g.static : g.static[i].type # g.root
Ordinary(g) == /\ g.root \in DOMAIN g.objs
               /\ Ranked(g) /\ Consistent(g) /\ PlainMetaclasses(g) /\ ~ExtensionType(g)
PrintsTheGraph ==
    pc = "done" /\ Ordinary(graph) => FlattenSeq(printed) = Expected(graph)
=============================================================================
