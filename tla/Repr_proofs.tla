---------------------------- MODULE Repr_proofs ----------------------------
(***************************************************************************)
(* The object commands, for every graph of objects: the recursion of       *)
(* repr() is no deeper than the graph, so that !pyobj does not run out of  *)
(* stack where containers do not contain themselves; a command fails only  *)
(* for a reason, and no output is too long; and what a command prints is   *)
(* the text of the graph, every object once and in order.                  *)
(***************************************************************************)
EXTENDS ReprText, Induction

GoodStack(s) == /\ s \in Seq(CallRecord)
                /\ \A i \in DOMAIN s : CallOK(s[i], i)

(* make() always finds a class. *)
LEMMA KindsMade == \A name : MadeAs(name) \in Kinds
BY Zenon DEF MadeAs, Kinds, Sequential, Tables, Leaves

(* What a graph gives for a readable address. *)
LEMMA ObjectsTyped ==
    ASSUME TypeOK, NEW a, Readable(a)
    PROVE  /\ a \in Addresses
           /\ graph.objs[a] \in ObjectRecord
           /\ KindOf(graph, a) \in Kinds
           /\ graph.objs[a].items \in Seq(Addresses \cup {Null})
           /\ graph.height \in Nat
           /\ graph.rank[a] \in Nat
<1>1. IsGraph(graph)
  BY DEF TypeOK
<1>2. a \in Addresses /\ graph.objs[a] \in ObjectRecord
  BY <1>1 DEF IsGraph, Readable
<1> QED  BY <1>1, <1>2, KindsMade DEF IsGraph, ObjectRecord, KindOf

(* How an object may be shown depends on the debuggee only. *)
LEMMA ShownFixed ==
    ASSUME graph' = graph
    PROVE  \A a : ShownAs(a)' = ShownAs(a)
BY DEF ShownAs, KindOf, Mro, Dict, Root, getStaticBuiltinIndex

(* Returning from a call leaves the calls below as they were. *)
LEMMA BelowGood ==
    ASSUME GoodStack(stack), stack # <<>>
    PROVE  /\ Len(stack) \in Nat /\ Len(stack) >= 1
           /\ GoodStack(Below) /\ Len(Below) = Len(stack) - 1
           /\ Top \in CallRecord /\ CallOK(Top, Len(stack))
<1>1. stack \in Seq(CallRecord) /\ Len(stack) \in Nat /\ Len(stack) >= 1
  BY EmptySeq DEF GoodStack
<1>2. \A i \in 1..(Len(stack) - 1) : stack[i] \in CallRecord
  BY <1>1
<1>3. /\ Below \in Seq(CallRecord) /\ Len(Below) = Len(stack) - 1
      /\ \A i \in 1..(Len(stack) - 1) : Below[i] = stack[i]
  <2> DEFINE n == Len(stack) - 1
  <2>1. n \in Int /\ 1 \in Int /\ n >= 0
    BY <1>1
  <2>2. \A i \in 1..n : stack[i] \in CallRecord
    BY <1>2
  <2> HIDE DEF n
  <2>3. /\ SubSeq(stack, 1, n) \in Seq(CallRecord)
        /\ Len(SubSeq(stack, 1, n)) = IF 1 <= n THEN n - 1 + 1 ELSE 0
        /\ \A i \in 1..(n - 1 + 1) : SubSeq(stack, 1, n)[i] = stack[1 + i - 1]
    BY <2>1, <2>2, SubSeqProperties
  <2>4. Len(SubSeq(stack, 1, n)) = n
    BY <2>1, <2>3
  <2>5. \A i \in 1..n : SubSeq(stack, 1, n)[i] = stack[i]
    <3> SUFFICES ASSUME NEW i \in 1..n PROVE SubSeq(stack, 1, n)[i] = stack[i]
      OBVIOUS
    <3>1. i \in 1..(n - 1 + 1) /\ 1 + i - 1 = i
      BY <2>1
    <3> QED  BY <2>3, <3>1
  <2> QED  BY <2>3, <2>4, <2>5 DEF Below, n
<1>4. GoodStack(Below)
  BY <1>1, <1>3 DEF GoodStack
<1> QED  BY <1>1, <1>3, <1>4 DEF GoodStack, Top

(* A call on top of the others. *)
LEMMA PushGood ==
    ASSUME NEW s, GoodStack(s), NEW call \in CallRecord, CallOK(call, Len(s) + 1)
    PROVE  /\ GoodStack(Append(s, call))
           /\ Len(Append(s, call)) = Len(s) + 1
<1>1. s \in Seq(CallRecord) /\ Len(s) \in Nat
  BY DEF GoodStack
<1>2. /\ Append(s, call) \in Seq(CallRecord)
      /\ Len(Append(s, call)) = Len(s) + 1
      /\ \A i \in 1..Len(s) : Append(s, call)[i] = s[i]
      /\ Append(s, call)[Len(s) + 1] = call
  BY <1>1, AppendProperties
<1> QED  BY <1>1, <1>2 DEF GoodStack

(* Going on to the next item changes no call's object. *)
LEMMA AdvancedGood ==
    ASSUME GoodStack(stack), stack # <<>>
    PROVE  GoodStack(Advanced) /\ Len(Advanced) = Len(stack)
<1> DEFINE call == [Top EXCEPT !.next = @ + 1]
<1>1. /\ Len(stack) \in Nat /\ Len(stack) >= 1
      /\ GoodStack(Below) /\ Len(Below) = Len(stack) - 1
      /\ Top \in CallRecord /\ CallOK(Top, Len(stack))
  BY BelowGood
<1>2. call \in CallRecord /\ call.at = Top.at /\ call.as = Top.as
  BY <1>1 DEF CallRecord
<1>3. CallOK(call, Len(Below) + 1)
  BY <1>1, <1>2 DEF CallOK
<1> HIDE DEF call
<1>4. /\ GoodStack(Append(Below, call))
      /\ Len(Append(Below, call)) = Len(Below) + 1
  BY <1>1, <1>2, <1>3, PushGood
<1> QED  BY <1>1, <1>4 DEF Advanced, call

(* A call for an item of a container is one deeper, for an object of a     *)
(* smaller rank.                                                           *)
LEMMA ItemGood ==
    ASSUME TypeOK, GoodStack(stack), Running, IsContainer(Top.as),
           NEW k \in 1..Len(ItemsOf(Top)), NEW a, a = ItemsOf(Top)[k], Readable(a)
    PROVE  /\ Call(a, KindOf(graph, a)) \in CallRecord
           /\ CallOK(Call(a, KindOf(graph, a)), Len(stack) + 1)
           /\ Ranked(graph) => Len(stack) + 1 <= graph.height + 2
<1> DEFINE n == Len(stack)
<1>1. /\ n \in Nat /\ n >= 1
      /\ Top \in CallRecord /\ CallOK(Top, n)
  BY BelowGood DEF Running
<1>2. /\ a \in Addresses /\ KindOf(graph, a) \in Kinds
      /\ graph.height \in Nat /\ graph.rank[a] \in Nat
  BY ObjectsTyped
<1>3. Call(a, KindOf(graph, a)) \in CallRecord
  BY <1>2 DEF Call, CallRecord
<1>4. Readable(Top.at) /\ ItemsOf(Top) = graph.objs[Top.at].items
  BY <1>1 DEF CallOK, ItemsOf
<1>5. /\ Top.at \in Addresses /\ graph.rank[Top.at] \in Nat
      /\ ItemsOf(Top) \in Seq(Addresses \cup {Null})
  BY <1>4, ObjectsTyped
<1>6. k \in DOMAIN ItemsOf(Top)
  BY <1>5
<1> HIDE DEF n
<1>7. Ranked(graph) => graph.rank[a] + (n + 1) <= graph.height + 2
  <2> SUFFICES ASSUME Ranked(graph)
               PROVE  graph.rank[a] + (n + 1) <= graph.height + 2
    OBVIOUS
  <2> DEFINE x == graph.rank[a]  y == graph.rank[Top.at]  h == graph.height
  <2>1. x \in Nat /\ y \in Nat /\ h \in Nat
    BY <1>2, <1>5
  <2>2. x <= h
    BY <1>2 DEF Ranked
  <2>3. n > 1 => x < y /\ y + n <= h + 2
    <3> SUFFICES ASSUME n > 1 PROVE x < y /\ y + n <= h + 2
      OBVIOUS
    <3>1. Top.as = KindOf(graph, Top.at) /\ y + n <= h + 2
      BY <1>1 DEF CallOK
    <3>2. x < y
      BY <1>4, <1>6, <3>1 DEF Ranked, Readable
    <3> QED  BY <3>1, <3>2
  <2> HIDE DEF x, y, h
  <2>4. x + (n + 1) <= h + 2
    BY <1>1, <2>1, <2>2, <2>3
  <2> QED  BY <2>4 DEF x, h
<1>8. CallOK(Call(a, KindOf(graph, a)), n + 1)
  BY <1>7 DEF CallOK, Call, ShownAs
<1>9. Ranked(graph) => n + 1 <= graph.height + 2
  <2> DEFINE x == graph.rank[a]  h == graph.height
  <2>1. x \in Nat /\ h \in Nat
    BY <1>2
  <2>2. Ranked(graph) => x + (n + 1) <= h + 2
    BY <1>7
  <2> HIDE DEF x, h
  <2>3. Ranked(graph) => n + 1 <= h + 2
    BY <1>1, <2>1, <2>2
  <2> QED  BY <2>3 DEF h
<1> QED  BY <1>3, <1>8, <1>9 DEF n

-----------------------------------------------------------------------------

Cursors == [type : Nat, member : Nat]
GoodJobs(s) == /\ s \in Seq(CallRecord)
               /\ \A j \in DOMAIN s : Readable(s[j].at) /\ s[j].as \in ShownAs(s[j].at)
RootKnown == pc \notin {"make", "failed"} => Readable(graph.root)

(* The debuggee does not change, so what held of the calls still does. *)
LEMMA NewState ==
    ASSUME TypeOK, graph' = graph, pc' \in PCs, cursor' \in Cursors,
           GoodStack(stack'), GoodJobs(jobs'),
           pc' \notin {"make", "failed"} => Readable(graph.root)
    PROVE  InductiveInv'
<1>1. TypeOK'
  BY DEF TypeOK, Cursors, GoodStack, GoodJobs
<1>2. CallsOK'
  BY ShownFixed DEF CallsOK, GoodStack, CallOK, Ranked, Readable
<1>3. JobsOK'
  BY ShownFixed DEF JobsOK, GoodJobs, Readable
<1> QED  BY <1>1, <1>2, <1>3 DEF InductiveInv

LEMMA OldState ==
    ASSUME InductiveInv
    PROVE  /\ TypeOK /\ pc \in PCs /\ cursor \in Cursors
           /\ GoodStack(stack) /\ GoodJobs(jobs) /\ RootKnown
BY DEF InductiveInv, TypeOK, Cursors, GoodStack, CallsOK, GoodJobs, JobsOK, RootKnown

LEMMA EmptyGood == GoodStack(<<>>) /\ GoodJobs(<<>>)
<1>1. <<>> \in Seq(CallRecord) /\ DOMAIN <<>> = {}
  OBVIOUS
<1> QED  BY <1>1 DEF GoodStack, GoodJobs

(* A single call, with nothing below it. *)
LEMMA FirstGood ==
    ASSUME NEW call \in CallRecord, Readable(call.at), call.as \in ShownAs(call.at)
    PROVE  GoodStack(<<call>>)
<1>1. /\ <<call>> \in Seq(CallRecord) /\ DOMAIN <<call>> = 1..1
      /\ <<call>>[1] = call
  OBVIOUS
<1> QED  BY <1>1 DEF GoodStack, CallOK

(* An object that can be read, printed as the class made for it or as one  *)
(* of its bases, is a call with nothing below it.                          *)
LEMMA CallTyped ==
    ASSUME TypeOK, NEW a, Readable(a), NEW kind \in Kinds, kind \in ShownAs(a)
    PROVE  LET call == Call(a, kind)
           IN  call \in CallRecord /\ Readable(call.at) /\ call.as \in ShownAs(call.at)
BY ObjectsTyped DEF Call, CallRecord

(* One object more to show. *)
LEMMA CollectGood ==
    ASSUME TypeOK, pc \in PCs, GoodJobs(jobs), NEW a, Collect(a)
    PROVE  GoodJobs(jobs') /\ pc' \in {pc, "failed"}
<1>1. CASE Readable(a)
  <2> DEFINE call == Call(a, KindOf(graph, a))
  <2>1. call \in CallRecord /\ Readable(call.at) /\ call.as \in ShownAs(call.at)
    <3>1. KindOf(graph, a) \in Kinds /\ KindOf(graph, a) \in ShownAs(a)
      BY KindsMade DEF KindOf, ShownAs
    <3> QED  BY <1>1, <3>1, CallTyped
  <2>2. jobs' = Append(jobs, call) /\ pc' = pc
    BY <1>1 DEF Collect
  <2> HIDE DEF call
  <2>3. jobs \in Seq(CallRecord) /\ Len(jobs) \in Nat
    BY DEF GoodJobs
  <2>4. /\ Append(jobs, call) \in Seq(CallRecord)
        /\ Len(Append(jobs, call)) = Len(jobs) + 1
        /\ \A j \in 1..Len(jobs) : Append(jobs, call)[j] = jobs[j]
        /\ Append(jobs, call)[Len(jobs) + 1] = call
    BY <2>1, <2>3, AppendProperties
  <2> QED  BY <2>1, <2>2, <2>3, <2>4 DEF GoodJobs
<1>2. CASE ~Readable(a)
  BY <1>2 DEF Collect
<1> QED  BY <1>1, <1>2

-----------------------------------------------------------------------------

(* The steps of a running repr(): what they leave on the stack.            *)
LEMMA CallReprGood ==
    ASSUME InductiveInv, Running, IsContainer(Top.as),
           NEW k \in 1..Len(ItemsOf(Top)), NEW a, a = ItemsOf(Top)[k], Readable(a),
           CallRepr(Advanced, Call(a, KindOf(graph, a)), Separator(Top))
    PROVE  /\ InductiveInv'
           /\ Ranked(graph) /\ graph.height + 2 <= StackLimit => pc' = pc
<1> DEFINE call == Call(a, KindOf(graph, a))
<1>1. /\ TypeOK /\ pc \in PCs /\ cursor \in Cursors
      /\ GoodStack(stack) /\ GoodJobs(jobs) /\ RootKnown
  BY OldState
<1>2. /\ call \in CallRecord /\ CallOK(call, Len(stack) + 1)
      /\ Ranked(graph) => Len(stack) + 1 <= graph.height + 2
  BY <1>1, ItemGood
<1>3. GoodStack(Advanced) /\ Len(Advanced) = Len(stack)
  BY <1>1, AdvancedGood DEF Running
<1> HIDE DEF call
<1>4. GoodStack(Append(Advanced, call))
  BY <1>2, <1>3, PushGood
<1>5. /\ graph' = graph /\ jobs' = jobs /\ cursor' = cursor /\ pc \in Calling
      /\ \/ pc' = pc /\ stack' = Append(Advanced, call)
         \/ pc' = "overflow" /\ stack' = Advanced
      /\ Len(stack) < StackLimit => pc' = pc
  BY <1>3 DEF CallRepr, Running, call
<1>6. pc' \in PCs /\ GoodStack(stack') /\ GoodJobs(jobs')
  BY <1>1, <1>3, <1>4, <1>5 DEF PCs
<1>7. InductiveInv'
  BY <1>1, <1>5, <1>6, NewState DEF RootKnown, Calling
<1>8. Ranked(graph) /\ graph.height + 2 <= StackLimit => pc' = pc
  <2> DEFINE n == Len(stack)  h == graph.height
  <2>1. n \in Nat /\ StackLimit \in Nat /\ h \in Nat
    <3>1. Readable(Top.at)
      BY <1>1, BelowGood DEF Running, CallOK
    <3> QED  BY <1>1, <3>1, ObjectsTyped, ReprAssumption DEF GoodStack
  <2>2. Ranked(graph) => n + 1 <= h + 2
    BY <1>2
  <2>3. n < StackLimit => pc' = pc
    BY <1>5
  <2> HIDE DEF n, h
  <2>4. Ranked(graph) /\ h + 2 <= StackLimit => pc' = pc
    BY <2>1, <2>2, <2>3
  <2> QED  BY <2>4 DEF h
<1> QED  BY <1>7, <1>8

LEMMA StepInv ==
    ASSUME InductiveInv, [Next]_vars
    PROVE  /\ InductiveInv'
           /\ Ranked(graph) /\ graph.height + 2 <= StackLimit /\ pc # "overflow"
                => pc' # "overflow"
<1>1. /\ TypeOK /\ pc \in PCs /\ cursor \in Cursors
      /\ GoodStack(stack) /\ GoodJobs(jobs) /\ RootKnown
  BY OldState
<1>2. GoodStack(<<>>) /\ GoodJobs(<<>>)
  BY EmptyGood
<1>3. ASSUME Throw PROVE InductiveInv' /\ pc' = "failed"
  <2>1. /\ graph' = graph /\ stack' = stack /\ jobs' = jobs /\ cursor' = cursor
        /\ pc' = "failed"
    BY <1>3 DEF Throw
  <2> QED  BY <1>1, <2>1, NewState DEF PCs
<1>4. ASSUME graph' = graph, pc' = pc, jobs' = jobs, cursor' = cursor, stack # <<>>,
             stack' \in {Below, Advanced}
      PROVE  InductiveInv'
  BY <1>1, <1>4, BelowGood, AdvancedGood, NewState DEF RootKnown
<1>5. CASE Make
  <2>1. CASE Throw
    BY <1>3, <2>1
  <2>2. CASE /\ Readable(graph.root) /\ graph' = graph /\ jobs' = jobs /\ cursor' = cursor
             /\ pc' = "locals" /\ stack' = stack
    BY <1>1, <2>2, NewState DEF PCs
  <2>3. CASE /\ Readable(graph.root) /\ graph' = graph /\ jobs' = jobs /\ cursor' = cursor
             /\ pc' = "repr" /\ stack' = <<Call(graph.root, KindOf(graph, graph.root))>>
    <3> DEFINE call == Call(graph.root, KindOf(graph, graph.root))
    <3>1. KindOf(graph, graph.root) \in Kinds
      BY KindsMade DEF KindOf
    <3>2. KindOf(graph, graph.root) \in ShownAs(graph.root)
      BY DEF ShownAs
    <3>3. call \in CallRecord /\ Readable(call.at) /\ call.as \in ShownAs(call.at)
      BY <1>1, <2>3, <3>1, <3>2, CallTyped
    <3> HIDE DEF call
    <3>4. GoodStack(<<call>>)
      BY <3>3, FirstGood
    <3> QED  BY <1>1, <2>3, <3>4, NewState DEF PCs, Calling, call
  <2> QED  BY <1>5, <2>1, <2>2, <2>3 DEF Make
<1>6. CASE OpenSequence \/ OpenCell \/ NullField \/ Close
  BY <1>4, <1>6 DEF OpenSequence, OpenCell, NullField, Close, Running
<1>7. CASE ReprValue \/ OpenTable
  BY <1>3, <1>4, <1>7 DEF ReprValue, OpenTable, Running
<1>8. CASE Item
  <2>1. CASE Throw
    BY <1>3, <2>1
  <2>2. CASE Readable(ItemsOf(Top)[Top.next])
    BY <1>8, <2>2, CallReprGood DEF Item
  <2> QED  BY <1>8, <2>1, <2>2 DEF Item
<1>9. CASE AppendRepr
  <2>1. CASE Throw
    BY <1>3, <2>1
  <2>2. CASE /\ graph' = graph /\ stack' = stack /\ jobs' = jobs /\ cursor' = cursor
             /\ pc = "repr" /\ pc' = "done"
    BY <1>1, <2>2, NewState DEF PCs, RootKnown
  <2> QED  BY <1>9, <2>1, <2>2 DEF AppendRepr
<1>10. CASE EndRepr \/ EndBases \/ EndCollecting \/ EndDetails
  <2>1. /\ graph' = graph /\ stack' = stack /\ jobs' = jobs /\ cursor' \in Cursors
        /\ pc \in Calling \cup {"slots", "locals"}
        /\ pc' \in {"locals", "slots", "bases", "members", "done"}
    BY <1>1, <1>10
       DEF EndRepr, EndBases, EndCollecting, EndDetails, Start, Cursors, Calling
  <2> QED  BY <1>1, <2>1, NewState DEF PCs, Calling, RootKnown
<1>11. CASE Base
  <2> DEFINE call == Call(graph.root, MadeAs(TypeAtCursor))
  <2>1. /\ graph' = graph /\ jobs' = jobs /\ pc' = pc /\ pc = "bases"
        /\ stack' \in {<<>>, <<call>>} /\ cursor.type \in DOMAIN Mro
        /\ cursor' = [cursor EXCEPT !.type = @ + 1]
    BY <1>11 DEF Base
  <2>2. call \in CallRecord /\ Readable(call.at) /\ call.as \in ShownAs(call.at)
    <3>1. MadeAs(TypeAtCursor) \in ShownAs(graph.root)
      BY <2>1 DEF ShownAs, TypeAtCursor
    <3>2. Readable(graph.root)
      BY <1>1, <2>1 DEF RootKnown
    <3> QED  BY <1>1, <3>1, <3>2, CallTyped, KindsMade
  <2>3. cursor' \in Cursors
    BY <1>1, <2>1 DEF Cursors
  <2> HIDE DEF call
  <2>4. GoodStack(stack')
    BY <1>2, <2>1, <2>2, FirstGood
  <2> QED  BY <1>1, <2>1, <2>3, <2>4, NewState DEF RootKnown
<1>12. CASE Slot \/ Local
  <2>1. /\ graph' = graph /\ stack' = stack /\ pc \in {"slots", "locals"}
        /\ \/ UNCHANGED <<pc, jobs>>
           \/ \E a : Collect(a)
    BY <1>12 DEF Slot, Local
  <2>2. cursor' \in Cursors
    <3>1. \/ cursor' = [type |-> cursor.type + 1, member |-> 1]
          \/ cursor' = [cursor EXCEPT !.member = @ + 1]
      BY <1>12 DEF Slot, Local
    <3> QED  BY <1>1, <3>1 DEF Cursors
  <2>3. GoodJobs(jobs') /\ pc' \in {pc, "failed"}
    BY <1>1, <2>1, CollectGood
  <2> QED  BY <1>1, <2>1, <2>2, <2>3, NewState DEF PCs, RootKnown
<1>13. CASE NextJob
  <2>1. /\ graph' = graph /\ pc' = pc /\ pc = "members" /\ cursor' = cursor
        /\ jobs # <<>> /\ jobs' = Tail(jobs) /\ stack' = <<Head(jobs)>>
    BY <1>13 DEF NextJob
  <2>2. /\ Head(jobs) \in CallRecord /\ Tail(jobs) \in Seq(CallRecord)
        /\ Len(Tail(jobs)) = Len(jobs) - 1
        /\ \A j \in 1..Len(Tail(jobs)) : Tail(jobs)[j] = jobs[j + 1]
    BY <1>1, <2>1, HeadTailProperties DEF GoodJobs
  <2>3. Head(jobs) = jobs[1] /\ 1 \in DOMAIN jobs
    BY <1>1, <2>1 DEF GoodJobs
  <2>4. GoodJobs(Tail(jobs))
    BY <1>1, <2>2 DEF GoodJobs
  <2>5. GoodStack(stack')
    BY <1>1, <2>1, <2>2, <2>3, FirstGood DEF GoodJobs
  <2> QED  BY <1>1, <2>1, <2>4, <2>5, NewState DEF RootKnown
<1>14. CASE ShowDict
  <2>1. CASE Throw
    BY <1>3, <2>1
  <2>2. CASE /\ graph' = graph /\ jobs' = jobs /\ cursor' = cursor
             /\ pc = "members" /\ pc' = "dict"
             /\ \/ stack' = stack
                \/ Readable(Dict(Root)) /\ stack' = <<Call(Dict(Root), "dict")>>
    <3> DEFINE call == Call(Dict(Root), "dict")
    <3>1. Readable(Dict(Root)) => /\ call \in CallRecord /\ Readable(call.at)
                                  /\ call.as \in ShownAs(call.at)
      <4>1. "dict" \in Kinds /\ "dict" \in ShownAs(Dict(Root))
        BY DEF Kinds, Tables, ShownAs
      <4> QED  BY <1>1, <4>1, CallTyped
    <3>2. stack' = stack \/ (Readable(Dict(Root)) /\ stack' = <<call>>)
      BY <2>2
    <3> HIDE DEF call
    <3>3. GoodStack(stack')
      BY <1>1, <3>1, <3>2, FirstGood
    <3> QED  BY <1>1, <2>2, <3>3, NewState DEF PCs, Calling, RootKnown
  <2> QED  BY <1>14, <2>1, <2>2 DEF ShowDict
<1>15. CASE UNCHANGED vars
  <2>1. graph' = graph /\ stack' = stack /\ jobs' = jobs /\ pc' = pc /\ cursor' = cursor
    BY <1>15 DEF vars
  <2> QED  BY <1>1, <2>1, NewState DEF RootKnown
<1> QED
  BY <1>5, <1>6, <1>7, <1>8, <1>9, <1>10, <1>11, <1>12, <1>13, <1>14, <1>15
     DEF Next, Step, Finished

LEMMA GraphStays == [Next]_vars => graph' = graph
BY DEF Next, Step, Finished, vars, Make, Throw, ReprValue, OpenSequence, OpenTable,
       OpenCell, NullField, Item, CallRepr, Close, AppendRepr, EndRepr, Base, EndBases,
       Slot, Local, EndCollecting, NextJob, ShowDict, EndDetails

(* The commands call repr() only on objects it has read, of the kind they are.  *)
THEOREM CallsAreGood == Spec => []InductiveInv
<1>1. Init => InductiveInv
  <2> SUFFICES ASSUME Init PROVE InductiveInv
    OBVIOUS
  <2>1. /\ IsGraph(graph) /\ pc = "make" /\ stack = <<>> /\ jobs = <<>>
        /\ cursor \in Cursors
    BY ReprAssumption DEF Init, Start, Cursors
  <2>2. GoodStack(<<>>) /\ GoodJobs(<<>>)
    BY EmptyGood
  <2> QED  BY <2>1, <2>2
        DEF InductiveInv, TypeOK, Cursors, CallsOK, JobsOK, GoodStack, GoodJobs, PCs
<1>2. InductiveInv /\ [Next]_vars => InductiveInv'
  BY StepInv
<1> QED  BY <1>1, <1>2, PTL DEF Spec

(* A stack for the height of the graph and two calls more is never used    *)
(* up: the recursion of PyObject::repr needs no more for any graph      *)
(* whose containers do not contain themselves.                             *)
THEOREM EnoughStack == Spec => []StackIsEnough
<1>1. Init => StackIsEnough
  BY DEF Init, StackIsEnough
<1>2. InductiveInv /\ StackIsEnough /\ [Next]_vars => StackIsEnough'
  <2> SUFFICES ASSUME InductiveInv, StackIsEnough, [Next]_vars PROVE StackIsEnough'
    OBVIOUS
  <2>1. Ranked(graph) /\ graph.height + 2 <= StackLimit => pc' # "overflow"
    BY StepInv DEF StackIsEnough
  <2>2. graph' = graph
    BY GraphStays
  <2> QED  BY <2>1, <2>2 DEF StackIsEnough, Ranked
<1> QED  BY <1>1, <1>2, CallsAreGood, PTL DEF Spec

-----------------------------------------------------------------------------

(* A text or a list of outputs: a sequence of whatever.                    *)
IsText(s) == \E S : s \in Seq(S)

LEMMA TextLen ==
    ASSUME NEW s, IsText(s)
    PROVE  Len(s) \in Nat /\ DOMAIN s = 1..Len(s)
<1>1. PICK S : s \in Seq(S)
  BY DEF IsText
<1> QED  BY <1>1, LenProperties

LEMMA TextJoin ==
    ASSUME NEW s, NEW t, IsText(s), IsText(t)
    PROVE  /\ IsText(s \o t) /\ Len(s \o t) = Len(s) + Len(t)
           /\ DOMAIN (s \o t) = 1..(Len(s) + Len(t))
           /\ \A i \in 1..(Len(s) + Len(t)) :
                 (s \o t)[i] = IF i <= Len(s) THEN s[i] ELSE t[i - Len(s)]
<1>1. PICK S : s \in Seq(S)
  BY DEF IsText
<1>2. PICK T : t \in Seq(T)
  BY DEF IsText
<1>3. s \in Seq(S \cup T) /\ t \in Seq(S \cup T)
  <2>1. S \subseteq S \cup T /\ T \subseteq S \cup T
    OBVIOUS
  <2> QED  BY <1>1, <1>2, <2>1, SeqMonotonic
<1>4. /\ s \o t \in Seq(S \cup T) /\ Len(s \o t) = Len(s) + Len(t)
      /\ \A i \in 1..(Len(s) + Len(t)) :
            (s \o t)[i] = IF i <= Len(s) THEN s[i] ELSE t[i - Len(s)]
  BY <1>3, ConcatProperties
<1>5. IsText(s \o t)
  BY <1>4 DEF IsText
<1> QED  BY <1>4, <1>5, TextLen

LEMMA TextOne == ASSUME NEW x PROVE IsText(<<x>>) /\ Len(<<x>>) = 1 /\ <<x>>[1] = x
<1>1. <<x>> \in Seq({x})
  OBVIOUS
<1> QED  BY <1>1 DEF IsText

LEMMA TextNone == IsText(<<>>) /\ Len(<<>>) = 0
<1>1. <<>> \in Seq({})
  OBVIOUS
<1> QED  BY <1>1 DEF IsText

LEMMA TextMore ==
    ASSUME NEW s, IsText(s), NEW x
    PROVE  IsText(Append(s, x))
<1>1. PICK S : s \in Seq(S)
  BY DEF IsText
<1>2. s \in Seq(S \cup {x})
  <2>1. S \subseteq S \cup {x}
    OBVIOUS
  <2> QED  BY <1>1, <2>1, SeqMonotonic
<1>3. Append(s, x) \in Seq(S \cup {x})
  BY <1>2, AppendProperties
<1> QED  BY <1>3 DEF IsText

(* A function on 1..n is a text of n tokens. *)
LEMMA TextFrom ==
    ASSUME NEW n \in Nat, NEW f, f = [k \in 1..n |-> f[k]]
    PROVE  IsText(f) /\ Len(f) = n
<1> DEFINE S == {f[k] : k \in 1..n}
<1>1. f \in [1..n -> S]
  OBVIOUS
<1>2. f \in Seq(S)
  <2> HIDE DEF S
  <2> QED  BY <1>1
<1>3. Len(f) = n
  <2> HIDE DEF S
  <2> QED  BY <1>1, <1>2
<1> QED  BY <1>2, <1>3 DEF IsText

-----------------------------------------------------------------------------

LEMMA WholeQuotient ==
    ASSUME NEW n \in Nat, NEW d \in Nat \ {0}
    PROVE  (n + d - 1) \div d \in Nat
OBVIOUS

(* printDml splits a text of any length into outputs that fit. *)
LEMMA ChunksFit ==
    ASSUME NEW content, IsText(content)
    PROVE  /\ IsText(Chunks(content))
           /\ \A k \in DOMAIN Chunks(content) :
                 IsText(Chunks(content)[k]) /\ Len(Chunks(content)[k]) <= ChunkSize
<1> DEFINE n == (Len(content) + ChunkSize - 1) \div ChunkSize
           last(k) == k * ChunkSize
           from(k) == last(k) - ChunkSize + 1
           to(k) == IF last(k) <= Len(content) THEN last(k) ELSE Len(content)
           chunks == Chunks(content)
<1>1. Len(content) \in Nat /\ ChunkSize \in Nat \ {0}
  BY TextLen, ReprAssumption
<1>2. n \in Nat
  BY <1>1, WholeQuotient
<1>3. chunks = [k \in 1..n |-> SubSeq(content, from(k), to(k))]
  BY DEF Chunks
<1>4. IsText(chunks) /\ DOMAIN chunks = 1..n
  <2>1. chunks = [k \in 1..n |-> chunks[k]]
    <3> HIDE DEF n, from, to
    <3> QED  BY <1>3
  <2>2. IsText(chunks)
    <3> HIDE DEF n, chunks
    <3> QED  BY <1>2, <2>1, TextFrom
  <2>3. DOMAIN chunks = 1..n
    <3> HIDE DEF n, from, to
    <3> QED  BY <1>3
  <2> QED  BY <2>2, <2>3
<1>5. ASSUME NEW k \in 1..n
      PROVE  IsText(chunks[k]) /\ Len(chunks[k]) <= ChunkSize
  <2>1. chunks[k] = SubSeq(content, from(k), to(k))
    <3> HIDE DEF n, from, to
    <3> QED  BY <1>3
  <2>2. last(k) \in Int
    <3>1. k \in Int
      BY <1>2
    <3> QED  BY <1>1, <3>1
  <2> HIDE DEF last
  <2>3. from(k) \in Int /\ to(k) \in Int /\ to(k) <= last(k)
    BY <1>1, <2>2
  <2>4. to(k) - from(k) + 1 <= ChunkSize
    BY <1>1, <2>2, <2>3
  <2> DEFINE S == {content[i] : i \in from(k)..to(k)}
  <2>5. \A i \in from(k)..to(k) : content[i] \in S
    OBVIOUS
  <2> HIDE DEF S, from, to
  <2>6. /\ SubSeq(content, from(k), to(k)) \in Seq(S)
        /\ Len(SubSeq(content, from(k), to(k)))
             = IF from(k) <= to(k) THEN to(k) - from(k) + 1 ELSE 0
    BY <2>3, <2>5, SubSeqProperties
  <2>7. IsText(chunks[k])
    BY <2>1, <2>6 DEF IsText
  <2>8. Len(SubSeq(content, from(k), to(k))) <= ChunkSize
    BY <1>1, <2>3, <2>4, <2>6
  <2> QED  BY <2>1, <2>7, <2>8
<1> QED  BY <1>4, <1>5

-----------------------------------------------------------------------------

(* The handler of known structs prints a line and the others outputs, and  *)
(* slots() starts on each class with its first member.                     *)
PhaseOK ==
    /\ graph.command.name = "struct" => pc \in {"make", "repr", "done", "failed", "overflow"}
    /\ pc \in {"make", "repr"} => cursor = Start
    /\ pc = "slots" /\ cursor.type \in DOMAIN Mro =>
          cursor.member \in 1..(Len(TypeTable[TypeAtCursor].defs) + 1)
OutputOK ==
    /\ IsText(text) /\ IsText(printed)
    /\ \A k \in DOMAIN printed : IsText(printed[k])
    /\ graph.command.name = "struct" /\ pc # "make" /\ pc # "failed" => Len(printed) >= 1
CommandInv == PhaseOK /\ OutputOK /\ EveryOutputFits /\ FailsForAReason

(* A line of extents is a text, also when there are none.                  *)
LEMMA ExtentText == ASSUME NEW n \in Int, NEW array PROVE IsText(Extent(n, array))
<1>1. CASE n <= 0 \/ array = <<>>
  <2>1. Extent(n, array) = <<>>
    BY <1>1 DEF Extent
  <2> QED  BY <2>1, TextNone
<1>2. CASE ~(n <= 0 \/ array = <<>>)
  <2> DEFINE f == [k \in 1..n |-> Token("extent", array[k])]
  <2>1. n \in Nat /\ Extent(n, array) = f
    BY <1>2 DEF Extent
  <2>2. f = [k \in 1..n |-> f[k]]
    OBVIOUS
  <2> HIDE DEF f
  <2>3. IsText(f)
    BY <2>1, <2>2, TextFrom
  <2> QED  BY <2>1, <2>3
<1> QED  BY <1>1, <1>2

(* members() finds the definitions one after the other and stops behind    *)
(* the last.                                                               *)
LEMMA MemberFound ==
    ASSUME NEW t \in DOMAIN TypeTable,
           NEW k \in 1..(Len(TypeTable[t].defs) + 1), ~MemberEnds(t, k)
    PROVE  /\ k \in DOMAIN TypeTable[t].defs
           /\ MemberType(t, k) = TypeTable[t].defs[k].type
           /\ MemberOffset(t, k) = TypeTable[t].defs[k].offset
<1> DEFINE defs == TypeTable[t].defs
           n == Len(defs)
<1>1. defs \in Seq(MemberDef)
  BY TypesAssumption DEF TypeRecord
<1>2. n \in Nat /\ DOMAIN defs = 1..n /\ k \in Nat /\ k >= 1 /\ k <= n + 1
  BY <1>1
<1>3. defs # <<>>
  BY DEF MemberEnds, MemberWords
<1> DEFINE place(w) == (w - 1) \div 5 + 1
           field(w) == (w - 1) % 5
           at(w) == IF place(w) > n THEN Null
                    ELSE CASE field(w) = 0 -> Name
                           [] field(w) = 1 -> defs[place(w)].type
                           [] field(w) = 2 -> defs[place(w)].offset
                           [] OTHER -> 0
<1>4. MemberWords(t) = [w \in 1..(5 * (n + 1)) |-> at(w)]
  BY <1>3 DEF MemberWords
<1>5. ASSUME NEW i \in 1..3
      PROVE  Word(t, k, i) = at(5 * (k - 1) + i)
  <2>1. 5 * (k - 1) + i \in 1..(5 * (n + 1))
    BY <1>2, SMTT(30)
  <2> HIDE DEF at, defs, n
  <2> QED  BY <1>4, <2>1 DEF Word, MemberDefSize
<1>6. \A i \in 1..3 : place(5 * (k - 1) + i) = k /\ field(5 * (k - 1) + i) = i - 1
  BY <1>2
<1>7. ~(k > n)
  <2>1. Word(t, k, 1) # Null
    BY DEF MemberEnds
  <2> HIDE DEF place, field
  <2>2. Word(t, k, 1) = at(5 * (k - 1) + 1) /\ place(5 * (k - 1) + 1) = k
    BY <1>5, <1>6
  <2> QED  BY <2>1, <2>2
<1>8. Word(t, k, 2) = defs[k].type /\ Word(t, k, 3) = defs[k].offset
  <2> HIDE DEF place, field
  <2> QED  BY <1>5, <1>6, <1>7, SMTT(30)
<1> QED  BY <1>2, <1>7, <1>8 DEF MemberType, MemberOffset

LEMMA MroTyped ==
    ASSUME TypeOK, Readable(graph.root)
    PROVE  /\ Root.type \in DOMAIN TypeTable
           /\ \A j \in DOMAIN Mro : Mro[j] \in DOMAIN TypeTable
BY TypesAssumption DEF TypeOK, IsGraph, Readable, Root, Mro

(* A pointer that make() cannot follow is one of the object's.             *)
LEMMA Refers ==
    ASSUME NEW a, Readable(a), NEW b, b \in EdgesFrom(a), ~Readable(b)
    PROVE  RefersToUnreadable
BY DEF RefersToUnreadable, Readable

LEMMA ItemRefers ==
    ASSUME NEW a, Readable(a), NEW k \in DOMAIN graph.objs[a].items,
           ~Readable(graph.objs[a].items[k]),
           graph.objs[a].items[k] # Null \/ ~(ShownAs(a) \subseteq {"fields"} \cup Leaves)
    PROVE  RefersToUnreadable
<1>1. graph.objs[a].items[k] \in EdgesFrom(a)
  BY DEF EdgesFrom
<1> QED  BY <1>1, Refers

LEMMA SlotRefers ==
    ASSUME TypeOK, Readable(graph.root), pc = "slots", PhaseOK, cursor.type \in DOMAIN Mro,
           ~MemberEnds(TypeAtCursor, cursor.member),
           MemberType(TypeAtCursor, cursor.member) = T_OBJECT_EX,
           NEW b, b = Root.words[MemberOffset(TypeAtCursor, cursor.member)],
           b # Null, ~Readable(b)
    PROVE  RefersToUnreadable
<1> DEFINE t == TypeAtCursor
           k == cursor.member
           d == TypeTable[t].defs[k]
<1>1. t \in DOMAIN TypeTable
  BY MroTyped DEF TypeAtCursor
<1>2. k \in DOMAIN TypeTable[t].defs /\ d.type = T_OBJECT_EX /\ b = Root.words[d.offset]
  <2>1. k \in 1..(Len(TypeTable[t].defs) + 1)
    BY DEF PhaseOK
  <2> QED  BY <1>1, <2>1, MemberFound
<1>3. t \in {TypeTable[Root.type].mro[j] : j \in DOMAIN TypeTable[Root.type].mro}
  BY DEF TypeAtCursor, Mro
<1>4. d \in UNION {{TypeTable[n].defs[i] : i \in DOMAIN TypeTable[n].defs} :
                      n \in {TypeTable[Root.type].mro[j] : j \in DOMAIN TypeTable[Root.type].mro}}
  <2>1. d \in {TypeTable[t].defs[i] : i \in DOMAIN TypeTable[t].defs}
    BY <1>2, Zenon
  <2> QED  BY <1>3, <2>1
<1>5. b \in SlotsOf(Root)
  BY <1>2, <1>4, ZenonT(30) DEF SlotsOf
<1>6. b \in EdgesFrom(graph.root)
  BY <1>5, Zenon DEF EdgesFrom, Root
<1> QED  BY <1>6, Refers

-----------------------------------------------------------------------------

LEMMA RefersFixed ==
    ASSUME graph' = graph
    PROVE  RefersToUnreadable' <=> RefersToUnreadable
<1>1. \A a : EdgesFrom(a)' = EdgesFrom(a)
  <2> TAKE a
  <2>1. ShownAs(a)' = ShownAs(a)
    BY ShownFixed
  <2>2. Dict(graph.objs[a])' = Dict(graph.objs[a])
    BY DEF Dict
  <2> QED  BY <2>1, <2>2 DEF EdgesFrom
<1>2. \A b : Readable(b)' <=> Readable(b)
  BY DEF Readable
<1> QED  BY <1>1, <1>2 DEF RefersToUnreadable

(* A step that does not fail has nothing to give a reason for. *)
LEMMA StillGoing == pc' # "failed" => FailsForAReason'
BY DEF FailsForAReason

(* A step that fails leaves what is printed as it was. *)
LEMMA Failing ==
    ASSUME OutputOK, EveryOutputFits, pc' = "failed",
           UNCHANGED <<graph, text, printed>>
    PROVE  PhaseOK' /\ OutputOK' /\ EveryOutputFits'
BY DEF PhaseOK, OutputOK, EveryOutputFits

(* What a step that only extends the text keeps. *)
LEMMA Writing ==
    ASSUME OutputOK, EveryOutputFits, pc # "make", pc # "failed",
           UNCHANGED <<graph, printed>>, IsText(text')
    PROVE  OutputOK' /\ EveryOutputFits'
BY DEF OutputOK, EveryOutputFits

(* What a step that prints outputs that fit keeps. *)
LEMMA Printing ==
    ASSUME OutputOK, EveryOutputFits, graph.command.name # "struct", graph' = graph,
           text' = <<>>,
           NEW before, IsText(before),
           \A k \in DOMAIN before : IsText(before[k]) /\ Len(before[k]) <= ChunkSize,
           NEW content, IsText(content), printed' = before \o Chunks(content)
    PROVE  OutputOK' /\ EveryOutputFits'
<1>1. /\ IsText(Chunks(content))
      /\ \A k \in DOMAIN Chunks(content) :
            IsText(Chunks(content)[k]) /\ Len(Chunks(content)[k]) <= ChunkSize
  BY ChunksFit
<1>2. /\ IsText(before)
      /\ \A k \in DOMAIN before : IsText(before[k]) /\ Len(before[k]) <= ChunkSize
  OBVIOUS
<1> DEFINE more == Chunks(content)
           n == Len(before)
           m == Len(more)
<1>3. /\ n \in Nat /\ DOMAIN before = 1..n
      /\ m \in Nat /\ DOMAIN more = 1..m
  BY <1>1, <1>2, TextLen
<1>4. /\ IsText(printed') /\ Len(printed') = n + m /\ DOMAIN printed' = 1..(n + m)
      /\ \A i \in 1..(n + m) : printed'[i] = IF i <= n THEN before[i] ELSE more[i - n]
  BY <1>1, <1>2, TextJoin
<1> HIDE DEF more, n, m
<1>5. ASSUME NEW i \in DOMAIN printed'
      PROVE  IsText(printed'[i]) /\ Len(printed'[i]) <= ChunkSize
  <2>1. CASE i <= n
    <3>1. i \in DOMAIN before /\ printed'[i] = before[i]
      BY <1>3, <1>4, <2>1
    <3> QED  BY <1>2, <3>1
  <2>2. CASE ~(i <= n)
    <3>1. i - n \in DOMAIN more /\ printed'[i] = more[i - n]
      BY <1>3, <1>4, <2>2
    <3> QED  BY <1>1, <3>1 DEF more
  <2> QED  BY <2>1, <2>2
<1>6. OutputOK'
  <2>1. IsText(text')
    BY TextNone
  <2> QED  BY <1>4, <1>5, <2>1 DEF OutputOK
<1> QED  BY <1>5, <1>6 DEF EveryOutputFits

(* What is printed, with and without the heading of a frame.               *)
LEMMA PrintedFits ==
    ASSUME OutputOK, EveryOutputFits, graph.command.name # "struct",
           NEW before \in {printed, printed \o Heading(graph)}
    PROVE  /\ IsText(before)
           /\ \A k \in DOMAIN before : IsText(before[k]) /\ Len(before[k]) <= ChunkSize
<1>1. /\ IsText(printed)
      /\ \A k \in DOMAIN printed : IsText(printed[k]) /\ Len(printed[k]) <= ChunkSize
  BY DEF OutputOK, EveryOutputFits
<1>2. /\ IsText(Heading(graph))
      /\ \A k \in DOMAIN Heading(graph) :
            IsText(Heading(graph)[k]) /\ Len(Heading(graph)[k]) <= ChunkSize
  <2>1. CASE Heading(graph) = <<>>
    <3>1. DOMAIN Heading(graph) = {}
      BY <2>1
    <3> QED  BY <2>1, <3>1, TextNone
  <2>2. CASE Heading(graph) = <<<<Token("header", graph.root)>>>>
    <3> DEFINE line == <<Token("header", graph.root)>>
    <3>1. IsText(line) /\ Len(line) = 1
      BY TextOne
    <3> HIDE DEF line
    <3>2. IsText(<<line>>) /\ DOMAIN <<line>> = 1..1 /\ <<line>>[1] = line
      BY TextOne
    <3>3. 1 <= ChunkSize
      BY ReprAssumption
    <3>4. \A k \in 1..1 : k = 1
      OBVIOUS
    <3>5. Heading(graph) = <<line>>
      BY <2>2 DEF line
    <3> QED  BY <3>1, <3>2, <3>3, <3>4, <3>5, Zenon
  <2> QED  BY <2>1, <2>2 DEF Heading
<1> DEFINE h == Heading(graph)  n == Len(printed)  m == Len(h)
           both == printed \o h
<1>3. n \in Nat /\ DOMAIN printed = 1..n /\ m \in Nat /\ DOMAIN h = 1..m
  BY <1>1, <1>2, TextLen
<1>4. /\ IsText(both) /\ DOMAIN both = 1..(n + m)
      /\ \A i \in 1..(n + m) : both[i] = IF i <= n THEN printed[i] ELSE h[i - n]
  BY <1>1, <1>2, TextJoin
<1> HIDE DEF h, n, m, both
<1>5. ASSUME NEW i \in DOMAIN both PROVE IsText(both[i]) /\ Len(both[i]) <= ChunkSize
  <2>1. CASE i <= n
    <3>1. i \in DOMAIN printed /\ both[i] = printed[i]
      BY <1>3, <1>4, <2>1
    <3> QED  BY <1>1, <3>1
  <2>2. CASE ~(i <= n)
    <3>1. i - n \in DOMAIN h /\ both[i] = h[i - n]
      BY <1>3, <1>4, <2>2
    <3> QED  BY <1>2, <3>1 DEF h
  <2> QED  BY <2>1, <2>2
<1> QED  BY <1>1, <1>4, <1>5 DEF both, h

(* Each command ends early for a reason, and every output of it fits: the  *)
(* steps one by one.                                                       *)
LEMMA CommandStep ==
    ASSUME InductiveInv, CommandInv, [Next]_vars
    PROVE  CommandInv'
<1>1. /\ TypeOK /\ pc \in PCs /\ cursor \in Cursors
      /\ GoodStack(stack) /\ GoodJobs(jobs) /\ RootKnown
  BY OldState
<1>2. PhaseOK /\ OutputOK /\ EveryOutputFits /\ FailsForAReason
  BY DEF CommandInv
<1>3. graph' = graph
  BY GraphStays
<1>4. RefersToUnreadable' <=> RefersToUnreadable
  BY <1>3, RefersFixed
(* A throw needs a reason only. *)
<1>5. ASSUME Throw, RefersToUnreadable PROVE CommandInv'
  <2>1. pc' = "failed" /\ UNCHANGED <<graph, text, printed>>
    BY <1>5 DEF Throw
  <2>2. PhaseOK' /\ OutputOK' /\ EveryOutputFits'
    BY <1>2, <2>1, Failing
  <2>3. FailsForAReason'
    BY <1>4, <1>5 DEF FailsForAReason
  <2> QED  BY <2>2, <2>3 DEF CommandInv
(* A step of the recursion, which writes. *)
<1>6. ASSUME pc \in Calling, pc' \in {pc, "overflow"},
             UNCHANGED <<cursor, printed>>, IsText(text')
      PROVE  CommandInv'
  <2>1. OutputOK' /\ EveryOutputFits'
    BY <1>2, <1>3, <1>6, Writing DEF Calling
  <2>2. PhaseOK'
    BY <1>2, <1>3, <1>6 DEF PhaseOK, Calling
  <2>3. FailsForAReason'
    BY <1>6, StillGoing DEF Calling
  <2> QED  BY <2>1, <2>2, <2>3 DEF CommandInv
(* The object at the top of the stack, and the kind it is shown as. *)
<1>7. ASSUME Running
      PROVE  /\ Readable(Top.at) /\ Top.as \in ShownAs(Top.at)
             /\ ItemsOf(Top) = graph.objs[Top.at].items
             /\ Len(ItemsOf(Top)) \in Nat /\ DOMAIN ItemsOf(Top) = 1..Len(ItemsOf(Top))
  <2>1. CallOK(Top, Len(stack))
    BY <1>1, <1>7, BelowGood DEF Running
  <2>2. Readable(Top.at) /\ Top.as \in ShownAs(Top.at)
    BY <2>1 DEF CallOK
  <2>3. ItemsOf(Top) = graph.objs[Top.at].items
    BY DEF ItemsOf
  <2>4. ItemsOf(Top) \in Seq(Addresses \cup {Null})
    BY <1>1, <2>2, <2>3, ObjectsTyped
  <2> QED  BY <2>2, <2>3, <2>4
<1>8. IsText(text)
  BY <1>2 DEF OutputOK
<1>9. \A f : IsText(Separator(f)) /\ IsText(Ending(f))
  <2> TAKE f
  <2>1. IsText(Separator(f))
    BY TextOne, TextNone, Zenon DEF Separator
  <2>2. IsText(IF f.as \in Tables /\ f.next > 1 THEN <<Token(",", f.at)>> ELSE <<>>)
    BY TextOne, TextNone, Zenon
  <2>3. IsText(IF f.as = "cell" THEN <<>> ELSE <<Token("close", f.at)>>)
    BY TextOne, TextNone
  <2> QED  BY <2>1, <2>2, <2>3, TextJoin, Zenon DEF Ending
<1>10. CASE Make
  <2>1. CASE Throw
    <3>1. pc' = "failed" /\ UNCHANGED <<graph, text, printed>>
      BY <2>1 DEF Throw
    <3>2. PhaseOK' /\ OutputOK' /\ EveryOutputFits'
      BY <1>2, <3>1, Failing
    <3>3. ~Readable(graph.root) \/ graph.command.arg = "bad" \/ pc' # "failed"
      BY <1>10 DEF Make
    <3>4. FailsForAReason'
      BY <1>3, <3>3 DEF FailsForAReason, Readable
    <3> QED  BY <3>2, <3>4 DEF CommandInv
  <2>2. CASE /\ pc' = "locals" /\ pc = "make" /\ graph.command.name = "pyinterpreterframe"
             /\ UNCHANGED <<cursor, text, printed>>
    <3>1. OutputOK' /\ EveryOutputFits'
      BY <1>2, <1>3, <2>2 DEF OutputOK, EveryOutputFits
    <3>2. PhaseOK'
      BY <1>2, <1>3, <2>2 DEF PhaseOK
    <3>3. FailsForAReason'
      BY <2>2, StillGoing
    <3> QED  BY <3>1, <3>2, <3>3 DEF CommandInv
  <2>3. CASE /\ pc' = "repr" /\ pc = "make"
             /\ printed' = <<<<Token("header", graph.root)>>>>
             /\ UNCHANGED <<cursor, text>>
    <3> DEFINE header == <<Token("header", graph.root)>>
    <3>1. IsText(header) /\ Len(header) = 1 /\ IsText(<<header>>) /\ Len(<<header>>) = 1
      BY TextOne
    <3> HIDE DEF header
    <3>2. /\ DOMAIN printed' = 1..1 /\ printed'[1] = header /\ printed' = <<header>>
      BY <2>3, <3>1, TextLen, TextOne DEF header
    <3>3. OutputOK'
      BY <1>8, <2>3, <3>1, <3>2 DEF OutputOK
    <3>4. ASSUME NEW k \in DOMAIN printed'
          PROVE  Len(printed'[k]) <= ChunkSize /\ Len(printed'[k]) <= AppendLimit
      <4>1. k = 1
        BY <3>2
      <4>2. Len(printed'[k]) = 1
        BY <3>1, <3>2, <4>1
      <4>3. 1 <= ChunkSize /\ 1 <= AppendLimit
        BY ReprAssumption
      <4> QED  BY <4>2, <4>3
    <3>5. EveryOutputFits'
      BY <3>4 DEF EveryOutputFits
    <3>6. PhaseOK'
      BY <1>2, <1>3, <2>3 DEF PhaseOK
    <3>7. FailsForAReason'
      BY <2>3, StillGoing
    <3> QED  BY <3>3, <3>5, <3>6, <3>7 DEF CommandInv
  <2> QED  BY <1>10, <2>1, <2>2, <2>3 DEF Make
<1>11. CASE OpenSequence \/ OpenCell
  <2>1. pc \in Calling /\ pc' = pc /\ UNCHANGED <<cursor, printed>>
    BY <1>11 DEF OpenSequence, OpenCell, Running
  <2>2. IsText(text')
    BY <1>8, <1>11, TextMore DEF OpenSequence, OpenCell
  <2> QED  BY <1>6, <2>1, <2>2
<1>12. CASE NullField \/ Close
  <2>1. pc \in Calling /\ pc' = pc /\ UNCHANGED <<cursor, printed>>
    BY <1>12 DEF NullField, Close, Running
  <2>2. IsText(text')
    <3>1. CASE NullField
      <4>1. text' = text \o Separator(Top) \o <<Token("none", Top.at)>>
        BY <3>1 DEF NullField
      <4>2. IsText(text \o Separator(Top))
        BY <1>8, <1>9, TextJoin
      <4> QED  BY <4>1, <4>2, TextJoin, TextOne
    <3>2. CASE Close
      BY <1>8, <1>9, <3>2, TextJoin DEF Close
    <3> QED  BY <1>12, <3>1, <3>2
  <2> QED  BY <1>6, <2>1, <2>2
<1>13. CASE ReprValue
  <2>1. CASE Throw /\ \E k \in DOMAIN ItemsOf(Top) :
                        Top.as # "instance" /\ ~Optional(ItemsOf(Top)[k])
    <3>1. PICK k \in DOMAIN ItemsOf(Top) : ~Optional(ItemsOf(Top)[k])
      BY <2>1
    <3>2. RefersToUnreadable
      BY <1>7, <1>13, <3>1, ItemRefers DEF ReprValue, Optional
    <3> QED  BY <1>5, <2>1, <3>2
  <2>2. CASE /\ pc \in Calling /\ pc' = pc /\ UNCHANGED <<cursor, printed>>
             /\ text' = text \o <<Token(Top.as, Top.at)>>
                       \o (IF Top.as # "super" THEN <<>>
                           ELSE [k \in DOMAIN ItemsOf(Top) |-> TypeField(ItemsOf(Top)[k], Top)])
    <3> DEFINE types == [k \in 1..Len(ItemsOf(Top)) |-> TypeField(ItemsOf(Top)[k], Top)]
    <3>1. Len(ItemsOf(Top)) \in Nat /\ DOMAIN ItemsOf(Top) = 1..Len(ItemsOf(Top))
      BY <1>7, <1>13 DEF ReprValue
    <3>2. IsText(types)
      <4>1. types = [k \in 1..Len(ItemsOf(Top)) |-> types[k]]
        OBVIOUS
      <4> HIDE DEF types
      <4> QED  BY <3>1, <4>1, TextFrom
    <3>3. IsText(text \o <<Token(Top.as, Top.at)>>)
      BY <1>8, TextJoin, TextOne
    <3>4. IsText(IF Top.as # "super" THEN <<>> ELSE types)
      BY <3>2, TextNone
    <3>5. IsText(text')
      BY <2>2, <3>1, <3>3, <3>4, TextJoin
    <3> QED  BY <1>6, <2>2, <3>5
  <2> QED  BY <1>13, <2>1, <2>2 DEF ReprValue, Running
<1>14. CASE OpenTable
  <2>1. CASE Throw /\ \E k \in DOMAIN ItemsOf(Top) : ~Readable(ItemsOf(Top)[k])
    <3>1. PICK k \in DOMAIN ItemsOf(Top) : ~Readable(ItemsOf(Top)[k])
      BY <2>1
    <3>2. Top.as \notin {"fields"} \cup Leaves
      BY <1>14 DEF OpenTable, Tables, Leaves
    <3>3. RefersToUnreadable
      BY <1>7, <1>14, <3>1, <3>2, ItemRefers DEF OpenTable
    <3> QED  BY <1>5, <2>1, <3>3
  <2>2. CASE /\ pc \in Calling /\ pc' = pc /\ UNCHANGED <<cursor, printed>>
             /\ text' = Append(text, Token("open", Top.at))
    BY <1>6, <1>8, <2>2, TextMore
  <2> QED  BY <1>14, <2>1, <2>2 DEF OpenTable, Running
<1>15. CASE Item
  <2>1. CASE Throw /\ ~Readable(ItemsOf(Top)[Top.next])
    <3>1. Running /\ IsContainer(Top.as) /\ Top.next \in DOMAIN ItemsOf(Top) /\ ~IsNullField(Top)
      BY <1>7, <1>15 DEF Item
    <3>2. ItemsOf(Top)[Top.next] # Null \/ Top.as \notin {"fields"} \cup Leaves
      BY <3>1 DEF IsNullField, IsContainer
    <3>3. RefersToUnreadable
      BY <1>7, <2>1, <3>1, <3>2, ItemRefers
    <3> QED  BY <1>5, <2>1, <3>3
  <2>2. CASE \E call : CallRepr(Advanced, call, Separator(Top))
    <3>1. /\ pc \in Calling /\ pc' \in {pc, "overflow"} /\ UNCHANGED <<cursor, printed>>
          /\ text' = text \o Separator(Top)
      BY <1>15, <2>2 DEF Item, CallRepr, Running
    <3>2. IsText(text')
      BY <1>8, <1>9, <3>1, TextJoin
    <3> QED  BY <1>6, <3>1, <3>2
  <2> QED  BY <1>15, <2>1, <2>2 DEF Item
(* The line of a known struct takes the text or the message, or the        *)
(* engine refuses: then it is full.                                        *)
<1>16. CASE AppendRepr
  <2> DEFINE line == printed[1]
             message == <<Token("toolong", graph.root)>>
             shown == IF TooLong(Len(line)) THEN message ELSE text
  <2>1. pc = "repr" /\ graph.command.name = "struct"
    BY <1>16 DEF AppendRepr
  <2>2. /\ IsText(printed) /\ Len(printed) >= 1 /\ 1 \in DOMAIN printed
    <3>1. IsText(printed) /\ Len(printed) >= 1
      BY <1>2, <2>1 DEF OutputOK
    <3> QED  BY <3>1, TextLen
  <2>3. IsText(line) /\ IsText(message) /\ Len(message) = 1
    BY <1>2, <2>2, TextOne DEF OutputOK
  <2>4. IsText(shown)
    BY <1>8, <2>3
  <2>5. /\ Len(line) \in Nat /\ Len(text) \in Nat /\ Len(shown) \in Nat
        /\ AppendLimit \in Nat
    BY <1>8, <2>3, <2>4, TextLen, ReprAssumption
  <2>6. CASE Appendable(Len(line), Len(shown))
    <3>1. /\ printed' = <<line \o shown>> /\ pc' = "done" /\ UNCHANGED <<text, cursor>>
      BY <1>16, <2>6 DEF AppendRepr
    <3> HIDE DEF line, shown
    <3>2. IsText(line \o shown) /\ Len(line \o shown) = Len(line) + Len(shown)
      BY <2>3, <2>4, TextJoin
    <3>3. Len(line \o shown) <= AppendLimit
      BY <2>5, <2>6, <3>2 DEF Appendable
    <3>4. /\ IsText(printed') /\ Len(printed') = 1 /\ DOMAIN printed' = 1..1
          /\ printed'[1] = line \o shown
      <4>1. \A x : IsText(<<x>>) /\ Len(<<x>>) = 1 /\ DOMAIN <<x>> = 1..1 /\ <<x>>[1] = x
        BY TextOne, TextLen, Zenon
      <4> QED  BY <3>1, <4>1, Zenon
    <3>5. OutputOK'
      <4>1. IsText(text')
        BY <1>8, <3>1
      <4>2. \A k \in DOMAIN printed' : IsText(printed'[k])
        <5>1. \A k \in DOMAIN printed' : k = 1
          BY <3>4
        <5> QED  BY <5>1, <3>2, <3>4, Zenon
      <4>3. Len(printed') >= 1
        BY <3>4
      <4> QED  BY <3>4, <4>1, <4>2, <4>3 DEF OutputOK
    <3>6. EveryOutputFits'
      BY <1>3, <2>1, <3>3, <3>4 DEF EveryOutputFits
    <3>7. PhaseOK'
      BY <3>1 DEF PhaseOK
    <3>8. FailsForAReason'
      BY <3>1, StillGoing
    <3> QED  BY <3>5, <3>6, <3>7, <3>8 DEF CommandInv
  <2>7. CASE ~Appendable(Len(line), Len(shown))
    <3>1. pc' = "failed" /\ UNCHANGED <<graph, text, printed>>
      BY <1>16, <2>7 DEF AppendRepr, Throw
    <3>2. PhaseOK' /\ OutputOK' /\ EveryOutputFits'
      BY <1>2, <3>1, Failing
    <3>3. Len(line) + 2 > AppendLimit \/ Len(line) + Len(text) = AppendLimit
      <4>1. CASE TooLong(Len(line))
        <5>1. Len(shown) = 1
          BY <2>3, <4>1
        <5> HIDE DEF line, shown
        <5> QED  BY <2>5, <2>7, <5>1 DEF Appendable
      <4>2. CASE ~TooLong(Len(line))
        <5>1. Len(shown) = Len(text)
          BY <4>2
        <5> HIDE DEF line, shown
        <5>2. Len(text) <= AppendLimit /\ Len(line) <= AppendLimit - Len(text)
          BY <2>5, <4>2 DEF TooLong
        <5> QED  BY <2>5, <2>7, <5>1, <5>2 DEF Appendable
      <4> QED  BY <4>1, <4>2
    <3>4. LineIsFull
      BY <2>1, <2>2, <3>3 DEF LineIsFull
    <3>5. FailsForAReason'
      BY <3>1, <3>4 DEF FailsForAReason, LineIsFull
    <3> QED  BY <3>2, <3>5 DEF CommandInv
  <2> QED  BY <2>6, <2>7
<1>17. CASE EndRepr
  <2>1. /\ pc = "repr" /\ graph.command.name # "struct" /\ UNCHANGED cursor
        /\ pc' \in {"locals", "slots", "bases"}
        /\ printed' = printed \o Chunks(text) /\ text' = <<>>
    BY <1>17 DEF EndRepr
  <2>2. OutputOK' /\ EveryOutputFits'
    BY <1>2, <1>3, <1>8, <2>1, Printing, PrintedFits
  <2>3. cursor' = Start
    BY <1>2, <2>1 DEF PhaseOK
  <2>4. PhaseOK'
    <3>1. Readable(graph.root)
      BY <1>1, <2>1 DEF RootKnown
    <3>2. \A j \in DOMAIN Mro : Len(TypeTable[Mro[j]].defs) \in Nat
      <4>1. \A j \in DOMAIN Mro : Mro[j] \in DOMAIN TypeTable
        BY <1>1, <3>1, MroTyped
      <4>2. \A t \in DOMAIN TypeTable : TypeTable[t].defs \in Seq(MemberDef)
        BY TypesAssumption DEF TypeRecord
      <4> QED  BY <4>1, <4>2
    <3>3. Mro' = Mro
      BY <1>3 DEF Mro, Root
    <3> QED  BY <1>3, <2>1, <2>3, <3>2, <3>3 DEF PhaseOK, Start, TypeAtCursor
  <2>5. FailsForAReason'
    BY <2>1, StillGoing
  <2> QED  BY <2>2, <2>4, <2>5 DEF CommandInv
(* What walks over the members, and prints nothing.                        *)
<1>18. ASSUME pc \in {"bases", "slots", "locals", "members"},
              pc' \in {"bases", "locals", "members", "dict"}, UNCHANGED <<text, printed>>
       PROVE  CommandInv'
  <2>1. OutputOK' /\ EveryOutputFits'
    BY <1>2, <1>3, <1>8, <1>18, Writing
  <2>2. PhaseOK'
    BY <1>2, <1>3, <1>18 DEF PhaseOK
  <2>3. FailsForAReason'
    BY <1>18, StillGoing
  <2> QED  BY <2>1, <2>2, <2>3 DEF CommandInv
<1>19. CASE Base \/ EndCollecting \/ NextJob
  BY <1>18, <1>19 DEF Base, EndCollecting, NextJob
<1>20. ASSUME pc \in {"bases", "slots"}, pc' = "slots", UNCHANGED <<text, printed>>,
              cursor'.type \in DOMAIN Mro =>
                 cursor'.member \in 1..(Len(TypeTable[Mro[cursor'.type]].defs) + 1)
       PROVE  CommandInv'
  <2>1. OutputOK' /\ EveryOutputFits'
    BY <1>2, <1>3, <1>8, <1>20, Writing
  <2>2. PhaseOK'
    <3>1. Mro' = Mro
      BY <1>3 DEF Mro, Root
    <3> QED  BY <1>2, <1>3, <1>20, <3>1 DEF PhaseOK, TypeAtCursor
  <2>3. FailsForAReason'
    BY <1>20, StillGoing
  <2> QED  BY <2>1, <2>2, <2>3 DEF CommandInv
<1>21. ASSUME pc \in {"bases", "slots"}
       PROVE  \A j \in DOMAIN Mro : Len(TypeTable[Mro[j]].defs) \in Nat
  <2>1. Readable(graph.root)
    BY <1>1, <1>21 DEF RootKnown
  <2>2. \A j \in DOMAIN Mro : Mro[j] \in DOMAIN TypeTable
    BY <1>1, <2>1, MroTyped
  <2>3. \A t \in DOMAIN TypeTable : TypeTable[t].defs \in Seq(MemberDef)
    BY TypesAssumption DEF TypeRecord
  <2> QED  BY <2>2, <2>3
<1>22. CASE EndBases
  <2>1. pc = "bases" /\ pc' = "slots" /\ UNCHANGED <<text, printed>> /\ cursor' = Start
    BY <1>22 DEF EndBases
  <2>2. cursor'.type \in DOMAIN Mro =>
           cursor'.member \in 1..(Len(TypeTable[Mro[cursor'.type]].defs) + 1)
    BY <1>21, <2>1 DEF Start
  <2> QED  BY <1>20, <2>1, <2>2
<1>23. CASE Slot
  <2> DEFINE t == TypeAtCursor
             k == cursor.member
             a == Root.words[MemberOffset(t, k)]
  <2>1. /\ pc = "slots" /\ cursor.type \in DOMAIN Mro /\ UNCHANGED <<text, printed>>
        /\ Readable(graph.root)
    BY <1>1, <1>23 DEF Slot, RootKnown
  <2>2. CASE MemberEnds(t, k)
    <3>1. cursor' = [type |-> cursor.type + 1, member |-> 1] /\ pc' = pc
      BY <1>23, <2>2 DEF Slot
    <3>2. cursor'.type \in DOMAIN Mro =>
             cursor'.member \in 1..(Len(TypeTable[Mro[cursor'.type]].defs) + 1)
      BY <1>21, <2>1, <3>1
    <3> QED  BY <1>20, <2>1, <3>1, <3>2
  <2>3. CASE ~MemberEnds(t, k)
    <3>1. cursor' = [cursor EXCEPT !.member = @ + 1]
      BY <1>23, <2>3 DEF Slot
    <3>2. k \in 1..Len(TypeTable[t].defs) /\ Len(TypeTable[t].defs) \in Nat
      <4>1. t \in DOMAIN TypeTable
        BY <1>1, <2>1, MroTyped DEF TypeAtCursor
      <4>2. k \in 1..(Len(TypeTable[t].defs) + 1)
        BY <1>2, <2>1 DEF PhaseOK
      <4>3. k \in DOMAIN TypeTable[t].defs
        BY <2>3, <4>1, <4>2, MemberFound
      <4>4. TypeTable[t].defs \in Seq(MemberDef)
        BY <4>1, TypesAssumption DEF TypeRecord
      <4> QED  BY <4>3, <4>4
    <3>3. cursor'.type \in DOMAIN Mro =>
             cursor'.member \in 1..(Len(TypeTable[Mro[cursor'.type]].defs) + 1)
      <4>1. cursor'.type = cursor.type /\ cursor'.member = k + 1
        BY <1>1, <3>1 DEF Cursors
      <4>2. k + 1 \in 1..(Len(TypeTable[t].defs) + 1)
        BY <3>2
      <4> QED  BY <4>1, <4>2 DEF TypeAtCursor
    <3>4. CASE pc' = pc
      BY <1>20, <2>1, <3>3, <3>4
    <3>5. CASE pc' # pc
      <4>1. MemberType(t, k) = T_OBJECT_EX /\ Collect(a)
        BY <1>23, <2>3, <3>5 DEF Slot
      <4>2. pc' = "failed" /\ a # Null /\ ~Readable(a)
        BY <3>5, <4>1 DEF Collect
      <4>3. RefersToUnreadable
        BY <1>1, <1>2, <2>1, <2>3, <4>1, <4>2, SlotRefers
      <4>4. PhaseOK' /\ OutputOK' /\ EveryOutputFits'
        BY <1>2, <1>3, <2>1, <4>2, Failing
      <4>5. FailsForAReason'
        BY <1>4, <4>3 DEF FailsForAReason
      <4> QED  BY <4>4, <4>5 DEF CommandInv
    <3> QED  BY <3>4, <3>5
  <2> QED  BY <2>2, <2>3
<1>24. CASE Local
  <2> DEFINE a == Root.locals[cursor.member]
  <2>1. /\ pc = "locals" /\ cursor.member \in DOMAIN Root.locals /\ Collect(a)
        /\ UNCHANGED <<text, printed>> /\ Readable(graph.root)
    BY <1>1, <1>24 DEF Local, RootKnown
  <2>2. CASE pc' = pc
    BY <1>18, <2>1, <2>2
  <2>3. CASE pc' # pc
    <3>1. pc' = "failed" /\ a # Null /\ ~Readable(a)
      BY <2>1, <2>3, Zenon DEF Collect
    <3>2. a \in EdgesFrom(graph.root)
      BY <2>1, <3>1, Zenon DEF EdgesFrom, Root
    <3>3. RefersToUnreadable
      BY <2>1, <3>1, <3>2, Refers
    <3>4. PhaseOK' /\ OutputOK' /\ EveryOutputFits'
      BY <1>2, <1>3, <2>1, <3>1, Failing
    <3>5. FailsForAReason'
      BY <1>4, <3>3 DEF FailsForAReason
    <3> QED  BY <3>4, <3>5 DEF CommandInv
  <2> QED  BY <2>2, <2>3
<1>25. CASE ShowDict
  <2>1. pc = "members" /\ Readable(graph.root)
    BY <1>1, <1>25 DEF ShowDict, RootKnown
  <2>2. CASE pc' = "dict" /\ UNCHANGED <<text, printed>>
    BY <1>18, <2>1, <2>2
  <2>3. CASE /\ Throw /\ ~Readable(Dict(Root))
             /\ ~(Dict(Root) = Null /\ KindOf(graph, graph.root) # "type")
    <3>1. Dict(Root) \in EdgesFrom(graph.root)
      BY <2>3 DEF EdgesFrom, Root
    <3> QED  BY <1>5, <2>1, <2>3, <3>1, Refers
  <2> QED  BY <1>25, <2>2, <2>3 DEF ShowDict
<1>26. CASE EndDetails
  <2> DEFINE content == text \o Extents(Root.extents)
  <2>1. /\ pc = "dict" /\ pc' = "done" /\ text' = <<>>
        /\ printed' = (printed \o Heading(graph)) \o Chunks(content)
    BY <1>26 DEF EndDetails
  <2>2. Root \in ObjectRecord
    BY <1>1, <2>1, ObjectsTyped DEF RootKnown, Root
  <2>3. ASSUME NEW array PROVE IsText(Extent(Root.extents.ndim, array))
    <3>1. Root.extents.ndim \in Int
      BY <2>2 DEF ObjectRecord
    <3> QED  BY <3>1, ExtentText
  <2>4. IsText(content)
    BY <1>8, <2>3, TextJoin DEF Extents
  <2> HIDE DEF content
  <2>5. graph.command.name # "struct"
    BY <1>2, <2>1 DEF PhaseOK
  <2>6. OutputOK' /\ EveryOutputFits'
    <3> DEFINE before == printed \o Heading(graph)
    <3>1. /\ IsText(before)
          /\ \A k \in DOMAIN before : IsText(before[k]) /\ Len(before[k]) <= ChunkSize
      BY <1>2, <2>5, PrintedFits
    <3>2. printed' = before \o Chunks(content)
      BY <2>1
    <3> HIDE DEF before
    <3> QED  BY <1>2, <1>3, <2>1, <2>4, <2>5, <3>1, <3>2, Printing
  <2>7. PhaseOK'
    BY <2>1 DEF PhaseOK
  <2>8. FailsForAReason'
    BY <2>1, StillGoing
  <2> QED  BY <2>6, <2>7, <2>8 DEF CommandInv
<1>27. CASE UNCHANGED vars
  <2>1. /\ graph' = graph /\ pc' = pc /\ cursor' = cursor /\ text' = text
        /\ printed' = printed
    BY <1>27 DEF vars
  <2>2. OutputOK' /\ EveryOutputFits'
    BY <1>2, <2>1 DEF OutputOK, EveryOutputFits
  <2>3. Mro' = Mro
    BY <2>1 DEF Mro, Root
  <2>4. PhaseOK'
    BY <1>2, <2>1, <2>3 DEF PhaseOK, TypeAtCursor
  <2>5. FailsForAReason'
    BY <1>2, <1>4, <2>1 DEF FailsForAReason, LineIsFull, Readable
  <2> QED  BY <2>2, <2>4, <2>5 DEF CommandInv
<1> QED
  BY <1>10, <1>11, <1>12, <1>13, <1>14, <1>15, <1>16, <1>17, <1>19, <1>22, <1>23, <1>24,
     <1>25, <1>26, <1>27 DEF Next, Step, Finished

(* At every step the phase of a command, its stack, what it has collected  *)
(* and what it has printed belong together, and an end has its reason.     *)
THEOREM CommandInvariance == Spec => []CommandInv
<1>1. Init => CommandInv
  <2> SUFFICES ASSUME Init PROVE CommandInv
    OBVIOUS
  <2>1. pc = "make" /\ text = <<>> /\ printed = <<>> /\ cursor = Start
    BY DEF Init
  <2>2. IsText(<<>>)
    BY TextNone
  <2> QED  BY <2>1, <2>2 DEF CommandInv, PhaseOK, OutputOK, EveryOutputFits, FailsForAReason
<1>2. InductiveInv /\ CommandInv /\ [Next]_vars => CommandInv'
  BY CommandStep
<1> QED  BY <1>1, <1>2, CallsAreGood, PTL DEF Spec

(* A command that ends before its time met an object that cannot be read,  *)
(* at the end of a pointer of the object it was printing, or a full line:  *)
(* a slot, a variable or a field that is not set never ends it             *)
(* (PyObject::slots, PyObject::repr, KnownStructObjectHandler).            *)
THEOREM FailuresHaveReasons == Spec => []FailsForAReason
BY CommandInvariance, PTL DEF CommandInv

(* Whatever the length of the text, printDml gives the debugger no output  *)
(* longer than it takes, and the handler of known structs no longer line.  *)
THEOREM OutputsFit == Spec => []EveryOutputFits
BY CommandInvariance, PTL DEF CommandInv

-----------------------------------------------------------------------------

(* The text that is printed.  What is written and what the calls, the      *)
(* members found and the rest of the walk still have to write is the text  *)
(* all along.  From is what is left of a list of texts at position k; Rest *)
(* what a call has to write when n levels are shown from it down.          *)
From(texts, k) == FlattenSeq(SubSeq(texts, k, Len(texts)))
Rest(g, f, n) ==
    IF f.next = 0 \/ ~IsContainer(f.as) THEN TextsOf(g)[n][f.at][f.as]
    ELSE From(ItemTexts(g, f.at, f.as, TextsOf(g)[n - 1]), f.next) \o Behind(g, f.at, f.as)
Due(g, calls) == FlattenSeq([i \in DOMAIN calls |->
                    LET j == Len(calls) + 1 - i
                    IN  Rest(g, calls[j], Deepest(g) + 1 - j)])
Found(g, calls) == FlattenSeq([j \in DOMAIN calls |-> TextOf(g, calls[j].at, calls[j].as)])
SlotsAhead(g, c) == IF c.type \notin DOMAIN MroOf(g) THEN <<>>
                    ELSE From(MemberTexts(g, MroOf(g)[c.type]), c.member)
                         \o From(SlotTexts(g), c.type + 1)
Ahead == CASE pc = "bases" -> From(BaseTexts(graph), cursor.type) \o SlotsAhead(graph, Start)
           [] pc = "slots" -> SlotsAhead(graph, cursor)
           [] pc = "locals" -> From(LocalTexts(graph), cursor.member)
           [] OTHER -> <<>>
Closing == (IF pc = "dict" THEN <<>> ELSE DictText(graph)) \o ExtentsText(graph)
Left == Due(graph, stack) \o (Found(graph, jobs) \o (Ahead \o Closing))

Written == Kinds \cup {"header", "open", ":", ",", "close", "none", "extent", "toolong"}
Tok == [what : Written, at : Addresses \cup Int]
Detailing == {"bases", "slots", "locals", "members", "dict"}
PhasesInv ==
    /\ text \in Seq(Tok) /\ (pc # "done" => printed \in Seq(Seq(Tok)))
    /\ pc \in {"make", "repr", "bases", "dict"} => jobs = <<>>
    /\ pc \in {"make", "slots", "locals"} => stack = <<>>
    /\ pc = "make" => text = <<>> /\ printed = <<>>
    /\ pc \in {"bases", "slots"} => ~HasLocals
    /\ pc = "locals" /\ Ordinary(graph) => HasLocals
    /\ pc = "bases" => Root.type \notin builtinTypes
    /\ pc = "repr" => graph.command.name # "pyinterpreterframe"
    /\ cursor.type >= 1 /\ cursor.member >= 1
    /\ \A j \in DOMAIN jobs : jobs[j].next = 0
TextInv ==
    Ordinary(graph) =>
       /\ pc = "repr" => /\ printed = <<Header(graph)>>
                         /\ text \o Due(graph, stack) = Whole(graph, graph.root)
       /\ pc \in Detailing =>
             /\ FlattenSeq(printed \o Heading(graph)) \o Details(graph) = Expected(graph)
             /\ text \o Left = Details(graph)
       /\ pc = "done" => FlattenSeq(printed) = Expected(graph)

(* Two lists of something are a list of it. *)
LEMMA ConcatTyped ==
    ASSUME NEW S, NEW s \in Seq(S), NEW t \in Seq(S)
    PROVE  s \o t \in Seq(S)
BY ConcatProperties

(* printDml prints a text whole, part by part. *)
LEMMA ChunksJoin ==
    ASSUME NEW content \in Seq(Tok)
    PROVE  Chunks(content) \in Seq(Seq(Tok)) /\ FlattenSeq(Chunks(content)) = content
<1> DEFINE size == Len(content)
           n == (size + ChunkSize - 1) \div ChunkSize
           last(k) == k * ChunkSize
           upto(k) == IF last(k) <= size THEN last(k) ELSE size
           part(k) == SubSeq(content, last(k) - ChunkSize + 1, upto(k))
           chunks == Chunks(content)
<1>1. size \in Nat /\ ChunkSize \in Nat /\ ChunkSize > 0
  BY ReprAssumption
<1>2. n \in Nat /\ n * ChunkSize >= size
  <2>1. n \in Nat
    BY <1>1, WholeQuotient
  <2> QED  BY <1>1, <2>1
<1>3. \A k \in Nat : last(k) \in Nat /\ last(k + 1) = last(k) + ChunkSize
  BY <1>1
<1>4. ASSUME NEW k \in 0..(n - 1) PROVE k * ChunkSize < size
  <2> DEFINE m == n - 1
  <2>1. n * ChunkSize <= size + ChunkSize - 1
    BY <1>1, <1>2
  <2>2. n * ChunkSize \in Int
    BY <1>1, <1>2
  <2>3. m \in Nat /\ k \in Nat /\ k <= m
    BY <1>2
  <2>4. n * ChunkSize = m * ChunkSize + ChunkSize
    BY <1>1, <1>2
  <2> HIDE DEF m, n, size
  <2>5. k * ChunkSize <= m * ChunkSize
    BY <1>1, <2>3
  <2>6. k * ChunkSize \in Int /\ m * ChunkSize \in Int
    BY <1>1, <2>3
  <2> QED  BY <1>1, <2>1, <2>2, <2>4, <2>5, <2>6
<1>5. /\ upto(0) = 0 /\ upto(n) = size
      /\ \A k \in 0..(n - 1) : /\ last(k + 1) - ChunkSize + 1 = upto(k) + 1
                               /\ upto(k) <= upto(k + 1) /\ upto(k + 1) \in 0..size
                               /\ upto(k) \in 0..size
  <2>1. last(0) = 0
    BY <1>1
  <2>2. \A k \in 0..n : last(k) \in Nat
    BY <1>2, <1>3
  <2>3. \A k \in 0..(n - 1) : last(k) < size /\ last(k + 1) = last(k) + ChunkSize
    BY <1>2, <1>3, <1>4
  <2>4. last(n) >= size
    BY <1>2
  <2> HIDE DEF last, n, size
  <2>5. \A k \in 0..n : upto(k) \in 0..size
    BY <1>1, <2>2
  <2>6. \A k \in 0..(n - 1) : upto(k) = last(k)
    BY <1>1, <1>2, <2>2, <2>3
  <2>7. ASSUME NEW k \in 0..(n - 1)
        PROVE  /\ last(k + 1) - ChunkSize + 1 = upto(k) + 1 /\ upto(k) <= upto(k + 1)
               /\ upto(k + 1) \in 0..size /\ upto(k) \in 0..size
    <3>1. k \in 0..n /\ k + 1 \in 0..n /\ last(k) \in Nat
      BY <1>2, <2>2
    <3>2. upto(k) = last(k) /\ last(k) < size /\ last(k + 1) = last(k) + ChunkSize
      BY <2>3, <2>6
    <3>3. upto(k) \in 0..size /\ upto(k + 1) \in 0..size
      BY <2>5, <3>1
    <3> QED  BY <1>1, <3>1, <3>2, <3>3
  <2>8. upto(n) = size /\ upto(0) = 0
    BY <1>1, <1>2, <2>1, <2>2, <2>4
  <2> QED  BY <2>7, <2>8
<1> HIDE DEF last, n, upto, size
<1>6. chunks = [k \in 1..n |-> part(k)]
  BY DEF Chunks, n, last, upto, size
<1>7. ASSUME NEW k \in 0..(n - 1)
      PROVE  /\ part(k + 1) \in Seq(Tok)
             /\ SubSeq(content, 1, upto(k)) \o part(k + 1) = SubSeq(content, 1, upto(k + 1))
  <2> DEFINE x == upto(k)  y == upto(k + 1)
  <2>1. x \in 0..size /\ y \in 0..size /\ x <= y /\ part(k + 1) = SubSeq(content, x + 1, y)
    BY <1>5
  <2> HIDE DEF x, y, part
  <2>2. 1 \in 1..(Len(content) + 1) /\ x \in (1 - 1)..Len(content) /\ y \in x..Len(content)
    BY <1>1, <2>1 DEF size
  <2>3. SubSeq(content, 1, x) \o SubSeq(content, x + 1, y) = SubSeq(content, 1, y)
    BY <2>2, ConcatAdjacentSubSeq
  <2>4. SubSeq(content, x + 1, y) \in Seq(Tok)
    BY <2>2
  <2> QED  BY <2>1, <2>3, <2>4 DEF x, y
<1>8. chunks \in Seq(Seq(Tok)) /\ Len(chunks) = n
  <2>1. \A k \in 1..n : part(k) \in Seq(Tok)
    <3> TAKE k \in 1..n
    <3>1. k - 1 \in 0..(n - 1) /\ (k - 1) + 1 = k
      BY <1>2
    <3> QED  BY <1>7, <3>1
  <2> HIDE DEF part, chunks
  <2> QED  BY <1>2, <1>6, <2>1
<1>9. CASE n = 0
  <2>1. size = 0
    BY <1>5, <1>9
  <2>2. content = <<>> /\ chunks = <<>>
    BY <1>6, <1>9, <2>1 DEF size
  <2> QED  BY <1>8, <2>2, FlattenNone
<1>10. CASE n > 0
  <2>1. PICK f \in [1..n -> Seq(Tok)] : Joins(FlattenSeq(chunks), chunks, n, f)
    <3> HIDE DEF chunks
    <3> QED  BY <1>2, <1>8, <1>10, FlattenSteps
  <2> DEFINE S == {k \in 0..n : k > 0 => f[k] = SubSeq(content, 1, upto(k))}
  <2>2. 0 \in S
    BY <1>2
  <2>3. ASSUME NEW k \in 0..(n - 1), k \in S PROVE k + 1 \in S
    <3>1. /\ chunks[k + 1] = part(k + 1)
          /\ SubSeq(content, 1, upto(k)) \o part(k + 1) = SubSeq(content, 1, upto(k + 1))
          /\ part(k + 1) \in Seq(Tok)
      <4>1. k + 1 \in 1..n
        BY <1>2
      <4> HIDE DEF part
      <4> QED  BY <1>6, <1>7, <4>1
    <3> HIDE DEF part, chunks
    <3>2. CASE k = 0
      <4>1. f[1] = part(1)
        BY <2>1, <3>1, <3>2 DEF Joins
      <4>2. SubSeq(content, 1, 0) = <<>> /\ upto(k) = 0
        <5>1. upto(0) = 0
          BY <1>5, Zenon
        <5>2. 1 \in Int /\ 0 \in Int /\ 0 < 1
          OBVIOUS
        <5>3. SubSeq(content, 1, 0) = <<>>
          BY <5>2, SubSeqEmpty, Zenon
        <5> QED  BY <3>2, <5>1, <5>3, Zenon
      <4>3. <<>> \o part(k + 1) = part(k + 1) /\ k + 1 = 1
        BY <3>1, <3>2
      <4>4. f[k + 1] = SubSeq(content, 1, upto(k + 1))
        BY <3>1, <4>1, <4>2, <4>3, Zenon
      <4>5. k + 1 \in 0..n
        BY <1>2
      <4> QED  BY <4>4, <4>5
    <3>3. CASE k # 0
      <4>1. k \in 1..(n - 1) /\ k > 0 /\ k + 1 \in 0..n
        BY <1>2, <3>3
      <4>2. f[k + 1] = f[k] \o chunks[k + 1]
        BY <2>1, <4>1, Zenon DEF Joins
      <4>3. f[k] = SubSeq(content, 1, upto(k))
        BY <2>3, <4>1, Zenon
      <4>4. f[k + 1] = SubSeq(content, 1, upto(k + 1))
        BY <3>1, <4>2, <4>3, Zenon
      <4> QED  BY <4>1, <4>4
    <3> QED  BY <3>2, <3>3
  <2>4. f[n] = SubSeq(content, 1, upto(n))
    <3>1. 0..n \subseteq S
      <4> HIDE DEF S
      <4> QED  BY <1>2, <2>2, <2>3, BoundedInduction
    <3> QED  BY <1>2, <1>10, <3>1
  <2>5. upto(n) = Len(content) /\ SubSeq(content, 1, Len(content)) = content
    BY <1>5, <1>2, SubSeqFull DEF size
  <2>6. FlattenSeq(chunks) = f[n]
    BY <2>1, Zenon DEF Joins
  <2> QED  BY <1>8, <2>4, <2>5, <2>6, Zenon
<1> QED  BY <1>2, <1>9, <1>10

TextTable(g) == [DOMAIN g.objs -> [Kinds -> Seq(Tok)]]

(* Whatever is written of an object or a number is a text. *)
LEMMA TokenTyped ==
    ASSUME NEW what \in Written, NEW a, a \in Addresses \/ a \in Int
    PROVE  Token(what, a) \in Tok /\ <<Token(what, a)>> \in Seq(Tok)
<1> DEFINE x == Token(what, a)
<1>1. x \in Tok
  BY DEF Token, Tok
<1> HIDE DEF x
<1>2. <<x>> \in Seq(Tok)
  BY <1>1
<1> QED  BY <1>1, <1>2 DEF x

(* What can be written. *)
LEMMA WrittenIs ==
    /\ Kinds \subseteq Written
    /\ "cell" \in Written /\ "type" \in Written /\ "header" \in Written /\ "open" \in Written
    /\ ":" \in Written /\ "," \in Written /\ "close" \in Written /\ "none" \in Written
    /\ "extent" \in Written /\ "toolong" \in Written
BY Zenon DEF Written, Kinds, Leaves

(* What stands between the items and behind them is a text. *)
LEMMA SeparatorTyped ==
    ASSUME NEW f, f.at \in Addresses
    PROVE  Separator(f) \in Seq(Tok) /\ Ending(f) \in Seq(Tok)
<1>1. /\ <<Token(":", f.at)>> \in Seq(Tok) /\ <<Token(",", f.at)>> \in Seq(Tok)
      /\ <<Token("close", f.at)>> \in Seq(Tok)
  BY WrittenIs, TokenTyped, Zenon
<1>2. <<>> \in Seq(Tok)
  OBVIOUS
<1>3. Separator(f) \in Seq(Tok)
  BY <1>1, <1>2, Zenon DEF Separator
<1> DEFINE x == IF f.as \in Tables /\ f.next > 1 THEN <<Token(",", f.at)>> ELSE <<>>
           y == IF f.as = "cell" THEN <<>> ELSE <<Token("close", f.at)>>
<1>4. x \in Seq(Tok) /\ y \in Seq(Tok)
  BY <1>1, <1>2, Zenon
<1>5. Ending(f) = x \o y
  BY Zenon DEF Ending
<1> HIDE DEF x, y
<1>6. x \o y \in Seq(Tok)
  BY <1>4, ConcatTyped
<1> QED  BY <1>3, <1>5, <1>6, Zenon

(* What a graph says of an object in it. *)
LEMMA GraphTyped ==
    ASSUME NEW g, IsGraph(g), NEW a \in DOMAIN g.objs
    PROVE  /\ a \in Addresses /\ g.objs[a] \in ObjectRecord /\ KindOf(g, a) \in Kinds
           /\ g.objs[a].type \in DOMAIN TypeTable
           /\ g.objs[a].items \in Seq(Addresses \cup {Null})
           /\ g.objs[a].locals \in Seq(Addresses \cup {Null})
<1>1. a \in Addresses /\ g.objs[a] \in ObjectRecord /\ g.objs[a].type \in DOMAIN TypeTable
  BY DEF IsGraph
<1> QED  BY <1>1, KindsMade DEF ObjectRecord, KindOf

(* So is the text of an item, if those of the objects are, *)
LEMMA ItemTextTyped ==
    ASSUME NEW g, IsGraph(g), NEW a \in DOMAIN g.objs, NEW as, NEW k,
           NEW texts \in TextTable(g)
    PROVE  ItemText(g, a, as, k, texts) \in Seq(Tok)
<1> DEFINE x == g.objs[a].items[k]
           f == [at |-> a, as |-> as, next |-> k]
           item == IF as = "fields" /\ x = Null THEN <<Token("none", a)>>
                   ELSE IF x \in DOMAIN g.objs THEN texts[x][KindOf(g, x)] ELSE <<>>
<1>1. f.at = a /\ a \in Addresses
  BY GraphTyped
<1>2. Separator(f) \in Seq(Tok)
  <2> HIDE DEF f
  <2> QED  BY <1>1, SeparatorTyped
<1>3. item \in Seq(Tok)
  <2>1. <<Token("none", a)>> \in Seq(Tok) /\ <<>> \in Seq(Tok)
    <3>1. <<>> \in Seq(Tok)
      OBVIOUS
    <3> QED  BY <1>1, <3>1, WrittenIs, TokenTyped, Zenon
  <2>2. x \in DOMAIN g.objs => texts[x][KindOf(g, x)] \in Seq(Tok)
    <3> HIDE DEF x
    <3> QED  BY GraphTyped, Zenon DEF TextTable
  <2> HIDE DEF x
  <2> QED  BY <2>1, <2>2, Zenon
<1>4. ItemText(g, a, as, k, texts) = Separator(f) \o item
  BY Zenon DEF ItemText
<1> HIDE DEF f, item
<1> QED  BY <1>2, <1>3, <1>4, ConcatTyped

(* and the text of an object. *)
LEMMA ObjectTextTyped ==
    ASSUME NEW g, IsGraph(g), NEW a \in DOMAIN g.objs, NEW as \in Kinds,
           NEW texts \in TextTable(g)
    PROVE  /\ ItemTexts(g, a, as, texts) \in Seq(Seq(Tok))
           /\ Len(ItemTexts(g, a, as, texts)) = Len(g.objs[a].items)
           /\ FlattenSeq(ItemTexts(g, a, as, texts)) \in Seq(Tok)
           /\ Opening(a, as) \in Seq(Tok) /\ Behind(g, a, as) \in Seq(Tok)
           /\ ObjectText(g, a, as, texts) \in Seq(Tok)
<1> DEFINE items == g.objs[a].items
           n == Len(items)
           parts == ItemTexts(g, a, as, texts)
<1>1. a \in Addresses /\ as \in Written /\ items \in Seq(Addresses \cup {Null})
  BY GraphTyped, WrittenIs, Zenon
<1>2. n \in Nat /\ DOMAIN items = 1..n
  <2> HIDE DEF items
  <2> QED  BY <1>1
<1>3. parts \in Seq(Seq(Tok)) /\ Len(parts) = n
  <2> DEFINE part(k) == ItemText(g, a, as, k, texts)
  <2>1. parts = [k \in 1..n |-> part(k)]
    BY <1>2, Zenon DEF ItemTexts
  <2>2. \A k \in 1..n : part(k) \in Seq(Tok)
    BY ItemTextTyped, Zenon
  <2> HIDE DEF parts, n, part
  <2> QED  BY <1>2, <2>1, <2>2
<1>4. FlattenSeq(parts) \in Seq(Tok)
  <2> HIDE DEF parts, n
  <2> QED  BY <1>2, <1>3, FlattenLayout
<1>5. Opening(a, as) \in Seq(Tok) /\ <<Token(as, a)>> \in Seq(Tok)
  BY <1>1, WrittenIs, TokenTyped, Zenon DEF Opening
<1>6. Behind(g, a, as) \in Seq(Tok)
  <2> DEFINE f == [at |-> a, as |-> as, next |-> Len(g.objs[a].items) + 1]
  <2>1. f.at = a
    OBVIOUS
  <2>2. Behind(g, a, as) = Ending(f)
    BY Zenon DEF Behind
  <2> HIDE DEF f
  <2> QED  BY <1>1, <2>1, <2>2, SeparatorTyped
<1>7. TypeNames(g, a) \in Seq(Tok)
  <2> DEFINE name(k) == IF items[k] = Null THEN Token("none", a) ELSE Token("type", items[k])
  <2>1. TypeNames(g, a) = [k \in 1..n |-> name(k)]
    BY <1>2, Zenon DEF TypeNames
  <2>2. ASSUME NEW k \in 1..n PROVE name(k) \in Tok
    <3>1. items[k] \in Addresses \cup {Null}
      <4> HIDE DEF items
      <4> QED  BY <1>1, <1>2, <2>2
    <3>3. CASE items[k] = Null
      BY <1>1, <3>3, WrittenIs, TokenTyped, Zenon
    <3>4. CASE items[k] # Null
      BY <3>1, <3>4, WrittenIs, TokenTyped, Zenon
    <3> QED  BY <3>3, <3>4, Zenon
  <2> HIDE DEF name, n
  <2> QED  BY <1>2, <2>1, <2>2
<1>8. ObjectText(g, a, as, texts) \in Seq(Tok)
  <2> DEFINE flat == FlattenSeq(parts)
             behind == Behind(g, a, as)
  <2>1. <<Token(as, a)>> \o TypeNames(g, a) \in Seq(Tok)
    BY <1>5, <1>7, ConcatTyped
  <2>2. flat \o behind \in Seq(Tok)
    <3> HIDE DEF flat, behind
    <3> QED  BY <1>4, <1>6, ConcatTyped DEF flat, behind
  <2>3. Opening(a, as) \o (flat \o behind) \in Seq(Tok)
    <3> HIDE DEF flat, behind
    <3> QED  BY <1>5, <2>2, ConcatTyped
  <2> QED  BY <1>5, <2>1, <2>3, Zenon DEF ObjectText
<1> QED  BY <1>3, <1>4, <1>5, <1>6, <1>8

(* The recursion has a solution, since it goes one level down each time.   *)
LEMMA TextsUnfold ==
    ASSUME NEW g, IsGraph(g)
    PROVE  /\ TextsOf(g) \in [0..Deepest(g) -> TextTable(g)]
           /\ \A n \in 1..Deepest(g) : \A a \in DOMAIN g.objs : \A as \in Kinds :
                 TextsOf(g)[n][a][as] = ObjectText(g, a, as, TextsOf(g)[n - 1])
<1> DEFINE D == 0..Deepest(g)
           R == TextTable(g)
           Level(t, n) == [a \in DOMAIN g.objs |-> [as \in Kinds |->
                             IF n = 0 THEN <<>> ELSE ObjectText(g, a, as, t[n - 1])]]
           F == [p \in [D -> R] \X D |-> Level(p[1], p[2])]
           rank == [i \in D |-> i]
           f == CHOOSE f : f = [n \in 0..Deepest(g) |->
                   [a \in DOMAIN g.objs |-> [as \in Kinds |->
                      IF n = 0 THEN <<>> ELSE ObjectText(g, a, as, f[n - 1])]]]
<1>1. TextsOf(g) = f
  BY DEF TextsOf
<1>2. Deepest(g) \in Nat
  BY DEF IsGraph, Deepest
<1>3. ASSUME NEW t \in [D -> R], NEW n \in D PROVE Level(t, n) \in R
  <2>1. ASSUME NEW a \in DOMAIN g.objs, NEW as \in Kinds
        PROVE  (IF n = 0 THEN <<>> ELSE ObjectText(g, a, as, t[n - 1])) \in Seq(Tok)
    <3>1. CASE n = 0
      BY <3>1
    <3>2. CASE n # 0
      <4>1. n - 1 \in D
        BY <1>2, <3>2
      <4>2. t[n - 1] \in R
        <5> HIDE DEF R, D
        <5> QED  BY <4>1
      <4> QED  BY <3>2, <4>2, ObjectTextTyped
    <3> QED  BY <3>1, <3>2
  <2> QED  BY <2>1, Zenon DEF TextTable
<1>4. R # {}
  <2>1. [a \in DOMAIN g.objs |-> [as \in Kinds |-> <<>>]] \in R
    BY DEF TextTable
  <2> QED  BY <2>1, Zenon
<1>5. ASSUME NEW t \in [D -> R], NEW u \in [D -> R], NEW n \in D,
             \A j \in D : rank[j] < rank[n] => t[j] = u[j]
      PROVE  Level(t, n) = Level(u, n)
  <2>1. n # 0 => n - 1 \in D /\ rank[n - 1] < rank[n]
    BY <1>2
  <2>2. n # 0 => t[n - 1] = u[n - 1]
    BY <1>5, <2>1, Zenon
  <2> QED  BY <2>2, Zenon
<1>6. PICK t \in [D -> R] : \A n \in D : t[n] = Level(t, n)
  <2>1. rank \in [D -> 0..Deepest(g)]
    OBVIOUS
  <2> HIDE DEF D, R, rank, Level, f
  <2>2. F \in [[D -> R] \X D -> R]
    BY <1>3
  <2>3. \A t \in [D -> R], n \in D : F[<<t, n>>] = Level(t, n)
    OBVIOUS
  <2> HIDE DEF F
  <2>4. LooksBelow(D, R, rank, F)
    <3> SUFFICES ASSUME NEW t \in [D -> R], NEW u \in [D -> R], NEW n \in D,
                        \A j \in D : rank[j] < rank[n] => t[j] = u[j]
                 PROVE  F[<<t, n>>] = F[<<u, n>>]
      BY DEF LooksBelow
    <3>1. Level(t, n) = Level(u, n)
      BY <1>5
    <3> QED  BY <2>3, <3>1
  <2>5. \E t \in [D -> R] : Solution(D, F, t)
    BY <1>2, <1>4, <2>1, <2>2, <2>4, RecursiveFunction
  <2> QED  BY <2>3, <2>5 DEF Solution
<1>7. f = [n \in D |-> Level(f, n)]
  <2>1. t = [n \in D |-> Level(t, n)]
    <3> HIDE DEF Level, R, D
    <3> QED  BY <1>6
  <2> DEFINE right(u) == [n \in 0..Deepest(g) |->
                   [a \in DOMAIN g.objs |-> [as \in Kinds |->
                      IF n = 0 THEN <<>> ELSE ObjectText(g, a, as, u[n - 1])]]]
  <2>2. t = right(t)
    BY <2>1, Zenon
  <2>3. f = CHOOSE u : u = right(u)
    OBVIOUS
  <2>4. f = right(f)
    <3> HIDE DEF right, f
    <3> QED  BY <2>2, <2>3, Zenon
  <2> QED  BY <2>4, Zenon
<1>8. f = t
  <2> DEFINE S == {n \in 0..Deepest(g) : f[n] = t[n]}
  <2>1. \A n \in D : f[n] = Level(f, n)
    <3> HIDE DEF f, D, Level
    <3> QED  BY <1>7
  <2> HIDE DEF f
  <2>2. Level(f, 0) = Level(t, 0) /\ 0 \in D
    BY <1>2
  <2>3. 0 \in S
    <3> HIDE DEF Level
    <3> QED  BY <1>6, <2>1, <2>2
  <2>4. ASSUME NEW n \in 0..(Deepest(g) - 1), n \in S PROVE n + 1 \in S
    <3>1. f[n] = t[n]
      BY <2>4
    <3>2. n + 1 \in D /\ (n + 1) - 1 = n /\ n + 1 # 0
      BY <1>2
    <3>3. Level(f, n + 1) = Level(t, n + 1)
      BY <3>1, <3>2, Zenon
    <3> HIDE DEF Level
    <3> QED  BY <1>6, <2>1, <3>2, <3>3
  <2>5. 0..Deepest(g) \subseteq S
    <3> HIDE DEF S, Level
    <3> QED  BY <1>2, <2>3, <2>4, BoundedInduction
  <2>6. \A n \in D : f[n] = t[n]
    BY <2>5
  <2> HIDE DEF S, Level, R, D
  <2> QED  BY <1>6, <1>7, <2>6
<1>9. ASSUME NEW n \in 1..Deepest(g), NEW a \in DOMAIN g.objs, NEW as \in Kinds
      PROVE  t[n][a][as] = ObjectText(g, a, as, t[n - 1])
  <2>1. n \in D /\ n # 0
    BY <1>2
  <2>2. t[n] = Level(t, n)
    BY <1>6, <2>1
  <2>3. Level(t, n)[a][as] = ObjectText(g, a, as, t[n - 1])
    BY <2>1, Zenon
  <2> QED  BY <2>2, <2>3, Zenon
<1> HIDE DEF f
<1> QED  BY <1>1, <1>8, <1>9

-----------------------------------------------------------------------------

(* What is left of a list of texts when the first ones are written. *)

(* Joining lists. *)
LEMMA ConcatAssoc ==
    ASSUME NEW S, NEW s \in Seq(S), NEW t \in Seq(S), NEW u \in Seq(S)
    PROVE  (s \o t) \o u = s \o (t \o u)
BY ConcatAssociative

(* Texts are joined in any order. *)
Joined(x, y, z) == (x \o y) \o z = x \o (y \o z) /\ x \o y \in Seq(Tok)

LEMMA TextAssoc ==
    ASSUME NEW x \in Seq(Tok), NEW y \in Seq(Tok), NEW z \in Seq(Tok)
    PROVE  Joined(x, y, z)
<1>1. x \o y \in Seq(Tok)
  BY ConcatTyped
<1>2. (x \o y) \o z = x \o (y \o z)
  BY ConcatAssoc
<1> QED  BY <1>1, <1>2 DEF Joined

(* Nothing, joined to a list. *)
LEMMA ConcatNone ==
    ASSUME NEW S, NEW s \in Seq(S)
    PROVE  <<>> \o s = s /\ s \o <<>> = s /\ <<>> \in Seq(S)
OBVIOUS

(* What is left of a list of texts loses them one by one.                  *)
FromParts(p, k) ==
    /\ From(p, k) \in Seq(Tok) /\ From(p, 1) = FlattenSeq(p)
    /\ k > Len(p) => From(p, k) = <<>>
    /\ k \in DOMAIN p => p[k] \in Seq(Tok) /\ From(p, k) = p[k] \o From(p, k + 1)

(* Every list of texts loses them like that. *)
LEMMA FromLeft ==
    ASSUME NEW p \in Seq(Seq(Tok)), NEW k \in Nat, k >= 1
    PROVE  FromParts(p, k)
<1> DEFINE n == Len(p)  V == Seq(Tok)
<1>1. n \in Nat /\ DOMAIN p = 1..n
  OBVIOUS
<1>2. \A j \in Nat : j >= 1 => SubSeq(p, j, n) \in Seq(V)
  <2> TAKE j \in Nat
  <2> HAVE j >= 1
  <2>1. \A i \in j..n : p[i] \in V
    BY <1>1
  <2> HIDE DEF V
  <2> QED  BY <1>1, <2>1, SubSeqProperties
<1>3. \A j \in Nat : j >= 1 => From(p, j) \in Seq(Tok)
  <2> TAKE j \in Nat
  <2> HAVE j >= 1
  <2> DEFINE q == SubSeq(p, j, n)
  <2>1. q \in Seq(Seq(Tok))
    BY <1>2
  <2> HIDE DEF q
  <2>2. Len(q) \in Nat
    BY <2>1
  <2>3. FlattenSeq(q) \in Seq(Tok)
    BY <2>1, <2>2, FlattenLayout
  <2> QED  BY <2>3, Zenon DEF From, q
<1>4. From(p, 1) = FlattenSeq(p)
  BY SubSeqFull, Zenon DEF From
<1>5. k > n => From(p, k) = <<>>
  <2> SUFFICES ASSUME k > n PROVE From(p, k) = <<>>
    OBVIOUS
  <2>1. SubSeq(p, k, n) = <<>>
    BY <1>1, SubSeqEmpty
  <2> QED  BY <2>1, FlattenNone, Zenon DEF From
<1>6. ASSUME k \in DOMAIN p PROVE p[k] \in Seq(Tok) /\ From(p, k) = p[k] \o From(p, k + 1)
  <2> DEFINE q == SubSeq(p, k + 1, n)
  <2>1. k \in 1..n /\ n \in k..n /\ p[k] \in V
    BY <1>1, <1>6
  <2>2. SubSeq(p, k, n) = <<p[k]>> \o q
    <3> HIDE DEF V
    <3> QED  BY <2>1, SubSeqRecursiveFirst DEF n
  <2>3. q \in Seq(Seq(Tok))
    BY <1>2
  <2> DEFINE x == p[k]
  <2>4. x \in Seq(Tok)
    BY <2>1
  <2> HIDE DEF q, x
  <2>5. <<x>> \in Seq(Seq(Tok))
    BY <2>4
  <2>6. FlattenSeq(<<x>> \o q) = FlattenSeq(<<x>>) \o FlattenSeq(q)
    BY <2>3, <2>5, FlattenConcat
  <2>7. FlattenSeq(<<x>>) = x
    BY <2>4, FlattenOne
  <2>8. From(p, k) = x \o FlattenSeq(q)
    BY <2>2, <2>6, <2>7, Zenon DEF From, x
  <2> QED  BY <2>4, <2>8, Zenon DEF From, x, q
<1> QED  BY <1>3, <1>4, <1>5, <1>6 DEF FromParts

-----------------------------------------------------------------------------

(* The text of an object is a text, however it is shown. *)
LEMMA TextTyped ==
    ASSUME NEW g, IsGraph(g), NEW a, NEW as \in Kinds
    PROVE  TextOf(g, a, as) \in Seq(Tok) /\ Whole(g, a) \in Seq(Tok)
<1>1. ASSUME NEW kind \in Kinds PROVE TextOf(g, a, kind) \in Seq(Tok)
  <2>1. <<>> \in Seq(Tok)
    OBVIOUS
  <2>2. Deepest(g) \in 0..Deepest(g)
    BY DEF Deepest, IsGraph
  <2>3. TextsOf(g)[Deepest(g)] \in TextTable(g)
    BY <2>2, TextsUnfold
  <2>4. a \in DOMAIN g.objs => TextsOf(g)[Deepest(g)][a][kind] \in Seq(Tok)
    BY <2>3, Zenon DEF TextTable
  <2> QED  BY <2>1, <2>4, Zenon DEF TextOf
<1>2. (IF a \in DOMAIN g.objs THEN KindOf(g, a) ELSE "value") \in Kinds
  BY KindsMade DEF Kinds, Leaves, KindOf
<1> QED  BY <1>1, <1>2, Zenon DEF Whole

(* The members found are printed in the order in which they were found.    *)
LEMMA FoundJoin ==
    ASSUME NEW g, IsGraph(g), NEW s \in Seq(CallRecord), NEW t \in Seq(CallRecord)
    PROVE  /\ Found(g, s) \in Seq(Tok)
           /\ Found(g, s \o t) = Found(g, s) \o Found(g, t)
<1> DEFINE T(c) == TextOf(g, c.at, c.as)
           parts(r) == [j \in DOMAIN r |-> T(r[j])]
<1>1. \A c \in CallRecord : T(c) \in Seq(Tok)
  BY TextTyped, Zenon DEF CallRecord
<1>2. ASSUME NEW r \in Seq(CallRecord)
      PROVE  parts(r) \in Seq(Seq(Tok)) /\ Len(parts(r)) = Len(r) /\ Len(r) \in Nat
             /\ DOMAIN r = 1..Len(r)
  <2>1. Len(r) \in Nat /\ DOMAIN r = 1..Len(r) /\ \A j \in 1..Len(r) : r[j] \in CallRecord
    OBVIOUS
  <2> DEFINE q == parts(r)  n == Len(r)
  <2>2. q = [j \in 1..n |-> T(r[j])]
    BY <2>1, Zenon
  <2>3. \A j \in 1..n : T(r[j]) \in Seq(Tok)
    BY <1>1, <2>1
  <2> HIDE DEF q, n, T
  <2>4. q \in Seq(Seq(Tok)) /\ Len(q) = n
    BY <2>1, <2>2, <2>3 DEF n
  <2> QED  BY <2>1, <2>4 DEF q, n
<1>3. parts(s \o t) = parts(s) \o parts(t)
  <2> DEFINE n == Len(s)  m == Len(t)  r == s \o t
  <2>1. /\ r \in Seq(CallRecord) /\ Len(r) = n + m
        /\ \A i \in 1..(n + m) : r[i] = IF i <= n THEN s[i] ELSE t[i - n]
    BY ConcatProperties
  <2>2. n \in Nat /\ m \in Nat /\ DOMAIN s = 1..n /\ DOMAIN t = 1..m
    OBVIOUS
  <2> DEFINE p == parts(s)  q == parts(t)  u == parts(r)  v == p \o q
  <2>3. /\ p \in Seq(Seq(Tok)) /\ Len(p) = n /\ q \in Seq(Seq(Tok)) /\ Len(q) = m
        /\ u \in Seq(Seq(Tok)) /\ Len(u) = n + m
    <3> HIDE DEF T, parts
    <3> QED  BY <1>2, <2>1
  <2>4. /\ \A i \in 1..n : p[i] = T(s[i])
        /\ \A i \in 1..m : q[i] = T(t[i])
        /\ \A i \in 1..(n + m) : u[i] = T(r[i])
    <3> HIDE DEF T
    <3>1. DOMAIN r = 1..(n + m)
      BY <2>1
    <3> HIDE DEF r, n, m
    <3> QED  BY <2>2, <3>1
  <2> HIDE DEF p, q, u, r, n, m, T
  <2>5. /\ v \in Seq(Seq(Tok)) /\ Len(v) = n + m
        /\ \A i \in 1..(n + m) : v[i] = IF i <= n THEN p[i] ELSE q[i - n]
    BY <2>3, ConcatProperties
  <2> HIDE DEF v
  <2>6. ASSUME NEW i \in 1..(n + m) PROVE u[i] = v[i]
    <3>1. CASE i <= n
      <4>1. i \in 1..n
        BY <2>2, <3>1
      <4> QED  BY <2>1, <2>4, <2>5, <3>1, <4>1, Zenon
    <3>2. CASE ~(i <= n)
      <4>1. i - n \in 1..m
        BY <2>2, <3>2
      <4> QED  BY <2>1, <2>4, <2>5, <3>2, <4>1, Zenon
    <3> QED  BY <3>1, <3>2
  <2>7. u = v
    BY <2>2, <2>3, <2>5, <2>6
  <2> QED  BY <2>7 DEF u, v, p, q, r
<1> HIDE DEF T
<1>4. \A r : Found(g, r) = FlattenSeq(parts(r))
  BY Zenon DEF Found, T
<1> HIDE DEF parts
<1>5. \A r \in Seq(CallRecord) : FlattenSeq(parts(r)) \in Seq(Tok)
  <2> TAKE r \in Seq(CallRecord)
  <2>1. parts(r) \in Seq(Seq(Tok)) /\ Len(parts(r)) \in Nat
    BY <1>2
  <2> QED  BY <2>1, FlattenLayout
<1>6. FlattenSeq(parts(s) \o parts(t)) = FlattenSeq(parts(s)) \o FlattenSeq(parts(t))
  <2>1. parts(s) \in Seq(Seq(Tok)) /\ parts(t) \in Seq(Seq(Tok))
    BY <1>2
  <2> QED  BY <2>1, FlattenConcat
<1>7. Found(g, s) = FlattenSeq(parts(s)) /\ Found(g, t) = FlattenSeq(parts(t))
  BY <1>4
<1>8. Found(g, s \o t) = FlattenSeq(parts(s) \o parts(t))
  BY <1>3, <1>4
<1>9. FlattenSeq(parts(s)) \in Seq(Tok)
  BY <1>5
<1> QED  BY <1>6, <1>7, <1>8, <1>9, Zenon

(* A member that was found adds its text behind the others. *)
LEMMA FoundOne ==
    ASSUME NEW g, IsGraph(g), NEW c \in CallRecord
    PROVE  Found(g, <<c>>) = TextOf(g, c.at, c.as)
<1> DEFINE x == TextOf(g, c.at, c.as)
           p == [j \in DOMAIN <<c>> |-> TextOf(g, <<c>>[j].at, <<c>>[j].as)]
<1>1. x \in Seq(Tok)
  BY TextTyped DEF CallRecord
<1>2. p = <<x>>
  OBVIOUS
<1>3. Found(g, <<c>>) = FlattenSeq(p)
  BY Zenon DEF Found
<1> HIDE DEF x, p
<1>4. FlattenSeq(<<x>>) = x
  BY <1>1, FlattenOne
<1> QED  BY <1>2, <1>3, <1>4 DEF x

(* No members, no text. *)
LEMMA FoundNone == \A g : Found(g, <<>>) = <<>>
<1> TAKE g
<1>1. [j \in DOMAIN <<>> |-> TextOf(g, <<>>[j].at, <<>>[j].as)] = <<>>
  OBVIOUS
<1> QED  BY <1>1, FlattenNone DEF Found

-----------------------------------------------------------------------------

(* What a call has written and has still to write. *)

Following(f) == [f EXCEPT !.next = @ + 1]

(* A call that has written one more part. *)
LEMMA FollowingIs ==
    ASSUME NEW f \in CallRecord
    PROVE  /\ Following(f) \in CallRecord /\ Following(f).at = f.at /\ Following(f).as = f.as
           /\ Following(f).next = f.next + 1 /\ Following(f).next # 0 /\ f.next \in Nat
           /\ f.as \in Kinds
BY DEF CallRecord, Following

(* The parts of the text of an object, and what it has still to write of   *)
(* them.                                                                   *)
LEMMA RestTyped ==
    ASSUME NEW g, IsGraph(g), NEW f \in CallRecord, f.at \in DOMAIN g.objs,
           NEW n \in 1..Deepest(g)
    PROVE  /\ Rest(g, f, n) \in Seq(Tok)
           /\ TextsOf(g)[n - 1] \in TextTable(g)
           /\ TextsOf(g)[n][f.at][f.as] = ObjectText(g, f.at, f.as, TextsOf(g)[n - 1])
           /\ ItemTexts(g, f.at, f.as, TextsOf(g)[n - 1]) \in Seq(Seq(Tok))
           /\ Behind(g, f.at, f.as) \in Seq(Tok)
<1> DEFINE texts == TextsOf(g)[n - 1]
           parts == ItemTexts(g, f.at, f.as, texts)
<1>1. f.as \in Kinds /\ f.next \in Nat
  BY DEF CallRecord
<1>2. n - 1 \in 0..Deepest(g) /\ n \in 0..Deepest(g)
  BY DEF Deepest, IsGraph
<1>3. TextsOf(g) \in [0..Deepest(g) -> TextTable(g)]
  BY TextsUnfold, Zenon
<1>4. texts \in TextTable(g) /\ TextsOf(g)[n] \in TextTable(g)
  BY <1>2, <1>3, Zenon
<1>5. TextsOf(g)[n][f.at][f.as] = ObjectText(g, f.at, f.as, texts)
  BY <1>1, TextsUnfold, Zenon
<1>6. TextsOf(g)[n][f.at][f.as] \in Seq(Tok)
  BY <1>1, <1>4, Zenon DEF TextTable
<1>7. parts \in Seq(Seq(Tok)) /\ Behind(g, f.at, f.as) \in Seq(Tok)
  <2> HIDE DEF texts
  <2> QED  BY <1>1, <1>4, ObjectTextTyped, Zenon
<1>8. f.next # 0 => From(parts, f.next) \o Behind(g, f.at, f.as) \in Seq(Tok)
  <2> DEFINE k == f.next  p == parts  b == Behind(g, f.at, f.as)
  <2> SUFFICES ASSUME k # 0 PROVE From(p, k) \o b \in Seq(Tok)
    OBVIOUS
  <2>1. k \in Nat /\ k >= 1
    BY <1>1
  <2> HIDE DEF parts, p, b, k
  <2>2. From(p, k) \in Seq(Tok)
    BY <1>7, <2>1, FromLeft DEF FromParts, p
  <2> QED  BY <1>7, <2>2, ConcatTyped DEF b
<1>9. Rest(g, f, n) \in Seq(Tok)
  <2> HIDE DEF parts, texts
  <2> QED  BY <1>6, <1>8, Zenon DEF Rest, parts, texts
<1> HIDE DEF parts, texts
<1> QED  BY <1>4, <1>5, <1>7, <1>9, Zenon DEF parts, texts

(* An object without items writes its whole text at once. *)
LEMMA RestOfLeaf ==
    ASSUME NEW g, IsGraph(g), NEW f \in CallRecord, f.at \in DOMAIN g.objs,
           NEW n \in 1..Deepest(g), ~IsContainer(f.as)
    PROVE  Rest(g, f, n) = IF f.as = "super" THEN <<Token(f.as, f.at)>> \o TypeNames(g, f.at)
                           ELSE <<Token(f.as, f.at)>>
<1>1. Rest(g, f, n) = TextsOf(g)[n][f.at][f.as]
  BY Zenon DEF Rest
<1>2. TextsOf(g)[n][f.at][f.as] = ObjectText(g, f.at, f.as, TextsOf(g)[n - 1])
  BY RestTyped
<1> QED  BY <1>1, <1>2, Zenon DEF ObjectText

(* A container starts with its opening. *)
LEMMA RestOpens ==
    ASSUME NEW g, IsGraph(g), NEW f \in CallRecord, f.at \in DOMAIN g.objs,
           NEW n \in 1..Deepest(g), IsContainer(f.as), f.next = 0
    PROVE  Rest(g, f, n) = Opening(f.at, f.as) \o Rest(g, Following(f), n)
<1> DEFINE texts == TextsOf(g)[n - 1]
           parts == ItemTexts(g, f.at, f.as, texts)
           behind == Behind(g, f.at, f.as)
           next == Following(f)
<1>1. /\ next \in CallRecord /\ next.at = f.at /\ next.as = f.as
      /\ next.next = 1
  BY FollowingIs
<1>2. /\ Rest(g, f, n) = ObjectText(g, f.at, f.as, texts)
      /\ parts \in Seq(Seq(Tok))
  BY RestTyped, Zenon DEF Rest
<1>3. "super" \in Leaves
  BY DEF Leaves
<1>4. f.as # "super"
  BY <1>3 DEF IsContainer
<1>5. ObjectText(g, f.at, f.as, texts) = Opening(f.at, f.as) \o (FlattenSeq(parts) \o behind)
  BY <1>4, Zenon DEF ObjectText
<1>6. From(parts, 1) = FlattenSeq(parts)
  <2> HIDE DEF parts
  <2>1. 1 \in Nat /\ 1 >= 1
    OBVIOUS
  <2> QED  BY <1>2, <2>1, FromLeft, Zenon DEF FromParts
<1>7. Rest(g, next, n) = From(parts, 1) \o behind
  <2> HIDE DEF next
  <2>1. 1 # 0
    OBVIOUS
  <2> QED  BY <1>1, <2>1, Zenon DEF Rest
<1> HIDE DEF parts, texts, behind, next
<1> QED  BY <1>2, <1>5, <1>6, <1>7, Zenon DEF next

(* Between two items, the call and the one it makes for the item share the *)
(* text.                                                                   *)
LEMMA RestItem ==
    ASSUME NEW g, IsGraph(g), NEW f \in CallRecord, f.at \in DOMAIN g.objs,
           NEW n \in 1..Deepest(g), IsContainer(f.as),
           f.next \in 1..Len(g.objs[f.at].items)
    PROVE  /\ ItemText(g, f.at, f.as, f.next, TextsOf(g)[n - 1]) \in Seq(Tok)
           /\ Rest(g, f, n) = ItemText(g, f.at, f.as, f.next, TextsOf(g)[n - 1])
                              \o Rest(g, Following(f), n)
<1> DEFINE texts == TextsOf(g)[n - 1]
           parts == ItemTexts(g, f.at, f.as, texts)
           behind == Behind(g, f.at, f.as)
           next == Following(f)
           k == f.next
           item == ItemText(g, f.at, f.as, k, texts)
<1>1. /\ next \in CallRecord /\ next.at = f.at /\ next.as = f.as
      /\ next.next = k + 1 /\ k \in Nat /\ k >= 1 /\ k # 0 /\ k + 1 # 0 /\ f.as \in Kinds
  BY FollowingIs
<1>2. texts \in TextTable(g) /\ parts \in Seq(Seq(Tok)) /\ behind \in Seq(Tok)
  BY RestTyped, Zenon
<1>3. k \in DOMAIN g.objs[f.at].items
  <2>1. g.objs[f.at].items \in Seq(Addresses \cup {Null})
    BY GraphTyped
  <2> QED  BY <2>1
<1>4. k \in DOMAIN parts /\ parts[k] = item
  BY <1>3, Zenon DEF ItemTexts
<1>5. Rest(g, f, n) = From(parts, k) \o behind
  BY <1>1, Zenon DEF Rest
<1>6. Rest(g, next, n) = From(parts, k + 1) \o behind
  <2> HIDE DEF next, k
  <2> QED  BY <1>1, Zenon DEF Rest
<1> HIDE DEF parts, texts, behind, next, k, item
<1>7. From(parts, k) = item \o From(parts, k + 1) /\ item \in Seq(Tok)
  BY <1>1, <1>2, <1>4, FromLeft, Zenon DEF FromParts
<1>8. From(parts, k + 1) \in Seq(Tok)
  <2>1. k + 1 \in Nat /\ k + 1 >= 1
    BY <1>1
  <2> QED  BY <1>2, <2>1, FromLeft, Zenon DEF FromParts
<1> DEFINE from == From(parts, k + 1)
<1>9. (item \o from) \o behind = item \o (from \o behind)
  <2>1. from \in Seq(Tok)
    BY <1>8
  <2>2. item \in Seq(Tok) /\ behind \in Seq(Tok)
    BY <1>2, <1>7, Zenon
  <2> HIDE DEF from
  <2>9. Joined(item, from, behind)
    BY <2>1, <2>2, TextAssoc, Zenon
  <2> QED  BY <2>9 DEF Joined
<1>10. Rest(g, f, n) = item \o Rest(g, next, n)
  BY <1>5, <1>6, <1>7, <1>9, Zenon
<1> QED  BY <1>7, <1>10, Zenon DEF item, next, k, texts

(* After the last item the ending is left. *)
LEMMA RestCloses ==
    ASSUME NEW g, IsGraph(g), NEW f \in CallRecord, f.at \in DOMAIN g.objs,
           NEW n \in 1..Deepest(g), IsContainer(f.as),
           f.next = Len(g.objs[f.at].items) + 1
    PROVE  Rest(g, f, n) = Ending(f)
<1> DEFINE texts == TextsOf(g)[n - 1]
           parts == ItemTexts(g, f.at, f.as, texts)
           k == f.next
<1>1. Behind(g, f.at, f.as) = Ending(f)
  <2>1. f = [at |-> f.at, as |-> f.as, next |-> f.next]
    BY DEF CallRecord
  <2> QED  BY <2>1, Zenon DEF Behind
<1>2. /\ parts \in Seq(Seq(Tok)) /\ Behind(g, f.at, f.as) \in Seq(Tok)
      /\ texts \in TextTable(g) /\ f.as \in Kinds
  BY RestTyped, FollowingIs, Zenon
<1>3. Len(parts) = Len(g.objs[f.at].items)
  <2> HIDE DEF texts
  <2> QED  BY <1>2, ObjectTextTyped, Zenon
<1>4. Len(parts) \in Nat
  <2> HIDE DEF parts
  <2> QED  BY <1>2
<1>5. k \in Nat /\ k >= 1 /\ k > Len(parts) /\ k # 0
  <2>1. k = Len(parts) + 1
    BY <1>3, Zenon
  <2> HIDE DEF parts, k
  <2> QED  BY <1>4, <2>1
<1>6. Rest(g, f, n) = From(parts, k) \o Behind(g, f.at, f.as)
  BY <1>5, Zenon DEF Rest
<1> HIDE DEF parts, k
<1>7. From(parts, k) = <<>>
  BY <1>2, <1>5, FromLeft, Zenon DEF FromParts
<1>8. <<>> \o Behind(g, f.at, f.as) = Behind(g, f.at, f.as)
  BY <1>2, ConcatNone
<1> QED  BY <1>1, <1>6, <1>7, <1>8, Zenon

-----------------------------------------------------------------------------

(* What all calls have still to write. *)

Depth(g, j) == Deepest(g) + 1 - j
CallsFit(g, s) == /\ s \in Seq(CallRecord) /\ Len(s) <= Deepest(g)
                  /\ \A j \in DOMAIN s : s[j].at \in DOMAIN g.objs

(* What the calls have to write, from the innermost one outwards.          *)
LEMMA DueTyped ==
    ASSUME NEW g, IsGraph(g), NEW s, CallsFit(g, s)
    PROVE  /\ Due(g, s) \in Seq(Tok)
           /\ [i \in DOMAIN s |-> Rest(g, s[Len(s) + 1 - i], Depth(g, Len(s) + 1 - i))] \in Seq(Seq(Tok))
<1> DEFINE n == Len(s)
           R(j) == Rest(g, s[j], Depth(g, j))
           p == [i \in DOMAIN s |-> Rest(g, s[Len(s) + 1 - i], Depth(g, Len(s) + 1 - i))]
<1>1. n \in Nat /\ DOMAIN s = 1..n /\ \A j \in 1..n : s[j] \in CallRecord /\ s[j].at \in DOMAIN g.objs
  BY DEF CallsFit
<1>2. ASSUME NEW j \in 1..n PROVE R(j) \in Seq(Tok)
  <2>1. Deepest(g) \in Nat /\ n <= Deepest(g)
    BY DEF Deepest, IsGraph, CallsFit
  <2>2. Depth(g, j) \in 1..Deepest(g)
    <3> HIDE DEF n
    <3> QED  BY <1>1, <2>1 DEF Depth
  <2> QED  BY <1>1, <2>2, RestTyped, Zenon
<1>3. p = [i \in 1..n |-> R(n + 1 - i)]
  BY <1>1, Zenon
<1>4. \A i \in 1..n : n + 1 - i \in 1..n
  BY <1>1
<1> HIDE DEF n, R, p
<1>5. \A i \in 1..n : R(n + 1 - i) \in Seq(Tok)
  BY <1>2, <1>4
<1>6. p \in Seq(Seq(Tok)) /\ Len(p) = n
  BY <1>1, <1>3, <1>5
<1>7. Due(g, s) = FlattenSeq(p)
  BY Zenon DEF Due, p, Depth
<1>8. FlattenSeq(p) \in Seq(Tok)
  BY <1>1, <1>6, FlattenLayout
<1> QED  BY <1>6, <1>7, <1>8, Zenon DEF p

(* No calls, nothing to write. *)
LEMMA DueNone == \A g : Due(g, <<>>) = <<>>
<1> TAKE g
<1> DEFINE p == [i \in DOMAIN <<>> |-> LET j == Len(<<>>) + 1 - i
                                       IN  Rest(g, <<>>[j], Deepest(g) + 1 - j)]
<1>1. p = <<>>
  OBVIOUS
<1>2. Due(g, <<>>) = FlattenSeq(p)
  BY Zenon DEF Due
<1> HIDE DEF p
<1> QED  BY <1>1, <1>2, FlattenNone

(* A new call writes its text before the others go on. *)
LEMMA DuePush ==
    ASSUME NEW g, IsGraph(g), NEW s, NEW c, CallsFit(g, s), CallsFit(g, Append(s, c)),
           c \in CallRecord
    PROVE  Due(g, Append(s, c)) = Rest(g, c, Depth(g, Len(s) + 1)) \o Due(g, s)
<1> DEFINE n == Len(s)
           t == Append(s, c)
           p == [i \in DOMAIN s |-> Rest(g, s[Len(s) + 1 - i], Depth(g, Len(s) + 1 - i))]
           q == [i \in DOMAIN t |-> Rest(g, t[Len(t) + 1 - i], Depth(g, Len(t) + 1 - i))]
           x == Rest(g, c, Depth(g, n + 1))
<1>1. /\ n \in Nat /\ DOMAIN s = 1..n /\ DOMAIN t = 1..(n + 1) /\ Len(t) = n + 1
      /\ \A j \in 1..n : t[j] = s[j]
      /\ t[n + 1] = c
  <2>1. s \in Seq(CallRecord)
    BY DEF CallsFit
  <2> QED  BY <2>1, AppendProperties
<1>2. /\ p = [i \in 1..n |-> Rest(g, s[n + 1 - i], Depth(g, n + 1 - i))]
      /\ q = [i \in 1..(n + 1) |-> Rest(g, t[(n + 1) + 1 - i], Depth(g, (n + 1) + 1 - i))]
  <2> HIDE DEF t
  <2> QED  BY <1>1, Zenon
<1>3. p \in Seq(Seq(Tok)) /\ q \in Seq(Seq(Tok))
  <2>1. p \in Seq(Seq(Tok))
    BY DueTyped
  <2> HIDE DEF t
  <2> QED  BY <2>1, DueTyped DEF t
<1>4. Due(g, s) = FlattenSeq(p) /\ Due(g, t) = FlattenSeq(q)
  BY Zenon DEF Due, Depth
<1> HIDE DEF n, t, p, q, x
<1>5. q[1] = x
  <2>1. 1 \in 1..(n + 1) /\ (n + 1) + 1 - 1 = n + 1
    BY <1>1
  <2>2. q[1] = Rest(g, t[(n + 1) + 1 - 1], Depth(g, (n + 1) + 1 - 1))
    BY <1>2, <2>1, Zenon
  <2> QED  BY <1>1, <2>1, <2>2, Zenon DEF x
<1>6. \A i \in 1..n : q[i + 1] = p[i]
  <2> TAKE i \in 1..n
  <2>1. i + 1 \in 1..(n + 1) /\ (n + 1) + 1 - (i + 1) = n + 1 - i /\ n + 1 - i \in 1..n
    BY <1>1
  <2>2. q[i + 1] = Rest(g, t[(n + 1) + 1 - (i + 1)], Depth(g, (n + 1) + 1 - (i + 1)))
    BY <1>2, <2>1, Zenon
  <2>3. p[i] = Rest(g, s[n + 1 - i], Depth(g, n + 1 - i))
    BY <1>2, Zenon
  <2> QED  BY <1>1, <2>1, <2>2, <2>3, Zenon
<1>7. Len(p) = n /\ Len(q) = n + 1 /\ DOMAIN p = 1..n /\ DOMAIN q = 1..(n + 1)
  BY <1>1, <1>2, <1>3
<1>8. x \in Seq(Tok)
  <2>1. 1 \in DOMAIN q
    BY <1>1, <1>7
  <2>2. q[1] \in Seq(Tok)
    BY <1>3, <2>1
  <2> QED  BY <1>5, <2>2
<1>9. q = <<x>> \o p
  <2> DEFINE o == <<x>>  v == o \o p
  <2>1. o \in Seq(Seq(Tok)) /\ Len(o) = 1 /\ o[1] = x
    BY <1>8
  <2> HIDE DEF o
  <2>2. /\ v \in Seq(Seq(Tok)) /\ Len(v) = 1 + n
        /\ \A i \in 1..(1 + n) : v[i] = IF i <= 1 THEN o[i] ELSE p[i - 1]
    <3>1. o \in Seq(Seq(Tok)) /\ p \in Seq(Seq(Tok))
      BY <1>3, <2>1, Zenon
    <3>2. /\ v \in Seq(Seq(Tok)) /\ Len(v) = Len(o) + Len(p)
          /\ \A i \in 1..(Len(o) + Len(p)) : v[i] = IF i <= Len(o) THEN o[i] ELSE p[i - Len(o)]
      BY <3>1, ConcatProperties
    <3> HIDE DEF v
    <3> QED  BY <1>7, <2>1, <3>2, Zenon
  <2> HIDE DEF v
  <2>3. ASSUME NEW i \in 1..(n + 1) PROVE q[i] = v[i]
    <3>1. CASE i = 1
      <4>1. 1 \in 1..(1 + n) /\ 1 <= 1
        BY <1>1
      <4>2. v[1] = o[1]
        BY <2>2, <4>1, Zenon
      <4> QED  BY <1>5, <2>1, <3>1, <4>2, Zenon
    <3>2. CASE i # 1
      <4>1. i - 1 \in 1..n /\ (i - 1) + 1 = i /\ ~(i <= 1) /\ i \in 1..(1 + n)
        BY <1>1, <3>2
      <4>2. v[i] = p[i - 1]
        BY <2>2, <4>1, Zenon
      <4>3. q[(i - 1) + 1] = p[i - 1]
        BY <1>6, <4>1, Zenon
      <4> QED  BY <4>1, <4>2, <4>3, Zenon
    <3> QED  BY <3>1, <3>2
  <2>4. q = v
    <3>1. Len(q) = Len(v) /\ \A i \in 1..Len(q) : q[i] = v[i]
      BY <1>1, <1>7, <2>2, <2>3
    <3> QED  BY <1>3, <2>2, <3>1
  <2> QED  BY <2>4 DEF v, o
<1>10. FlattenSeq(<<x>> \o p) = FlattenSeq(<<x>>) \o FlattenSeq(p)
  <2>1. <<x>> \in Seq(Seq(Tok))
    BY <1>8
  <2> QED  BY <1>3, <2>1, FlattenConcat
<1>11. FlattenSeq(<<x>>) = x
  BY <1>8, FlattenOne
<1> QED  BY <1>4, <1>9, <1>10, <1>11, Zenon DEF t, x, n

-----------------------------------------------------------------------------

(* A stack of calls is no deeper than the texts. *)
LEMMA StackFits ==
    ASSUME TypeOK, Ranked(graph), NEW s, GoodStack(s)
    PROVE  CallsFit(graph, s)
<1> DEFINE n == Len(s)  h == graph.height
<1>1. s \in Seq(CallRecord) /\ n \in Nat /\ h \in Nat
  BY DEF GoodStack, TypeOK, IsGraph
<1>2. \A j \in DOMAIN s : CallOK(s[j], j)
  BY DEF GoodStack
<1>3. \A j \in DOMAIN s : s[j].at \in DOMAIN graph.objs
  BY <1>2 DEF CallOK, Readable
<1>4. n <= Deepest(graph)
  <2>1. CASE n > 1
    <3>1. n \in DOMAIN s
      BY <1>1, <2>1
    <3>2. graph.rank[s[n].at] + n <= h + 2
      BY <1>2, <2>1, <3>1, Zenon DEF CallOK
    <3>3. graph.rank[s[n].at] \in Nat
      BY <1>3, <3>1, ObjectsTyped DEF Readable
    <3> HIDE DEF n, h
    <3> QED  BY <1>1, <3>2, <3>3, SMTT(30) DEF Deepest, h
  <2>2. CASE ~(n > 1)
    <3> HIDE DEF n
    <3> QED  BY <1>1, <2>2 DEF Deepest
  <2> QED  BY <2>1, <2>2
<1> QED  BY <1>1, <1>3, <1>4 DEF CallsFit

(* The innermost call and what is below it. *)
TopParts(n) ==
    /\ n \in 1..Deepest(graph)
    /\ Top \in CallRecord /\ Top.at \in DOMAIN graph.objs
    /\ Due(graph, Below) \in Seq(Tok)
    /\ Rest(graph, Top, n) \in Seq(Tok) /\ Rest(graph, Following(Top), n) \in Seq(Tok)
    /\ Due(graph, stack) = Rest(graph, Top, n) \o Due(graph, Below)
    /\ Due(graph, Advanced) = Rest(graph, Following(Top), n) \o Due(graph, Below)

(* The call on top of the stack, and the one after its next part. *)
LEMMA TopDue ==
    ASSUME TypeOK, Ranked(graph), GoodStack(stack), stack # <<>>
    PROVE  TopParts(Depth(graph, Len(stack)))
<1> DEFINE n == Len(stack)
<1>1. /\ n \in Nat /\ n >= 1 /\ GoodStack(Below) /\ Len(Below) = n - 1
      /\ Top \in CallRecord /\ CallOK(Top, n)
  BY BelowGood
<1>2. GoodStack(Advanced) /\ Advanced = Append(Below, Following(Top))
  BY AdvancedGood DEF Advanced, Following
<1>3. stack = Append(Below, Top)
  <2>1. stack \in Seq(CallRecord) /\ Below \in Seq(CallRecord)
    BY <1>1 DEF GoodStack
  <2> DEFINE t == Append(Below, Top)
  <2>2. /\ t \in Seq(CallRecord) /\ Len(t) = Len(Below) + 1
        /\ \A i \in 1..Len(Below) : t[i] = Below[i]
        /\ t[Len(Below) + 1] = Top
    BY <1>1, <2>1, AppendProperties
  <2>3. \A i \in 1..(n - 1) : Below[i] = stack[i]
    BY <1>1, <2>1 DEF Below
  <2>4. stack[n] = Top
    BY DEF Top
  <2> HIDE DEF t, n
  <2>5. Len(t) = n
    BY <1>1, <2>2
  <2>6. \A i \in 1..n : t[i] = stack[i]
    <3> TAKE i \in 1..n
    <3>1. CASE i = n
      BY <1>1, <2>2, <2>4, <3>1
    <3>2. CASE i # n
      BY <1>1, <2>2, <2>3, <3>2
    <3> QED  BY <3>1, <3>2
  <2>7. t = stack
    BY <2>1, <2>2, <2>5, <2>6 DEF n
  <2> QED  BY <2>7 DEF t
<1>4. CallsFit(graph, Below) /\ CallsFit(graph, stack) /\ CallsFit(graph, Advanced)
  BY <1>1, <1>2, StackFits
<1>5. IsGraph(graph) /\ Top.at \in DOMAIN graph.objs
  BY <1>1 DEF TypeOK, CallOK, Readable
<1>6. /\ Following(Top) \in CallRecord /\ Following(Top).at = Top.at
  BY <1>1, FollowingIs
<1>7. n = Len(Below) + 1
  <2> HIDE DEF n
  <2> QED  BY <1>1
<1>8. Depth(graph, n) \in 1..Deepest(graph)
  <2>1. n <= Deepest(graph) /\ Deepest(graph) \in Nat
    BY <1>4, <1>5 DEF CallsFit, Deepest, IsGraph
  <2> HIDE DEF n
  <2> QED  BY <1>1, <2>1 DEF Depth
<1>9. Due(graph, Below) \in Seq(Tok)
  BY <1>4, <1>5, DueTyped
<1>10. /\ Rest(graph, Top, Depth(graph, n)) \in Seq(Tok)
       /\ Rest(graph, Following(Top), Depth(graph, n)) \in Seq(Tok)
  <2> HIDE DEF n
  <2> QED  BY <1>1, <1>5, <1>6, <1>8, RestTyped, Zenon
<1>11. Due(graph, stack) = Rest(graph, Top, Depth(graph, n)) \o Due(graph, Below)
  <2>1. CallsFit(graph, Append(Below, Top))
    BY <1>3, <1>4
  <2>2. Due(graph, Append(Below, Top))
           = Rest(graph, Top, Depth(graph, Len(Below) + 1)) \o Due(graph, Below)
    BY <1>1, <1>4, <1>5, <2>1, DuePush, Zenon
  <2> HIDE DEF n
  <2> QED  BY <1>3, <1>7, <2>2, Zenon
<1>12. Due(graph, Advanced) = Rest(graph, Following(Top), Depth(graph, n)) \o Due(graph, Below)
  <2>1. CallsFit(graph, Append(Below, Following(Top)))
    BY <1>2, <1>4
  <2>2. Due(graph, Append(Below, Following(Top)))
           = Rest(graph, Following(Top), Depth(graph, Len(Below) + 1)) \o Due(graph, Below)
    BY <1>4, <1>5, <1>6, <2>1, DuePush, Zenon
  <2> HIDE DEF n
  <2> QED  BY <1>2, <1>7, <2>2, Zenon
<1> QED  BY <1>1, <1>5, <1>8, <1>9, <1>10, <1>11, <1>12, Zenon DEF TopParts

-----------------------------------------------------------------------------

(* The texts of the details. *)

Rooted(g) == IsGraph(g) /\ g.root \in DOMAIN g.objs

(* A text for each of n places is a list of texts. *)
LEMMA ListTyped ==
    ASSUME NEW n \in Nat, NEW f, f = [k \in 1..n |-> f[k]], \A k \in 1..n : f[k] \in Seq(Tok)
    PROVE  f \in Seq(Seq(Tok)) /\ Len(f) = n /\ DOMAIN f = 1..n /\ FlattenSeq(f) \in Seq(Tok)
<1> DEFINE V == Seq(Tok)
<1>1. f \in [1..n -> V]
  BY Zenon
<1>2. f \in Seq(V) /\ Len(f) = n
  <2> HIDE DEF V
  <2> QED  BY <1>1
<1>3. FlattenSeq(f) \in Seq(Tok)
  BY <1>2, FlattenLayout
<1> QED  BY <1>1, <1>2, <1>3

(* The classes of the root and what they declare. *)
LEMMA MroOfTyped ==
    ASSUME NEW g, Rooted(g)
    PROVE  /\ Len(MroOf(g)) \in Nat /\ DOMAIN MroOf(g) = 1..Len(MroOf(g))
           /\ \A k \in DOMAIN MroOf(g) : MroOf(g)[k] \in DOMAIN TypeTable
           /\ \A t \in DOMAIN TypeTable : /\ Len(TypeTable[t].defs) \in Nat
                                         /\ DOMAIN TypeTable[t].defs = 1..Len(TypeTable[t].defs)
<1>1. g.objs[g.root].type \in DOMAIN TypeTable
  BY GraphTyped DEF Rooted
<1>2. MroOf(g) \in Seq(STRING) /\ \A k \in DOMAIN MroOf(g) : MroOf(g)[k] \in DOMAIN TypeTable
  BY <1>1, TypesAssumption DEF MroOf, TypeRecord
<1>3. \A t \in DOMAIN TypeTable : TypeTable[t].defs \in Seq(MemberDef)
  BY TypesAssumption DEF TypeRecord
<1> QED  BY <1>2, <1>3

(* The members a class declares are texts. *)
LEMMA MemberTextsTyped ==
    ASSUME NEW g, Rooted(g), NEW t \in DOMAIN TypeTable
    PROVE  /\ MemberTexts(g, t) \in Seq(Seq(Tok))
           /\ Len(MemberTexts(g, t)) = Len(TypeTable[t].defs)
           /\ FlattenSeq(MemberTexts(g, t)) \in Seq(Tok)
<1> DEFINE defs == TypeTable[t].defs
           n == Len(defs)
           x(k) == IF defs[k].type = T_OBJECT_EX
                   THEN Whole(g, g.objs[g.root].words[defs[k].offset]) ELSE <<>>
           f == [k \in 1..n |-> x(k)]
<1>1. n \in Nat /\ DOMAIN defs = 1..n
  BY MroOfTyped
<1>2. MemberTexts(g, t) = f
  BY <1>1, Zenon DEF MemberTexts
<1>3. \A k \in 1..n : x(k) \in Seq(Tok)
  <2>1. <<>> \in Seq(Tok) /\ "value" \in Kinds
    BY DEF Kinds, Leaves
  <2>2. \A a : Whole(g, a) \in Seq(Tok)
    BY <2>1, TextTyped, Zenon DEF Rooted
  <2> QED  BY <2>1, <2>2, Zenon
<1> HIDE DEF x
<1>4. f = [k \in 1..n |-> f[k]] /\ \A k \in 1..n : f[k] \in Seq(Tok)
  BY <1>3, Zenon
<1> HIDE DEF f, n
<1>5. f \in Seq(Seq(Tok)) /\ Len(f) = n /\ FlattenSeq(f) \in Seq(Tok)
  BY <1>1, <1>4, ListTyped, Zenon
<1> QED  BY <1>2, <1>5, Zenon DEF n

(* The lists of texts that details() goes through. *)
LEMMA ListsTyped ==
    ASSUME NEW g, Rooted(g)
    PROVE  /\ BaseTexts(g) \in Seq(Seq(Tok)) /\ Len(BaseTexts(g)) = Len(MroOf(g))
           /\ FlattenSeq(BaseTexts(g)) \in Seq(Tok)
           /\ SlotTexts(g) \in Seq(Seq(Tok)) /\ Len(SlotTexts(g)) = Len(MroOf(g))
           /\ FlattenSeq(SlotTexts(g)) \in Seq(Tok)
           /\ LocalTexts(g) \in Seq(Seq(Tok))
           /\ Len(LocalTexts(g)) = Len(g.objs[g.root].locals)
           /\ FlattenSeq(LocalTexts(g)) \in Seq(Tok)
           /\ DictText(g) \in Seq(Tok)
<1> DEFINE mro == MroOf(g)
           n == Len(mro)
<1>0. <<>> \in Seq(Tok) /\ "value" \in Kinds /\ "dict" \in Kinds
  BY DEF Kinds, Leaves, Tables
<1>1. n \in Nat /\ DOMAIN mro = 1..n /\ \A k \in 1..n : mro[k] \in DOMAIN TypeTable
  BY MroOfTyped
<1>2. /\ BaseTexts(g) \in Seq(Seq(Tok)) /\ Len(BaseTexts(g)) = n
      /\ FlattenSeq(BaseTexts(g)) \in Seq(Tok)
  <2> DEFINE x(k) == IF mro[k] \in builtinTypes THEN TextOf(g, g.root, MadeAs(mro[k])) ELSE <<>>
             f == [k \in 1..n |-> x(k)]
  <2>1. BaseTexts(g) = f
    BY <1>1, Zenon DEF BaseTexts
  <2>2. \A k \in 1..n : x(k) \in Seq(Tok)
    <3>1. \A k : TextOf(g, g.root, MadeAs(mro[k])) \in Seq(Tok)
      BY KindsMade, TextTyped, Zenon DEF Rooted
    <3> QED  BY <1>0, <3>1, Zenon
  <2> HIDE DEF x
  <2>3. f = [k \in 1..n |-> f[k]] /\ \A k \in 1..n : f[k] \in Seq(Tok)
    BY <2>2, Zenon
  <2> HIDE DEF f, n
  <2>4. f \in Seq(Seq(Tok)) /\ Len(f) = n /\ FlattenSeq(f) \in Seq(Tok)
    BY <1>1, <2>3, ListTyped, Zenon
  <2> QED  BY <2>1, <2>4, Zenon
<1>3. /\ SlotTexts(g) \in Seq(Seq(Tok)) /\ Len(SlotTexts(g)) = n
      /\ FlattenSeq(SlotTexts(g)) \in Seq(Tok)
  <2> DEFINE x(k) == FlattenSeq(MemberTexts(g, mro[k]))
             f == [k \in 1..n |-> x(k)]
  <2>1. SlotTexts(g) = f
    BY <1>1, Zenon DEF SlotTexts
  <2>2. \A k \in 1..n : x(k) \in Seq(Tok)
    BY <1>1, MemberTextsTyped, Zenon
  <2> HIDE DEF x
  <2>3. f = [k \in 1..n |-> f[k]] /\ \A k \in 1..n : f[k] \in Seq(Tok)
    BY <2>2, Zenon
  <2> HIDE DEF f, n
  <2>4. f \in Seq(Seq(Tok)) /\ Len(f) = n /\ FlattenSeq(f) \in Seq(Tok)
    BY <1>1, <2>3, ListTyped, Zenon
  <2> QED  BY <2>1, <2>4, Zenon
<1>4. /\ LocalTexts(g) \in Seq(Seq(Tok)) /\ Len(LocalTexts(g)) = Len(g.objs[g.root].locals)
      /\ FlattenSeq(LocalTexts(g)) \in Seq(Tok)
  <2> DEFINE locals == g.objs[g.root].locals
             m == Len(locals)
             x(k) == Whole(g, locals[k])
             f == [k \in 1..m |-> x(k)]
  <2>0. m \in Nat /\ DOMAIN locals = 1..m
    <3>1. locals \in Seq(Addresses \cup {Null})
      BY GraphTyped DEF Rooted
    <3> QED  BY <3>1
  <2>1. LocalTexts(g) = f
    BY <2>0, Zenon DEF LocalTexts
  <2>2. \A k \in 1..m : x(k) \in Seq(Tok)
    BY <1>0, TextTyped, Zenon DEF Rooted
  <2> HIDE DEF x
  <2>3. f = [k \in 1..m |-> f[k]] /\ \A k \in 1..m : f[k] \in Seq(Tok)
    BY <2>2, Zenon
  <2> HIDE DEF f, m
  <2>4. f \in Seq(Seq(Tok)) /\ Len(f) = m /\ FlattenSeq(f) \in Seq(Tok)
    BY <2>0, <2>3, ListTyped, Zenon
  <2> QED  BY <2>1, <2>4, Zenon DEF m
<1>5. DictText(g) \in Seq(Tok)
  <2>1. TextOf(g, DictOf(g, g.root), "dict") \in Seq(Tok)
    BY <1>0, TextTyped, Zenon DEF Rooted
  <2> QED  BY <1>0, <2>1, Zenon DEF DictText
<1> QED  BY <1>2, <1>3, <1>4, <1>5

(* The extents have an entry for each dimension. *)
LEMMA ExtentsAre ==
    ASSUME NEW g, Rooted(g), Consistent(g)
    PROVE  /\ Extents(g.objs[g.root].extents) = ExtentsText(g)
           /\ ExtentsText(g) \in Seq(Tok)
<1> DEFINE e == g.objs[g.root].extents
           tokens(a) == [k \in DOMAIN a |-> Token("extent", a[k])]
<1>1. e.ndim \in Int /\ e.shape \in Seq(Nat) /\ e.strides \in Seq(Nat)
  BY GraphTyped DEF Rooted, ObjectRecord
<1>2. /\ e.shape = <<>> \/ Len(e.shape) = e.ndim
      /\ e.strides = <<>> \/ Len(e.strides) = e.ndim
  BY DEF Consistent
<1> HIDE DEF e
<1>3. ASSUME NEW a \in Seq(Nat), a = <<>> \/ Len(a) = e.ndim
      PROVE  Extent(e.ndim, a) = tokens(a) /\ tokens(a) \in Seq(Tok) /\ Len(tokens(a)) = Len(a)
  <2>1. Len(a) \in Nat /\ DOMAIN a = 1..Len(a) /\ \A k \in 1..Len(a) : a[k] \in Int
    OBVIOUS
  <2>2. tokens(a) = [k \in 1..Len(a) |-> Token("extent", a[k])]
    BY <2>1, Zenon
  <2>3. \A k \in 1..Len(a) : Token("extent", a[k]) \in Tok
    BY <2>1, WrittenIs, TokenTyped, Zenon
  <2>4. tokens(a) \in Seq(Tok) /\ Len(tokens(a)) = Len(a)
    <3> DEFINE f == tokens(a)  n == Len(a)
    <3>1. f = [k \in 1..n |-> f[k]] /\ \A k \in 1..n : f[k] \in Tok /\ n \in Nat
      BY <2>1, <2>2, <2>3, Zenon
    <3> HIDE DEF f, n
    <3> QED  BY <2>1, <3>1 DEF f, n
  <2>5. CASE a = <<>>
    <3>1. tokens(a) = <<>>
      BY <2>5
    <3> QED  BY <2>4, <2>5, <3>1, Zenon DEF Extent
  <2>6. CASE a # <<>>
    <3>1. Len(a) = e.ndim /\ Len(a) > 0
      BY <1>3, <2>6
    <3>2. ~(e.ndim <= 0 \/ a = <<>>)
      BY <1>1, <2>6, <3>1
    <3>3. Extent(e.ndim, a) = [k \in 1..e.ndim |-> Token("extent", a[k])]
      BY <3>2, Zenon DEF Extent
    <3> QED  BY <2>2, <2>4, <3>1, <3>3, Zenon
  <2> QED  BY <2>5, <2>6
<1>4. tokens(e.shape \o e.strides) = tokens(e.shape) \o tokens(e.strides)
  <2> DEFINE a == e.shape  b == e.strides  c == a \o b  n == Len(a)  m == Len(b)
  <2>1. a \in Seq(Nat) /\ b \in Seq(Nat) /\ n \in Nat /\ m \in Nat /\ DOMAIN a = 1..n /\ DOMAIN b = 1..m
    BY <1>1
  <2> HIDE DEF a, b
  <2>2. /\ c \in Seq(Nat) /\ Len(c) = n + m
        /\ \A i \in 1..(n + m) : c[i] = IF i <= n THEN a[i] ELSE b[i - n]
    BY <2>1, ConcatProperties
  <2>3. DOMAIN c = 1..(n + m)
    BY <2>2
  <2> DEFINE p == tokens(a)  q == tokens(b)  r == tokens(c)  v == p \o q
  <2>4. p \in Seq(Tok) /\ q \in Seq(Tok) /\ Len(p) = n /\ Len(q) = m
    BY <1>1, <1>2, <1>3 DEF a, b
  <2> HIDE DEF c, n, m
  <2>5. /\ \A i \in 1..n : p[i] = Token("extent", a[i])
        /\ \A i \in 1..m : q[i] = Token("extent", b[i])
        /\ r = [i \in 1..(n + m) |-> Token("extent", c[i])]
    BY <2>1, <2>3, Zenon
  <2> HIDE DEF p, q, r
  <2>6. /\ v \in Seq(Tok) /\ Len(v) = n + m
        /\ \A i \in 1..(n + m) : v[i] = IF i <= n THEN p[i] ELSE q[i - n]
    BY <2>4, ConcatProperties
  <2> HIDE DEF v
  <2>7. ASSUME NEW i \in 1..(n + m) PROVE Token("extent", c[i]) = v[i]
    <3>1. CASE i <= n
      <4>1. i \in 1..n
        BY <2>1, <3>1
      <4> QED  BY <2>2, <2>5, <2>6, <3>1, <4>1, Zenon
    <3>2. CASE ~(i <= n)
      <4>1. i - n \in 1..m
        BY <2>1, <3>2
      <4> QED  BY <2>2, <2>5, <2>6, <3>2, <4>1, Zenon
    <3> QED  BY <3>1, <3>2
  <2>8. v = [i \in 1..(n + m) |-> v[i]]
    BY <2>1, <2>6
  <2>9. r = v
    BY <2>5, <2>7, <2>8
  <2> QED  BY <2>9 DEF r, v, p, q, c, a, b
<1>5. ExtentsText(g) = tokens(e.shape \o e.strides)
  BY Zenon DEF ExtentsText, e
<1> DEFINE p == tokens(e.shape)  q == tokens(e.strides)
<1>6. /\ Extent(e.ndim, e.shape) = p /\ Extent(e.ndim, e.strides) = q
      /\ p \in Seq(Tok) /\ q \in Seq(Tok)
  BY <1>1, <1>2, <1>3, Zenon
<1>7. ExtentsText(g) = p \o q
  BY <1>4, <1>5, Zenon
<1> HIDE DEF p, q
<1>8. p \o q \in Seq(Tok)
  BY <1>6, ConcatTyped
<1> QED  BY <1>6, <1>7, <1>8, Zenon DEF Extents, e

(* What the details still have to show is a text.                          *)
SlotsParts(c) ==
    /\ SlotsAhead(graph, c) \in Seq(Tok)
    /\ c.type \notin DOMAIN MroOf(graph) => SlotsAhead(graph, c) = <<>>
(* Of the members of the classes, *)
LEMMA SlotsTyped ==
    ASSUME Rooted(graph), NEW c \in Cursors, c.type >= 1, c.member >= 1
    PROVE  SlotsParts(c)
<1>1. c.type \in Nat /\ c.member \in Nat /\ c.type + 1 \in Nat /\ c.type + 1 >= 1
  BY DEF Cursors
<1>2. CASE c.type \notin DOMAIN MroOf(graph)
  <2>1. <<>> \in Seq(Tok)
    OBVIOUS
  <2>2. SlotsAhead(graph, c) = <<>>
    BY <1>2, Zenon DEF SlotsAhead
  <2> QED  BY <2>1, <2>2 DEF SlotsParts
<1>3. CASE c.type \in DOMAIN MroOf(graph)
  <2> DEFINE t == MroOf(graph)[c.type]
             p == From(MemberTexts(graph, t), c.member)
             q == From(SlotTexts(graph), c.type + 1)
  <2>1. t \in DOMAIN TypeTable
    BY <1>3, MroOfTyped
  <2>2. MemberTexts(graph, t) \in Seq(Seq(Tok)) /\ SlotTexts(graph) \in Seq(Seq(Tok))
    BY <2>1, MemberTextsTyped, ListsTyped
  <2>3. SlotsAhead(graph, c) = p \o q
    BY <1>3, Zenon DEF SlotsAhead
  <2>4. p \in Seq(Tok) /\ q \in Seq(Tok)
    BY <1>1, <2>2, FromLeft, Zenon DEF FromParts
  <2> HIDE DEF p, q, t
  <2>5. p \o q \in Seq(Tok)
    BY <2>4, ConcatTyped
  <2> QED  BY <1>3, <2>3, <2>5 DEF SlotsParts
<1> QED  BY <1>2, <1>3

LeftParts ==
    /\ Ahead \in Seq(Tok) /\ Closing \in Seq(Tok) /\ Found(graph, jobs) \in Seq(Tok)
    /\ Due(graph, stack) \in Seq(Tok) /\ Left \in Seq(Tok)
    /\ BaseTexts(graph) \in Seq(Seq(Tok)) /\ LocalTexts(graph) \in Seq(Seq(Tok))

(* and of all parts. *)
LEMMA LeftTyped ==
    ASSUME TypeOK, CallsFit(graph, stack), Rooted(graph), Consistent(graph), PhasesInv
    PROVE  LeftParts
<1>1. cursor \in Cursors /\ cursor.type >= 1 /\ cursor.member >= 1
  BY DEF TypeOK, Cursors, PhasesInv
<1>2. Start \in Cursors /\ Start.type >= 1 /\ Start.member >= 1
  BY DEF Start, Cursors
<1>3. SlotsAhead(graph, cursor) \in Seq(Tok) /\ SlotsAhead(graph, Start) \in Seq(Tok)
  BY <1>1, <1>2, SlotsTyped DEF SlotsParts
<1>4. cursor.type \in Nat /\ cursor.member \in Nat
  BY <1>1 DEF Cursors
<1>5. /\ BaseTexts(graph) \in Seq(Seq(Tok)) /\ LocalTexts(graph) \in Seq(Seq(Tok))
      /\ DictText(graph) \in Seq(Tok)
  BY ListsTyped
<1>6. From(BaseTexts(graph), cursor.type) \in Seq(Tok) /\ From(LocalTexts(graph), cursor.member) \in Seq(Tok)
  BY <1>1, <1>4, <1>5, FromLeft, Zenon DEF FromParts
<1>7. <<>> \in Seq(Tok)
  OBVIOUS
<1>8. Ahead \in Seq(Tok)
  <2> DEFINE p == From(BaseTexts(graph), cursor.type)  q == SlotsAhead(graph, Start)
  <2>1. p \in Seq(Tok) /\ q \in Seq(Tok)
    BY <1>3, <1>6
  <2> HIDE DEF p, q
  <2>2. p \o q \in Seq(Tok)
    BY <2>1, ConcatTyped
  <2>3. Ahead = (CASE pc = "bases" -> p \o q
                   [] pc = "slots" -> SlotsAhead(graph, cursor)
                   [] pc = "locals" -> From(LocalTexts(graph), cursor.member)
                   [] OTHER -> <<>>)
    BY Zenon DEF Ahead, p, q
  <2> QED  BY <1>3, <1>6, <1>7, <2>2, <2>3, Zenon
<1>9. Closing \in Seq(Tok)
  <2> DEFINE p == IF pc = "dict" THEN <<>> ELSE DictText(graph)  q == ExtentsText(graph)
  <2>1. p \in Seq(Tok) /\ q \in Seq(Tok)
    BY <1>5, <1>7, ExtentsAre, Zenon
  <2>2. Closing = p \o q
    BY Zenon DEF Closing
  <2> HIDE DEF p, q
  <2> QED  BY <2>1, <2>2, ConcatTyped
<1>10. Found(graph, jobs) \in Seq(Tok)
  BY FoundJoin, Zenon DEF TypeOK
<1>11. Due(graph, stack) \in Seq(Tok)
  BY DueTyped DEF TypeOK
<1>12. Left \in Seq(Tok)
  <2> DEFINE a == Due(graph, stack)  b == Found(graph, jobs)  c == Ahead  d == Closing
  <2>1. a \in Seq(Tok) /\ b \in Seq(Tok) /\ c \in Seq(Tok) /\ d \in Seq(Tok)
    BY <1>8, <1>9, <1>10, <1>11
  <2>2. Left = a \o (b \o (c \o d))
    BY Zenon DEF Left
  <2> HIDE DEF a, b, c, d
  <2>3. c \o d \in Seq(Tok)
    BY <2>1, ConcatTyped
  <2>4. b \o (c \o d) \in Seq(Tok)
    BY <2>1, <2>3, ConcatTyped
  <2>5. a \o (b \o (c \o d)) \in Seq(Tok)
    BY <2>1, <2>4, ConcatTyped
  <2> QED  BY <2>2, <2>5
<1> QED  BY <1>5, <1>8, <1>9, <1>10, <1>11, <1>12 DEF LeftParts

-----------------------------------------------------------------------------

(* What a step of repr() writes is the front of what was due. *)

(* A step of a running repr() keeps the phases.                            *)
LEMMA RunningPhases ==
    ASSUME PhasesInv, pc \in Calling, pc' \in {pc, "overflow"},
           UNCHANGED <<graph, cursor, jobs, printed>>, text' \in Seq(Tok)
    PROVE  PhasesInv'
BY DEF PhasesInv, Calling, HasLocals, Root

(* What it writes was at the front of what the calls had to write.         *)
LEMMA Writes ==
    ASSUME TypeOK, GoodStack(stack), GoodStack(stack'), PhasesInv, TextInv, pc \in Calling,
           UNCHANGED <<graph, pc, cursor, jobs, printed>>,
           NEW w \in Seq(Tok), text' = text \o w,
           Ordinary(graph) => Due(graph, stack) = w \o Due(graph, stack')
    PROVE  PhasesInv' /\ TextInv'
<1>1. text \in Seq(Tok)
  BY DEF PhasesInv
<1>2. text' \in Seq(Tok)
  BY <1>1, ConcatTyped
<1>3. PhasesInv'
  BY <1>2, RunningPhases
<1>4. CASE ~Ordinary(graph)
  BY <1>3, <1>4 DEF TextInv
<1>5. CASE Ordinary(graph)
  <2>1. IsGraph(graph) /\ Ranked(graph) /\ Consistent(graph) /\ Rooted(graph)
    BY <1>5 DEF Ordinary, TypeOK, Rooted
  <2>2. CallsFit(graph, stack) /\ CallsFit(graph, stack')
    BY <2>1, StackFits
  <2> DEFINE rem == Found(graph, jobs) \o (Ahead \o Closing)
             due == Due(graph, stack)
             later == Due(graph, stack')
             said == text
  <2>3. due \in Seq(Tok) /\ later \in Seq(Tok) /\ due = w \o later
    BY <1>5, <2>1, <2>2, DueTyped
  <2>4. rem \in Seq(Tok)
    <3> DEFINE b == Found(graph, jobs)  c == Ahead  d == Closing
    <3>1. b \in Seq(Tok) /\ c \in Seq(Tok) /\ d \in Seq(Tok)
      BY <2>1, <2>2, LeftTyped DEF LeftParts
    <3> HIDE DEF b, c, d
    <3>2. c \o d \in Seq(Tok)
      BY <3>1, ConcatTyped
    <3>3. b \o (c \o d) \in Seq(Tok)
      BY <3>1, <3>2, ConcatTyped
    <3> QED  BY <3>3 DEF b, c, d
  <2>5. Left = due \o rem /\ Left' = later \o rem
    <3>1. Left = due \o rem
      BY Zenon DEF Left
    <3>2. Found(graph, jobs)' = Found(graph, jobs) /\ Due(graph, stack)' = later
      OBVIOUS
    <3>3. Ahead' = Ahead /\ Closing' = Closing
      BY DEF Ahead, Closing
    <3>4. Left' = Due(graph, stack)' \o (Found(graph, jobs)' \o (Ahead' \o Closing'))
      BY DEF Left
    <3> QED  BY <3>1, <3>2, <3>3, <3>4, Zenon
  <2> HIDE DEF rem, due, later, said
  <2>6. said \in Seq(Tok) /\ text' = said \o w
    BY <1>1 DEF said
  <2>7. text' \o later = said \o due
    <3>1. (said \o w) \o later = said \o (w \o later)
      <4>1. Joined(said, w, later)
        BY <2>3, <2>6, TextAssoc, Zenon
      <4> QED  BY <2>3, <2>6, <4>1 DEF Joined
    <3> QED  BY <2>3, <2>6, <3>1, Zenon
  <2>8. text' \o Left' = said \o Left
    <3>0. due \in Seq(Tok) /\ later \in Seq(Tok) /\ said \in Seq(Tok)
      BY <2>3, <2>6
    <3>1. (said \o due) \o rem = said \o (due \o rem)
      <4>1. Joined(said, due, rem)
        BY <2>4, <3>0, TextAssoc, Zenon
      <4> QED  BY <2>4, <3>0, <4>1 DEF Joined
    <3>2. text' \o (later \o rem) = (text' \o later) \o rem
      <4> DEFINE now == text'
      <4>1. now \in Seq(Tok)
        BY <1>2
      <4> HIDE DEF now
      <4>2. (now \o later) \o rem = now \o (later \o rem)
        <5>1. Joined(now, later, rem)
          BY <2>4, <3>0, <4>1, TextAssoc, Zenon
        <5> QED  BY <2>4, <3>0, <4>1, <5>1 DEF Joined
      <4> QED  BY <4>2 DEF now
    <3> QED  BY <2>5, <2>7, <3>1, <3>2, Zenon
  <2>9. /\ pc = "repr" => /\ printed = <<Header(graph)>>
                          /\ said \o due = Whole(graph, graph.root)
        /\ pc \in Detailing =>
              /\ FlattenSeq(printed \o Heading(graph)) \o Details(graph) = Expected(graph)
              /\ said \o Left = Details(graph)
    BY <1>5 DEF TextInv, said, due
  <2>10. Due(graph, stack)' = later
    BY DEF later
  <2>11. pc # "done"
    BY DEF Calling
  <2> QED  BY <1>3, <2>7, <2>8, <2>9, <2>10, <2>11 DEF TextInv
<1> QED  BY <1>4, <1>5

Holding == InductiveInv /\ PhasesInv /\ TextInv

(* What holds before a step, for the steps to use. *)
LEMMA HoldingIs ==
    ASSUME Holding
    PROVE  /\ TypeOK /\ PhasesInv /\ TextInv /\ IsGraph(graph)
           /\ GoodStack(stack) /\ GoodJobs(jobs) /\ text \in Seq(Tok) /\ RootKnown
           /\ cursor \in Cursors /\ (pc # "done" => printed \in Seq(Seq(Tok)))
BY OldState DEF Holding, PhasesInv, TypeOK

(* The object at the top of the stack. *)
LEMMA TopIs ==
    ASSUME Holding, Running
    PROVE  /\ Top \in CallRecord /\ Top.at \in DOMAIN graph.objs /\ Top.at \in Addresses
           /\ Top.as \in Kinds /\ Top.as \in ShownAs(Top.at)
           /\ pc \in Calling /\ stack # <<>>
           /\ ItemsOf(Top) = graph.objs[Top.at].items
           /\ ItemsOf(Top) \in Seq(Addresses \cup {Null})
           /\ GoodStack(Below) /\ GoodStack(Advanced) /\ Len(Advanced) = Len(stack)
           /\ Len(stack) \in Nat
<1>1. stack # <<>> /\ pc \in Calling
  BY DEF Running
<1>2. GoodStack(stack) /\ TypeOK /\ IsGraph(graph)
  BY HoldingIs
<1>3. Top \in CallRecord /\ CallOK(Top, Len(stack)) /\ GoodStack(Below) /\ Len(stack) \in Nat
  BY <1>1, <1>2, BelowGood
<1>4. Top.at \in DOMAIN graph.objs /\ Top.as \in ShownAs(Top.at)
  BY <1>3 DEF CallOK, Readable
<1>5. GoodStack(Advanced) /\ Len(Advanced) = Len(stack)
  BY <1>1, <1>2, AdvancedGood
<1>6. ItemsOf(Top) = graph.objs[Top.at].items
  BY DEF ItemsOf
<1>7. Top.at \in Addresses /\ graph.objs[Top.at].items \in Seq(Addresses \cup {Null})
  BY <1>2, <1>4, GraphTyped
<1>8. Top.as \in Kinds
  BY <1>3 DEF CallRecord
<1> QED  BY <1>1, <1>3, <1>4, <1>5, <1>6, <1>7, <1>8

(* What an ordinary graph says of the object on top. *)
LEMMA TopOrdinary ==
    ASSUME Holding, Running, Ordinary(graph)
    PROVE  TopParts(Depth(graph, Len(stack)))
<1>1. TypeOK /\ GoodStack(stack)
  BY HoldingIs
<1>2. Ranked(graph) /\ stack # <<>>
  BY DEF Ordinary, Running
<1> QED  BY <1>1, <1>2, TopDue

(* The types in the text of super. *)
LEMMA NamesWritten ==
    ASSUME Holding, Running, \A k \in DOMAIN ItemsOf(Top) : Optional(ItemsOf(Top)[k])
    PROVE  LET names == [k \in DOMAIN ItemsOf(Top) |-> TypeField(ItemsOf(Top)[k], Top)]
           IN  /\ names \in Seq(Tok)
               /\ Ordinary(graph) /\ Top.as = "super" => names = TypeNames(graph, Top.at)
<1> DEFINE items == ItemsOf(Top)
           n == Len(items)
           names == [k \in DOMAIN items |-> TypeField(items[k], Top)]
<1>1. /\ items \in Seq(Addresses \cup {Null}) /\ items = graph.objs[Top.at].items
      /\ Top.at \in Addresses /\ Top.at \in DOMAIN graph.objs
  BY TopIs
<1>2. n \in Nat /\ DOMAIN items = 1..n
  BY <1>1
<1>3. \A k \in 1..n : items[k] \in Addresses \/ items[k] = Null
  BY <1>1
<1>4. \A k \in 1..n : items[k] # Null => items[k] \in DOMAIN graph.objs
  BY <1>2 DEF Optional, Readable
<1> HIDE DEF items
<1>5. ASSUME NEW k \in 1..n PROVE TypeField(items[k], Top) \in Tok
  <2>1. Token("none", Top.at) \in Tok
    BY <1>1, WrittenIs, TokenTyped, Zenon
  <2>2. items[k] # Null => Token("type", items[k]) \in Tok
    BY <1>3, WrittenIs, TokenTyped, Zenon
  <2> QED  BY <2>1, <2>2, Zenon DEF TypeField
<1>6. names \in Seq(Tok)
  <2>1. names = [k \in 1..n |-> TypeField(items[k], Top)]
    BY <1>2, Zenon
  <2>2. names = [k \in 1..n |-> names[k]] /\ \A k \in 1..n : names[k] \in Tok
    BY <1>5, <2>1, Zenon
  <2> HIDE DEF names, n
  <2> QED  BY <1>2, <2>2
<1>7. ASSUME Ordinary(graph), Top.as = "super" PROVE names = TypeNames(graph, Top.at)
  <2>1. IsSuper(graph.objs[Top.at])
    <3>1. "super" \in ShownAs(Top.at)
      BY <1>7, TopIs
    <3>2. CASE "super" = KindOf(graph, Top.at)
      BY <3>2 DEF IsSuper, KindOf
    <3>3. CASE Top.at = graph.root /\ "super" \in {MadeAs(Mro[j]) : j \in DOMAIN Mro}
      <4>1. Mro = TypeTable[graph.objs[Top.at].type].mro
        BY <3>3 DEF Mro, Root
      <4> QED  BY <3>3, <4>1 DEF IsSuper
    <3> QED  BY <3>1, <3>2, <3>3 DEF ShownAs
  <2>2. \A k \in 1..n : items[k] \in DOMAIN graph.objs => KindOf(graph, items[k]) = "type"
    <3>1. PlainMetaclasses(graph)
      BY <1>7 DEF Ordinary
    <3> QED  BY <1>1, <1>2, <2>1, <3>1, Zenon DEF PlainMetaclasses
  <2>3. \A k \in 1..n : TypeField(items[k], Top)
                          = IF items[k] = Null THEN Token("none", Top.at) ELSE Token("type", items[k])
    BY <1>4, <2>2, Zenon DEF TypeField
  <2>4. TypeNames(graph, Top.at)
          = [k \in 1..n |-> IF items[k] = Null THEN Token("none", Top.at) ELSE Token("type", items[k])]
    BY <1>1, <1>2, Zenon DEF TypeNames
  <2> QED  BY <1>2, <2>3, <2>4, Zenon
<1> QED  BY <1>6, <1>7 DEF items

(* Writing an object without items. *)
LEMMA ValueWrites ==
    ASSUME Holding, ReprValue, pc' # "failed"
    PROVE  PhasesInv' /\ TextInv'
<1> DEFINE names == [k \in DOMAIN ItemsOf(Top) |-> TypeField(ItemsOf(Top)[k], Top)]
           first == <<Token(Top.as, Top.at)>>
           second == IF Top.as # "super" THEN <<>> ELSE names
           w == first \o second
<1>1. /\ Running /\ ~IsContainer(Top.as)
      /\ \A k \in DOMAIN ItemsOf(Top) : Top.as # "instance" => Optional(ItemsOf(Top)[k])
      /\ text' = (text \o first) \o second
      /\ stack' = Below
      /\ UNCHANGED <<graph, pc, cursor, jobs, printed>>
  BY DEF ReprValue, Throw
<1>2. /\ TypeOK /\ GoodStack(stack) /\ IsGraph(graph) /\ text \in Seq(Tok)
      /\ PhasesInv /\ TextInv
  BY HoldingIs
<1>3. /\ Top \in CallRecord /\ Top.at \in DOMAIN graph.objs /\ Top.at \in Addresses
      /\ Top.as \in Kinds /\ pc \in Calling /\ GoodStack(Below)
  BY <1>1, TopIs
<1>4. first \in Seq(Tok)
  BY <1>3, WrittenIs, TokenTyped, Zenon
<1>5. Top.as = "super" => /\ names \in Seq(Tok)
                          /\ Ordinary(graph) => names = TypeNames(graph, Top.at)
  <2>1. Top.as = "super" => \A k \in DOMAIN ItemsOf(Top) : Optional(ItemsOf(Top)[k])
    BY <1>1
  <2> QED  BY <1>1, <2>1, NamesWritten, Zenon
<1>6. second \in Seq(Tok)
  <2>1. <<>> \in Seq(Tok)
    OBVIOUS
  <2> QED  BY <1>5, <2>1, Zenon
<1>7. ASSUME Ordinary(graph) PROVE Due(graph, stack) = w \o Due(graph, Below)
  <2> DEFINE n == Depth(graph, Len(stack))
  <2>1. n \in 1..Deepest(graph) /\ Due(graph, stack) = Rest(graph, Top, n) \o Due(graph, Below)
    BY <1>1, <1>7, TopOrdinary DEF TopParts
  <2>2. Rest(graph, Top, n) = IF Top.as = "super" THEN first \o TypeNames(graph, Top.at) ELSE first
    BY <1>1, <1>2, <1>3, <2>1, RestOfLeaf, Zenon
  <2>3. first \o <<>> = first
    <3> HIDE DEF first
    <3> QED  BY <1>4, ConcatNone
  <2>4. Rest(graph, Top, n) = w
    BY <1>5, <1>7, <2>2, <2>3, Zenon
  <2> QED  BY <2>1, <2>4, Zenon
<1> DEFINE said == text
<1> HIDE DEF first, second
<1>8. w \in Seq(Tok)
  BY <1>4, <1>6, ConcatTyped
<1>9. (said \o first) \o second = said \o w
  <2> HIDE DEF said
  <2>1. said \in Seq(Tok)
    BY <1>2 DEF said
  <2>9. Joined(said, first, second)
    BY <1>4, <1>6, <2>1, TextAssoc, Zenon
  <2> QED  BY <2>9 DEF Joined
<1> HIDE DEF w
<1>10. text' = text \o w
  BY <1>1, <1>9 DEF said
<1>11. GoodStack(stack') /\ (Ordinary(graph) => Due(graph, stack) = w \o Due(graph, stack'))
  BY <1>1, <1>3, <1>7 DEF w
<1> QED  BY <1>1, <1>2, <1>3, <1>8, <1>10, <1>11, Writes

(* Opening a container, whatever is written for it.                        *)
LEMMA OpensWrite ==
    ASSUME Holding, Running, IsContainer(Top.as), Top.next = 0,
           NEW token, Opening(Top.at, Top.as) = <<token>>, text' = Append(text, token),
           stack' = Advanced, UNCHANGED <<graph, pc, cursor, jobs, printed>>
    PROVE  PhasesInv' /\ TextInv'
<1> DEFINE w == Opening(Top.at, Top.as)
<1>1. /\ TypeOK /\ GoodStack(stack) /\ IsGraph(graph) /\ text \in Seq(Tok)
      /\ PhasesInv /\ TextInv
  BY HoldingIs
<1>2. /\ Top \in CallRecord /\ Top.at \in DOMAIN graph.objs /\ Top.at \in Addresses
      /\ Top.as \in Kinds /\ pc \in Calling /\ GoodStack(Advanced)
  BY TopIs
<1>3. w \in Seq(Tok)
  BY <1>2, WrittenIs, TokenTyped, Zenon DEF Opening
<1>4. ASSUME Ordinary(graph) PROVE Due(graph, stack) = w \o Due(graph, Advanced)
  <2> DEFINE n == Depth(graph, Len(stack))
             r == Rest(graph, Following(Top), n)
             d == Due(graph, Below)
  <2>1. /\ n \in 1..Deepest(graph) /\ Due(graph, stack) = Rest(graph, Top, n) \o d
        /\ r \in Seq(Tok) /\ d \in Seq(Tok) /\ Due(graph, Advanced) = r \o d
    BY <1>4, TopOrdinary DEF TopParts
  <2>2. Rest(graph, Top, n) = w \o r
    BY <1>1, <1>2, <2>1, RestOpens, Zenon
  <2> HIDE DEF w, r, d
  <2>3. r \in Seq(Tok) /\ d \in Seq(Tok)
    BY <2>1
  <2>4. (w \o r) \o d = w \o (r \o d)
    <3>1. Joined(w, r, d)
      BY <1>3, <2>3, TextAssoc, Zenon
    <3> QED  BY <1>3, <2>3, <3>1 DEF Joined
  <2> QED  BY <2>1, <2>2, <2>4, Zenon
<1>5. text' = text \o w
  <2> DEFINE said == text
  <2>1. said \in Seq(Tok) /\ token \in Tok /\ w = <<token>>
    BY <1>1, <1>3
  <2> HIDE DEF w, said
  <2>2. Append(said, token) = said \o <<token>>
    BY <2>1
  <2> QED  BY <2>1, <2>2 DEF said
<1> HIDE DEF w
<1>6. GoodStack(stack') /\ (Ordinary(graph) => Due(graph, stack) = w \o Due(graph, stack'))
  BY <1>2, <1>4
<1> QED  BY <1>1, <1>2, <1>3, <1>5, <1>6, Writes

(* Opening a container. *)
LEMMA OpenWrites ==
    ASSUME Holding, OpenSequence \/ OpenCell \/ OpenTable, pc' # "failed"
    PROVE  PhasesInv' /\ TextInv'
<1> DEFINE token == Token(IF Top.as = "cell" THEN "cell" ELSE "open", Top.at)
<1>1. /\ Running /\ Top.next = 0 /\ IsContainer(Top.as)
      /\ text' = Append(text, token)
      /\ stack' = Advanced /\ UNCHANGED <<graph, pc, cursor, jobs, printed>>
  BY DEF OpenSequence, OpenCell, OpenTable, Throw, IsContainer, Kinds, Leaves, Sequential, Tables
<1>2. Opening(Top.at, Top.as) = <<token>>
  BY DEF Opening
<1> HIDE DEF token
<1> QED  BY <1>1, <1>2, OpensWrite

(* What an item of the object at the top adds to the text.                 *)
LEMMA ItemDue ==
    ASSUME Holding, Running, IsContainer(Top.as), Top.next \in 1..Len(ItemsOf(Top)),
           Ordinary(graph)
    PROVE  LET texts == TextsOf(graph)[Depth(graph, Len(stack)) - 1]
               x == ItemText(graph, Top.at, Top.as, Top.next, texts)
           IN  x \in Seq(Tok) /\ Due(graph, stack) = x \o Due(graph, Advanced)
                /\ Due(graph, Advanced) \in Seq(Tok)
<1> DEFINE n == Depth(graph, Len(stack))
           x == ItemText(graph, Top.at, Top.as, Top.next, TextsOf(graph)[n - 1])
           r == Rest(graph, Following(Top), n)
           d == Due(graph, Below)
<1>1. IsGraph(graph)
  BY HoldingIs
<1>2. /\ Top \in CallRecord /\ Top.at \in DOMAIN graph.objs
      /\ Top.next \in 1..Len(graph.objs[Top.at].items)
  BY TopIs
<1>3. /\ n \in 1..Deepest(graph) /\ Due(graph, stack) = Rest(graph, Top, n) \o d
      /\ r \in Seq(Tok) /\ d \in Seq(Tok) /\ Due(graph, Advanced) = r \o d
  BY TopOrdinary DEF TopParts
<1>4. x \in Seq(Tok) /\ Rest(graph, Top, n) = x \o r
  BY <1>1, <1>2, <1>3, RestItem, Zenon
<1> HIDE DEF x, r, d
<1>5. x \in Seq(Tok) /\ r \in Seq(Tok) /\ d \in Seq(Tok)
  BY <1>3, <1>4
<1>6. (x \o r) \o d = x \o (r \o d) /\ r \o d \in Seq(Tok)
  <2>1. Joined(x, r, d)
    BY <1>5, TextAssoc, Zenon
  <2> QED  BY <1>5, <2>1, ConcatTyped DEF Joined
<1>7. x \in Seq(Tok) /\ Due(graph, stack) = x \o Due(graph, Advanced) /\ Due(graph, Advanced) \in Seq(Tok)
  BY <1>3, <1>4, <1>6, Zenon
<1> QED  BY <1>7 DEF x

(* The separator before the item is the one that the text has there.       *)
LEMMA SeparatorIs ==
    ASSUME Holding, Running
    PROVE  Separator(Top) = Separator([at |-> Top.at, as |-> Top.as, next |-> Top.next])
BY TopIs DEF CallRecord

(* Writing a field that is not set. *)
LEMMA NullWrites ==
    ASSUME Holding, NullField
    PROVE  PhasesInv' /\ TextInv'
<1> DEFINE s == Separator(Top)
           none == <<Token("none", Top.at)>>
           w == s \o none
<1>1. /\ Running /\ IsContainer(Top.as) /\ Top.next \in 1..Len(ItemsOf(Top))
      /\ Top.as = "fields" /\ ItemsOf(Top)[Top.next] = Null
      /\ text' = (text \o s) \o none
      /\ stack' = Advanced /\ UNCHANGED <<graph, pc, cursor, jobs, printed>>
  BY DEF NullField, IsNullField
<1>2. /\ TypeOK /\ GoodStack(stack) /\ IsGraph(graph) /\ text \in Seq(Tok)
      /\ PhasesInv /\ TextInv
  BY HoldingIs
<1>3. /\ Top.at \in Addresses /\ pc \in Calling /\ GoodStack(Advanced)
      /\ ItemsOf(Top) = graph.objs[Top.at].items
  BY <1>1, TopIs
<1>4. s \in Seq(Tok) /\ none \in Seq(Tok)
  BY <1>3, SeparatorTyped, WrittenIs, TokenTyped, Zenon
<1>5. ASSUME Ordinary(graph) PROVE Due(graph, stack) = w \o Due(graph, Advanced)
  <2> DEFINE texts == TextsOf(graph)[Depth(graph, Len(stack)) - 1]
             x == ItemText(graph, Top.at, Top.as, Top.next, texts)
  <2>1. Due(graph, stack) = x \o Due(graph, Advanced)
    BY <1>1, <1>5, ItemDue
  <2>2. x = w
    <3>1. s = Separator([at |-> Top.at, as |-> Top.as, next |-> Top.next])
      BY <1>1, SeparatorIs
    <3>2. Top.as = "fields" /\ graph.objs[Top.at].items[Top.next] = Null
      BY <1>1, <1>3
    <3> QED  BY <3>1, <3>2, Zenon DEF ItemText
  <2> QED  BY <2>1, <2>2, Zenon
<1> DEFINE said == text
<1> HIDE DEF s, none
<1>6. w \in Seq(Tok)
  BY <1>4, ConcatTyped
<1>7. (said \o s) \o none = said \o w
  <2> HIDE DEF said
  <2>1. said \in Seq(Tok)
    BY <1>2 DEF said
  <2>9. Joined(said, s, none)
    BY <1>4, <2>1, TextAssoc, Zenon
  <2> QED  BY <2>9 DEF Joined
<1> HIDE DEF w
<1>8. text' = text \o w
  BY <1>1, <1>7 DEF said
<1>9. GoodStack(stack') /\ (Ordinary(graph) => Due(graph, stack) = w \o Due(graph, stack'))
  BY <1>1, <1>3, <1>5
<1> QED  BY <1>1, <1>2, <1>3, <1>6, <1>8, <1>9, Writes

(* Closing a container. *)
LEMMA CloseWrites ==
    ASSUME Holding, Close
    PROVE  PhasesInv' /\ TextInv'
<1> DEFINE w == Ending(Top)
<1>1. /\ Running /\ IsContainer(Top.as) /\ Top.next = Len(ItemsOf(Top)) + 1
      /\ text' = text \o w
      /\ stack' = Below /\ UNCHANGED <<graph, pc, cursor, jobs, printed>>
  BY DEF Close
<1>2. /\ TypeOK /\ GoodStack(stack) /\ IsGraph(graph) /\ PhasesInv /\ TextInv
  BY HoldingIs
<1>3. /\ Top \in CallRecord /\ Top.at \in DOMAIN graph.objs /\ Top.at \in Addresses
      /\ pc \in Calling /\ GoodStack(Below) /\ ItemsOf(Top) = graph.objs[Top.at].items
  BY <1>1, TopIs
<1>4. w \in Seq(Tok)
  BY <1>3, SeparatorTyped
<1>5. ASSUME Ordinary(graph) PROVE Due(graph, stack) = w \o Due(graph, Below)
  <2> DEFINE n == Depth(graph, Len(stack))
  <2>1. n \in 1..Deepest(graph) /\ Due(graph, stack) = Rest(graph, Top, n) \o Due(graph, Below)
    BY <1>1, <1>5, TopOrdinary DEF TopParts
  <2>2. Top.next = Len(graph.objs[Top.at].items) + 1
    BY <1>1, <1>3
  <2>3. Rest(graph, Top, n) = w
    BY <1>1, <1>2, <1>3, <2>1, <2>2, RestCloses, Zenon
  <2> QED  BY <2>1, <2>3, Zenon
<1> HIDE DEF w
<1>6. GoodStack(stack') /\ (Ordinary(graph) => Due(graph, stack) = w \o Due(graph, stack'))
  BY <1>1, <1>3, <1>5
<1> QED  BY <1>1, <1>2, <1>3, <1>4, <1>6, Writes

(* Going into an item. *)
LEMMA ItemWrites ==
    ASSUME Holding, Item, pc' # "failed"
    PROVE  PhasesInv' /\ TextInv'
<1> DEFINE a == ItemsOf(Top)[Top.next]
           call == Call(a, KindOf(graph, a))
           w == Separator(Top)
<1>1. /\ Running /\ IsContainer(Top.as) /\ Top.next \in 1..Len(ItemsOf(Top))
      /\ ~(Top.as = "fields" /\ a = Null) /\ Readable(a)
      /\ CallRepr(Advanced, call, w)
  BY DEF Item, IsNullField, Throw
<1>2. /\ TypeOK /\ GoodStack(stack) /\ IsGraph(graph) /\ text \in Seq(Tok)
      /\ PhasesInv /\ TextInv
  BY HoldingIs
<1>3. /\ Top.at \in Addresses /\ pc \in Calling /\ GoodStack(Advanced)
      /\ Len(Advanced) = Len(stack) /\ ItemsOf(Top) = graph.objs[Top.at].items
      /\ Len(stack) \in Nat
  BY <1>1, TopIs
<1>4. w \in Seq(Tok)
  BY <1>3, SeparatorTyped
<1>5. call \in CallRecord /\ CallOK(call, Len(stack) + 1)
  BY <1>1, <1>2, ItemGood
<1>6. call.at = a /\ call.as = KindOf(graph, a) /\ call.next = 0 /\ a \in DOMAIN graph.objs
  BY <1>1 DEF Call, Readable
<1>7. /\ text' = text \o w /\ UNCHANGED <<graph, cursor, jobs, printed>>
      /\ \/ pc' = pc /\ stack' = Append(Advanced, call)
         \/ pc' = "overflow"
  <2> HIDE DEF w, call
  <2> QED  BY <1>1 DEF CallRepr
<1>8. CASE pc' = "overflow"
  <2>1. text' \in Seq(Tok)
    <3> HIDE DEF w
    <3> QED  BY <1>2, <1>4, <1>7, ConcatTyped
  <2>2. PhasesInv'
    BY <1>2, <1>3, <1>7, <1>8, <2>1, RunningPhases
  <2> QED  BY <1>8, <2>2 DEF TextInv, Detailing
<1> HIDE DEF call
<1>9. CASE pc' = pc /\ stack' = Append(Advanced, call)
  <2>1. GoodStack(stack')
    BY <1>3, <1>5, <1>9, PushGood
  <2>2. ASSUME Ordinary(graph) PROVE Due(graph, stack) = w \o Due(graph, Append(Advanced, call))
    <3> DEFINE m == Depth(graph, Len(stack)) - 1
               texts == TextsOf(graph)[m]
               x == ItemText(graph, Top.at, Top.as, Top.next, texts)
               y == texts[a][KindOf(graph, a)]
               d == Due(graph, Advanced)
    <3>1. x \in Seq(Tok) /\ Due(graph, stack) = x \o d /\ d \in Seq(Tok)
      BY <1>1, <2>2, ItemDue
    <3>2. x = w \o y
      <4>1. w = Separator([at |-> Top.at, as |-> Top.as, next |-> Top.next])
        BY <1>1, SeparatorIs
      <4>2. /\ ~(Top.as = "fields" /\ graph.objs[Top.at].items[Top.next] = Null)
            /\ graph.objs[Top.at].items[Top.next] = a
        BY <1>1, <1>3
      <4> QED  BY <1>6, <4>1, <4>2, Zenon DEF ItemText
    <3>3. CallsFit(graph, Advanced) /\ CallsFit(graph, Append(Advanced, call))
      <4>1. Ranked(graph)
        BY <2>2 DEF Ordinary
      <4> QED  BY <1>2, <1>3, <1>9, <2>1, <4>1, StackFits
    <3>4. Due(graph, Append(Advanced, call)) = Rest(graph, call, Depth(graph, Len(stack) + 1)) \o d
      <4>1. Due(graph, Append(Advanced, call))
               = Rest(graph, call, Depth(graph, Len(Advanced) + 1)) \o d
        BY <1>2, <1>5, <3>3, DuePush, Zenon
      <4> QED  BY <1>3, <4>1, Zenon
    <3>5. Depth(graph, Len(stack) + 1) = m /\ m \in 0..Deepest(graph)
      <4>1. Depth(graph, Len(stack)) \in 1..Deepest(graph)
        BY <1>1, <2>2, TopOrdinary DEF TopParts
      <4>2. Deepest(graph) \in Nat
        BY <1>2 DEF IsGraph, Deepest
      <4>3. Len(stack) \in Nat
        BY <1>3
      <4> DEFINE l == Len(stack)  e == Deepest(graph)
      <4> HIDE DEF l, e
      <4>4. e + 1 - (l + 1) = (e + 1 - l) - 1 /\ e + 1 - l \in 1..e => (e + 1 - l) - 1 \in 0..e
        BY <4>2, <4>3 DEF l, e
      <4> QED  BY <4>1, <4>2, <4>3 DEF Depth
    <3>6. Rest(graph, call, m) = y
      BY <1>6, Zenon DEF Rest
    <3>7. y \in Seq(Tok)
      <4>1. texts \in TextTable(graph)
        BY <1>2, <3>5, TextsUnfold, Zenon
      <4>2. KindOf(graph, a) \in Kinds
        BY <1>2, <1>6, GraphTyped
      <4> QED  BY <1>6, <4>1, <4>2, Zenon DEF TextTable
    <3> HIDE DEF x, y, d, w, m
    <3>8. d \in Seq(Tok)
      BY <3>1
    <3>9. (w \o y) \o d = w \o (y \o d)
      <4>1. Joined(w, y, d)
        BY <1>4, <3>7, <3>8, TextAssoc, Zenon
      <4> QED  BY <1>4, <3>7, <3>8, <4>1 DEF Joined
    <3> QED  BY <3>1, <3>2, <3>4, <3>5, <3>6, <3>9, Zenon
  <2> HIDE DEF w
  <2>3. Ordinary(graph) => Due(graph, stack) = w \o Due(graph, stack')
    BY <1>9, <2>2
  <2> QED  BY <1>2, <1>3, <1>4, <1>7, <1>9, <2>1, <2>3, Writes
<1> QED  BY <1>7, <1>8, <1>9

-----------------------------------------------------------------------------

(* Starting to show an object, and collecting members. *)

(* The first call of an object.                                            *)
LEMMA FirstDue ==
    ASSUME NEW g, IsGraph(g), NEW c \in CallRecord, c.at \in DOMAIN g.objs, c.next = 0
    PROVE  Due(g, <<c>>) = TextOf(g, c.at, c.as) /\ TextOf(g, c.at, c.as) \in Seq(Tok)
<1>1. Deepest(g) \in Nat /\ Deepest(g) >= 1
  BY DEF IsGraph, Deepest
<1>2. CallsFit(g, <<>>)
  <2>1. <<>> \in Seq(CallRecord) /\ Len(<<>>) = 0 /\ DOMAIN <<>> = {}
    OBVIOUS
  <2> QED  BY <1>1, <2>1 DEF CallsFit
<1>3. CallsFit(g, Append(<<>>, c))
  <2>1. /\ Append(<<>>, c) \in Seq(CallRecord) /\ Len(Append(<<>>, c)) = 1
        /\ DOMAIN Append(<<>>, c) = 1..1 /\ Append(<<>>, c)[1] = c
    OBVIOUS
  <2> QED  BY <1>1, <2>1 DEF CallsFit
<1>4. Due(g, Append(<<>>, c)) = Rest(g, c, Depth(g, Len(<<>>) + 1)) \o Due(g, <<>>)
  BY <1>2, <1>3, DuePush, Zenon
<1>5. Append(<<>>, c) = <<c>> /\ Depth(g, Len(<<>>) + 1) = Deepest(g)
  BY <1>1 DEF Depth
<1>6. Rest(g, c, Deepest(g)) = TextOf(g, c.at, c.as)
  BY Zenon DEF Rest, TextOf
<1>7. TextOf(g, c.at, c.as) \in Seq(Tok)
  BY TextTyped DEF CallRecord
<1> DEFINE x == TextOf(g, c.at, c.as)
<1> HIDE DEF x
<1>8. x \o <<>> = x
  BY <1>7, ConcatNone DEF x
<1> QED  BY <1>4, <1>5, <1>6, <1>7, <1>8, DueNone, Zenon DEF x

(* members() stops behind the last definition, and not before.             *)
LEMMA MemberLast ==
    ASSUME NEW t \in DOMAIN TypeTable,
           NEW k \in 1..(Len(TypeTable[t].defs) + 1), MemberEnds(t, k)
    PROVE  k > Len(TypeTable[t].defs)
<1> DEFINE defs == TypeTable[t].defs
           n == Len(defs)
<1>1. defs \in Seq(MemberDef)
  BY TypesAssumption DEF TypeRecord
<1>2. n \in Nat /\ DOMAIN defs = 1..n /\ k \in Nat /\ k >= 1 /\ k <= n + 1
  BY <1>1
<1> SUFFICES ASSUME k <= n PROVE FALSE
  BY <1>2
<1>3. defs # <<>>
  <2>1. 1 <= n
    BY <1>2
  <2> QED  BY <2>1
<1> DEFINE place(w) == (w - 1) \div 5 + 1
           field(w) == (w - 1) % 5
           at(w) == IF place(w) > n THEN Null
                    ELSE CASE field(w) = 0 -> Name
                           [] field(w) = 1 -> defs[place(w)].type
                           [] field(w) = 2 -> defs[place(w)].offset
                           [] OTHER -> 0
<1>4. MemberWords(t) = [w \in 1..(5 * (n + 1)) |-> at(w)]
  BY <1>3 DEF MemberWords
<1>5. 5 * (k - 1) + 1 \in 1..(5 * (n + 1))
  BY <1>2, SMTT(30)
<1>6. place(5 * (k - 1) + 1) = k /\ field(5 * (k - 1) + 1) = 0
  BY <1>2
<1>7. Word(t, k, 1) = at(5 * (k - 1) + 1)
  <2> HIDE DEF at, defs, n
  <2> QED  BY <1>4, <1>5 DEF Word, MemberDefSize
<1>8. Word(t, k, 1) = Name
  <2> HIDE DEF place, field
  <2>1. ~(place(5 * (k - 1) + 1) > n)
    BY <1>2, <1>6
  <2> QED  BY <1>6, <1>7, <2>1
<1>9. MemberWords(t) # <<>>
  <2> HIDE DEF at
  <2>1. DOMAIN MemberWords(t) = 1..(5 * (n + 1))
    BY <1>4
  <2> QED  BY <1>5, <2>1
<1> QED  BY <1>8, <1>9 DEF MemberEnds, Name, Null

(* An object found is one more to print, and one that is not set is none.  *)
LEMMA CollectFinds ==
    ASSUME Holding, NEW a, Collect(a), pc' # "failed", NEW g, g = graph
    PROVE  /\ pc' = pc /\ jobs' \in Seq(CallRecord)
           /\ \A j \in DOMAIN jobs' : jobs'[j].next = 0
           /\ Found(g, jobs') = Found(g, jobs) \o Whole(g, a)
           /\ Whole(g, a) \in Seq(Tok) /\ Found(g, jobs) \in Seq(Tok)
<1>1. /\ IsGraph(graph) /\ jobs \in Seq(CallRecord) /\ TypeOK
      /\ \A j \in DOMAIN jobs : jobs[j].next = 0
  BY HoldingIs DEF GoodJobs, PhasesInv
<1>2. Found(g, jobs) \in Seq(Tok) /\ Whole(g, a) \in Seq(Tok)
  <2>1. "value" \in Kinds
    BY DEF Kinds, Leaves
  <2> QED  BY <1>1, <2>1, FoundJoin, TextTyped
<1>3. CASE Readable(a)
  <2> DEFINE call == Call(a, KindOf(graph, a))
  <2>1. jobs' = Append(jobs, call) /\ pc' = pc
    BY <1>3 DEF Collect
  <2>2. call \in CallRecord
    BY <1>1, <1>3, ObjectsTyped DEF Call, CallRecord
  <2>3. call.next = 0 /\ TextOf(g, call.at, call.as) = Whole(g, a)
    BY <1>3 DEF Call, Whole, Readable
  <2> HIDE DEF call
  <2>4. jobs' \in Seq(CallRecord) /\ \A j \in DOMAIN jobs' : jobs'[j].next = 0
    <3>1. /\ jobs' \in Seq(CallRecord) /\ Len(jobs') = Len(jobs) + 1
          /\ \A j \in 1..Len(jobs) : jobs'[j] = jobs[j]
          /\ jobs'[Len(jobs) + 1] = call
      BY <1>1, <2>1, <2>2, AppendProperties
    <3>2. ASSUME NEW j \in DOMAIN jobs' PROVE jobs'[j].next = 0
      <4>1. j \in 1..(Len(jobs) + 1) /\ Len(jobs) \in Nat
        BY <1>1, <3>1, <3>2
      <4>2. CASE j = Len(jobs) + 1
        BY <2>3, <3>1, <4>2
      <4>3. CASE j # Len(jobs) + 1
        <5>1. j \in 1..Len(jobs) /\ j \in DOMAIN jobs
          BY <1>1, <4>1, <4>3
        <5> QED  BY <1>1, <3>1, <5>1
      <4> QED  BY <4>2, <4>3
    <3> QED  BY <3>1, <3>2
  <2>5. Found(g, jobs') = Found(g, jobs) \o Whole(g, a)
    <3>1. Append(jobs, call) = jobs \o <<call>> /\ <<call>> \in Seq(CallRecord)
      BY <1>1, <2>2
    <3>2. Found(g, jobs \o <<call>>) = Found(g, jobs) \o Found(g, <<call>>)
      BY <1>1, <3>1, FoundJoin, Zenon
    <3>3. Found(g, <<call>>) = TextOf(g, call.at, call.as)
      BY <1>1, <2>2, FoundOne
    <3> QED  BY <2>1, <2>3, <3>1, <3>2, <3>3, Zenon
  <2> QED  BY <1>2, <2>1, <2>4, <2>5
<1>4. CASE ~Readable(a)
  <2>1. pc' = pc /\ jobs' = jobs
    BY <1>4, Zenon DEF Collect
  <2>2. Whole(g, a) = <<>>
    BY <1>4, Zenon DEF Whole, TextOf, Readable
  <2> DEFINE f == Found(g, jobs)
  <2> HIDE DEF f
  <2>3. f \o <<>> = f
    BY <1>2, ConcatNone DEF f
  <2>4. f = f \o Whole(g, a)
    BY <2>2, <2>3, Zenon
  <2> QED  BY <1>1, <1>2, <2>1, <2>4 DEF f
<1> QED  BY <1>3, <1>4

(* A list of texts from its first.                                         *)
LEMMA SlotsFromStart ==
    ASSUME Rooted(graph), NEW k \in Nat, k >= 1
    PROVE  SlotsAhead(graph, [type |-> k, member |-> 1]) = From(SlotTexts(graph), k)
<1> DEFINE c == [type |-> k, member |-> 1]  s == SlotTexts(graph)
<1>1. s \in Seq(Seq(Tok)) /\ Len(s) = Len(MroOf(graph))
  BY ListsTyped
<1>2. DOMAIN MroOf(graph) = 1..Len(MroOf(graph)) /\ Len(MroOf(graph)) \in Nat
  BY MroOfTyped
<1>3. FromParts(s, k)
  BY <1>1, FromLeft, Zenon
<1>4. c.type = k /\ c.member = 1
  OBVIOUS
<1>5. CASE k \notin DOMAIN MroOf(graph)
  <2>1. k > Len(s)
    BY <1>1, <1>2, <1>5
  <2>2. From(s, k) = <<>>
    BY <1>3, <2>1 DEF FromParts
  <2> QED  BY <1>4, <1>5, <2>2, Zenon DEF SlotsAhead
<1>6. CASE k \in DOMAIN MroOf(graph)
  <2> DEFINE t == MroOf(graph)[k]  p == MemberTexts(graph, t)
  <2>1. k \in DOMAIN s
    BY <1>1, <1>2, <1>6
  <2>2. From(s, k) = s[k] \o From(s, k + 1)
    BY <1>3, <2>1 DEF FromParts
  <2>3. s[k] = FlattenSeq(p)
    BY <1>6, Zenon DEF SlotTexts
  <2>4. p \in Seq(Seq(Tok))
    BY <1>6, MroOfTyped, MemberTextsTyped
  <2>5. From(p, 1) = FlattenSeq(p)
    <3>1. 1 \in Nat /\ 1 >= 1
      OBVIOUS
    <3> HIDE DEF p
    <3> QED  BY <2>4, <3>1, FromLeft, Zenon DEF FromParts
  <2>6. SlotsAhead(graph, c) = From(p, 1) \o From(s, k + 1)
    BY <1>4, <1>6, Zenon DEF SlotsAhead
  <2> QED  BY <2>2, <2>3, <2>5, <2>6, Zenon
<1> QED  BY <1>5, <1>6

-----------------------------------------------------------------------------

(* The steps of the details that write nothing leave as much to write. *)

(* A step that writes nothing leaves as much to write as there was.        *)
LEMMA Moves ==
    ASSUME TextInv, pc \in Detailing, pc' \in Detailing, UNCHANGED <<graph, text, printed>>,
           Ordinary(graph) => Left' = Left
    PROVE  TextInv'
<1>1. pc' # "repr" /\ pc' # "done"
  BY DEF Detailing
<1> QED  BY <1>1 DEF TextInv

(* What the steps of details() have in common.                             *)
LEMMA DetailsIs ==
    ASSUME Holding, pc \in Detailing
    PROVE  /\ Readable(graph.root) /\ Rooted(graph) /\ MroOf(graph) = Mro
           /\ Root = graph.objs[graph.root]
           /\ cursor.type \in Nat /\ cursor.member \in Nat
           /\ cursor.type >= 1 /\ cursor.member >= 1 /\ cursor \in Cursors
           /\ Ordinary(graph) => LeftParts
           /\ TextInv /\ PhasesInv /\ TypeOK
<1>1. TypeOK /\ IsGraph(graph) /\ RootKnown /\ PhasesInv /\ TextInv /\ cursor \in Cursors /\ GoodStack(stack)
  BY HoldingIs
<1>2. Readable(graph.root)
  BY <1>1 DEF RootKnown, Detailing
<1>3. Rooted(graph) /\ MroOf(graph) = Mro
  BY <1>1, <1>2 DEF Rooted, Readable, MroOf, Mro, Root
<1>4. Ordinary(graph) => LeftParts
  <2> SUFFICES ASSUME Ordinary(graph) PROVE LeftParts
    OBVIOUS
  <2>1. Ranked(graph) /\ Consistent(graph)
    BY DEF Ordinary
  <2> QED  BY <1>1, <1>3, <2>1, StackFits, LeftTyped
<1>5. cursor.type \in Nat /\ cursor.member \in Nat /\ cursor.type >= 1 /\ cursor.member >= 1
  BY <1>1 DEF Cursors, PhasesInv
<1> QED  BY <1>1, <1>2, <1>3, <1>4, <1>5 DEF Root

(* Nothing called and nothing found. *)
LEMMA NoneDue == \A g : Due(g, <<>>) = <<>> /\ Found(g, <<>>) = <<>>
BY DueNone, FoundNone

(* The object as the next of its bases.                                    *)
LEMMA BaseMoves ==
    ASSUME Holding, Base
    PROVE  PhasesInv' /\ TextInv'
<1> DEFINE k == cursor.type
           t == Mro[k]
           texts == BaseTexts(graph)
           call == Call(graph.root, MadeAs(t))
           slots == SlotsAhead(graph, Start)
           c == Closing
           x == texts[k]
           rem == From(texts, k + 1)
<1>1. /\ pc = "bases" /\ stack = <<>> /\ k \in DOMAIN Mro
      /\ stack' = IF t \in builtinTypes THEN <<call>> ELSE <<>>
      /\ cursor' = [cursor EXCEPT !.type = @ + 1]
      /\ UNCHANGED <<graph, pc, jobs, text, printed>>
  BY DEF Base, TypeAtCursor
<1>2. pc \in Detailing /\ pc' \in Detailing
  BY <1>1 DEF Detailing
<1>3. /\ Readable(graph.root) /\ Rooted(graph) /\ MroOf(graph) = Mro
      /\ Root = graph.objs[graph.root]
      /\ k \in Nat /\ k >= 1 /\ cursor \in Cursors /\ cursor.member >= 1
      /\ Ordinary(graph) => LeftParts
      /\ TextInv /\ PhasesInv /\ TypeOK
  BY <1>2, DetailsIs
<1>4. cursor' \in Cursors /\ cursor'.type = k + 1 /\ cursor'.member = cursor.member
  BY <1>1, <1>3 DEF Cursors
<1>5. PhasesInv'
  BY <1>1, <1>3, <1>4 DEF PhasesInv, HasLocals, Root
<1>6. ASSUME Ordinary(graph) PROVE Left' = Left
  <2>1. jobs = <<>> /\ jobs' = <<>>
    BY <1>1, <1>3 DEF PhasesInv
  <2>2. texts \in Seq(Seq(Tok)) /\ Len(texts) = Len(Mro) /\ DOMAIN Mro = 1..Len(Mro)
    BY <1>3, ListsTyped, MroOfTyped
  <2>3. k \in DOMAIN texts
    BY <1>1, <2>2
  <2>4. x \in Seq(Tok) /\ From(texts, k) = x \o rem
    BY <1>3, <2>2, <2>3, FromLeft, Zenon DEF FromParts
  <2>5. rem \in Seq(Tok)
    <3>1. k + 1 \in Nat /\ k + 1 >= 1
      BY <1>3
    <3> QED  BY <2>2, <3>1, FromLeft, Zenon DEF FromParts
  <2>6. slots \in Seq(Tok)
    <3>1. Start \in Cursors /\ Start.type >= 1 /\ Start.member >= 1
      BY DEF Start, Cursors
    <3> QED  BY <1>3, <3>1, SlotsTyped DEF SlotsParts
  <2>7. c \in Seq(Tok)
    BY <1>3, <1>6 DEF LeftParts
  <2>8. x = IF t \in builtinTypes THEN TextOf(graph, graph.root, MadeAs(t)) ELSE <<>>
    BY <1>1, <1>3, Zenon DEF BaseTexts
  <2>9. Due(graph, stack') = x
    <3>1. CASE t \in builtinTypes
      <4>1. /\ call \in CallRecord /\ call.at = graph.root /\ call.at \in DOMAIN graph.objs
            /\ call.as = MadeAs(t) /\ call.next = 0
        <5>1. MadeAs(t) \in Kinds
          BY KindsMade
        <5>2. graph.root \in DOMAIN graph.objs /\ graph.root \in Addresses
          BY <1>3 DEF Rooted, IsGraph
        <5> QED  BY <5>1, <5>2 DEF Call, CallRecord
      <4> HIDE DEF call
      <4>2. Due(graph, <<call>>) = TextOf(graph, graph.root, MadeAs(t))
        BY <1>3, <4>1, FirstDue DEF TypeOK
      <4> QED  BY <1>1, <2>8, <3>1, <4>2, Zenon
    <3>2. CASE t \notin builtinTypes
      BY <1>1, <2>8, <3>2, NoneDue, Zenon
    <3> QED  BY <3>1, <3>2
  <2>10. Left = <<>> \o (<<>> \o (((x \o rem) \o slots) \o c))
    <3>1. Ahead = From(texts, k) \o slots
      BY <1>1 DEF Ahead
    <3>2. Due(graph, stack) = <<>> /\ Found(graph, jobs) = <<>>
      BY <1>1, <2>1, NoneDue, Zenon
    <3> QED  BY <2>4, <3>1, <3>2, Zenon DEF Left
  <2>11. Left' = x \o (<<>> \o ((rem \o slots) \o c))
    <3>1. Ahead' = rem \o slots
      BY <1>1, <1>4 DEF Ahead
    <3>2. Closing' = c
      BY <1>1 DEF Closing
    <3>3. Due(graph, stack)' = x /\ Found(graph, jobs)' = <<>>
      BY <1>1, <2>1, <2>9, NoneDue
    <3>4. Left' = Due(graph, stack)' \o (Found(graph, jobs)' \o (Ahead' \o Closing'))
      BY DEF Left
    <3> QED  BY <3>1, <3>2, <3>3, <3>4, Zenon
  <2> HIDE DEF x, rem, slots, c
  <2>12. rem \o slots \in Seq(Tok) /\ (x \o rem) \o slots = x \o (rem \o slots)
    <3>1. Joined(x, rem, slots)
      BY <2>4, <2>5, <2>6, TextAssoc, Zenon
    <3> QED  BY <2>4, <2>5, <2>6, <3>1, ConcatTyped DEF Joined
  <2> DEFINE y == rem \o slots
  <2> HIDE DEF y
  <2>13. (x \o y) \o c = x \o (y \o c) /\ x \o y \in Seq(Tok) /\ y \o c \in Seq(Tok)
    <3>1. y \in Seq(Tok)
      BY <2>12 DEF y
    <3>2. Joined(x, y, c)
      BY <2>4, <2>7, <3>1, TextAssoc, Zenon
    <3> QED  BY <2>7, <3>1, <3>2, ConcatTyped DEF Joined
  <2>14. x \o (y \o c) \in Seq(Tok)
    BY <2>4, <2>13, ConcatTyped
  <2> DEFINE z == x \o (y \o c)  v == y \o c
  <2> HIDE DEF z, v
  <2>15. <<>> \o (<<>> \o z) = z /\ <<>> \o v = v
    <3>1. z \in Seq(Tok) /\ v \in Seq(Tok)
      BY <2>13, <2>14 DEF z, v
    <3> QED  BY <3>1, ConcatNone
  <2> QED  BY <2>10, <2>11, <2>12, <2>13, <2>15, Zenon DEF y, z, v
<1> QED  BY <1>1, <1>2, <1>3, <1>5, <1>6, Moves

Shifts(s, x, y, c) == s \o ((x \o y) \o c) = (s \o x) \o (y \o c)

(* A text moves from one place to the one before it. *)
LEMMA Shift ==
    ASSUME NEW s \in Seq(Tok), NEW x \in Seq(Tok), NEW y \in Seq(Tok), NEW c \in Seq(Tok)
    PROVE  Shifts(s, x, y, c)
<1> DEFINE z == y \o c
<1>1. (x \o y) \o c = x \o z
  <2>1. Joined(x, y, c)
    BY TextAssoc, Zenon
  <2> QED  BY <2>1 DEF Joined
<1>2. z \in Seq(Tok)
  BY ConcatTyped
<1> HIDE DEF z
<1>3. (s \o x) \o z = s \o (x \o z)
  <2>1. Joined(s, x, z)
    BY <1>2, TextAssoc, Zenon
  <2> QED  BY <1>2, <2>1 DEF Joined
<1> QED  BY <1>1, <1>3, Zenon DEF z, Shifts

(* What a step that only finds things adds to the members found.           *)
LEMMA FindsMoves ==
    ASSUME Holding, pc \in {"slots", "locals"}, pc' = pc, UNCHANGED <<graph, stack, text, printed>>,
           cursor' \in Cursors, cursor'.type >= 1, cursor'.member >= 1,
           \A j \in DOMAIN jobs' : jobs'[j].next = 0,
           NEW x, NEW y, Ordinary(graph) => /\ x \in Seq(Tok) /\ y \in Seq(Tok)
                                            /\ Ahead = x \o y /\ Ahead' = y
                                            /\ Found(graph, jobs') = Found(graph, jobs) \o x
    PROVE  PhasesInv' /\ TextInv'
<1>1. pc \in Detailing /\ pc' \in Detailing
  BY DEF Detailing
<1>2. (Ordinary(graph) => LeftParts) /\ TextInv /\ PhasesInv
  BY <1>1, DetailsIs
<1>3. PhasesInv'
  BY <1>2 DEF PhasesInv, HasLocals, Root
<1>4. ASSUME Ordinary(graph) PROVE Left' = Left
  <2> DEFINE d == Due(graph, stack)  f == Found(graph, jobs)  c == Closing
  <2>1. x \in Seq(Tok) /\ y \in Seq(Tok) /\ f \in Seq(Tok) /\ c \in Seq(Tok)
    BY <1>2, <1>4 DEF LeftParts
  <2>2. Left = d \o (f \o ((x \o y) \o c))
    BY <1>4, Zenon DEF Left
  <2>3. Left' = d \o ((f \o x) \o (y \o c))
    <3>1. Due(graph, stack)' = d /\ Closing' = c
      BY DEF Closing
    <3>2. Found(graph, jobs)' = f \o x /\ Ahead' = y
      BY <1>4
    <3>3. Left' = Due(graph, stack)' \o (Found(graph, jobs)' \o (Ahead' \o Closing'))
      BY DEF Left
    <3> QED  BY <3>1, <3>2, <3>3, Zenon
  <2> HIDE DEF d, f, c
  <2>4. f \o ((x \o y) \o c) = (f \o x) \o (y \o c)
    <3>1. x \in Seq(Tok) /\ y \in Seq(Tok) /\ f \in Seq(Tok) /\ c \in Seq(Tok)
      BY <2>1
    <3>2. Shifts(f, x, y, c)
      BY <3>1, Shift, Zenon
    <3> QED  BY <3>2, Zenon DEF Shifts
  <2> QED  BY <2>2, <2>3, <2>4, Zenon
<1> QED  BY <1>1, <1>2, <1>3, <1>4, Moves

(* PyObject::slots, one member on. *)
LEMMA SlotMoves ==
    ASSUME Holding, PhaseOK, Slot, pc' # "failed"
    PROVE  PhasesInv' /\ TextInv'
<1> DEFINE n == cursor.type
           k == cursor.member
           t == Mro[n]
           defs == TypeTable[t].defs
           texts == MemberTexts(graph, t)
           rem == From(SlotTexts(graph), n + 1)
           a == Root.words[MemberOffset(t, k)]
<1>1. pc = "slots" /\ n \in DOMAIN Mro /\ UNCHANGED <<graph, stack, text, printed>>
  BY DEF Slot
<1>2. pc \in Detailing
  BY <1>1 DEF Detailing
<1>3. /\ Readable(graph.root) /\ Rooted(graph) /\ MroOf(graph) = Mro
      /\ Root = graph.objs[graph.root]
      /\ n \in Nat /\ n >= 1 /\ k \in Nat /\ k >= 1 /\ cursor \in Cursors
      /\ PhasesInv /\ TypeOK
  BY <1>2, DetailsIs
<1>4. t \in DOMAIN TypeTable /\ k \in 1..(Len(defs) + 1)
  <2>1. t \in DOMAIN TypeTable
    BY <1>1, <1>3, MroTyped
  <2> QED  BY <1>1, <2>1 DEF PhaseOK, TypeAtCursor
<1>5. /\ Len(defs) \in Nat /\ DOMAIN defs = 1..Len(defs)
      /\ texts \in Seq(Seq(Tok)) /\ Len(texts) = Len(defs)
      /\ DOMAIN Mro = 1..Len(Mro) /\ Len(Mro) \in Nat
  BY <1>3, <1>4, MroOfTyped, MemberTextsTyped
<1>6. rem \in Seq(Tok) /\ n + 1 \in Nat /\ n + 1 >= 1
  <2>1. n + 1 \in Nat /\ n + 1 >= 1
    BY <1>3
  <2>2. SlotTexts(graph) \in Seq(Seq(Tok))
    BY <1>3, ListsTyped
  <2> QED  BY <2>1, <2>2, FromLeft, Zenon DEF FromParts
<1>7. Ahead = From(texts, k) \o rem
  BY <1>1, <1>3 DEF Ahead, SlotsAhead
<1>8. FromParts(texts, k)
  BY <1>3, <1>5, FromLeft, Zenon
<1>9. \A j \in DOMAIN jobs : jobs[j].next = 0
  BY <1>3 DEF PhasesInv
<1>11. CASE MemberEnds(t, k)
  <2>1. cursor' = [type |-> n + 1, member |-> 1] /\ pc' = pc /\ jobs' = jobs
    BY <1>11 DEF Slot, TypeAtCursor
  <2>2. k > Len(texts)
    BY <1>4, <1>5, <1>11, MemberLast
  <2>3. From(texts, k) = <<>>
    BY <1>8, <2>2 DEF FromParts
  <2>4. Ahead' = rem
    <3>1. Ahead' = SlotsAhead(graph, [type |-> n + 1, member |-> 1])
      BY <1>1, <2>1 DEF Ahead
    <3>2. SlotsAhead(graph, [type |-> n + 1, member |-> 1]) = rem
      BY <1>3, <1>6, SlotsFromStart
    <3> QED  BY <3>1, <3>2
  <2> DEFINE x == <<>>
  <2>5. x \in Seq(Tok) /\ Ahead = x \o rem
    BY <1>7, <2>3
  <2>6. Ordinary(graph) => Found(graph, jobs') = Found(graph, jobs) \o x
    <3> SUFFICES ASSUME Ordinary(graph) PROVE Found(graph, jobs') = Found(graph, jobs) \o x
      OBVIOUS
    <3> DEFINE f == Found(graph, jobs)
    <3>1. f \in Seq(Tok)
      BY <1>2, DetailsIs DEF LeftParts
    <3> HIDE DEF f
    <3>2. f \o <<>> = f
      BY <3>1, ConcatNone
    <3> QED  BY <2>1, <3>2 DEF f
  <2>7. cursor' \in Cursors /\ cursor'.type >= 1 /\ cursor'.member >= 1
    BY <1>6, <2>1 DEF Cursors
  <2> HIDE DEF x, rem
  <2> QED  BY <1>1, <1>6, <1>9, <2>1, <2>4, <2>5, <2>6, <2>7, FindsMoves
<1>12. CASE ~MemberEnds(t, k)
  <2>1. /\ cursor' = [cursor EXCEPT !.member = @ + 1]
        /\ IF MemberType(t, k) = T_OBJECT_EX THEN Collect(a) ELSE UNCHANGED <<pc, jobs>>
    BY <1>12 DEF Slot, TypeAtCursor
  <2>2. k \in DOMAIN defs /\ MemberType(t, k) = defs[k].type /\ MemberOffset(t, k) = defs[k].offset
    BY <1>4, <1>12, MemberFound
  <2> DEFINE x == texts[k]  left == From(texts, k + 1)  y == left \o rem
  <2>3. k \in DOMAIN texts
    BY <1>5, <2>2
  <2>4. x \in Seq(Tok) /\ From(texts, k) = x \o left
    BY <1>8, <2>3 DEF FromParts
  <2>5. x = IF MemberType(t, k) = T_OBJECT_EX THEN Whole(graph, a) ELSE <<>>
    BY <1>3, <2>2, Zenon DEF MemberTexts
  <2>6. /\ pc' = pc /\ \A j \in DOMAIN jobs' : jobs'[j].next = 0
        /\ Found(graph, jobs') = Found(graph, jobs) \o x
    <3>1. CASE MemberType(t, k) = T_OBJECT_EX
      BY <2>1, <2>5, <3>1, CollectFinds, Zenon
    <3>2. CASE MemberType(t, k) # T_OBJECT_EX
      <4> DEFINE f == Found(graph, jobs)
      <4>1. f \in Seq(Tok)
        BY <1>3, FoundJoin, Zenon DEF TypeOK
      <4>2. pc' = pc /\ jobs' = jobs /\ x = <<>>
        BY <2>1, <2>5, <3>2, Zenon
      <4> HIDE DEF f
      <4>3. f \o <<>> = f
        BY <4>1, ConcatNone
      <4> QED  BY <1>9, <4>2, <4>3, Zenon DEF f
    <3> QED  BY <3>1, <3>2
  <2>7. cursor' \in Cursors /\ cursor'.type = n /\ cursor'.member = k + 1 /\ k + 1 \in Nat /\ k + 1 >= 1
    BY <1>3, <2>1 DEF Cursors
  <2>8. left \in Seq(Tok)
    BY <1>5, <2>7, FromLeft, Zenon DEF FromParts
  <2>9. Ahead' = y
    BY <1>1, <1>3, <2>6, <2>7 DEF Ahead, SlotsAhead
  <2> HIDE DEF x, left, rem
  <2>10. y \in Seq(Tok) /\ (x \o left) \o rem = x \o y
    <3>1. Joined(x, left, rem)
      BY <1>6, <2>4, <2>8, TextAssoc, Zenon
    <3> QED  BY <1>6, <2>4, <2>8, <3>1 DEF Joined, y
  <2>11. Ahead = x \o y
    BY <1>7, <2>4, <2>10, Zenon
  <2> HIDE DEF y
  <2>12. cursor'.type >= 1 /\ cursor'.member >= 1
    BY <1>3, <2>7
  <2> QED  BY <1>1, <2>4, <2>6, <2>7, <2>9, <2>10, <2>11, <2>12, FindsMoves
<1> QED  BY <1>11, <1>12

(* The variables of a frame, one on. *)
LEMMA LocalMoves ==
    ASSUME Holding, Local, pc' # "failed"
    PROVE  PhasesInv' /\ TextInv'
<1> DEFINE k == cursor.member
           locals == Root.locals
           texts == LocalTexts(graph)
           x == texts[k]
           y == From(texts, k + 1)
<1>1. /\ pc = "locals" /\ k \in DOMAIN locals /\ UNCHANGED <<graph, stack, text, printed>>
      /\ cursor' = [cursor EXCEPT !.member = @ + 1] /\ Collect(locals[k])
  BY DEF Local
<1>2. pc \in Detailing
  BY <1>1 DEF Detailing
<1>3. /\ Rooted(graph) /\ Root = graph.objs[graph.root]
      /\ k \in Nat /\ k >= 1 /\ cursor.type >= 1 /\ cursor \in Cursors
  BY <1>2, DetailsIs
<1>4. texts \in Seq(Seq(Tok)) /\ Len(texts) = Len(locals) /\ locals \in Seq(Addresses \cup {Null})
  BY <1>3, ListsTyped, GraphTyped DEF Rooted
<1>5. k \in DOMAIN texts
  BY <1>1, <1>4
<1>6. x \in Seq(Tok) /\ From(texts, k) = x \o y
  BY <1>3, <1>4, <1>5, FromLeft, Zenon DEF FromParts
<1>7. x = Whole(graph, locals[k])
  BY <1>1, <1>3, Zenon DEF LocalTexts
<1>8. /\ pc' = pc /\ \A j \in DOMAIN jobs' : jobs'[j].next = 0
      /\ Found(graph, jobs') = Found(graph, jobs) \o x
  BY <1>1, <1>7, CollectFinds, Zenon
<1>9. cursor' \in Cursors /\ cursor'.type >= 1 /\ cursor'.member = k + 1 /\ k + 1 \in Nat /\ k + 1 >= 1
  BY <1>1, <1>3 DEF Cursors
<1>10. y \in Seq(Tok)
  BY <1>4, <1>9, FromLeft, Zenon DEF FromParts
<1>11. Ahead = x \o y /\ Ahead' = y
  BY <1>1, <1>6, <1>8, <1>9 DEF Ahead
<1> HIDE DEF x, y
<1>12. cursor'.member >= 1
  BY <1>9
<1> QED  BY <1>1, <1>6, <1>8, <1>9, <1>10, <1>11, <1>12, FindsMoves

(* Going on to another part of the details.                                *)
LEMMA PartMoves ==
    ASSUME Holding, pc \in {"bases", "slots", "locals"}, pc' \in {"slots", "members"},
           UNCHANGED <<graph, stack, jobs, text, printed>>, stack = <<>>,
           pc' = "slots" => pc = "bases",
           cursor' \in Cursors, cursor'.type >= 1, cursor'.member >= 1,
           Ordinary(graph) => Ahead' = Ahead
    PROVE  PhasesInv' /\ TextInv'
<1>1. pc \in Detailing /\ pc' \in Detailing
  BY DEF Detailing
<1>2. TextInv /\ PhasesInv
  BY <1>1, DetailsIs
<1>3. PhasesInv'
  BY <1>2 DEF PhasesInv, HasLocals, Root
<1>4. ASSUME Ordinary(graph) PROVE Left' = Left
  <2>1. Due(graph, stack)' = Due(graph, stack) /\ Found(graph, jobs)' = Found(graph, jobs)
    OBVIOUS
  <2>2. Closing' = Closing /\ Ahead' = Ahead
    BY <1>4 DEF Closing
  <2>3. Left' = Due(graph, stack)' \o (Found(graph, jobs)' \o (Ahead' \o Closing'))
    BY DEF Left
  <2> QED  BY <2>1, <2>2, <2>3, Zenon DEF Left
<1> QED  BY <1>1, <1>2, <1>3, <1>4, Moves

(* After the bases, the members. *)
LEMMA EndBasesMoves ==
    ASSUME Holding, EndBases
    PROVE  PhasesInv' /\ TextInv'
<1> DEFINE k == cursor.type
           texts == BaseTexts(graph)
           slots == SlotsAhead(graph, Start)
<1>1. /\ pc = "bases" /\ stack = <<>> /\ k \notin DOMAIN Mro /\ pc' = "slots" /\ cursor' = Start
      /\ UNCHANGED <<graph, stack, jobs, text, printed>>
  BY DEF EndBases
<1>2. pc \in Detailing
  BY <1>1 DEF Detailing
<1>3. Rooted(graph) /\ MroOf(graph) = Mro /\ k \in Nat /\ k >= 1
  BY <1>2, DetailsIs
<1>4. Start \in Cursors /\ Start.type >= 1 /\ Start.member >= 1
  BY DEF Start, Cursors
<1>5. texts \in Seq(Seq(Tok)) /\ Len(texts) = Len(Mro) /\ DOMAIN Mro = 1..Len(Mro)
      /\ Len(Mro) \in Nat
  BY <1>3, ListsTyped, MroOfTyped
<1>6. From(texts, k) = <<>>
  <2>1. k > Len(texts)
    BY <1>1, <1>3, <1>5
  <2>2. FromParts(texts, k)
    BY <1>3, <1>5, FromLeft, Zenon
  <2> QED  BY <2>1, <2>2 DEF FromParts
<1>7. slots \in Seq(Tok)
  BY <1>3, <1>4, SlotsTyped DEF SlotsParts
<1>8. Ahead = From(texts, k) \o slots
  BY <1>1 DEF Ahead
<1>9. Ahead' = slots
  BY <1>1 DEF Ahead
<1> HIDE DEF slots
<1>10. <<>> \o slots = slots
  BY <1>7, ConcatNone
<1>11. Ahead' = Ahead
  BY <1>6, <1>8, <1>9, <1>10, Zenon
<1>12. cursor' \in Cursors /\ cursor'.type >= 1 /\ cursor'.member >= 1
  BY <1>1, <1>4
<1> QED  BY <1>1, <1>11, <1>12, PartMoves

(* After the last class or variable, what was found is shown. *)
LEMMA EndCollectingMoves ==
    ASSUME Holding, EndCollecting
    PROVE  PhasesInv' /\ TextInv'
<1>1. /\ pc' = "members" /\ UNCHANGED <<graph, stack, cursor, jobs, text, printed>>
      /\ \/ pc = "slots" /\ cursor.type \notin DOMAIN Mro
         \/ pc = "locals" /\ cursor.member \notin DOMAIN Root.locals
  BY DEF EndCollecting
<1>2. pc \in Detailing
  BY <1>1 DEF Detailing
<1>3. /\ Rooted(graph) /\ MroOf(graph) = Mro /\ Root = graph.objs[graph.root]
      /\ cursor.member \in Nat /\ cursor.member >= 1 /\ cursor.type >= 1 /\ cursor \in Cursors
      /\ PhasesInv
  BY <1>2, DetailsIs
<1>4. Ahead' = <<>>
  BY <1>1 DEF Ahead
<1>5. Ahead = <<>>
  <2>1. CASE pc = "slots" /\ cursor.type \notin DOMAIN Mro
    <3>1. SlotsAhead(graph, cursor) = <<>>
      BY <1>3, <2>1, Zenon DEF SlotsAhead
    <3> QED  BY <2>1, <3>1 DEF Ahead
  <2>2. CASE pc = "locals" /\ cursor.member \notin DOMAIN Root.locals
    <3> DEFINE texts == LocalTexts(graph)  locals == Root.locals  k == cursor.member
    <3>1. texts \in Seq(Seq(Tok)) /\ Len(texts) = Len(locals) /\ locals \in Seq(Addresses \cup {Null})
      BY <1>3, ListsTyped, GraphTyped DEF Rooted
    <3>2. k > Len(texts)
      <4>1. Len(locals) \in Nat /\ DOMAIN locals = 1..Len(locals)
        BY <3>1
      <4> QED  BY <1>3, <2>2, <3>1, <4>1
    <3>3. FromParts(texts, k)
      BY <1>3, <3>1, FromLeft, Zenon
    <3>4. From(texts, k) = <<>>
      BY <3>2, <3>3 DEF FromParts
    <3> QED  BY <2>2, <3>4 DEF Ahead
  <2> QED  BY <1>1, <2>1, <2>2
<1>6. stack = <<>>
  BY <1>1, <1>3 DEF PhasesInv
<1>7. pc' \in {"slots", "members"} /\ pc \in {"bases", "slots", "locals"} /\ pc' # "slots"
  BY <1>1
<1>8. cursor' \in Cursors /\ cursor'.type >= 1 /\ cursor'.member >= 1
  BY <1>1, <1>3
<1> QED  BY <1>1, <1>4, <1>5, <1>6, <1>7, <1>8, PartMoves

-----------------------------------------------------------------------------

(* The first member found and the others. *)
LEMMA FirstJob ==
    ASSUME NEW s \in Seq(CallRecord), s # <<>>
    PROVE  /\ Head(s) \in CallRecord /\ Tail(s) \in Seq(CallRecord) /\ s = <<Head(s)>> \o Tail(s)
           /\ 1 \in DOMAIN s /\ Head(s) = s[1]
           /\ \A j \in DOMAIN Tail(s) : j + 1 \in DOMAIN s /\ Tail(s)[j] = s[j + 1]
OBVIOUS

(* Showing the next member that was found. *)
LEMMA NextJobMoves ==
    ASSUME Holding, NextJob
    PROVE  PhasesInv' /\ TextInv'
<1> DEFINE h == Head(jobs)
           t == Tail(jobs)
           x == TextOf(graph, h.at, h.as)
           f == Found(graph, t)
           z == Ahead \o Closing
<1>1. /\ pc = "members" /\ stack = <<>> /\ jobs # <<>> /\ stack' = <<h>> /\ jobs' = t
      /\ UNCHANGED <<graph, pc, cursor, text, printed>>
  BY DEF NextJob
<1>2. pc \in Detailing /\ pc' \in Detailing
  BY <1>1 DEF Detailing
<1>3. (Ordinary(graph) => LeftParts) /\ TextInv /\ PhasesInv /\ Rooted(graph)
  BY <1>2, DetailsIs
<1>4. jobs \in Seq(CallRecord) /\ GoodJobs(jobs) /\ IsGraph(graph)
  BY HoldingIs DEF GoodJobs
<1>5. /\ h \in CallRecord /\ t \in Seq(CallRecord) /\ jobs = <<h>> \o t
      /\ 1 \in DOMAIN jobs /\ h = jobs[1]
      /\ \A j \in DOMAIN t : j + 1 \in DOMAIN jobs /\ t[j] = jobs[j + 1]
  BY <1>1, <1>4, FirstJob
<1>6. h.at \in DOMAIN graph.objs /\ h.next = 0
  BY <1>3, <1>4, <1>5 DEF GoodJobs, Readable, PhasesInv
<1> HIDE DEF h, t
<1>7. PhasesInv'
  <2>1. \A j \in DOMAIN jobs' : jobs'[j].next = 0
    BY <1>1, <1>3, <1>5 DEF PhasesInv
  <2> QED  BY <1>1, <1>3, <2>1 DEF PhasesInv, HasLocals, Root
<1>8. ASSUME Ordinary(graph) PROVE Left' = Left
  <2>1. Due(graph, <<h>>) = x /\ x \in Seq(Tok)
    BY <1>4, <1>5, <1>6, FirstDue
  <2>2. Found(graph, jobs) = x \o f /\ f \in Seq(Tok)
    <3>1. <<h>> \in Seq(CallRecord)
      BY <1>5
    <3>2. Found(graph, <<h>> \o t) = Found(graph, <<h>>) \o f /\ f \in Seq(Tok)
      BY <1>4, <1>5, <3>1, FoundJoin, Zenon
    <3>3. Found(graph, <<h>>) = x
      BY <1>4, <1>5, FoundOne
    <3> QED  BY <1>5, <3>2, <3>3, Zenon
  <2>3. z \in Seq(Tok)
    <3> DEFINE a == Ahead  c == Closing
    <3>1. a \in Seq(Tok) /\ c \in Seq(Tok)
      BY <1>3, <1>8 DEF LeftParts
    <3> HIDE DEF a, c
    <3>2. a \o c \in Seq(Tok)
      BY <3>1, ConcatTyped
    <3> QED  BY <3>2 DEF a, c
  <2>4. Left = <<>> \o ((x \o f) \o z)
    BY <1>1, <2>2, NoneDue, Zenon DEF Left
  <2>5. Left' = x \o (f \o z)
    <3>1. Due(graph, stack)' = x /\ Found(graph, jobs)' = f
      BY <1>1, <2>1
    <3>2. Ahead' = Ahead /\ Closing' = Closing
      BY <1>1 DEF Ahead, Closing
    <3>3. Left' = Due(graph, stack)' \o (Found(graph, jobs)' \o (Ahead' \o Closing'))
      BY DEF Left
    <3> QED  BY <3>1, <3>2, <3>3, Zenon
  <2>6. x \in Seq(Tok) /\ f \in Seq(Tok) /\ z \in Seq(Tok)
    BY <2>1, <2>2, <2>3
  <2> HIDE DEF x, f, z
  <2>7. (x \o f) \o z = x \o (f \o z) /\ x \o f \in Seq(Tok)
    <3>1. Joined(x, f, z)
      BY <2>6, TextAssoc, Zenon
    <3> QED  BY <2>6, <3>1 DEF Joined
  <2> DEFINE y == x \o f
  <2> HIDE DEF y
  <2>8. y \o z \in Seq(Tok)
    BY <2>6, <2>7, ConcatTyped DEF y
  <2> DEFINE v == y \o z
  <2> HIDE DEF v
  <2>9. <<>> \o v = v
    BY <2>8, ConcatNone DEF v
  <2> QED  BY <2>4, <2>5, <2>7, <2>9, Zenon DEF v, y
<1> QED  BY <1>1, <1>2, <1>3, <1>7, <1>8, Moves

(* dict() finds the dict of an object, or of a type of the interpreter.    *)
LEMMA DictIs ==
    ASSUME TypeOK, Rooted(graph), Consistent(graph), ~ExtensionType(graph)
    PROVE  Dict(Root) = DictOf(graph, graph.root)
<1> DEFINE o == graph.objs[graph.root]
           static == graph.static
           i == CHOOSE k \in DOMAIN static : static[k].type = graph.root
<1>1. Root = o /\ o \in ObjectRecord /\ static \in Seq([type : Addresses, dict : Addresses])
  BY GraphTyped DEF Root, Rooted, IsGraph
<1>2. o.subclasses \in Nat
  BY <1>1 DEF ObjectRecord
<1>3. CASE \E k \in DOMAIN static : static[k].type = graph.root
  <2>1. i \in DOMAIN static /\ static[i].type = graph.root
    BY <1>3, SMTT(30)
  <2>2. KindOf(graph, graph.root) = "type" /\ o.subclasses = i
    BY <2>1 DEF Consistent, Rooted
  <2>3. i \in Nat /\ i >= 1
    BY <1>1, <2>1
  <2>4. DictOf(graph, graph.root) = static[i].dict
    BY <1>3, Zenon DEF DictOf
  <2> HIDE DEF i
  <2>5. getStaticBuiltinIndex(o) >= 0 /\ getStaticBuiltinIndex(o) + 1 = i
    BY <2>2, <2>3 DEF getStaticBuiltinIndex
  <2>6. MadeAs(o.type) = "type"
    BY <2>2 DEF KindOf
  <2>7. Dict(o) = static[i].dict
    BY <2>1, <2>5, <2>6, Zenon DEF Dict
  <2> QED  BY <1>1, <2>4, <2>7
<1>4. CASE ~(\E k \in DOMAIN static : static[k].type = graph.root)
  <2>1. o.subclasses = 0
    BY <1>4 DEF ExtensionType
  <2>2. ~(getStaticBuiltinIndex(o) >= 0)
    BY <2>1 DEF getStaticBuiltinIndex
  <2>3. Dict(o) = o.dict
    BY <2>2, Zenon DEF Dict
  <2>4. DictOf(graph, graph.root) = o.dict
    BY <1>4, Zenon DEF DictOf
  <2> QED  BY <1>1, <2>3, <2>4
<1> QED  BY <1>3, <1>4

(* Showing the dict. *)
LEMMA DictMoves ==
    ASSUME Holding, ShowDict, pc' # "failed"
    PROVE  PhasesInv' /\ TextInv'
<1> DEFINE d == Dict(Root)
           call == Call(d, "dict")
           x == DictText(graph)
           e == ExtentsText(graph)
<1>1. /\ pc = "members" /\ stack = <<>> /\ jobs = <<>> /\ pc' = "dict"
      /\ UNCHANGED <<graph, cursor, jobs, text, printed>>
      /\ \/ (HasLocals \/ (d = Null /\ KindOf(graph, graph.root) # "type")) /\ stack' = <<>>
         \/ ~HasLocals /\ Readable(d) /\ stack' = <<call>>
  BY DEF ShowDict, Throw
<1>2. pc \in Detailing /\ pc' \in Detailing
  BY <1>1 DEF Detailing
<1>3. (Ordinary(graph) => LeftParts) /\ TextInv /\ PhasesInv /\ Rooted(graph) /\ TypeOK
  BY <1>2, DetailsIs
<1>4. PhasesInv'
  BY <1>1, <1>3 DEF PhasesInv, HasLocals, Root
<1>5. ASSUME Ordinary(graph) PROVE Left' = Left
  <2>1. d = DictOf(graph, graph.root)
    BY <1>3, <1>5, DictIs DEF Ordinary
  <2>2. HasLocals <=> ShowsLocals(graph)
    BY DEF HasLocals, ShowsLocals
  <2>3. x = IF ShowsLocals(graph) THEN <<>> ELSE TextOf(graph, d, "dict")
    BY <2>1, Zenon DEF DictText
  <2>4. x \in Seq(Tok) /\ e \in Seq(Tok)
    BY <1>3, <1>5, ListsTyped, ExtentsAre DEF Ordinary
  <2>5. Due(graph, stack') = x
    <3>1. CASE HasLocals /\ stack' = <<>>
      BY <2>2, <2>3, <3>1, NoneDue, Zenon
    <3>2. CASE ~HasLocals /\ d = Null /\ stack' = <<>>
      <4>1. Null \notin DOMAIN graph.objs
        BY <1>3, NullAssumption DEF Rooted, IsGraph
      <4>2. TextOf(graph, d, "dict") = <<>>
        BY <3>2, <4>1, Zenon DEF TextOf
      <4> QED  BY <2>2, <2>3, <3>2, <4>2, NoneDue, Zenon
    <3>3. CASE ~HasLocals /\ Readable(d) /\ stack' = <<call>>
      <4>1. d \in DOMAIN graph.objs /\ d \in Addresses
        BY <1>3, <3>3 DEF Readable, Rooted, IsGraph
      <4>2. /\ call \in CallRecord /\ call.at = d /\ call.as = "dict" /\ call.next = 0
        <5>1. "dict" \in Kinds
          BY DEF Kinds, Tables
        <5> HIDE DEF d
        <5> QED  BY <4>1, <5>1 DEF Call, CallRecord
      <4> HIDE DEF call
      <4>3. Due(graph, <<call>>) = TextOf(graph, d, "dict")
        BY <1>3, <4>1, <4>2, FirstDue DEF Rooted
      <4> QED  BY <2>2, <2>3, <3>3, <4>3, Zenon
    <3> QED  BY <1>1, <3>1, <3>2, <3>3
  <2>6. Left = <<>> \o (<<>> \o (<<>> \o (x \o e)))
    <3>1. Ahead = <<>> /\ Closing = x \o e
      BY <1>1 DEF Ahead, Closing
    <3> QED  BY <1>1, <3>1, NoneDue, Zenon DEF Left
  <2>7. Left' = x \o (<<>> \o (<<>> \o (<<>> \o e)))
    <3>1. Ahead' = <<>> /\ Closing' = <<>> \o e
      BY <1>1 DEF Ahead, Closing
    <3>2. Due(graph, stack)' = x /\ Found(graph, jobs)' = <<>>
      BY <1>1, <2>5, NoneDue
    <3>3. Left' = Due(graph, stack)' \o (Found(graph, jobs)' \o (Ahead' \o Closing'))
      BY DEF Left
    <3> QED  BY <3>1, <3>2, <3>3, Zenon
  <2> HIDE DEF x, e
  <2>8. x \o e \in Seq(Tok) /\ <<>> \o e = e
    BY <2>4, ConcatTyped, ConcatNone
  <2> DEFINE v == x \o e
  <2> HIDE DEF v
  <2>9. <<>> \o v = v
    BY <2>8, ConcatNone DEF v
  <2> QED  BY <2>6, <2>7, <2>8, <2>9, Zenon DEF v
<1> QED  BY <1>1, <1>2, <1>3, <1>4, <1>5, Moves

-----------------------------------------------------------------------------

(* The beginning of a command and of its details. *)

(* The header is a text of its own. *)
LEMMA HeaderIs ==
    ASSUME NEW g, Rooted(g)
    PROVE  /\ Header(g) \in Seq(Tok) /\ Len(Header(g)) = 1
           /\ <<Header(g)>> \in Seq(Seq(Tok)) /\ FlattenSeq(<<Header(g)>>) = Header(g)
<1>1. g.root \in Addresses
  BY DEF Rooted, IsGraph
<1>2. Header(g) \in Seq(Tok)
  BY <1>1, WrittenIs, TokenTyped, Zenon DEF Header
<1>3. Len(Header(g)) = 1
  BY DEF Header
<1> DEFINE h == Header(g)
<1> HIDE DEF h
<1>4. h \in Seq(Tok)
  BY <1>2 DEF h
<1>5. <<h>> \in Seq(Seq(Tok))
  BY <1>4
<1>6. FlattenSeq(<<h>>) = h
  BY <1>4, FlattenOne
<1> QED  BY <1>2, <1>3, <1>5, <1>6 DEF h

(* The details have all their texts ahead of them when they start.         *)
LEMMA DetailsStart ==
    ASSUME Rooted(graph), Consistent(graph), NEW ahead,
           ahead = IF ShowsLocals(graph) THEN From(LocalTexts(graph), 1)
                   ELSE IF graph.objs[graph.root].type \in builtinTypes THEN SlotsAhead(graph, Start)
                   ELSE From(BaseTexts(graph), 1) \o SlotsAhead(graph, Start)
    PROVE  /\ ahead \o (DictText(graph) \o ExtentsText(graph)) = Details(graph)
           /\ Details(graph) \in Seq(Tok)
<1> DEFINE locals == LocalTexts(graph)  bases == BaseTexts(graph)  slots == SlotTexts(graph)
           fl == FlattenSeq(locals)  fb == FlattenSeq(bases)  fs == FlattenSeq(slots)
           builtin == graph.objs[graph.root].type \in builtinTypes
           rem == DictText(graph) \o ExtentsText(graph)
<1>1. /\ locals \in Seq(Seq(Tok)) /\ bases \in Seq(Seq(Tok)) /\ slots \in Seq(Seq(Tok))
      /\ fl \in Seq(Tok) /\ fb \in Seq(Tok) /\ fs \in Seq(Tok)
      /\ DictText(graph) \in Seq(Tok) /\ ExtentsText(graph) \in Seq(Tok)
  BY ListsTyped, ExtentsAre
<1>2. 1 \in Nat /\ 1 >= 1
  OBVIOUS
<1>3. From(locals, 1) = fl /\ From(bases, 1) = fb /\ From(slots, 1) = fs
  <2> HIDE DEF locals, bases, slots
  <2>1. FromParts(locals, 1) /\ FromParts(bases, 1) /\ FromParts(slots, 1)
    BY <1>1, <1>2, FromLeft, Zenon
  <2> QED  BY <2>1, Zenon DEF FromParts
<1>4. SlotsAhead(graph, Start) = fs
  <2>1. SlotsAhead(graph, [type |-> 1, member |-> 1]) = From(slots, 1)
    BY <1>2, SlotsFromStart
  <2> QED  BY <1>3, <2>1 DEF Start
<1> DEFINE b == IF builtin THEN <<>> ELSE fb
           whole == IF ShowsLocals(graph) THEN fl ELSE b \o fs
<1>5. Details(graph) = whole \o rem
  BY Zenon DEF Details
<1> HIDE DEF fl, fb, fs, builtin, locals, bases, slots
<1>6. <<>> \o fs = fs /\ <<>> \in Seq(Tok)
  BY <1>1, ConcatNone
<1>7. b \in Seq(Tok)
  BY <1>1, <1>6, Zenon
<1>8. whole = ahead
  BY <1>3, <1>4, <1>6, Zenon DEF locals, bases, builtin
<1> HIDE DEF b
<1>9. b \o fs \in Seq(Tok)
  BY <1>1, <1>7, ConcatTyped
<1>10. whole \in Seq(Tok)
  BY <1>1, <1>9, Zenon
<1> DEFINE d == DictText(graph)  e == ExtentsText(graph)
<1>11. d \in Seq(Tok) /\ e \in Seq(Tok)
  BY <1>1
<1>12. rem = d \o e
  OBVIOUS
<1> HIDE DEF d, e, rem, whole
<1>13. rem \in Seq(Tok)
  BY <1>11, <1>12, ConcatTyped
<1>14. whole \o rem \in Seq(Tok)
  BY <1>10, <1>13, ConcatTyped
<1> QED  BY <1>5, <1>8, <1>14, Zenon DEF rem

(* Where the details start, nothing of them is written.                    *)
LEMMA StartsDetails ==
    ASSUME TypeOK, Rooted(graph), graph' = graph, cursor' = Start, stack' = <<>>, jobs' = <<>>,
           text' = <<>>,
           pc' = IF HasLocals THEN "locals" ELSE IF Root.type \in builtinTypes THEN "slots" ELSE "bases",
           Ordinary(graph) =>
              FlattenSeq(printed' \o Heading(graph)) \o Details(graph) = Expected(graph)
    PROVE  TextInv'
<1>1. pc' \in Detailing /\ pc' # "repr" /\ pc' # "done" /\ pc' # "dict"
  BY DEF Detailing
<1>2. ASSUME Ordinary(graph) PROVE text' \o Left' = Details(graph)
  <2> DEFINE rem == DictText(graph) \o ExtentsText(graph)
  <2>1. Consistent(graph)
    BY <1>2 DEF Ordinary
  <2>2. SlotsAhead(graph, Start) \in Seq(Tok)
    <3>1. Start \in Cursors /\ Start.type >= 1 /\ Start.member >= 1
      BY DEF Start, Cursors
    <3> QED  BY <3>1, SlotsTyped DEF SlotsParts
  <2>3. HasLocals <=> ShowsLocals(graph)
    BY DEF HasLocals, ShowsLocals
  <2>4. Start.type = 1 /\ Start.member = 1
    BY DEF Start
  <2>5. Ahead' = IF ShowsLocals(graph) THEN From(LocalTexts(graph), 1)
                 ELSE IF graph.objs[graph.root].type \in builtinTypes THEN SlotsAhead(graph, Start)
                 ELSE From(BaseTexts(graph), 1) \o SlotsAhead(graph, Start)
    <3>1. CASE HasLocals
      BY <2>3, <2>4, <3>1 DEF Ahead
    <3>2. CASE ~HasLocals /\ Root.type \in builtinTypes
      BY <2>3, <3>2 DEF Ahead, Root
    <3>3. CASE ~HasLocals /\ Root.type \notin builtinTypes
      BY <2>3, <2>4, <3>3, SMTT(30) DEF Ahead, Root
    <3> QED  BY <3>1, <3>2, <3>3
  <2> DEFINE a == Ahead'
  <2>6. a \o rem = Details(graph) /\ Details(graph) \in Seq(Tok)
    <3> DEFINE x == IF ShowsLocals(graph) THEN From(LocalTexts(graph), 1)
                    ELSE IF graph.objs[graph.root].type \in builtinTypes THEN SlotsAhead(graph, Start)
                    ELSE From(BaseTexts(graph), 1) \o SlotsAhead(graph, Start)
    <3>1. x \o rem = Details(graph) /\ Details(graph) \in Seq(Tok)
      BY <2>1, DetailsStart
    <3> QED  BY <2>5, <3>1
  <2>7. Left' = <<>> \o (<<>> \o Details(graph))
    <3>1. Due(graph, stack)' = <<>> /\ Found(graph, jobs)' = <<>>
      BY NoneDue
    <3>2. Closing' = rem
      BY <1>1 DEF Closing
    <3>3. Left' = Due(graph, stack)' \o (Found(graph, jobs)' \o (Ahead' \o Closing'))
      BY DEF Left
    <3> QED  BY <2>6, <3>1, <3>2, <3>3, Zenon
  <2> DEFINE z == Details(graph)
  <2> HIDE DEF z
  <2>8. <<>> \o z = z
    BY <2>6, ConcatNone DEF z
  <2> QED  BY <2>7, <2>8, Zenon DEF z
<1> QED  BY <1>1, <1>2 DEF TextInv

(* Making the object and starting to show it. *)
LEMMA MakeWrites ==
    ASSUME Holding, PhaseOK, Make, pc' # "failed"
    PROVE  PhasesInv' /\ TextInv'
<1> DEFINE call == Call(graph.root, KindOf(graph, graph.root))
<1>1. /\ pc = "make" /\ Readable(graph.root)
      /\ UNCHANGED <<graph, cursor, jobs, text>>
      /\ \/ /\ graph.command.name = "pyinterpreterframe" /\ pc' = "locals" /\ stack' = stack
            /\ printed' = printed
         \/ /\ graph.command.name # "pyinterpreterframe" /\ pc' = "repr" /\ stack' = <<call>>
            /\ printed' = <<Header(graph)>>
  BY DEF Make, Throw, Header
<1>2. TypeOK /\ IsGraph(graph) /\ PhasesInv /\ cursor \in Cursors /\ text \in Seq(Tok)
  BY HoldingIs
<1>3. Rooted(graph)
  BY <1>1, <1>2 DEF Rooted, Readable
<1>4. /\ text = <<>> /\ printed = <<>> /\ jobs = <<>> /\ stack = <<>> /\ cursor = Start
      /\ cursor.type >= 1 /\ cursor.member >= 1
      /\ \A j \in DOMAIN jobs : jobs[j].next = 0
  BY <1>1, <1>2 DEF PhasesInv, PhaseOK
<1>5. printed' \in Seq(Seq(Tok))
  <2>1. <<Header(graph)>> \in Seq(Seq(Tok))
    BY <1>3, HeaderIs
  <2>2. printed' = <<>> \/ printed' = <<Header(graph)>>
    BY <1>1, <1>4
  <2>3. <<>> \in Seq(Seq(Tok))
    OBVIOUS
  <2> QED  BY <2>1, <2>2, <2>3, Zenon
<1>6. graph.command.name = "pyinterpreterframe" /\ Ordinary(graph) => HasLocals
  BY DEF Ordinary, Consistent, HasLocals, ShowsLocals
<1>7. PhasesInv'
  BY <1>1, <1>2, <1>4, <1>5, <1>6 DEF PhasesInv, HasLocals, Root
<1>8. CASE /\ graph.command.name = "pyinterpreterframe" /\ pc' = "locals" /\ stack' = stack
           /\ printed' = printed
  <2>1. CASE ~Ordinary(graph)
    BY <1>1, <1>7, <2>1 DEF TextInv
  <2>2. CASE Ordinary(graph)
    <3>1. FlattenSeq(printed' \o Heading(graph)) \o Details(graph) = Expected(graph)
      <4>1. printed' = <<>> /\ Heading(graph) = <<Header(graph)>>
        BY <1>4, <1>8 DEF Heading, Header
      <4> DEFINE h == <<Header(graph)>>
      <4>2. h \in Seq(Seq(Tok)) /\ FlattenSeq(h) = Header(graph)
        BY <1>3, HeaderIs
      <4> HIDE DEF h
      <4>3. <<>> \o h = h
        BY <4>2, ConcatNone
      <4>4. FlattenSeq(printed' \o Heading(graph)) = Header(graph)
        BY <4>1, <4>2, <4>3, Zenon DEF h
      <4>5. Expected(graph) = Header(graph) \o Details(graph)
        BY <1>8 DEF Expected
      <4> QED  BY <4>4, <4>5, Zenon
    <3>2. pc' = IF HasLocals THEN "locals"
                ELSE IF Root.type \in builtinTypes THEN "slots" ELSE "bases"
      BY <1>6, <1>8, <2>2
    <3>3. cursor' = Start /\ stack' = <<>> /\ jobs' = <<>> /\ text' = <<>> /\ graph' = graph
      BY <1>1, <1>4, <1>8
    <3> QED  BY <1>2, <1>3, <1>7, <3>1, <3>2, <3>3, StartsDetails
  <2> QED  BY <1>7, <2>1, <2>2
<1>9. CASE pc' = "repr" /\ stack' = <<call>> /\ printed' = <<Header(graph)>>
  <2>1. call \in CallRecord /\ call.at = graph.root /\ call.at \in DOMAIN graph.objs
        /\ call.as = KindOf(graph, graph.root) /\ call.next = 0
    BY <1>1, <1>2, ObjectsTyped DEF Call, CallRecord, Readable
  <2> HIDE DEF call
  <2>2. Due(graph, <<call>>) = Whole(graph, graph.root) /\ Whole(graph, graph.root) \in Seq(Tok)
    <3>1. /\ Due(graph, <<call>>) = TextOf(graph, call.at, call.as)
          /\ TextOf(graph, call.at, call.as) \in Seq(Tok)
      BY <1>2, <2>1, FirstDue
    <3> QED  BY <2>1, <3>1, Zenon DEF Whole
  <2> DEFINE w == Whole(graph, graph.root)
  <2> HIDE DEF w
  <2>3. <<>> \o w = w
    BY <2>2, ConcatNone DEF w
  <2>4. text' \o Due(graph, stack)' = w
    BY <1>1, <1>4, <1>9, <2>2, <2>3 DEF w
  <2>5. pc' \notin Detailing /\ pc' # "done"
    BY <1>9 DEF Detailing
  <2> QED  BY <1>1, <1>7, <1>9, <2>4, <2>5 DEF TextInv, w
<1> QED  BY <1>1, <1>8, <1>9

(* The repr is printed, and it is whole.                                   *)
LEMMA PrintedJoin ==
    ASSUME NEW p \in Seq(Seq(Tok)), NEW content \in Seq(Tok)
    PROVE  /\ p \o Chunks(content) \in Seq(Seq(Tok))
           /\ FlattenSeq(p \o Chunks(content)) = FlattenSeq(p) \o content
<1> DEFINE c == Chunks(content)
<1>1. c \in Seq(Seq(Tok)) /\ FlattenSeq(c) = content
  BY ChunksJoin
<1> HIDE DEF c
<1>2. p \o c \in Seq(Seq(Tok))
  BY <1>1, ConcatTyped
<1>3. FlattenSeq(p \o c) = FlattenSeq(p) \o FlattenSeq(c)
  BY <1>1, FlattenConcat
<1> QED  BY <1>1, <1>2, <1>3, Zenon DEF c

(* What is written when repr() has returned. *)
LEMMA ReprIs ==
    ASSUME Holding, pc = "repr", stack = <<>>
    PROVE  /\ Readable(graph.root) /\ Rooted(graph)
           /\ Ordinary(graph) => text = Whole(graph, graph.root) /\ printed = <<Header(graph)>>
<1>1. /\ IsGraph(graph) /\ RootKnown /\ TextInv /\ text \in Seq(Tok)
  BY HoldingIs
<1>2. Readable(graph.root) /\ Rooted(graph)
  BY <1>1 DEF RootKnown, Rooted, Readable
<1>3. ASSUME Ordinary(graph)
      PROVE  text = Whole(graph, graph.root) /\ printed = <<Header(graph)>>
  <2> DEFINE said == text
  <2>1. said \in Seq(Tok)
    BY <1>1
  <2>2. said \o Due(graph, <<>>) = Whole(graph, graph.root) /\ printed = <<Header(graph)>>
    BY <1>1, <1>3 DEF TextInv
  <2> HIDE DEF said
  <2>3. said \o <<>> = said
    BY <2>1, ConcatNone
  <2>4. said = Whole(graph, graph.root)
    BY <2>2, <2>3, NoneDue
  <2> QED  BY <2>2, <2>4 DEF said
<1> QED  BY <1>2, <1>3

(* !pyobj prints the repr and starts the details. *)
LEMMA EndReprPrints ==
    ASSUME Holding, PhaseOK, EndRepr
    PROVE  PhasesInv' /\ TextInv'
<1>1. /\ pc = "repr" /\ stack = <<>> /\ graph.command.name # "struct"
      /\ printed' = printed \o Chunks(text) /\ text' = <<>>
      /\ pc' = IF HasLocals THEN "locals"
               ELSE IF Root.type \in builtinTypes THEN "slots" ELSE "bases"
      /\ UNCHANGED <<graph, stack, cursor, jobs>>
  BY DEF EndRepr
<1>2. /\ TypeOK /\ PhasesInv /\ printed \in Seq(Seq(Tok)) /\ text \in Seq(Tok)
      /\ IsGraph(graph)
  BY <1>1, HoldingIs
<1>3. /\ Readable(graph.root) /\ Rooted(graph)
      /\ Ordinary(graph) => text = Whole(graph, graph.root) /\ printed = <<Header(graph)>>
  BY <1>1, ReprIs
<1>4. cursor = Start /\ jobs = <<>> /\ graph.command.name # "pyinterpreterframe"
  BY <1>1, <1>2 DEF PhaseOK, PhasesInv
<1>5. /\ printed' \in Seq(Seq(Tok))
      /\ FlattenSeq(printed') = FlattenSeq(printed) \o text
  BY <1>1, <1>2, PrintedJoin, Zenon
<1>6. <<>> \in Seq(Tok)
  OBVIOUS
<1>7. PhasesInv'
  BY <1>1, <1>2, <1>4, <1>5, <1>6 DEF PhasesInv, HasLocals, Root
<1>8. ASSUME Ordinary(graph)
      PROVE  FlattenSeq(printed' \o Heading(graph)) \o Details(graph) = Expected(graph)
  <2>0. printed' \o Heading(graph) = printed'
    <3>1. Heading(graph) = <<>>
      BY <1>4 DEF Heading
    <3> QED  BY <1>5, <3>1, ConcatNone
  <2>1. FlattenSeq(printed') = Header(graph) \o Whole(graph, graph.root)
    BY <1>3, <1>5, <1>8, HeaderIs, Zenon
  <2>2. graph.command.name = "pyobj"
    BY <1>1, <1>2, <1>4 DEF IsGraph, CommandRecord
  <2>3. Expected(graph) = (Header(graph) \o Whole(graph, graph.root)) \o Details(graph)
    BY <2>2 DEF Expected
  <2> QED  BY <2>0, <2>1, <2>3, Zenon
<1>9. cursor' = Start /\ stack' = <<>> /\ jobs' = <<>> /\ graph' = graph
  BY <1>1, <1>4
<1> QED  BY <1>1, <1>2, <1>3, <1>7, <1>8, <1>9, StartsDetails

-----------------------------------------------------------------------------

(* What is printed at the end. *)

(* The handler of known structs prints the line, or a message on it.       *)
LEMMA AppendPrints ==
    ASSUME Holding, CommandInv, AppendRepr, pc' # "failed"
    PROVE  PhasesInv' /\ TextInv'
<1> DEFINE line == printed[1]
           long == <<Token("toolong", graph.root)>>
           shown == IF TooLong(Len(line)) THEN long ELSE text
           h == Header(graph)
           own == Whole(graph, graph.root)
<1>1. /\ pc = "repr" /\ stack = <<>> /\ graph.command.name = "struct"
      /\ printed' = <<line \o shown>> /\ pc' = "done"
      /\ UNCHANGED <<graph, stack, cursor, jobs, text>>
  BY DEF AppendRepr, Throw
<1>2. /\ TypeOK /\ PhasesInv /\ printed \in Seq(Seq(Tok)) /\ text \in Seq(Tok)
      /\ IsGraph(graph)
  BY <1>1, HoldingIs
<1>3. /\ Readable(graph.root) /\ Rooted(graph)
      /\ Ordinary(graph) => text = own /\ printed = <<h>>
  BY <1>1, ReprIs
<1>4. long \in Seq(Tok)
  <2>1. graph.root \in Addresses
    BY <1>2 DEF IsGraph
  <2> QED  BY <2>1, WrittenIs, TokenTyped, Zenon
<1>5. shown \in Seq(Tok)
  BY <1>2, <1>4, Zenon
<1>6. line \in Seq(Tok)
  <2>1. Len(printed) >= 1
    BY <1>1 DEF CommandInv, OutputOK
  <2> QED  BY <1>2, <2>1
<1>7. Ordinary(graph) => line = h /\ line \o shown = Expected(graph)
  <2> SUFFICES ASSUME Ordinary(graph) PROVE line = h /\ line \o shown = Expected(graph)
    OBVIOUS
  <2>1. line = h /\ Len(h) = 1 /\ h \in Seq(Tok)
    <3>1. Len(h) = 1 /\ h \in Seq(Tok)
      BY <1>3, HeaderIs
    <3> HIDE DEF h
    <3>2. <<h>>[1] = h
      OBVIOUS
    <3> QED  BY <1>3, <3>1, <3>2, Zenon
  <2>2. text = own /\ own \in Seq(Tok)
    BY <1>2, <1>3
  <2>3. Expected(graph) = h \o (IF Len(h \o own) <= AppendLimit THEN own ELSE long)
    BY <1>1 DEF Expected
  <2>4. TooLong(Len(line)) <=> ~(Len(h \o own) <= AppendLimit)
    <3>1. AppendLimit \in Nat
      BY ReprAssumption
    <3> HIDE DEF h, own
    <3>2. Len(h \o own) = Len(h) + Len(own) /\ Len(own) \in Nat
      <4>1. h \in Seq(Tok) /\ own \in Seq(Tok)
        BY <2>1, <2>2
      <4> QED  BY <4>1, ConcatProperties
    <3>3. TooLong(Len(line)) <=> Len(own) > AppendLimit \/ Len(h) > AppendLimit - Len(own)
      BY <2>1, <2>2 DEF TooLong
    <3> DEFINE n == Len(own)  m == Len(h)  r == AppendLimit
    <3>4. n \in Nat /\ m = 1 /\ r \in Nat
      BY <2>1, <3>1, <3>2
    <3> HIDE DEF n, m, r
    <3>5. (n > r \/ m > r - n) <=> ~(m + n <= r)
      BY <3>4
    <3> QED  BY <3>2, <3>3, <3>5 DEF n, m, r
  <2>5. shown = IF Len(h \o own) <= AppendLimit THEN own ELSE long
    BY <2>2, <2>4, Zenon
  <2> QED  BY <2>1, <2>3, <2>5, Zenon
<1> DEFINE out == line \o shown
<1> HIDE DEF line, shown
<1>8. out \in Seq(Tok)
  BY <1>5, <1>6, ConcatTyped
<1> HIDE DEF out
<1>9. <<out>> \in Seq(Seq(Tok)) /\ FlattenSeq(<<out>>) = out
  BY <1>8, FlattenOne
<1>10. printed' = <<out>>
  BY <1>1 DEF out
<1>11. PhasesInv'
  BY <1>1, <1>2, <1>9, <1>10 DEF PhasesInv
<1>12. Ordinary(graph) => FlattenSeq(printed') = Expected(graph)
  BY <1>7, <1>9, <1>10, Zenon DEF out
<1> QED  BY <1>1, <1>11, <1>12 DEF TextInv, Detailing

(* The details are printed, and they are whole.                            *)
LEMMA EndDetailsPrints ==
    ASSUME Holding, EndDetails
    PROVE  PhasesInv' /\ TextInv'
<1> DEFINE e == Extents(Root.extents)
           content == text \o e
<1>1. /\ pc = "dict" /\ stack = <<>> /\ pc' = "done"
      /\ printed' = (printed \o Heading(graph)) \o Chunks(content) /\ text' = <<>>
      /\ UNCHANGED <<graph, stack, cursor, jobs>>
  BY DEF EndDetails
<1>2. pc \in Detailing
  BY <1>1 DEF Detailing
<1>3. /\ TypeOK /\ PhasesInv /\ TextInv /\ Rooted(graph) /\ Root = graph.objs[graph.root]
      /\ printed \in Seq(Seq(Tok)) /\ text \in Seq(Tok)
  BY <1>1, <1>2, DetailsIs, HoldingIs
<1>4. PhasesInv'
  <2>1. <<>> \in Seq(Tok)
    OBVIOUS
  <2> QED  BY <1>1, <1>3, <2>1 DEF PhasesInv
<1>5. ASSUME Ordinary(graph) PROVE FlattenSeq(printed') = Expected(graph)
  <2> DEFINE said == text  p == printed \o Heading(graph)
  <2>1. said \in Seq(Tok) /\ p \in Seq(Seq(Tok)) /\ jobs = <<>>
    <3>1. Heading(graph) \in Seq(Seq(Tok))
      <4>1. <<Header(graph)>> \in Seq(Seq(Tok))
        BY <1>3, HeaderIs
      <4>2. Heading(graph) = <<>> \/ Heading(graph) = <<Header(graph)>>
        BY DEF Heading, Header
      <4>3. <<>> \in Seq(Seq(Tok))
        OBVIOUS
      <4> QED  BY <4>1, <4>2, <4>3, Zenon
    <3>2. p \in Seq(Seq(Tok))
      BY <1>3, <3>1, ConcatTyped
    <3> QED  BY <1>1, <1>3, <3>2 DEF PhasesInv
  <2>2. e = ExtentsText(graph) /\ e \in Seq(Tok)
    BY <1>3, <1>5, ExtentsAre DEF Ordinary
  <2>3. /\ FlattenSeq(p) \o Details(graph) = Expected(graph)
        /\ said \o Left = Details(graph)
    BY <1>2, <1>3, <1>5 DEF TextInv
  <2>4. Left = <<>> \o (<<>> \o (<<>> \o (<<>> \o e)))
    <3>1. Ahead = <<>> /\ Closing = <<>> \o e
      BY <1>1, <2>2 DEF Ahead, Closing
    <3> QED  BY <1>1, <2>1, <3>1, NoneDue, Zenon DEF Left
  <2> HIDE DEF said, p, e
  <2>5. <<>> \o e = e
    BY <2>2, ConcatNone
  <2>6. content = Details(graph)
    BY <2>3, <2>4, <2>5, Zenon DEF said
  <2>7. said \o e \in Seq(Tok)
    BY <2>1, <2>2, ConcatTyped
  <2> DEFINE c == said \o e
  <2> HIDE DEF c
  <2>8. FlattenSeq(p \o Chunks(c)) = FlattenSeq(p) \o c
    BY <2>1, <2>7, PrintedJoin, Zenon DEF c
  <2>9. printed' = p \o Chunks(c) /\ c = content
    BY <1>1 DEF c, said, p
  <2> QED  BY <2>3, <2>6, <2>8, <2>9, Zenon
<1> QED  BY <1>1, <1>4, <1>5 DEF TextInv, Detailing

-----------------------------------------------------------------------------

(* A command that ends before its time; and every step. *)

(* A step that fails writes nothing.                                       *)
LEMMA FailedPhases ==
    ASSUME PhasesInv, pc # "done", pc' = "failed", UNCHANGED <<graph, jobs, text, printed>>,
           cursor'.type >= 1, cursor'.member >= 1
    PROVE  PhasesInv' /\ TextInv'
<1>1. PhasesInv'
  BY DEF PhasesInv, HasLocals, Root
<1>2. TextInv'
  BY DEF TextInv, Detailing
<1> QED  BY <1>1, <1>2

(* A step that throws ends the command. *)
LEMMA ThrownPhases ==
    ASSUME PhasesInv, pc # "done", Throw
    PROVE  PhasesInv' /\ TextInv'
BY FailedPhases DEF Throw, PhasesInv

(* Every step writes what was due. *)
LEMMA TextStep ==
    ASSUME Holding, CommandInv, [Next]_vars
    PROVE  PhasesInv' /\ TextInv'
<1>1. /\ TypeOK /\ PhasesInv /\ TextInv /\ PhaseOK /\ cursor \in Cursors /\ IsGraph(graph)
  BY HoldingIs DEF CommandInv
<1>2. cursor.type \in Nat /\ cursor.member \in Nat /\ cursor.type >= 1 /\ cursor.member >= 1
  BY <1>1 DEF Cursors, PhasesInv
<1>3. CASE Make
  <2>1. CASE pc' # "failed"
    BY <1>1, <1>3, <2>1, MakeWrites
  <2>2. CASE pc' = "failed"
    <3>1. Throw /\ pc # "done"
      BY <1>3, <2>2 DEF Make
    <3> QED  BY <1>1, <3>1, ThrownPhases
  <2> QED  BY <2>1, <2>2
<1>4. ASSUME Running PROVE pc # "done" /\ pc # "failed"
  BY <1>4 DEF Running, Calling
<1>5. CASE ReprValue
  <2>1. CASE pc' # "failed"
    BY <1>5, <2>1, ValueWrites
  <2>2. CASE pc' = "failed"
    <3>1. Throw /\ pc # "done"
      BY <1>4, <1>5, <2>2 DEF ReprValue
    <3> QED  BY <1>1, <3>1, ThrownPhases
  <2> QED  BY <2>1, <2>2
<1>6. CASE OpenSequence \/ OpenCell \/ OpenTable
  <2>1. CASE pc' # "failed"
    BY <1>6, <2>1, OpenWrites
  <2>2. CASE pc' = "failed"
    <3>1. Throw /\ pc # "done"
      BY <1>4, <1>6, <2>2 DEF OpenSequence, OpenCell, OpenTable
    <3> QED  BY <1>1, <3>1, ThrownPhases
  <2> QED  BY <2>1, <2>2
<1>7. CASE NullField
  BY <1>7, NullWrites
<1>8. CASE Item
  <2>1. CASE pc' # "failed"
    BY <1>8, <2>1, ItemWrites
  <2>2. CASE pc' = "failed"
    <3>1. Throw /\ pc # "done"
      BY <1>4, <1>8, <2>2 DEF Item, CallRepr
    <3> QED  BY <1>1, <3>1, ThrownPhases
  <2> QED  BY <2>1, <2>2
<1>9. CASE Close
  BY <1>9, CloseWrites
<1>10. CASE AppendRepr
  <2>1. CASE pc' # "failed"
    BY <1>10, <2>1, AppendPrints
  <2>2. CASE pc' = "failed"
    <3>1. Throw /\ pc # "done"
      BY <1>10, <2>2 DEF AppendRepr
    <3> QED  BY <1>1, <3>1, ThrownPhases
  <2> QED  BY <2>1, <2>2
<1>11. CASE EndRepr
  BY <1>1, <1>11, EndReprPrints
<1>12. CASE Base
  BY <1>12, BaseMoves
<1>13. CASE EndBases
  BY <1>13, EndBasesMoves
<1>14. CASE Slot
  <2>1. CASE pc' # "failed"
    BY <1>1, <1>14, <2>1, SlotMoves
  <2>2. CASE pc' = "failed"
    <3>1. pc # "done" /\ UNCHANGED <<graph, text, printed>>
      BY <1>14 DEF Slot
    <3>2. jobs' = jobs
      BY <1>14, <2>2 DEF Slot, Collect
    <3>3. \/ cursor' = [type |-> cursor.type + 1, member |-> 1]
          \/ cursor' = [cursor EXCEPT !.member = @ + 1]
      BY <1>14 DEF Slot
    <3>4. cursor'.type >= 1 /\ cursor'.member >= 1
      BY <1>1, <1>2, <3>3 DEF Cursors
    <3> QED  BY <1>1, <2>2, <3>1, <3>2, <3>4, FailedPhases
  <2> QED  BY <2>1, <2>2
<1>15. CASE Local
  <2>1. CASE pc' # "failed"
    BY <1>15, <2>1, LocalMoves
  <2>2. CASE pc' = "failed"
    <3>1. pc # "done" /\ UNCHANGED <<graph, text, printed>>
      BY <1>15 DEF Local
    <3>2. jobs' = jobs
      BY <1>15, <2>2 DEF Local, Collect
    <3>3. cursor' = [cursor EXCEPT !.member = @ + 1]
      BY <1>15 DEF Local
    <3>4. cursor'.type >= 1 /\ cursor'.member >= 1
      BY <1>1, <1>2, <3>3 DEF Cursors
    <3> QED  BY <1>1, <2>2, <3>1, <3>2, <3>4, FailedPhases
  <2> QED  BY <2>1, <2>2
<1>16. CASE EndCollecting
  BY <1>16, EndCollectingMoves
<1>17. CASE NextJob
  BY <1>17, NextJobMoves
<1>18. CASE ShowDict
  <2>1. CASE pc' # "failed"
    BY <1>18, <2>1, DictMoves
  <2>2. CASE pc' = "failed"
    <3>1. Throw /\ pc # "done"
      BY <1>18, <2>2 DEF ShowDict
    <3> QED  BY <1>1, <3>1, ThrownPhases
  <2> QED  BY <2>1, <2>2
<1>19. CASE EndDetails
  BY <1>19, EndDetailsPrints
<1>20. CASE UNCHANGED vars
  <2>1. UNCHANGED <<graph, pc, stack, cursor, jobs, text, printed>>
    BY <1>20 DEF vars
  <2>2. PhasesInv'
    BY <1>1, <2>1 DEF PhasesInv, HasLocals, Root
  <2>3. Left' = Left
    <3>1. Ahead' = Ahead /\ Closing' = Closing
      BY <2>1 DEF Ahead, Closing
    <3>2. Due(graph, stack)' = Due(graph, stack) /\ Found(graph, jobs)' = Found(graph, jobs)
      BY <2>1
    <3>3. Left' = Due(graph, stack)' \o (Found(graph, jobs)' \o (Ahead' \o Closing'))
      BY DEF Left
    <3> QED  BY <3>1, <3>2, <3>3, Zenon DEF Left
  <2>4. TextInv'
    BY <1>1, <2>1, <2>3 DEF TextInv
  <2> QED  BY <2>2, <2>4
<1> QED
  BY <1>3, <1>5, <1>6, <1>7, <1>8, <1>9, <1>10, <1>11, <1>12, <1>13, <1>14, <1>15, <1>16,
     <1>17, <1>18, <1>19, <1>20 DEF Next, Step, Finished

(* What is written and what is left to write is the text of the graph, at  *)
(* every step of every command: for any graph, any nesting, any table of   *)
(* types and any size of the outputs.                                      *)
THEOREM TextInvariance == Spec => [](PhasesInv /\ TextInv)
<1>1. Init => PhasesInv /\ TextInv
  <2> SUFFICES ASSUME Init PROVE PhasesInv /\ TextInv
    OBVIOUS
  <2>1. /\ pc = "make" /\ stack = <<>> /\ cursor = Start /\ jobs = <<>> /\ text = <<>>
        /\ printed = <<>>
    BY DEF Init
  <2>2. <<>> \in Seq(Tok) /\ <<>> \in Seq(Seq(Tok)) /\ DOMAIN <<>> = {}
    OBVIOUS
  <2> QED  BY <2>1, <2>2 DEF PhasesInv, TextInv, Detailing, Start
<1>2. InductiveInv /\ CommandInv /\ (PhasesInv /\ TextInv) /\ [Next]_vars => (PhasesInv /\ TextInv)'
  BY TextStep DEF Holding
<1> QED  BY <1>1, <1>2, CallsAreGood, CommandInvariance, PTL DEF Spec

(* A command that gets to its end has printed the header, the repr and the *)
(* details of its object: every item once, in order, under its container   *)
(* (PyObject::repr and details, and the printDml and Append that write it).*)
THEOREM GraphIsPrinted == Spec => []PrintsTheGraph
<1>1. PhasesInv /\ TextInv => PrintsTheGraph
  BY DEF TextInv, PrintsTheGraph
<1> QED  BY <1>1, TextInvariance, PTL
=============================================================================
