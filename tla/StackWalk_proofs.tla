-------------------------- MODULE StackWalk_proofs --------------------------
(***************************************************************************)
(* Proofs about StackWalk for every set of memories and requests, and that *)
(* the walk of !pystack implements what StackReport promises.              *)
(***************************************************************************)
EXTENDS StackWalk, SequenceTheorems, TLAPS

(* What the lists of a well-formed memory contain. *)
LEMMA MemoryTyped ==
    ASSUME NEW m \in Memory
    PROVE  /\ m.interps \in Seq(InterpRecord)
           /\ m.object \in StackRecord /\ m.object.frames # <<>>
           /\ \A i \in 1..Len(m.interps) :
                 m.interps[i].threads \in Seq(ThreadRecord)
           /\ \A i \in 1..Len(m.interps) :
                 \A t \in 1..Len(m.interps[i].threads) :
                    m.interps[i].threads[t] \in ThreadRecord
<1>1. m.interps \in Seq(InterpRecord) /\ m.object \in StackRecord
      /\ m.object.frames # <<>>
  BY DEF Memory
<1>2. ASSUME NEW i \in 1..Len(m.interps)
      PROVE  m.interps[i].threads \in Seq(ThreadRecord)
  <2>1. m.interps[i] \in InterpRecord
    BY <1>1
  <2> QED  BY <2>1 DEF InterpRecord
<1> QED  BY <1>1, <1>2

LEMMA StackTyped ==
    ASSUME NEW m \in Memory, NEW s \in StackRecord
    PROVE  /\ s.frames \in Seq(FrameRecord) /\ s.back \in 0..Len(s.frames)
           /\ Len(s.frames) \in Nat
           /\ \A p \in 1..Len(s.frames) : /\ s.frames[p] \in FrameRecord
                                          /\ BackOf(s, p) \in 0..Len(s.frames)
BY DEF StackRecord, BackOf

(* The chain of an open block is a well-formed chain. *)
LEMMA StackAtTyped ==
    ASSUME NEW m \in Memory, NEW at,
           at = <<0, 0>> \/ (/\ at[1] \in 1..Len(m.interps)
                             /\ at[2] \in 1..Len(m.interps[at[1]].threads))
    PROVE  StackAt(m, at) \in StackRecord
<1>1. CASE at = <<0, 0>>
  BY <1>1, MemoryTyped DEF StackAt
<1>2. CASE at # <<0, 0>>
  <2>1. m.interps[at[1]].threads[at[2]] \in ThreadRecord
    BY <1>2, MemoryTyped
  <2> QED  BY <1>2, <2>1 DEF StackAt, ThreadRecord
<1> QED  BY <1>1, <1>2

LEMMA AutoTyped ==
    ASSUME NEW m \in Memory, Resolves(m)
    PROVE  AutoInterpreterState(m) \in Nat
<1>1. m.roots \in [1..3 -> Int]
  BY DEF Memory
<1> QED  BY <1>1 DEF Resolves, AutoInterpreterState

-----------------------------------------------------------------------------
(* The three ways a step changes the report. *)

LEMMA OpenedBlock ==
    ASSUME NEW r \in Seq(Block), NEW at \in Nat \X Nat,
           NEW r2, r2 = Append(r, NewBlock(at))
    PROVE  /\ r2 \in Seq(Block)
           /\ Len(r2) = Len(r) + 1
           /\ \A k \in 1..Len(r) : r2[k] = r[k]
           /\ r2[Len(r2)] = NewBlock(at)
<1>1. NewBlock(at) \in Block
  BY DEF NewBlock, Block, Outcomes
<1> QED  BY <1>1

LEMMA ClosedBlock ==
    ASSUME NEW r \in Seq(Block), r # <<>>, NEW e \in Outcomes,
           NEW r2, r2 = [r EXCEPT ![Len(r)].end = e]
    PROVE  /\ r2 \in Seq(Block)
           /\ Len(r2) = Len(r)
           /\ \A k \in 1..Len(r) : k # Len(r) => r2[k] = r[k]
           /\ r2[Len(r2)].at = r[Len(r)].at
           /\ r2[Len(r2)].shown = r[Len(r)].shown
           /\ r2[Len(r2)].end = e
<1> DEFINE B == [r[Len(r)] EXCEPT !.end = e]
<1>1. r[Len(r)] \in Block /\ Len(r) \in 1..Len(r)
  OBVIOUS
<1>2. /\ B \in Block
      /\ B.at = r[Len(r)].at
      /\ B.shown = r[Len(r)].shown
      /\ B.end = e
  BY <1>1 DEF Block
<1>3. r2 = [r EXCEPT ![Len(r)] = B]
  OBVIOUS
<1> HIDE DEF B
<1> QED  BY <1>1, <1>2, <1>3, ExceptSeq

(* The same of the last block, whatever r2 is called where it is used. *)
Closing(r, e) == [r EXCEPT ![Len(r)].end = e]
IsClosed(r, r2, e) ==
    /\ r2 \in Seq(Block) /\ Len(r2) = Len(r)
    /\ \A k \in 1..Len(r) : k # Len(r) => r2[k] = r[k]
    /\ r2[Len(r2)].at = r[Len(r)].at
    /\ r2[Len(r2)].shown = r[Len(r)].shown
    /\ r2[Len(r2)].end = e

(* A block that is closed changes in its end alone.                        *)
LEMMA ClosedReport ==
    ASSUME NEW r \in Seq(Block), r # <<>>, NEW e \in Outcomes
    PROVE  IsClosed(r, Closing(r, e), e)
<1> DEFINE r2 == Closing(r, e)
<1>1. r2 = [r EXCEPT ![Len(r)].end = e]
  BY DEF Closing
<1> HIDE DEF r2
<1>2. /\ r2 \in Seq(Block) /\ Len(r2) = Len(r)
      /\ \A k \in 1..Len(r) : k # Len(r) => r2[k] = r[k]
      /\ r2[Len(r2)].at = r[Len(r)].at
      /\ r2[Len(r2)].shown = r[Len(r)].shown
      /\ r2[Len(r2)].end = e
  BY <1>1, ClosedBlock
<1>3. IsClosed(r, r2, e)
  BY <1>2, Zenon DEF IsClosed
<1> QED  BY <1>3 DEF r2

LEMMA ShownFrame ==
    ASSUME NEW r \in Seq(Block), r # <<>>, NEW x \in Seq(Nat),
           NEW r2, r2 = [r EXCEPT ![Len(r)].shown = x]
    PROVE  /\ r2 \in Seq(Block)
           /\ Len(r2) = Len(r)
           /\ \A k \in 1..Len(r) : k # Len(r) => r2[k] = r[k]
           /\ r2[Len(r2)].at = r[Len(r)].at
           /\ r2[Len(r2)].shown = x
           /\ r2[Len(r2)].end = r[Len(r)].end
<1> DEFINE B == [r[Len(r)] EXCEPT !.shown = x]
<1>1. r[Len(r)] \in Block /\ Len(r) \in 1..Len(r)
  OBVIOUS
<1>2. /\ B \in Block
      /\ B.at = r[Len(r)].at
      /\ B.shown = x
      /\ B.end = r[Len(r)].end
  BY <1>1 DEF Block
<1>3. r2 = [r EXCEPT ![Len(r)] = B]
  OBVIOUS
<1> HIDE DEF B
<1> QED  BY <1>1, <1>2, <1>3, ExceptSeq

(* A list of lines with one more: the last is the new one. *)
LEMMA Appended ==
    ASSUME NEW s \in Seq(Nat), NEW e \in Nat
    PROVE  LET x == Append(s, e)
           IN  /\ x \in Seq(Nat) /\ x # <<>> /\ Len(x) = Len(s) + 1
               /\ x[Len(x)] = e
               /\ \A j \in DOMAIN s : x[j] = s[j]
               /\ DOMAIN x = 1..Len(x) /\ DOMAIN s = 1..Len(s)
               /\ Len(s) \in Nat
               /\ s = <<>> <=> Len(s) = 0
OBVIOUS

-----------------------------------------------------------------------------
(* The inductive step, one lemma per action. *)

LEMMA StartInv == InductiveInv /\ Start => InductiveInv'
BY DEF InductiveInv, TypeOK, CursorOK, WalkOK, NothingLeftOut, Start, Goto, Throw,
       walk, Walking, Labels, IsOpen, LastBlock, LastPos, Named, Stack, ObjectChain

LEMMA CurrentThreadIdsInv == InductiveInv /\ CurrentThreadIds => InductiveInv'
BY DEF InductiveInv, TypeOK, CursorOK, WalkOK, NothingLeftOut, CurrentThreadIds, Goto, Throw,
       walk, Walking, Labels, IsOpen, LastBlock, LastPos, Named, Stack, ObjectChain

LEMMA MakeAutoInterpreterStateInv == InductiveInv /\ MakeAutoInterpreterState => InductiveInv'
BY AutoTyped
   DEF InductiveInv, TypeOK, CursorOK, WalkOK, NothingLeftOut, MakeAutoInterpreterState, Goto, Throw,
       walk, Walking, Labels, IsOpen, LastBlock, LastPos, Named, Stack, ObjectChain

LEMMA TstateHeadInv == InductiveInv /\ TstateHead => InductiveInv'
BY DEF InductiveInv, TypeOK, CursorOK, WalkOK, NothingLeftOut, TstateHead, Readable, IsThread, Goto, Throw,
       walk, Walking, Labels, IsOpen, LastBlock, LastPos, Named, Stack, ObjectChain

LEMMA NextThreadInv == InductiveInv /\ NextThread => InductiveInv'
BY SMTT(30) DEF InductiveInv, TypeOK, CursorOK, WalkOK, NothingLeftOut, NextThread, IsThread, Goto, Throw,
       walk, Walking, Labels, IsOpen, LastBlock, LastPos, Named, Stack, ObjectChain

LEMMA FrameToCommandStringInv == InductiveInv /\ FrameToCommandString => InductiveInv'
BY DEF InductiveInv, TypeOK, CursorOK, WalkOK, NothingLeftOut, FrameToCommandString, Goto, Throw,
       walk, Walking, Labels, IsOpen, LastBlock, LastPos, Named, Stack, ObjectChain

LEMMA LeaveInv == InductiveInv /\ Leave => InductiveInv'
BY DEF InductiveInv, TypeOK, CursorOK, WalkOK, NothingLeftOut, Leave, Goto, Throw,
       walk, Walking, Labels, IsOpen, LastBlock, LastPos, Named, Stack, ObjectChain

LEMMA ReturnedInv == InductiveInv /\ Returned => InductiveInv'
BY DEF InductiveInv, TypeOK, CursorOK, WalkOK, NothingLeftOut, Returned, vars, Goto, Throw,
       walk, Walking, Labels, IsOpen, LastBlock, LastPos, Named, Stack, ObjectChain

-----------------------------------------------------------------------------
(* The chain under the cursor, and the arithmetic of moving along it. *)

LEMMA OpenStack ==
    ASSUME InductiveInv, IsOpen
    PROVE  /\ Stack \in StackRecord
           /\ report # <<>> /\ Len(report) \in DOMAIN report
           /\ LastBlock \in Block
<1>1. report # <<>> /\ Len(report) \in DOMAIN report /\ LastBlock \in Block
  BY DEF InductiveInv, TypeOK, IsOpen, LastBlock
<1>2. Stack \in StackRecord
  BY <1>1, StackAtTyped
     DEF InductiveInv, TypeOK, CursorOK, LastBlock, Stack, IsThread
<1> QED  BY <1>1, <1>2

(* Passing over one more incomplete frame keeps the cursor on what comes   *)
(* next after the last frame shown.                                        *)
LEMMA PassOver ==
    ASSUME NEW s \in StackRecord, NEW K,
           NEW p \in 0..Len(s.frames), NEW q \in 1..Len(s.frames),
           Reaches(s, p, q), \A r \in Between(s, p, q) : r \in K,
           q \in K, p # 0 => p \notin K
    PROVE  /\ BackOf(s, q) = 0 =>
                s.back = 0 /\ \A r \in (p+1)..Len(s.frames) : r \in K
           /\ BackOf(s, q) # 0 =>
                /\ Reaches(s, p, BackOf(s, q))
                /\ \A r \in Between(s, p, BackOf(s, q)) : r \in K
<1>1. s.back \in 0..Len(s.frames) /\ Len(s.frames) \in Nat
  BY DEF StackRecord
<1>2. p # q
  OBVIOUS
<1>3. CASE q < Len(s.frames)
  <2>1. BackOf(s, q) = q + 1 /\ q # 0
    BY <1>3, <1>1 DEF BackOf
  <2>2. Reaches(s, p, q + 1)
    BY <1>1 DEF Reaches
  <2>3. ASSUME NEW r \in Between(s, p, q + 1) PROVE r \in Between(s, p, q) \/ r = q
    BY <1>1, <1>2 DEF Between, Reaches
  <2> QED  BY <2>1, <2>2, <2>3
<1>4. CASE q = Len(s.frames)
  <2>1. BackOf(s, q) = s.back /\ p < q
    BY <1>4, <1>1, <1>2 DEF BackOf
  <2>2. \A r \in (p+1)..Len(s.frames) : r \in Between(s, p, q) \/ r = q
    BY <1>4, <1>1, <2>1 DEF Between
  <2>3. ASSUME s.back # 0, NEW r \in Between(s, p, s.back)
        PROVE  r \in Between(s, p, q) \/ r = q
    BY <1>4, <1>1, <2>1, <2>3 DEF Between
  <2>4. s.back # 0 => Reaches(s, p, s.back)
    BY <1>1 DEF Reaches
  <2> QED  BY <2>1, <2>2, <2>3, <2>4
<1> QED  BY <1>1, <1>3, <1>4

(* The back pointer of the last frame shown leads to what comes next. *)
LEMMA StepBack ==
    ASSUME NEW s \in StackRecord, NEW q \in 1..Len(s.frames)
    PROVE  /\ BackOf(s, q) = 0 => s.back = 0 /\ (q+1)..Len(s.frames) = {}
           /\ BackOf(s, q) # 0 => /\ BackOf(s, q) \in 1..Len(s.frames)
                                  /\ Reaches(s, q, BackOf(s, q))
                                  /\ Between(s, q, BackOf(s, q)) = {}
BY DEF StackRecord, BackOf, Reaches, Between

-----------------------------------------------------------------------------

LEMMA CurrentFrameInv == InductiveInv /\ CurrentFrame => InductiveInv'
<1> SUFFICES ASSUME InductiveInv, CurrentFrame PROVE InductiveInv'
  OBVIOUS
<1> USE DEF InductiveInv
<1>1. IsOpen /\ LastPos = 0 /\ ~Named
  BY DEF CurrentFrame, CursorOK, WalkOK, Walking
<1>2. Stack \in StackRecord /\ Len(Stack.frames) \in Nat
      /\ Stack.back \in 0..Len(Stack.frames)
  BY <1>1, OpenStack DEF StackRecord
<1>3. TypeOK'
  BY DEF CurrentFrame, TypeOK, walk, Goto, Throw, Labels
<1>4. CursorOK'
  BY <1>1 DEF CurrentFrame, CursorOK, walk, Goto, Throw, Walking, IsOpen,
              LastBlock, Named
<1>5. WalkOK'
  <2>1. ObjectChain <=> mem.legacy
    BY <1>1 DEF ObjectChain, IsObjectChain, Named
  <2>2. CASE Stack.frames = <<>>
    <3>1. NothingFollows(mem, LastBlock.at, 0)
      BY <1>2, <2>2 DEF NothingFollows, Stack
    <3> QED  BY <1>1, <1>2, <2>1, <2>2, <3>1
             DEF CurrentFrame, WalkOK, walk, Goto, Throw, IsOpen, LastBlock,
                 LastPos, Stack, ObjectChain
  <2>3. CASE Stack.frames # <<>>
    <3>1. 1 \in 1..Len(Stack.frames) /\ Reaches(Stack, 0, 1) /\ Between(Stack, 0, 1) = {}
      BY <1>2, <2>3 DEF Reaches, Between, StackRecord
    <3>2. ObjectChain => IsNextFrame(mem, LastBlock.at, 0, 1)
      BY <3>1 DEF IsNextFrame, Stack, Skipped, ObjectChain
    <3> QED  BY <1>1, <1>2, <2>1, <2>3, <3>1, <3>2
             DEF CurrentFrame, WalkOK, walk, Goto, Throw, IsOpen, LastBlock,
                 LastPos, Stack, ObjectChain
  <2> QED  BY <2>2, <2>3
<1>6. NothingLeftOut'
  BY DEF CurrentFrame, NothingLeftOut, walk
<1> QED  BY <1>3, <1>4, <1>5, <1>6

LEMMA SkipIncompleteInv == InductiveInv /\ SkipIncomplete => InductiveInv'
<1> SUFFICES ASSUME InductiveInv, SkipIncomplete PROVE InductiveInv'
  OBVIOUS
<1> USE DEF InductiveInv
<1>1. IsOpen /\ ~ObjectChain /\ pc = "skip" /\ fr # 0
  BY DEF SkipIncomplete, CursorOK, WalkOK, Walking
<1>2. Stack \in StackRecord /\ Len(Stack.frames) \in Nat
      /\ Stack.back \in 0..Len(Stack.frames)
  BY <1>1, OpenStack DEF StackRecord
<1>3. /\ fr \in 1..Len(Stack.frames)
      /\ LastPos \in 0..Len(Stack.frames)
      /\ Reaches(Stack, LastPos, fr)
      /\ \A r \in Between(Stack, LastPos, fr) : Skipped(mem, LastBlock.at, r)
      /\ LastPos # 0 => ~Skipped(mem, LastBlock.at, LastPos)
  BY <1>1 DEF WalkOK
<1>4. Skipped(mem, LastBlock.at, fr) <=> IsIncomplete(Frame)
  BY <1>1 DEF Skipped, ObjectChain, Stack, Frame
<1>5. BackOf(Stack, fr) \in 0..Len(Stack.frames)
  BY <1>2, <1>3 DEF BackOf
<1>6. TypeOK'
  BY <1>2, <1>5 DEF SkipIncomplete, TypeOK, walk, Goto, Throw, Labels
<1>7. CursorOK'
  BY <1>1 DEF SkipIncomplete, CursorOK, walk, Goto, Throw, Walking, IsOpen,
              LastBlock, Named
<1>8. UNCHANGED <<mem, report, LastBlock, LastPos, Stack, ObjectChain, IsOpen>>
  BY DEF SkipIncomplete, walk, LastBlock, LastPos, Stack, ObjectChain, IsOpen
<1>9. WalkOK'
  <2>1. CASE pc' = "throw"
    BY <1>8, <2>1 DEF WalkOK, IsOpen
  <2>2. CASE pc' = "line"
    <3>1. fr' = fr /\ ~IsIncomplete(Frame)
      BY <2>2 DEF SkipIncomplete, Goto, Throw
    <3>2. IsNextFrame(mem, LastBlock.at, LastPos, fr)
      BY <1>3, <1>4, <3>1 DEF IsNextFrame, Stack
    <3> QED  BY <1>8, <2>2, <3>1, <3>2 DEF WalkOK
  <2>3. CASE pc' = "skip"
    <3>1. fr' = BackOf(Stack, fr) /\ IsIncomplete(Frame)
      BY <2>3 DEF SkipIncomplete, Goto, Throw
    <3> DEFINE K == {r \in Int : Skipped(mem, LastBlock.at, r)}
    <3>2. /\ \A r \in Between(Stack, LastPos, fr) : r \in K
          /\ fr \in K /\ (LastPos # 0 => LastPos \notin K)
      BY <1>2, <1>3, <1>4, <3>1 DEF Between
    <3>3. /\ fr' = 0 => /\ Stack.back = 0
                        /\ \A r \in (LastPos+1)..Len(Stack.frames) : r \in K
          /\ fr' # 0 => /\ Reaches(Stack, LastPos, fr')
                        /\ \A r \in Between(Stack, LastPos, fr') : r \in K
      <4> HIDE DEF K
      <4> QED  BY <1>2, <1>3, <3>1, <3>2, PassOver
    <3>4. fr' = 0 => NothingFollows(mem, LastBlock.at, LastPos)
      BY <3>3 DEF NothingFollows, Stack
    <3>5. fr' # 0 => /\ fr' \in 1..Len(Stack.frames)
                     /\ Reaches(Stack, LastPos, fr')
                     /\ \A r \in Between(Stack, LastPos, fr') :
                           Skipped(mem, LastBlock.at, r)
      BY <1>2, <1>5, <3>1, <3>3
    <3> QED  BY <1>1, <1>8, <2>3, <3>4, <3>5 DEF WalkOK
  <2> QED  BY <2>1, <2>2, <2>3 DEF SkipIncomplete, Goto, Throw
<1>10. NothingLeftOut'
  BY DEF SkipIncomplete, NothingLeftOut, walk
<1> QED  BY <1>6, <1>7, <1>9, <1>10

LEMMA PreviousInv == InductiveInv /\ Previous => InductiveInv'
<1> SUFFICES ASSUME InductiveInv, Previous PROVE InductiveInv'
  OBVIOUS
<1> USE DEF InductiveInv
<1>1. IsOpen /\ pc = "previous" /\ fr = LastPos /\ fr # 0
  BY DEF Previous, CursorOK, WalkOK, Walking
<1>2. Stack \in StackRecord /\ Len(Stack.frames) \in Nat
      /\ Stack.frames \in Seq(FrameRecord)
  BY <1>1, OpenStack DEF StackRecord
<1>3. fr \in 1..Len(Stack.frames)
  BY <1>1, <1>2 DEF WalkOK
<1> DEFINE b == BackOf(Stack, fr)
<1>4. /\ b = 0 => Stack.back = 0 /\ (fr+1)..Len(Stack.frames) = {}
      /\ b # 0 => /\ b \in 1..Len(Stack.frames)
                  /\ Reaches(Stack, fr, b) /\ Between(Stack, fr, b) = {}
  BY <1>2, <1>3, StepBack
<1>5. /\ b = 0 => NothingFollows(mem, LastBlock.at, fr)
      /\ b # 0 /\ ObjectChain => IsNextFrame(mem, LastBlock.at, fr, b)
      /\ b # 0 /\ ObjectChain /\ Stack.frames[b].obj = "other" =>
            NothingFollows(mem, LastBlock.at, fr)
  BY <1>1, <1>4 DEF NothingFollows, IsNextFrame, Skipped, Stack, ObjectChain
<1>6. b \in Nat
  BY <1>2, <1>4
<1> HIDE DEF b
<1>7. UNCHANGED <<mem, report, LastBlock, LastPos, Stack, ObjectChain, IsOpen, Named>>
  BY DEF Previous, walk, LastBlock, LastPos, Stack, ObjectChain, IsOpen, Named
<1>8. \/ pc' = "skip" /\ fr' = b /\ ~ObjectChain
      \/ pc' = "skip" /\ fr' = 0 /\ b = 0
      \/ /\ ObjectChain /\ b # 0
         /\ \/ pc' = "line" /\ fr' = b
            \/ pc' = "skip" /\ fr' = 0 /\ Stack.frames[b].obj = "other"
            \/ pc' = "throw" /\ fr' = fr
  BY DEF Previous, Goto, Throw, b
<1>9. TypeOK'
  BY <1>6, <1>8 DEF Previous, TypeOK, walk, Goto, Throw, Labels
<1>10. CursorOK'
  BY <1>1, <1>7, <1>8 DEF Previous, CursorOK, Walking, walk
<1>11. WalkOK'
  BY <1>1, <1>4, <1>5, <1>7, <1>8 DEF WalkOK
<1>12. NothingLeftOut'
  BY DEF Previous, NothingLeftOut, walk
<1> QED  BY <1>9, <1>10, <1>11, <1>12

-----------------------------------------------------------------------------
(* Steps that open, extend or close a block. *)

LEMMA OpenInv ==
    ASSUME InductiveInv, ~IsOpen, mem' = mem,
           NEW at \in Nat \X Nat, at = <<0, 0>> \/ IsThread(mem, at),
           report' = Append(report, NewBlock(at))
    PROVE  /\ report' \in Seq(Block)
           /\ IsOpen' /\ LastBlock' = NewBlock(at) /\ LastPos' = 0
           /\ \A k \in DOMAIN report' :
                 report'[k].at = <<0, 0>> \/ IsThread(mem', report'[k].at)
           /\ \A k \in DOMAIN report' : report'[k].end = "open" => k = Len(report')
           /\ NothingLeftOut'
<1> USE DEF InductiveInv
<1>1. report \in Seq(Block)
  BY DEF TypeOK
<1>2. /\ report' \in Seq(Block)
      /\ Len(report') = Len(report) + 1
      /\ \A k \in 1..Len(report) : report'[k] = report[k]
      /\ report'[Len(report')] = NewBlock(at)
  BY <1>1, OpenedBlock
<1>3. DOMAIN report' = 1..Len(report') /\ DOMAIN report = 1..Len(report)
  BY <1>1, <1>2
<1>4. \A k \in DOMAIN report' : k = Len(report') \/ (k \in DOMAIN report /\ report'[k] = report[k])
  BY <1>1, <1>2, <1>3
<1>5. NewBlock(at).at = at /\ NewBlock(at).shown = <<>> /\ NewBlock(at).end = "open"
  BY DEF NewBlock
<1>6. IsOpen' /\ LastBlock' = NewBlock(at) /\ LastPos' = 0
  BY <1>1, <1>2, <1>5 DEF IsOpen, LastBlock, LastPos, LastShown
<1>7. \A k \in DOMAIN report : report[k].end # "open"
  BY <1>1, <1>3 DEF CursorOK, IsOpen, LastBlock
<1>8. \A k \in DOMAIN report' :
         report'[k].at = <<0, 0>> \/ IsThread(mem', report'[k].at)
  BY <1>2, <1>4, <1>5 DEF CursorOK
<1>9. \A k \in DOMAIN report' : report'[k].end = "open" => k = Len(report')
  BY <1>4, <1>7
<1>10. NothingLeftOut'
  <2> SUFFICES ASSUME NEW k \in DOMAIN report', k = Len(report')
               PROVE  /\ report'[k].end \notin {"ended", "empty"}
                      /\ DOMAIN report'[k].shown = {}
    BY <1>4, ZenonT(30) DEF NothingLeftOut
  <2> QED  BY <1>2, <1>5
<1> QED  BY <1>2, <1>6, <1>8, <1>9, <1>10

LEMMA CloseInv ==
    ASSUME InductiveInv, IsOpen, mem' = mem, NEW e \in Outcomes \ {"open"},
           report' = SetEnd(e),
           e \in {"ended", "empty"} => NothingFollows(mem, LastBlock.at, LastPos)
    PROVE  /\ report' \in Seq(Block)
           /\ ~IsOpen'
           /\ \A k \in DOMAIN report' :
                 report'[k].at = <<0, 0>> \/ IsThread(mem', report'[k].at)
           /\ \A k \in DOMAIN report' : report'[k].end # "open"
           /\ NothingLeftOut'
<1> USE DEF InductiveInv
<1>1. report \in Seq(Block) /\ report # <<>>
  BY OpenStack DEF TypeOK
<1>2. /\ report' \in Seq(Block)
      /\ Len(report') = Len(report)
      /\ \A k \in 1..Len(report) : k # Len(report) => report'[k] = report[k]
      /\ report'[Len(report')].at = report[Len(report)].at
      /\ report'[Len(report')].shown = report[Len(report)].shown
      /\ report'[Len(report')].end = e
  BY <1>1, ClosedBlock DEF SetEnd
<1>3. DOMAIN report' = 1..Len(report) /\ DOMAIN report = 1..Len(report)
      /\ Len(report) \in DOMAIN report
  BY <1>1, <1>2
<1>4. \A k \in DOMAIN report' : /\ report'[k].at = report[k].at
                                /\ report'[k].shown = report[k].shown
  BY <1>2, <1>3, ZenonT(30)
<1>5. \A k \in DOMAIN report' : report'[k].end # "open"
  BY <1>2, <1>3, ZenonT(30) DEF CursorOK
<1>6. NothingLeftOut'
  <2>1. LastShown(report'[Len(report)]) = LastPos
    BY <1>3, <1>4 DEF LastPos, LastBlock, LastShown
  <2> QED  BY <1>2, <1>3, <1>4, <2>1, ZenonT(30) DEF NothingLeftOut, LastBlock
<1>7. ~IsOpen'
  BY <1>2, <1>3, <1>5, Zenon DEF IsOpen, LastBlock
<1> QED  BY <1>2, <1>3, <1>4, <1>5, <1>6, <1>7, Zenon DEF CursorOK

LEMMA FrameToStringInv == InductiveInv /\ FrameToString => InductiveInv'
<1> SUFFICES ASSUME InductiveInv, FrameToString PROVE InductiveInv'
  OBVIOUS
<1> USE DEF InductiveInv
<1>1. IsOpen /\ pc = "line" /\ IsNextFrame(mem, LastBlock.at, LastPos, fr)
  BY DEF FrameToString, CursorOK, WalkOK, Walking
<1>2. CASE report' = report
  <2>1. pc' = "throw" \/ pc' = "links"
    BY DEF FrameToString, Goto, Throw
  <2>2. pc' = "throw"
    <3>1. SUFFICES ASSUME pc' = "links" PROVE FALSE
      BY <2>1
    <3>2. report' = [report EXCEPT ![Len(report)].shown = Append(LastBlock.shown, fr)]
      BY <3>1 DEF FrameToString, Goto, Throw
    <3>3. report \in Seq(Block) /\ report # <<>> /\ LastBlock \in Block /\ fr \in Nat
      BY <1>1, OpenStack DEF TypeOK
    <3>4. Append(LastBlock.shown, fr) \in Seq(Nat)
      BY <3>3 DEF Block
    <3>5. report'[Len(report)].shown = Append(LastBlock.shown, fr)
      BY <3>2, <3>3, <3>4, ShownFrame
    <3>6. LastBlock.shown \in Seq(Nat)
      BY <3>3 DEF Block
    <3>7. Append(LastBlock.shown, fr) # LastBlock.shown
      BY <3>3, <3>6
    <3> QED  BY <1>2, <3>5, <3>7 DEF LastBlock
  <2> QED  BY <1>1, <1>2, <2>2
           DEF FrameToString, TypeOK, CursorOK, WalkOK, NothingLeftOut, walk, Goto,
               Throw, Labels, Walking, IsOpen, LastBlock, LastPos, Named, Stack,
               ObjectChain
<1>3. CASE report' = [report EXCEPT ![Len(report)].shown = Append(LastBlock.shown, fr)]
           /\ Goto("links")
  <2>1. /\ report \in Seq(Block) /\ report # <<>> /\ Len(report) \in DOMAIN report
        /\ LastBlock \in Block /\ fr \in Nat /\ Stack \in StackRecord
    BY <1>1, OpenStack DEF TypeOK
  <2> DEFINE x == Append(LastBlock.shown, fr)
  <2>2. /\ x \in Seq(Nat) /\ x # <<>> /\ Len(x) = Len(LastBlock.shown) + 1
        /\ x[Len(x)] = fr
        /\ \A j \in DOMAIN LastBlock.shown : x[j] = LastBlock.shown[j]
        /\ DOMAIN x = 1..Len(x) /\ DOMAIN LastBlock.shown = 1..Len(LastBlock.shown)
        /\ Len(LastBlock.shown) \in Nat
        /\ LastBlock.shown = <<>> <=> Len(LastBlock.shown) = 0
    <3>1. LastBlock.shown \in Seq(Nat) /\ fr \in Nat
      BY <2>1 DEF Block
    <3> QED  BY <3>1, Appended
  <2>3. report' = [report EXCEPT ![Len(report)].shown = x]
    BY <1>3
  <2> HIDE DEF x
  <2>4. /\ report' \in Seq(Block)
        /\ Len(report') = Len(report)
        /\ \A k \in 1..Len(report) : k # Len(report) => report'[k] = report[k]
        /\ report'[Len(report')].at = report[Len(report)].at
        /\ report'[Len(report')].shown = x
        /\ report'[Len(report')].end = report[Len(report)].end
    <3> DEFINE r2 == [report EXCEPT ![Len(report)].shown = x]
    <3>1. report \in Seq(Block) /\ report # <<>> /\ x \in Seq(Nat)
      BY <2>1, <2>2
    <3>2. /\ r2 \in Seq(Block)
          /\ Len(r2) = Len(report)
          /\ \A k \in 1..Len(report) : k # Len(report) => r2[k] = report[k]
          /\ r2[Len(r2)].at = report[Len(report)].at
          /\ r2[Len(r2)].shown = x
          /\ r2[Len(r2)].end = report[Len(report)].end
      <4> DEFINE n == Len(report)
                 b == report[n]
                 B == [b EXCEPT !.shown = x]
      <4>1. n \in 1..n /\ b \in Block
        BY <3>1
      <4>2. B \in Block /\ B.at = b.at /\ B.shown = x /\ B.end = b.end
        <5> HIDE DEF b
        <5> QED  BY <3>1, <4>1 DEF Block
      <4>3. r2 = [report EXCEPT ![n] = B]
        OBVIOUS
      <4> HIDE DEF B, r2
      <4> QED  BY <3>1, <4>1, <4>2, <4>3, ExceptSeq
    <3> HIDE DEF r2
    <3>3. report' = r2
      BY <2>3 DEF r2
    <3> QED  BY <3>2, <3>3
  <2>5. DOMAIN report' = 1..Len(report) /\ DOMAIN report = 1..Len(report)
    BY <2>1, <2>4
  <2>6. \A k \in DOMAIN report : /\ report'[k].at = report[k].at
                                 /\ report'[k].end = report[k].end
    BY <2>4, <2>5
  <2>7. /\ LastBlock'.at = LastBlock.at /\ LastBlock'.shown = x
        /\ IsOpen' /\ LastPos' = fr /\ mem' = mem
    <3>1. LastBlock'.at = LastBlock.at /\ LastBlock'.shown = x /\ LastBlock'.end = LastBlock.end
      BY <2>4, Zenon DEF LastBlock
    <3>2. report' # <<>>
      BY <2>1, <2>4
    <3>3. LastPos' = fr
      BY <2>2, <3>1 DEF LastPos, LastShown
    <3>4. mem' = mem
      BY DEF FrameToString, walk
    <3> QED  BY <1>1, <3>1, <3>2, <3>3, <3>4 DEF IsOpen
  <2>8. pc' = "links" /\ UNCHANGED <<mem, req, status, notes, it, th, fr, exn>>
    BY <1>3 DEF FrameToString, walk, Goto
  <2>9. TypeOK'
    BY <2>4, <2>8 DEF TypeOK, Labels
  <2>10. CursorOK'
    BY <1>1, <2>4, <2>5, <2>6, <2>7, <2>8, Zenon DEF CursorOK, Walking, Named
  <2>11. WalkOK'
    BY <1>1, <2>1, <2>2, <2>7, <2>8
       DEF WalkOK, Named, Stack, ObjectChain, IsNextFrame, StackRecord
  <2>12. NothingLeftOut'
    <3>1. \A j \in DOMAIN x : IsNextFrame(mem, LastBlock.at, IF j = 1 THEN 0 ELSE x[j-1], x[j])
      <4>1. SUFFICES ASSUME NEW j \in DOMAIN x
            PROVE IsNextFrame(mem, LastBlock.at, IF j = 1 THEN 0 ELSE x[j-1], x[j])
        OBVIOUS
      <4>2. CASE j = Len(x)
        <5>1. x[j] = fr
          BY <2>2, <4>2
        <5>2. (IF j = 1 THEN 0 ELSE x[j-1]) = LastPos
          BY <2>2, <4>2 DEF LastPos, LastShown
        <5> QED  BY <1>1, <5>1, <5>2
      <4>3. CASE j # Len(x)
        <5>1. /\ j \in DOMAIN LastBlock.shown /\ x[j] = LastBlock.shown[j]
              /\ j # 1 => x[j-1] = LastBlock.shown[j-1]
          <6>1. j \in 1..Len(LastBlock.shown) /\ (j # 1 => j - 1 \in 1..Len(LastBlock.shown))
            BY <2>2, <4>1, <4>3
          <6> QED  BY <2>2, <6>1, Zenon
        <5>2. IsNextFrame(mem, LastBlock.at,
                          IF j = 1 THEN 0 ELSE LastBlock.shown[j-1], LastBlock.shown[j])
          BY <2>1, <5>1 DEF NothingLeftOut, LastBlock
        <5> QED  BY <5>1, <5>2
      <4> QED  BY <4>2, <4>3
    <3>2. report'[Len(report)].end = "open"
      BY <1>1, <2>4 DEF IsOpen, LastBlock
    <3> QED  BY <2>1, <2>4, <2>5, <2>8, <3>1, <3>2, ZenonT(30) DEF NothingLeftOut, LastBlock
  <2> QED  BY <2>9, <2>10, <2>11, <2>12
<1> QED  BY <1>2, <1>3 DEF FrameToString

LEMMA ThreadIdInv == InductiveInv /\ ThreadId => InductiveInv'
<1> SUFFICES ASSUME InductiveInv, ThreadId PROVE InductiveInv'
  OBVIOUS
<1> USE DEF InductiveInv
<1>1. /\ pc = "thread" /\ ~IsOpen /\ it \in 1..Len(mem.interps)
      /\ th = 1 \/ IsThread(mem, <<it, th>>)
      /\ mem.interps[it].threads \in Seq(ThreadRecord)
      /\ it \in Nat /\ th \in Nat /\ mem' = mem
  BY MemoryTyped DEF ThreadId, TypeOK, CursorOK, Walking, walk
<1>2. CASE report' = report /\ pc' \in {"throw", "nextthread"}
  <2>1. pc' = "nextthread" => IsThread(mem, <<it, th>>)
    BY <1>1, <1>2 DEF ThreadId, IsThread, Throw
  <2> QED  BY <1>1, <1>2, <2>1
           DEF ThreadId, TypeOK, CursorOK, WalkOK, NothingLeftOut, walk, Goto,
               Throw, Labels, Walking, IsOpen, LastBlock, LastPos, Named, Stack,
               ObjectChain
<1>3. CASE report' = Append(report, NewBlock(<<it, th>>)) /\ Goto("top")
           /\ ~(th > Len(mem.interps[it].threads))
  <2>1. IsThread(mem, <<it, th>>) /\ <<it, th>> \in Nat \X Nat
    BY <1>1, <1>3 DEF IsThread
  <2>2. /\ report' \in Seq(Block)
        /\ IsOpen' /\ LastBlock' = NewBlock(<<it, th>>) /\ LastPos' = 0
        /\ \A k \in DOMAIN report' :
              report'[k].at = <<0, 0>> \/ IsThread(mem', report'[k].at)
        /\ \A k \in DOMAIN report' : report'[k].end = "open" => k = Len(report')
        /\ NothingLeftOut'
    BY <1>1, <1>3, <2>1, OpenInv
  <2>3. ~Named' /\ LastBlock'.shown = <<>> /\ LastBlock'.at = <<it, th>>
    BY <1>1, <2>2 DEF Named, NewBlock
  <2>4. Stack' \in StackRecord
    BY <1>1, <2>1, <2>3, StackAtTyped DEF Stack, IsThread, TypeOK
  <2>5. 0 \in 0..Len(Stack'.frames)
    BY <2>4 DEF StackRecord
  <2> QED  BY <1>1, <1>3, <2>1, <2>2, <2>3, <2>5
           DEF ThreadId, TypeOK, CursorOK, WalkOK, walk, Goto, Labels, Walking
<1> QED  BY <1>2, <1>3 DEF ThreadId, Goto, Throw

LEMMA NamedFrameInv == InductiveInv /\ NamedFrame => InductiveInv'
<1> SUFFICES ASSUME InductiveInv, NamedFrame PROVE InductiveInv'
  OBVIOUS
<1> USE DEF InductiveInv
<1>1. pc = "named" /\ ~IsOpen /\ mem' = mem
  BY DEF NamedFrame, CursorOK, Walking, walk
<1>2. CASE req.addr = "bad"
  BY <1>1, <1>2
     DEF NamedFrame, TypeOK, CursorOK, WalkOK, NothingLeftOut, walk, Goto, Throw,
         Labels, Walking, IsOpen, LastBlock, LastPos, Named, Stack, ObjectChain
<1>3. CASE req.addr # "bad"
  <2>1. /\ report' \in Seq(Block)
        /\ IsOpen' /\ LastBlock' = NewBlock(<<0, 0>>) /\ LastPos' = 0
        /\ \A k \in DOMAIN report' :
              report'[k].at = <<0, 0>> \/ IsThread(mem', report'[k].at)
        /\ \A k \in DOMAIN report' : report'[k].end = "open" => k = Len(report')
        /\ NothingLeftOut'
    BY <1>1, <1>3, OpenInv DEF NamedFrame
  <2>2. LastBlock'.shown = <<>> /\ LastBlock'.at = <<0, 0>> /\ Named'
    BY <2>1 DEF NewBlock, Named
  <2>3. /\ Stack' \in StackRecord /\ Stack'.frames # <<>>
        /\ Stack' = StackAt(mem, <<0, 0>>)
    BY <1>1, <2>2, MemoryTyped DEF Stack, StackAt, TypeOK
  <2>4. IsNextFrame(mem, <<0, 0>>, 0, 1)
    <3>1. 1 \in 1..Len(StackAt(mem, <<0, 0>>).frames)
      <4>1. StackAt(mem, <<0, 0>>).frames \in Seq(FrameRecord) \ {<<>>}
        BY <2>3 DEF StackRecord
      <4> QED  BY <4>1
    <3>2. Reaches(StackAt(mem, <<0, 0>>), 0, 1) /\ Between(StackAt(mem, <<0, 0>>), 0, 1) = {}
      BY DEF Reaches, Between
    <3> QED  BY <3>1, <3>2 DEF IsNextFrame, Skipped, IsObjectChain
  <2>5. 0 \in 0..Len(Stack'.frames)
    BY <2>3 DEF StackRecord
  <2>6. /\ pc' = "line" /\ fr' = 1
        /\ UNCHANGED <<mem, req, status, notes, it, th, exn>>
    BY <1>3 DEF NamedFrame, walk, Goto
  <2>7. TypeOK'
    BY <2>1, <2>6 DEF TypeOK, Labels
  <2>8. CursorOK'
    BY <2>1, <2>2, <2>6 DEF CursorOK, Walking
  <2>9. WalkOK'
    BY <2>1, <2>2, <2>4, <2>5, <2>6 DEF WalkOK
  <2> QED  BY <2>1, <2>7, <2>8, <2>9
<1> QED  BY <1>2, <1>3

LEMMA ChainEndsInv == InductiveInv /\ ChainEnds => InductiveInv'
<1> SUFFICES ASSUME InductiveInv, ChainEnds PROVE InductiveInv'
  OBVIOUS
<1> USE DEF InductiveInv
<1>1. /\ pc = "skip" /\ fr = 0 /\ IsOpen /\ mem' = mem
      /\ NothingFollows(mem, LastBlock.at, LastPos)
      /\ ~Named => IsThread(mem, <<it, th>>)
  BY DEF ChainEnds, CursorOK, WalkOK, Walking, walk
<1>2. CASE LastBlock.shown = <<>> /\ ~req.all
  BY <1>1, <1>2
     DEF ChainEnds, TypeOK, CursorOK, WalkOK, NothingLeftOut, walk, Goto, Throw,
         Labels, Walking, IsOpen, LastBlock, LastPos, Named, Stack, ObjectChain
<1>3. CASE ~(LastBlock.shown = <<>> /\ ~req.all)
  <2>1. PICK e \in {"empty", "ended"} : report' = SetEnd(e)
    BY <1>3 DEF ChainEnds
  <2>2. /\ report' \in Seq(Block) /\ ~IsOpen'
        /\ \A k \in DOMAIN report' :
              report'[k].at = <<0, 0>> \/ IsThread(mem', report'[k].at)
        /\ \A k \in DOMAIN report' : report'[k].end # "open"
        /\ NothingLeftOut'
    BY <1>1, <2>1, CloseInv DEF Outcomes
  <2>3. /\ pc' \in {"leave", "nextthread"} /\ (pc' = "nextthread" => ~Named)
        /\ UNCHANGED <<mem, req, status, notes, it, th, fr, exn>>
    BY <1>3 DEF ChainEnds, Goto, walk
  <2>4. TypeOK'
    BY <2>2, <2>3 DEF TypeOK, Labels
  <2>5. CursorOK'
    BY <1>1, <2>2, <2>3 DEF CursorOK, Walking
  <2>6. WalkOK'
    BY <2>2, <2>3 DEF WalkOK
  <2> QED  BY <2>2, <2>4, <2>5, <2>6
<1> QED  BY <1>2, <1>3

(* The three handlers close the open block, if there is one. *)
LEMMA HandlersInv ==
    InductiveInv /\ (CatchInThread \/ CatchInCommand \/ Escape) => InductiveInv'
<1> SUFFICES ASSUME InductiveInv, CatchInThread \/ CatchInCommand \/ Escape
             PROVE  InductiveInv'
  OBVIOUS
<1> USE DEF InductiveInv
<1>1. /\ pc = "throw" /\ mem' = mem
      /\ pc' \in {"nextthread", "leave", "done"}
      /\ pc' = "nextthread" => IsOpen /\ ~Named
      /\ exn' \in {"none", "ext"}
      /\ notes' \in {notes, <<"warning">>, <<"warning", "hint">>}
      /\ status' \in {status, "aborted"}
      /\ UNCHANGED <<req, it, th, fr>>
  BY DEF CatchInThread, CatchInCommand, Escape, walk
<1>2. pc' = "nextthread" => IsThread(mem, <<it, th>>)
  BY <1>1 DEF CursorOK
<1>3. TypeOK /\ CursorOK
  OBVIOUS
<1>4. CASE IsOpen
  <2>1. PICK e \in {"warned", "broken"} : report' = SetEnd(e)
    BY <1>4 DEF CatchInThread, CatchInCommand, Escape
  <2>2. /\ report' \in Seq(Block) /\ ~IsOpen'
        /\ \A k \in DOMAIN report' :
              report'[k].at = <<0, 0>> \/ IsThread(mem', report'[k].at)
        /\ \A k \in DOMAIN report' : report'[k].end # "open"
        /\ NothingLeftOut'
    BY <1>1, <1>4, <2>1, CloseInv DEF Outcomes
  <2>3. TypeOK'
    BY <1>1, <1>3, <2>2 DEF TypeOK, Labels
  <2>4. CursorOK'
    BY <1>1, <1>2, <2>2 DEF CursorOK, Walking
  <2>5. WalkOK'
    BY <1>1, <2>2 DEF WalkOK
  <2> QED  BY <2>2, <2>3, <2>4, <2>5
<1>5. CASE ~IsOpen
  <2>1. report' = report
    BY <1>5 DEF CatchInThread, CatchInCommand, Escape
  <2>2. ~IsOpen' /\ NothingLeftOut'
    BY <1>1, <1>5, <2>1 DEF IsOpen, LastBlock, NothingLeftOut
  <2>3. TypeOK'
    BY <1>1, <1>3, <2>1 DEF TypeOK, Labels
  <2>4. CursorOK'
    BY <1>1, <1>2, <1>3, <2>1, <2>2 DEF CursorOK, Walking
  <2>5. WalkOK'
    BY <1>1, <2>2 DEF WalkOK
  <2> QED  BY <2>2, <2>3, <2>4, <2>5
<1> QED  BY <1>4, <1>5

LEMMA InitInv == Init => InductiveInv
BY ConstantsAssumption
   DEF Init, InductiveInv, TypeOK, CursorOK, WalkOK, NothingLeftOut, Labels,
       Walking, IsOpen, LastBlock, LastPos, Named

LEMMA NextInv == InductiveInv /\ [Next]_vars => InductiveInv'
<1> SUFFICES ASSUME InductiveInv, [Next]_vars PROVE InductiveInv'
  OBVIOUS
<1>1. CASE UNCHANGED vars
  BY <1>1
     DEF vars, InductiveInv, TypeOK, CursorOK, WalkOK, NothingLeftOut, IsOpen,
         LastBlock, LastPos, Named, Stack, ObjectChain
<1>2. CASE Start
  BY <1>2, StartInv
<1>3. CASE CurrentThreadIds
  BY <1>3, CurrentThreadIdsInv
<1>4. CASE MakeAutoInterpreterState
  BY <1>4, MakeAutoInterpreterStateInv
<1>5. CASE TstateHead
  BY <1>5, TstateHeadInv
<1>6. CASE ThreadId
  BY <1>6, ThreadIdInv
<1>7. CASE NextThread
  BY <1>7, NextThreadInv
<1>8. CASE CurrentFrame
  BY <1>8, CurrentFrameInv
<1>9. CASE SkipIncomplete
  BY <1>9, SkipIncompleteInv
<1>10. CASE ChainEnds
  BY <1>10, ChainEndsInv
<1>11. CASE FrameToString
  BY <1>11, FrameToStringInv
<1>12. CASE FrameToCommandString
  BY <1>12, FrameToCommandStringInv
<1>13. CASE Previous
  BY <1>13, PreviousInv
<1>14. CASE NamedFrame
  BY <1>14, NamedFrameInv
<1>15. CASE CatchInThread \/ CatchInCommand \/ Escape
  BY <1>15, HandlersInv
<1>16. CASE Leave
  BY <1>16, LeaveInv
<1>17. CASE Returned
  BY <1>17, ReturnedInv
<1> QED  BY <1>1, <1>2, <1>3, <1>4, <1>5, <1>6, <1>7, <1>8, <1>9, <1>10, <1>11,
            <1>12, <1>13, <1>14, <1>15, <1>16, <1>17 DEF Next

-----------------------------------------------------------------------------

(* The inductive invariant of the walk holds on every memory. *)
THEOREM InductiveInvariance == Spec => []InductiveInv
<1>1. Init => InductiveInv
  BY InitInv
<1>2. InductiveInv /\ [Next]_vars => InductiveInv'
  BY NextInv
<1> QED  BY <1>1, <1>2, PTL DEF Spec

(* Every variable of !pystack keeps its type. *)
THEOREM TypeCorrectness == Spec => []TypeOK
<1>1. InductiveInv => TypeOK
  BY DEF InductiveInv
<1> QED  BY <1>1, InductiveInvariance, PTL

(* For every memory, cyclic frame chains included, and every request: what *)
(* !pystack has listed is, block by block, exactly the complete frames of  *)
(* the chain from the newest on, and a block that ends normally shows them *)
(* all (src/PyInterpreterFrame.cpp:100, src/PyThreadState.cpp:53).         *)
THEOREM NothingIsLeftOut == Spec => []NothingLeftOut
<1>1. InductiveInv => NothingLeftOut
  BY DEF InductiveInv
<1> QED  BY <1>1, InductiveInvariance, PTL

-----------------------------------------------------------------------------
(* The abstract specification brings its own copy of the functions on the  *)
(* debuggee's memory.                                                      *)
LEMMA SameFunctions ==
    /\ \A m : Promise!Resolves(m) = Resolves(m)
    /\ \A m, at : Promise!NextAt(m, at) = NextAt(m, at)
    /\ \A m, at : Promise!IsThread(m, at) = IsThread(m, at)
    /\ \A m, at : Promise!StackAt(m, at) = StackAt(m, at)
    /\ \A m, at, p, q : Promise!IsNextFrame(m, at, p, q) = IsNextFrame(m, at, p, q)
    /\ \A m, at, p : Promise!NothingFollows(m, at, p) = NothingFollows(m, at, p)
    /\ \A b : Promise!LastShown(b) = LastShown(b)
    /\ \A at : Promise!NewBlock(at) = NewBlock(at)
BY DEF Promise!Resolves, Resolves, Promise!NextAt, NextAt, Promise!IsThread, IsThread, Promise!StackAt, StackAt,
       Promise!IsNextFrame, IsNextFrame, Promise!NothingFollows, NothingFollows,
       Promise!Skipped, Skipped, Promise!IsObjectChain, IsObjectChain,
       Promise!IsIncomplete, IsIncomplete, Promise!BackOf, BackOf,
       Promise!Between, Between, Promise!Reaches, Reaches,
       Promise!LastShown, LastShown, Promise!NewBlock, NewBlock

(* The expression the code takes is the one that goes first. *)
LEMMA FirstStateTaken ==
    ASSUME NEW m \in Memory, Resolves(m)
    PROVE  Promise!FirstState(m) = AutoInterpreterState(m)
<1> DEFINE First(k) == m.roots[k] >= 0 /\ \A j \in 1..(k-1) : m.roots[j] < 0
<1>1. m.roots[1] \in Int /\ m.roots[2] \in Int /\ m.roots[3] \in Int
  BY DEF Memory
<1>2. ASSUME NEW k \in 1..3, First(k)
      PROVE  m.roots[k] = AutoInterpreterState(m)
  <2>1. k = 1 \/ k = 2 \/ k = 3
    OBVIOUS
  <2>2. CASE k = 1
    BY <1>2, <2>2 DEF AutoInterpreterState
  <2>3. CASE k = 2
    <3>1. m.roots[1] < 0 /\ m.roots[2] >= 0
      BY <1>2, <2>3
    <3> QED  BY <1>1, <2>3, <3>1 DEF AutoInterpreterState
  <2>4. CASE k = 3
    <3>1. m.roots[1] < 0 /\ m.roots[2] < 0
      BY <1>2, <2>4
    <3> QED  BY <1>1, <2>4, <3>1 DEF AutoInterpreterState
  <2> QED  BY <2>1, <2>2, <2>3, <2>4
<1>3. \E k \in 1..3 : First(k)
  <2>1. m.roots[1] >= 0 \/ m.roots[2] >= 0 \/ m.roots[3] >= 0
    BY DEF Resolves
  <2>2. CASE m.roots[1] >= 0
    <3>1. First(1)
      BY <2>2
    <3> QED  BY <3>1
  <2>3. CASE m.roots[1] < 0 /\ m.roots[2] >= 0
    <3>1. First(2)
      BY <2>3
    <3> QED  BY <3>1
  <2>4. CASE m.roots[1] < 0 /\ m.roots[2] < 0 /\ m.roots[3] >= 0
    <3>1. First(3)
      <4>1. \A j \in 1..2 : j = 1 \/ j = 2
        OBVIOUS
      <4> QED  BY <2>4, <4>1
    <3> QED  BY <3>1
  <2> QED  BY <1>1, <2>1, <2>2, <2>3, <2>4
<1>4. Promise!FirstState(m) = m.roots[CHOOSE k \in 1..3 : First(k)]
  BY DEF Promise!FirstState
<1> HIDE DEF First
<1>5. /\ (CHOOSE k \in 1..3 : First(k)) \in 1..3
      /\ First(CHOOSE k \in 1..3 : First(k))
  BY <1>3, Zenon
<1> QED  BY <1>2, <1>4, <1>5, Zenon

-----------------------------------------------------------------------------
(* Later reports keep what the search has established. *)

LEMMA KeepsDealt ==
    ASSUME mem' = mem, req' = req, DOMAIN report \subseteq DOMAIN report',
           \A k \in DOMAIN report : report'[k].at = report[k].at
    PROVE  /\ \A at : Dealt(at) => Dealt(at)'
           /\ \A at : DealtBefore(at) => DealtBefore(at)'
           /\ AllDealt => AllDealt'
           /\ Promise!AllListed => Promise!AllListed'
           /\ Searching' = Searching
           /\ Promise!Sound' = Promise!Sound
<1>1. \A at : Dealt(at) => Dealt(at)'
  BY DEF Dealt
<1>2. \A at : DealtBefore(at) => DealtBefore(at)'
  BY <1>1 DEF DealtBefore
<1>3. AllDealt => AllDealt'
  BY <1>1 DEF AllDealt
<1>4. Promise!AllListed => Promise!AllListed'
  BY DEF Promise!AllListed, Promise!IsLastThread
<1>5. Searching' = Searching /\ Promise!Sound' = Promise!Sound
  BY DEF Searching, Promise!Sound
<1> QED  BY <1>1, <1>2, <1>3, <1>4, <1>5

LEMMA KeepsReport ==
    ASSUME UNCHANGED <<mem, req, report>>
    PROVE  /\ \A at : Dealt(at) => Dealt(at)'
           /\ \A at : DealtBefore(at) => DealtBefore(at)'
           /\ AllDealt => AllDealt'
           /\ Promise!AllListed => Promise!AllListed'
           /\ UNCHANGED <<Searching, Promise!Sound, IsOpen, Named, NamedListed,
                          LastBlock, LastPos, Stack>>
           /\ ReadyToFinish => ReadyToFinish'
           /\ Warrants => Warrants'
<1>1. /\ \A at : Dealt(at) => Dealt(at)'
      /\ \A at : DealtBefore(at) => DealtBefore(at)'
      /\ AllDealt => AllDealt'
      /\ Promise!AllListed => Promise!AllListed'
      /\ UNCHANGED <<Searching, Promise!Sound>>
  BY KeepsDealt
<1>2. UNCHANGED <<IsOpen, Named, NamedListed, LastBlock, LastPos, Stack>>
  BY DEF IsOpen, Named, NamedListed, LastBlock, LastPos, Stack
<1> QED  BY <1>1, <1>2 DEF ReadyToFinish, Warrants

-----------------------------------------------------------------------------
(* What a failed read says about the memory. *)

LEMMA ObstacleInChain ==
    ASSUME InductiveInv, PromiseInv, IsOpen,
           NEW p \in 1..Len(Stack.frames),
           \/ Stack.frames[p].obj # "frame" \/ Stack.frames[p].code = "missing"
           \/ Stack.frames[p].dicts # "ok"
    PROVE  ~Promise!Sound
<1>0. Stack.frames \in Seq(FrameRecord)
  BY OpenStack DEF StackRecord
<1>1. p \in DOMAIN Stack.frames
  BY <1>0
<1>2. ~Promise!SoundStack(Stack)
  BY <1>1 DEF Promise!SoundStack
<1>3. CASE Named
  <2>1. req.addr = "ok" /\ Stack = mem.object
    BY <1>3 DEF PromiseInv, SearchOK, NamedListed, Named, IsOpen, Stack, StackAt
  <2> QED  BY <1>2, <2>1 DEF Promise!Sound
<1>4. CASE ~Named
  <2>1. /\ req.all \/ req.addr = "none"
        /\ LastBlock.at = Cursor /\ Cursor[1] = it /\ IsThread(mem, <<it, th>>)
        /\ pc # "interp"
    BY <1>4 DEF InductiveInv, PromiseInv, SearchOK, OnLists, Searching, CursorOK,
                Walking, Cursor
  <2>2. LastBlock.at = <<it, th>>
    <3>1. Cursor = <<it, th>>
      BY <2>1, Zenon DEF Cursor
    <3> QED  BY <2>1, <3>1, Zenon
  <2>3. Stack = mem.interps[it].threads[th].stack
    <3>1. LastBlock.at # <<0, 0>>
      BY <1>4, ZenonT(30) DEF Named
    <3>2. Stack = mem.interps[LastBlock.at[1]].threads[LastBlock.at[2]].stack
      BY <3>1, Zenon DEF Stack, StackAt
    <3>3. LastBlock.at[1] = it /\ LastBlock.at[2] = th
      BY <2>2
    <3> QED  BY <3>2, <3>3
  <2>4. it \in 1..Len(mem.interps) /\ th \in 1..Len(mem.interps[it].threads)
    BY <2>1 DEF IsThread
  <2>5. it \in DOMAIN mem.interps /\ th \in DOMAIN mem.interps[it].threads
    <3>1. mem.interps \in Seq(InterpRecord) /\ mem.interps[it].threads \in Seq(ThreadRecord)
      <4>1. mem \in Memory
        BY DEF InductiveInv, TypeOK
      <4> QED  BY <2>4, <4>1, MemoryTyped, Zenon
    <3> QED  BY <2>4, <3>1
  <2>6. ~Promise!SoundThread(mem, mem.interps[it].threads[th])
    BY <1>2, <2>3 DEF Promise!SoundThread
  <2> QED  BY <2>1, <2>5, <2>6 DEF Promise!Sound, Promise!SoundThreads
<1> QED  BY <1>3, <1>4

-----------------------------------------------------------------------------
(* The invariant is inductive.  First the steps of a walk that list nothing. *)

LEMMA QuietStep ==
    ASSUME InductiveInv, PromiseInv, pc \in Walking,
           UNCHANGED <<mem, req, report, status, it, th>>,
           \/ pc' \in Walking /\ exn' = exn
           \/ pc' = "throw" /\ exn' = "ext" /\ ~Promise!Sound
    PROVE  PromiseInv'
<1>1. /\ IsOpen /\ pc # "done" /\ status = "running" /\ exn # "std"
      /\ pc' \notin {"start", "header", "roots", "interp", "thread", "nextthread",
                     "named", "leave", "done"}
      /\ Cursor' = Cursor
  BY DEF PromiseInv, EndsOK, InductiveInv, CursorOK, Walking, Cursor
<1>2. SearchOK'
  BY <1>1, KeepsReport DEF PromiseInv, SearchOK, OnLists
<1>3. EndsOK'
  BY <1>1, KeepsReport DEF PromiseInv, EndsOK
<1> QED  BY <1>2, <1>3 DEF PromiseInv

LEMMA CurrentFrameOrder == InductiveInv /\ PromiseInv /\ CurrentFrame => PromiseInv'
<1> SUFFICES ASSUME InductiveInv, PromiseInv, CurrentFrame PROVE PromiseInv'
  OBVIOUS
<1>1. IsOpen /\ ~Named /\ pc \in Walking
  BY DEF CurrentFrame, InductiveInv, CursorOK, WalkOK, Walking
<1>2. UNCHANGED <<mem, req, report, status, it, th>>
  BY DEF CurrentFrame, walk
<1>3. CASE pc' \in Walking /\ exn' = exn
  BY <1>1, <1>2, <1>3, QuietStep
<1>4. CASE pc' = "throw" /\ exn' = "ext"
  <2>1. mem.legacy /\ ~(Stack.frames # <<>> /\ Stack.frames[1].obj = "frame")
    BY <1>4 DEF CurrentFrame, Goto
  <2>2. ~Promise!Sound
    <3>1. CASE Stack.frames # <<>>
      <4>1. 1 \in 1..Len(Stack.frames)
        <5>1. Stack.frames \in Seq(FrameRecord)
          BY <1>1, OpenStack DEF StackRecord
        <5> QED  BY <3>1, <5>1
      <4> QED  BY <1>1, <2>1, <3>1, <4>1, ObstacleInChain
    <3>2. CASE Stack.frames = <<>>
      <4>1. /\ req.all \/ req.addr = "none"
            /\ LastBlock.at = Cursor /\ IsThread(mem, <<it, th>>)
            /\ pc # "interp"
        BY <1>1 DEF InductiveInv, PromiseInv, SearchOK, OnLists, Searching, CursorOK,
                    Walking
      <4>2. Stack = mem.interps[it].threads[th].stack
        BY <1>1, <4>1 DEF Stack, StackAt, Named, Cursor
      <4>3. it \in DOMAIN mem.interps /\ th \in DOMAIN mem.interps[it].threads
        BY <4>1, MemoryTyped DEF InductiveInv, TypeOK, IsThread
      <4>4. ~Promise!SoundThread(mem, mem.interps[it].threads[th])
        BY <2>1, <3>2, <4>2 DEF Promise!SoundThread
      <4> QED  BY <4>1, <4>3, <4>4 DEF Promise!Sound, Promise!SoundThreads
    <3> QED  BY <3>1, <3>2
  <2> QED  BY <1>1, <1>2, <1>4, <2>2, QuietStep
<1> QED  BY <1>3, <1>4 DEF CurrentFrame, Goto, Throw, Walking

LEMMA SkipIncompleteOrder == InductiveInv /\ PromiseInv /\ SkipIncomplete => PromiseInv'
<1> SUFFICES ASSUME InductiveInv, PromiseInv, SkipIncomplete PROVE PromiseInv'
  OBVIOUS
<1>1. IsOpen /\ pc \in Walking /\ fr \in 1..Len(Stack.frames)
  BY DEF SkipIncomplete, InductiveInv, CursorOK, WalkOK, Walking
<1>2. UNCHANGED <<mem, req, report, status, it, th>>
  BY DEF SkipIncomplete, walk
<1>3. Frame.obj # "frame" => ~Promise!Sound
  BY <1>1, ObstacleInChain DEF Frame
<1> QED  BY <1>1, <1>2, <1>3, QuietStep DEF SkipIncomplete, Goto, Throw, Walking

LEMMA FrameToCommandStringOrder ==
    InductiveInv /\ PromiseInv /\ FrameToCommandString => PromiseInv'
<1> SUFFICES ASSUME InductiveInv, PromiseInv, FrameToCommandString PROVE PromiseInv'
  OBVIOUS
<1>1. IsOpen /\ pc \in Walking /\ fr \in 1..Len(Stack.frames)
  <2>1. IsOpen /\ pc \in Walking /\ fr = LastPos /\ fr # 0
    BY DEF FrameToCommandString, InductiveInv, CursorOK, WalkOK, Walking
  <2>2. LastPos \in 0..Len(Stack.frames) /\ Len(Stack.frames) \in Nat
    BY <2>1, OpenStack DEF InductiveInv, WalkOK, StackRecord
  <2> QED  BY <2>1, <2>2
<1>2. UNCHANGED <<mem, req, report, status, it, th>>
  BY DEF FrameToCommandString, walk
<1>3. Frame.dicts = "missing" => ~Promise!Sound
  BY <1>1, ObstacleInChain DEF Frame
<1> QED  BY <1>1, <1>2, <1>3, QuietStep DEF FrameToCommandString, Goto, Throw, Walking

LEMMA PreviousOrder == InductiveInv /\ PromiseInv /\ Previous => PromiseInv'
<1> SUFFICES ASSUME InductiveInv, PromiseInv, Previous PROVE PromiseInv'
  OBVIOUS
<1> DEFINE b == BackOf(Stack, fr)
<1>1. IsOpen /\ pc \in Walking /\ fr = LastPos /\ fr # 0
  BY DEF Previous, InductiveInv, CursorOK, WalkOK, Walking
<1>2. Stack \in StackRecord
  BY <1>1, OpenStack
<1>3. fr \in 1..Len(Stack.frames)
  <2>1. LastPos \in 0..Len(Stack.frames) /\ Len(Stack.frames) \in Nat
    BY <1>1, <1>2 DEF InductiveInv, WalkOK, StackRecord
  <2> QED  BY <1>1, <2>1
<1>4. b # 0 => b \in 1..Len(Stack.frames)
  BY <1>2, <1>3, StepBack
<1>5. UNCHANGED <<mem, req, report, status, it, th>>
  BY DEF Previous, walk
<1>6. b # 0 /\ Stack.frames[b].obj # "frame" => ~Promise!Sound
  BY <1>1, <1>4, ObstacleInChain
<1> QED  BY <1>1, <1>5, <1>6, QuietStep DEF Previous, Goto, Throw, Walking

-----------------------------------------------------------------------------
(* The steps between the blocks: the search for threads. *)

(* Outside a walk there is no open block, and no exception in flight. *)
LEMMA BetweenBlocks ==
    ASSUME InductiveInv, PromiseInv, pc \notin Walking \cup {"throw"}
    PROVE  ~IsOpen /\ exn # "std"
BY DEF InductiveInv, PromiseInv, EndsOK, CursorOK

LEMMA StartOrder == InductiveInv /\ PromiseInv /\ Start => PromiseInv'
<1> SUFFICES ASSUME InductiveInv, PromiseInv, Start PROVE PromiseInv'
  OBVIOUS
<1>1. ~IsOpen /\ exn # "std" /\ report = <<>> /\ status = "running"
  BY BetweenBlocks DEF Start, Walking, PromiseInv, SearchOK, EndsOK
<1>2. UNCHANGED <<mem, req, report, status, it, th, exn>>
      /\ pc' = IF req.all THEN "roots" ELSE IF req.addr # "none" THEN "named" ELSE "header"
  BY DEF Start, walk, Goto
<1>3. ~NamedListed /\ ~NamedListed' /\ ~IsOpen'
  BY <1>1, <1>2 DEF NamedListed, IsOpen
<1>4. SearchOK'
  BY <1>1, <1>2, <1>3, KeepsReport DEF PromiseInv, SearchOK, OnLists, Searching
<1>5. EndsOK'
  BY <1>1, <1>2, KeepsReport DEF PromiseInv, EndsOK
<1> QED  BY <1>4, <1>5 DEF PromiseInv

LEMMA CurrentThreadIdsOrder == InductiveInv /\ PromiseInv /\ CurrentThreadIds => PromiseInv'
<1> SUFFICES ASSUME InductiveInv, PromiseInv, CurrentThreadIds PROVE PromiseInv'
  OBVIOUS
<1>1. /\ ~IsOpen /\ exn # "std" /\ report = <<>> /\ status = "running"
      /\ ~req.all /\ req.addr = "none"
  BY BetweenBlocks DEF CurrentThreadIds, Walking, PromiseInv, SearchOK, EndsOK
<1>2. /\ UNCHANGED <<mem, req, report, status, it, th>>
      /\ \/ pc' = "roots" /\ exn' = exn
         \/ pc' = "throw" /\ exn' = "std" /\ req.sysid = 0
  BY DEF CurrentThreadIds, walk, Goto, Throw
<1>3. ~NamedListed /\ ~NamedListed' /\ ~IsOpen'
  BY <1>1, <1>2 DEF NamedListed, IsOpen
<1>4. SearchOK'
  BY <1>1, <1>2, <1>3, KeepsReport DEF PromiseInv, SearchOK, OnLists, Searching
<1>5. req.sysid = 0 => ReadyToFinish
  BY <1>1 DEF ReadyToFinish
<1>6. EndsOK'
  BY <1>1, <1>2, <1>3, <1>5, KeepsReport DEF PromiseInv, EndsOK
<1> QED  BY <1>4, <1>6 DEF PromiseInv

LEMMA MakeAutoInterpreterStateOrder ==
    InductiveInv /\ PromiseInv /\ MakeAutoInterpreterState => PromiseInv'
<1> SUFFICES ASSUME InductiveInv, PromiseInv, MakeAutoInterpreterState PROVE PromiseInv'
  OBVIOUS
<1>1. /\ ~IsOpen /\ exn # "std" /\ report = <<>> /\ status = "running" /\ Searching
  BY BetweenBlocks DEF MakeAutoInterpreterState, Walking, PromiseInv, SearchOK, EndsOK
<1>2. /\ UNCHANGED <<mem, req, report, status, th>>
      /\ \/ /\ pc' = "interp" /\ exn' = exn /\ Resolves(mem)
            /\ it' = AutoInterpreterState(mem)
         \/ pc' = "throw" /\ exn' = "std" /\ ~Resolves(mem) /\ it' = it
  BY DEF MakeAutoInterpreterState, walk, Goto, Throw
<1>3. ~NamedListed /\ ~NamedListed' /\ ~IsOpen'
  BY <1>1, <1>2 DEF NamedListed, IsOpen
<1>4. CASE pc' = "interp"
  <2>1. AutoInterpreterState(mem) \in Nat
    BY <1>2, <1>4, AutoTyped DEF InductiveInv, TypeOK
  <2>2. Cursor' = <<AutoInterpreterState(mem), 1>>
    BY <1>2, <1>4 DEF Cursor
  <2>3. DealtBefore(Cursor')
    <3> SUFFICES ASSUME NEW i \in 1..Len(mem.interps),
                        NEW t \in 1..Len(mem.interps[i].threads),
                        AutoInterpreterState(mem) <= i,
                        Promise!Precedes(<<i, t>>, <<AutoInterpreterState(mem), 1>>)
                 PROVE FALSE
      BY <2>2 DEF DealtBefore
    <3>1. i < AutoInterpreterState(mem) \/ t < 1
      BY DEF Promise!Precedes
    <3> QED  BY <2>1, <3>1, MemoryTyped DEF InductiveInv, TypeOK
  <2>4. DealtBefore(Cursor)'
    BY <1>2, <2>3, KeepsReport DEF DealtBefore
  <2>5. SearchOK'
    BY <1>1, <1>2, <1>3, <1>4, <2>1, <2>2, <2>4, KeepsReport DEF SearchOK, OnLists
  <2>6. EndsOK'
    BY <1>1, <1>2, <1>4, KeepsReport DEF PromiseInv, EndsOK
  <2> QED  BY <2>5, <2>6 DEF PromiseInv
<1>5. CASE pc' = "throw"
  <2>1. SearchOK'
    BY <1>1, <1>2, <1>3, <1>5 DEF SearchOK, OnLists
  <2>2. ReadyToFinish
    BY <1>1, <1>2, <1>5 DEF ReadyToFinish, Searching
  <2>3. EndsOK'
    BY <1>1, <1>2, <1>3, <1>5, <2>2, KeepsReport DEF PromiseInv, EndsOK
  <2> QED  BY <2>1, <2>3 DEF PromiseInv
<1> QED  BY <1>2, <1>4, <1>5

LEMMA TstateHeadOrder == InductiveInv /\ PromiseInv /\ TstateHead => PromiseInv'
<1> SUFFICES ASSUME InductiveInv, PromiseInv, TstateHead PROVE PromiseInv'
  OBVIOUS
<1>1. /\ ~IsOpen /\ exn # "std" /\ status = "running" /\ pc = "interp"
      /\ it \in 1..Len(mem.interps) \/ it = AutoInterpreterState(mem)
      /\ Searching /\ Resolves(mem) /\ AutoInterpreterState(mem) <= it
  BY BetweenBlocks DEF TstateHead, Walking, PromiseInv, SearchOK, EndsOK, OnLists
<1>2. /\ UNCHANGED <<mem, req, report, status, it>>
      /\ \/ pc' = "thread" /\ exn' = exn /\ th' = 1
         \/ pc' = "throw" /\ exn' = "ext" /\ ~Readable(mem, it)
  BY DEF TstateHead, walk, Goto, Throw
<1>3. ~IsOpen' /\ NamedListed' = NamedListed
  BY <1>1, <1>2 DEF NamedListed, IsOpen, LastBlock
<1>4. CASE pc' = "thread"
  <2>1. Cursor' = Cursor
    BY <1>1, <1>2, <1>4 DEF Cursor
  <2>2. SearchOK'
    BY <1>1, <1>2, <1>3, <1>4, <2>1, KeepsReport DEF PromiseInv, SearchOK, OnLists
  <2>3. EndsOK'
    BY <1>1, <1>2, <1>4, KeepsReport DEF PromiseInv, EndsOK
  <2> QED  BY <2>2, <2>3 DEF PromiseInv
<1>5. CASE pc' = "throw" /\ exn' = "ext" /\ ~Readable(mem, it)
  <2>1. ~Promise!SoundThreads(mem)
    <3>1. SUFFICES ASSUME Promise!SoundThreads(mem) PROVE FALSE
      OBVIOUS
    <3>2. mem.interps \in Seq(InterpRecord)
      BY MemoryTyped DEF InductiveInv, TypeOK
    <3>3. AutoInterpreterState(mem) \in Nat \ {0} /\ AutoInterpreterState(mem) <= Len(mem.interps)
      BY <1>1, <3>1, AutoTyped, FirstStateTaken, SameFunctions
         DEF Promise!SoundThreads, InductiveInv, TypeOK
    <3>4. it \in 1..Len(mem.interps)
      BY <1>1, <3>2, <3>3
    <3>5. mem.interps[it].ok
      BY <3>1, <3>2, <3>4 DEF Promise!SoundThreads
    <3> QED  BY <1>5, <3>4, <3>5 DEF Readable
  <2>2. ~Promise!Sound
    BY <1>1, <2>1 DEF Promise!Sound, Searching
  <2>3. SearchOK'
    BY <1>1, <1>2, <1>3, <1>5, KeepsReport DEF PromiseInv, SearchOK, OnLists
  <2>4. EndsOK'
    BY <1>1, <1>2, <1>5, <2>2, KeepsReport DEF PromiseInv, EndsOK
  <2> QED  BY <2>3, <2>4 DEF PromiseInv
<1> QED  BY <1>2, <1>4, <1>5

(* The next thread comes directly after the one just dealt with. *)
LEMMA NextThreadOrder == InductiveInv /\ PromiseInv /\ NextThread => PromiseInv'
<1> SUFFICES ASSUME InductiveInv, PromiseInv, NextThread PROVE PromiseInv'
  OBVIOUS
<1> DEFINE FromInterp == AutoInterpreterState(mem)
<1>1. /\ ~IsOpen /\ exn # "std" /\ status = "running" /\ pc = "nextthread"
      /\ Searching /\ Resolves(mem) /\ FromInterp <= it /\ ~NamedListed
      /\ ~req.all => report = <<>>
      /\ req.all => report # <<>> /\ LastBlock.at = <<it, th>>
      /\ DealtBefore(<<it, th>>) /\ Dealt(<<it, th>>)
  BY BetweenBlocks DEF NextThread, Walking, PromiseInv, SearchOK, EndsOK, OnLists, Cursor
<1>2. /\ it \in 1..Len(mem.interps) /\ th \in 1..Len(mem.interps[it].threads)
      /\ mem.interps \in Seq(InterpRecord)
      /\ \A i \in 1..Len(mem.interps) : mem.interps[i].threads \in Seq(ThreadRecord)
      /\ FromInterp \in Nat
  BY <1>1, MemoryTyped, AutoTyped DEF NextThread, InductiveInv, CursorOK, IsThread, TypeOK
<1>3. UNCHANGED <<mem, req, report, status>>
  BY DEF NextThread, walk
<1>4. ~IsOpen' /\ ~NamedListed' /\ (~req'.all => report' = <<>>)
  BY <1>1, <1>3, KeepsReport
<1>5. CASE th < Len(mem.interps[it].threads)
  <2>1. it' = it /\ th' = th + 1 /\ pc' = "thread" /\ exn' = exn
    BY <1>5 DEF NextThread, Goto
  <2>2. Cursor' = <<it, th + 1>>
    BY <2>1 DEF Cursor
  <2>3. DealtBefore(<<it, th + 1>>)
    <3> SUFFICES ASSUME NEW i \in 1..Len(mem.interps),
                        NEW t \in 1..Len(mem.interps[i].threads),
                        FromInterp <= i, Promise!Precedes(<<i, t>>, <<it, th + 1>>)
                 PROVE  Dealt(<<i, t>>)
      BY DEF DealtBefore
    <3>1. CASE i = it /\ t = th
      BY <1>1, <3>1
    <3>2. CASE ~(i = it /\ t = th)
      <4>1. Promise!Precedes(<<i, t>>, <<it, th>>)
        BY <1>2, <3>2 DEF Promise!Precedes
      <4> QED  BY <1>1, <4>1 DEF DealtBefore
    <3> QED  BY <3>1, <3>2
  <2>4. DealtBefore(Cursor)'
    BY <1>3, <2>2, <2>3, KeepsReport DEF DealtBefore
  <2>5. req.all => report # <<>> /\ <<it, th + 1>> = NextAt(mem, LastBlock.at)
    BY <1>1, <1>5 DEF NextAt
  <2>6. (req.all => Cursor = IF report = <<>> THEN <<AutoInterpreterState(mem), 1>>
                                    ELSE NextAt(mem, LastBlock.at))'
    BY <1>3, <2>2, <2>5, KeepsReport
  <2>7. SearchOK'
    BY <1>1, <1>3, <1>4, <2>1, <2>4, <2>6, KeepsReport DEF SearchOK, OnLists
  <2>8. EndsOK'
    BY <1>1, <1>3, <2>1, KeepsReport DEF PromiseInv, EndsOK
  <2> QED  BY <2>7, <2>8 DEF PromiseInv
<1>6. ASSUME th = Len(mem.interps[it].threads), it < Len(mem.interps)
      PROVE  PromiseInv'
  <2>1. it' = it + 1 /\ pc' = "interp" /\ exn' = exn
    BY <1>2, <1>6 DEF NextThread, Goto
  <2>2. Cursor' = <<it + 1, 1>>
    BY <2>1 DEF Cursor
  <2>3. DealtBefore(<<it + 1, 1>>)
    <3> SUFFICES ASSUME NEW i \in 1..Len(mem.interps),
                        NEW t \in 1..Len(mem.interps[i].threads),
                        FromInterp <= i, Promise!Precedes(<<i, t>>, <<it + 1, 1>>)
                 PROVE  Dealt(<<i, t>>)
      BY DEF DealtBefore
    <3>1. CASE i = it /\ t = th
      BY <1>1, <3>1
    <3>2. CASE ~(i = it /\ t = th)
      <4>1. Promise!Precedes(<<i, t>>, <<it, th>>)
        BY <1>2, <1>6, <3>2 DEF Promise!Precedes
      <4> QED  BY <1>1, <4>1 DEF DealtBefore
    <3> QED  BY <3>1, <3>2
  <2>4. DealtBefore(Cursor)'
    BY <1>3, <2>2, <2>3, KeepsReport DEF DealtBefore
  <2>5. req.all => report # <<>> /\ <<it + 1, 1>> = NextAt(mem, LastBlock.at)
    <3>1. ~(th < Len(mem.interps[it].threads))
      BY <1>2, <1>6
    <3> QED  BY <1>1, <3>1 DEF NextAt
  <2>6. (req.all => Cursor = IF report = <<>> THEN <<AutoInterpreterState(mem), 1>>
                                    ELSE NextAt(mem, LastBlock.at))'
    BY <1>3, <2>2, <2>5, KeepsReport
  <2>7. (it \in 1..Len(mem.interps) /\ AutoInterpreterState(mem) <= it)'
    BY <1>1, <1>2, <1>3, <1>6, <2>1
  <2>8. SearchOK'
    BY <1>1, <1>3, <1>4, <2>1, <2>4, <2>6, <2>7, KeepsReport DEF SearchOK, OnLists
  <2>9. EndsOK'
    BY <1>1, <1>3, <2>1, KeepsReport DEF PromiseInv, EndsOK
  <2> QED  BY <2>8, <2>9 DEF PromiseInv
<1>7. ASSUME th = Len(mem.interps[it].threads), it = Len(mem.interps)
      PROVE  PromiseInv'
  <2>1. /\ it' = 0
        /\ \/ pc' = "throw" /\ exn' = "std" /\ ~req.all
           \/ pc' = "named" /\ exn' = exn /\ req.all /\ req.addr # "none"
           \/ pc' = "leave" /\ exn' = exn /\ req.all /\ req.addr = "none"
    BY <1>2, <1>7 DEF NextThread, Goto, Throw
  <2>2. AllDealt
    <3> SUFFICES ASSUME NEW i \in 1..Len(mem.interps),
                        NEW t \in 1..Len(mem.interps[i].threads), FromInterp <= i
                 PROVE  Dealt(<<i, t>>)
      BY DEF AllDealt
    <3>1. CASE i = it /\ t = th
      BY <1>1, <3>1
    <3>2. CASE ~(i = it /\ t = th)
      <4>1. Promise!Precedes(<<i, t>>, <<it, th>>)
        BY <1>2, <1>7, <3>2 DEF Promise!Precedes
      <4> QED  BY <1>1, <4>1 DEF DealtBefore
    <3> QED  BY <3>1, <3>2
  <2>3. req.all => Promise!AllListed
    <3> SUFFICES ASSUME req.all PROVE Promise!AllListed
      OBVIOUS
    <3>1. Len(report) \in DOMAIN report /\ report[Len(report)].at = <<it, th>>
      BY <1>1 DEF InductiveInv, TypeOK, LastBlock
    <3>2. <<it, th>> # <<0, 0>> /\ Promise!IsLastThread(<<it, th>>)
      BY <1>2, <1>7 DEF Promise!IsLastThread
    <3> QED  BY <3>1, <3>2 DEF Promise!AllListed
  <2>4. pc' \in {"throw", "leave"} => ReadyToFinish
    BY <1>1, <2>1, <2>2, <2>3 DEF ReadyToFinish, Searching
  <2>5. SearchOK'
    BY <1>1, <1>3, <1>4, <2>1, <2>2, <2>3, KeepsReport DEF SearchOK, OnLists
  <2>6. EndsOK'
    BY <1>1, <1>3, <1>4, <2>1, <2>4, KeepsReport DEF PromiseInv, EndsOK
  <2> QED  BY <2>5, <2>6 DEF PromiseInv
<1> QED  BY <1>2, <1>5, <1>6, <1>7

-----------------------------------------------------------------------------
(* The steps that open, extend or close a block. *)

LEMMA OpenKeeps ==
    ASSUME report \in Seq(Block), NEW at \in Nat \X Nat,
           report' = Append(report, NewBlock(at))
    PROVE  /\ DOMAIN report \subseteq DOMAIN report'
           /\ \A k \in DOMAIN report : report'[k].at = report[k].at
           /\ Len(report') \in DOMAIN report'
           /\ report' # <<>> /\ LastBlock' = NewBlock(at)
           /\ LastBlock'.at = at /\ IsOpen'
<1>1. /\ report' \in Seq(Block)
      /\ Len(report') = Len(report) + 1
      /\ \A k \in 1..Len(report) : report'[k] = report[k]
      /\ report'[Len(report')] = NewBlock(at)
  BY OpenedBlock
<1>2. NewBlock(at).at = at /\ NewBlock(at).end = "open"
  BY DEF NewBlock
<1> QED  BY <1>1, <1>2 DEF LastBlock, IsOpen

LEMMA CloseKeeps ==
    ASSUME report \in Seq(Block), report # <<>>, NEW e \in Outcomes \ {"open"},
           report' = SetEnd(e)
    PROVE  /\ DOMAIN report \subseteq DOMAIN report'
           /\ \A k \in DOMAIN report : report'[k].at = report[k].at
           /\ NamedListed' = NamedListed /\ ~IsOpen' /\ report' # <<>>
           /\ LastBlock'.at = LastBlock.at
<1>1. /\ report' \in Seq(Block)
      /\ Len(report') = Len(report)
      /\ \A k \in 1..Len(report) : k # Len(report) => report'[k] = report[k]
      /\ report'[Len(report')].at = report[Len(report)].at
      /\ report'[Len(report')].end = e
  <2>1. e \in Outcomes /\ report \in Seq(Block) /\ report # <<>>
    OBVIOUS
  <2>2. report' = Closing(report, e)
    BY DEF SetEnd, Closing
  <2>3. IsClosed(report, report', e)
    BY <2>1, <2>2, ClosedReport, Zenon
  <2> QED  BY <2>3 DEF IsClosed
<1>2. DOMAIN report = 1..Len(report) /\ DOMAIN report' = 1..Len(report)
  BY <1>1
<1>3. report' # <<>> /\ Len(report) \in Nat
  BY <1>1
<1>4. \A k \in DOMAIN report : report'[k].at = report[k].at
  BY <1>1, <1>2, Zenon
<1>5. LastBlock'.at = LastBlock.at /\ LastBlock'.end # "open"
  BY <1>1 DEF LastBlock
<1>6. NamedListed' = NamedListed /\ ~IsOpen'
  BY <1>3, <1>5 DEF IsOpen, NamedListed
<1> QED  BY <1>2, <1>3, <1>4, <1>5, <1>6

LEMMA ShowKeeps ==
    ASSUME InductiveInv, IsOpen, NEW q \in Nat,
           report' = [report EXCEPT ![Len(report)].shown = Append(LastBlock.shown, q)]
    PROVE  /\ DOMAIN report \subseteq DOMAIN report'
           /\ \A k \in DOMAIN report : report'[k].at = report[k].at
           /\ NamedListed' = NamedListed /\ IsOpen' /\ Named' = Named
           /\ LastBlock'.at = LastBlock.at
           /\ \A k \in DOMAIN report : k # Len(report) => report'[k] = report[k]
           /\ report'[Len(report)].shown = Append(LastBlock.shown, q)
<1> DEFINE x == Append(LastBlock.shown, q)
           r2 == [report EXCEPT ![Len(report)].shown = x]
<1>1. report \in Seq(Block) /\ report # <<>> /\ LastBlock \in Block
  BY OpenStack DEF InductiveInv, TypeOK
<1>2. x \in Seq(Nat)
  BY <1>1 DEF Block
<1>3. report' = r2
  OBVIOUS
<1> HIDE DEF x
<1>4. /\ r2 \in Seq(Block)
      /\ Len(r2) = Len(report)
      /\ \A k \in 1..Len(report) : k # Len(report) => r2[k] = report[k]
      /\ r2[Len(r2)].at = report[Len(report)].at
      /\ r2[Len(r2)].end = report[Len(report)].end
      /\ r2[Len(r2)].shown = x
  <2> DEFINE n == Len(report)
             b == report[n]
             B == [b EXCEPT !.shown = x]
  <2>1. n \in 1..n /\ b \in Block
    BY <1>1
  <2>2. B \in Block /\ B.at = b.at /\ B.end = b.end /\ B.shown = x
    <3> HIDE DEF b
    <3> QED  BY <1>2, <2>1 DEF Block
  <2>3. r2 = [report EXCEPT ![n] = B]
    OBVIOUS
  <2> HIDE DEF B, r2
  <2> QED  BY <1>1, <2>1, <2>2, <2>3, ExceptSeq
<1> HIDE DEF r2
<1>5. DOMAIN report = 1..Len(report) /\ DOMAIN r2 = 1..Len(report)
  BY <1>1, <1>4
<1>6. \A k \in DOMAIN report : k # Len(report) => report'[k] = report[k]
  BY <1>3, <1>4, <1>5
<1>7. report'[Len(report)].shown = Append(LastBlock.shown, q)
  BY <1>3, <1>4 DEF x
<1> QED  BY <1>1, <1>3, <1>4, <1>5, <1>6, <1>7 DEF LastBlock, IsOpen, NamedListed, Named

LEMMA ThreadIdOrder == InductiveInv /\ PromiseInv /\ ThreadId => PromiseInv'
<1> SUFFICES ASSUME InductiveInv, PromiseInv, ThreadId PROVE PromiseInv'
  OBVIOUS
<1>1. /\ ~IsOpen /\ exn # "std" /\ status = "running" /\ pc = "thread"
      /\ Searching /\ Resolves(mem) /\ AutoInterpreterState(mem) <= it /\ ~NamedListed
      /\ ~req.all => report = <<>>
      /\ DealtBefore(<<it, th>>)
      /\ Cursor = <<it, th>>
      /\ it \in 1..Len(mem.interps) /\ it \in Nat /\ th \in Nat
      /\ report \in Seq(Block)
  BY BetweenBlocks DEF ThreadId, Walking, PromiseInv, SearchOK, EndsOK, OnLists, Cursor,
                       InductiveInv, CursorOK, TypeOK
<1>2. UNCHANGED <<mem, req, status, it, th>>
  BY DEF ThreadId, walk
<1> DEFINE threads == mem.interps[it].threads
<1>3. \/ /\ pc' = "throw" /\ exn' = "ext" /\ report' = report
         /\ th > Len(threads) \/ ~threads[th].ok
      \/ /\ pc' = "top" /\ exn' = exn /\ ~(th > Len(threads))
         /\ report' = Append(report, NewBlock(<<it, th>>))
      \/ /\ pc' = "nextthread" /\ exn' = exn /\ report' = report /\ ~(th > Len(threads))
         /\ ~req.all /\ threads[th].tid # req.sysid
  BY DEF ThreadId, Goto, Throw
<1>4. CASE pc' = "throw"
  <2>1. /\ mem.interps \in Seq(InterpRecord) /\ threads \in Seq(ThreadRecord)
        /\ th = 1 \/ th \in 1..Len(threads)
    BY <1>1, MemoryTyped DEF InductiveInv, TypeOK, CursorOK, IsThread
  <2>2. ~Promise!SoundThreads(mem)
    <3>1. SUFFICES ASSUME Promise!SoundThreads(mem) PROVE FALSE
      OBVIOUS
    <3>2. threads # <<>> /\ \A t \in DOMAIN threads : threads[t].ok
      BY <1>1, <2>1, <3>1 DEF Promise!SoundThreads, Promise!SoundThread
    <3> QED  BY <1>3, <1>4, <2>1, <3>2
  <2>3. ~Promise!Sound
    BY <1>1, <2>2 DEF Promise!Sound, Searching
  <2>4. ~IsOpen' /\ ~NamedListed'
    BY <1>1, <1>3, <1>4, <1>2, KeepsReport
  <2>5. SearchOK'
    BY <1>1, <1>2, <1>3, <1>4, <2>4, KeepsReport DEF SearchOK, OnLists
  <2>6. EndsOK'
    BY <1>1, <1>2, <1>3, <1>4, <2>3, KeepsReport DEF PromiseInv, EndsOK
  <2> QED  BY <2>5, <2>6 DEF PromiseInv
<1>5. CASE pc' = "top"
  <2>1. <<it, th>> \in Nat \X Nat /\ <<it, th>> # <<0, 0>>
    BY <1>1
  <2>2. report' = Append(report, NewBlock(<<it, th>>))
    BY <1>3, <1>5
  <2>3. /\ DOMAIN report \subseteq DOMAIN report'
        /\ \A k \in DOMAIN report : report'[k].at = report[k].at
        /\ LastBlock'.at = <<it, th>> /\ IsOpen'
    BY <1>1, <2>1, <2>2, OpenKeeps
  <2>4. ~NamedListed' /\ ~Named' /\ Cursor' = <<it, th>>
    BY <1>2, <1>5, <2>1, <2>3 DEF NamedListed, Named, Cursor
  <2>5. /\ Searching' /\ (DealtBefore(<<it, th>>))'
    <3>1. UNCHANGED <<it, th, mem, req>>
      BY <1>2
    <3>2. \A at : DealtBefore(at) => DealtBefore(at)'
      BY <1>2, <2>3, KeepsDealt
    <3> QED  BY <1>1, <1>2, <2>3, <3>1, <3>2, KeepsDealt DEF DealtBefore
  <2>6. SearchOK'
    BY <1>1, <1>2, <1>5, <2>3, <2>4, <2>5 DEF SearchOK, OnLists
  <2>7. Promise!Sound' = Promise!Sound /\ exn' = exn
    BY <1>2, <1>3, <1>5, <2>3, KeepsDealt
  <2>8. EndsOK'
    BY <1>1, <1>2, <1>5, <2>7 DEF PromiseInv, EndsOK
  <2> QED  BY <2>6, <2>8 DEF PromiseInv
<1>6. CASE pc' = "nextthread"
  <2>1. Cursor' = <<it, th>> /\ ~IsOpen' /\ ~NamedListed'
    BY <1>1, <1>2, <1>3, <1>6, KeepsReport DEF Cursor
  <2>2. Dealt(<<it, th>>)
    BY <1>3, <1>6, SMTT(30) DEF Dealt
  <2>3. (DealtBefore(Cursor) /\ Dealt(Cursor))'
    BY <1>1, <1>2, <1>3, <1>6, <2>1, <2>2, KeepsReport DEF DealtBefore, Dealt
  <2>4. SearchOK'
    BY <1>1, <1>2, <1>3, <1>6, <2>1, <2>3, KeepsReport DEF SearchOK, OnLists
  <2>5. EndsOK'
    BY <1>1, <1>2, <1>3, <1>6, KeepsReport DEF PromiseInv, EndsOK
  <2> QED  BY <2>4, <2>5 DEF PromiseInv
<1> QED  BY <1>3, <1>4, <1>5, <1>6

LEMMA NamedFrameOrder == InductiveInv /\ PromiseInv /\ NamedFrame => PromiseInv'
<1> SUFFICES ASSUME InductiveInv, PromiseInv, NamedFrame PROVE PromiseInv'
  OBVIOUS
<1>1. /\ ~IsOpen /\ exn # "std" /\ status = "running" /\ pc = "named"
      /\ ~NamedListed /\ req.addr # "none"
      /\ req.all => Promise!AllListed /\ AllDealt
      /\ report \in Seq(Block) /\ req.addr \in {"none", "ok", "bad"}
  BY BetweenBlocks DEF NamedFrame, Walking, PromiseInv, SearchOK, EndsOK,
                       InductiveInv, TypeOK, RequestRecord
<1>2. UNCHANGED <<mem, req, status, it, th>>
  BY DEF NamedFrame, walk
<1>3. CASE req.addr = "bad"
  <2>1. pc' = "throw" /\ exn' = "ext" /\ report' = report
    BY <1>3 DEF NamedFrame, Throw
  <2>2. ~IsOpen' /\ ~NamedListed'
    BY <1>1, <1>2, <2>1, KeepsReport
  <2>3. SearchOK'
    BY <1>1, <1>2, <2>1, <2>2 DEF SearchOK, OnLists
  <2>4. EndsOK'
    BY <1>1, <1>2, <1>3, <2>1 DEF EndsOK
  <2> QED  BY <2>3, <2>4 DEF PromiseInv
<1>4. CASE req.addr # "bad"
  <2>1. pc' = "line" /\ exn' = exn /\ report' = Append(report, NewBlock(<<0, 0>>))
    BY <1>4 DEF NamedFrame, Goto
  <2>2. /\ DOMAIN report \subseteq DOMAIN report'
        /\ \A k \in DOMAIN report : report'[k].at = report[k].at
        /\ LastBlock'.at = <<0, 0>> /\ IsOpen' /\ report' # <<>>
    <3>1. <<0, 0>> \in Nat \X Nat
      OBVIOUS
    <3> QED  BY <1>1, <2>1, <3>1, OpenKeeps
  <2>3. NamedListed' /\ Named'
    BY <2>2 DEF NamedListed, Named
  <2>4. req'.all => Promise!AllListed' /\ AllDealt'
    BY <1>1, <1>2, <2>2, KeepsDealt
  <2>5. SearchOK'
    BY <1>1, <1>2, <1>4, <2>1, <2>3, <2>4 DEF SearchOK, OnLists
  <2>6. EndsOK'
    BY <1>1, <1>2, <2>1, <2>2, KeepsDealt DEF PromiseInv, EndsOK
  <2> QED  BY <2>5, <2>6 DEF PromiseInv
<1> QED  BY <1>3, <1>4

LEMMA FrameToStringOrder == InductiveInv /\ PromiseInv /\ FrameToString => PromiseInv'
<1> SUFFICES ASSUME InductiveInv, PromiseInv, FrameToString PROVE PromiseInv'
  OBVIOUS
<1>1. /\ IsOpen /\ pc = "line" /\ exn # "std" /\ status = "running"
      /\ IsNextFrame(mem, LastBlock.at, LastPos, fr)
  BY DEF FrameToString, InductiveInv, CursorOK, WalkOK, Walking, PromiseInv, EndsOK
<1>2. fr \in 1..Len(Stack.frames) /\ fr \in Nat
  BY <1>1 DEF IsNextFrame, Stack, InductiveInv, TypeOK
<1>3. UNCHANGED <<mem, req, status, it, th>>
  BY DEF FrameToString, walk
<1>4. \/ /\ pc' = "throw" /\ exn' = "ext" /\ report' = report
         /\ CodeOf(Frame) = "missing"
      \/ pc' = "throw" /\ exn' = "std" /\ report' = report /\ CodeOf(Frame) = "null"
      \/ /\ pc' = "links" /\ exn' = exn
         /\ report' = [report EXCEPT ![Len(report)].shown = Append(LastBlock.shown, fr)]
  BY DEF FrameToString, Goto, Throw
<1>5. CASE exn' = "ext" /\ pc' = "throw" /\ report' = report
           /\ CodeOf(Frame) = "missing"
  <2>1. ~Promise!Sound
    BY <1>1, <1>2, <1>5, ObstacleInChain DEF Frame, CodeOf
  <2> QED  BY <1>1, <1>3, <1>5, <2>1, QuietStep DEF Walking
<1>6. CASE exn' = "std" /\ pc' = "throw" /\ report' = report /\ CodeOf(Frame) = "null"
  <2>1. Warrants
    BY <1>1, <1>2, <1>6 DEF Warrants, CodeOf, Frame
  <2>2. Cursor' = Cursor
    BY <1>1, <1>3, <1>6 DEF Cursor
  <2>3. SearchOK'
    BY <1>1, <1>3, <1>6, <2>2, KeepsReport DEF PromiseInv, SearchOK, OnLists
  <2>4. EndsOK'
    BY <1>1, <1>3, <1>6, <2>1, KeepsReport DEF PromiseInv, EndsOK
  <2> QED  BY <2>3, <2>4 DEF PromiseInv
<1>7. CASE pc' = "links" /\ exn' = exn
           /\ report' = [report EXCEPT ![Len(report)].shown = Append(LastBlock.shown, fr)]
  <2>1. /\ DOMAIN report \subseteq DOMAIN report'
        /\ \A k \in DOMAIN report : report'[k].at = report[k].at
        /\ NamedListed' = NamedListed /\ IsOpen' /\ Named' = Named
        /\ LastBlock'.at = LastBlock.at
    BY <1>1, <1>2, <1>7, ShowKeeps
  <2>2. Cursor' = Cursor /\ Cursor = <<it, th>>
    BY <1>1, <1>3, <1>7 DEF Cursor
  <2>3. /\ \A at : DealtBefore(at) => DealtBefore(at)'
        /\ AllDealt => AllDealt'
        /\ Promise!AllListed => Promise!AllListed'
        /\ Searching' = Searching /\ Promise!Sound' = Promise!Sound
    BY <1>3, <2>1, KeepsDealt
  <2>4. DealtBefore(Cursor) => DealtBefore(Cursor)'
    BY <1>3, <2>2, <2>3 DEF DealtBefore
  <2>5. SearchOK'
    BY <1>1, <1>3, <1>7, <2>1, <2>2, <2>3, <2>4 DEF PromiseInv, SearchOK, OnLists
  <2>6. EndsOK'
    BY <1>1, <1>3, <1>7, <2>3 DEF PromiseInv, EndsOK
  <2> QED  BY <2>5, <2>6 DEF PromiseInv
<1> QED  BY <1>4, <1>5, <1>6, <1>7

(* After a block is closed, the command leaves or goes on to the next      *)
(* thread, and in both cases the order of the listing is kept.             *)
LEMMA ClosedOrder ==
    ASSUME InductiveInv, PromiseInv, IsOpen, pc \in Walking \cup {"throw"},
           UNCHANGED <<mem, req, status, it, th>>, status = "running",
           NEW e \in Outcomes \ {"open"}, report' = SetEnd(e),
           pc' = IF Named \/ ~req.all THEN "leave" ELSE "nextthread",
           exn' # "std", exn' = exn \/ exn' = "none"
    PROVE  PromiseInv'
<1>1. report \in Seq(Block) /\ report # <<>>
  BY OpenStack DEF InductiveInv, TypeOK
<1>2. /\ DOMAIN report \subseteq DOMAIN report'
      /\ \A k \in DOMAIN report : report'[k].at = report[k].at
      /\ NamedListed' = NamedListed /\ ~IsOpen' /\ report' # <<>>
      /\ LastBlock'.at = LastBlock.at
  BY <1>1, CloseKeeps
<1>3. Named <=> NamedListed
  BY <1>1 DEF Named, NamedListed
<1>4. /\ \A at : Dealt(at) => Dealt(at)'
      /\ \A at : DealtBefore(at) => DealtBefore(at)'
      /\ AllDealt => AllDealt'
      /\ Promise!AllListed => Promise!AllListed'
      /\ Searching' = Searching /\ Promise!Sound' = Promise!Sound
  BY <1>2, KeepsDealt
<1>5. Cursor = <<it, th>> /\ Cursor' = Cursor
  BY DEF Cursor, Walking
<1>6. CASE Named \/ ~req.all
  <2>1. (ReadyToFinish)'
    BY <1>2, <1>3, <1>4, <1>6 DEF PromiseInv, SearchOK, ReadyToFinish, OnLists, Searching
  <2>2. SearchOK'
    BY <1>2, <1>4, <1>6 DEF PromiseInv, SearchOK, OnLists
  <2>3. EndsOK'
    BY <1>2, <1>4, <1>6, <2>1 DEF PromiseInv, EndsOK
  <2> QED  BY <2>2, <2>3 DEF PromiseInv
<1>7. CASE ~(Named \/ ~req.all)
  <2>1. /\ LastBlock.at = <<it, th>> /\ DealtBefore(<<it, th>>)
        /\ Searching /\ Resolves(mem) /\ AutoInterpreterState(mem) <= it
    BY <1>5, <1>7 DEF PromiseInv, SearchOK, OnLists
  <2>2. Dealt(<<it, th>>)
    <3>1. Len(report) \in DOMAIN report /\ report[Len(report)].at = <<it, th>>
      BY <1>1, <2>1 DEF LastBlock
    <3> QED  BY <1>7, <3>1 DEF Dealt
  <2>3. (DealtBefore(Cursor) /\ Dealt(Cursor))'
    <3>1. DealtBefore(<<it, th>>)'
      BY <1>4, <2>1 DEF DealtBefore
    <3>2. Dealt(<<it, th>>)'
      BY <1>2, <2>2, <1>7 DEF Dealt
    <3>3. Cursor' = <<it', th'>>
      BY <1>5
    <3> QED  BY <3>1, <3>2, <3>3 DEF Dealt, DealtBefore
  <2>4. SearchOK'
    BY <1>2, <1>3, <1>4, <1>5, <1>7, <2>1, <2>3 DEF SearchOK, OnLists
  <2>5. EndsOK'
    BY <1>2, <1>4, <1>7 DEF PromiseInv, EndsOK
  <2> QED  BY <2>4, <2>5 DEF PromiseInv
<1> QED  BY <1>6, <1>7

LEMMA ChainEndsOrder == InductiveInv /\ PromiseInv /\ ChainEnds => PromiseInv'
<1> SUFFICES ASSUME InductiveInv, PromiseInv, ChainEnds PROVE PromiseInv'
  OBVIOUS
<1>1. /\ IsOpen /\ pc = "skip" /\ exn # "std" /\ status = "running"
      /\ NothingFollows(mem, LastBlock.at, LastPos)
      /\ LastBlock.shown = <<>> => LastPos = 0
  BY DEF ChainEnds, InductiveInv, CursorOK, WalkOK, Walking, PromiseInv, EndsOK
<1>2. UNCHANGED <<mem, req, status, it, th>>
  BY DEF ChainEnds, walk
<1>3. CASE LastBlock.shown = <<>> /\ ~req.all
  <2>1. pc' = "throw" /\ exn' = "std" /\ report' = report
    BY <1>3 DEF ChainEnds, Throw
  <2>2. Warrants
    BY <1>1, <1>3 DEF Warrants
  <2>3. Cursor' = Cursor
    BY <1>1, <1>2, <2>1 DEF Cursor
  <2>4. SearchOK'
    BY <1>1, <1>2, <2>1, <2>3, KeepsReport DEF PromiseInv, SearchOK, OnLists
  <2>5. EndsOK'
    BY <1>1, <1>2, <2>1, <2>2, KeepsReport DEF PromiseInv, EndsOK
  <2> QED  BY <2>4, <2>5 DEF PromiseInv
<1>4. CASE ~(LastBlock.shown = <<>> /\ ~req.all)
  <2>1. PICK e \in {"empty", "ended"} : report' = SetEnd(e)
    BY <1>4 DEF ChainEnds
  <2>2. /\ exn' = exn
        /\ pc' = IF Named \/ ~req.all THEN "leave" ELSE "nextthread"
    BY <1>4 DEF ChainEnds, Goto
  <2> QED  BY <1>1, <1>2, <2>1, <2>2, ClosedOrder DEF Outcomes, Walking
<1> QED  BY <1>3, <1>4

(* The handlers of a warning close the open block, if there is one. *)
LEMMA CatchOrder ==
    InductiveInv /\ PromiseInv /\ (CatchInThread \/ CatchInCommand) => PromiseInv'
<1> SUFFICES ASSUME InductiveInv, PromiseInv, CatchInThread \/ CatchInCommand
             PROVE  PromiseInv'
  OBVIOUS
<1>1. pc = "throw" /\ exn = "std" /\ exn' = "none" /\ status = "running"
      /\ UNCHANGED <<mem, req, status, it, th>>
  BY DEF CatchInThread, CatchInCommand, walk, PromiseInv, EndsOK
<1>2. CASE IsOpen
  <2>1. report' = SetEnd("warned")
    BY <1>2 DEF CatchInThread, CatchInCommand
  <2>2. pc' = IF Named \/ ~req.all THEN "leave" ELSE "nextthread"
    BY <1>2 DEF CatchInThread, CatchInCommand
  <2> QED  BY <1>1, <1>2, <2>1, <2>2, ClosedOrder DEF Outcomes, Walking
<1>3. CASE ~IsOpen
  <2>1. pc' = "leave" /\ report' = report /\ ReadyToFinish
    BY <1>1, <1>3 DEF CatchInThread, CatchInCommand, PromiseInv, EndsOK
  <2>2. SearchOK'
    BY <1>1, <1>3, <2>1, KeepsReport DEF PromiseInv, SearchOK, OnLists
  <2>3. EndsOK'
    BY <1>1, <1>3, <2>1, KeepsReport DEF PromiseInv, EndsOK
  <2> QED  BY <2>2, <2>3 DEF PromiseInv
<1> QED  BY <1>2, <1>3

LEMMA EscapeOrder == InductiveInv /\ PromiseInv /\ Escape => PromiseInv'
<1> SUFFICES ASSUME InductiveInv, PromiseInv, Escape PROVE PromiseInv'
  OBVIOUS
<1>1. /\ pc = "throw" /\ exn = "ext" /\ exn' = exn /\ pc' = "done" /\ status' = "aborted"
      /\ UNCHANGED <<mem, req, it, th>>
      /\ ~Promise!Sound \/ req.addr = "bad"
  BY DEF Escape, PromiseInv, EndsOK
<1>2. /\ DOMAIN report \subseteq DOMAIN report'
      /\ \A k \in DOMAIN report : report'[k].at = report[k].at
      /\ NamedListed' = NamedListed /\ ~IsOpen'
  <2>1. CASE IsOpen
    <3>1. report' = SetEnd("broken") /\ report \in Seq(Block) /\ report # <<>>
      BY <2>1 DEF Escape, InductiveInv, TypeOK, IsOpen
    <3> QED  BY <3>1, CloseKeeps DEF Outcomes
  <2>2. CASE ~IsOpen
    BY <2>2, <1>1, KeepsReport DEF Escape
  <2> QED  BY <2>1, <2>2
<1>3. SearchOK'
  BY <1>1, <1>2, KeepsDealt DEF PromiseInv, SearchOK, OnLists
<1>4. EndsOK'
  BY <1>1, <1>2, KeepsDealt DEF EndsOK
<1> QED  BY <1>3, <1>4 DEF PromiseInv

LEMMA LeaveOrder == InductiveInv /\ PromiseInv /\ (Leave \/ Returned) => PromiseInv'
<1> SUFFICES ASSUME InductiveInv, PromiseInv, Leave \/ Returned PROVE PromiseInv'
  OBVIOUS
<1>1. UNCHANGED <<mem, req, report, it, th, exn>> /\ pc' = "done"
  BY DEF Leave, Returned, vars
<1>2. ~IsOpen /\ ~IsOpen' /\ exn # "std"
  BY <1>1, BetweenBlocks, KeepsReport DEF Leave, Returned, Walking
<1>3. \/ pc = "leave" /\ status' = "finished"
      \/ pc = "done" /\ status' = status
  BY DEF Leave, Returned, vars
<1>4. SearchOK'
  BY <1>1, <1>2, KeepsReport DEF PromiseInv, SearchOK, OnLists
<1>5. EndsOK'
  BY <1>1, <1>2, <1>3, KeepsReport DEF PromiseInv, EndsOK
<1> QED  BY <1>4, <1>5 DEF PromiseInv

LEMMA InitOrder == Init => PromiseInv
BY DEF Init, PromiseInv, SearchOK, EndsOK, OnLists, IsOpen, NamedListed

LEMMA NextOrder == InductiveInv /\ PromiseInv /\ [Next]_vars => PromiseInv'
<1> SUFFICES ASSUME InductiveInv, PromiseInv, [Next]_vars PROVE PromiseInv'
  OBVIOUS
<1>1. CASE UNCHANGED vars
  <2>1. UNCHANGED <<mem, req, report, status, pc, it, th, exn>>
    BY <1>1 DEF vars
  <2>2. Cursor' = Cursor
    BY <2>1 DEF Cursor
  <2>3. SearchOK'
    BY <2>1, <2>2, KeepsReport DEF PromiseInv, SearchOK, OnLists
  <2>4. EndsOK'
    BY <2>1, KeepsReport DEF PromiseInv, EndsOK
  <2> QED  BY <2>3, <2>4 DEF PromiseInv
<1>2. CASE Start
  BY <1>2, StartOrder
<1>3. CASE CurrentThreadIds
  BY <1>3, CurrentThreadIdsOrder
<1>4. CASE MakeAutoInterpreterState
  BY <1>4, MakeAutoInterpreterStateOrder
<1>5. CASE TstateHead
  BY <1>5, TstateHeadOrder
<1>6. CASE ThreadId
  BY <1>6, ThreadIdOrder
<1>7. CASE NextThread
  BY <1>7, NextThreadOrder
<1>8. CASE CurrentFrame
  BY <1>8, CurrentFrameOrder
<1>9. CASE SkipIncomplete
  BY <1>9, SkipIncompleteOrder
<1>10. CASE ChainEnds
  BY <1>10, ChainEndsOrder
<1>11. CASE FrameToString
  BY <1>11, FrameToStringOrder
<1>12. CASE FrameToCommandString
  BY <1>12, FrameToCommandStringOrder
<1>13. CASE Previous
  BY <1>13, PreviousOrder
<1>14. CASE NamedFrame
  BY <1>14, NamedFrameOrder
<1>15. CASE CatchInThread \/ CatchInCommand
  BY <1>15, CatchOrder
<1>16. CASE Escape
  BY <1>16, EscapeOrder
<1>17. CASE Leave \/ Returned
  BY <1>17, LeaveOrder
<1> QED  BY <1>1, <1>2, <1>3, <1>4, <1>5, <1>6, <1>7, <1>8, <1>9, <1>10, <1>11,
            <1>12, <1>13, <1>14, <1>15, <1>16, <1>17 DEF Next

(* The search deals with the threads in list order, and a warning or an    *)
(* abort has its cause in the memory.                                      *)
THEOREM PromiseInvariance == Spec => []PromiseInv
<1>1. Init => PromiseInv
  BY InitOrder
<1>2. InductiveInv /\ PromiseInv /\ [Next]_vars => PromiseInv'
  BY NextOrder
<1> QED  BY <1>1, <1>2, InductiveInvariance, PTL DEF Spec

(* For every memory: a finished !pystack -all has a block for each thread  *)
(* of the interpreter states it starts from, whatever warnings some of     *)
(* them ended with (the handler inside the loop, src/pystack.cpp:120).     *)
THEOREM FinishedAllLists == Spec => []FinishedListsAll
<1>1. InductiveInv /\ PromiseInv => FinishedListsAll
  <2> SUFFICES ASSUME InductiveInv, PromiseInv, status = "finished", req.all, Resolves(mem),
                      NEW i \in DOMAIN mem.interps,
                      NEW t \in DOMAIN mem.interps[i].threads,
                      Promise!FirstState(mem) <= i
               PROVE  \E k \in DOMAIN report : report[k].at = <<i, t>>
    BY DEF FinishedListsAll
  <2>1. AllDealt
    BY DEF PromiseInv, EndsOK, ReadyToFinish
  <2>2. i \in 1..Len(mem.interps)
    BY MemoryTyped DEF InductiveInv, TypeOK
  <2>3. t \in 1..Len(mem.interps[i].threads)
    BY <2>2, MemoryTyped DEF InductiveInv, TypeOK
  <2>4. Dealt(<<i, t>>)
    BY <2>1, <2>2, <2>3, FirstStateTaken DEF AllDealt, InductiveInv, TypeOK
  <2> QED  BY <2>4 DEF Dealt
<1> QED  BY <1>1, InductiveInvariance, PromiseInvariance, PTL

-----------------------------------------------------------------------------
(* Every step of the walk is a step of StackReport or leaves what it sees. *)

LEMMA SameReport ==
    /\ Promise!IsOpen <=> IsOpen
    /\ Promise!LastBlock = LastBlock
    /\ Promise!NamedListed <=> NamedListed
    /\ \A e : Promise!SetEnd(e) = SetEnd(e)
BY DEF Promise!IsOpen, IsOpen, Promise!LastBlock, LastBlock, Promise!NamedListed,
       NamedListed, Promise!SetEnd, SetEnd

LEMMA InitPromised == Init => Promise!Init
<1>1. Promise!Memory = Memory
  BY DEF Promise!Memory, Memory, Promise!InterpRecord, InterpRecord,
         Promise!ThreadRecord, ThreadRecord, Promise!StackRecord, StackRecord,
         Promise!FrameRecord, FrameRecord
<1>2. Promise!RequestRecord = RequestRecord
  BY DEF Promise!RequestRecord, RequestRecord
<1> QED  BY <1>1, <1>2, ConstantsAssumption DEF Init, Promise!Init

LEMMA ThreadIdPromised ==
    InductiveInv /\ PromiseInv /\ ThreadId
    => UNCHANGED Promise!avars \/ Promise!OpenThread \/ Promise!OpenCurrent
<1> SUFFICES ASSUME InductiveInv, PromiseInv, ThreadId, report' # report
             PROVE  Promise!OpenThread \/ Promise!OpenCurrent
  BY DEF ThreadId, walk, Promise!avars
<1> DEFINE at == <<it, th>>
<1>1. /\ status = "running" /\ ~IsOpen /\ ~NamedListed /\ Searching /\ Resolves(mem)
      /\ AutoInterpreterState(mem) <= it /\ DealtBefore(at)
      /\ ~req.all => report = <<>>
      /\ req.all => at = IF report = <<>> THEN <<AutoInterpreterState(mem), 1>>
                                          ELSE NextAt(mem, LastBlock.at)
  BY BetweenBlocks
     DEF ThreadId, PromiseInv, SearchOK, EndsOK, OnLists, Cursor, Walking
<1>2. /\ report' = Append(report, NewBlock(at))
      /\ th <= Len(mem.interps[it].threads)
      /\ req.all \/ mem.interps[it].threads[th].tid = req.sysid
      /\ UNCHANGED <<mem, req, status>>
  <2>1. it \in 1..Len(mem.interps) /\ th \in Nat
    BY DEF ThreadId, InductiveInv, CursorOK, TypeOK
  <2>2. Len(mem.interps[it].threads) \in Nat
    BY <2>1, MemoryTyped DEF InductiveInv, TypeOK
  <2> QED  BY <2>1, <2>2 DEF ThreadId, walk
<1>3. IsThread(mem, at)
  <2>1. it \in 1..Len(mem.interps) /\ (th = 1 \/ IsThread(mem, at)) /\ th \in Nat
    BY DEF ThreadId, InductiveInv, CursorOK, TypeOK
  <2>2. Len(mem.interps[it].threads) \in Nat
    BY <2>1, MemoryTyped DEF InductiveInv, TypeOK
  <2> QED  BY <1>2, <2>1, <2>2 DEF IsThread
<1>4. Promise!Open(at)
  BY <1>1, <1>2, SameReport, SameFunctions DEF Promise!Open
<1>5. CASE req.all
  <2>1. Promise!FirstState(mem) = AutoInterpreterState(mem)
    BY <1>1, FirstStateTaken DEF InductiveInv, TypeOK
  <2> QED  BY <1>1, <1>3, <1>4, <1>5, <2>1, SameReport, SameFunctions
           DEF Promise!OpenThread
<1>6. CASE ~req.all
  <2>1. Promise!IsCurrent(at)
    <3>0. Promise!FirstState(mem) = AutoInterpreterState(mem)
      BY <1>1, FirstStateTaken DEF InductiveInv, TypeOK
    <3>1. /\ Promise!Resolves(mem) /\ Promise!IsThread(mem, at)
          /\ it >= Promise!FirstState(mem)
          /\ mem.interps[it].threads[th].tid = req.sysid
      BY <1>1, <1>2, <1>3, <1>6, <3>0, SameFunctions
    <3>2. ASSUME NEW i \in 1..Len(mem.interps), NEW t \in 1..Len(mem.interps[i].threads),
                 AutoInterpreterState(mem) <= i, Promise!Precedes(<<i, t>>, at)
          PROVE  mem.interps[i].threads[t].tid # req.sysid
      <4>1. Dealt(<<i, t>>)
        BY <1>1, <3>2 DEF DealtBefore
      <4> QED  BY <1>6, <4>1 DEF Dealt
    <3> QED  BY <3>0, <3>1, <3>2, SameFunctions DEF Promise!IsCurrent
  <2>2. it \in 1..Len(mem.interps) /\ th \in 1..Len(mem.interps[it].threads)
    BY <1>3 DEF IsThread
  <2>3. ~req.all /\ req.addr = "none" /\ report = <<>>
    BY <1>1, <1>6 DEF Searching
  <2> QED  BY <1>4, <2>1, <2>2, <2>3 DEF Promise!OpenCurrent
<1> QED  BY <1>5, <1>6

LEMMA NamedFramePromised ==
    InductiveInv /\ PromiseInv /\ NamedFrame
    => UNCHANGED Promise!avars \/ Promise!OpenNamed
<1> SUFFICES ASSUME InductiveInv, PromiseInv, NamedFrame, req.addr # "bad"
             PROVE  Promise!OpenNamed
  BY DEF NamedFrame, walk, Promise!avars
<1>1. /\ status = "running" /\ ~IsOpen /\ ~NamedListed /\ req.addr # "none"
      /\ req.all => Promise!AllListed
  BY BetweenBlocks DEF NamedFrame, PromiseInv, SearchOK, EndsOK, Walking
<1>2. req.addr = "ok"
  BY <1>1 DEF InductiveInv, TypeOK, RequestRecord
<1>3. report' = Append(report, NewBlock(<<0, 0>>)) /\ UNCHANGED <<mem, req, status>>
  BY DEF NamedFrame, walk
<1>4. Promise!Open(<<0, 0>>)
  BY <1>1, <1>3, SameReport, SameFunctions DEF Promise!Open
<1> QED  BY <1>1, <1>2, <1>4, SameReport DEF Promise!OpenNamed

LEMMA FrameToStringPromised ==
    InductiveInv /\ PromiseInv /\ FrameToString
    => UNCHANGED Promise!avars \/ Promise!Show
<1> SUFFICES ASSUME InductiveInv, PromiseInv, FrameToString, report' # report
             PROVE  Promise!Show
  BY DEF FrameToString, walk, Promise!avars
<1>1. IsOpen /\ IsNextFrame(mem, LastBlock.at, LastPos, fr)
  BY DEF FrameToString, InductiveInv, CursorOK, WalkOK, Walking
<1>2. /\ report' = [report EXCEPT ![Len(report)].shown = Append(LastBlock.shown, fr)]
      /\ CodeOf(Frame) \notin {"missing", "null"}
      /\ UNCHANGED <<mem, req, status>>
  BY DEF FrameToString, walk
<1>3. fr \in 1..Len(Stack.frames) /\ Stack.frames \in Seq(FrameRecord)
  BY <1>1, OpenStack DEF IsNextFrame, Stack, StackRecord
<1>4. Frame.obj = "frame" /\ Frame.code = "code"
  <2>1. Frame \in FrameRecord
    BY <1>3 DEF Frame
  <2> QED  BY <1>2, <2>1 DEF CodeOf, FrameRecord
<1> QED  BY <1>1, <1>2, <1>3, <1>4, SameReport, SameFunctions
         DEF Promise!Show, LastPos, Frame, Stack

LEMMA ChainEndsPromised ==
    InductiveInv /\ PromiseInv /\ ChainEnds
    => UNCHANGED Promise!avars \/ Promise!Close
<1> SUFFICES ASSUME InductiveInv, PromiseInv, ChainEnds,
                    ~(LastBlock.shown = <<>> /\ ~req.all)
             PROVE  Promise!Close
  BY DEF ChainEnds, walk, Promise!avars
<1>1. IsOpen /\ NothingFollows(mem, LastBlock.at, LastPos)
  BY DEF ChainEnds, InductiveInv, CursorOK, WalkOK, Walking
<1>2. /\ report' = SetEnd(IF LastBlock.shown = <<>> THEN "empty" ELSE "ended")
      /\ UNCHANGED <<mem, req, status>>
  BY DEF ChainEnds, walk
<1>3. report' = SetEnd(IF LastBlock.shown # <<>> THEN "ended"
                       ELSE IF req.all THEN "empty" ELSE "warned")
  BY <1>2
<1> QED  BY <1>1, <1>2, <1>3, SameReport, SameFunctions DEF Promise!Close, LastPos

LEMMA CatchPromised ==
    InductiveInv /\ PromiseInv /\ (CatchInThread \/ CatchInCommand)
    => UNCHANGED Promise!avars \/ Promise!Close
<1> SUFFICES ASSUME InductiveInv, PromiseInv, CatchInThread \/ CatchInCommand, IsOpen
             PROVE  Promise!Close
  BY DEF CatchInThread, CatchInCommand, walk, Promise!avars
<1>1. report' = SetEnd("warned") /\ UNCHANGED <<mem, req, status>>
  BY DEF CatchInThread, CatchInCommand, walk
<1>2. Warrants
  BY DEF CatchInThread, CatchInCommand, PromiseInv, EndsOK
<1>3. CASE LastPos = 0 /\ ~req.all /\ NothingFollows(mem, LastBlock.at, LastPos)
  <2>1. LastBlock.shown = <<>>
    BY <1>3 DEF InductiveInv, WalkOK
  <2>2. report' = SetEnd(IF LastBlock.shown # <<>> THEN "ended"
                         ELSE IF req.all THEN "empty" ELSE "warned")
    BY <1>1, <1>3, <2>1
  <2> QED  BY <1>1, <1>3, <2>2, SameReport, SameFunctions DEF Promise!Close, LastPos
<1>4. ASSUME NEW q \in 1..Len(Stack.frames),
             IsNextFrame(mem, LastBlock.at, LastPos, q),
             Stack.frames[q].code = "null" \/ (Named /\ ~mem.legacy)
      PROVE  Promise!Close
  BY <1>1, <1>4, SameReport, SameFunctions DEF Promise!Close, LastPos, Stack, Named
<1> QED  BY <1>2, <1>3, <1>4 DEF Warrants

LEMMA EscapePromised ==
    InductiveInv /\ PromiseInv /\ Escape => Promise!Abort
<1> SUFFICES ASSUME InductiveInv, PromiseInv, Escape PROVE Promise!Abort
  OBVIOUS
<1>1. status = "running" /\ (~Promise!Sound \/ req.addr = "bad")
  BY DEF Escape, PromiseInv, EndsOK
<1> QED  BY <1>1, SameReport DEF Escape, Promise!Abort

LEMMA LeavePromised ==
    InductiveInv /\ PromiseInv /\ Leave => Promise!Finish
<1> SUFFICES ASSUME InductiveInv, PromiseInv, Leave PROVE Promise!Finish
  OBVIOUS
<1>1. status = "running" /\ ~IsOpen /\ ReadyToFinish
  BY BetweenBlocks DEF Leave, PromiseInv, EndsOK, Walking
<1>2. ASSUME ~req.all, ~Resolves(mem) \/ AllDealt,
             NEW i \in 1..Len(mem.interps), NEW t \in 1..Len(mem.interps[i].threads)
      PROVE  ~Promise!IsCurrent(<<i, t>>)
  <2>1. SUFFICES ASSUME Promise!IsCurrent(<<i, t>>) PROVE FALSE
    OBVIOUS
  <2>2. /\ Resolves(mem) /\ mem.interps[i].threads[t].tid = req.sysid
        /\ i >= AutoInterpreterState(mem)
    BY <2>1, SameFunctions, FirstStateTaken DEF Promise!IsCurrent, InductiveInv, TypeOK
  <2>3. AutoInterpreterState(mem) \in Nat
    BY <2>2, AutoTyped DEF InductiveInv, TypeOK
  <2>4. Dealt(<<i, t>>)
    BY <1>2, <2>2, <2>3 DEF AllDealt
  <2> QED  BY <1>2, <2>2, <2>4 DEF Dealt
<1>3. status' = "finished" /\ UNCHANGED <<mem, req, report>>
  BY DEF Leave
<1>4. Resolves(mem) <=> Promise!Resolves(mem)
  BY SameFunctions
<1> QED  BY <1>1, <1>2, <1>3, <1>4, SameReport DEF ReadyToFinish, Promise!Finish

LEMMA NextPromised ==
    InductiveInv /\ PromiseInv /\ [Next]_vars => [Promise!Next]_Promise!avars
<1> SUFFICES ASSUME InductiveInv, PromiseInv, [Next]_vars
             PROVE  UNCHANGED Promise!avars \/ Promise!Next
  OBVIOUS
<1>1. CASE UNCHANGED vars
  BY <1>1 DEF vars, Promise!avars
<1>2. CASE Start \/ CurrentThreadIds \/ MakeAutoInterpreterState \/ TstateHead \/ NextThread
  BY <1>2 DEF Start, CurrentThreadIds, MakeAutoInterpreterState, TstateHead, NextThread,
              walk, Promise!avars
<1>3. CASE CurrentFrame \/ SkipIncomplete \/ FrameToCommandString \/ Previous
  BY <1>3 DEF CurrentFrame, SkipIncomplete, FrameToCommandString, Previous, walk,
              Promise!avars
<1>4. CASE Returned
  BY <1>4 DEF Returned, vars, Promise!avars
<1>5. CASE ThreadId
  BY <1>5, ThreadIdPromised DEF Promise!Next
<1>6. CASE NamedFrame
  BY <1>6, NamedFramePromised DEF Promise!Next
<1>7. CASE FrameToString
  BY <1>7, FrameToStringPromised DEF Promise!Next
<1>8. CASE ChainEnds
  BY <1>8, ChainEndsPromised DEF Promise!Next
<1>9. CASE CatchInThread \/ CatchInCommand
  BY <1>9, CatchPromised DEF Promise!Next
<1>10. CASE Escape
  BY <1>10, EscapePromised DEF Promise!Next
<1>11. CASE Leave
  BY <1>11, LeavePromised DEF Promise!Next
<1> QED  BY <1>1, <1>2, <1>3, <1>4, <1>5, <1>6, <1>7, <1>8, <1>9, <1>10, <1>11 DEF Next

(* For every memory and every request, what !pystack prints is a listing   *)
(* StackReport allows: threads in list order, no complete frame left out,  *)
(* an early end only with a reason in the memory.                          *)
THEOREM WalkKeepsPromise == Spec => KeepsPromise
<1>1. Init => Promise!Init
  BY InitPromised
<1>2. InductiveInv /\ PromiseInv /\ [Next]_vars => [Promise!Next]_Promise!avars
  BY NextPromised
<1> QED  BY <1>1, <1>2, InductiveInvariance, PromiseInvariance, PTL
         DEF Spec, KeepsPromise, Promise!Spec
=============================================================================
