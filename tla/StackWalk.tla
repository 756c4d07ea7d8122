----------------------------- MODULE StackWalk -----------------------------
(***************************************************************************)
(* The !pystack command (src/pystack.cpp) step by step: the enumeration of *)
(* interpreter and thread states, the walk along a frame chain over the    *)
(* incomplete frames, and the two kinds of exception.  A std::exception is *)
(* caught around each thread of -all and around the whole body.  A failed  *)
(* read of the debuggee throws an ExtException, which is not derived from  *)
(* std::exception: no handler of the command catches it, and the           *)
(* extension framework ends the command.                                   *)
(***************************************************************************)
EXTENDS Debuggee

CONSTANTS Images,    \* the memories the command may be run on
          Requests,  \* the ways the user may call it
          MaxShown   \* bound on the frames of a block (cyclic chains only)

VARIABLES mem, req, report, status,  \* as in StackReport
          pc,      \* the next step of the command
          it, th,  \* the interpreter and thread state under the cursor
          fr,      \* the frame under the cursor, 0 at the end of the chain
          exn,     \* the kind of the exception being thrown
          notes    \* what the outer catch clause printed

vars == <<mem, req, report, status, pc, it, th, fr, exn, notes>>
walk == <<mem, req, status, notes>>

Promise == INSTANCE StackReport WITH mem <- mem, req <- req,
                                     report <- report, status <- status

ASSUME ConstantsAssumption == /\ Images \subseteq Memory
                              /\ Requests \subseteq RequestRecord
                              /\ MaxShown \in Nat

LastBlock == report[Len(report)]
IsOpen == report # <<>> /\ LastBlock.end = "open"
SetEnd(outcome) == [report EXCEPT ![Len(report)].end = outcome]

(* The chain being walked and the frame under the cursor. *)
Named == IsOpen /\ LastBlock.at = <<0, 0>>
Stack == StackAt(mem, LastBlock.at)
ObjectChain == IsObjectChain(mem, LastBlock.at)
Frame == Stack.frames[fr]

(* PyFrameObject::code and PyInterpreterFrame::code.  A _frame has no      *)
(* f_code member from 3.11 on, so the code of a named frame is null        *)
(* without a look at the debuggee's memory.                                *)
CodeOf(f) == IF Named /\ ~mem.legacy THEN "null"
             ELSE IF f.obj = "frame" THEN f.code ELSE "missing"

Goto(label) == pc' = label /\ exn' = exn
Throw(kind) == pc' = "throw" /\ exn' = kind

-----------------------------------------------------------------------------

Init == /\ mem \in Images
        /\ req \in Requests
        /\ report = <<>>
        /\ status = "running"
        /\ pc = "start"
        /\ it = 0 /\ th = 0 /\ fr = 0
        /\ exn = "none"
        /\ notes = <<>>

(* ensureSymbolsLoaded never throws; the arguments select the mode. *)
Start ==
    /\ pc = "start"
    /\ Goto(IF req.all THEN "roots"
            ELSE IF req.addr # "none" THEN "named" ELSE "header")
    /\ UNCHANGED <<walk, report, it, th, fr>>

(* The header of the current thread, from two queries of the debugger. *)
CurrentThreadIds ==
    /\ pc = "header"
    /\ IF req.sysid = 0 THEN Throw("std") ELSE Goto("roots")
    /\ UNCHANGED <<walk, report, it, th, fr>>

(* PyInterpreterState::makeAutoInterpreterState. *)
MakeAutoInterpreterState ==
    /\ pc = "roots"
    /\ IF Resolves(mem)
       THEN it' = AutoInterpreterState(mem) /\ Goto("interp")
       ELSE it' = it /\ Throw("std")
    /\ UNCHANGED <<walk, report, th, fr>>

(* PyInterpreterState::tstate_head: never null, whatever the list head is. *)
TstateHead ==
    /\ pc = "interp"
    /\ IF Readable(mem, it) THEN th' = 1 /\ Goto("thread")
                            ELSE th' = th /\ Throw("ext")
    /\ UNCHANGED <<walk, report, it, fr>>

(* PyThreadState::thread_id: under -all the header of the thread, which    *)
(* opens its block; otherwise the search for the current thread.           *)
ThreadId ==
    /\ pc = "thread"
    /\ LET threads == mem.interps[it].threads
       IN  IF th > Len(threads) \/ ~threads[th].ok
           THEN Throw("ext") /\ report' = report
           ELSE IF req.all \/ threads[th].tid = req.sysid
           THEN /\ report' = Append(report, NewBlock(<<it, th>>))
                /\ Goto("top")
           ELSE Goto("nextthread") /\ report' = report
    /\ UNCHANGED <<walk, it, th, fr>>

(* PyThreadState::currentFrame.  Before 3.11 the frame field is the        *)
(* answer, and when it is null (or no frame) the code goes on to read      *)
(* current_frame, which those versions do not have.                        *)
CurrentFrame ==
    /\ pc = "top"
    /\ IF mem.legacy
       THEN IF Stack.frames # <<>> /\ Stack.frames[1].obj = "frame"
            THEN fr' = 1 /\ Goto("line")
            ELSE fr' = fr /\ Throw("ext")
       ELSE /\ fr' = IF Stack.frames = <<>> THEN 0 ELSE 1
            /\ Goto("skip")
    /\ UNCHANGED <<walk, report, it, th>>

(* Wrong on purpose: `if` for `while`, so only one frame is skipped. *)
SkipOneIncomplete ==
    /\ pc = "skip" /\ fr # 0
    /\ IF Frame.obj # "frame" THEN fr' = fr /\ Throw("ext")
       ELSE IF IsIncomplete(Frame) /\ BackOf(Stack, fr) # 0
       THEN fr' = BackOf(Stack, fr) /\ Goto("line")
       ELSE fr' = fr /\ Goto("line")
    /\ UNCHANGED <<walk, report, it, th>>

(* Wrong on purpose: the loop tests the same candidate again and again. *)
SkipWithoutAdvancing ==
    /\ pc = "skip" /\ fr # 0
    /\ IF Frame.obj # "frame" THEN Throw("ext")
       ELSE IF IsIncomplete(Frame) THEN Goto("skip") ELSE Goto("line")
    /\ UNCHANGED <<walk, report, it, th, fr>>

(* One iteration of the loop over incomplete frames, in currentFrame and   *)
(* in PyInterpreterFrame::previous.                                        *)
SkipIncomplete ==
    /\ pc = "skip" /\ fr # 0
    /\ IF Frame.obj # "frame" THEN fr' = fr /\ Throw("ext")
       ELSE IF IsIncomplete(Frame) THEN fr' = BackOf(Stack, fr) /\ Goto("skip")
       ELSE fr' = fr /\ Goto("line")
    /\ UNCHANGED <<walk, report, it, th>>

(* The chain is exhausted: before its first frame, that is a thread        *)
(* without Python frames; otherwise printStack's loop ends.                *)
ChainEnds ==
    /\ pc = "skip" /\ fr = 0
    /\ IF LastBlock.shown = <<>> /\ ~req.all
       THEN Throw("std") /\ report' = report
       ELSE /\ report' = SetEnd(IF LastBlock.shown = <<>> THEN "empty" ELSE "ended")
            /\ Goto(IF Named \/ ~req.all THEN "leave" ELSE "nextthread")
    /\ UNCHANGED <<walk, it, th, fr>>

(* The first line of a frame: frameToString. *)
FrameToString ==
    /\ pc = "line"
    /\ Len(LastBlock.shown) < MaxShown
    /\ IF CodeOf(Frame) = "missing"
       THEN Throw("ext") /\ report' = report
       ELSE IF CodeOf(Frame) = "null"
       THEN Throw("std") /\ report' = report
       ELSE /\ report' = [report EXCEPT
                            ![Len(report)].shown = Append(LastBlock.shown, fr)]
            /\ Goto("links")
    /\ UNCHANGED <<walk, it, th, fr>>

(* The second line of a frame: frameToCommandString.  Its links are not    *)
(* part of the report, but reading the dictionaries may fail.              *)
FrameToCommandString ==
    /\ pc = "links"
    /\ IF Frame.dicts = "missing" THEN Throw("ext") ELSE Goto("previous")
    /\ UNCHANGED <<walk, report, it, th, fr>>

(* frame->previous().  PyFrameObject::back also returns null for a back    *)
(* pointer to an object that is no frame.                                  *)
Previous ==
    /\ pc = "previous"
    /\ LET b == BackOf(Stack, fr)
       IN  IF ~ObjectChain THEN fr' = b /\ Goto("skip")
           ELSE IF b = 0 THEN fr' = 0 /\ Goto("skip")
           ELSE IF Stack.frames[b].obj = "frame" THEN fr' = b /\ Goto("line")
           ELSE IF Stack.frames[b].obj = "other" THEN fr' = 0 /\ Goto("skip")
           ELSE fr' = fr /\ Throw("ext")
    /\ UNCHANGED <<walk, report, it, th>>

(* Wrong on purpose: the last thread of an interpreter state is missed. *)
NextThreadOffByOne ==
    /\ pc = "nextthread"
    /\ IF th + 1 < Len(mem.interps[it].threads)
       THEN th' = th + 1 /\ it' = it /\ Goto("thread")
       ELSE /\ th' = 0
            /\ IF it < Len(mem.interps)
               THEN it' = it + 1 /\ Goto("interp")
               ELSE it' = 0 /\ Goto("leave")
    /\ UNCHANGED <<walk, report, fr>>

(* PyThreadState::next and, after the last thread, PyInterpreterState::next. *)
NextThread ==
    /\ pc = "nextthread"
    /\ IF th < Len(mem.interps[it].threads)
       THEN th' = th + 1 /\ it' = it /\ Goto("thread")
       ELSE /\ th' = 0
            /\ IF it < Len(mem.interps)
               THEN it' = it + 1 /\ Goto("interp")
               ELSE /\ it' = 0
                    /\ IF ~req.all THEN Throw("std")
                       ELSE Goto(IF req.addr # "none" THEN "named" ELSE "leave")
    /\ UNCHANGED <<walk, report, fr>>

(* The frame object named by the user: evalOffset and the header. *)
NamedFrame ==
    /\ pc = "named"
    /\ IF req.addr = "bad"
       THEN Throw("ext") /\ UNCHANGED <<report, fr>>
       ELSE /\ report' = Append(report, NewBlock(<<0, 0>>))
            /\ fr' = 1
            /\ Goto("line")
    /\ UNCHANGED <<walk, it, th>>

(* Wrong on purpose: the clause is around the loop over the threads. *)
CatchAroundTheLoop ==
    /\ pc = "throw" /\ exn = "std"
    /\ req.all /\ IsOpen /\ ~Named
    /\ report' = SetEnd("warned")
    /\ pc' = "leave" /\ exn' = "none"
    /\ UNCHANGED <<walk, it, th, fr>>

(* The catch clause around one thread of -all. *)
CatchInThread ==
    /\ pc = "throw" /\ exn = "std"
    /\ req.all /\ IsOpen /\ ~Named
    /\ report' = SetEnd("warned")
    /\ pc' = "nextthread" /\ exn' = "none"
    /\ UNCHANGED <<walk, it, th, fr>>

(* The catch clause around the body: a warning, and a hint to capture a    *)
(* fuller dump when this one has no full memory.                           *)
CatchInCommand ==
    /\ pc = "throw" /\ exn = "std"
    /\ ~(req.all /\ IsOpen /\ ~Named)
    /\ report' = IF IsOpen THEN SetEnd("warned") ELSE report
    /\ notes' = IF mem.fullMem THEN <<"warning">> ELSE <<"warning", "hint">>
    /\ pc' = "leave" /\ exn' = "none"
    /\ UNCHANGED <<mem, req, status, it, th, fr>>

(* An ExtException leaves the command. *)
Escape ==
    /\ pc = "throw" /\ exn = "ext"
    /\ report' = IF IsOpen THEN SetEnd("broken") ELSE report
    /\ status' = "aborted"
    /\ pc' = "done"
    /\ UNCHANGED <<mem, req, notes, it, th, fr, exn>>

Leave ==
    /\ pc = "leave"
    /\ status' = "finished"
    /\ pc' = "done"
    /\ UNCHANGED <<mem, req, notes, report, it, th, fr, exn>>

(* The command has returned to the debugger. *)
Returned == pc = "done" /\ UNCHANGED vars

Next == \/ Start \/ CurrentThreadIds
        \/ MakeAutoInterpreterState \/ TstateHead \/ ThreadId \/ NextThread
        \/ CurrentFrame \/ SkipIncomplete \/ ChainEnds
        \/ FrameToString \/ FrameToCommandString \/ Previous
        \/ NamedFrame
        \/ CatchInThread \/ CatchInCommand \/ Escape \/ Leave
        \/ Returned

Spec == Init /\ [][Next]_vars

(* A command is one synchronous call: the debugger runs it to its end. *)
FairSpec == Spec /\ WF_vars(Next)

-----------------------------------------------------------------------------

Labels == {"start", "header", "roots", "interp", "thread", "nextthread",
           "top", "skip", "line", "links", "previous", "named", "throw",
           "leave", "done"}

(* Every variable keeps its type, and the cursors stay on the lists. *)
TypeOK == /\ mem \in Memory
          /\ req \in RequestRecord
          /\ report \in Seq(Block)
          /\ status \in {"running", "finished", "aborted"}
          /\ pc \in Labels
          /\ it \in Nat /\ th \in Nat /\ fr \in Nat
          /\ exn \in {"none", "std", "ext"}
          /\ notes \in {<<>>, <<"warning">>, <<"warning", "hint">>}

(* Every block shows the complete frames of its chain from the newest on,  *)
(* none skipped and none twice, and one that ends normally has shown the   *)
(* oldest: what currentFrame() and previous() have to achieve together.    *)
NothingLeftOut ==
    \A k \in DOMAIN report :
      LET b == report[k]
      IN  /\ \A j \in DOMAIN b.shown :
                IsNextFrame(mem, b.at,
                                    IF j = 1 THEN 0 ELSE b.shown[j-1], b.shown[j])
          /\ b.end \in {"ended", "empty"} =>
                NothingFollows(mem, b.at, LastShown(b))

(* The inductive invariant behind the two: the cursors are on the lists,   *)
(* a block is open exactly during a walk, and the frame under the cursor   *)
(* is what should come after the last frame shown.                         *)
Walking == {"top", "skip", "line", "links", "previous"}
LastPos == LastShown(LastBlock)

CursorOK ==
    /\ \A k \in DOMAIN report :
          report[k].at = <<0, 0>> \/ IsThread(mem, report[k].at)
    /\ \A k \in DOMAIN report : report[k].end = "open" => k = Len(report)
    /\ pc = "thread" => it \in 1..Len(mem.interps)
                       /\ (th = 1 \/ IsThread(mem, <<it, th>>))
    /\ pc = "nextthread" => IsThread(mem, <<it, th>>)
    /\ pc \in Walking \cup {"throw"} /\ IsOpen /\ ~Named => IsThread(mem, <<it, th>>)
    /\ pc \in Walking => IsOpen
    /\ IsOpen => pc \in Walking \cup {"throw"}

WalkOK ==
    /\ IsOpen => /\ LastPos \in 0..Len(Stack.frames)
                 /\ LastPos # 0 => ~Skipped(mem, LastBlock.at, LastPos)
                 /\ LastPos = 0 <=> LastBlock.shown = <<>>
    /\ pc = "top" => LastPos = 0 /\ ~Named
    /\ pc = "skip" /\ fr = 0 => NothingFollows(mem, LastBlock.at, LastPos)
    /\ pc = "skip" /\ fr # 0 =>
          /\ ~ObjectChain
          /\ fr \in 1..Len(Stack.frames)
          /\ Reaches(Stack, LastPos, fr)
          /\ \A r \in Between(Stack, LastPos, fr) :
                Skipped(mem, LastBlock.at, r)
    /\ pc = "line" => IsNextFrame(mem, LastBlock.at, LastPos, fr)
    /\ pc \in {"links", "previous"} => fr = LastPos /\ fr # 0

InductiveInv == TypeOK /\ CursorOK /\ WalkOK /\ NothingLeftOut

(* What the refinement needs besides: which threads the search has dealt   *)
(* with, that the cursor follows the last block, and what an exception on  *)
(* its way to a handler says about the memory.                             *)
Dealt(at) == IF req.all THEN \E k \in DOMAIN report : report[k].at = at
             ELSE mem.interps[at[1]].threads[at[2]].tid # req.sysid
DealtBefore(at) ==
    \A i \in 1..Len(mem.interps) : \A t \in 1..Len(mem.interps[i].threads) :
       AutoInterpreterState(mem) <= i /\ Promise!Precedes(<<i, t>>, at) => Dealt(<<i, t>>)
AllDealt ==
    \A i \in 1..Len(mem.interps) : \A t \in 1..Len(mem.interps[i].threads) :
       AutoInterpreterState(mem) <= i => Dealt(<<i, t>>)

NamedListed == report # <<>> /\ LastBlock.at = <<0, 0>>
Searching == req.all \/ req.addr = "none"
OnLists == pc \in {"interp", "thread", "nextthread"} \/ (IsOpen /\ ~Named)
Cursor == <<it, IF pc = "interp" THEN 1 ELSE th>>

SearchOK ==
    /\ pc \in {"start", "header", "roots"} => report = <<>>
    /\ pc = "header" => ~req.all /\ req.addr = "none"
    /\ pc = "roots" => Searching
    /\ OnLists => /\ Searching /\ Resolves(mem)
                  /\ AutoInterpreterState(mem) <= it
                  /\ DealtBefore(Cursor)
    /\ pc = "interp" => it \in 1..Len(mem.interps) \/ it = AutoInterpreterState(mem)
    /\ pc \in {"interp", "thread", "nextthread"} => ~NamedListed /\ (~req.all => report = <<>>)
    /\ pc \in {"interp", "thread"} /\ req.all =>
          Cursor = IF report = <<>> THEN <<AutoInterpreterState(mem), 1>>
                                    ELSE NextAt(mem, LastBlock.at)
    /\ pc = "nextthread" => Dealt(Cursor) /\ (req.all => report # <<>> /\ LastBlock.at = Cursor)
    /\ IsOpen /\ ~Named => LastBlock.at = Cursor
    /\ pc = "named" => req.addr # "none" /\ ~NamedListed
    /\ NamedListed => req.addr = "ok"
    /\ (NamedListed \/ pc = "named") /\ req.all => Promise!AllListed /\ AllDealt

ReadyToFinish ==
    /\ req.all /\ Resolves(mem) => Promise!AllListed /\ AllDealt
    /\ req.addr # "none" /\ (req.all => Resolves(mem)) => NamedListed
    /\ ~req.all /\ req.addr = "none" /\ report = <<>> =>
          req.sysid = 0 \/ ~Resolves(mem) \/ AllDealt

(* What makes a walk end early with a warning. *)
Warrants ==
    \/ LastPos = 0 /\ ~req.all /\ NothingFollows(mem, LastBlock.at, LastPos)
    \/ \E q \in 1..Len(Stack.frames) :
          /\ IsNextFrame(mem, LastBlock.at, LastPos, q)
          /\ Stack.frames[q].code = "null" \/ (Named /\ ~mem.legacy)

EndsOK ==
    /\ status = "running" <=> pc # "done"
    /\ exn = "std" => pc = "throw"
    /\ exn = "std" /\ IsOpen => Warrants
    /\ exn = "std" /\ ~IsOpen => ReadyToFinish
    /\ exn = "ext" => ~Promise!Sound \/ req.addr = "bad"
    /\ pc = "leave" \/ status = "finished" => ReadyToFinish

PromiseInv == SearchOK /\ EndsOK

(* A finished -all lists every thread, whatever warnings some of them      *)
(* ended with: a thread whose frame has no code does not cost the others.  *)
FinishedListsAll ==
    /\ status = "finished" /\ req.all /\ Resolves(mem)
    => \A i \in DOMAIN mem.interps : \A t \in DOMAIN mem.interps[i].threads :
          Promise!FirstState(mem) <= i =>
             \E k \in DOMAIN report : report[k].at = <<i, t>>

(* The walk keeps the promise of StackReport. *)
KeepsPromise == Promise!Spec

(* On chains without a cycle the command returns. *)
Acyclic == /\ mem.object.back = 0
           /\ \A i \in DOMAIN mem.interps :
                \A t \in DOMAIN mem.interps[i].threads :
                   mem.interps[i].threads[t].stack.back = 0
Terminates == Acyclic => <>(pc = "done")

(* README.rst:42, "Use `!pystack -all` [...] to display the Python stack   *)
(* for all threads": when every thread state can be read, neither a frame  *)
(* that is missing nor a thread without frames keeps the others from being *)
(* listed.                                                                 *)
ThreadsReadable == \A i \in DOMAIN mem.interps :
                      /\ mem.interps[i].ok /\ mem.interps[i].threads # <<>>
                      /\ \A t \in DOMAIN mem.interps[i].threads :
                            mem.interps[i].threads[t].ok
EveryThreadListed ==
    pc = "done" /\ req.all /\ Resolves(mem) /\ ThreadsReadable
    => \A i \in DOMAIN mem.interps : \A t \in DOMAIN mem.interps[i].threads :
          Promise!FirstState(mem) <= i =>
             \E k \in DOMAIN report : report[k].at = <<i, t>>
=============================================================================
