------------------------------ MODULE Debuggee ------------------------------
(***************************************************************************)
(* The memory of the stopped CPython process (or dump), as far as the      *)
(* stack walker of PyExt reads it, and the pure functions PyExt evaluates  *)
(* on it.  A linked list of CPython is the sequence of its nodes, and the  *)
(* address of a node is its position: 0 is the null pointer.  The memory   *)
(* never changes while a command runs, since the target is stopped.        *)
(***************************************************************************)
EXTENDS Integers, Sequences

(* A frame.  obj says what the frame's address holds: a frame, an object   *)
(* of another type, or memory the dump does not have.  owner and started   *)
(* are what _PyFrame_IsIncomplete looks at: started means that instr_ptr   *)
(* has reached the first traceable instruction.  code is the outcome of    *)
(* following the frame's code pointer; dicts that of f_locals/f_globals.   *)
FrameRecord == [obj     : {"frame", "other", "missing"},
                owner   : {"thread", "generator", "object", "interpreter"},
                started : BOOLEAN,
                code    : {"code", "null", "missing"},
                dicts   : {"ok", "missing"}]

(* A frame chain.  back is where the oldest frame's back pointer leads: 0  *)
(* in a sound process, a frame of the chain when memory is corrupt or was  *)
(* caught in mid-update.                                                   *)
StackRecord == {s \in [frames : Seq(FrameRecord), back : Nat] :
                   s.back <= Len(s.frames)}

(* A PyThreadState; ok is whether its memory can be read. *)
ThreadRecord == [ok : BOOLEAN, tid : Nat, stack : StackRecord]

(* A PyInterpreterState.  An empty threads is a null list head. *)
InterpRecord == [ok : BOOLEAN, threads : Seq(ThreadRecord)]

(* A whole process.  legacy is the layout of Python < 3.11.  roots holds   *)
(* what the three expressions for the first interpreter state evaluate to, *)
(* the user's override, the one of Python 3.7 and the one before: -1 when  *)
(* there is none or it fails, 0 or a position past the list when it yields *)
(* a null or dangling pointer.                                             *)
(* object is the chain at the address the user may pass to !pystack, which *)
(* is that of a frame object (perhaps one the dump does not have).         *)
Memory == [legacy  : BOOLEAN,
           roots   : [1..3 -> Int],
           interps : Seq(InterpRecord),
           object  : {s \in StackRecord : s.frames # <<>> /\ s.frames[1].obj # "other"},
           fullMem : BOOLEAN]

(* A call of !pystack.  all: the -all switch; addr: the address argument,  *)
(* none, well formed or impossible to evaluate; sysid: the system id of    *)
(* the current thread, 0 when the debugger cannot tell it.                 *)
RequestRecord == [all : BOOLEAN, addr : {"none", "ok", "bad"}, sysid : Nat]

(* A block of the listing: the thread it is about, <<0, 0>> for the chain  *)
(* of the object, the frames it shows and how it ended.                    *)
Outcomes == {"open", "ended", "empty", "warned", "broken"}
Block == [at : Nat \X Nat, shown : Seq(Nat), end : Outcomes]
NewBlock(at) == [at |-> at, shown |-> <<>>, end |-> "open"]

-----------------------------------------------------------------------------

(* The position the back pointer of the frame at p leads to. *)
BackOf(s, p) == IF p < Len(s.frames) THEN p + 1 ELSE s.back

(* PyInterpreterFrame::isIncomplete: an interpreter-owned shim is always   *)
(* incomplete, a generator's frame never is, and any other frame is when   *)
(* it has not reached its first traceable instruction, which cannot be     *)
(* told (and counts as complete) when its code cannot be read.             *)
IsIncomplete(f) ==
    \/ f.owner = "interpreter"
    \/ /\ f.owner # "generator"
       /\ f.code = "code"
       /\ ~f.started

(* The interpreter states that can be dereferenced. *)
Readable(m, i) == i \in 1..Len(m.interps) /\ m.interps[i].ok

(* PyInterpreterState::makeAutoInterpreterState: the first expression that *)
(* evaluates wins, even when what it points to cannot be read.             *)
Resolves(m) == \E k \in 1..3 : m.roots[k] >= 0

(* Wrong on purpose: an override is used whether it evaluates or not. *)
OverrideOnly(m) == m.roots[1]

(* Wrong on purpose: the override is asked after what the debuggee says. *)
OverrideSecond(m) == IF m.roots[2] >= 0 THEN m.roots[2]
                     ELSE IF m.roots[1] >= 0 THEN m.roots[1]
                     ELSE m.roots[3]

AutoInterpreterState(m) == IF m.roots[1] >= 0 THEN m.roots[1]
                           ELSE IF m.roots[2] >= 0 THEN m.roots[2]
                           ELSE m.roots[3]

(* The order in which both walks visit thread states: the next one after   *)
(* <<i, t>>, by PyThreadState::next and then PyInterpreterState::next.     *)
NextAt(m, at) ==
    IF at[2] < Len(m.interps[at[1]].threads) THEN <<at[1], at[2] + 1>>
                                            ELSE <<at[1] + 1, 1>>

IsThread(m, at) == /\ at[1] \in 1..Len(m.interps)
                   /\ at[2] \in 1..Len(m.interps[at[1]].threads)

(* The chain of a thread, or of the object the user named: <<0, 0>>. *)
StackAt(m, at) ==
    IF at = <<0, 0>> THEN m.object ELSE m.interps[at[1]].threads[at[2]].stack

(* Frames are PyFrameObjects before 3.11, and always when the user names   *)
(* one by address.                                                         *)
IsObjectChain(m, at) == m.legacy \/ at = <<0, 0>>

(* The frames the walk passes over without listing them. *)
Skipped(m, at, p) ==
    /\ ~IsObjectChain(m, at)
    /\ IsIncomplete(StackAt(m, at).frames[p])

-----------------------------------------------------------------------------

(* The last frame a block shows; 0 is the chain's head pointer. *)
LastShown(b) == IF b.shown = <<>> THEN 0 ELSE b.shown[Len(b.shown)]

(* The positions strictly between two frames along the back pointers, and  *)
(* whether the second is reached from the first at all.                    *)
Between(s, p, q) == IF p < q THEN (p+1)..(q-1)
                             ELSE (p+1)..Len(s.frames) \cup s.back..(q-1)
Reaches(s, p, q) == p < q \/ (s.back # 0 /\ s.back <= q)

(* The frame at q is the next one to list after the one at p. *)
IsNextFrame(m, at, p, q) ==
    LET s == StackAt(m, at)
    IN  /\ q \in 1..Len(s.frames)
        /\ Reaches(s, p, q)
        /\ ~Skipped(m, at, q)
        /\ \A r \in Between(s, p, q) : Skipped(m, at, r)

(* No frame is left to list after p: the chain ends first.  A chain of     *)
(* frame objects also ends at an object that is not a frame.               *)
NothingFollows(m, at, p) ==
    LET s == StackAt(m, at)
    IN  \/ /\ s.back = 0
           /\ \A r \in (p+1)..Len(s.frames) : Skipped(m, at, r)
        \/ /\ IsObjectChain(m, at)
           /\ p # 0 /\ BackOf(s, p) # 0
           /\ s.frames[BackOf(s, p)].obj = "other"
=============================================================================
