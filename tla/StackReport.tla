---------------------------- MODULE StackReport ----------------------------
(***************************************************************************)
(* What !pystack promises, without how it walks memory: threads are listed *)
(* in list order, each in a block of its own, and a block shows every      *)
(* frame of its chain that is not incomplete, newest first, with none left *)
(* out in between.  A block may stop early with a warning, and the whole   *)
(* command may abort; nothing that was listed is taken back.               *)
(***************************************************************************)
EXTENDS Debuggee

VARIABLES mem,      \* the debuggee
          req,      \* the arguments of the command
          report,   \* the blocks listed so far
          status    \* "running", "finished" or "aborted"

avars == <<mem, req, report, status>>

LastBlock == report[Len(report)]
IsOpen == report # <<>> /\ LastBlock.end = "open"
SetEnd(outcome) == [report EXCEPT ![Len(report)].end = outcome]

-----------------------------------------------------------------------------

IsLastThread(at) == /\ at[1] = Len(mem.interps)
                    /\ at[2] = Len(mem.interps[at[1]].threads)

(* at comes before at2 in list order. *)
Precedes(at, at2) == at[1] < at2[1] \/ (at[1] = at2[1] /\ at[2] < at2[2])

(* The interpreter state a command starts from.  The user's override goes  *)
(* before what the debuggee itself says, and among the two places where    *)
(* CPython keeps the head of its list the newer one goes first: one that   *)
(* evaluates is taken, whatever the later ones say.                        *)
FirstState(m) ==
    m.roots[CHOOSE k \in 1..3 : /\ m.roots[k] >= 0
                                /\ \A j \in 1..(k-1) : m.roots[j] < 0]

(* at is the first thread, in list order from the first interpreter state, *)
(* that has the system id of the current thread.                           *)
IsCurrent(at) ==
    /\ Resolves(mem) /\ IsThread(mem, at)
    /\ at[1] >= FirstState(mem)
    /\ mem.interps[at[1]].threads[at[2]].tid = req.sysid
    /\ \A i \in 1..Len(mem.interps) : \A t \in 1..Len(mem.interps[i].threads) :
         FirstState(mem) <= i /\ Precedes(<<i, t>>, at) =>
            mem.interps[i].threads[t].tid # req.sysid

(* The listing requested by -all is complete. *)
AllListed == \E k \in DOMAIN report : report[k].at # <<0, 0>> /\ IsLastThread(report[k].at)
NamedListed == report # <<>> /\ LastBlock.at = <<0, 0>>

(* Every pointer the command may follow leads to readable memory.  With    *)
(* the layouts before 3.11 a thread without frames is an obstacle too.     *)
SoundStack(s) ==
    \A p \in DOMAIN s.frames : /\ s.frames[p].obj = "frame"
                               /\ s.frames[p].code # "missing"
                               /\ s.frames[p].dicts = "ok"
SoundThread(m, thread) ==
    /\ thread.ok
    /\ SoundStack(thread.stack)
    /\ m.legacy => thread.stack.frames # <<>>
SoundThreads(m) ==
    /\ Resolves(m) => FirstState(m) # 0 /\ FirstState(m) <= Len(m.interps)
    /\ \A i \in DOMAIN m.interps :
         /\ m.interps[i].ok /\ m.interps[i].threads # <<>>
         /\ \A t \in DOMAIN m.interps[i].threads :
               SoundThread(m, m.interps[i].threads[t])
Sound == /\ req.all \/ req.addr = "none" => SoundThreads(mem)
         /\ req.addr = "ok" => SoundStack(mem.object)

-----------------------------------------------------------------------------

Init == /\ mem \in Memory
        /\ req \in RequestRecord
        /\ report = <<>>
        /\ status = "running"

Open(at) == /\ status = "running" /\ ~IsOpen
            /\ report' = Append(report, NewBlock(at))
            /\ UNCHANGED <<mem, req, status>>

OpenThread ==
    /\ req.all /\ Resolves(mem) /\ ~NamedListed
    /\ LET at == IF report = <<>> THEN <<FirstState(mem), 1>>
                                  ELSE NextAt(mem, LastBlock.at)
       IN  IsThread(mem, at) /\ Open(at)

OpenCurrent ==
    /\ ~req.all /\ req.addr = "none" /\ report = <<>>
    /\ \E i \in 1..Len(mem.interps) :
         \E t \in 1..Len(mem.interps[i].threads) :
            IsCurrent(<<i, t>>) /\ Open(<<i, t>>)

OpenNamed ==
    /\ req.addr = "ok" /\ ~NamedListed
    /\ req.all => AllListed
    /\ Open(<<0, 0>>)

Show ==
    /\ IsOpen
    /\ LET at == LastBlock.at
           s  == StackAt(mem, at)
       IN  \E q \in 1..Len(s.frames) :
             /\ IsNextFrame(mem, at, LastShown(LastBlock), q)
             /\ s.frames[q].obj = "frame" /\ s.frames[q].code = "code"
             /\ report' = [report EXCEPT
                             ![Len(report)].shown = Append(LastBlock.shown, q)]
    /\ UNCHANGED <<mem, req, status>>

Close ==
    /\ IsOpen
    /\ \/ /\ NothingFollows(mem, LastBlock.at, LastShown(LastBlock))
          /\ report' = SetEnd(IF LastBlock.shown # <<>> THEN "ended"
                              ELSE IF req.all THEN "empty" ELSE "warned")
       \/ /\ \E q \in 1..Len(StackAt(mem, LastBlock.at).frames) :
               /\ IsNextFrame(mem, LastBlock.at, LastShown(LastBlock), q)
               /\ \/ StackAt(mem, LastBlock.at).frames[q].code = "null"
                  \/ LastBlock.at = <<0, 0>> /\ ~mem.legacy
          /\ report' = SetEnd("warned")
    /\ UNCHANGED <<mem, req, status>>

Finish ==
    /\ status = "running" /\ ~IsOpen
    /\ req.all /\ Resolves(mem) => AllListed
    /\ req.addr # "none" /\ (req.all => Resolves(mem)) => NamedListed
    /\ ~req.all /\ req.addr = "none" /\ report = <<>> =>
         \/ req.sysid = 0
         \/ \A i \in 1..Len(mem.interps) :
               \A t \in 1..Len(mem.interps[i].threads) : ~IsCurrent(<<i, t>>)
    /\ status' = "finished"
    /\ UNCHANGED <<mem, req, report>>

(* Only missing memory, an argument that cannot be evaluated, or a layout  *)
(* without the field to read makes the command stop half way.              *)
Abort ==
    /\ status = "running"
    /\ ~Sound \/ req.addr = "bad"
    /\ report' = IF IsOpen THEN SetEnd("broken") ELSE report
    /\ status' = "aborted"
    /\ UNCHANGED <<mem, req>>

Next == OpenThread \/ OpenCurrent \/ OpenNamed \/ Show \/ Close \/ Finish \/ Abort

Spec == Init /\ [][Next]_avars
=============================================================================
