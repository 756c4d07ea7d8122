------------------------------- MODULE Frames -------------------------------
(***************************************************************************)
(* A frame, or the generator that owns it, in CPython 3.9 to 3.14, and     *)
(* what PyExt shows of it: its line in !pystack (src/PyInterpreterFrame,   *)
(* src/objects/PyFrameObject), its variables and the state of its          *)
(* generator in !pyobj and !pyinterpreterframe (src/PyFrame.cpp,           *)
(* src/objects/PyGenObject.cpp).  The decoders of lines are LineTable's.   *)
(*                                                                         *)
(* The debuggee runs until the debugger stops it and a command starts; it  *)
(* stands still while the command runs.                                    *)
(***************************************************************************)
EXTENDS LineTable

CONSTANTS Variables,   \* the variables of the code, in the order of 3.11
          Watched      \* the programs that are seen to run

Parts == {"local", "argcell", "cell", "free"}
ASSUME FramesAssumption == /\ Variables \in Seq([name : STRING, part : Parts]) \ {<<>>}
                           /\ Watched \subseteq Programs

VARIABLES version,   \* the minor version of Python 3
          kind,      \* "frame": a PyFrameObject, "iframe": an
                     \* _PyInterpreterFrame, "generator": an object with either
          frame,     \* see FrameRecord
          shown      \* what the details say

frameVars == <<version, kind, frame, shown>>
allVars == <<lineVars, frameVars>>

-----------------------------------------------------------------------------
(* The memory of the debuggee.  Objects have even addresses; a lowest bit  *)
(* that is set is a tag of 3.14.                                           *)

Null == 0
ValueOf(k) == 2 * k
CellOf(k) == 2 * (Len(Variables) + k)
Freed == 2 * (2 * Len(Variables) + 1)
Own == 2000     \* the code object of the frame
Other == 2002   \* another one
Func == 2004    \* the function that was called

(* values holds the variables that are set, code is func_code of the       *)
(* function, trace the class of f_trace.                                   *)
FrameRecord == [state : {"created", "suspended", "suspended_yield_from",
                         "executing", "cleared"},
                values : [DOMAIN Variables -> BOOLEAN], tag : 0..1,
                code : {Own, Other},
                trace : {"none", "function", "method"}, tracing : BOOLEAN,
                lineno : Int]

IsCell(k) == Variables[k].part # "local"
Contents(k) == IF frame.values[k] THEN ValueOf(k) ELSE Null

(* The elements of a sequence that are in a set, in their order.           *)
Kept(s, S) == FlattenSeq([j \in DOMAIN s |-> IF s[j] \in S THEN <<s[j]>> ELSE <<>>])

(* Slots before 3.11: an argument that is a cell has a slot among the      *)
(* locals, which is emptied, and one among the cells.                      *)
InParts(parts) == Kept([k \in DOMAIN Variables |-> k],
                       {k \in DOMAIN Variables : Variables[k].part \in parts})
VarNames == InParts({"local", "argcell"})
CellVars == InParts({"argcell", "cell"})
FreeVars == InParts({"free"})
OldSlots == [j \in DOMAIN VarNames |->
               IF IsCell(VarNames[j]) THEN Null ELSE Contents(VarNames[j])]
            \o [j \in DOMAIN CellVars |-> CellOf(CellVars[j])]
            \o [j \in DOMAIN FreeVars |-> CellOf(FreeVars[j])]

(* Since 3.11 each variable has one slot; 3.14 tags references and the     *)
(* null reference.  What a frame that has ended referred to is freed, but  *)
(* its slots are not reset.                                                *)
NewSlots == [k \in DOMAIN Variables |->
               CASE frame.state = "cleared" -> Freed
                 [] frame.state # "cleared" /\ IsCell(k) -> CellOf(k) + frame.tag
                 [] OTHER -> IF Contents(k) = Null /\ version = 14 THEN 1
                             ELSE Contents(k) + (IF Contents(k) = Null THEN 0 ELSE frame.tag)]

HasField(name) == CASE name = "f_executable" -> version >= 13
                    [] name = "f_funcobj" -> version >= 12
                    [] name = "f_code" -> version <= 10 \/ (kind # "frame" /\ version <= 12)
                    [] name = "frame_state" -> version >= 11

(* The numbers of _framestate; 3.13 added one and moved two.               *)
FrameStateField ==
    CASE frame.state = "executing" -> 0
      [] frame.state = "cleared" -> 4
      [] frame.state = "created" -> IF version >= 13 THEN -3 ELSE -2
      [] frame.state = "suspended" -> IF version >= 13 THEN -2 ELSE -1
      [] frame.state = "suspended_yield_from" -> -1

FormatOf(v) == IF v <= 9 THEN "lnotab" ELSE IF v = 10 THEN "linetable" ELSE "locations"

FramesInit ==
    /\ LineInit
    /\ version \in 9..(IF program \in Watched THEN 14 ELSE 11)
    /\ format \in {"none", FormatOf(version)}
    /\ kind \in {"frame", "generator"} \cup (IF version >= 11 THEN {"iframe"} ELSE {})
    /\ program \notin Watched => kind = IF version >= 11 THEN "iframe" ELSE "frame"
    /\ frame = [state |-> IF kind = "generator" THEN "created" ELSE "executing",
                values |-> [k \in DOMAIN Variables |-> FALSE],
                tag |-> IF version = 14 THEN 1 ELSE 0, code |-> Own,
                trace |-> "none", tracing |-> FALSE,
                lineno |-> IF version = 9 THEN FirstLine ELSE 0]
    /\ shown = <<>>

-----------------------------------------------------------------------------
(* The debuggee runs. *)

IsRunning == pc = "begin" /\ program \in Watched /\ frame.state # "cleared"
Executes == IsRunning /\ frame.state = "executing" /\ (version = 10 => frame.lineno = 0)
Still == UNCHANGED <<program, format, table, pc, it, addr, line, version, kind, shown>>
StandsStill == Still /\ UNCHANGED <<instruction, lasti>>

(* Up to 3.9 f_lineno follows the line while the frame is traced. *)
Advance ==
    /\ Executes
    /\ \E i \in Instructions(program) \ {instruction} :
         /\ instruction' = i
         /\ lasti' = IF format = "linetable" THEN i \div 2 ELSE i
         /\ frame' = IF version = 9 /\ frame.trace # "none" /\ frame.tracing
                     THEN [frame EXCEPT !.lineno = LineOf(program, i)] ELSE frame
    /\ Still

(* A variable is assigned, or deleted. *)
SetVariable ==
    /\ Executes
    /\ \E k \in DOMAIN Variables : frame' = [frame EXCEPT !.values[k] = ~@]
    /\ StandsStill

(* frame.f_trace, or sys.settrace before the call. *)
SetTrace ==
    /\ Executes /\ version <= 10
    /\ \E class \in {"function", "method"} :
         frame' = [frame EXCEPT !.trace = class, !.tracing = TRUE,
                     !.lineno = IF version = 9 THEN LineOf(program, instruction) ELSE @]
    /\ StandsStill

(* sys.settrace(None) leaves f_trace as it is. *)
StopTracing ==
    /\ Executes /\ frame.tracing
    /\ frame' = [frame EXCEPT !.tracing = FALSE]
    /\ StandsStill

(* In 3.10 f_lineno is there while the trace function runs. *)
CallTrace ==
    /\ IsRunning /\ version = 10 /\ frame.tracing
    /\ frame' = [frame EXCEPT !.lineno = IF @ = 0 THEN LineOf(program, instruction) ELSE 0]
    /\ StandsStill

(* An assignment to __code__ of the running function. *)
ReplaceCode ==
    /\ Executes
    /\ frame' = [frame EXCEPT !.code = Other]
    /\ StandsStill

(* send() and yield, yield from, and the end of the generator. *)
SwitchGenerator ==
    /\ kind = "generator"
    /\ IF frame.state = "executing" THEN Executes ELSE IsRunning
    /\ frame' = [frame EXCEPT !.state = IF @ # "executing" THEN "executing" ELSE "suspended"]
       \/ /\ frame.state = "executing"
          /\ \E to \in {"suspended_yield_from", "cleared"} : frame' = [frame EXCEPT !.state = to]
    /\ StandsStill

Debuggee == \/ Advance \/ SetVariable \/ SetTrace \/ StopTracing \/ CallTrace
            \/ ReplaceCode \/ SwitchGenerator

-----------------------------------------------------------------------------
(* PyExt. *)

(* Wrong on purpose: the tag is taken for a part of the address. *)
MaskedNot(word) == word

(* The ownership bit is masked off. *)
Masked(word) == word - (word % 2)

(* PyFunctionObject::code, read when the command runs. *)
FunctionCode == frame.code

(* PyInterpreterFrame::code and PyFrameObject::code. *)
Code == IF HasField("f_executable") /\ kind # "frame" /\ Masked(Own + frame.tag) = Own THEN Own
        ELSE IF HasField("f_funcobj") /\ kind # "frame" /\ Masked(Func + frame.tag) = Func
        THEN FunctionCode
        ELSE IF HasField("f_code") THEN Own ELSE Null

(* names are indices of variables; those of the other code are not.        *)
localsplusNames == IF Code # Own THEN <<0>>
                   ELSE IF version <= 10 THEN VarNames \o CellVars \o FreeVars
                   ELSE [k \in DOMAIN Variables |-> k]

(* As many words as there are names. *)
readOffsetArray(slots, n) == SubSeq(slots, 1, n)
Words == IF version <= 10 THEN readOffsetArray(OldSlots, Len(localsplusNames))
         ELSE LET words == readOffsetArray(NewSlots, Len(localsplusNames))
              IN  [j \in DOMAIN words |-> Masked(words[j])]

(* frame() of a generator is null before 3.11 once the generator has ended. *)
NoFrame == kind = "generator" /\ version <= 10 /\ frame.state = "cleared"
localsplus == IF Code = Null \/ NoFrame THEN <<>>
              ELSE [j \in DOMAIN localsplusNames |-> [name |-> localsplusNames[j], word |-> Words[j]]]

(* What the repr of an object says: that of a cell is the repr of what it  *)
(* holds, which cannot be read when it holds nothing.                      *)
CellAt(address) == {k \in DOMAIN Variables : CellOf(k) = address}
ReprOf(address) == IF CellAt(address) # {} THEN Contents(CHOOSE k \in CellAt(address) : TRUE)
                   ELSE address
Fails(address) == address % 2 = 1 \/ (CellAt(address) # {} /\ ReprOf(address) = Null)

(* As CPython numbers them since 3.13. *)
frameStateString(n) ==
    CASE n = -3 -> "created" [] n = -2 -> "suspended" [] n = -1 -> "suspended_yield_from"
      [] n = 0 -> "executing" [] n = 1 -> "completed" [] n = 4 -> "cleared"
      [] OTHER -> "unknown"
frameState == IF HasField("frame_state") THEN FrameStateField ELSE 0

(* PyGenObjectBase::details and PyFrame::details: the variables that are   *)
(* not null.  All of them are read before any is shown.                    *)
ShowDetails ==
    /\ pc = "begin"
    /\ LET set == Kept(localsplus, {p \in Range(localsplus) : p.word # Null})
       IN  IF \E j \in DOMAIN set : Fails(set[j].word)
           THEN pc' = "failed" /\ UNCHANGED shown
           ELSE /\ pc' = "shown"
                /\ shown' = (IF kind = "generator" THEN <<frameStateString(frameState)>> ELSE <<>>)
                            \o [j \in DOMAIN set |-> <<set[j].name, ReprOf(set[j].word)>>]
    /\ UNCHANGED <<program, format, table, instruction, lasti, it, addr, line>>
    /\ UNCHANGED <<version, kind, frame>>

(* PyFrameObject::currentLineNumber: f_lineno when trace() is a function. *)
UsesLineno == version <= 10 /\ frame.trace = "function"

(* currentLineNumber of a frame that !pystack has reached, up to the loop. *)
CurrentLineNumber ==
    /\ pc = "begin" /\ frame.state = "executing"
    /\ version >= 11 => kind # "frame"
    /\ IF UsesLineno
       THEN /\ line' = frame.lineno /\ pc' = "done"
            /\ UNCHANGED <<program, format, table, instruction, lasti, it, addr>>
       ELSE IF Code = Own THEN Begin
       ELSE /\ pc' = "loop"
            /\ format' = "locations" /\ table' = Location(1, 0, FALSE)
            /\ lasti' \in {-2, 2000}
            /\ UNCHANGED <<program, instruction, it, addr, line>>
    /\ UNCHANGED frameVars

Decode == (OldPair \/ NewPair \/ LocationEntry \/ End) /\ UNCHANGED frameVars

Returned == pc \in {"done", "shown", "failed"} /\ UNCHANGED allVars

FramesNext == Debuggee \/ ShowDetails \/ CurrentLineNumber \/ Decode \/ Returned

FramesSpec == FramesInit /\ [][FramesNext]_allVars

-----------------------------------------------------------------------------

(* In 3.12 the code of a frame is looked up through its function, whose    *)
(* code may have been replaced while the frame runs.                       *)
CodeReplaced == version = 12 /\ frame.code # Own

(* f_lineno is not kept up to date: when tracing has been stopped, and in  *)
(* 3.10 whenever no trace function runs.                                   *)
LinenoIsStale == /\ UsesLineno
                 /\ \/ version = 9 /\ ~frame.tracing
                    \/ version = 10 /\ frame.lineno = 0

(* Whatever the format, and however CPython had to split a long run or a   *)
(* large delta, traced or not, the line of a frame is the one of the run   *)
(* its instruction is in.                                                  *)
ShowsTheLine ==
    pc = "done" /\ (format # "none" \/ UsesLineno) /\ ~CodeReplaced /\ ~LinenoIsStale
       => line = LineOf(program, instruction)

(* The details show each variable that is set, once, with its value, and   *)
(* none that is not, wherever CPython keeps them, and the right state of   *)
(* the generator.  Before 3.13 the names of states are for other numbers,  *)
(* or the field is not there; a cell that is empty ends the command; the   *)
(* variables of a generator that has ended are shown though they are gone; *)
(* a frame object of 3.11 or later has no f_code and shows nothing.        *)
SetVariables == {<<k, ValueOf(k)>> : k \in {j \in DOMAIN Variables : frame.values[j]}}
HasNoLocals == frame.state = "cleared" \/ (kind = "frame" /\ version >= 11)
ShowsTheFrame ==
    /\ pc = "failed" => \E k \in DOMAIN Variables : IsCell(k) /\ ~frame.values[k]
    /\ pc = "shown" =>
         LET locals == IF kind = "generator" THEN Tail(shown) ELSE shown
         IN  /\ ~CodeReplaced /\ ~HasNoLocals =>
                  Range(locals) = SetVariables /\ IsInjective(locals)
             /\ kind = "generator" /\ version >= 13 => shown[1] = frame.state

-----------------------------------------------------------------------------
(* Why: f_lineno is right where it counts, and a decoder that is under way *)
(* has read some first entries of some run and all entries before, so that *)
(* the address and the line are what these come to.                        *)
FramesTypeOK ==
    /\ version \in 9..14 /\ format \in {"none", FormatOf(version)}
    /\ kind \in {"frame", "generator"} \cup (IF version >= 11 THEN {"iframe"} ELSE {})
    /\ program \in Programs /\ instruction \in Instructions(program)
    /\ pc \in {"begin", "loop", "done", "shown", "failed"}
    /\ frame \in FrameRecord /\ frame.tag = (IF version = 14 THEN 1 ELSE 0)
    /\ kind # "generator" => frame.state = "executing"

LinenoOK ==
    /\ frame.tracing => frame.trace # "none"
    /\ (version = 9 /\ frame.tracing) \/ (version = 10 /\ frame.lineno # 0)
          => frame.lineno = LineOf(program, instruction)

OwnTable ==
    /\ format # "none"
    /\ lasti = IF format = "linetable" THEN instruction \div 2 ELSE instruction
    /\ format = "lnotab" => program[1].delta = 0
    /\ \E full \in BOOLEAN :
         LET entries == Entries(format, program, full)
         IN  /\ table = Joined(entries) /\ AtAnEntry(entries)
             /\ pc = "loop" => /\ addr <= Offset
                               /\ \E k \in DOMAIN entries : \E j \in 0..Len(entries[k]) :
                                    HasRead(entries, k, j)

(* The one of the function's code.                                         *)
OtherEntries == <<<<Location(1, 0, FALSE)>>>>
OtherTable == /\ CodeReplaced /\ pc \in {"loop", "done"} /\ format = "locations"
              /\ table = Joined(OtherEntries) /\ AtAnEntry(OtherEntries) /\ line \in Int

NoTable == format = "none" /\ table = <<>> /\ it = 1 /\ pc # "loop"

DecoderOK == /\ pc = "begin" => it = 1 /\ addr = 0 /\ line = FirstLine
             /\ OwnTable \/ OtherTable \/ NoTable

FramesInv == FramesTypeOK /\ LinenoOK /\ DecoderOK /\ ShowsTheFrame /\ ShowsTheLine
=============================================================================
