---------------------------- MODULE MCStackWalk ----------------------------
(***************************************************************************)
(* Small memories for StackWalk: every kind of frame at every place of a   *)
(* chain of up to three frames, and every shape of the lists of            *)
(* interpreter and thread states that the two walks treat differently.     *)
(***************************************************************************)
EXTENDS StackWalk, FiniteSets, SequencesExt

Plain    == [obj |-> "frame", owner |-> "thread", started |-> TRUE,
             code |-> "code", dicts |-> "ok"]
Shim     == [Plain EXCEPT !.owner = "interpreter"]
Entering == [Plain EXCEPT !.started = FALSE]
NewGen   == [Entering EXCEPT !.owner = "generator"]
NoCode   == [Plain EXCEPT !.code = "null"]
LostCode == [Entering EXCEPT !.code = "missing"]
LostDict == [Plain EXCEPT !.dicts = "missing"]
Lost     == [Plain EXCEPT !.obj = "missing"]
Foreign  == [Plain EXCEPT !.obj = "other"]

Kinds == {Plain, Shim, Entering, NewGen, NoCode, LostCode, LostDict, Lost}

Chain(frames) == [frames |-> frames, back |-> 0]
ThreadOf(tid, stack) == [ok |-> TRUE, tid |-> tid, stack |-> stack]
Interp(threads) == [ok |-> TRUE, threads |-> threads]
Process(legacy, interps, object) ==
    [legacy |-> legacy, roots |-> <<-1, 1, -1>>, interps |-> interps,
     object |-> object, fullMem |-> FALSE]

(* One thread with every chain of up to three frames, and a plain one. *)
ChainsUpTo(n) == {Chain(s) : s \in BoundedSeq(Kinds, n)}
Walks == {Process(FALSE, <<Interp(<<ThreadOf(1, c), ThreadOf(2, Chain(<<Plain>>))>>)>>,
                  Chain(<<Plain>>)) : c \in ChainsUpTo(3)}

(* The layouts before 3.11: owner and started mean nothing there. *)
OldKinds == {Plain, NoCode, LostCode, LostDict, Lost, Foreign}
OldWalks == {Process(TRUE, <<Interp(<<ThreadOf(1, Chain(s)), ThreadOf(2, Chain(<<Plain>>))>>)>>,
                     Chain(o)) :
               s \in BoundedSeq(OldKinds, 2),
               o \in {<<Plain, k>> : k \in OldKinds} \cup {<<Lost>>}}

(* Lists of interpreter states: an unreadable one, one without threads,    *)
(* an unreadable thread, idle threads, threads that end in a warning.      *)
Threads == {ThreadOf(t, Chain(s)) : t \in {1, 2},
                                    s \in {<<>>, <<NoCode>>, <<Plain, Plain>>, <<Lost>>}}
           \cup {[ok |-> FALSE, tid |-> 1, stack |-> Chain(<<>>)]}
Interps == {Interp(<<>>), [ok |-> FALSE, threads |-> <<>>]}
           \cup {Interp(<<a>>) : a \in Threads}
           \cup {Interp(<<a, b>>) : a, b \in {x \in Threads : x.ok}}
Roots == {<<-1, 1, -1>>, <<2, 1, -1>>, <<-1, -1, -1>>, <<-1, -1, 2>>,
          <<0, 1, -1>>, <<3, 1, -1>>}
Lists == {[legacy |-> FALSE, roots |-> r, interps |-> <<i, j>>,
           object |-> Chain(<<Plain>>), fullMem |-> full] :
             r \in {<<-1, 1, -1>>}, full \in {TRUE},
             i \in Interps, j \in Interps}
         \cup {[legacy |-> FALSE, roots |-> r, fullMem |-> full,
                interps |-> <<Interp(<<ThreadOf(2, Chain(<<Plain>>))>>),
                              Interp(<<ThreadOf(1, Chain(<<NoCode>>)), ThreadOf(2, Chain(<<>>))>>)>>,
                object |-> Chain(<<Plain>>)] : r \in Roots, full \in BOOLEAN}

(* Chains that lead back into themselves. *)
Cycles == {Process(l, <<Interp(<<ThreadOf(1, [frames |-> s, back |-> b])>>)>>, Chain(<<Plain>>)) :
             l \in BOOLEAN, s \in TupleOf({Plain, Shim, Entering, NewGen}, 3), b \in 1..3}

(* Python 3.11 or newer, with a frame object the user names that the dump  *)
(* does not have.                                                          *)
LostObject == {Process(FALSE, <<Interp(<<ThreadOf(1, Chain(<<Plain>>))>>)>>, Chain(<<k>>)) :
                  k \in {Lost, LostCode}}

MCImages == LostObject \cup Walks \cup OldWalks \cup Lists \cup Cycles
MCRequests == {[all |-> TRUE, addr |-> "none", sysid |-> 1],
               [all |-> FALSE, addr |-> "none", sysid |-> 1],
               [all |-> FALSE, addr |-> "none", sysid |-> 0],
               [all |-> TRUE, addr |-> "ok", sysid |-> 1],
               [all |-> FALSE, addr |-> "ok", sysid |-> 1],
               [all |-> FALSE, addr |-> "bad", sysid |-> 1]}
(* A frame of the first thread is missing from the dump; a thread of       *)
(* Python 3.10 or older that runs no Python code.                          *)
PartialDump == {Process(FALSE, <<Interp(<<ThreadOf(1, Chain(s)), ThreadOf(2, Chain(<<Plain>>))>>)>>,
                        Chain(<<Plain>>)) : s \in BoundedSeq({Plain, Lost}, 2)}
IdleThread == {Process(l, <<Interp(<<ThreadOf(1, Chain(<<>>)), ThreadOf(2, Chain(<<Plain>>))>>)>>,
                       Chain(<<Plain>>)) : l \in BOOLEAN}
LostThreads == PartialDump \cup IdleThread
AllOnly == {[all |-> TRUE, addr |-> "none", sysid |-> 1]}
=============================================================================
