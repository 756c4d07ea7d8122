------------------------------ MODULE Session ------------------------------
(***************************************************************************)
(* What PyExt keeps between commands in a debugger session: the symbol     *)
(* path that !pysymfix extends (src/pysymfix.cpp), the symbols that        *)
(* ensureSymbolsLoaded loads (src/extension.cpp), and the override of      *)
(* !pysetautointerpreterstate, a static string that outlives the target it *)
(* was given for (src/PyInterpreterState.cpp).  Commands run one at a      *)
(* time; between two commands the user may switch to another target.       *)
(***************************************************************************)
EXTENDS Integers, Sequences

CONSTANTS Dirs,        \* directories
          Inside,      \* <<d, e>>: the text of d occurs in the text of e
          Server,      \* the entry of the Python symbol server
          Exprs,       \* expressions a user may give as an override
          None,        \* no override
          Targets,     \* the processes and dumps of the session
          InitialPath  \* the symbol path the session starts with

(* A loaded module: whether it is a python*.dll, the directory of its      *)
(* image, and whether its PDB lies there.                                  *)
ModuleRecord == [python : BOOLEAN, dir : Dirs, pdb : BOOLEAN]

(* A target: its modules, whether the symbol server has their symbols, and *)
(* when each expression evaluates.                                         *)
TargetRecord == [modules : Seq(ModuleRecord), served : BOOLEAN,
                 evaluates : [Exprs -> {"never", "symbols", "always"}]]

ASSUME SessionAssumption ==
    /\ Inside \subseteq Dirs \X Dirs
    /\ \A d \in Dirs : <<d, d>> \in Inside
    /\ Server \notin Dirs
    /\ None \notin Exprs
    /\ Targets \subseteq TargetRecord
    /\ InitialPath \in Seq(Dirs \cup {Server})

VARIABLES target,    \* the target being debugged
          sympath,   \* the debugger's symbol path, as its entries
          loaded,    \* the Python symbols of the target are loaded
          override,  \* autoInterpreterStateExpressionOverride
          pc,        \* "idle", or the step of the running !pysymfix
          local,     \* its copy of the symbol path
          next,      \* the module it looks at next
          good       \* ensureSymbolsLoaded has last ended without error

vars == <<target, sympath, loaded, override, pc, local, next, good>>

Entries(path) == {path[k] : k \in DOMAIN path}

(* sympath.find(dirStr): the directory occurs anywhere in the path's text. *)
Mentions(path, d) == \E e \in Dirs \cap Entries(path) : <<d, e>> \in Inside

-----------------------------------------------------------------------------

Evaluates(e) == target.evaluates[e] = "always"
                \/ (target.evaluates[e] = "symbols" /\ loaded)

(* PyInterpreterState::makeAutoInterpreterState: the override when it      *)
(* evaluates, otherwise the interpreter state the symbols name.            *)
UsesOverride == override # None /\ Evaluates(override)
MakesAutoState == UsesOverride \/ loaded

(* Reload("/f python*"): the symbol path leads to the symbols. *)
Loadable == \/ target.served /\ Server \in Entries(sympath)
            \/ \E k \in DOMAIN target.modules :
                  LET m == target.modules[k]
                  IN  m.python /\ m.pdb /\ m.dir \in Entries(sympath)

(* EXT_CLASS::ensureSymbolsLoaded: reload only when the interpreter state  *)
(* cannot be made, and never throw.                                        *)
EnsureSymbolsLoaded ==
    /\ loaded' = (loaded \/ (~MakesAutoState /\ Loadable))
    /\ good' = (MakesAutoState \/ Loadable)

-----------------------------------------------------------------------------

Init == /\ target \in Targets
        /\ sympath = InitialPath
        /\ loaded = FALSE
        /\ override = None
        /\ pc = "idle"
        /\ local = <<>>
        /\ next = 1
        /\ good = FALSE

(* The user opens another dump or attaches elsewhere: the symbol path and  *)
(* the override stay, the symbols do not.                                  *)
SwitchTarget ==
    /\ pc = "idle"
    /\ target' \in Targets \ {target}
    /\ loaded' = FALSE /\ good' = FALSE
    /\ UNCHANGED <<sympath, override, pc, local, next>>

(* !pystack, !pyobj and !pyinterpreterframe begin alike. *)
OtherCommand ==
    /\ pc = "idle"
    /\ EnsureSymbolsLoaded
    /\ UNCHANGED <<target, sympath, override, pc, local, next>>

(* !pysetautointerpreterstate without an expression, and with one; when    *)
(* the expression fails, that is rethrown before anything is changed.      *)
ResetOverride ==
    /\ pc = "idle"
    /\ EnsureSymbolsLoaded
    /\ override' = None
    /\ UNCHANGED <<target, sympath, pc, local, next>>

(* Wrong on purpose: the expression is not validated first. *)
SetOverrideUnchecked(e) ==
    /\ pc = "idle"
    /\ EnsureSymbolsLoaded
    /\ override' = e
    /\ UNCHANGED <<target, sympath, pc, local, next>>

SetOverride(e) ==
    /\ pc = "idle"
    /\ EnsureSymbolsLoaded
    /\ override' = IF target.evaluates[e] = "always"
                      \/ (target.evaluates[e] = "symbols" /\ loaded')
                   THEN e ELSE override
    /\ UNCHANGED <<target, sympath, pc, local, next>>

(* !pysymfix reads the symbol path. *)
SymFixBegin ==
    /\ pc = "idle"
    /\ pc' = "scan" /\ local' = sympath /\ next' = 1
    /\ UNCHANGED <<target, sympath, loaded, override, good>>

(* Wrong on purpose: no look whether the directory is there already. *)
SymFixScanBlindly ==
    /\ pc = "scan" /\ next <= Len(target.modules)
    /\ LET m == target.modules[next]
       IN  local' = IF m.python /\ m.pdb THEN Append(local, m.dir) ELSE local
    /\ next' = next + 1
    /\ UNCHANGED <<target, sympath, loaded, override, pc, good>>

(* Its loop over the modules: the directory of a local PDB is appended     *)
(* unless the path mentions it.                                            *)
SymFixScan ==
    /\ pc = "scan" /\ next <= Len(target.modules)
    /\ LET m == target.modules[next]
       IN  local' = IF m.python /\ m.pdb /\ ~Mentions(local, m.dir)
                    THEN Append(local, m.dir) ELSE local
    /\ next' = next + 1
    /\ UNCHANGED <<target, sympath, loaded, override, pc, good>>

(* Wrong on purpose: the server goes in front of the user's entries. *)
SymFixServerFirst ==
    /\ pc = "scan" /\ next = Len(target.modules) + 1
    /\ sympath' = IF Server \in Entries(local) THEN local ELSE <<Server>> \o local
    /\ pc' = "load"
    /\ UNCHANGED <<target, loaded, override, local, next, good>>

(* The symbol server, and the new path. *)
SetSymbolPath ==
    /\ pc = "scan" /\ next = Len(target.modules) + 1
    /\ sympath' = IF Server \in Entries(local) THEN local ELSE Append(local, Server)
SymFixStore ==
    /\ SetSymbolPath
    /\ pc' = "load"
    /\ UNCHANGED <<target, loaded, override, local, next, good>>

(* A failing SetSymbolPath throws out of the command with nothing changed; *)
(* when the path cannot be read again, it has been stored.                 *)
SymFixFails ==
    /\ pc = "scan" /\ next = Len(target.modules) + 1
    /\ pc' = "idle" /\ local' = <<>> /\ next' = 1
    /\ UNCHANGED <<target, sympath, loaded, override, good>>

SymFixReadBackFails ==
    /\ SetSymbolPath
    /\ pc' = "idle" /\ local' = <<>> /\ next' = 1
    /\ UNCHANGED <<target, loaded, override, good>>

(* Wrong on purpose: the path is stored but no symbols are loaded. *)
SymFixSkipsLoad ==
    /\ pc = "load"
    /\ pc' = "idle" /\ local' = <<>> /\ next' = 1
    /\ UNCHANGED <<target, sympath, loaded, override, good>>

(* Its last step loads the symbols. *)
SymFixLoad ==
    /\ pc = "load"
    /\ EnsureSymbolsLoaded
    /\ pc' = "idle" /\ local' = <<>> /\ next' = 1
    /\ UNCHANGED <<target, sympath, override>>

Next == \/ SwitchTarget \/ OtherCommand
        \/ ResetOverride \/ \E e \in Exprs : SetOverride(e)
        \/ SymFixBegin \/ SymFixScan \/ SymFixStore \/ SymFixFails
        \/ SymFixReadBackFails \/ SymFixLoad

Spec == Init /\ [][Next]_vars

-----------------------------------------------------------------------------

TypeOK == /\ target \in Targets
          /\ sympath \in Seq(Dirs \cup {Server})
          /\ loaded \in BOOLEAN
          /\ override \in Exprs \cup {None}
          /\ pc \in {"idle", "scan", "load"}
          /\ local \in Seq(Dirs \cup {Server})
          /\ next \in 1..(Len(target.modules) + 1)
          /\ good \in BOOLEAN

(* However often !pysymfix runs and on however many targets, it adds no    *)
(* entry twice.                                                            *)
NoRepeats(path) == \A j, k \in DOMAIN path : path[j] = path[k] => j = k
NoEntryTwice == NoRepeats(InitialPath) => NoRepeats(sympath)

(* The user's own entries keep their places: the path only grows at its    *)
(* end, so symbols that were found before are found in the same place.     *)
PathOnlyGrows ==
    [][/\ Len(sympath) <= Len(sympath')
       /\ \A k \in DOMAIN sympath : sympath'[k] = sympath[k]]_sympath

(* "Adds python symbols to the symbol path" (pysymfix.cpp:57): unless an   *)
(* override hides that they are missing, a !pysymfix that gets to its end  *)
(* leaves the symbols loaded when a PDB lies next to a python*.dll or the  *)
(* server has them.                                                        *)
SymFixLoadsSymbols ==
    [][pc = "load" /\ pc' = "idle" /\ ~UsesOverride
         /\ \/ target.served
            \/ \E k \in DOMAIN target.modules :
                  target.modules[k].python /\ target.modules[k].pdb
       => loaded']_vars

(* pysymfix.cpp:62, "Check for local PDBs next to each python*.dll and     *)
(* append their directories."                                              *)
LocalPdbsOnPath ==
    pc = "load" =>
        \A k \in DOMAIN target.modules :
           target.modules[k].python /\ target.modules[k].pdb
           => target.modules[k].dir \in Entries(sympath)

(* An override in force stays in force on its target: an expression that   *)
(* is rejected does not displace it.                                       *)
OverrideStaysInForce ==
    [][UsesOverride /\ target' = target => UsesOverride' \/ override' = None]_vars

(* Why no entry is added twice: the running !pysymfix only extends what it *)
(* read, and never by what is there.                                       *)
PathInv ==
    /\ TypeOK
    /\ pc = "idle" => next = 1
    /\ NoRepeats(InitialPath) =>
          NoRepeats(sympath) /\ (pc = "scan" => NoRepeats(local))
    /\ pc = "scan" => /\ Len(sympath) <= Len(local)
                      /\ \A k \in DOMAIN sympath : local[k] = sympath[k]
=============================================================================
