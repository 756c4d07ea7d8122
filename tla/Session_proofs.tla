--------------------------- MODULE Session_proofs ---------------------------
(***************************************************************************)
(* Proofs about the symbol path, for every set of directories and targets  *)
(* and every path the session starts with.                                 *)
(***************************************************************************)
EXTENDS Session, SequenceTheorems, TLAPS

LEMMA AppendKeeps ==
    ASSUME NEW S, NEW path \in Seq(S), NEW e \in S
    PROVE  /\ Append(path, e) \in Seq(S)
           /\ Len(path) <= Len(Append(path, e))
           /\ \A k \in DOMAIN path : Append(path, e)[k] = path[k]
           /\ NoRepeats(path) /\ e \notin Entries(path) => NoRepeats(Append(path, e))
<1>1. /\ Append(path, e) \in Seq(S)
      /\ Len(Append(path, e)) = Len(path) + 1 /\ Len(path) \in Nat
      /\ \A k \in 1..Len(path) : Append(path, e)[k] = path[k]
      /\ Append(path, e)[Len(path) + 1] = e
      /\ DOMAIN path = 1..Len(path)
      /\ DOMAIN Append(path, e) = 1..(Len(path) + 1)
  BY AppendProperties
<1>2. ASSUME NoRepeats(path), e \notin Entries(path)
      PROVE  NoRepeats(Append(path, e))
  <2>1. \A k \in 1..Len(path) : path[k] # e
    BY <1>1, <1>2 DEF Entries
  <2> QED  BY <1>1, <1>2, <2>1 DEF NoRepeats
<1> QED  BY <1>1, <1>2

(* A directory the path does not mention is not one of its entries. *)
LEMMA UnmentionedIsNew ==
    ASSUME NEW path \in Seq(Dirs \cup {Server}), NEW d \in Dirs, ~Mentions(path, d)
    PROVE  d \notin Entries(path)
BY SessionAssumption DEF Mentions, Entries

LEMMA ModulesTyped ==
    ASSUME TypeOK
    PROVE  /\ target.modules \in Seq(ModuleRecord)
           /\ \A k \in 1..Len(target.modules) : target.modules[k].dir \in Dirs
<1>1. target.modules \in Seq(ModuleRecord)
  BY SessionAssumption DEF TypeOK, TargetRecord
<1>2. ASSUME NEW k \in 1..Len(target.modules) PROVE target.modules[k].dir \in Dirs
  <2>1. target.modules[k] \in ModuleRecord
    BY <1>1
  <2> QED  BY <2>1 DEF ModuleRecord
<1> QED  BY <1>1, <1>2

LEMMA ScanInv == PathInv /\ SymFixScan => PathInv'
<1> SUFFICES ASSUME PathInv, SymFixScan PROVE PathInv'
  OBVIOUS
<1> DEFINE m == target.modules[next]
<1>1. /\ TypeOK /\ pc = "scan" /\ next \in 1..Len(target.modules)
      /\ m.dir \in Dirs /\ local \in Seq(Dirs \cup {Server})
      /\ Len(target.modules) \in Nat
  BY ModulesTyped DEF PathInv, SymFixScan, TypeOK
<1>2. UNCHANGED <<target, sympath, loaded, override, pc, good>> /\ next' = next + 1
  BY DEF SymFixScan
<1>3. CASE local' = local
  BY <1>1, <1>2, <1>3 DEF PathInv, TypeOK
<1>4. CASE local' = Append(local, m.dir) /\ ~Mentions(local, m.dir)
  <2>1. /\ local' \in Seq(Dirs \cup {Server})
        /\ Len(local) <= Len(local')
        /\ \A k \in DOMAIN local : local'[k] = local[k]
        /\ NoRepeats(local) => NoRepeats(local')
    BY <1>1, <1>4, AppendKeeps, UnmentionedIsNew
  <2>2. sympath \in Seq(Dirs \cup {Server})
    BY <1>1 DEF TypeOK
  <2>3. /\ Len(sympath) <= Len(local')
        /\ \A k \in DOMAIN sympath : local'[k] = sympath[k]
    <3>1. /\ Len(sympath) <= Len(local)
          /\ \A k \in DOMAIN sympath : local[k] = sympath[k]
      BY <1>1, Zenon DEF PathInv
    <3>2. Len(sympath) \in Nat /\ DOMAIN sympath = 1..Len(sympath)
            /\ Len(local) \in Nat /\ DOMAIN local = 1..Len(local) /\ Len(local') \in Nat
      BY <1>1, <2>1, <2>2
    <3>3. \A k \in DOMAIN sympath : k \in DOMAIN local
      BY <3>1, <3>2
    <3>4. Len(sympath) <= Len(local')
      BY <2>1, <3>1, <3>2
    <3> QED  BY <2>1, <3>1, <3>3, <3>4, Zenon
  <2> QED  BY <1>1, <1>2, <2>1, <2>3 DEF PathInv, TypeOK
<1> QED  BY <1>3, <1>4 DEF SymFixScan

(* What !pysymfix stores extends what the session had. *)
LEMMA StoreExtends ==
    ASSUME PathInv, SetSymbolPath
    PROVE  /\ sympath' \in Seq(Dirs \cup {Server})
           /\ Len(sympath) <= Len(sympath')
           /\ \A k \in DOMAIN sympath : sympath'[k] = sympath[k]
           /\ NoRepeats(InitialPath) => NoRepeats(sympath')
<1>1. /\ TypeOK /\ pc = "scan"
      /\ local \in Seq(Dirs \cup {Server}) /\ sympath \in Seq(Dirs \cup {Server})
  BY DEF PathInv, SetSymbolPath, TypeOK
<1>2. CASE sympath' = local
  BY <1>1, <1>2 DEF PathInv
<1>3. CASE sympath' = Append(local, Server) /\ Server \notin Entries(local)
  <2>1. /\ sympath' \in Seq(Dirs \cup {Server})
        /\ Len(local) <= Len(sympath')
        /\ \A k \in DOMAIN local : sympath'[k] = local[k]
        /\ NoRepeats(local) => NoRepeats(sympath')
    BY <1>1, <1>3, AppendKeeps
  <2> QED  BY <1>1, <2>1 DEF PathInv
<1> QED  BY <1>2, <1>3 DEF SetSymbolPath

LEMMA LoadTyped ==
    EnsureSymbolsLoaded => loaded' \in BOOLEAN /\ good' \in BOOLEAN
BY DEF EnsureSymbolsLoaded, MakesAutoState, UsesOverride, Loadable

LEMMA NextPathInv == PathInv /\ [Next]_vars => PathInv'
<1> SUFFICES ASSUME PathInv, [Next]_vars PROVE PathInv'
  OBVIOUS
<1>1. CASE SwitchTarget
  <2>1. loaded' \in BOOLEAN /\ good' \in BOOLEAN
    BY <1>1 DEF SwitchTarget
  <2>2. /\ target' \in Targets
        /\ UNCHANGED <<sympath, override, pc, local, next>> /\ pc = "idle"
    BY <1>1 DEF SwitchTarget
  <2>3. Len(target'.modules) \in Nat
    BY <2>2, SessionAssumption DEF TargetRecord
  <2> QED  BY <2>1, <2>2, <2>3 DEF PathInv, TypeOK
<1>2. CASE OtherCommand \/ ResetOverride \/ SymFixLoad
  <2>1. loaded' \in BOOLEAN /\ good' \in BOOLEAN
    BY <1>2, LoadTyped DEF OtherCommand, ResetOverride, SymFixLoad
  <2>2. /\ target' = target /\ sympath' = sympath
        /\ override' \in {override, None}
        /\ pc' = "idle" /\ next' = 1
    BY <1>2 DEF OtherCommand, ResetOverride, SymFixLoad, PathInv
  <2>3. local' \in {local, <<>>}
    BY <1>2 DEF OtherCommand, ResetOverride, SymFixLoad
  <2>4. Len(target.modules) \in Nat /\ <<>> \in Seq(Dirs \cup {Server})
    BY ModulesTyped DEF PathInv
  <2>5. TypeOK'
    <3>1. target' \in Targets /\ sympath' \in Seq(Dirs \cup {Server})
      BY <2>2 DEF PathInv, TypeOK
    <3>2. override' \in Exprs \cup {None} /\ pc' \in {"idle", "scan", "load"}
      BY <2>2 DEF PathInv, TypeOK
    <3>3. local' \in Seq(Dirs \cup {Server})
      BY <2>3, <2>4 DEF PathInv, TypeOK
    <3>4. next' \in 1..(Len(target'.modules) + 1)
      BY <2>2, <2>4
    <3> QED  BY <2>1, <3>1, <3>2, <3>3, <3>4 DEF TypeOK
  <2>6. NoRepeats(InitialPath) => NoRepeats(sympath')
    BY <2>2 DEF PathInv
  <2> QED  BY <2>2, <2>5, <2>6 DEF PathInv
<1>3. ASSUME NEW e \in Exprs, SetOverride(e) PROVE PathInv'
  <2>1. loaded' \in BOOLEAN /\ good' \in BOOLEAN
    BY <1>3, LoadTyped DEF SetOverride
  <2> QED  BY <1>3, <2>1 DEF SetOverride, PathInv, TypeOK
<1>4. CASE SymFixBegin \/ SymFixFails
  <2>1. Len(target.modules) \in Nat /\ <<>> \in Seq(Dirs \cup {Server})
    BY ModulesTyped DEF PathInv
  <2>2. /\ target' = target /\ sympath' = sympath /\ loaded' = loaded
        /\ override' = override /\ good' = good /\ next' = 1
    BY <1>4 DEF SymFixBegin, SymFixFails
  <2>3. \/ pc' = "scan" /\ local' = sympath
        \/ pc' = "idle" /\ local' = <<>>
    BY <1>4 DEF SymFixBegin, SymFixFails
  <2>4. TypeOK'
    <3>1. target' \in Targets /\ sympath' \in Seq(Dirs \cup {Server})
      BY <2>2 DEF PathInv, TypeOK
    <3>2. override' \in Exprs \cup {None} /\ pc' \in {"idle", "scan", "load"}
      BY <2>2, <2>3 DEF PathInv, TypeOK
    <3>3. local' \in Seq(Dirs \cup {Server})
      BY <2>1, <2>3 DEF PathInv, TypeOK
    <3>4. next' \in 1..(Len(target'.modules) + 1)
      BY <2>1, <2>2
    <3>5. loaded' \in BOOLEAN
      BY <2>2 DEF PathInv, TypeOK
    <3>6. good' \in BOOLEAN
      BY <2>2 DEF PathInv, TypeOK
    <3> QED  BY <3>1, <3>2, <3>3, <3>4, <3>5, <3>6 DEF TypeOK
  <2>5. NoRepeats(InitialPath) =>
           NoRepeats(sympath') /\ (pc' = "scan" => NoRepeats(local'))
    BY <2>2, <2>3 DEF PathInv
  <2>6. pc' = "scan" => /\ Len(sympath') <= Len(local')
                        /\ \A k \in DOMAIN sympath' : local'[k] = sympath'[k]
    <3>1. Len(sympath) \in Nat
      BY DEF PathInv, TypeOK
    <3> QED  BY <2>2, <2>3, <3>1
  <2> QED  BY <2>2, <2>4, <2>5, <2>6 DEF PathInv
<1>5. CASE SymFixScan
  BY <1>5, ScanInv
<1>6. CASE SymFixStore
  BY <1>6, StoreExtends DEF SymFixStore, PathInv, TypeOK
<1>7. CASE SymFixReadBackFails
  <2>1. Len(target.modules) \in Nat /\ <<>> \in Seq(Dirs \cup {Server})
    BY ModulesTyped DEF PathInv
  <2>2. /\ UNCHANGED <<target, loaded, override, good>>
        /\ pc' = "idle" /\ local' = <<>> /\ next' = 1
    BY <1>7 DEF SymFixReadBackFails
  <2>3. /\ sympath' \in Seq(Dirs \cup {Server})
        /\ NoRepeats(InitialPath) => NoRepeats(sympath')
    BY <1>7, StoreExtends DEF SymFixReadBackFails
  <2> QED  BY <2>1, <2>2, <2>3 DEF PathInv, TypeOK
<1>8. CASE UNCHANGED vars
  BY <1>8 DEF vars, PathInv, TypeOK
<1> QED  BY <1>1, <1>2, <1>3, <1>4, <1>5, <1>6, <1>7, <1>8 DEF Next

-----------------------------------------------------------------------------

(* While !pysymfix scans, its copy of the symbol path extends the path by  *)
(* directories it did not have (src/pysymfix.cpp:63).                      *)
THEOREM PathInvariance == Spec => []PathInv
<1>1. ASSUME Init PROVE PathInv
  <2>1. loaded \in BOOLEAN /\ good \in BOOLEAN
    BY <1>1 DEF Init
  <2>2. /\ target \in Targets /\ sympath = InitialPath /\ override = None
        /\ pc = "idle" /\ local = <<>> /\ next = 1
    BY <1>1 DEF Init
  <2>3. Len(target.modules) \in Nat
    BY <2>2, SessionAssumption DEF TargetRecord
  <2> QED  BY <2>1, <2>2, <2>3, SessionAssumption DEF PathInv, TypeOK
<1> QED  BY <1>1, NextPathInv, PTL DEF Spec

(* Whatever targets a session goes through, !pysymfix never adds an entry  *)
(* the symbol path already has (src/pysymfix.cpp:81 and :89).              *)
THEOREM NoEntryIsAddedTwice == Spec => []NoEntryTwice
<1>1. PathInv => NoEntryTwice
  BY DEF PathInv, NoEntryTwice
<1> QED  BY <1>1, PathInvariance, PTL

(* No command removes or moves an entry of the symbol path.                *)
THEOREM UserEntriesStay == Spec => PathOnlyGrows
<1>1. PathInv /\ [Next]_vars =>
        [/\ Len(sympath) <= Len(sympath')
         /\ \A k \in DOMAIN sympath : sympath'[k] = sympath[k]]_sympath
  BY StoreExtends
     DEF Next, vars, SwitchTarget, OtherCommand, ResetOverride, SetOverride,
         SymFixBegin, SymFixScan, SymFixStore, SymFixFails, SymFixReadBackFails,
         SymFixLoad
<1> QED  BY <1>1, PathInvariance, PTL DEF Spec, PathOnlyGrows

(* An override in force on the target stays in force: a rejected           *)
(* expression does not displace it, and loading symbols does not either    *)
(* (src/pysetautointerpreterstate.cpp:31, src/PyInterpreterState.cpp:38).  *)
THEOREM OverrideIsKept == Spec => OverrideStaysInForce
<1>1. ASSUME [Next]_vars, UsesOverride, target' = target
      PROVE  UsesOverride' \/ override' = None
  <2>1. CASE UNCHANGED <<loaded, override>>
    BY <1>1, <2>1 DEF UsesOverride, Evaluates
  <2>2. CASE UNCHANGED override /\ EnsureSymbolsLoaded
    BY <1>1, <2>2 DEF UsesOverride, Evaluates, EnsureSymbolsLoaded
  <2>3. CASE ResetOverride
    BY <2>3 DEF ResetOverride
  <2>4. ASSUME NEW e \in Exprs, SetOverride(e) PROVE UsesOverride'
    <3>1. CASE override' = e /\ (target.evaluates[e] = "always"
                                 \/ (target.evaluates[e] = "symbols" /\ loaded'))
      BY <1>1, <3>1, SessionAssumption DEF UsesOverride, Evaluates
    <3>2. CASE override' = override
      BY <1>1, <2>4, <3>2 DEF SetOverride, UsesOverride, Evaluates, EnsureSymbolsLoaded
    <3> QED  BY <2>4, <3>1, <3>2 DEF SetOverride
  <2>5. CASE SwitchTarget
    BY <1>1, <2>5 DEF SwitchTarget
  <2>6. CASE UNCHANGED vars
    BY <2>1, <2>6 DEF vars
  <2> QED  BY <1>1, <2>1, <2>2, <2>3, <2>4, <2>5, <2>6
           DEF Next, OtherCommand, SymFixBegin, SymFixScan, SymFixStore, SymFixFails,
               SymFixReadBackFails, SymFixLoad
<1> QED  BY <1>1, PTL DEF Spec, OverrideStaysInForce

-----------------------------------------------------------------------------
(* What !pysymfix stores leads to the symbols, where no directory's text   *)
(* occurs within another's.                                                *)

HasLocalPdb(k) == target.modules[k].python /\ target.modules[k].pdb

SymFixInv ==
    /\ pc = "scan" =>
          \A k \in 1..Len(target.modules) :
             k < next /\ HasLocalPdb(k) => target.modules[k].dir \in Entries(local)
    /\ pc = "load" =>
          /\ Server \in Entries(sympath)
          /\ \A k \in 1..Len(target.modules) :
                HasLocalPdb(k) => target.modules[k].dir \in Entries(sympath)

LEMMA AppendEntries ==
    ASSUME NEW S, NEW path \in Seq(S), NEW e \in S
    PROVE  Entries(Append(path, e)) = Entries(path) \cup {e}
<1>1. /\ Len(Append(path, e)) = Len(path) + 1 /\ Len(path) \in Nat
      /\ \A k \in 1..Len(path) : Append(path, e)[k] = path[k]
      /\ Append(path, e)[Len(path) + 1] = e
      /\ DOMAIN path = 1..Len(path)
      /\ DOMAIN Append(path, e) = 1..(Len(path) + 1)
  BY AppendProperties
<1> QED  BY <1>1 DEF Entries

LEMMA SymFixInvStep ==
    ASSUME Inside = {<<d, d>> : d \in Dirs}, PathInv, SymFixInv, [Next]_vars
    PROVE  SymFixInv'
<1>1. CASE SwitchTarget \/ OtherCommand \/ ResetOverride \/ \E e \in Exprs : SetOverride(e)
  BY <1>1 DEF SwitchTarget, OtherCommand, ResetOverride, SetOverride, SymFixInv
<1>2. CASE SymFixBegin
  BY <1>2 DEF SymFixBegin, SymFixInv
<1>3. CASE SymFixFails \/ SymFixReadBackFails \/ SymFixLoad
  BY <1>3 DEF SymFixFails, SymFixReadBackFails, SymFixLoad, SymFixInv
<1>4. CASE SymFixScan
  <2> DEFINE m == target.modules[next]
  <2>1. /\ pc = "scan" /\ pc' = "scan" /\ next' = next + 1 /\ target' = target
        /\ next \in 1..Len(target.modules) /\ m.dir \in Dirs
        /\ local \in Seq(Dirs \cup {Server}) /\ Len(target.modules) \in Nat
    BY <1>4, ModulesTyped DEF SymFixScan, PathInv, TypeOK
  <2>2. Entries(local) \subseteq Entries(local')
        /\ (HasLocalPdb(next) => m.dir \in Entries(local'))
    <3>1. CASE m.python /\ m.pdb /\ ~Mentions(local, m.dir)
      <4>1. local' = Append(local, m.dir)
        BY <1>4, <3>1 DEF SymFixScan
      <4>2. m.dir \in Dirs \cup {Server} /\ local \in Seq(Dirs \cup {Server})
        BY <2>1
      <4>3. Entries(Append(local, m.dir)) = Entries(local) \cup {m.dir}
        BY <4>2, AppendEntries
      <4> QED  BY <4>1, <4>3
    <3>2. CASE ~(m.python /\ m.pdb)
      BY <1>4, <3>2 DEF SymFixScan, HasLocalPdb
    <3>3. CASE Mentions(local, m.dir)
      <4>1. m.dir \in Entries(local)
        BY <2>1, <3>3 DEF Mentions
      <4> QED  BY <1>4, <3>3, <4>1 DEF SymFixScan
    <3> QED  BY <3>1, <3>2, <3>3
  <2>3. ASSUME NEW k \in 1..Len(target.modules), k < next + 1, HasLocalPdb(k)
        PROVE  target.modules[k].dir \in Entries(local')
    <3>1. k < next \/ k = next
      BY <2>1, <2>3
    <3> QED  BY <2>1, <2>2, <2>3, <3>1 DEF SymFixInv
  <2> QED  BY <2>1, <2>3 DEF SymFixInv, HasLocalPdb
<1>5. CASE SymFixStore
  <2>1. /\ pc = "scan" /\ pc' = "load" /\ target' = target
        /\ next = Len(target.modules) + 1 /\ Len(target.modules) \in Nat
        /\ local \in Seq(Dirs \cup {Server})
    BY <1>5, ModulesTyped DEF SymFixStore, SetSymbolPath, PathInv, TypeOK
  <2>2. Entries(sympath') = Entries(local) \cup {Server}
    BY <1>5, <2>1, AppendEntries DEF SymFixStore, SetSymbolPath
  <2>3. \A k \in 1..Len(target.modules) :
           HasLocalPdb(k) => target.modules[k].dir \in Entries(local)
    BY <2>1 DEF SymFixInv
  <2> QED  BY <2>1, <2>2, <2>3 DEF SymFixInv, HasLocalPdb
<1>6. CASE UNCHANGED vars
  BY <1>6 DEF vars, SymFixInv, HasLocalPdb
<1> QED  BY <1>1, <1>2, <1>3, <1>4, <1>5, <1>6 DEF Next

(* On every target, a !pysymfix that gets to its end has the symbols when  *)
(* they can be had (src/pysymfix.cpp:57).                                  *)
THEOREM SymFixFindsSymbols ==
    ASSUME Inside = {<<d, d>> : d \in Dirs}
    PROVE  Spec => SymFixLoadsSymbols
<1>1. Init => SymFixInv
  BY DEF Init, SymFixInv
<1>2. PathInv /\ SymFixInv /\ [Next]_vars => SymFixInv'
  BY SymFixInvStep
<1>3. ASSUME PathInv, SymFixInv, [Next]_vars, pc = "load", pc' = "idle", ~UsesOverride,
             \/ target.served
             \/ \E k \in DOMAIN target.modules :
                   target.modules[k].python /\ target.modules[k].pdb
      PROVE  loaded'
  <2>1. SymFixLoad
    BY <1>3 DEF Next, vars, SwitchTarget, OtherCommand, ResetOverride, SetOverride,
                SymFixBegin, SymFixScan, SymFixStore, SymFixFails,
                SymFixReadBackFails, SetSymbolPath
  <2>2. DOMAIN target.modules = 1..Len(target.modules)
    BY <1>3, ModulesTyped DEF PathInv
  <2>3. Loadable
    BY <1>3, <2>2 DEF Loadable, SymFixInv, HasLocalPdb
  <2> QED  BY <1>3, <2>1, <2>3 DEF SymFixLoad, EnsureSymbolsLoaded, MakesAutoState
<1> QED  BY <1>1, <1>2, <1>3, PathInvariance, PTL DEF Spec, SymFixLoadsSymbols
=============================================================================
