---------------------------- MODULE PatchProofs -----------------------------
(***************************************************************************)
(* Proofs about npa-patch, for any number of runs, bridges, IPAs and       *)
(* faults.                                                                 *)
(***************************************************************************)
EXTENDS PatchProperties, TLAPS

Steps == BeforeTry \cup InPackageTry \cup InZipTry \cup Handlers

Shapes ==
    /\ DOMAIN disk = Paths
    /\ pc \in [Runs -> Steps]
    /\ args \in [Runs -> Calls \cup {Null}]
    /\ result \in [Runs -> {"none", "published", "failed", "killed"}]
    /\ DOMAIN main = Runs /\ DOMAIN tree = Runs /\ DOMAIN shipped = Runs /\ DOMAIN todo = Runs
    /\ faults \in 0..MaxFaults

\* A run that is under way was given an executable that no run has made.
RunInv(r) ==
    /\ pc[r] = "idle" => args[r] = Null /\ main[r] = Null
    /\ pc[r] # "idle" =>
           /\ args[r] \in Calls /\ args[r].src \in DOMAIN Given
           /\ main[r] \in Mains /\ main[r].app \in Supported
    /\ pc[r] \notin {"idle", "find_bridges"} => ~OverwritesInput(r)
    /\ IsFile(tree[r]) /\ IsFile(shipped[r])
    /\ pc[r] \in {"copy", "clear_scratch", "zip"} =>
           "main" \in DOMAIN tree[r] /\ tree[r]["main"].units # {}
    /\ todo[r] # {} => pc[r] \in {"copy", "undo_temporary"} /\ todo[r] \subseteq args[r].sel

Patched(f) == "main" \in DOMAIN f => f["main"].units # {}

DiskInv == \A p \in Paths : IsFile(disk[p]) /\ (p \notin DOMAIN Given => Patched(disk[p]))

\* The temporaries a run will still remove or rename.
Owns(r, p) ==
    \/ /\ pc[r] \in {"report", "extract_shipped", "verify_artifact", "publish", "undo_temporary"}
       /\ p = Temporary(r)
    \/ /\ pc[r] \in {"inspect", "replace", "undo_scratch"}
       /\ p = Scratch(r)

OwnInv == \A p \in Paths : p.prefixes > 0 /\ ~Missing(p) => p \in orphans \/ \E r \in Runs : Owns(r, p)

PatchInv == Shapes /\ (\A r \in Runs : RunInv(r)) /\ DiskInv /\ OwnInv

-----------------------------------------------------------------------------
LEMMA NoFileIsFile == IsFile(NoFile) /\ Patched(NoFile)
  BY DEF IsFile, NoFile, Members, Patched

LEMMA GivenPaths ==
    /\ DOMAIN Given \subseteq Paths
    /\ \A p \in DOMAIN Given : p.prefixes = 0
    /\ \A b \in Bridges : BridgePath(b) \in Paths \ DOMAIN Given /\ BridgePath(b).prefixes = 0
  BY PatchAssumption DEF Paths, BaseNames, MaxPrefixes, BridgePath

\* Where the files of a run are.
LEMMA CallPaths ==
    ASSUME NEW r \in Runs, args[r] \in Calls
    PROVE  /\ args[r].src \in Paths /\ args[r].src.prefixes = 0
           /\ Out(r) \in Paths /\ Out(r).prefixes = 0
           /\ Temporary(r) \in Paths \ DOMAIN Given /\ Temporary(r).prefixes = 1
           /\ Scratch(r) \in Paths \ DOMAIN Given /\ Scratch(r).prefixes = 2
           /\ args[r].sel \subseteq Bridges /\ args[r].sel # {}
<1>1. /\ args[r].src \in Paths /\ args[r].src.prefixes = 0
      /\ Out(r) \in Paths /\ Out(r).prefixes = 0
      /\ args[r].sel \subseteq Bridges /\ args[r].sel # {}
  BY DEF Calls, Paths, MaxPrefixes, Selections, Out
<1>2. Temporary(r) \in Paths /\ Temporary(r).prefixes = 1
  BY DEF Calls, Paths, MaxPrefixes, Out, Temporary, Hidden
<1>3. Scratch(r) \in Paths /\ Scratch(r).prefixes = 2
  BY <1>2 DEF Paths, MaxPrefixes, Scratch, Hidden
<1> QED BY <1>1, <1>2, <1>3, GivenPaths

\* What a run does with its own variables is seen by no other run.
Private(r) ==
    \A s \in Runs \ {r} :
        /\ pc'[s] = pc[s] /\ args'[s] = args[s] /\ main'[s] = main[s] /\ tree'[s] = tree[s]
        /\ shipped'[s] = shipped[s] /\ todo'[s] = todo[s] /\ result'[s] = result[s]

LEMMA EndPrivate ==
    ASSUME Shapes, NEW r \in Runs, NEW how \in {"published", "failed", "killed"}, End(r, how)
    PROVE  /\ Private(r)
           /\ pc'[r] = "idle" /\ result'[r] = how /\ args'[r] = Null /\ main'[r] = Null
           /\ tree'[r] = NoFile /\ shipped'[r] = NoFile /\ todo'[r] = {}
           /\ pc' \in [Runs -> Steps] /\ args' \in [Runs -> Calls \cup {Null}]
           /\ result' \in [Runs -> {"none", "published", "failed", "killed"}]
           /\ DOMAIN main' = Runs /\ DOMAIN tree' = Runs /\ DOMAIN shipped' = Runs /\ DOMAIN todo' = Runs
  BY DEF Shapes, End, Goto, Private, Steps, BeforeTry

LEMMA EndInv ==
    ASSUME Shapes, NEW r \in Runs, NEW how \in {"published", "failed", "killed"}, End(r, how)
    PROVE  RunInv(r)'
  BY EndPrivate, NoFileIsFile DEF RunInv, IsFile, NoFile, Members

\* An exception leads to the handler of the innermost `try`, or ends the run.
LEMMA RaiseCases ==
    ASSUME NEW r \in Runs, Raise(r)
    PROVE  \/ pc[r] \in InZipTry /\ Goto(r, "undo_scratch") /\ UNCHANGED <<private, result>>
           \/ pc[r] \in InPackageTry /\ Goto(r, "undo_temporary") /\ UNCHANGED <<private, result>>
           \/ pc[r] \notin InZipTry \cup InPackageTry /\ End(r, "failed")
  BY DEF Raise, InZipTry, InPackageTry

LEMMA RaiseInv ==
    ASSUME Shapes, NEW r \in Runs, RunInv(r), Raise(r), pc[r] \notin {"idle"} \cup Handlers,
           faults' \in 0..MaxFaults, DOMAIN disk' = DOMAIN disk
    PROVE  Shapes' /\ Private(r) /\ RunInv(r)'
<1>1. CASE pc[r] \in InZipTry /\ Goto(r, "undo_scratch") /\ UNCHANGED <<private, result>>
  <2>1. Private(r) /\ Shapes' /\ pc'[r] = "undo_scratch"
    BY <1>1 DEF Shapes, Goto, Private, private, Steps, Handlers
  <2> QED BY <1>1, <2>1 DEF RunInv, InZipTry, private, OverwritesInput, Out
<1>2. CASE pc[r] \in InPackageTry /\ Goto(r, "undo_temporary") /\ UNCHANGED <<private, result>>
  <2>1. Private(r) /\ Shapes' /\ pc'[r] = "undo_temporary"
    BY <1>2 DEF Shapes, Goto, Private, private, Steps, Handlers
  <2> QED BY <1>2, <2>1 DEF RunInv, InPackageTry, private, OverwritesInput, Out
<1>3. CASE End(r, "failed")
  BY <1>3, EndPrivate, EndInv DEF Shapes
<1> QED BY <1>1, <1>2, <1>3, RaiseCases

LEMMA OthersKeep ==
    ASSUME NEW r \in Runs, Private(r), \A s \in Runs : RunInv(s)
    PROVE  \A s \in Runs \ {r} : RunInv(s)'
  BY DEF Private, RunInv, OverwritesInput, Out

-----------------------------------------------------------------------------
\* The directory.
LEMMA WriteInv ==
    ASSUME Shapes, DiskInv, NEW p \in Paths, NEW f, IsFile(f),
           p \notin DOMAIN Given => Patched(f), Write(p, f)
    PROVE  DOMAIN disk' = Paths /\ DiskInv'
  BY DEF Shapes, DiskInv, Write

LEMMA UnlinkInv ==
    ASSUME Shapes, DiskInv, NEW p \in Paths, Unlink(p)
    PROVE  DOMAIN disk' = Paths /\ DiskInv'
  BY WriteInv, NoFileIsFile DEF Unlink

\* A rename moves what a run has made.
LEMMA RenameInv ==
    ASSUME Shapes, DiskInv, NEW p \in Paths \ DOMAIN Given, NEW q \in Paths,
           disk' = [disk EXCEPT ![q] = disk[p], ![p] = NoFile]
    PROVE  DOMAIN disk' = Paths /\ DiskInv'
  BY NoFileIsFile DEF Shapes, DiskInv

LEMMA KeepDisk ==
    ASSUME Shapes, DiskInv, UNCHANGED disk
    PROVE  DOMAIN disk' = Paths /\ DiskInv'
  BY DEF Shapes, DiskInv

\* A hidden file is owned after a step of a run, if the run does not drop what
\* it owned and owns what it has written.
LEMMA OwnKeep ==
    ASSUME OwnInv, NEW r \in Runs, Private(r), orphans \subseteq orphans',
           \A p \in Paths : p.prefixes > 0 /\ disk'[p] # NoFile =>
               \/ p \in orphans' \/ Owns(r, p)'
               \/ disk[p] # NoFile /\ ~Owns(r, p)
    PROVE  OwnInv'
<1> SUFFICES ASSUME NEW p \in Paths, p.prefixes > 0, disk'[p] # NoFile
             PROVE  p \in orphans' \/ \E s \in Runs : Owns(s, p)'
  BY DEF OwnInv, Missing
<1>1. CASE disk[p] # NoFile /\ ~Owns(r, p)
  <2>1. p \in orphans \/ \E s \in Runs \ {r} : Owns(s, p)
    BY <1>1 DEF OwnInv, Missing
  <2>2. ASSUME NEW s \in Runs \ {r}, Owns(s, p) PROVE Owns(s, p)'
    BY <2>2 DEF Private, Owns, Temporary, Scratch, Hidden, Out
  <2> QED BY <2>1, <2>2
<1> QED BY <1>1

-----------------------------------------------------------------------------
\* What every step of a run keeps; the invariants of the other runs follow.
StepKeeps(r) == Shapes' /\ Private(r) /\ RunInv(r)' /\ DiskInv' /\ OwnInv'

LEMMA FailKeeps ==
    ASSUME PatchInv, NEW r \in Runs, Fail(r), pc[r] \in BeforeTry \cup InPackageTry \cup InZipTry,
           pc[r] # "idle", pc[r] = "replace" => Missing(Scratch(r))
    PROVE  StepKeeps(r)
<1>1. Shapes' /\ Private(r) /\ RunInv(r)' /\ DiskInv'
  BY RaiseInv, KeepDisk DEF PatchInv, Fail, Shapes, BeforeTry, InPackageTry, InZipTry, Handlers
<1>2. \A p \in Paths : Owns(r, p) /\ ~Missing(p) => Owns(r, p)'
  <2>1. CASE pc[r] \in InZipTry /\ Goto(r, "undo_scratch") /\ UNCHANGED <<private, result>>
    BY <2>1 DEF PatchInv, Shapes, Goto, private, Owns, InZipTry, Temporary, Scratch, Hidden, Out
  <2>2. CASE pc[r] \in InPackageTry /\ Goto(r, "undo_temporary") /\ UNCHANGED <<private, result>>
    BY <2>2 DEF PatchInv, Shapes, Goto, private, Owns, InPackageTry, Temporary, Scratch, Hidden, Out
  <2>3. CASE pc[r] \notin InZipTry \cup InPackageTry
    BY <2>3 DEF Owns, BeforeTry, InZipTry, InPackageTry
  <2> QED BY <2>1, <2>2, <2>3, RaiseCases DEF Fail
<1>3. OwnInv'
  BY <1>1, <1>2, OwnKeep DEF PatchInv, Fail, Missing
<1> QED BY <1>1, <1>3 DEF StepKeeps

\* A step that only moves a run on.
LEMMA MoveOn ==
    ASSUME PatchInv, NEW r \in Runs, NEW l \in Steps \ {"idle"}, Goto(r, l), pc[r] # "idle",
           UNCHANGED <<args, main, result, orphans, faults>>,
           DOMAIN tree' = Runs, DOMAIN shipped' = Runs, DOMAIN todo' = Runs,
           \A s \in Runs \ {r} : tree'[s] = tree[s] /\ shipped'[s] = shipped[s] /\ todo'[s] = todo[s],
           DOMAIN disk' = Paths
    PROVE  Shapes' /\ Private(r) /\ pc'[r] = l
  BY DEF PatchInv, Shapes, Goto, Private

LEMMA InvokeKeeps == ASSUME PatchInv, NEW r \in Runs, Invoke(r) PROVE StepKeeps(r)
<1>1. PICK i \in Invocations[r] :
        /\ args' = [args EXCEPT ![r] =
                      [i EXCEPT !.out = IF @ = Null THEN DefaultOutputName(i.src, i.sel) ELSE @]]
        /\ "main" \in DOMAIN disk[i.src] /\ Acceptable(disk[i.src]["main"])
        /\ main' = [main EXCEPT ![r] = disk[i.src]["main"]]
  BY DEF Invoke
<1>2. /\ i.src \in [prefixes : {0}, base : BaseNames] /\ i.src \in Paths
      /\ i.out \in [prefixes : {0}, base : Names] \cup {Null} /\ i.sel \in Selections
      /\ i \in [src : [prefixes : {0}, base : BaseNames],
                 out : [prefixes : {0}, base : Names] \cup {Null}, sel : Selections]
  BY PatchAssumption DEF Paths, MaxPrefixes
<1>3. i.src \in DOMAIN Given
  BY <1>1, <1>2 DEF PatchInv, DiskInv, Patched, Acceptable
<1>4. disk[i.src]["main"] \in Mains /\ disk[i.src]["main"].app \in Supported
  BY <1>1, <1>2 DEF PatchInv, DiskInv, IsFile, Acceptable
<1>5. args'[r] \in Calls /\ args'[r].src = i.src
  <2>1. DefaultOutputName(i.src, i.sel) \in [prefixes : {0}, base : BaseNames]
    BY <1>2, <1>3 DEF DefaultOutputName, BaseNames
  <2>2. \A o \in [prefixes : {0}, base : Names] : o \in [prefixes : {0}, base : BaseNames]
    BY DEF BaseNames
  <2>3. (IF i.out = Null THEN DefaultOutputName(i.src, i.sel) ELSE i.out) \in [prefixes : {0}, base : BaseNames]
    BY <1>2, <2>1, <2>2
  <2>4. args'[r] = [i EXCEPT !.out = IF i.out = Null THEN DefaultOutputName(i.src, i.sel) ELSE i.out]
    BY <1>1 DEF PatchInv, Shapes
  <2> QED BY <1>2, <2>3, <2>4 DEF Calls
<1>6. Shapes' /\ Private(r) /\ pc'[r] = "find_bridges" /\ main'[r] = disk[i.src]["main"]
  BY <1>1, <1>5 DEF PatchInv, Shapes, Invoke, Goto, Private, Steps, BeforeTry
<1>7. RunInv(r)'
  BY <1>3, <1>4, <1>5, <1>6 DEF PatchInv, RunInv, Invoke
<1>8. DiskInv' /\ OwnInv'
  BY <1>6, KeepDisk, OwnKeep DEF PatchInv, Invoke, Owns
<1> QED BY <1>6, <1>7, <1>8 DEF StepKeeps

LEMMA RefuseKeeps == ASSUME PatchInv, NEW r \in Runs, Refuse(r) PROVE StepKeeps(r)
<1>1. Shapes' /\ Private(r) /\ RunInv(r)' /\ DiskInv'
  BY EndPrivate, EndInv, KeepDisk DEF PatchInv, Shapes, Refuse
<1>2. OwnInv'
  BY <1>1, OwnKeep DEF PatchInv, Refuse, Owns
<1> QED BY <1>1, <1>2 DEF StepKeeps

\* Steps that write nothing: the next step's condition is what was checked.
LEMMA QuietKeeps ==
    ASSUME PatchInv, NEW r \in Runs, NEW l \in Steps \ {"idle"}, Goto(r, l), pc[r] # "idle",
           UNCHANGED private, Keep,
           pc[r] = "find_bridges" => ~OverwritesInput(r),
           l \notin {"copy", "clear_scratch", "zip", "find_bridges"}, todo[r] = {},
           \A p \in Paths : Owns(r, p) /\ ~Missing(p) => Owns(r, p)'
    PROVE  StepKeeps(r)
<1>1. Shapes' /\ Private(r) /\ pc'[r] = l
  BY MoveOn DEF PatchInv, Shapes, Keep, private
<1>2. RunInv(r)'
  BY <1>1 DEF PatchInv, RunInv, private, OverwritesInput, Out
<1>3. DiskInv'
  BY KeepDisk DEF PatchInv, Keep
<1>4. OwnInv'
  BY <1>1, OwnKeep DEF PatchInv, Keep, Missing
<1> QED BY <1>1, <1>2, <1>3, <1>4 DEF StepKeeps

LEMMA Phase == Steps = {"idle", "find_bridges", "check_inputs", "zip", "inspect", "bundle", "copy",
                        "clear_scratch", "replace", "report", "extract_shipped", "verify_artifact",
                        "publish", "undo_scratch", "undo_temporary"}
  BY DEF Steps, BeforeTry, InPackageTry, InZipTry, Handlers

LEMMA NoTodo ==
    ASSUME PatchInv, NEW r \in Runs, pc[r] \notin {"copy", "undo_temporary"}
    PROVE  todo[r] = {}
  BY DEF PatchInv, RunInv

LEMMA FindBridgesKeeps == ASSUME PatchInv, NEW r \in Runs, FindBridges(r) PROVE StepKeeps(r)
<1>1. CASE (\E b \in args[r].sel : Missing(BridgePath(b))) \/ OverwritesInput(r)
  BY <1>1, FailKeeps DEF FindBridges, BeforeTry
<1>2. CASE ~((\E b \in args[r].sel : Missing(BridgePath(b))) \/ OverwritesInput(r))
  <2>1. todo[r] = {}
    BY <1>2, NoTodo DEF FindBridges
  <2> QED BY <1>2, <2>1, QuietKeeps, Phase DEF FindBridges, Owns
<1> QED BY <1>1, <1>2

LEMMA CheckInputsKeeps == ASSUME PatchInv, NEW r \in Runs, CheckInputs(r) PROVE StepKeeps(r)
<1>1. CASE ~\A b \in args[r].sel : GoodBridge(b, disk[BridgePath(b)])
  BY <1>1, FailKeeps DEF CheckInputs, BeforeTry
<1>2. CASE \A b \in args[r].sel : GoodBridge(b, disk[BridgePath(b)])
  <2>1. args[r] \in Calls
    BY DEF PatchInv, RunInv, CheckInputs
  <2>2. DOMAIN disk' = Paths /\ DiskInv'
    BY <1>2, <2>1, CallPaths, UnlinkInv DEF PatchInv, CheckInputs
  <2>3. Shapes' /\ Private(r) /\ pc'[r] = "bundle"
    BY <1>2, <2>2, MoveOn, Phase DEF PatchInv, Shapes, CheckInputs, private
  <2>4. RunInv(r)'
    BY <1>2, <2>3 DEF PatchInv, RunInv, CheckInputs, private, OverwritesInput, Out
  <2>5. \A p \in Paths : disk'[p] # NoFile => disk[p] # NoFile
    BY <1>2 DEF PatchInv, Shapes, CheckInputs, Unlink, Write
  <2>6. OwnInv'
    BY <1>2, <2>3, <2>5, OwnKeep DEF PatchInv, CheckInputs, Owns
  <2> QED BY <2>2, <2>3, <2>4, <2>6 DEF StepKeeps
<1> QED BY <1>1, <1>2

LEMMA MainsOfCall ==
    ASSUME PatchInv, NEW r \in Runs, pc[r] # "idle"
    PROVE  /\ Main(main[r].app, args[r].sel) \in Mains
           /\ Main(main[r].app, args[r].sel).units # {}
  BY CallPaths DEF PatchInv, RunInv, Mains, Main, Selections, Calls

LEMMA ExtractBundleKeeps == ASSUME PatchInv, NEW r \in Runs, ExtractBundle(r) PROVE StepKeeps(r)
<1>1. CASE "main" \notin DOMAIN disk[args[r].src]
  BY <1>1, FailKeeps DEF ExtractBundle, InPackageTry
<1>2. CASE "main" \in DOMAIN disk[args[r].src]
  <2> DEFINE bundle == [disk[args[r].src] EXCEPT !["main"] = Main(main[r].app, args[r].sel)]
  <2>1. args[r] \in Calls /\ pc[r] = "bundle"
    BY DEF PatchInv, RunInv, ExtractBundle
  <2>2. IsFile(disk[args[r].src])
    BY <2>1, CallPaths DEF PatchInv, DiskInv
  <2>3. IsFile(bundle) /\ "main" \in DOMAIN bundle /\ bundle["main"].units # {}
    BY <1>2, <2>1, <2>2, MainsOfCall, PatchAssumption DEF IsFile, Members
  <2>4. DOMAIN disk' = Paths /\ DiskInv' /\ UNCHANGED disk
    BY <1>2, KeepDisk DEF PatchInv, ExtractBundle, Keep
  <2>5. Shapes' /\ Private(r) /\ pc'[r] = "copy"
    BY <1>2, <2>1, <2>4, MoveOn, Phase DEF PatchInv, Shapes, ExtractBundle, Keep
  <2>6. tree'[r] = bundle /\ todo'[r] = args[r].sel
    BY <1>2 DEF PatchInv, Shapes, ExtractBundle
  <2>7. RunInv(r)'
    BY <1>2, <2>1, <2>3, <2>5, <2>6 DEF PatchInv, RunInv, ExtractBundle, OverwritesInput, Out
  <2>8. OwnInv'
    BY <1>2, <2>1, <2>4, <2>5, OwnKeep DEF PatchInv, ExtractBundle, Keep, Owns
  <2> QED BY <2>4, <2>5, <2>7, <2>8 DEF StepKeeps
<1> QED BY <1>1, <1>2

LEMMA CopyBridgeKeeps == ASSUME PatchInv, NEW r \in Runs, CopyBridge(r) PROVE StepKeeps(r)
<1>1. PICK b \in todo[r] :
        IF Missing(BridgePath(b))
        THEN Fail(r)
        ELSE /\ tree' = [tree EXCEPT ![r] = Over(Copied(b), @)]
             /\ todo' = [todo EXCEPT ![r] = @ \ {b}]
             /\ Goto(r, IF todo[r] = {b} THEN "clear_scratch" ELSE "copy")
             /\ UNCHANGED <<args, main, shipped>> /\ Keep
  BY DEF CopyBridge
<1>2. CASE Missing(BridgePath(b))
  BY <1>1, <1>2, FailKeeps DEF CopyBridge, InPackageTry
<1>3. CASE ~Missing(BridgePath(b))
  <2>1. args[r] \in Calls /\ pc[r] = "copy" /\ todo[r] \subseteq args[r].sel /\ b \in Bridges
    BY CallPaths DEF PatchInv, RunInv, CopyBridge
  <2>2. IsFile(tree[r]) /\ "main" \in DOMAIN tree[r] /\ tree[r]["main"].units # {}
    BY <2>1 DEF PatchInv, RunInv
  <2>3. tree'[r] = Over(Copied(b), tree[r]) /\ todo'[r] = todo[r] \ {b}
    BY <1>1, <1>3 DEF PatchInv, Shapes
  <2>4. DOMAIN Copied(b) = {b} /\ Copied(b)[b] \in {"good", "bad"} /\ b # "main"
    BY <2>1, PatchAssumption DEF Copied, Dylib
  <2>5. IsFile(tree'[r]) /\ "main" \in DOMAIN tree'[r] /\ tree'[r]["main"].units # {}
    BY <2>1, <2>2, <2>3, <2>4 DEF Over, IsFile, Members
  <2>6. DOMAIN disk' = Paths /\ DiskInv' /\ UNCHANGED disk
    BY <1>1, <1>3, KeepDisk DEF PatchInv, Keep
  <2>7. Shapes' /\ Private(r) /\ pc'[r] = IF todo[r] = {b} THEN "clear_scratch" ELSE "copy"
    BY <1>1, <1>3, <2>1, <2>6, MoveOn, Phase DEF PatchInv, Shapes, Keep
  <2>8. todo[r] = {b} => todo'[r] = {}
    BY <2>3
  <2>9. RunInv(r)'
    BY <1>1, <1>3, <2>1, <2>3, <2>5, <2>7, <2>8 DEF PatchInv, RunInv, OverwritesInput, Out
  <2>10. OwnInv'
    BY <1>1, <1>3, <2>1, <2>6, <2>7, OwnKeep DEF PatchInv, Keep, Owns
  <2> QED BY <2>6, <2>7, <2>9, <2>10 DEF StepKeeps
<1> QED BY <1>2, <1>3

LEMMA ClearScratchKeeps == ASSUME PatchInv, NEW r \in Runs, ClearScratch(r) PROVE StepKeeps(r)
<1>1. args[r] \in Calls /\ pc[r] = "clear_scratch"
  BY DEF PatchInv, RunInv, ClearScratch
<1>2. DOMAIN disk' = Paths /\ DiskInv'
  BY <1>1, CallPaths, UnlinkInv DEF PatchInv, ClearScratch
<1>3. Shapes' /\ Private(r) /\ pc'[r] = "zip"
  BY <1>1, <1>2, MoveOn, Phase DEF PatchInv, Shapes, ClearScratch, private
<1>4. RunInv(r)'
  BY <1>1, <1>3 DEF PatchInv, RunInv, ClearScratch, private, OverwritesInput, Out
<1>5. \A p \in Paths : disk'[p] # NoFile => disk[p] # NoFile
  BY DEF PatchInv, Shapes, ClearScratch, Unlink, Write
<1>6. OwnInv'
  BY <1>1, <1>3, <1>5, OwnKeep DEF PatchInv, ClearScratch, Owns
<1> QED BY <1>2, <1>3, <1>4, <1>6 DEF StepKeeps

\* The archive zip makes, whether it fails after that or not.
LEMMA ArchiveInv ==
    ASSUME PatchInv, NEW r \in Runs, pc[r] = "zip",
           Write(Scratch(r), Over(tree[r], disk[Scratch(r)]))
    PROVE  DOMAIN disk' = Paths /\ DiskInv'
<1> DEFINE archive == Over(tree[r], disk[Scratch(r)])
<1>1. args[r] \in Calls
  BY DEF PatchInv, RunInv
<1>2. IsFile(tree[r]) /\ "main" \in DOMAIN tree[r] /\ tree[r]["main"].units # {} /\ IsFile(disk[Scratch(r)])
  BY <1>1, CallPaths DEF PatchInv, RunInv, DiskInv
<1>3. IsFile(archive) /\ Patched(archive)
  BY <1>2 DEF IsFile, Patched, Over, Members
<1> QED BY <1>1, <1>3, CallPaths, WriteInv DEF PatchInv

LEMMA ZipKeeps == ASSUME PatchInv, NEW r \in Runs, Zip(r) PROVE StepKeeps(r)
<1>1. args[r] \in Calls /\ pc[r] = "zip"
  BY DEF PatchInv, RunInv, Zip
<1>2. DOMAIN disk' = Paths /\ DiskInv'
  BY <1>1, ArchiveInv DEF Zip
<1>3. Shapes' /\ Private(r) /\ pc'[r] = "inspect"
  BY <1>1, <1>2, MoveOn, Phase DEF PatchInv, Shapes, Zip, private
<1>4. RunInv(r)'
  BY <1>1, <1>3 DEF PatchInv, RunInv, Zip, private, OverwritesInput, Out
<1>5. \A p \in Paths : p # Scratch(r) => disk'[p] = disk[p]
  BY DEF PatchInv, Shapes, Zip, Write
<1>6. Owns(r, Scratch(r))' /\ Scratch(r)' = Scratch(r)
  BY <1>3 DEF Zip, private, Owns, Scratch, Temporary, Hidden, Out
<1>7. OwnInv'
  BY <1>1, <1>3, <1>5, <1>6, OwnKeep DEF PatchInv, Zip, Owns
<1> QED BY <1>2, <1>3, <1>4, <1>7 DEF StepKeeps

LEMMA InspectKeeps == ASSUME PatchInv, NEW r \in Runs, Inspect(r) PROVE StepKeeps(r)
<1>1. CASE ~Carries(Scratch(r), args[r].sel)
  BY <1>1, FailKeeps DEF Inspect, InZipTry
<1>2. CASE Carries(Scratch(r), args[r].sel)
  <2>1. Goto(r, "replace") /\ UNCHANGED private /\ Keep /\ pc[r] = "inspect" /\ pc'[r] = "replace"
    BY <1>2 DEF PatchInv, Shapes, Inspect, Goto
  <2>2. \A p \in Paths : Owns(r, p) => Owns(r, p)'
    BY <2>1 DEF Owns, private, Temporary, Scratch, Hidden, Out
  <2> QED BY <2>1, <2>2, QuietKeeps, NoTodo, Phase
<1> QED BY <1>1, <1>2

LEMMA ReplaceTemporaryKeeps == ASSUME PatchInv, NEW r \in Runs, ReplaceTemporary(r) PROVE StepKeeps(r)
<1>1. CASE Missing(Scratch(r))
  BY <1>1, FailKeeps DEF ReplaceTemporary, InPackageTry
<1>2. CASE ~Missing(Scratch(r))
  <2>1. args[r] \in Calls /\ pc[r] = "replace"
    BY DEF PatchInv, RunInv, ReplaceTemporary
  <2>2. disk' = [disk EXCEPT ![Temporary(r)] = disk[Scratch(r)], ![Scratch(r)] = NoFile]
    BY <1>2 DEF ReplaceTemporary
  <2>3. DOMAIN disk' = Paths /\ DiskInv'
    BY <2>1, <2>2, CallPaths, RenameInv DEF PatchInv
  <2>4. Shapes' /\ Private(r) /\ pc'[r] = "report"
    BY <1>2, <2>1, <2>3, MoveOn, Phase DEF PatchInv, Shapes, ReplaceTemporary, private
  <2>5. RunInv(r)'
    BY <1>2, <2>1, <2>4 DEF PatchInv, RunInv, ReplaceTemporary, private, OverwritesInput, Out
  <2>6. \A p \in Paths : p # Temporary(r) /\ disk'[p] # NoFile => disk[p] # NoFile /\ p # Scratch(r)
    BY <2>2 DEF PatchInv, Shapes
  <2>7. Owns(r, Temporary(r))'
    BY <1>2, <2>4 DEF ReplaceTemporary, private, Owns, Scratch, Temporary, Hidden, Out
  <2>8. Temporary(r)' = Temporary(r)
    BY <1>2 DEF ReplaceTemporary, private, Temporary, Hidden, Out
  <2>9. OwnInv'
    BY <1>2, <2>1, <2>4, <2>6, <2>7, <2>8, OwnKeep DEF PatchInv, ReplaceTemporary, Owns
  <2> QED BY <2>3, <2>4, <2>5, <2>9 DEF StepKeeps
<1> QED BY <1>1, <1>2

LEMMA ReportKeeps == ASSUME PatchInv, NEW r \in Runs, Report(r) PROVE StepKeeps(r)
<1>1. CASE \E b \in args[r].sel : Missing(BridgePath(b))
  BY <1>1, FailKeeps DEF Report, InPackageTry
<1>2. CASE ~\E b \in args[r].sel : Missing(BridgePath(b))
  <2>1. Goto(r, "extract_shipped") /\ UNCHANGED private /\ Keep /\ pc[r] = "report" /\ pc'[r] = "extract_shipped"
    BY <1>2 DEF PatchInv, Shapes, Report, Goto
  <2>2. \A p \in Paths : Owns(r, p) => Owns(r, p)'
    BY <2>1 DEF Owns, private, Temporary, Scratch, Hidden, Out
  <2> QED BY <2>1, <2>2, QuietKeeps, NoTodo, Phase
<1> QED BY <1>1, <1>2

LEMMA ExtractShippedKeeps == ASSUME PatchInv, NEW r \in Runs, ExtractShipped(r) PROVE StepKeeps(r)
<1>1. CASE "main" \notin DOMAIN disk[Temporary(r)]
  BY <1>1, FailKeeps DEF ExtractShipped, InPackageTry
<1>2. CASE "main" \in DOMAIN disk[Temporary(r)]
  <2>1. args[r] \in Calls /\ pc[r] = "extract_shipped"
    BY DEF PatchInv, RunInv, ExtractShipped
  <2>2. shipped'[r] = Restrict(disk[Temporary(r)], ({"main"} \cup args[r].sel) \cap DOMAIN disk[Temporary(r)])
    BY <1>2 DEF PatchInv, Shapes, ExtractShipped
  <2>3. IsFile(disk[Temporary(r)])
    BY <2>1, CallPaths DEF PatchInv, DiskInv
  <2>4. IsFile(shipped'[r])
    BY <2>2, <2>3 DEF IsFile, Members, Restrict
  <2>5. DOMAIN disk' = Paths /\ DiskInv' /\ UNCHANGED disk
    BY <1>2, KeepDisk DEF PatchInv, ExtractShipped, Keep
  <2>6. Shapes' /\ Private(r) /\ pc'[r] = "verify_artifact"
    BY <1>2, <2>1, <2>5, MoveOn, Phase DEF PatchInv, Shapes, ExtractShipped, Keep
  <2>7. RunInv(r)'
    BY <1>2, <2>1, <2>4, <2>6 DEF PatchInv, RunInv, ExtractShipped, OverwritesInput, Out
  <2>8. \A p \in Paths : Owns(r, p) => Owns(r, p)'
    BY <1>2, <2>1, <2>6 DEF ExtractShipped, Owns, Temporary, Scratch, Hidden, Out
  <2>9. OwnInv'
    BY <1>2, <2>5, <2>6, <2>8, OwnKeep DEF PatchInv, ExtractShipped, Keep
  <2> QED BY <2>5, <2>6, <2>7, <2>9 DEF StepKeeps
<1> QED BY <1>1, <1>2

LEMMA VerifyArtifactKeeps == ASSUME PatchInv, NEW r \in Runs, VerifyArtifact(r) PROVE StepKeeps(r)
<1> DEFINE accepted == /\ shipped[r]["main"] = Main(main[r].app, args[r].sel)
                       /\ \A b \in args[r].sel : GoodBridge(b, shipped[r])
<1>1. CASE ~accepted
  BY <1>1, FailKeeps DEF VerifyArtifact, InPackageTry
<1>2. CASE accepted
  <2>1. Goto(r, "publish") /\ UNCHANGED private /\ Keep /\ pc[r] = "verify_artifact" /\ pc'[r] = "publish"
    BY <1>2 DEF PatchInv, Shapes, VerifyArtifact, Goto
  <2>2. \A p \in Paths : Owns(r, p) => Owns(r, p)'
    BY <2>1 DEF Owns, private, Temporary, Scratch, Hidden, Out
  <2> QED BY <2>1, <2>2, QuietKeeps, NoTodo, Phase
<1> QED BY <1>1, <1>2

LEMMA PublishKeeps == ASSUME PatchInv, NEW r \in Runs, Publish(r) PROVE StepKeeps(r)
<1>1. CASE Missing(Temporary(r))
  BY <1>1, FailKeeps DEF Publish, InPackageTry
<1>2. CASE ~Missing(Temporary(r))
  <2>1. args[r] \in Calls /\ pc[r] = "publish"
    BY DEF PatchInv, RunInv, Publish
  <2>2. disk' = [disk EXCEPT ![Out(r)] = disk[Temporary(r)], ![Temporary(r)] = NoFile]
    BY <1>2 DEF Publish
  <2>3. DOMAIN disk' = Paths /\ DiskInv'
    BY <2>1, <2>2, CallPaths, RenameInv DEF PatchInv
  <2>4. Shapes' /\ Private(r) /\ RunInv(r)'
    BY <1>2, <2>3, EndPrivate, EndInv DEF PatchInv, Shapes, Publish
  <2>5. \A p \in Paths : p.prefixes > 0 /\ disk'[p] # NoFile => disk[p] # NoFile /\ p # Temporary(r)
    BY <2>1, <2>2, CallPaths DEF PatchInv, Shapes
  <2>6. OwnInv'
    BY <1>2, <2>1, <2>4, <2>5, OwnKeep DEF PatchInv, Publish, Owns
  <2> QED BY <2>3, <2>4, <2>6 DEF StepKeeps
<1> QED BY <1>1, <1>2

LEMMA UndoScratchKeeps == ASSUME PatchInv, NEW r \in Runs, UndoScratch(r) PROVE StepKeeps(r)
<1>1. args[r] \in Calls /\ pc[r] = "undo_scratch"
  BY DEF PatchInv, RunInv, UndoScratch
<1>2. DOMAIN disk' = Paths /\ DiskInv'
  BY <1>1, CallPaths, UnlinkInv DEF PatchInv, UndoScratch
<1>3. Shapes' /\ Private(r) /\ pc'[r] = "undo_temporary"
  BY <1>1, <1>2, MoveOn, Phase DEF PatchInv, Shapes, UndoScratch, private
<1>4. RunInv(r)'
  BY <1>1, <1>3 DEF PatchInv, RunInv, UndoScratch, private, OverwritesInput, Out
<1>5. \A p \in Paths : disk'[p] # NoFile => disk[p] # NoFile /\ p # Scratch(r)
  BY DEF PatchInv, Shapes, UndoScratch, Unlink, Write
<1>6. OwnInv'
  BY <1>1, <1>3, <1>5, OwnKeep DEF PatchInv, UndoScratch, Owns
<1> QED BY <1>2, <1>3, <1>4, <1>6 DEF StepKeeps

LEMMA UndoTemporaryKeeps == ASSUME PatchInv, NEW r \in Runs, UndoTemporary(r) PROVE StepKeeps(r)
<1>1. args[r] \in Calls /\ pc[r] = "undo_temporary"
  BY DEF PatchInv, RunInv, UndoTemporary
<1>2. DOMAIN disk' = Paths /\ DiskInv'
  BY <1>1, CallPaths, UnlinkInv DEF PatchInv, UndoTemporary
<1>3. Shapes' /\ Private(r) /\ RunInv(r)'
  BY <1>2, EndPrivate, EndInv DEF PatchInv, Shapes, UndoTemporary
<1>4. \A p \in Paths : disk'[p] # NoFile => disk[p] # NoFile /\ p # Temporary(r)
  BY DEF PatchInv, Shapes, UndoTemporary, Unlink, Write
<1>5. OwnInv'
  BY <1>1, <1>3, <1>4, OwnKeep DEF PatchInv, UndoTemporary, Owns
<1> QED BY <1>2, <1>3, <1>5 DEF StepKeeps

LEMMA ToolFailsKeeps == ASSUME PatchInv, NEW r \in Runs, ToolFails(r) PROVE StepKeeps(r)
<1>1. faults' \in 0..MaxFaults
  BY PatchAssumption DEF PatchInv, Shapes, ToolFails, Fault
<1>2. CASE UNCHANGED disk
  <2>1. DOMAIN disk' = Paths /\ DiskInv'
    BY <1>2, KeepDisk DEF PatchInv
  <2>2. Shapes' /\ Private(r) /\ RunInv(r)'
    BY <1>1, <2>1, RaiseInv DEF PatchInv, Shapes, ToolFails, Handlers
  <2>3. OwnInv'
    BY <1>2, <2>2, OwnKeep DEF PatchInv, ToolFails, Owns
  <2> QED BY <2>1, <2>2, <2>3 DEF StepKeeps
<1>3. CASE pc[r] = "zip" /\ Write(Scratch(r), Over(tree[r], disk[Scratch(r)]))
  <2>1. DOMAIN disk' = Paths /\ DiskInv'
    BY <1>3, ArchiveInv
  <2>2. Shapes' /\ Private(r) /\ RunInv(r)'
    BY <1>1, <2>1, RaiseInv DEF PatchInv, Shapes, ToolFails, Handlers
  <2>3. Goto(r, "undo_scratch") /\ UNCHANGED private
    BY <1>3, RaiseCases DEF ToolFails, InZipTry, InPackageTry
  <2>4. pc'[r] = "undo_scratch"
    BY <2>3 DEF PatchInv, Shapes, Goto
  <2>5. \A p \in Paths : p # Scratch(r) => disk'[p] = disk[p]
    BY <1>3 DEF PatchInv, Shapes, Write
  <2>6. Owns(r, Scratch(r))' /\ Scratch(r)' = Scratch(r)
    BY <2>3, <2>4 DEF private, Owns, Scratch, Temporary, Hidden, Out
  <2>7. OwnInv'
    BY <1>3, <2>2, <2>5, <2>6, OwnKeep DEF PatchInv, ToolFails, Owns
  <2> QED BY <2>1, <2>2, <2>7 DEF StepKeeps
<1> QED BY <1>2, <1>3 DEF ToolFails

LEMMA KillKeeps == ASSUME PatchInv, NEW r \in Runs, Kill(r) PROVE StepKeeps(r)
<1>1. faults' \in 0..MaxFaults
  BY PatchAssumption DEF PatchInv, Shapes, Kill, Fault
<1>2. DOMAIN disk' = Paths /\ DiskInv'
  BY KeepDisk DEF PatchInv, Kill
<1>3. Shapes' /\ Private(r) /\ RunInv(r)'
  BY <1>1, <1>2, EndPrivate, EndInv DEF PatchInv, Shapes, Kill
<1>4. \A p \in Paths : Owns(r, p) => p \in orphans'
  BY DEF Kill, Owns
<1>5. OwnInv'
  BY <1>3, <1>4, OwnKeep DEF PatchInv, Kill
<1> QED BY <1>2, <1>3, <1>5 DEF StepKeeps

LEMMA ChangeBridgeKeeps == ASSUME PatchInv, ChangeBridge PROVE PatchInv'
<1>0. PICK b \in Bridges : \E f \in {NoFile, Dylib(b, "good"), Dylib(b, "bad")} : Write(BridgePath(b), f)
  BY DEF ChangeBridge
<1>1. PICK f \in {NoFile, Dylib(b, "good"), Dylib(b, "bad")} : Write(BridgePath(b), f)
  BY <1>0
<1>2. IsFile(f) /\ Patched(f)
  BY <1>1, NoFileIsFile, PatchAssumption DEF IsFile, Members, Dylib, Patched
<1>3. DOMAIN disk' = Paths /\ DiskInv'
  BY <1>1, <1>2, GivenPaths, WriteInv DEF PatchInv
<1>4. UNCHANGED <<pc, args, main, tree, shipped, todo, result, orphans>> /\ faults' \in 0..MaxFaults
  BY PatchAssumption DEF ChangeBridge, private, PatchInv, Shapes, Fault
<1>5. Shapes' /\ \A r \in Runs : RunInv(r)'
  BY <1>3, <1>4 DEF PatchInv, Shapes, RunInv, OverwritesInput, Out
<1>6. \A p \in Paths : p.prefixes > 0 => disk'[p] = disk[p]
  BY <1>1, GivenPaths DEF PatchInv, Shapes, Write
<1>7. \A r \in Runs : \A p \in Paths : Owns(r, p)' = Owns(r, p)
  BY <1>4 DEF Owns, Temporary, Scratch, Out
<1>8. OwnInv'
  BY <1>4, <1>6, <1>7 DEF PatchInv, OwnInv, Missing
<1> QED BY <1>3, <1>5, <1>8 DEF PatchInv

-----------------------------------------------------------------------------
LEMMA InitInv == Init => PatchInv
<1> SUFFICES ASSUME Init PROVE PatchInv
  OBVIOUS
<1>1. \A p \in Paths : IsFile(disk[p]) /\ (p \notin DOMAIN Given => Patched(disk[p])) /\ (p.prefixes > 0 => Missing(p))
  <2> SUFFICES ASSUME NEW p \in Paths
               PROVE  IsFile(disk[p]) /\ (p \notin DOMAIN Given => Patched(disk[p])) /\ (p.prefixes > 0 => Missing(p))
    OBVIOUS
  <2>1. CASE p \in DOMAIN Given
    BY <2>1, FileAssumption, GivenPaths DEF Init
  <2>2. CASE p \notin DOMAIN Given /\ \E b \in Bridges : p = BridgePath(b)
    <3>1. PICK b \in Bridges : p = BridgePath(b)
      BY <2>2
    <3>2. disk[p] = Dylib(b, "good")
      BY <2>2, <3>1 DEF Init, BridgePath
    <3> QED BY <3>1, <3>2, PatchAssumption, GivenPaths DEF IsFile, Members, Dylib, Patched
  <2>3. CASE p \notin DOMAIN Given /\ ~\E b \in Bridges : p = BridgePath(b)
    BY <2>3, NoFileIsFile DEF Init, Missing
  <2> QED BY <2>1, <2>2, <2>3
<1>2. Shapes
  BY PatchAssumption, Phase DEF Init, Shapes
<1>3. \A r \in Runs : RunInv(r)
  BY NoFileIsFile DEF Init, RunInv
<1> QED BY <1>1, <1>2, <1>3 DEF PatchInv, DiskInv, OwnInv

LEMMA RunKeeps ==
    ASSUME PatchInv, NEW r \in Runs, Invoke(r) \/ Refuse(r) \/ Step(r) \/ ToolFails(r) \/ Kill(r)
    PROVE  StepKeeps(r)
  BY InvokeKeeps, RefuseKeeps, FindBridgesKeeps, CheckInputsKeeps, ExtractBundleKeeps, CopyBridgeKeeps,
     ClearScratchKeeps, ZipKeeps, InspectKeeps, ReplaceTemporaryKeeps, ReportKeeps,
     ExtractShippedKeeps, VerifyArtifactKeeps, PublishKeeps, UndoScratchKeeps, UndoTemporaryKeeps,
     ToolFailsKeeps, KillKeeps DEF Step

LEMMA NextInv == PatchInv /\ [Next]_vars => PatchInv'
<1> SUFFICES ASSUME PatchInv, [Next]_vars PROVE PatchInv'
  OBVIOUS
<1>1. ASSUME NEW r \in Runs, Invoke(r) \/ Refuse(r) \/ Step(r) \/ ToolFails(r) \/ Kill(r) PROVE PatchInv'
  BY <1>1, RunKeeps, OthersKeep DEF PatchInv, StepKeeps
<1>2. CASE ChangeBridge
  BY <1>2, ChangeBridgeKeeps
<1>3. CASE UNCHANGED vars
  <2>1. UNCHANGED <<disk, pc, args, main, tree, shipped, todo, result, orphans, faults>>
    BY <1>3 DEF vars, private
  <2>2. Shapes' /\ DiskInv' /\ \A r \in Runs : RunInv(r)'
    BY <2>1 DEF PatchInv, Shapes, RunInv, DiskInv, OverwritesInput, Out
  <2>3. \A r \in Runs : \A p \in Paths : Owns(r, p)' = Owns(r, p)
    BY <2>1 DEF Owns, Temporary, Scratch, Out
  <2>4. OwnInv'
    BY <2>1, <2>3 DEF PatchInv, OwnInv, Missing
  <2> QED BY <2>2, <2>4 DEF PatchInv
<1> QED BY <1>1, <1>2, <1>3 DEF Next

\* Files, runs and their temporaries, for runs with any outputs.
THEOREM PatchInvariance == Spec => []PatchInv
<1> QED BY InitInv, NextInv, PTL DEF Spec

\* Every file is made of known members and every run is at a step of patch_ipa.
THEOREM PatchTypeCorrect == Spec => []PatchTypeOK
<1>1. PatchInv => PatchTypeOK
  BY FileAssumption DEF PatchInv, PatchTypeOK, Shapes, RunInv, DiskInv, Steps
<1> QED BY <1>1, PatchInvariance, PTL

\* A hidden file belongs to a run that is under way or was killed: the handlers of
\* patch_ipa and package_ipa leave none, whichever step fails.
THEOREM TemporariesAreOwned == Spec => []OwnedTemporaries
<1>1. PatchInv => OwnedTemporaries
  BY DEF PatchInv, OwnInv, OwnedTemporaries, Owns
<1> QED BY <1>1, PatchInvariance, PTL

-----------------------------------------------------------------------------
\* The files a step of a run can change.
Touches(r) ==
    \A p \in Paths : disk'[p] # disk[p] =>
        p \in {Temporary(r), Scratch(r)} \/ (Publish(r) /\ p = Out(r))

LEMMA RunTouches ==
    ASSUME Shapes, NEW r \in Runs, Invoke(r) \/ Refuse(r) \/ Step(r) \/ ToolFails(r) \/ Kill(r)
    PROVE  Touches(r)
<1>1. UNCHANGED disk => Touches(r)
  BY DEF Touches
<1>2. Unlink(Temporary(r)) \/ Unlink(Scratch(r)) => Touches(r)
  BY DEF Shapes, Touches, Unlink, Write
<1>3. CASE Invoke(r) \/ Refuse(r) \/ ToolFails(r) \/ Kill(r)
  BY <1>1, <1>3 DEF Invoke, Refuse, ToolFails, Kill, Shapes, Touches, Write
<1>4. CASE FindBridges(r) \/ ExtractBundle(r) \/ Inspect(r) \/ Report(r) \/ ExtractShipped(r) \/ VerifyArtifact(r)
  BY <1>1, <1>4 DEF FindBridges, ExtractBundle, Inspect, Report, ExtractShipped, VerifyArtifact, Fail, Keep
<1>5. CASE CopyBridge(r)
  BY <1>1, <1>5 DEF CopyBridge, Fail, Keep
<1>6. CASE CheckInputs(r) \/ ClearScratch(r) \/ UndoScratch(r) \/ UndoTemporary(r)
  BY <1>1, <1>2, <1>6 DEF CheckInputs, ClearScratch, UndoScratch, UndoTemporary, Fail
<1>7. CASE Zip(r)
  BY <1>7 DEF Shapes, Touches, Zip, Write
<1>8. CASE ReplaceTemporary(r)
  BY <1>1, <1>8 DEF Shapes, Touches, ReplaceTemporary, Fail
<1>9. CASE Publish(r)
  BY <1>1, <1>9 DEF Shapes, Touches, Publish, Fail
<1> QED BY <1>3, <1>4, <1>5, <1>6, <1>7, <1>8, <1>9 DEF Step

\* Whoever moves is the run whose program counter has changed.
LEMMA Mover ==
    ASSUME PatchInv, Next, NEW r \in Runs, pc'[r] # pc[r]
    PROVE  Invoke(r) \/ Refuse(r) \/ Step(r) \/ ToolFails(r) \/ Kill(r)
<1>1. ~ChangeBridge
  BY DEF ChangeBridge
<1>2. PICK s \in Runs : Invoke(s) \/ Refuse(s) \/ Step(s) \/ ToolFails(s) \/ Kill(s)
  BY <1>1 DEF Next
<1>3. s = r
  BY <1>2, RunKeeps DEF StepKeeps, Private
<1> QED BY <1>2, <1>3

\* No step of a run, successful or not, changes the IPA or the dylibs it reads
\* ("refusing to overwrite the source IPA", patch_ipa).
THEOREM InputsArePreserved == Spec => InputsPreserved
<1>1. ASSUME PatchInv, [Next]_vars, NEW r \in Runs, pc[r] # "idle", pc'[r] # pc[r]
      PROVE  /\ disk'[args[r].src] = disk[args[r].src]
             /\ \A b \in args[r].sel : disk'[BridgePath(b)] = disk[BridgePath(b)]
  <2>1. Invoke(r) \/ Refuse(r) \/ Step(r) \/ ToolFails(r) \/ Kill(r)
    BY <1>1, Mover DEF vars
  <2>2. Touches(r) /\ args[r] \in Calls
    BY <1>1, <2>1, RunTouches DEF PatchInv, RunInv
  <2>3. Publish(r) => ~OverwritesInput(r)
    BY <1>1 DEF PatchInv, RunInv, Publish
  <2> QED BY <2>2, <2>3, CallPaths, GivenPaths DEF Touches, OverwritesInput
<1>2. PatchInv /\ [Next]_vars =>
        \A r \in Runs : pc[r] # "idle" /\ pc'[r] # pc[r] =>
          /\ disk'[args[r].src] = disk[args[r].src]
          /\ \A b \in args[r].sel : disk'[BridgePath(b)] = disk[BridgePath(b)]
  BY <1>1
<1> QED BY <1>2, PatchInvariance, PTL DEF Spec, InputsPreserved

-----------------------------------------------------------------------------
(***************************************************************************)
(* What npa-patch publishes, when no two runs have one output              *)
(* (OutputsApart).                                                         *)
(***************************************************************************)
\* What the given IPAs hold is never changed: an output is not one of them.
GivenKept == \A p \in DOMAIN Given : disk[p] = Given[p]

Bundle(r, done) ==
    /\ tree[r] = [m \in {"main"} \cup done |-> tree[r][m]]
    /\ tree[r]["main"] = Main(main[r].app, args[r].sel)

Packaged == {"report", "extract_shipped", "verify_artifact", "publish"}
Assembled == {"clear_scratch", "zip", "inspect", "replace"} \cup Packaged

\* The bundle a run assembles, and the file that holds it.
ApartRun(r) ==
    /\ pc[r] # "idle" =>
           /\ \E i \in Invocations[r] : Out(r) = OutputOf(i) /\ args[r].src = i.src /\ args[r].sel = i.sel
           /\ DOMAIN Given[args[r].src] = {"main"}
    /\ pc[r] = "copy" => Bundle(r, args[r].sel \ todo[r])
    /\ pc[r] \in Assembled => Bundle(r, args[r].sel)
    /\ pc[r] = "zip" => disk[Scratch(r)] = NoFile
    /\ pc[r] \in {"inspect", "replace"} => disk[Scratch(r)] = tree[r]
    /\ pc[r] \in Packaged => disk[Temporary(r)] = tree[r] /\ disk[Scratch(r)] = NoFile
    /\ pc[r] \in {"verify_artifact", "publish"} => shipped[r] = tree[r]
    /\ pc[r] = "publish" => \A b \in args[r].sel : tree[r][b] = "good"

ApartInv == PatchInv /\ GivenKept /\ \A r \in Runs : ApartRun(r)

-----------------------------------------------------------------------------
LEMMA HiddenDistinct ==
    ASSUME NEW p \in Paths, NEW q \in Paths, p # q PROVE Hidden(p) # Hidden(q)
<1> SUFFICES ASSUME Hidden(p) = Hidden(q) PROVE p = q
  OBVIOUS
<1>1. p.prefixes \in Int /\ q.prefixes \in Int
  BY DEF Paths, MaxPrefixes
<1>2. Hidden(p).prefixes = p.prefixes + 1 /\ Hidden(q).prefixes = q.prefixes + 1
  BY DEF Paths, Hidden
<1>3. Hidden(p).base = p.base /\ Hidden(q).base = q.base
  BY DEF Paths, Hidden
<1>4. p.prefixes = q.prefixes /\ p.base = q.base
  BY <1>1, <1>2, <1>3
<1> QED BY <1>4 DEF Paths

\* Two runs that are under way write to different temporaries.
LEMMA Separate ==
    ASSUME OutputsApart, ApartInv, NEW r \in Runs, NEW s \in Runs \ {r}, pc[r] # "idle", pc[s] # "idle"
    PROVE  {Temporary(r), Scratch(r), Out(r)} \cap {Temporary(s), Scratch(s)} = {}
<1>1. Out(r) # Out(s)
  <2>1. PICK i \in Invocations[r] : Out(r) = OutputOf(i)
    BY DEF ApartInv, ApartRun
  <2>2. PICK j \in Invocations[s] : Out(s) = OutputOf(j)
    BY DEF ApartInv, ApartRun
  <2> QED BY <2>1, <2>2 DEF OutputsApart
<1>2. args[r] \in Calls /\ args[s] \in Calls
  BY DEF ApartInv, PatchInv, RunInv
<1>3. Temporary(r) # Temporary(s)
  BY <1>1, <1>2, CallPaths, HiddenDistinct DEF Temporary
<1>4. Scratch(r) # Scratch(s)
  BY <1>2, <1>3, CallPaths, HiddenDistinct DEF Scratch
<1> QED BY <1>2, <1>3, <1>4, CallPaths

\* The other runs are not disturbed by what one of them does.
LEMMA OthersApart ==
    ASSUME OutputsApart, ApartInv, NEW r \in Runs, Private(r), Touches(r),
           pc[r] = "idle" => UNCHANGED disk
    PROVE  \A s \in Runs \ {r} : ApartRun(s)'
<1> SUFFICES ASSUME NEW s \in Runs \ {r} PROVE ApartRun(s)'
  OBVIOUS
<1>1. /\ pc'[s] = pc[s] /\ args'[s] = args[s] /\ main'[s] = main[s] /\ tree'[s] = tree[s]
      /\ shipped'[s] = shipped[s] /\ todo'[s] = todo[s] /\ ApartRun(s)
  BY DEF Private, ApartInv
<1>2. Temporary(s)' = Temporary(s) /\ Scratch(s)' = Scratch(s) /\ Out(s)' = Out(s)
  BY <1>1 DEF Temporary, Scratch, Out
<1>3. CASE pc[s] = "idle"
  BY <1>1, <1>3 DEF ApartRun, Assembled, Packaged
<1>4. CASE pc[s] # "idle"
  <2>1. Temporary(s) \in Paths /\ Scratch(s) \in Paths
    BY <1>4, CallPaths DEF ApartInv, PatchInv, RunInv
  <2>2. disk'[Temporary(s)] = disk[Temporary(s)] /\ disk'[Scratch(s)] = disk[Scratch(s)]
    BY <1>4, <2>1, Separate DEF Touches
  <2>3. \A done : Bundle(s, done)' <=> Bundle(s, done)
    BY <1>1 DEF Bundle
  <2> QED BY <1>1, <1>2, <2>2, <2>3 DEF ApartRun, Bundle
<1> QED BY <1>3, <1>4

\* No run writes over a given IPA: it would be its own source, which it refuses.
LEMMA GivenStays ==
    ASSUME OutputsApart, ApartInv, NEW r \in Runs, Touches(r), pc[r] = "idle" => UNCHANGED disk
    PROVE  GivenKept'
<1>1. CASE pc[r] = "idle"
  BY <1>1 DEF ApartInv, GivenKept
<1>2. CASE pc[r] # "idle"
  <2>1. args[r] \in Calls
    BY <1>2 DEF ApartInv, PatchInv, RunInv
  <2>2. Publish(r) => Out(r) \notin DOMAIN Given
    BY <1>2 DEF OutputsApart, ApartInv, ApartRun, PatchInv, RunInv, Publish, OverwritesInput
  <2>3. Temporary(r) \notin DOMAIN Given /\ Scratch(r) \notin DOMAIN Given
    BY <2>1, CallPaths
  <2> QED BY <2>2, <2>3, GivenPaths DEF Touches, ApartInv, GivenKept
<1> QED BY <1>1, <1>2

-----------------------------------------------------------------------------
\* A step that ends a run, or enters a handler.
LEMMA LeftApart ==
    ASSUME ApartInv, NEW r \in Runs, pc[r] # "idle", pc'[r] \in {"undo_scratch", "undo_temporary"},
           UNCHANGED args
    PROVE  ApartRun(r)'
  BY DEF ApartInv, ApartRun, Assembled, Packaged, Out

LEMMA IdleApart ==
    ASSUME NEW r \in Runs, pc'[r] = "idle" PROVE ApartRun(r)'
  BY DEF ApartRun, Assembled, Packaged

LEMMA RaiseApart ==
    ASSUME ApartInv, NEW r \in Runs, Raise(r), pc[r] # "idle" PROVE ApartRun(r)'
<1>1. CASE End(r, "failed")
  BY <1>1, IdleApart, EndPrivate DEF ApartInv, PatchInv
<1>2. CASE ~End(r, "failed")
  <2>1. pc'[r] \in {"undo_scratch", "undo_temporary"} /\ UNCHANGED args
    BY <1>2, RaiseCases DEF Goto, private, ApartInv, PatchInv, Shapes
  <2> QED BY <2>1, LeftApart
<1> QED BY <1>1, <1>2

LEMMA FailApart ==
    ASSUME ApartInv, NEW r \in Runs, Fail(r), pc[r] # "idle" PROVE ApartRun(r)'
  BY RaiseApart DEF Fail

LEMMA InvokeApart ==
    ASSUME OutputsApart, ApartInv, NEW r \in Runs, Invoke(r) PROVE ApartRun(r)'
<1>1. PICK i \in Invocations[r] :
        /\ args' = [args EXCEPT ![r] =
                      [i EXCEPT !.out = IF @ = Null THEN DefaultOutputName(i.src, i.sel) ELSE @]]
        /\ "main" \in DOMAIN disk[i.src] /\ Acceptable(disk[i.src]["main"])
  BY DEF Invoke
<1>2. /\ i.src \in Paths
      /\ i \in [src : [prefixes : {0}, base : BaseNames],
                 out : [prefixes : {0}, base : Names] \cup {Null}, sel : Selections]
  BY PatchAssumption DEF Paths, MaxPrefixes
<1>3. i.src \in DOMAIN Given
  BY <1>1, <1>2 DEF ApartInv, PatchInv, DiskInv, Patched, Acceptable
<1>4. DOMAIN Given[i.src] = {"main"}
  BY <1>1, <1>3 DEF OutputsApart, ApartInv, GivenKept
<1>5. args'[r] = [i EXCEPT !.out = OutputOf(i)]
  BY <1>1 DEF ApartInv, PatchInv, Shapes, OutputOf
<1>6. Out(r)' = OutputOf(i) /\ args'[r].src = i.src /\ args'[r].sel = i.sel
  BY <1>2, <1>5 DEF Out
<1>7. pc'[r] = "find_bridges"
  BY DEF Invoke, Goto, ApartInv, PatchInv, Shapes
<1> QED BY <1>4, <1>6, <1>7 DEF ApartRun, Assembled, Packaged

\* A step that keeps the run's invocation and its bundle.
LEMMA Advance ==
    ASSUME ApartInv, NEW r \in Runs, NEW l, Goto(r, l), pc[r] # "idle", UNCHANGED <<args, main, tree>>
    PROVE  /\ pc'[r] = l
           /\ pc[r] \in Assembled => Bundle(r, args[r].sel)'
           /\ Temporary(r)' = Temporary(r) /\ Scratch(r)' = Scratch(r) /\ Out(r)' = Out(r)
           /\ \E i \in Invocations[r] : Out(r)' = OutputOf(i) /\ args'[r].src = i.src /\ args'[r].sel = i.sel
           /\ DOMAIN Given[args'[r].src] = {"main"}
  BY DEF ApartInv, PatchInv, Shapes, Goto, ApartRun, Bundle, Temporary, Scratch, Out

LEMMA FindBridgesApart == ASSUME ApartInv, NEW r \in Runs, FindBridges(r) PROVE ApartRun(r)'
<1>1. CASE Fail(r)
  BY <1>1, FailApart DEF FindBridges
<1>2. CASE ~Fail(r)
  BY <1>2, Advance DEF FindBridges, private, ApartRun, Assembled, Packaged
<1> QED BY <1>1, <1>2

LEMMA CheckInputsApart == ASSUME ApartInv, NEW r \in Runs, CheckInputs(r) PROVE ApartRun(r)'
<1>1. CASE Fail(r)
  BY <1>1, FailApart DEF CheckInputs
<1>2. CASE ~Fail(r)
  BY <1>2, Advance DEF CheckInputs, private, ApartRun, Assembled, Packaged
<1> QED BY <1>1, <1>2

LEMMA ExtractBundleApart == ASSUME ApartInv, NEW r \in Runs, ExtractBundle(r) PROVE ApartRun(r)'
<1>1. CASE Fail(r)
  BY <1>1, FailApart DEF ExtractBundle
<1>2. CASE ~Fail(r)
  <2>1. /\ tree' = [tree EXCEPT ![r] = [disk[args[r].src] EXCEPT !["main"] = Main(main[r].app, args[r].sel)]]
        /\ todo' = [todo EXCEPT ![r] = args[r].sel]
        /\ pc'[r] = "copy" /\ UNCHANGED <<args, main>> /\ pc[r] = "bundle"
    BY <1>2 DEF ExtractBundle, Goto, ApartInv, PatchInv, Shapes
  <2>2. /\ \E i \in Invocations[r] : Out(r) = OutputOf(i) /\ args[r].src = i.src /\ args[r].sel = i.sel
        /\ DOMAIN Given[args[r].src] = {"main"} /\ disk[args[r].src] = Given[args[r].src]
    BY <2>1 DEF ApartInv, ApartRun, GivenKept, PatchInv, RunInv
  <2>3. tree'[r] = [m \in {"main"} |-> Main(main[r].app, args[r].sel)] /\ todo'[r] = args[r].sel
    BY <2>1, <2>2 DEF ApartInv, PatchInv, Shapes
  <2>4. {"main"} \cup (args'[r].sel \ todo'[r]) = {"main"}
    BY <2>1, <2>3
  <2>5. Bundle(r, args[r].sel \ todo[r])'
    BY <2>1, <2>3, <2>4 DEF Bundle
  <2> QED BY <2>1, <2>2, <2>5 DEF ApartRun, Assembled, Packaged, Out
<1> QED BY <1>1, <1>2

LEMMA CopyBridgeApart == ASSUME ApartInv, NEW r \in Runs, CopyBridge(r) PROVE ApartRun(r)'
<1>1. CASE Fail(r)
  BY <1>1, FailApart DEF CopyBridge
<1>2. CASE ~Fail(r)
  <2>1. PICK b \in todo[r] :
          /\ tree' = [tree EXCEPT ![r] = Over(Copied(b), tree[r])]
          /\ todo' = [todo EXCEPT ![r] = todo[r] \ {b}]
          /\ Goto(r, IF todo[r] = {b} THEN "clear_scratch" ELSE "copy")
          /\ UNCHANGED <<args, main, shipped>> /\ pc[r] = "copy"
    BY <1>2 DEF CopyBridge
  <2>2. args[r] \in Calls /\ todo[r] \subseteq args[r].sel /\ args[r].sel \subseteq Bridges /\ "main" \notin Bridges
    BY <2>1, CallPaths, PatchAssumption DEF ApartInv, PatchInv, RunInv
  <2>3. Bundle(r, args[r].sel \ todo[r])
    BY <2>1 DEF ApartInv, ApartRun
  <2>4. DOMAIN Copied(b) = {b}
    BY DEF Copied, Dylib
  <2>5. DOMAIN tree[r] = {"main"} \cup (args[r].sel \ todo[r])
    BY <2>3 DEF Bundle
  <2>6. tree'[r] = Over(Copied(b), tree[r]) /\ todo'[r] = todo[r] \ {b}
    BY <2>1 DEF ApartInv, PatchInv, Shapes
  <2>7. DOMAIN tree'[r] = {"main"} \cup (args[r].sel \ todo'[r])
    BY <2>1, <2>2, <2>4, <2>5, <2>6 DEF Over
  <2>8. tree'[r]["main"] = tree[r]["main"]
    BY <2>2, <2>4, <2>5, <2>6 DEF Over
  <2>9. tree'[r] = [m \in DOMAIN tree'[r] |-> tree'[r][m]]
    BY <2>6 DEF Over
  <2>10. Bundle(r, args[r].sel \ todo[r])'
    BY <2>1, <2>3, <2>7, <2>8, <2>9 DEF Bundle
  <2>11. todo[r] = {b} => args[r].sel \ todo'[r] = args[r].sel
    BY <2>6
  <2>12. todo[r] = {b} => Bundle(r, args[r].sel)'
    BY <2>1, <2>10, <2>11
  <2>13. pc'[r] = IF todo[r] = {b} THEN "clear_scratch" ELSE "copy"
    BY <2>1 DEF Goto, ApartInv, PatchInv, Shapes
  <2> QED BY <2>1, <2>10, <2>12, <2>13 DEF ApartInv, ApartRun, Assembled, Packaged, Out
<1> QED BY <1>1, <1>2

LEMMA ClearScratchApart == ASSUME ApartInv, NEW r \in Runs, ClearScratch(r) PROVE ApartRun(r)'
<1>1. pc[r] = "clear_scratch" /\ Unlink(Scratch(r)) /\ UNCHANGED <<args, main, tree>> /\ Goto(r, "zip")
  BY DEF ClearScratch, private
<1>2. Scratch(r) \in Paths
  BY <1>1, CallPaths DEF ApartInv, PatchInv, RunInv
<1>3. disk'[Scratch(r)] = NoFile
  BY <1>1, <1>2 DEF Unlink, Write, ApartInv, PatchInv, Shapes
<1> QED BY <1>1, <1>3, Advance DEF ApartRun, Assembled, Packaged

LEMMA ZipApart == ASSUME ApartInv, NEW r \in Runs, Zip(r) PROVE ApartRun(r)'
<1>1. pc[r] = "zip" /\ Write(Scratch(r), Over(tree[r], disk[Scratch(r)])) /\ Goto(r, "inspect")
      /\ UNCHANGED <<args, main, tree>>
  BY DEF Zip, private
<1>2. disk[Scratch(r)] = NoFile /\ tree[r] = [m \in {"main"} \cup args[r].sel |-> tree[r][m]]
  BY <1>1 DEF ApartInv, ApartRun, Bundle, Assembled
<1>3. Over(tree[r], NoFile) = tree[r]
  <2>1. DOMAIN tree[r] \cup DOMAIN NoFile = DOMAIN tree[r]
    BY DEF NoFile
  <2>2. Over(tree[r], NoFile) = [m \in DOMAIN tree[r] |-> tree[r][m]]
    BY <2>1 DEF Over
  <2> QED BY <1>2, <2>2
<1>4. Scratch(r) \in Paths
  BY <1>1, CallPaths DEF ApartInv, PatchInv, RunInv
<1>5. disk'[Scratch(r)] = tree[r]
  BY <1>1, <1>2, <1>3, <1>4 DEF Write, ApartInv, PatchInv, Shapes
<1> QED BY <1>1, <1>5, Advance DEF ApartRun, Assembled, Packaged

LEMMA InspectApart == ASSUME ApartInv, NEW r \in Runs, Inspect(r) PROVE ApartRun(r)'
<1>1. CASE Fail(r)
  BY <1>1, FailApart DEF Inspect
<1>2. CASE ~Fail(r)
  <2>1. pc[r] = "inspect" /\ Goto(r, "replace") /\ UNCHANGED <<args, main, tree, disk>>
    BY <1>2 DEF Inspect, Keep, private
  <2>2. disk[Scratch(r)] = tree[r]
    BY <2>1 DEF ApartInv, ApartRun, Packaged
  <2> QED BY <2>1, <2>2, Advance DEF ApartRun, Assembled, Packaged
<1> QED BY <1>1, <1>2

LEMMA ReplaceTemporaryApart == ASSUME ApartInv, NEW r \in Runs, ReplaceTemporary(r) PROVE ApartRun(r)'
<1>1. CASE Fail(r)
  BY <1>1, FailApart DEF ReplaceTemporary
<1>2. CASE ~Fail(r)
  <2>1. pc[r] = "replace" /\ Goto(r, "report") /\ UNCHANGED <<args, main, tree>>
        /\ disk' = [disk EXCEPT ![Temporary(r)] = disk[Scratch(r)], ![Scratch(r)] = NoFile]
    BY <1>2 DEF ReplaceTemporary, private
  <2>2. disk[Scratch(r)] = tree[r]
    BY <2>1 DEF ApartInv, ApartRun
  <2>3. Scratch(r) \in Paths /\ Temporary(r) \in Paths /\ Scratch(r) # Temporary(r)
    BY <2>1, CallPaths DEF ApartInv, PatchInv, RunInv
  <2>4. disk'[Temporary(r)] = tree[r] /\ disk'[Scratch(r)] = NoFile
    BY <2>1, <2>2, <2>3 DEF ApartInv, PatchInv, Shapes
  <2>5. pc'[r] = "report" /\ tree'[r] = tree[r] /\ Temporary(r)' = Temporary(r) /\ Scratch(r)' = Scratch(r)
    BY <2>1, Advance
  <2> QED BY <2>1, <2>4, <2>5, Advance DEF ApartRun, Assembled, Packaged
<1> QED BY <1>1, <1>2

LEMMA ReportApart == ASSUME ApartInv, NEW r \in Runs, Report(r) PROVE ApartRun(r)'
<1>1. CASE Fail(r)
  BY <1>1, FailApart DEF Report
<1>2. CASE ~Fail(r)
  <2>1. pc[r] = "report" /\ Goto(r, "extract_shipped") /\ UNCHANGED <<args, main, tree, disk>>
    BY <1>2 DEF Report, Keep, private
  <2>2. disk[Temporary(r)] = tree[r] /\ disk[Scratch(r)] = NoFile
    BY <2>1 DEF ApartInv, ApartRun, Packaged
  <2> QED BY <2>1, <2>2, Advance DEF ApartRun, Assembled, Packaged
<1> QED BY <1>1, <1>2

LEMMA ExtractShippedApart == ASSUME ApartInv, NEW r \in Runs, ExtractShipped(r) PROVE ApartRun(r)'
<1>1. CASE Fail(r)
  BY <1>1, FailApart DEF ExtractShipped
<1>2. CASE ~Fail(r)
  <2>1. /\ pc[r] = "extract_shipped" /\ Goto(r, "verify_artifact")
        /\ shipped' = [shipped EXCEPT ![r] = Restrict(disk[Temporary(r)],
                          ({"main"} \cup args[r].sel) \cap DOMAIN disk[Temporary(r)])]
        /\ UNCHANGED <<args, main, tree, disk>>
    BY <1>2 DEF ExtractShipped, Keep
  <2>2. /\ disk[Temporary(r)] = tree[r] /\ disk[Scratch(r)] = NoFile
        /\ tree[r] = [m \in {"main"} \cup args[r].sel |-> tree[r][m]]
    BY <2>1 DEF ApartInv, ApartRun, Bundle, Packaged, Assembled
  <2>3. ({"main"} \cup args[r].sel) \cap DOMAIN tree[r] = {"main"} \cup args[r].sel
    BY <2>2
  <2>4. Restrict(tree[r], {"main"} \cup args[r].sel) = [m \in {"main"} \cup args[r].sel |-> tree[r][m]]
    BY DEF Restrict
  <2>5. shipped'[r] = tree[r]
    BY <2>1, <2>2, <2>3, <2>4 DEF ApartInv, PatchInv, Shapes
  <2> QED BY <2>1, <2>2, <2>5, Advance DEF ApartRun, Assembled, Packaged
<1> QED BY <1>1, <1>2

LEMMA VerifyArtifactApart == ASSUME ApartInv, NEW r \in Runs, VerifyArtifact(r) PROVE ApartRun(r)'
<1>1. CASE Fail(r)
  BY <1>1, FailApart DEF VerifyArtifact
<1>2. CASE ~Fail(r)
  <2>1. /\ pc[r] = "verify_artifact" /\ Goto(r, "publish") /\ UNCHANGED private /\ Keep
        /\ \A b \in args[r].sel : GoodBridge(b, shipped[r])
    BY <1>2 DEF VerifyArtifact
  <2>2. shipped[r] = tree[r] /\ disk[Temporary(r)] = tree[r] /\ disk[Scratch(r)] = NoFile
    BY <2>1 DEF ApartInv, ApartRun, Packaged
  <2>3. \A b \in args[r].sel : tree[r][b] = "good"
    BY <2>1, <2>2 DEF GoodBridge
  <2> QED BY <2>1, <2>2, <2>3, Advance DEF private, Keep, ApartRun, Assembled, Packaged
<1> QED BY <1>1, <1>2

LEMMA PublishApart == ASSUME ApartInv, NEW r \in Runs, Publish(r) PROVE ApartRun(r)'
<1>1. CASE Fail(r)
  BY <1>1, FailApart DEF Publish
<1>2. CASE ~Fail(r)
  <2>1. End(r, "published")
    BY <1>2 DEF Publish
  <2> QED BY <2>1, EndPrivate, IdleApart DEF ApartInv, PatchInv
<1> QED BY <1>1, <1>2

LEMMA HandlersApart ==
    ASSUME ApartInv, NEW r \in Runs, UndoScratch(r) \/ UndoTemporary(r) \/ Refuse(r) \/ Kill(r) \/ ToolFails(r)
    PROVE  ApartRun(r)'
<1>1. CASE UndoScratch(r)
  <2>1. pc[r] # "idle" /\ pc'[r] = "undo_temporary" /\ UNCHANGED args
    BY <1>1 DEF UndoScratch, private, Goto, ApartInv, PatchInv, Shapes
  <2> QED BY <2>1, LeftApart
<1>2. CASE UndoTemporary(r) \/ Refuse(r) \/ Kill(r)
  <2>1. \E how \in {"published", "failed", "killed"} : End(r, how)
    BY <1>2 DEF UndoTemporary, Refuse, Kill
  <2> QED BY <2>1, EndPrivate, IdleApart DEF ApartInv, PatchInv
<1>3. CASE ToolFails(r)
  BY <1>3, RaiseApart DEF ToolFails
<1> QED BY <1>1, <1>2, <1>3

LEMMA RunApart ==
    ASSUME OutputsApart, ApartInv, NEW r \in Runs,
           Invoke(r) \/ Refuse(r) \/ Step(r) \/ ToolFails(r) \/ Kill(r)
    PROVE  ApartRun(r)' /\ GivenKept' /\ \A s \in Runs \ {r} : ApartRun(s)'
<1>1. ApartRun(r)'
  BY InvokeApart, FindBridgesApart, CheckInputsApart, ExtractBundleApart, CopyBridgeApart,
     ClearScratchApart, ZipApart, InspectApart, ReplaceTemporaryApart, ReportApart,
     ExtractShippedApart, VerifyArtifactApart, PublishApart, HandlersApart DEF Step
<1>2. Touches(r) /\ Private(r)
  BY RunTouches, RunKeeps DEF ApartInv, PatchInv, StepKeeps
<1>3. pc[r] = "idle" => UNCHANGED disk
  BY DEF Invoke, Refuse, ToolFails, Kill, Step, FindBridges, CheckInputs, ExtractBundle, CopyBridge,
         ClearScratch, Zip, Inspect, ReplaceTemporary, Report, ExtractShipped, VerifyArtifact,
         Publish, UndoScratch, UndoTemporary
<1> QED BY <1>1, <1>2, <1>3, OthersApart, GivenStays

LEMMA ChangeBridgeApart ==
    ASSUME ApartInv, ChangeBridge PROVE GivenKept' /\ \A r \in Runs : ApartRun(r)'
<1>1. PICK b \in Bridges : \E f : Write(BridgePath(b), f)
  BY DEF ChangeBridge
<1>2. \A p \in Paths : p # BridgePath(b) => disk'[p] = disk[p]
  BY <1>1 DEF Write, ApartInv, PatchInv, Shapes
<1>3. GivenKept'
  BY <1>2, GivenPaths DEF ApartInv, GivenKept
<1>4. UNCHANGED <<pc, args, main, tree, shipped, todo>>
  BY DEF ChangeBridge, private
<1>5. ASSUME NEW r \in Runs PROVE ApartRun(r)'
  <2>1. CASE pc[r] = "idle"
    BY <1>4, <2>1, IdleApart
  <2>2. CASE pc[r] # "idle"
    <3>1. disk'[Temporary(r)] = disk[Temporary(r)] /\ disk'[Scratch(r)] = disk[Scratch(r)]
      BY <1>2, <2>2, CallPaths, GivenPaths DEF ApartInv, PatchInv, RunInv
    <3>2. Temporary(r)' = Temporary(r) /\ Scratch(r)' = Scratch(r) /\ Out(r)' = Out(r)
      BY <1>4 DEF Temporary, Scratch, Out
    <3> QED BY <1>4, <2>2, <3>1, <3>2 DEF ApartInv, ApartRun, Bundle
  <2> QED BY <2>1, <2>2
<1> QED BY <1>3, <1>5

LEMMA ApartNext == OutputsApart /\ ApartInv /\ [Next]_vars => ApartInv'
<1> SUFFICES ASSUME OutputsApart, ApartInv, [Next]_vars PROVE ApartInv'
  OBVIOUS
<1>1. PatchInv'
  BY NextInv DEF ApartInv
<1>2. CASE ChangeBridge
  BY <1>1, <1>2, ChangeBridgeApart DEF ApartInv
<1>3. ASSUME NEW r \in Runs, Invoke(r) \/ Refuse(r) \/ Step(r) \/ ToolFails(r) \/ Kill(r) PROVE ApartInv'
  BY <1>1, <1>3, RunApart DEF ApartInv
<1>4. CASE UNCHANGED vars
  <2>1. UNCHANGED <<disk, pc, args, main, tree, shipped, todo>>
    BY <1>4 DEF vars
  <2>2. GivenKept'
    BY <2>1 DEF ApartInv, GivenKept
  <2>3. \A r \in Runs : ApartRun(r)'
    BY <2>1 DEF ApartInv, ApartRun, Bundle, Temporary, Scratch, Out
  <2> QED BY <1>1, <2>2, <2>3 DEF ApartInv
<1> QED BY <1>2, <1>3, <1>4 DEF Next

LEMMA ApartInit == Init => ApartInv
<1>1. Init => GivenKept
  BY GivenPaths DEF Init, GivenKept
<1>2. Init => \A r \in Runs : ApartRun(r)
  BY DEF Init, ApartRun, Assembled, Packaged
<1> QED BY <1>1, <1>2, InitInv DEF ApartInv

\* Each run ships from a file of its own what it has assembled and checked.
THEOREM ApartInvariance == ASSUME OutputsApart PROVE Spec => []ApartInv
<1>1. ApartInv /\ [Next]_vars => ApartInv'
  BY ApartNext
<1> QED BY ApartInit, <1>1, PTL DEF Spec

LEMMA PublishedBundle ==
    ASSUME ApartInv, NEW r \in Runs, pc[r] = "publish", Publish(r), ~Fail(r)
    PROVE  /\ disk'[Out(r)] = Artifact(main[r].app, args[r].sel) /\ disk'[Out(r)] = shipped[r]
           /\ main[r].app \in Supported /\ args[r].sel \in Selections
           /\ disk'[Temporary(r)] = NoFile /\ disk'[Scratch(r)] = NoFile
<1>1. disk' = [disk EXCEPT ![Out(r)] = disk[Temporary(r)], ![Temporary(r)] = NoFile]
  BY DEF Publish
<1>2. args[r] \in Calls /\ main[r].app \in Supported /\ args[r].sel \in Selections
  BY DEF ApartInv, PatchInv, RunInv, Calls
<1>3. /\ disk[Temporary(r)] = tree[r] /\ shipped[r] = tree[r] /\ disk[Scratch(r)] = NoFile
      /\ Bundle(r, args[r].sel) /\ \A b \in args[r].sel : tree[r][b] = "good"
  BY DEF ApartInv, ApartRun, Packaged, Assembled
<1>4. "main" \notin args[r].sel
  BY <1>2, CallPaths, PatchAssumption
<1>5. tree[r] = Artifact(main[r].app, args[r].sel)
  BY <1>3, <1>4 DEF Bundle, Artifact
<1>6. disk'[Out(r)] = disk[Temporary(r)] /\ disk'[Temporary(r)] = NoFile /\ disk'[Scratch(r)] = disk[Scratch(r)]
  BY <1>1, <1>2, CallPaths DEF ApartInv, PatchInv, Shapes
<1> QED BY <1>2, <1>3, <1>5, <1>6

\* A run that comes to its end from the last step has published.
LEMMA PublishingStep ==
    ASSUME ApartInv, [Next]_vars, NEW r \in Runs,
           pc[r] = "publish", result'[r] = "published", pc'[r] = "idle"
    PROVE  Publish(r) /\ ~Fail(r)
<1>1. Invoke(r) \/ Refuse(r) \/ Step(r) \/ ToolFails(r) \/ Kill(r)
  BY Mover DEF ApartInv, vars
<1>2. ~Kill(r)
  BY EndPrivate DEF ApartInv, PatchInv, Kill
<1>3. Publish(r)
  BY <1>1, <1>2 DEF Invoke, Refuse, ToolFails, Step, FindBridges, CheckInputs, ExtractBundle, CopyBridge,
         ClearScratch, Zip, Inspect, ReplaceTemporary, Report, ExtractShipped, VerifyArtifact,
         UndoScratch, UndoTemporary
<1>4. ~Fail(r)
  BY RaiseCases DEF Fail, Goto, InZipTry, InPackageTry, ApartInv, PatchInv, Shapes
<1> QED BY <1>3, <1>4

\* An output changes at once to a complete, checked artifact ("Verify the shipped
\* artifact before publishing it", patch_ipa), whatever fails, is killed or changes.
THEOREM OutputsArePublishedWhole == ASSUME OutputsApart PROVE Spec => PublishedWhole
<1>1. ASSUME ApartInv, Next, NEW p \in Outputs, disk'[p] # disk[p]
      PROVE  \E app \in Supported, sel \in Selections : disk'[p] = Artifact(app, sel)
  <2>1. p \in Paths /\ p.prefixes = 0 /\ \A b \in Bridges : p # BridgePath(b)
    BY DEF Outputs, Paths, MaxPrefixes, BridgePath
  <2>2. ~ChangeBridge
    BY <1>1, <2>1 DEF ChangeBridge, Write, ApartInv, PatchInv, Shapes
  <2>3. PICK r \in Runs : Invoke(r) \/ Refuse(r) \/ Step(r) \/ ToolFails(r) \/ Kill(r)
    BY <1>1, <2>2 DEF Next
  <2>4. pc[r] # "idle"
    BY <1>1, <2>3 DEF Invoke, Refuse, ToolFails, Kill, Step, FindBridges, CheckInputs, ExtractBundle,
         CopyBridge, ClearScratch, Zip, Inspect, ReplaceTemporary, Report, ExtractShipped,
         VerifyArtifact, Publish, UndoScratch, UndoTemporary
  <2>5. args[r] \in Calls
    BY <1>1, <2>4 DEF ApartInv, PatchInv, RunInv
  <2>6. Publish(r) /\ p = Out(r)
    BY <1>1, <2>1, <2>3, <2>5, RunTouches, CallPaths DEF ApartInv, PatchInv, Touches
  <2>7. ~Fail(r) /\ pc[r] = "publish"
    BY <1>1, <2>6 DEF Publish, Fail
  <2> QED BY <1>1, <2>6, <2>7, PublishedBundle
<1>2. ApartInv /\ [Next]_vars => [\A p \in Outputs : disk'[p] # disk[p] =>
          \E app \in Supported, sel \in Selections : disk'[p] = Artifact(app, sel)]_vars
  BY <1>1
<1> QED BY <1>2, ApartInvariance, PTL DEF Spec, PublishedWhole

\* The file a run leaves is the one it has verified and printed the digest of.
THEOREM PublishedIsChecked == ASSUME OutputsApart PROVE Spec => CheckedThenPublished
<1>1. ApartInv /\ [Next]_vars =>
        [\A r \in Runs : pc[r] = "publish" /\ result'[r] = "published" /\ pc'[r] = "idle" =>
            disk'[Out(r)] = shipped[r]]_vars
  BY PublishingStep, PublishedBundle
<1> QED BY <1>1, ApartInvariance, PTL DEF Spec, CheckedThenPublished

\* A run that publishes removes the temporaries of the runs that were killed
\* before it with its output, and its own.
THEOREM SuccessCleans == ASSUME OutputsApart PROVE Spec => CleanAfterSuccess
<1>1. ApartInv /\ [Next]_vars =>
        [\A r \in Runs : result'[r] = "published" /\ pc[r] = "publish" /\ pc'[r] = "idle" =>
            disk'[Temporary(r)] = NoFile /\ disk'[Scratch(r)] = NoFile]_vars
  BY PublishingStep, PublishedBundle
<1> QED BY <1>1, ApartInvariance, PTL DEF Spec, CleanAfterSuccess
-----------------------------------------------------------------------------
(***************************************************************************)
(* The safety half of RerunPublishes.  A run that is under way is never    *)
(* set back, and one with good inputs that nothing disturbs any more never *)
(* leaves the way to its publication.  That such a run is scheduled is the *)
(* fairness of FairSpec.                                                   *)
(***************************************************************************)
\* The steps of patch_ipa by how far they are from its end.
Rank ==
    [find_bridges |-> 14, check_inputs |-> 13, bundle |-> 12, copy |-> 11, clear_scratch |-> 10,
     zip |-> 9, inspect |-> 8, replace |-> 7, report |-> 6, extract_shipped |-> 5,
     verify_artifact |-> 4, publish |-> 3, undo_scratch |-> 2, undo_temporary |-> 1, idle |-> 0]

GoesForward(r) ==
    \/ Rank[pc'[r]] < Rank[pc[r]]
    \/ pc[r] = "copy" /\ pc'[r] = "copy" /\ \E b \in todo[r] : todo'[r] = todo[r] \ {b}

LEMMA RaiseGoesForward ==
    ASSUME Shapes, NEW r \in Runs, Raise(r), pc[r] \notin {"idle"} \cup Handlers PROVE GoesForward(r)
<1>1. CASE End(r, "failed")
  BY <1>1, EndPrivate, Phase DEF GoesForward, Rank, Shapes
<1>2. CASE ~End(r, "failed")
  BY <1>2, RaiseCases DEF GoesForward, Rank, Shapes, Goto, InZipTry, InPackageTry
<1> QED BY <1>1, <1>2

LEMMA StepGoesForward ==
    ASSUME Shapes, NEW r \in Runs, pc[r] # "idle", Step(r) \/ ToolFails(r) \/ Kill(r)
    PROVE  GoesForward(r)
<1>1. CASE Kill(r)
  BY <1>1, EndPrivate, Phase DEF Kill, GoesForward, Rank, Shapes
<1>2. CASE ToolFails(r)
  BY <1>2, RaiseGoesForward DEF ToolFails, Handlers
<1>3. ASSUME Fail(r), pc[r] \notin Handlers PROVE GoesForward(r)
  BY <1>3, RaiseGoesForward DEF Fail
<1>4. CASE FindBridges(r) \/ CheckInputs(r) \/ ExtractBundle(r) \/ ClearScratch(r)
  BY <1>3, <1>4 DEF FindBridges, CheckInputs, ExtractBundle, ClearScratch, Goto, GoesForward, Rank,
                    Shapes, Handlers
<1>5. CASE CopyBridge(r)
  <2>1. PICK b \in todo[r] :
          \/ Fail(r)
          \/ /\ todo' = [todo EXCEPT ![r] = todo[r] \ {b}]
             /\ Goto(r, IF todo[r] = {b} THEN "clear_scratch" ELSE "copy")
    BY <1>5 DEF CopyBridge
  <2>2. pc[r] = "copy"
    BY <1>5 DEF CopyBridge
  <2> QED BY <1>3, <2>1, <2>2 DEF Goto, GoesForward, Rank, Shapes, Handlers
<1>6. CASE Zip(r) \/ Inspect(r) \/ ReplaceTemporary(r) \/ Report(r)
  BY <1>3, <1>6 DEF Zip, Inspect, ReplaceTemporary, Report, Goto, GoesForward, Rank, Shapes, Handlers
<1>7. CASE ExtractShipped(r) \/ VerifyArtifact(r) \/ UndoScratch(r)
  BY <1>3, <1>7 DEF ExtractShipped, VerifyArtifact, UndoScratch, Goto, GoesForward, Rank, Shapes, Handlers
<1>8. CASE Publish(r) \/ UndoTemporary(r)
  <2>1. Fail(r) \/ \E how \in {"published", "failed"} : End(r, how)
    BY <1>8 DEF Publish, UndoTemporary
  <2>2. pc[r] \in {"publish", "undo_temporary"} /\ (Fail(r) => pc[r] = "publish" \/ GoesForward(r))
    BY <1>8, <2>1, RaiseCases, EndPrivate
       DEF Publish, UndoTemporary, Fail, InZipTry, InPackageTry, GoesForward, Rank
  <2> QED BY <1>3, <2>1, <2>2, EndPrivate DEF GoesForward, Rank, Handlers
<1> QED BY <1>1, <1>2, <1>4, <1>5, <1>6, <1>7, <1>8 DEF Step

\* What a run that is under way does next brings it nearer to its end, or to
\* the end of the copying: no handler leads back, and no step is taken twice,
\* so that after at most 14 steps and one per dylib the run is over.
THEOREM RunsGoForward ==
    Spec => [][\A r \in Runs : pc[r] # "idle" =>
                  GoesForward(r) \/ UNCHANGED <<pc[r], args[r], tree[r], todo[r]>>]_vars
<1>1. ASSUME PatchInv, Next, NEW r \in Runs, pc[r] # "idle"
      PROVE  GoesForward(r) \/ UNCHANGED <<pc[r], args[r], tree[r], todo[r]>>
  <2>1. CASE ChangeBridge
    BY <2>1 DEF ChangeBridge, private
  <2>2. CASE Step(r) \/ ToolFails(r) \/ Kill(r)
    BY <1>1, <2>2, StepGoesForward DEF PatchInv
  <2>3. CASE \E s \in Runs \ {r} : Invoke(s) \/ Refuse(s) \/ Step(s) \/ ToolFails(s) \/ Kill(s)
    BY <1>1, <2>3, RunKeeps DEF StepKeeps, Private
  <2> QED BY <1>1, <2>1, <2>2, <2>3 DEF Next, Invoke, Refuse
<1>2. PatchInv /\ [Next]_vars =>
        [\A r \in Runs : pc[r] # "idle" =>
            GoesForward(r) \/ UNCHANGED <<pc[r], args[r], tree[r], todo[r]>>]_vars
  BY <1>1
<1> QED BY <1>2, PatchInvariance, PTL DEF Spec

\* A run with good dylibs that nothing disturbs any more, wherever it is: what
\* it has assembled is good as well.
OnCourse(r) ==
    /\ faults = 0
    /\ pc[r] \in Steps \ ({"idle"} \cup Handlers)
    /\ ~OverwritesInput(r)
    /\ \A b \in args[r].sel : disk[BridgePath(b)] = Dylib(b, "good")
    /\ pc[r] = "copy" => todo[r] # {} /\ \A b \in args[r].sel \ todo[r] : tree[r][b] = "good"
    /\ pc[r] \in Assembled => \A b \in args[r].sel : tree[r][b] = "good"

PublishedBy(r) == pc'[r] = "idle" /\ result'[r] = "published"

\* Its dylibs are there, and are what verify_bridge accepts.
LEMMA CourseBridges ==
    ASSUME NEW r \in Runs, OnCourse(r), NEW b \in args[r].sel
    PROVE  ~Missing(BridgePath(b)) /\ GoodBridge(b, disk[BridgePath(b)])
<1>1. disk[BridgePath(b)] = Dylib(b, "good")
  BY DEF OnCourse
<1>2. DOMAIN Dylib(b, "good") = {b} /\ Dylib(b, "good")[b] = "good" /\ DOMAIN NoFile = {}
  BY DEF Dylib, NoFile
<1> QED BY <1>1, <1>2 DEF Missing, GoodBridge

\* Nobody changes them: the run itself writes only to its temporaries before
\* it is over, and the outputs of the others are other files.
LEMMA CourseDylibs ==
    ASSUME InputsApart, ApartInv, NEW r \in Runs, OnCourse(r), NEW s \in Runs,
           Invoke(s) \/ Refuse(s) \/ Step(s) \/ ToolFails(s) \/ Kill(s)
    PROVE  \A b \in args[r].sel : disk'[BridgePath(b)] = disk[BridgePath(b)]
<1> SUFFICES ASSUME NEW b \in args[r].sel PROVE disk'[BridgePath(b)] = disk[BridgePath(b)]
  OBVIOUS
<1>1. pc[r] # "idle" /\ args[r] \in Calls /\ args[r].sel \subseteq Bridges
  BY CallPaths DEF OnCourse, ApartInv, PatchInv, RunInv
<1>2. BridgePath(b) \in Paths /\ BridgePath(b).prefixes = 0
  BY <1>1, GivenPaths
<1>3. CASE pc[s] = "idle"
  BY <1>3 DEF Invoke, Refuse, ToolFails, Kill, Step, FindBridges, CheckInputs, ExtractBundle, CopyBridge,
         ClearScratch, Zip, Inspect, ReplaceTemporary, Report, ExtractShipped, VerifyArtifact,
         Publish, UndoScratch, UndoTemporary
<1>4. CASE pc[s] # "idle"
  <2>1. args[s] \in Calls /\ Touches(s)
    BY <1>4, RunTouches DEF ApartInv, PatchInv, RunInv
  <2>2. Temporary(s).prefixes = 1 /\ Scratch(s).prefixes = 2
    BY <2>1, CallPaths
  <2>3. Out(s) # BridgePath(b)
    <3>1. CASE s = r
      BY <3>1 DEF OnCourse, OverwritesInput
    <3>2. CASE s # r
      <4>1. PICK i \in Invocations[r] : args[r].sel = i.sel
        BY <1>1 DEF ApartInv, ApartRun
      <4>2. PICK j \in Invocations[s] : Out(s) = OutputOf(j)
        BY <1>4 DEF ApartInv, ApartRun
      <4> QED BY <3>2, <4>1, <4>2 DEF InputsApart
    <3> QED BY <3>1, <3>2
  <2> QED BY <1>2, <2>1, <2>2, <2>3 DEF Touches
<1> QED BY <1>3, <1>4
\* The steps of the others leave a run on its course.
LEMMA CourseOthers ==
    ASSUME InputsApart, ApartInv, NEW r \in Runs, OnCourse(r), NEW s \in Runs \ {r},
           Invoke(s) \/ Refuse(s) \/ Step(s), UNCHANGED faults
    PROVE  OnCourse(r)'
<1>1. /\ pc'[r] = pc[r] /\ args'[r] = args[r] /\ tree'[r] = tree[r] /\ todo'[r] = todo[r]
  BY RunKeeps DEF ApartInv, StepKeeps, Private
<1>2. \A b \in args[r].sel : disk'[BridgePath(b)] = disk[BridgePath(b)]
  BY CourseDylibs
<1>3. OverwritesInput(r)' <=> OverwritesInput(r)
  BY <1>1 DEF OverwritesInput, Out
<1> QED BY <1>1, <1>2, <1>3 DEF OnCourse

\* A step of the run that moves it on and keeps its bundle.
LEMMA CourseAdvance ==
    ASSUME InputsApart, ApartInv, NEW r \in Runs, OnCourse(r), Step(r),
           NEW l \in Assembled \cup {"check_inputs", "bundle"}, Goto(r, l),
           UNCHANGED <<args, tree, todo, faults>>, l \in Assembled => pc[r] \in Assembled
    PROVE  OnCourse(r)'
<1>1. pc'[r] = l /\ l \in Steps \ ({"idle", "copy"} \cup Handlers)
  BY DEF Goto, ApartInv, PatchInv, Shapes, Steps, Assembled, Packaged, BeforeTry, InPackageTry,
         InZipTry, Handlers
<1>2. \A b \in args[r].sel : disk'[BridgePath(b)] = disk[BridgePath(b)]
  BY CourseDylibs
<1>3. OverwritesInput(r)' <=> OverwritesInput(r)
  BY DEF OverwritesInput, Out
<1> QED BY <1>1, <1>2, <1>3 DEF OnCourse, Assembled, Packaged

\* Whatever has been assembled is the main and the selected dylibs.
LEMMA AssembledTree ==
    ASSUME ApartInv, NEW r \in Runs, pc[r] \in Assembled
    PROVE  /\ DOMAIN tree[r] = {"main"} \cup args[r].sel
           /\ tree[r]["main"] = Main(main[r].app, args[r].sel)
<1>1. Bundle(r, args[r].sel)
  BY DEF ApartInv, ApartRun
<1> QED BY <1>1 DEF Bundle

\* None of the run's own steps fails.
LEMMA CourseBegins ==
    ASSUME InputsApart, ApartInv, NEW r \in Runs, OnCourse(r), FindBridges(r) \/ CheckInputs(r)
    PROVE  OnCourse(r)'
<1>1. CASE FindBridges(r)
  <2>1. Goto(r, "check_inputs") /\ UNCHANGED private /\ Keep
    BY <1>1, CourseBridges DEF FindBridges, OnCourse
  <2> QED BY <1>1, <2>1, CourseAdvance DEF private, Keep, Step, Assembled, Packaged
<1>2. CASE CheckInputs(r)
  <2>1. Goto(r, "bundle") /\ UNCHANGED <<private, result, orphans, faults>>
    BY <1>2, CourseBridges DEF CheckInputs
  <2> QED BY <1>2, <2>1, CourseAdvance DEF private, Step, Assembled, Packaged
<1> QED BY <1>1, <1>2

LEMMA CourseBundle ==
    ASSUME InputsApart, ApartInv, NEW r \in Runs, OnCourse(r), ExtractBundle(r) PROVE OnCourse(r)'
<1>1. pc[r] = "bundle" /\ args[r] \in Calls /\ args[r].sel # {}
  BY CallPaths DEF ExtractBundle, ApartInv, PatchInv, RunInv
<1>2. "main" \in DOMAIN disk[args[r].src]
  <2>1. args[r].src \in DOMAIN Given /\ DOMAIN Given[args[r].src] = {"main"}
    BY <1>1 DEF ApartInv, ApartRun, PatchInv, RunInv
  <2>2. disk[args[r].src] = Given[args[r].src]
    BY <2>1 DEF ApartInv, GivenKept
  <2> QED BY <2>1, <2>2
<1>3. /\ todo' = [todo EXCEPT ![r] = args[r].sel] /\ Goto(r, "copy") /\ UNCHANGED args /\ Keep
  BY <1>2 DEF ExtractBundle
<1>4. todo'[r] = args[r].sel /\ pc'[r] = "copy" /\ args'[r] = args[r]
  BY <1>3 DEF Goto, ApartInv, PatchInv, Shapes
<1>5. OverwritesInput(r)' <=> OverwritesInput(r)
  BY <1>3 DEF OverwritesInput, Out
<1>6. "copy" \in Steps \ ({"idle"} \cup Handlers) /\ "copy" \notin Assembled
  BY DEF Steps, InPackageTry, Handlers, Assembled, Packaged
<1> QED BY <1>1, <1>3, <1>4, <1>5, <1>6 DEF OnCourse, Keep

LEMMA CourseCopy ==
    ASSUME InputsApart, ApartInv, NEW r \in Runs, OnCourse(r), CopyBridge(r) PROVE OnCourse(r)'
<1>1. pc[r] = "copy" /\ todo[r] \subseteq args[r].sel
  BY DEF CopyBridge, ApartInv, PatchInv, RunInv
<1>2. PICK b \in todo[r] :
        /\ tree' = [tree EXCEPT ![r] = Over(Copied(b), tree[r])]
        /\ todo' = [todo EXCEPT ![r] = todo[r] \ {b}]
        /\ Goto(r, IF todo[r] = {b} THEN "clear_scratch" ELSE "copy")
        /\ UNCHANGED args /\ Keep
  BY <1>1, CourseBridges DEF CopyBridge
<1>3. /\ tree'[r] = Over(Copied(b), tree[r]) /\ todo'[r] = todo[r] \ {b} /\ args'[r] = args[r]
      /\ pc'[r] = IF todo[r] = {b} THEN "clear_scratch" ELSE "copy"
  BY <1>2 DEF Goto, ApartInv, PatchInv, Shapes
<1>4. Copied(b) = Dylib(b, "good")
  BY <1>1, CourseBridges DEF Copied
<1>5. DOMAIN tree[r] = {"main"} \cup (args[r].sel \ todo[r])
  BY <1>1 DEF ApartInv, ApartRun, Bundle
<1>6. ASSUME NEW c \in args[r].sel \ todo'[r] PROVE tree'[r][c] = "good"
  <2>1. CASE c = b
    BY <1>3, <1>4, <2>1 DEF Over, Dylib
  <2>2. CASE c # b
    BY <1>1, <1>3, <1>4, <1>5, <2>2 DEF Over, Dylib, OnCourse
  <2> QED BY <2>1, <2>2
<1>7. OverwritesInput(r)' <=> OverwritesInput(r)
  BY <1>2 DEF OverwritesInput, Out
<1>8. {"copy", "clear_scratch"} \subseteq Steps \ ({"idle"} \cup Handlers) /\ "copy" \notin Assembled
  BY DEF Steps, InPackageTry, Handlers, Assembled, Packaged
<1>9. pc'[r] = "copy" => todo'[r] # {}
  BY <1>2, <1>3
<1>10. pc'[r] = "clear_scratch" => todo'[r] = {}
  BY <1>3
<1> QED BY <1>2, <1>3, <1>6, <1>7, <1>8, <1>9, <1>10 DEF OnCourse, Keep

LEMMA CoursePackages ==
    ASSUME InputsApart, ApartInv, NEW r \in Runs, OnCourse(r),
           ClearScratch(r) \/ Zip(r) \/ Inspect(r) \/ ReplaceTemporary(r)
    PROVE  OnCourse(r)'
<1> USE DEF Assembled, Packaged
<1>1. CASE ClearScratch(r)
  BY <1>1, CourseAdvance DEF ClearScratch, private, Step
<1>2. CASE Zip(r)
  BY <1>2, CourseAdvance DEF Zip, private, Step
<1>3. CASE Inspect(r)
  <2>1. disk[Scratch(r)] = tree[r] /\ DOMAIN tree[r] = {"main"} \cup args[r].sel
    BY <1>3, AssembledTree DEF Inspect, ApartInv, ApartRun
  <2>2. Goto(r, "replace") /\ UNCHANGED private /\ Keep /\ pc[r] = "inspect"
    BY <1>3, <2>1 DEF Inspect, Carries
  <2> QED BY <1>3, <2>2, CourseAdvance DEF private, Keep, Step
<1>4. CASE ReplaceTemporary(r)
  <2>1. disk[Scratch(r)] = tree[r] /\ "main" \in DOMAIN tree[r]
    BY <1>4, AssembledTree DEF ReplaceTemporary, ApartInv, ApartRun
  <2>2. ~Missing(Scratch(r))
    BY <2>1 DEF Missing, NoFile
  <2>3. Goto(r, "report") /\ UNCHANGED <<private, result, orphans, faults>> /\ pc[r] = "replace"
    BY <1>4, <2>2 DEF ReplaceTemporary
  <2> QED BY <1>4, <2>3, CourseAdvance DEF private, Step
<1> QED BY <1>1, <1>2, <1>3, <1>4

LEMMA CourseVerifies ==
    ASSUME InputsApart, ApartInv, NEW r \in Runs, OnCourse(r),
           Report(r) \/ ExtractShipped(r) \/ VerifyArtifact(r)
    PROVE  OnCourse(r)'
<1> USE DEF Assembled, Packaged
<1>1. CASE Report(r)
  <2>1. Goto(r, "extract_shipped") /\ UNCHANGED private /\ Keep /\ pc[r] = "report"
    BY <1>1, CourseBridges DEF Report
  <2> QED BY <1>1, <2>1, CourseAdvance DEF private, Keep, Step
<1>2. CASE ExtractShipped(r)
  <2>1. disk[Temporary(r)] = tree[r] /\ "main" \in DOMAIN tree[r]
    BY <1>2, AssembledTree DEF ExtractShipped, ApartInv, ApartRun
  <2>2. Goto(r, "verify_artifact") /\ UNCHANGED <<args, main, tree, todo>> /\ Keep
        /\ pc[r] = "extract_shipped"
    BY <1>2, <2>1 DEF ExtractShipped
  <2> QED BY <1>2, <2>2, CourseAdvance DEF Keep, Step
<1>3. CASE VerifyArtifact(r)
  <2>1. /\ shipped[r] = tree[r] /\ tree[r]["main"] = Main(main[r].app, args[r].sel)
        /\ args[r].sel \subseteq DOMAIN tree[r] /\ \A b \in args[r].sel : tree[r][b] = "good"
    BY <1>3, AssembledTree DEF VerifyArtifact, ApartInv, ApartRun, OnCourse
  <2>2. Goto(r, "publish") /\ UNCHANGED private /\ Keep /\ pc[r] = "verify_artifact"
    BY <1>3, <2>1 DEF VerifyArtifact, GoodBridge
  <2> QED BY <1>3, <2>2, CourseAdvance DEF private, Keep, Step
<1> QED BY <1>1, <1>2, <1>3

LEMMA CourseEnds ==
    ASSUME ApartInv, NEW r \in Runs, Publish(r) PROVE PublishedBy(r)
<1>1. disk[Temporary(r)] = tree[r] /\ "main" \in DOMAIN tree[r]
  BY AssembledTree DEF Publish, ApartInv, ApartRun, Assembled, Packaged
<1>2. ~Missing(Temporary(r))
  BY <1>1 DEF Missing, NoFile
<1>3. End(r, "published")
  BY <1>2 DEF Publish
<1> QED BY <1>3, EndPrivate DEF ApartInv, PatchInv, PublishedBy

LEMMA CourseKept ==
    ASSUME InputsApart, ApartInv, Next, NEW r \in Runs, OnCourse(r)
    PROVE  OnCourse(r)' \/ PublishedBy(r)
<1>1. faults = 0 /\ pc[r] # "idle" /\ pc[r] \notin Handlers
  BY DEF OnCourse
<1>2. ~ChangeBridge /\ \A s \in Runs : ~ToolFails(s) /\ ~Kill(s)
  BY <1>1 DEF ChangeBridge, ToolFails, Kill, Fault
<1>3. CASE Step(r)
  BY <1>1, <1>3, CourseBegins, CourseBundle, CourseCopy, CoursePackages, CourseVerifies, CourseEnds
     DEF Step, UndoScratch, UndoTemporary, Handlers
<1>4. CASE \E s \in Runs \ {r} : Invoke(s) \/ Refuse(s) \/ Step(s)
  <2>1. PICK s \in Runs \ {r} : Invoke(s) \/ Refuse(s) \/ Step(s)
    BY <1>4
  <2>2. UNCHANGED faults
    BY <2>1 DEF Invoke, Refuse, Step, FindBridges, CheckInputs, ExtractBundle, CopyBridge,
           ClearScratch, Zip, Inspect, ReplaceTemporary, Report, ExtractShipped, VerifyArtifact,
           Publish, UndoScratch, UndoTemporary, Fail, Keep
  <2> QED BY <2>1, <2>2, CourseOthers
<1> QED BY <1>1, <1>2, <1>3, <1>4 DEF Next, Invoke, Refuse

\* A run that starts undisturbed, whatever earlier, killed runs have left, goes
\* from one step of patch_ipa to the next and enters no handler until it has
\* published; the other runs, whose outputs are other files, do not stop it.
THEOREM UndisturbedRunsPublish ==
    ASSUME OutputsApart, InputsApart
    PROVE  Spec => /\ [](\A r \in Runs : Undisturbed(r) => OnCourse(r))
                   /\ [][\A r \in Runs : OnCourse(r) => OnCourse(r)' \/ PublishedBy(r)]_vars
<1>1. ApartInv => \A r \in Runs : Undisturbed(r) => OnCourse(r)
  BY DEF Undisturbed, OnCourse, Steps, BeforeTry, Handlers, Assembled, Packaged
<1>2. ApartInv /\ [Next]_vars => [\A r \in Runs : OnCourse(r) => OnCourse(r)' \/ PublishedBy(r)]_vars
  BY CourseKept
<1> QED BY <1>1, <1>2, ApartInvariance, PTL DEF Spec
=============================================================================
